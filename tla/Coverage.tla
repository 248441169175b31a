------------------------------ MODULE Coverage ------------------------------
(* Coverage from a response on its way to the page to the runner's map of     *)
(* edges: the task that intercepts documents and scripts                      *)
(* (browser/instrumentation.rs, instrumentation/html.rs), the scripts that    *)
(* run in the page with their hooks, the capture of a state                   *)
(* (browser/state.rs) and the runner's maxima (runner.rs).  The page's        *)
(* navigations, the server's responses and failing DevTools calls are the     *)
(* environment.  Hooks are ids, and what they compute is module EdgeMap's.    *)
EXTENDS Integers, Sequences, FiniteSets

CONSTANTS
    MapSize,             \* EDGE_MAP_SIZE
    CountLimit,          \* of a count, which wraps (256)
    Ids,                 \* of hooks
    IndexOf(_, _),       \* that a hook computes from its id and the location
    LocationOf(_),       \* that it leaves
    BucketOf(_),         \* of a count
    Responses(_),        \* to a request of a type: what the server may send
    Sources,             \* the contents of the scripts
    Paths(_),            \* of a source: the hooks a run of it may visit, in order
    MaxNavigations,      \* bound: documents
    MaxScripts,          \* bound: script requests of a document
    MaxRuns,             \* bound: runs of scripts
    MaxFaults            \* bound: DevTools calls that fail

(* A remainder may be negative, and is smaller than what it is a remainder of.*)
Indices == 0..(MapSize - 1)
AllIndices == (1 - MapSize)..(MapSize - 1)
Counts == 0..(CountLimit - 1)
Locations == {0} \cup {LocationOf(id) : id \in Ids}

ASSUME EdgesAssumption ==
    /\ MapSize \in Nat \ {0} /\ CountLimit \in Nat \ {0}
    /\ \A id \in Ids, location \in Locations :
        IndexOf(id, location) \in AllIndices
    /\ \A count \in Counts : BucketOf(count) \in 0..8
    /\ BucketOf(0) = 0
    /\ \A source \in Sources : \A path \in Paths(source) : path \in Seq(Ids)

(* A script response is one script.                                           *)
ASSUME PageAssumption ==
    /\ \A type \in {"Document", "Script"} : \A response \in Responses(type) :
        /\ response.scripts \in Seq([source : Sources, parses : BOOLEAN])
        /\ type = "Script" => Len(response.scripts) = 1
    /\ \A bound \in {MaxNavigations, MaxScripts, MaxRuns, MaxFaults} :
        bound \in Nat

VARIABLES
    config,              \* InstrumentationConfig
    (* requests: Fetch.requestPaused *)
    requests,            \* every request, in the order of their pausing
    queue,               \* the numbers of those the task has not taken yet
    request,             \* the one it has taken, 0 for none
    step,                \* the DevTools call it makes for it
    body,                \* original or instrumented
    answers,             \* for each request, how it ended
    faults,
    (* the page *)
    latest,              \* the navigation under way, or the last one
    document,            \* the one the page shows
    scripts,             \* the instrumented sources in it
    window,              \* its window.__bombadil__
    runs,
    (* the states and the runner *)
    edges,               \* the global edges
    transitionHash,      \* of the last state
    (* history *)
    hits,                \* how often an index was hit since the last capture
    hitsCaptured,        \* the same up to the last capture
    best                 \* the largest buckets of all captures

requestVars == <<requests, queue, request, step, body, answers>>
pageVars == <<latest, document, scripts, window, runs>>
stateVars == <<edges, transitionHash, hitsCaptured, best>>
vars == <<config, requestVars, faults, pageVars, stateVars, hits>>

-----------------------------------------------------------------------------
NoEdges == [i \in Indices |-> 0]
NoWindow == [exists |-> FALSE]
Fresh == [exists |-> TRUE, current |-> NoEdges, previous |-> NoEdges,
          location |-> 0]
NoHash == [none |-> TRUE]
NoHits == [i \in AllIndices |-> 0]

Init ==
    /\ config \in [files : BOOLEAN, inline : BOOLEAN]
    /\ requests = <<>> /\ queue = <<>> /\ request = 0
    /\ step = "none" /\ body = "original" /\ answers = <<>>
    /\ faults = 0
    /\ latest = 0 /\ document = 0 /\ scripts = {} /\ window = NoWindow
    /\ runs = 0
    /\ edges = NoEdges /\ transitionHash = NoHash
    /\ hits = NoHits /\ hitsCaptured = NoHits /\ best = NoEdges

-----------------------------------------------------------------------------
(* Requests *)
Request(type, of, response) ==
    [type |-> type, document |-> of, response |-> response]

(* A request lasts as long as its navigation, or as the document that makes   *)
(* it; then DevTools no longer knows its id.                                  *)
Alive(r) ==
    r.document = IF r.type = "Document" THEN latest ELSE document

Pause(r) ==
    /\ requests' = Append(requests, r)
    /\ queue' = Append(queue, Len(requests) + 1)
    /\ answers' = Append(answers, "none")

Navigate ==
    /\ latest < MaxNavigations
    /\ latest' = latest + 1
    /\ \E response \in Responses("Document") :
        Pause(Request("Document", latest', response))
    /\ UNCHANGED <<config, request, step, body, faults, document, scripts,
                   window, runs, stateVars, hits>>

RequestScript ==
    /\ document > 0
    /\ Cardinality({i \in DOMAIN requests :
                        requests[i] = Request("Script", document,
                                              requests[i].response)})
           < MaxScripts
    /\ \E response \in Responses("Script") :
        Pause(Request("Script", document, response))
    /\ UNCHANGED <<config, request, step, body, faults, pageVars, stateVars,
                   hits>>

-----------------------------------------------------------------------------
(* The task of instrument_js_coverage, one request after the other            *)

FirstCallAlways(response) == "get body"
FirstCall(response) == IF response.status = 200 THEN "get body" ELSE "continue"

TakeRequest ==
    /\ request = 0 /\ queue # <<>>
    /\ request' = Head(queue)
    /\ queue' = Tail(queue)
    /\ step' = FirstCall(requests[request'].response)
    /\ body' = "original"
    /\ UNCHANGED <<config, requests, answers, faults, pageVars, stateVars, hits>>

Taken == requests[request]
Response == Taken.response

(* The header decides what a document is; without one, its first characters.  *)
IsHtmlDocument(r) ==
    /\ r.type = "Document"
    /\ \/ r.response.contentType = "html"
       \/ r.response.contentType = "none" /\ ~r.response.xml

ToInstrument(r) ==
    IF r.type = "Script" THEN config.files
    ELSE IsHtmlDocument(r) /\ config.inline

(* instrument_source_code puts the hooks into a script that parses;           *)
(* instrument_inline_scripts into every inline script of a document or, when  *)
(* one of them does not parse, into none.                                     *)
InstrumentSourceCode(script) == script.parses
InstrumentInlineScripts(response) ==
    \A i \in DOMAIN response.scripts : InstrumentSourceCode(response.scripts[i])
Instrumentable(r) ==
    IF r.type = "Script" THEN InstrumentSourceCode(r.response.scripts[1])
    ELSE InstrumentInlineScripts(r.response)

(* The body is decoded, and parsed where it is to be instrumented.            *)
GetBody ==
    /\ request # 0 /\ step = "get body" /\ Alive(Taken)
    /\ IF ~Response.text \/ (ToInstrument(Taken) /\ ~Instrumentable(Taken))
       THEN step' = "recover" /\ UNCHANGED body
       ELSE /\ step' = "fulfill"
            /\ body' = IF ToInstrument(Taken) THEN "instrumented" ELSE body
    /\ UNCHANGED <<config, requests, queue, request, answers, faults, pageVars,
                   stateVars, hits>>

Done(answer) ==
    /\ answers' = [answers EXCEPT ![request] = answer]
    /\ request' = 0
    /\ step' = "none"
    /\ body' = "original"
    /\ UNCHANGED <<requests, queue>>

Hooked == {Response.scripts[i].source : i \in DOMAIN Response.scripts}

(* The page gets the answer: a document takes the place of the one before,    *)
(* with a window of its own, and inline scripts have ids derived from its id. *)
Loads(withHooks) ==
    IF Taken.type = "Document"
    THEN /\ document' = Taken.document
         /\ window' = NoWindow
         /\ scripts' = IF withHooks THEN Hooked ELSE {}
    ELSE /\ scripts' = IF withHooks THEN scripts \cup Hooked ELSE scripts
         /\ UNCHANGED <<document, window>>

Answers(answer) ==
    /\ Alive(Taken)
    /\ Loads(answer = "instrumented")
    /\ hits' = IF Taken.type = "Document" THEN NoHits ELSE hits
    /\ Done(answer)
    /\ UNCHANGED <<config, faults, latest, runs, stateVars>>

FulfillRequest == request # 0 /\ step = "fulfill" /\ Answers(body)
ContinueRequest ==
    request # 0 /\ step \in {"continue", "recover"} /\ Answers("as sent")

(* "Invalid InterceptionId": nothing is left to be done, unless it is the     *)
(* attempt to recover, whose error is logged like any other.                  *)
InvalidatedForEver ==           \* As if it were tried again
    request # 0 /\ ~Alive(Taken) /\ UNCHANGED vars
Invalidated ==
    /\ request # 0 /\ ~Alive(Taken)
    /\ Done("invalid")
    /\ UNCHANGED <<config, faults, pageVars, stateVars, hits>>

AfterFault(failed) == IF failed = "recover" THEN "none" ELSE "recover"

CallFails ==
    /\ request # 0 /\ faults < MaxFaults /\ Alive(Taken)
    /\ faults' = faults + 1
    /\ IF AfterFault(step) = "none"
       THEN Done("paused")
       ELSE /\ step' = AfterFault(step)
            /\ body' = "original"
            /\ UNCHANGED <<requests, queue, request, answers>>
    /\ UNCHANGED <<config, pageVars, stateVars, hits>>

-----------------------------------------------------------------------------
(* edges_current[(id ^ previous) % 65536] += 1; previous = id >> 1            *)

(* A typed array drops a write to an index it does not have.                  *)
IncrementUnbounded(counts, index) ==     \* As if of numbers, not of bytes
    IF index \in Indices THEN [counts EXCEPT ![index] = @ + 1] ELSE counts
Increment(counts, index) ==
    IF index \in Indices
    THEN [counts EXCEPT ![index] = (@ + 1) % CountLimit]
    ELSE counts

Visit(ran, id) ==
    LET index == IndexOf(id, ran.window.location)
    IN [window |-> [ran.window EXCEPT
                        !.current = Increment(@, index),
                        !.location = LocationOf(id)],
        hits |-> [ran.hits EXCEPT ![index] = @ + 1]]

RanThrough(first, path) ==
    LET ran[n \in 0..Len(path)] ==
            IF n = 0 THEN first ELSE Visit(ran[n - 1], path[n])
    IN ran[Len(path)]

(* The page runs a script with hooks; its prelude makes the window's record   *)
(* if it is the first one.                                                    *)
Run ==
    /\ runs < MaxRuns
    /\ \E source \in scripts : \E path \in Paths(source) :
        LET first == [window |-> IF window.exists THEN window ELSE Fresh,
                      hits |-> hits]
        IN \E ran \in {RanThrough(first, path)} :
            window' = ran.window /\ hits' = ran.hits
    /\ runs' = runs + 1
    /\ UNCHANGED <<config, requestVars, faults, latest, document, scripts,
                   stateVars>>

-----------------------------------------------------------------------------
(* A state: BrowserState::current, and the runner's update of its edges       *)
Bucketed(counts) == [i \in Indices |-> BucketOf(counts[i])]
Differences ==
    {i \in Indices : BucketOf(window.current[i]) # window.previous[i]}

(* The transition hash is a function of the buckets, and nothing without any. *)
SimHash(buckets) == IF buckets = NoEdges THEN NoHash ELSE buckets

Larger(m, n) == IF m > n THEN m ELSE n

UpdateOverwriting(known, new) == new
UpdateEdge(known, new) == Larger(known, new)

ShiftWithoutClearing ==
    window' = [window EXCEPT !.previous = Bucketed(window.current),
                             !.current = Bucketed(window.current)]
Shift ==
    window' = [window EXCEPT !.previous = Bucketed(window.current),
                             !.current = NoEdges]

Capture ==
    /\ document > 0
    /\ IF window.exists
       THEN /\ edges' = [i \in Indices |->
                            IF i \in Differences
                            THEN UpdateEdge(edges[i],
                                            BucketOf(window.current[i]))
                            ELSE edges[i]]
            /\ Shift
            /\ transitionHash' = SimHash(window'.previous)
       ELSE transitionHash' = NoHash /\ UNCHANGED <<edges, window>>
    /\ hitsCaptured' = hits
    /\ hits' = NoHits
    /\ best' = [i \in Indices |->
                    Larger(best[i], BucketOf(hits[i] % CountLimit))]
    /\ UNCHANGED <<config, requestVars, faults, latest, document, scripts,
                   runs>>

-----------------------------------------------------------------------------
Intercept == TakeRequest \/ GetBody \/ FulfillRequest \/ ContinueRequest
                 \/ Invalidated
Page == Navigate \/ RequestScript \/ Run

Next == Intercept \/ CallFails \/ Page \/ Capture

(* The task runs, and DevTools answers it.                                    *)
Spec == Init /\ [][Next]_vars /\ WF_vars(Intercept)

-----------------------------------------------------------------------------
(* Types *)
TypeOK ==
    /\ config \in [files : BOOLEAN, inline : BOOLEAN]
    /\ DOMAIN answers = DOMAIN requests
    /\ \A i \in DOMAIN queue : queue[i] \in DOMAIN requests
    /\ request \in {0} \cup DOMAIN requests
    /\ step \in {"none", "get body", "fulfill", "continue", "recover"}
    /\ (request = 0) = (step = "none")
    /\ body \in {"original", "instrumented"}
    /\ document \in 0..latest /\ latest \in 0..MaxNavigations
    /\ window.exists =>
        /\ window.current \in [Indices -> Counts]
        /\ window.previous \in [Indices -> 0..8]
    /\ edges \in [Indices -> 0..8]

(* The runner's edges are the largest buckets that any state had, although a  *)
(* state reports only what changed since the one before, and windows come and *)
(* go.  What no state can show are an edge whose index is negative and one    *)
(* that was hit a multiple of 256 times (BrowserState::current, run_test).    *)
EdgesAreMaxima == edges = best

(* A state's transition hash tells the buckets of what ran in its document    *)
(* since the last state, and nothing of what ran before (BrowserState::       *)
(* current).                                                                  *)
HashOfWhatRan ==
    transitionHash =
        SimHash([i \in Indices |-> BucketOf(hitsCaptured[i] % CountLimit)])

(* A response that is not a success, one that does not decode or one that     *)
(* does not parse comes to the page as it was sent, and so does every one     *)
(* after a failed call; all others have hooks, where they are to have them    *)
(* (instrument_js_coverage).                                                  *)
PageGetsWhatWasSent ==
    \A i \in DOMAIN requests :
        LET r == requests[i]
            instrumentable == /\ r.response.status = 200 /\ r.response.text
                              /\ ToInstrument(r)
                              /\ \A n \in DOMAIN r.response.scripts :
                                    r.response.scripts[n].parses
        IN /\ answers[i] = "instrumented" => instrumentable
           /\ answers[i] = "as sent" /\ instrumentable => faults > 0
           /\ answers[i] = "paused" => faults > 0

(* Every request that waits for its answer gets one or becomes invalid, in    *)
(* spite of the ones that fail before it; only a request whose recovery       *)
(* failed too stays paused (instrument_js_coverage).                          *)
Waiting(i) == i \in DOMAIN answers /\ answers[i] = "none"
EveryRequestIsAnswered ==
    \A i \in 1..(MaxNavigations * (1 + MaxScripts)) :
        Waiting(i) ~> ~Waiting(i)
=============================================================================
