------------------------------ MODULE TestRun ------------------------------
(* A whole test: the command line's test and its MainObserver                 *)
(* (bombadil-cli/src/main.rs), Runner::run and run_test (runner.rs), the      *)
(* thread of the verifier (specification/worker.rs) and the trace writer      *)
(* (trace/writer.rs).  The browser delivers states (module BrowserMachine)    *)
(* and is reduced to that here; what a state makes the specification say, the *)
(* disk, the clock and the user's signals are the environment.                *)
(*                                                                            *)
(* One action is one step between two awaits of the runner, or one step of    *)
(* the worker's thread.                                                       *)
EXTENDS Integers, Sequences

CONSTANTS
    Generated,        \* the trees of actions a specification generates
    NoActions,        \* instead of a tree: an error, or nothing left
    Converted(_),     \* Tree::try_map with the conversion to browser actions
    Restricted(_),    \* Tree::filter as applied outside of the origin
    Prunes(_),        \* Tree::prune
    Chooses(_),       \* Tree::pick: its possible results, NoActions for an error
    LeavesOf(_),      \* the actions a tree holds
    HasZeroWeight(_), \* whether some branch of it weighs nothing
    Convertible(_),   \* whether to_browser_action takes an action
    GoBack,           \* the action that is kept outside of the origin
    Urls,             \* records of a host and a port, or none of one
    NoPart,           \* a URL without a host, or without an explicit port
    Origin,           \* the URL the test starts with
    MaxStates,        \* bound: states the browser delivers
    MaxViolations,    \* bound: violations one state can have
    MaxTime,          \* bound: readings of the clock
    MaxInterrupts     \* bound: SIGINTs

ASSUME ConstantsAssumption ==
    /\ \A bound \in {MaxStates, MaxViolations, MaxTime, MaxInterrupts} :
        bound \in Nat
    /\ Origin \in Urls
    /\ \A url \in Urls : DOMAIN url = {"host", "port"}
    /\ NoActions \notin Generated

(* The trees the runner gets to choose from, and the actions it may find      *)
Trees ==
    LET converted == {Converted(g) : g \in Generated} \ {NoActions}
    IN converted \cup {Restricted(c) : c \in converted}
Actions ==
    (UNION {Chooses(Prunes(t)) : t \in {u \in Trees : Prunes(u) # NoActions}})
        \ {NoActions}

(* What the runner relies on.  Conversion keeps a tree or refuses it for one  *)
(* of its leaves; the filter keeps the leaves that go back; pruning leaves    *)
(* nothing only of a tree without leaves; and a choice is a leaf, or fails    *)
(* for a weight of zero.                                                      *)
ASSUME TreesAssumption ==
    /\ \A g \in Generated :
        IF \A action \in LeavesOf(g) : Convertible(action)
        THEN /\ Converted(g) # NoActions /\ LeavesOf(Converted(g)) = LeavesOf(g)
             /\ HasZeroWeight(Converted(g)) => HasZeroWeight(g)
        ELSE Converted(g) = NoActions
    /\ \A t \in Trees :
        /\ LeavesOf(Restricted(t)) = LeavesOf(t) \cap {GoBack}
        /\ HasZeroWeight(Restricted(t)) => HasZeroWeight(t)
        /\ IF Prunes(t) = NoActions THEN LeavesOf(t) = {}
           ELSE /\ Chooses(Prunes(t)) \subseteq LeavesOf(t) \cup {NoActions}
                /\ NoActions \in Chooses(Prunes(t)) => HasZeroWeight(t)

Nothing == [nothing |-> TRUE]
ASSUME ActionsAssumption == Nothing \notin Actions

VARIABLES
    pc,               \* where the task of main and Runner::run is
    options,          \* --exit-on-violation and the deadline
    (* the verifier's thread, VerifierWorker::start *)
    worker,           \* absent, loading, idle, stepping, gone
    command,          \* the commands in its channel: states to step with
    reply,            \* the oneshot's value for the step in progress
    (* the browser: what next_event will return *)
    event,
    delivered,        \* how many states it has delivered
    (* run_test *)
    current,          \* the state in hand
    tree,             \* the actions for it, after conversion and filter
    pending,          \* step_result.has_pending
    lastAction,       \* last_action
    interrupted,      \* the ctrl_c of this turn of the loop has fired
    handler,          \* the process has a handler for SIGINT
    interrupts,       \* SIGINTs so far
    result,           \* what run_test returns, if it is not an error
    error,            \* the error it returns
    (* MainObserver and TraceWriter *)
    violationsCount,
    lastHash,         \* last_transition_hash
    screenshots,      \* the files in the directory: time |-> state shown
    unwritten,        \* those whose data is still on its way to the disk
    trace,            \* the entries this test appended
    exit,             \* the exit status of the process
    (* history *)
    steps,            \* what the verifier answered, per state
    answered          \* the states that were answered with an action

workerVars == <<worker, command, reply>>
browserVars == <<event, delivered>>
signalVars == <<interrupted, handler, interrupts>>
stateVars == <<current, tree, pending>>
endVars == <<result, error>>
writerVars == <<violationsCount, lastHash, screenshots, unwritten, trace>>
historyVars == <<steps, answered>>
vars == <<pc, options, workerVars, browserVars, signalVars, stateVars,
          lastAction, endVars, writerVars, exit, historyVars>>

-----------------------------------------------------------------------------
Stopped == [stopped |-> TRUE]
NoError == "none"
Times == 0..MaxTime
NoHash == 0
Counts == 0..MaxViolations

Startup == {"bundling", "startingWorker", "launching", "preparing",
            "initiating"}
Busy == {"extracting", "verifying", "recording", "appending", "deciding"}
Pcs == Startup \cup Busy \cup {"waiting", "terminating", "exiting"}

(* A BrowserState, as far as the runner looks at it.  Its number stands for   *)
(* everything only the specification sees, and for its transition hash.       *)
State(id, time, url) ==
    [id |-> id, time |-> time, url |-> url, hash |-> id]

(* url.rs: a URL without a host or without an explicit port is within any     *)
(* domain                                                                     *)
IsWithinDomain(uri, domain) ==
    /\ uri.host \in {NoPart, domain.host}
    /\ uri.port \in {NoPart, domain.port}

StepResult(violations, anyPending, actions) ==
    [violations |-> violations, pending |-> anyPending, actions |-> actions]
StepError(what) == [error |-> what]
IsError(r) == "error" \in DOMAIN r

Result(reason, count) == [reason |-> reason, count |-> count]

(* MainObserver::on_new_state *)
CountedTwice(violations) == violationsCount + 2 * violations
Counted(violations) == violationsCount + violations

(* TraceEntry *)
EntryPointsAtItself(state, action, violations) ==  \* As if set before it is read
    [state |-> state.id, time |-> state.time, hash |-> state.hash,
     hashPrevious |-> state.hash, action |-> action, violations |-> violations]
Entry(state, action, violations) ==
    [state |-> state.id, time |-> state.time, hash |-> state.hash,
     hashPrevious |-> lastHash, action |-> action, violations |-> violations]

(* Errors leave run_test through `?`; the browser is terminated all the same, *)
(* but only if it was initiated.                                              *)
Fails(what) ==
    /\ error' = what
    /\ pc' = IF pc \in Startup THEN "exiting" ELSE "terminating"
    /\ UNCHANGED result
Returns(value) ==
    /\ result' = value
    /\ pc' = "terminating"
    /\ UNCHANGED error

Running == exit = "none"

(* A deadline of MaxTime + 1 never comes.  The output directory may hold the  *)
(* screenshot of an earlier test.                                             *)
Init ==
    /\ pc = "bundling"
    /\ options \in [exitOnViolation : BOOLEAN, deadline : {1, MaxTime + 1}]
    /\ worker = "absent" /\ command = <<>> /\ reply = Nothing
    /\ event = Nothing /\ delivered = 0
    /\ current = Nothing /\ tree = NoActions /\ pending = TRUE
    /\ lastAction = Nothing
    /\ interrupted = FALSE /\ handler = FALSE /\ interrupts = 0
    /\ result = Nothing /\ error = NoError
    /\ violationsCount = 0 /\ lastHash = NoHash
    /\ screenshots \in {<<>>, [time \in {MaxTime} |-> 0]}
    /\ unwritten = {} /\ trace = <<>>
    /\ exit = "none"
    /\ steps = <<>> /\ answered = <<>>

-----------------------------------------------------------------------------
(* Getting ready: Runner::new, TraceWriter::initialize, Browser::initiate     *)

BundleSpecification ==
    /\ Running /\ pc = "bundling"
    /\ pc' = "startingWorker"
    /\ worker' = "loading"
    /\ UNCHANGED <<options, command, reply, browserVars, signalVars, stateVars,
                   lastAction, endVars, writerVars, exit, historyVars>>

(* Verifier::new on the worker's thread, then the ready signal *)
WorkerLoads ==
    /\ Running /\ worker = "loading"
    /\ worker' \in {"idle", "gone"}
    /\ UNCHANGED <<pc, options, command, reply, browserVars, signalVars,
                   stateVars, lastAction, endVars, writerVars, exit,
                   historyVars>>

WorkerReady ==
    /\ Running /\ pc = "startingWorker"
    /\ \/ worker = "idle" /\ pc' = "launching" /\ UNCHANGED endVars
       \/ worker = "gone" /\ Fails("specification")
    /\ UNCHANGED <<options, workerVars, browserVars, signalVars, stateVars,
                   lastAction, writerVars, exit, historyVars>>

LaunchBrowser ==
    /\ Running /\ pc = "launching"
    /\ pc' = "preparing"
    /\ UNCHANGED <<options, workerVars, browserVars, signalVars, stateVars,
                   lastAction, endVars, writerVars, exit, historyVars>>

InitializeWriter ==
    /\ Running /\ pc = "preparing"
    /\ pc' = "initiating"
    /\ UNCHANGED <<options, workerVars, browserVars, signalVars, stateVars,
                   lastAction, endVars, writerVars, exit, historyVars>>

(* The loop polls its first ctrl_c, which installs the handler for good.      *)
Initiate ==
    /\ Running /\ pc = "initiating"
    /\ pc' = "waiting"
    /\ handler' = TRUE
    /\ UNCHANGED <<options, workerVars, browserVars, interrupted, interrupts,
                   stateVars, lastAction, endVars, writerVars, exit,
                   historyVars>>

StartFails ==
    /\ Running /\ pc \in Startup \ {"startingWorker"}
    /\ Fails(pc)
    /\ UNCHANGED <<options, workerVars, browserVars, signalVars, stateVars,
                   lastAction, writerVars, exit, historyVars>>

-----------------------------------------------------------------------------
(* The browser and the user *)

(* The browser has a state for the runner after it was initiated and after    *)
(* each action, never before (BrowserMachine's ChannelsNeverOverflow).  The   *)
(* clock may stand still or be set back between two states.                   *)
DeliverState ==
    /\ Running /\ handler /\ event = Nothing /\ pc # "exiting"
    /\ delivered = Len(answered) /\ delivered < MaxStates
    /\ \E time \in Times, url \in Urls :
        event' = State(delivered + 1, time, url)
    /\ delivered' = delivered + 1
    /\ UNCHANGED <<pc, options, workerVars, signalVars, stateVars, lastAction,
                   endVars, writerVars, exit, historyVars>>

(* BrowserEvent::Error, or None because the machine has gone *)
BrowserStops ==
    /\ Running /\ handler /\ event = Nothing /\ pc # "exiting"
    /\ event' = Stopped
    /\ UNCHANGED <<pc, options, workerVars, delivered, signalVars, stateVars,
                   lastAction, endVars, writerVars, exit, historyVars>>

(* A signal is noticed by the ctrl_c future of the current turn of the loop;  *)
(* while the loop is elsewhere there is no such future and nobody sees it,    *)
(* and before the first turn it kills the process.                            *)
Interrupt ==
    /\ Running /\ interrupts < MaxInterrupts
    /\ interrupts' = interrupts + 1
    /\ interrupted' = (interrupted \/ pc = "waiting")
    /\ exit' = IF handler THEN exit ELSE "killed"
    /\ UNCHANGED <<pc, options, workerVars, browserVars, handler, stateVars,
                   lastAction, endVars, writerVars, historyVars>>

-----------------------------------------------------------------------------
(* run_test: the turn of the loop *)

(* select! takes either branch when both are ready; the future of the other   *)
(* one is dropped, and a signal with it.                                      *)
TakeState ==
    /\ Running /\ pc = "waiting" /\ event # Nothing /\ event # Stopped
    /\ current' = event
    /\ event' = Nothing
    /\ interrupted' = FALSE
    /\ pc' = "extracting"
    /\ UNCHANGED <<options, workerVars, delivered, handler, interrupts, tree,
                   pending, lastAction, endVars, writerVars, exit, historyVars>>

TakeStop ==
    /\ Running /\ pc = "waiting" /\ event = Stopped
    /\ event' = Nothing
    /\ interrupted' = FALSE
    /\ Fails("browser")
    /\ UNCHANGED <<options, workerVars, delivered, handler, interrupts,
                   stateVars, lastAction, writerVars, exit, historyVars>>

OnInterrupted ==
    /\ Running /\ pc = "waiting" /\ interrupted
    /\ interrupted' = FALSE
    /\ Returns(Result("Interrupted", violationsCount))
    /\ UNCHANGED <<options, workerVars, browserVars, handler, interrupts,
                   stateVars, lastAction, writerVars, exit, historyVars>>

(* run_extractors in the paused page, then the command to the worker *)
RunExtractors ==
    /\ Running /\ pc = "extracting"
    /\ IF worker = "gone"
       THEN Fails("worker") /\ UNCHANGED command
       ELSE /\ command' = Append(command, current.id)
            /\ pc' = "verifying"
            /\ UNCHANGED endVars
    /\ reply' = Nothing
    /\ UNCHANGED <<options, worker, browserVars, signalVars, stateVars,
                   lastAction, writerVars, exit, historyVars>>

ExtractorFails ==
    /\ Running /\ pc = "extracting"
    /\ Fails("extractor")
    /\ UNCHANGED <<options, workerVars, browserVars, signalVars, stateVars,
                   lastAction, writerVars, exit, historyVars>>

-----------------------------------------------------------------------------
(* The worker's thread *)

WorkerTakesStep ==
    /\ Running /\ worker = "idle" /\ command # <<>>
    /\ command' = Tail(command)
    /\ worker' = "stepping"
    /\ UNCHANGED <<pc, options, reply, browserVars, signalVars, stateVars,
                   lastAction, endVars, writerVars, exit, historyVars>>

(* Verifier::step: all properties, then all generators *)
WorkerReplies ==
    /\ Running /\ worker = "stepping"
    /\ worker' = "idle"
    /\ \E violations \in Counts, anyPending \in BOOLEAN, actions \in Generated :
        /\ reply' = StepResult(violations, anyPending, actions)
        /\ steps' = Append(steps, [violations |-> violations,
                                   pending |-> anyPending])
    /\ UNCHANGED <<pc, options, command, browserVars, signalVars, stateVars,
                   lastAction, endVars, writerVars, exit, answered>>

(* A thunk or a generator that throws, or returns something else; the thread  *)
(* goes on.                                                                   *)
WorkerReportsError ==
    /\ Running /\ worker = "stepping"
    /\ worker' = "idle"
    /\ reply' = StepError("specification")
    /\ UNCHANGED <<pc, options, command, browserVars, signalVars, stateVars,
                   lastAction, endVars, writerVars, exit, historyVars>>

(* A panic of the thread drops the reply's sender.                            *)
WorkerPanicsQuietly ==      \* As if the sender outlived the thread
    /\ Running /\ worker = "stepping"
    /\ worker' = "gone"
    /\ UNCHANGED <<pc, options, command, reply, browserVars, signalVars,
                   stateVars, lastAction, endVars, writerVars, exit,
                   historyVars>>
WorkerPanics ==
    /\ Running /\ worker = "stepping"
    /\ worker' = "gone"
    /\ reply' = StepError("worker")
    /\ UNCHANGED <<pc, options, command, browserVars, signalVars, stateVars,
                   lastAction, endVars, writerVars, exit, historyVars>>

-----------------------------------------------------------------------------
(* The answer, up to the observer's first await *)

OfferedUnfiltered(converted) == converted   \* As if every URL were the origin's
OfferedRestricted(converted) == Restricted(converted)   \* As if none were
Offered(converted) ==
    IF IsWithinDomain(current.url, Origin) THEN converted
    ELSE Restricted(converted)

ReceiveStep ==
    /\ Running /\ pc = "verifying" /\ reply # Nothing
    /\ ~IsError(reply) /\ Converted(reply.actions) # NoActions
    /\ tree' = Offered(Converted(reply.actions))
    /\ pending' = reply.pending
    /\ violationsCount' = Counted(reply.violations)
    /\ pc' = "recording"
    /\ UNCHANGED <<options, workerVars, browserVars, signalVars, current,
                   lastAction, endVars, lastHash, screenshots, unwritten,
                   trace, exit, historyVars>>

StepFails ==
    /\ Running /\ pc = "verifying" /\ reply # Nothing
    /\ IF IsError(reply) THEN Fails(reply.error)
       ELSE Converted(reply.actions) = NoActions /\ Fails("action")
    /\ UNCHANGED <<options, workerVars, browserVars, signalVars, stateVars,
                   lastAction, writerVars, exit, historyVars>>

-----------------------------------------------------------------------------
(* TraceWriter::write *)

(* File::create_new fails on a name that is taken; the data is handed to a    *)
(* thread and not waited for.                                                 *)
CreatesOver(time) == TRUE
CreatesAnew(time) == time \notin DOMAIN screenshots

WriteScreenshot ==
    /\ Running /\ pc = "recording" /\ CreatesAnew(current.time)
    /\ screenshots' = [time \in DOMAIN screenshots \cup {current.time} |->
                        IF time = current.time THEN current.id
                        ELSE screenshots[time]]
    /\ unwritten' = unwritten \cup {current.time}
    /\ pc' = "appending"
    /\ UNCHANGED <<options, workerVars, browserVars, signalVars, stateVars,
                   lastAction, endVars, violationsCount, lastHash, trace, exit,
                   historyVars>>

ScreenshotWritten ==
    /\ Running
    /\ \E time \in unwritten : unwritten' = unwritten \ {time}
    /\ UNCHANGED <<pc, options, workerVars, browserVars, signalVars, stateVars,
                   lastAction, endVars, violationsCount, lastHash, screenshots,
                   trace, exit, historyVars>>

AppendEntry ==
    /\ Running /\ pc = "appending"
    /\ trace' = Append(trace, Entry(current, lastAction, reply.violations))
    /\ lastHash' = current.hash
    /\ pc' = "deciding"
    /\ UNCHANGED <<options, workerVars, browserVars, signalVars, stateVars,
                   lastAction, endVars, violationsCount, screenshots, unwritten,
                   exit, historyVars>>

(* A name that is taken, or a disk that fails, at either file *)
WriteFails ==
    /\ Running /\ pc \in {"recording", "appending"}
    /\ Fails("trace")
    /\ lastHash' = IF pc = "appending" THEN current.hash ELSE lastHash
    /\ UNCHANGED <<options, workerVars, browserVars, signalVars, stateVars,
                   lastAction, violationsCount, screenshots, unwritten, trace,
                   exit, historyVars>>

-----------------------------------------------------------------------------
(* What follows without another await: the observer's decision, the end when  *)
(* all properties are settled, and the choice of an action                    *)

ExitsOnViolation == options.exitOnViolation /\ violationsCount > 0
DeadlineReached == current.time >= options.deadline

ObserverStops ==
    /\ Running /\ pc = "deciding"
    /\ \/ ExitsOnViolation /\ Returns(Result("ExitOnViolation", violationsCount))
       \/ /\ ~ExitsOnViolation /\ DeadlineReached
          /\ Returns(Result("TimeLimit", violationsCount))
    /\ UNCHANGED <<options, workerVars, browserVars, signalVars, stateVars,
                   lastAction, writerVars, exit, historyVars>>

Continues == ~ExitsOnViolation /\ ~DeadlineReached

AllDefinite ==
    /\ Running /\ pc = "deciding" /\ Continues /\ ~pending
    /\ Returns(Nothing)
    /\ UNCHANGED <<options, workerVars, browserVars, signalVars, stateVars,
                   lastAction, writerVars, exit, historyVars>>

NoActionsAvailable ==
    /\ Running /\ pc = "deciding" /\ Continues /\ pending
    /\ Prunes(tree) = NoActions
    /\ Fails("noActionsAvailable")
    /\ UNCHANGED <<options, workerVars, browserVars, signalVars, stateVars,
                   lastAction, writerVars, exit, historyVars>>

(* pick, then Browser::apply, which fails when the machine has gone *)
PickAndApply ==
    /\ Running /\ pc = "deciding" /\ Continues /\ pending
    /\ Prunes(tree) # NoActions
    /\ \E picked \in Chooses(Prunes(tree)) :
        IF picked = NoActions
        THEN /\ Fails("zeroTotalWeight")
             /\ UNCHANGED <<lastAction, answered>>
        ELSE /\ lastAction' = picked
             /\ answered' = Append(answered, current.id)
             /\ pc' = "waiting"
             /\ UNCHANGED endVars
    /\ UNCHANGED <<options, workerVars, browserVars, signalVars, stateVars,
                   writerVars, exit, steps>>

ApplyFails ==
    /\ Running /\ pc = "deciding" /\ Continues /\ pending
    /\ Prunes(tree) # NoActions /\ event = Stopped
    /\ Fails("browser")
    /\ UNCHANGED <<options, workerVars, browserVars, signalVars, stateVars,
                   lastAction, writerVars, exit, historyVars>>

-----------------------------------------------------------------------------
(* The end: Browser::terminate, then the status of the process *)

Terminate ==
    /\ Running /\ pc = "terminating"
    /\ \/ pc' = "exiting" /\ UNCHANGED exit
       \/ exit' = "panic" /\ UNCHANGED pc
    /\ UNCHANGED <<options, workerVars, browserVars, signalVars, stateVars,
                   lastAction, endVars, writerVars, historyVars>>

(* process::exit(2) does not wait for threads that still write; leaving main  *)
(* does.                                                                      *)
ExitStatusByReason ==       \* As if only --exit-on-violation set it
    IF error # NoError THEN "error"
    ELSE IF result # Nothing /\ result.reason = "ExitOnViolation"
    THEN "violations"
    ELSE "success"
ExitStatus ==
    IF error # NoError THEN "error"
    ELSE IF result # Nothing /\ result.count > 0 THEN "violations"
    ELSE "success"

Exit ==
    /\ Running /\ pc = "exiting"
    /\ exit' = ExitStatus
    /\ unwritten' = IF exit' = "violations" THEN unwritten ELSE {}
    /\ UNCHANGED <<pc, options, workerVars, browserVars, signalVars, stateVars,
                   lastAction, endVars, violationsCount, lastHash, screenshots,
                   trace, historyVars>>

-----------------------------------------------------------------------------
GettingReady == BundleSpecification \/ WorkerReady \/ LaunchBrowser
                    \/ InitializeWriter \/ Initiate \/ StartFails
Worker == WorkerLoads \/ WorkerTakesStep \/ WorkerReplies \/ WorkerReportsError
              \/ WorkerPanics
Turn == TakeState \/ TakeStop \/ OnInterrupted \/ RunExtractors
            \/ ExtractorFails \/ ReceiveStep \/ StepFails \/ WriteScreenshot
            \/ AppendEntry \/ WriteFails \/ ObserverStops \/ AllDefinite
            \/ NoActionsAvailable \/ PickAndApply \/ ApplyFails
Ending == Terminate \/ Exit
Environment == DeliverState \/ BrowserStops \/ Interrupt

Next == GettingReady \/ Worker \/ Turn \/ Ending \/ ScreenshotWritten
            \/ Environment

Spec == Init /\ [][Next]_vars

(* The runner's task and the worker's thread get to run; the browser and the  *)
(* user need not do anything.                                                 *)
Fairness == WF_vars(GettingReady) /\ WF_vars(Worker) /\ WF_vars(Turn)
                /\ WF_vars(Ending)
FairSpec == Spec /\ Fairness

-----------------------------------------------------------------------------
(* Types *)
TypeOK ==
    /\ pc \in Pcs
    /\ options \in [exitOnViolation : BOOLEAN, deadline : {1, MaxTime + 1}]
    /\ worker \in {"absent", "loading", "idle", "stepping", "gone"}
    /\ command \in {<<>>} \cup {<<id>> : id \in 1..MaxStates}
    /\ \/ reply = Nothing
       \/ IsError(reply) /\ reply.error \in {"specification", "worker"}
       \/ /\ ~IsError(reply)
          /\ reply \in [violations : Counts, pending : BOOLEAN,
                        actions : Generated]
    /\ delivered \in 0..MaxStates
    /\ \/ event \in {Nothing, Stopped}
       \/ event.id \in 1..MaxStates /\ event.time \in Times /\ event.url \in Urls
    /\ \/ current = Nothing
       \/ /\ current.id \in 1..MaxStates /\ current.time \in Times
          /\ current.url \in Urls
    /\ tree \in Trees \cup {NoActions} /\ lastAction \in Actions \cup {Nothing}
    /\ pending \in BOOLEAN /\ interrupted \in BOOLEAN /\ handler \in BOOLEAN
    /\ interrupts \in 0..MaxInterrupts
    /\ violationsCount \in 0..(Len(steps) * MaxViolations)
    /\ lastHash \in 0..MaxStates
    /\ DOMAIN screenshots \subseteq Times /\ unwritten \subseteq DOMAIN screenshots
    /\ Len(trace) <= MaxStates
    /\ exit \in {"none", "success", "violations", "error", "panic", "killed"}

(* The specification of a test, with what this one does in its place: a state *)
(* is verified when the worker's answer is sent, and the test is over as soon *)
(* as run_test returns, whatever is still to be closed.                       *)
Over == pc \in {"terminating", "exiting"}

Phase ==
    IF Over THEN "over"
    ELSE IF pc = "deciding" THEN "recorded"
    ELSE IF pc \in {"recording", "appending"} THEN "verified"
    ELSE IF pc = "verifying" /\ reply # Nothing /\ ~IsError(reply)
    THEN "verified"
    ELSE "waiting"

Outcome ==
    IF ~Over THEN "none"
    ELSE IF error # NoError THEN "failed"
    ELSE IF result = Nothing THEN "settled"
    ELSE IF result.reason = "Interrupted" THEN "interrupted"
    ELSE "stopped"

Session == INSTANCE TestSession WITH
    asked <- options.exitOnViolation,
    phase <- Phase,
    verified <- steps,
    recorded <- [i \in DOMAIN trace |-> trace[i].violations],
    answered <- Len(answered),
    outcome <- Outcome,
    status <- exit

(* The runner, the worker's thread, the observer and the writer together are  *)
(* a test: every state is verified, recorded and answered once and in that    *)
(* order, --exit-on-violation stops before the next action, and the exit      *)
(* status of the process counts the violations in the trace (run_test, test). *)
ImplementsSession == Session!Spec

(* The trace is the path of the test: its entries are the states in the order *)
(* they were answered, each with the action that led to it, and each names    *)
(* the transition hash of the one before (TraceWriter::write).                *)
TraceIsAPath ==
    \A i \in DOMAIN trace :
        /\ trace[i].state = i
        /\ trace[i].action = Nothing <=> i = 1
        /\ trace[i].hashPrevious = IF i = 1 THEN NoHash ELSE trace[i - 1].hash

(* However the clock is set and whatever an earlier test left in the          *)
(* directory, every entry's screenshot shows that entry's state, and once the *)
(* process has ended it is on the disk, unless it ended by process::exit.     *)
EntriesHaveScreenshots ==
    \A i \in DOMAIN trace :
        /\ trace[i].time \in DOMAIN screenshots
        /\ screenshots[trace[i].time] = trace[i].state
        /\ exit \in {"success", "error"} => trace[i].time \notin unwritten

Allowed(action) == IsWithinDomain(current.url, Origin) \/ action = GoBack

(* What is applied was generated for the very state it answers, has numbers   *)
(* that are in range, and is Back whenever that state is outside of the       *)
(* origin (run_test, Tree, to_browser_action).                                *)
ActionsWereGenerated ==
    pc = "waiting" /\ answered # <<>> =>
        /\ lastAction \in LeavesOf(reply.actions)
        /\ Convertible(lastAction)
        /\ Allowed(lastAction)
        /\ answered[Len(answered)] = current.id

(* A test ends for want of actions only if no generated action is allowed in  *)
(* its state, for want of weight only if the specification gave a weight of   *)
(* zero, and for an action only if one was generated that has no conversion   *)
(* (Tree::prune, Tree::pick, to_browser_action).                              *)
ActsWhenItCan ==
    /\ error = "noActionsAvailable" =>
        \A action \in LeavesOf(reply.actions) : ~Allowed(action)
    /\ error = "zeroTotalWeight" => HasZeroWeight(reply.actions)
    /\ error = "action" =>
        \E action \in LeavesOf(reply.actions) : ~Convertible(action)

(* A state that was taken is answered, or the process ends: neither a panic   *)
(* of the worker's thread nor an error of any callee leaves the runner        *)
(* waiting (VerifierWorker::step, run_test).                                  *)
EveryTurnEnds == pc \in Busy ~> (pc = "waiting" \/ exit # "none")
=============================================================================
