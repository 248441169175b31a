--------------------------- MODULE BrowserMachine ---------------------------
(* The browser state machine of lib/bombadil/src/browser.rs: the task that    *)
(* run_state_machine spawns, the tasks and timers its handlers spawn, the     *)
(* channel it reports states on, and the four calls its caller (the runner)   *)
(* makes: initiate, next_event, apply and terminate.  The page under test and *)
(* the Chrome DevTools connection are the environment; they are not code of   *)
(* the repository and are modelled from what the handlers assume of them.     *)
(*                                                                            *)
(* One action is one step of one task between two awaits.  The handlers wait  *)
(* for DevTools replies, but a handler owns the machine's state while it      *)
(* waits and takes no other event, so only two waits are visible: the one for *)
(* the screenshot (the page moves on meanwhile) and the one for a reply that  *)
(* never comes.                                                               *)
EXTENDS Integers, Sequences, FiniteSets

CONSTANTS
    CreateTarget,     \* TRUE: initiate navigates to the origin itself
    Ordered,          \* TRUE: DevTools events reach the machine as they arrive
    PauseReasons,     \* the reasons of Debugger.paused that occur
    MaxNavigations,   \* bound: navigations of the main frame
    MaxRestores,      \* bound: ... of which come from the back/forward cache
    MaxDownloads,     \* bound: ... of which turn out to be downloads
    MaxAborts,        \* bound: ... of which the browser drops without an event
    MaxThrows,        \* bound: uncaught exceptions
    MaxLogs,          \* bound: console errors and warnings
    MaxActions,       \* bound: calls of apply
    MaxFrameless,     \* bound: pauses without a call frame
    MaxSkips,         \* bound: captures with no context or no screenshot
    MaxHangs,         \* bound: DevTools calls that get no reply
    MaxSubframes,     \* bound: navigations of frames other than the main one
    MaxDestroys,      \* bound: destroyed targets, the page's own one included
    MaxInterrupts,    \* bound: ends of the test by the caller
    MaxIntrusions     \* bound: pauses and resumes that are not the machine's

ASSUME ConstantsAssumption ==
    /\ CreateTarget \in BOOLEAN
    /\ Ordered \in BOOLEAN
    /\ PauseReasons \subseteq {"other", "exception"}
    /\ \A bound \in {MaxNavigations, MaxRestores, MaxDownloads, MaxAborts,
                     MaxThrows, MaxLogs, MaxActions, MaxFrameless, MaxSkips,
                     MaxHangs, MaxSubframes, MaxDestroys,
                     MaxInterrupts, MaxIntrusions} : bound \in Nat

VARIABLES
    (* InnerState: the state process_event consumes and returns *)
    kind,          \* InnerStateKind
    generation,    \* InnerStateShared.generation
    consoleLog,    \* InnerStateShared.console_entries, as entry numbers
    exceptions,    \* InnerStateShared.exceptions, as exception numbers
    screenshot,    \* InnerStateShared.screenshot: the document it shows
    accepted,      \* the action inside Resuming
    target,        \* the url inside Navigating
    (* the task of run_state_machine and the tasks its handlers spawn *)
    status,        \* running, stuck in a DevTools call, failed or done
    failure,       \* why it failed
    capturing,     \* the document whose context a suspended capture holds
    applying,      \* action tasks: the generation each reports, its action
    timers,        \* generations with an action timeout running
    watchdogs,     \* generations with a watchdog running
    queue,         \* undelivered inner events, by the stream they arrive on
    (* the caller and the channel it receives on *)
    unread,        \* BrowserEvents in the channel (capacity 1)
    lagged,        \* an unread event was overwritten
    caller,        \* waiting, choosing, closing, closed
    answering,     \* the report it last received
    shutdown,      \* the shutdown signal was sent
    browserOpen,   \* the DevTools connection is up
    (* the page under test *)
    document,      \* number of the current document
    loading,       \* its load event is still to come
    navigation,    \* url of the main-frame navigation in flight
    pagePaused,    \* JavaScript is stopped in the debugger
    breaks,        \* queued evaluations of "debugger;0", by document
    (* history *)
    reports,       \* the states sent to the caller
    toldExceptions, \* the exceptions in them, in order
    toldConsole,   \* the console entries in them, in order
    loggedIn,      \* the document each console entry was logged in
    used           \* how much of each bound is spent

stateVars  == <<kind, generation, consoleLog, exceptions, screenshot, accepted,
                target>>
taskVars   == <<status, failure, capturing, applying, timers, watchdogs>>
callerVars == <<unread, lagged, caller, answering, shutdown, browserOpen>>
pageVars   == <<document, loading, navigation, pagePaused, breaks>>
historyVars == <<reports, toldExceptions, toldConsole, loggedIn>>
vars == <<stateVars, taskVars, queue, callerVars, pageVars, historyVars, used>>

-----------------------------------------------------------------------------
Kinds == {"Pausing", "Paused", "Resuming", "Navigating", "Loading", "Running",
          "Acting"}

NoUrl == "no url"
Urls == {"page", "file"}
None == 0                  \* no document, no action

Frames == {"main", "sub"}

(* The InnerEvents.  The reason of a state request is only logged, so it is   *)
(* left out; entries, exceptions and actions are numbers in order of birth.   *)
StateRequested(g) == [type |-> "StateRequested", gen |-> g]
ActionApplied(g) == [type |-> "ActionApplied", gen |-> g]
ActionAccepted(a) == [type |-> "ActionAccepted", action |-> a]
Paused(reason, framed) ==
    [type |-> "Paused", reason |-> reason, framed |-> framed]
ExceptionThrown(n) == [type |-> "ExceptionThrown", id |-> n]
ConsoleEntry(n) == [type |-> "ConsoleEntry", id |-> n]
FrameRequestedNavigation(frame, url) ==
    [type |-> "FrameRequestedNavigation", frame |-> frame, url |-> url]
FrameNavigated(frame, how) ==
    [type |-> "FrameNavigated", frame |-> frame, how |-> how]
DownloadWillBegin(frame, url) ==
    [type |-> "DownloadWillBegin", frame |-> frame, url |-> url]
TargetDestroyed(own) == [type |-> "TargetDestroyed", own |-> own]
Loaded  == [type |-> "Loaded"]
Resumed == [type |-> "Resumed"]

DevToolsTypes == {"Loaded", "Paused", "Resumed", "ExceptionThrown",
                  "FrameRequestedNavigation", "FrameNavigated",
                  "DownloadWillBegin", "TargetDestroyed", "ConsoleEntry"}

(* Every kind of event arrives on a stream of its own and select_all merges   *)
(* them: the order within a stream is kept, the order between streams is not. *)
Lane(type) ==
    IF type \in {"StateRequested", "ActionApplied"} THEN "inner"
    ELSE IF type = "ActionAccepted" THEN "actions"
    ELSE IF Ordered THEN "devtools"
    ELSE type

Lanes == {"inner", "actions"} \cup
         (IF Ordered THEN {"devtools"} ELSE DevToolsTypes)

(* Generation::next *)
StuckGeneration(g) == g
NextGeneration(g) == g + 1

(* A queue with one more event at the end of its stream *)
Sent(q, e) == [q EXCEPT ![Lane(e.type)] = Append(@, e)]

(* A queue without the event at the head of a stream *)
Taken(q, lane) == [q EXCEPT ![lane] = Tail(@)]

-----------------------------------------------------------------------------
Bounds == [navigations |-> MaxNavigations, restores |-> MaxRestores,
           downloads |-> MaxDownloads, aborts |-> MaxAborts,
           throws |-> MaxThrows, logs |-> MaxLogs, actions |-> MaxActions,
           frameless |-> MaxFrameless, skips |-> MaxSkips, hangs |-> MaxHangs,
           subframes |-> MaxSubframes, destroys |-> MaxDestroys,
           interrupts |-> MaxInterrupts,
           intrusions |-> MaxIntrusions]

(* Spend one unit of a bound, if any is left *)
Spend(what) ==
    /\ used[what] < Bounds[what]
    /\ used' = [used EXCEPT ![what] = @ + 1]

-----------------------------------------------------------------------------
(* Browser::new and initiate.  The page starts as a loaded document; with a   *)
(* target of our own the navigation to the origin is in flight, otherwise the *)
(* first state is requested for generation 0.                                 *)
Init ==
    /\ kind = "Running" /\ generation = 0
    /\ consoleLog = <<>> /\ exceptions = <<>>
    /\ screenshot = None /\ accepted = None /\ target = NoUrl
    /\ status = "running" /\ failure = "none" /\ capturing = None
    /\ applying = {} /\ timers = {} /\ watchdogs = {}
    /\ unread = <<>> /\ lagged = FALSE
    /\ caller = "waiting" /\ answering = None
    /\ shutdown = FALSE /\ browserOpen = TRUE
    /\ document = 1 /\ loading = FALSE /\ pagePaused = FALSE /\ breaks = <<>>
    /\ reports = <<>> /\ toldExceptions = <<>> /\ toldConsole = <<>>
    /\ loggedIn = <<>>
    /\ used = [b \in DOMAIN Bounds |-> 0]
    /\ LET empty == [lane \in Lanes |-> <<>>]
       IN IF CreateTarget
          THEN navigation = "page" /\ queue = empty
          ELSE /\ navigation = NoUrl
               /\ queue = Sent(empty, StateRequested(0))

-----------------------------------------------------------------------------
(* The report channel: broadcast with capacity 1.  Sending over an unread     *)
(* event drops it, and the receiver's next recv is an error.                  *)
DeliverQueued(event) ==
    /\ unread' = Append(unread, event)
    /\ UNCHANGED <<lagged, caller, answering, shutdown, browserOpen>>
Deliver(event) ==
    /\ unread' = <<event>>
    /\ lagged' = (lagged \/ unread # <<>>)
    /\ UNCHANGED <<caller, answering, shutdown, browserOpen>>

StateChanged(n) == [type |-> "StateChanged", report |-> n]
ErrorEvent == [type |-> "Error", report |-> None]

(* The handler returned an error: the loop of run_state_machine ends, tells   *)
(* the caller and signals done.                                               *)
Fail(why) ==
    /\ status' = "failed" /\ failure' = why
    /\ Deliver(ErrorEvent)
    /\ capturing' = None
    /\ UNCHANGED <<stateVars, applying, timers, watchdogs, pageVars, historyVars>>

-----------------------------------------------------------------------------
(* The machine takes the next event of one of the merged streams.             *)
Takes(type) ==
    /\ status = "running" /\ capturing = None
    /\ queue[Lane(type)] # <<>> /\ Head(queue[Lane(type)]).type = type

Event(type) == Head(queue[Lane(type)])
Rest(type) == Taken(queue, Lane(type))

(* The kinds in which a state request is skipped *)
CapturelessForgotten == {"Navigating", "Loading", "Pausing"}
CapturelessActing == {"Navigating", "Loading", "Paused", "Pausing", "Acting"}
Captureless == {"Navigating", "Loading", "Paused", "Pausing"}

(* Does the handler of e make a DevTools call it waits for? *)
CallsDevTools(e) ==
    \/ e.type = "FrameNavigated"
    \/ /\ e.type = "Paused"
       /\ e.framed => e.reason = "other" /\ screenshot # None
    \/ e.type = "ActionAccepted" /\ kind = "Paused"
    \/ /\ e.type = "StateRequested"
       /\ e.gen = generation /\ kind \notin Captureless
    \/ e.type = "ExceptionThrown" /\ kind = "Running"

(* Debugger.resume.  DevTools runs the commands of a session in order, so the *)
(* evaluations queued before ran while the page stood still and did nothing.  *)
Resume ==
    /\ pagePaused /\ browserOpen
    /\ pagePaused' = FALSE /\ breaks' = <<>>
    /\ UNCHANGED <<document, loading, navigation>>

(* capture_browser_state up to the wait for the screenshot: it holds on to    *)
(* the execution context of the document it found.                            *)
BeginCapture ==
    /\ browserOpen
    /\ capturing' = document
    /\ UNCHANGED <<status, failure, applying, timers, watchdogs>>

(* The context is fetched before the wait for the screenshot, not after it *)
CapturedLate(before, now) == [shown |-> before, paused |-> now]
Captured(before, now) == [shown |-> now, paused |-> before]

(* The screenshot arrives: it shows what the page is by now, while the pause  *)
(* is queued in the context fetched before.  A new generation starts.         *)
FinishCapture ==
    /\ status = "running" /\ capturing # None /\ browserOpen
    /\ LET taken == Captured(capturing, document)
       IN screenshot' = taken.shown /\ breaks' = Append(breaks, taken.paused)
    /\ generation' = NextGeneration(generation)
    /\ kind' = "Pausing"
    /\ accepted' = None /\ target' = NoUrl
    /\ capturing' = None
    /\ UNCHANGED <<consoleLog, exceptions, status, failure, applying, timers,
                   watchdogs, queue, callerVars, document, loading, navigation,
                   pagePaused, historyVars, used>>

(* No execution context, or the screenshot fails or takes over two seconds:   *)
(* the state stays as it is and nothing asks for another capture.             *)
SkipCapture ==
    /\ status = "running" /\ capturing # None
    /\ IF browserOpen THEN Spend("skips") ELSE UNCHANGED used
    /\ capturing' = None
    /\ UNCHANGED <<stateVars, status, failure, applying, timers, watchdogs,
                   queue, callerVars, pageVars, historyVars>>

HandleStateRequested ==
    /\ Takes("StateRequested")
    /\ queue' = Rest("StateRequested")
    /\ \/ /\ \/ Event("StateRequested").gen # generation
             \/ kind \in Captureless
          /\ UNCHANGED taskVars
       \/ /\ Event("StateRequested").gen = generation
          /\ kind \notin Captureless
          /\ BeginCapture
    /\ UNCHANGED <<stateVars, callerVars, pageVars, historyVars, used>>

(* Paused without a call frame: resume the page and capture again, whatever   *)
(* the kind was.                                                              *)
HandlePausedFrameless ==
    /\ Takes("Paused") /\ ~Event("Paused").framed
    /\ Resume /\ BeginCapture
    /\ kind' = "Running" /\ accepted' = None /\ target' = NoUrl
    /\ queue' = Sent(Rest("Paused"), Resumed)
    /\ UNCHANGED <<generation, consoleLog, exceptions, screenshot, callerVars,
                   historyVars, used>>

(* What is collected starts anew with every report *)
AfterReportKept(entries) == entries
AfterReport(entries) == <<>>

(* Paused with a call frame: read the page's state there, report it together  *)
(* with what was collected, start the next generation and its watchdog.       *)
HandlePaused ==
    /\ Takes("Paused") /\ Event("Paused").framed
    /\ Event("Paused").reason = "other" /\ screenshot # None
    /\ pagePaused /\ browserOpen
    /\ reports' = Append(reports, [gen |-> generation, document |-> document,
                                   screenshot |-> screenshot,
                                   console |-> consoleLog])
    /\ toldExceptions' = toldExceptions \o exceptions
    /\ toldConsole' = toldConsole \o consoleLog
    /\ Deliver(StateChanged(Len(reports) + 1))
    /\ kind' = "Paused" /\ generation' = NextGeneration(generation)
    /\ consoleLog' = AfterReport(consoleLog)
    /\ exceptions' = AfterReport(exceptions)
    /\ screenshot' = None
    /\ accepted' = None /\ target' = NoUrl
    /\ watchdogs' = watchdogs \cup {generation'}
    /\ queue' = Rest("Paused")
    /\ UNCHANGED <<status, failure, capturing, applying, timers, pageVars,
                   loggedIn, used>>

(* The pauses that end the machine: another reason, no screenshot, or a page  *)
(* that is no longer paused when its state is read or it is resumed.          *)
PausedFails ==
    /\ Takes("Paused")
    /\ queue' = Rest("Paused") /\ UNCHANGED used
    /\ \/ /\ Event("Paused").framed /\ Event("Paused").reason # "other"
          /\ Fail("unexpected pause reason")
       \/ /\ Event("Paused").framed /\ Event("Paused").reason = "other"
          /\ screenshot = None
          /\ Fail("no screenshot")
       \/ /\ Event("Paused").framed => /\ Event("Paused").reason = "other"
                                       /\ screenshot # None
          /\ ~pagePaused
          /\ Fail("page not paused")

(* The kinds in which an action is dropped, and a resumed page is no news *)
ActionDropped == {"Loading", "Navigating", "Pausing"}
NothingResumed == {}
ResumedIgnored == {"Pausing"}

(* An action arrives: in Paused the page is resumed, while a page is on its   *)
(* way the action is dropped, and in any other kind the machine ends.         *)
HandleActionAccepted ==
    /\ Takes("ActionAccepted")
    /\ queue' = IF kind = "Paused"
                THEN Sent(Rest("ActionAccepted"), Resumed)
                ELSE Rest("ActionAccepted")
    /\ \/ /\ kind = "Paused" /\ pagePaused /\ browserOpen
          /\ Resume
          /\ kind' = "Resuming" /\ accepted' = Event("ActionAccepted").action
          /\ UNCHANGED target
       \/ /\ kind \in ActionDropped
          /\ UNCHANGED <<kind, accepted, target, pageVars>>
    /\ UNCHANGED <<generation, consoleLog, exceptions, screenshot, taskVars,
                   callerVars, historyVars, used>>

(* The page is not paused any more when it is resumed for an action *)
ResumeFails ==
    /\ Takes("ActionAccepted") /\ kind = "Paused" /\ ~pagePaused
    /\ queue' = Rest("ActionAccepted") /\ UNCHANGED used
    /\ Fail("page not paused")

(* The page runs again.  From Resuming this starts the action's task and its  *)
(* timeout, both of the current generation.                                   *)
HandleResumed ==
    /\ Takes("Resumed") /\ queue' = Rest("Resumed")
    /\ \/ /\ kind \in ResumedIgnored
          /\ UNCHANGED <<kind, accepted, consoleLog, applying, timers>>
       \/ /\ kind = "Running"
          /\ consoleLog' = <<>>
          /\ UNCHANGED <<kind, accepted, applying, timers>>
       \/ /\ kind = "Resuming"
          /\ applying' = applying \cup {[gen |-> generation,
                                         action |-> accepted]}
          /\ timers' = timers \cup {generation}
          /\ consoleLog' = <<>>
          /\ kind' = "Acting" /\ accepted' = None
    /\ UNCHANGED <<generation, exceptions, screenshot, target, status, failure,
                   capturing, watchdogs, callerVars, pageVars, historyVars, used>>

HandleActionApplied ==
    /\ Takes("ActionApplied") /\ queue' = Rest("ActionApplied")
    /\ kind' = IF kind = "Acting" /\ Event("ActionApplied").gen = generation
               THEN "Running" ELSE kind
    /\ UNCHANGED <<generation, consoleLog, exceptions, screenshot, accepted,
                   target, taskVars, callerVars, pageVars, historyVars, used>>

(* Whatever the kind was *)
HandleLoaded ==
    /\ Takes("Loaded")
    /\ queue' = Sent(Rest("Loaded"), StateRequested(generation))
    /\ kind' = "Running" /\ accepted' = None /\ target' = NoUrl
    /\ UNCHANGED <<generation, consoleLog, exceptions, screenshot, taskVars,
                   callerVars, pageVars, historyVars, used>>

(* Whatever the kind was, if it is the main frame that navigates *)
HandleFrameRequestedNavigation ==
    /\ Takes("FrameRequestedNavigation")
    /\ queue' = Rest("FrameRequestedNavigation")
    /\ LET e == Event("FrameRequestedNavigation")
       IN IF e.frame = "main"
          THEN kind' = "Navigating" /\ accepted' = None /\ target' = e.url
          ELSE UNCHANGED <<kind, accepted, target>>
    /\ UNCHANGED <<generation, consoleLog, exceptions, screenshot, taskVars,
                   callerVars, pageVars, historyVars, used>>

(* The navigation turned out to be a download *)
HandleDownloadWillBegin ==
    /\ Takes("DownloadWillBegin") /\ kind = "Navigating"
    /\ LET e == Event("DownloadWillBegin")
       IN IF e.frame = "main" /\ e.url = target
          THEN /\ queue' = Sent(Rest("DownloadWillBegin"),
                                StateRequested(generation))
               /\ kind' = "Running" /\ target' = NoUrl
          ELSE /\ queue' = Rest("DownloadWillBegin")
               /\ UNCHANGED <<kind, target>>
    /\ UNCHANGED <<generation, consoleLog, exceptions, screenshot, accepted,
                   taskVars, callerVars, pageVars, historyVars, used>>

(* Navigating drops what was logged, entry included *)
HandleConsoleEntry ==
    /\ Takes("ConsoleEntry") /\ queue' = Rest("ConsoleEntry")
    /\ consoleLog' = IF kind = "Navigating" THEN <<>>
                     ELSE Append(consoleLog, Event("ConsoleEntry").id)
    /\ UNCHANGED <<kind, generation, exceptions, screenshot, accepted, target,
                   taskVars, callerVars, pageVars, historyVars, used>>

(* Exceptions are kept in every kind; in Running one forces a capture *)
HandleExceptionThrown ==
    /\ Takes("ExceptionThrown") /\ queue' = Rest("ExceptionThrown")
    /\ exceptions' = Append(exceptions, Event("ExceptionThrown").id)
    /\ IF kind = "Running" THEN BeginCapture ELSE UNCHANGED taskVars
    /\ UNCHANGED <<kind, generation, consoleLog, screenshot, accepted, target,
                   callerVars, pageVars, historyVars, used>>

(* The main frame shows another document: one that is still to load, or one   *)
(* restored from the back/forward cache, which will not report a load.        *)
HandleFrameNavigated ==
    /\ Takes("FrameNavigated") /\ browserOpen
    /\ LET e == Event("FrameNavigated")
       IN IF e.frame = "main"
          THEN /\ kind' = IF e.how = "load" THEN "Loading" ELSE "Running"
               /\ queue' = IF e.how = "load" THEN Rest("FrameNavigated")
                           ELSE Sent(Rest("FrameNavigated"),
                                     StateRequested(generation))
               /\ accepted' = None /\ target' = NoUrl
          ELSE /\ queue' = Rest("FrameNavigated")
               /\ UNCHANGED <<kind, accepted, target>>
    /\ UNCHANGED <<generation, consoleLog, exceptions, screenshot, taskVars,
                   callerVars, pageVars, historyVars, used>>

HandleTargetDestroyed ==
    /\ Takes("TargetDestroyed")
    /\ queue' = Rest("TargetDestroyed") /\ UNCHANGED used
    /\ IF Event("TargetDestroyed").own
       THEN Fail("target destroyed")
       ELSE UNCHANGED <<stateVars, taskVars, callerVars, pageVars, historyVars>>

(* The last arm of the match: any other pair of kind and event.  The failure  *)
(* "unhandled transition" is named here after the event.                      *)
UnhandledTransition ==
    \E type \in {"ActionAccepted", "Resumed", "DownloadWillBegin"} :
        /\ Takes(type)
        /\ kind \notin CASE type = "ActionAccepted" -> {"Paused"} \cup
                                                         ActionDropped
                          [] type = "Resumed" -> {"Running", "Resuming"} \cup
                                                 ResumedIgnored
                          [] OTHER -> {"Navigating"}
        /\ queue' = Rest(type) /\ UNCHANGED used
        /\ Fail(type)

(* A DevTools call of a handler gets no reply: the task waits for ever ...    *)
CallHangs ==
    \E type \in {"Paused", "FrameNavigated", "ActionAccepted",
                 "StateRequested", "ExceptionThrown"} :
        /\ Takes(type) /\ CallsDevTools(Event(type)) /\ browserOpen
        /\ queue' = Rest(type)
        /\ status' = "stuck" /\ Spend("hangs")
        /\ UNCHANGED <<stateVars, failure, capturing, applying, timers,
                       watchdogs, callerVars, pageVars, historyVars>>

(* ... or until the connection is gone, when every call fails *)
CallFails ==
    /\ ~browserOpen
    /\ \/ status = "stuck" /\ UNCHANGED queue
       \/ \E type \in {"Paused", "FrameNavigated", "ActionAccepted",
                       "StateRequested", "ExceptionThrown"} :
             /\ Takes(type) /\ CallsDevTools(Event(type))
             /\ queue' = Rest(type)
    /\ UNCHANGED used
    /\ Fail("connection closed")

(* select! takes the shutdown signal instead of the next event *)
Shutdown ==
    /\ shutdown /\ status = "running" /\ capturing = None
    /\ status' = "done"
    /\ UNCHANGED <<stateVars, failure, capturing, applying, timers, watchdogs,
                   queue, callerVars, pageVars, historyVars, used>>

-----------------------------------------------------------------------------
(* The tasks the handlers spawned.  What they send after the machine ended is *)
(* read by nobody, so they stop with it.                                      *)
TasksRun == status \in {"running", "stuck"}

(* The action is applied, or failed to apply; both are reported *)
ApplyFinishes ==
    /\ TasksRun
    /\ \E task \in applying :
          /\ applying' = applying \ {task}
          /\ queue' = Sent(queue, ActionApplied(task.gen))
    /\ UNCHANGED <<stateVars, status, failure, capturing, timers, watchdogs,
                   callerVars, pageVars, historyVars, used>>

(* The action's time is up: its task is aborted and a state is requested *)
TimeoutFires ==
    /\ TasksRun
    /\ \E g \in timers :
          /\ timers' = timers \ {g}
          /\ applying' = {task \in applying : task.gen # g}
          /\ queue' = Sent(queue, StateRequested(g))
    /\ UNCHANGED <<stateVars, status, failure, capturing, watchdogs,
                   callerVars, pageVars, historyVars, used>>

(* Thirty seconds after a report *)
WatchdogFires ==
    /\ TasksRun
    /\ \E g \in watchdogs :
          /\ watchdogs' = watchdogs \ {g}
          /\ queue' = Sent(queue, StateRequested(g))
    /\ UNCHANGED <<stateVars, status, failure, capturing, applying, timers,
                   callerVars, pageVars, historyVars, used>>

-----------------------------------------------------------------------------
(* The caller.  It waits for an event; a state is answered with one action,   *)
(* an error or a closed channel ends the test, and so may the caller itself.  *)
Terminates == caller' = "closing" /\ shutdown' = TRUE

Ended == status \in {"failed", "done"}

NextEvent ==
    /\ caller = "waiting"
    /\ \/ /\ lagged /\ lagged' = FALSE
          /\ Terminates /\ UNCHANGED <<unread, answering>>
       \/ /\ ~lagged /\ unread # <<>> /\ unread' = <<>>
          /\ IF Head(unread).type = "StateChanged"
             THEN /\ caller' = "choosing"
                  /\ answering' = Head(unread).report
                  /\ UNCHANGED shutdown
             ELSE Terminates /\ UNCHANGED answering
          /\ UNCHANGED lagged
       \/ /\ ~lagged /\ unread = <<>> /\ Ended
          /\ Terminates /\ UNCHANGED <<unread, lagged, answering>>
    /\ UNCHANGED <<stateVars, taskVars, queue, browserOpen, pageVars, historyVars,
                   used>>

(* The loop of run_test waits for the next event after every action *)
AfterApplyUnawaited == "choosing"
AfterApply == "waiting"

(* The actions channel holds one action: a new one replaces one not taken.    *)
(* Sending to a machine that ended is an error, which ends the test.          *)
Apply ==
    /\ caller = "choosing"
    /\ IF Ended
       THEN Terminates /\ UNCHANGED <<queue, used>>
       ELSE /\ caller' = AfterApply /\ Spend("actions")
            /\ queue' = [queue EXCEPT !["actions"] =
                            <<ActionAccepted(answering)>>]
            /\ UNCHANGED shutdown
    /\ UNCHANGED <<stateVars, taskVars, unread, lagged, answering, browserOpen, pageVars,
                   historyVars>>

(* Ctrl-C while waiting; a stop, an error or no action while choosing *)
GiveUp ==
    /\ caller \in {"waiting", "choosing"} /\ Terminates
    /\ Spend("interrupts")
    /\ UNCHANGED <<stateVars, taskVars, queue, unread, lagged, answering,
                   browserOpen, pageVars, historyVars>>

(* terminate closes the connection before it waits for the machine *)
MayCloseAfterDone == Ended
MayClose == TRUE

CloseBrowser ==
    /\ caller = "closing" /\ browserOpen /\ MayClose
    /\ browserOpen' = FALSE
    /\ UNCHANGED <<stateVars, taskVars, queue, unread, lagged, caller,
                   answering, shutdown, pageVars, historyVars, used>>

AwaitDone ==
    /\ caller = "closing" /\ ~browserOpen /\ Ended
    /\ caller' = "closed"
    /\ UNCHANGED <<stateVars, taskVars, queue, unread, lagged, answering,
                   shutdown, browserOpen, pageVars, historyVars, used>>

-----------------------------------------------------------------------------
(* The page and the browser process: environment.  While the page is paused   *)
(* its JavaScript does not run, it does not load and no new document replaces *)
(* it; the browser process goes on.                                           *)
PageLives == browserOpen /\ TasksRun
PageRuns == PageLives /\ ~pagePaused

PageFrame == UNCHANGED <<stateVars, taskVars, callerVars, historyVars>>

(* A script or a link navigates; a navigation in flight is replaced *)
PageNavigates ==
    /\ PageRuns /\ Spend("navigations")
    /\ \E url \in Urls :
          /\ navigation' = url
          /\ queue' = Sent(queue, FrameRequestedNavigation("main", url))
    /\ UNCHANGED <<document, loading, pagePaused, breaks>> /\ PageFrame

(* An action (back, forward, reload) navigates: the browser, not the frame,   *)
(* starts it, so there is no FrameRequestedNavigation.                        *)
ActionNavigates ==
    /\ PageRuns /\ applying # {} /\ Spend("navigations")
    /\ navigation' = "page"
    /\ UNCHANGED <<queue, document, loading, pagePaused, breaks>> /\ PageFrame

Commit ==
    /\ PageRuns /\ navigation # NoUrl
    /\ navigation' = NoUrl /\ document' = document + 1 /\ loading' = TRUE
    /\ queue' = Sent(queue, FrameNavigated("main", "load"))
    /\ UNCHANGED <<pagePaused, breaks, used>> /\ PageFrame

Restore ==
    /\ PageRuns /\ navigation # NoUrl /\ Spend("restores")
    /\ navigation' = NoUrl /\ document' = document + 1 /\ loading' = FALSE
    /\ queue' = Sent(queue, FrameNavigated("main", "restore"))
    /\ UNCHANGED <<pagePaused, breaks>> /\ PageFrame

Download ==
    /\ PageLives /\ navigation # NoUrl /\ Spend("downloads")
    /\ \E frame \in Frames :
          /\ queue' = Sent(queue, DownloadWillBegin(frame, navigation))
          /\ navigation' = IF frame = "main" THEN NoUrl ELSE navigation
    /\ UNCHANGED <<document, loading, pagePaused, breaks>> /\ PageFrame

(* No content, blocked, stopped: the document stays, and no event says so *)
Abort ==
    /\ PageLives /\ navigation # NoUrl /\ Spend("aborts")
    /\ navigation' = NoUrl
    /\ UNCHANGED <<queue, document, loading, pagePaused, breaks>> /\ PageFrame

Load ==
    /\ PageRuns /\ loading
    /\ loading' = FALSE
    /\ queue' = Sent(queue, Loaded)
    /\ UNCHANGED <<document, navigation, pagePaused, breaks, used>> /\ PageFrame

Throw ==
    /\ PageRuns /\ Spend("throws")
    /\ queue' = Sent(queue, ExceptionThrown(used'["throws"]))
    /\ UNCHANGED pageVars /\ PageFrame

Log ==
    /\ PageRuns /\ Spend("logs")
    /\ queue' = Sent(queue, ConsoleEntry(used'["logs"]))
    /\ loggedIn' = Append(loggedIn, document)
    /\ UNCHANGED <<stateVars, taskVars, callerVars, pageVars, reports,
                   toldExceptions, toldConsole>>

(* A frame other than the main one navigates, in a process of its own *)
SubframeNavigates ==
    /\ PageLives /\ Spend("subframes")
    /\ queue' = Sent(Sent(queue, FrameRequestedNavigation("sub", "page")),
                     FrameNavigated("sub", "load"))
    /\ UNCHANGED pageVars /\ PageFrame

DestroyTarget ==
    /\ PageLives /\ Spend("destroys")
    /\ \E own \in BOOLEAN : queue' = Sent(queue, TargetDestroyed(own))
    /\ UNCHANGED pageVars /\ PageFrame

(* Not the machine's doing: a debugger statement in the page's own code, or   *)
(* somebody else attached to the page resuming it.                            *)
OwnBreak ==
    /\ PageRuns /\ Spend("intrusions")
    /\ pagePaused' = TRUE
    /\ queue' = Sent(queue, Paused("other", TRUE))
    /\ UNCHANGED <<document, loading, navigation, breaks>> /\ PageFrame

OutsideResume ==
    /\ PageLives /\ pagePaused /\ Spend("intrusions")
    /\ pagePaused' = FALSE
    /\ queue' = Sent(queue, Resumed)
    /\ UNCHANGED <<document, loading, navigation, breaks>> /\ PageFrame

(* "debugger;0" runs in its document and stops the page *)
HitBreak ==
    /\ PageRuns /\ breaks # <<>> /\ Head(breaks) = document
    /\ breaks' = Tail(breaks) /\ pagePaused' = TRUE
    /\ \E reason \in PauseReasons :
          \/ queue' = Sent(queue, Paused(reason, TRUE)) /\ UNCHANGED used
          \/ queue' = Sent(queue, Paused(reason, FALSE)) /\ Spend("frameless")
    /\ UNCHANGED <<document, loading, navigation>> /\ PageFrame

(* Its document is gone, or the page is stopped already: nothing happens *)
DropBreak ==
    /\ PageLives /\ breaks # <<>>
    /\ Head(breaks) # document \/ pagePaused
    /\ breaks' = Tail(breaks)
    /\ UNCHANGED <<queue, document, loading, navigation, pagePaused, used>>
    /\ PageFrame

-----------------------------------------------------------------------------
Handle ==
    \/ HandleStateRequested \/ HandlePausedFrameless \/ HandlePaused
    \/ PausedFails \/ HandleActionAccepted \/ ResumeFails \/ HandleResumed
    \/ HandleActionApplied \/ HandleLoaded \/ HandleFrameRequestedNavigation
    \/ HandleDownloadWillBegin \/ HandleConsoleEntry \/ HandleExceptionThrown
    \/ HandleFrameNavigated \/ HandleTargetDestroyed \/ UnhandledTransition

Machine == Handle \/ FinishCapture \/ SkipCapture \/ CallFails

Timers == TimeoutFires \/ WatchdogFires

Caller == NextEvent \/ Apply \/ GiveUp \/ CloseBrowser \/ AwaitDone

Navigate == Commit \/ Restore \/ Download \/ Abort

Page == \/ PageNavigates \/ ActionNavigates \/ Navigate \/ Load \/ Throw \/ Log
        \/ SubframeNavigates \/ DestroyTarget \/ OwnBreak \/ OutsideResume
        \/ HitBreak \/ DropBreak

Next == Machine \/ CallHangs \/ Shutdown \/ ApplyFinishes \/ Timers \/ Caller
        \/ Page

Spec == Init /\ [][Next]_vars

(* tokio runs every task that can run and every sleep ends, so the machine,   *)
(* the timers and terminate make progress.  Of the page it is assumed that it *)
(* runs queued evaluations, that navigations come to an end and that          *)
(* documents load.  Nothing obliges the caller to act, the page to navigate   *)
(* or throw, or an action to finish.                                          *)
Fairness ==
    /\ WF_vars(Machine) /\ WF_vars(Shutdown)
    /\ WF_vars(TimeoutFires) /\ WF_vars(WatchdogFires)
    /\ WF_vars(CloseBrowser) /\ WF_vars(AwaitDone)
    /\ WF_vars(Navigate) /\ WF_vars(Load) /\ WF_vars(HitBreak)
    /\ WF_vars(DropBreak)

FairSpec == Spec /\ Fairness

-----------------------------------------------------------------------------
(* Properties *)

Events ==
    [type : {"StateRequested", "ActionApplied"}, gen : Nat] \cup
    [type : {"ActionAccepted"}, action : Nat] \cup
    [type : {"ExceptionThrown", "ConsoleEntry"}, id : Nat] \cup
    [type : {"Loaded", "Resumed"}] \cup
    [type : {"Paused"}, reason : {"other", "exception"}, framed : BOOLEAN]
    \cup
    [type : {"FrameRequestedNavigation", "DownloadWillBegin"},
     frame : Frames, url : Urls] \cup
    [type : {"FrameNavigated"}, frame : Frames, how : {"load", "restore"}]
    \cup
    [type : {"TargetDestroyed"}, own : BOOLEAN]

(* Where on its stream the undelivered events of a type are *)
Undelivered(type) ==
    {i \in DOMAIN queue[Lane(type)] : queue[Lane(type)][i].type = type}

Failures == {"none", "unexpected pause reason", "no screenshot",
             "page not paused", "target destroyed", "connection closed",
             "ActionAccepted", "Resumed", "DownloadWillBegin"}

BrowserEvents == [type : {"StateChanged", "Error"}, report : Nat]

Reports == [gen : Nat, document : Nat, screenshot : Nat, console : Seq(Nat)]

(* Every variable has its type, and the report channel holds at most one      *)
(* event.                                                                     *)
StateTyped ==
    /\ kind \in Kinds /\ generation \in Nat
    /\ consoleLog \in Seq(Nat) /\ exceptions \in Seq(Nat)
    /\ screenshot \in Nat /\ accepted \in Nat
    /\ target \in Urls \cup {NoUrl}

TasksTyped ==
    /\ status \in {"running", "stuck", "failed", "done"}
    /\ failure \in Failures /\ capturing \in Nat
    /\ applying \subseteq [gen : Nat, action : Nat]
    /\ timers \subseteq Nat /\ watchdogs \subseteq Nat

CallerTyped ==
    /\ unread \in Seq(BrowserEvents)
    /\ Len(unread) <= 1 /\ lagged \in BOOLEAN
    /\ caller \in {"waiting", "choosing", "closing", "closed"}
    /\ answering \in Nat /\ shutdown \in BOOLEAN /\ browserOpen \in BOOLEAN

PageTyped ==
    /\ document \in Nat \ {0} /\ loading \in BOOLEAN
    /\ navigation \in Urls \cup {NoUrl} /\ pagePaused \in BOOLEAN
    /\ breaks \in Seq(Nat)

HistoryTyped ==
    /\ reports \in Seq(Reports)
    /\ toldExceptions \in Seq(Nat) /\ toldConsole \in Seq(Nat)
    /\ loggedIn \in Seq(Nat)

TypeOK ==
    /\ StateTyped /\ TasksTyped /\ CallerTyped /\ PageTyped /\ HistoryTyped
    /\ queue \in [Lanes -> Seq(Events)]
    /\ used \in [DOMAIN Bounds -> Nat]

(* Nobody but the machine paused or resumed the page so far *)
Undisturbed == used["intrusions"] = 0

(* Every uncaught exception is reported exactly once and in order, whichever  *)
(* kinds, captures and navigations it falls into: what was reported, what is  *)
(* kept for the next report and what is still to be delivered are together    *)
(* the exceptions thrown (the exceptions vector of InnerStateShared).         *)
ExceptionsReportedOnce ==
    LET told == toldExceptions \o exceptions
        waiting == queue[Lane("ExceptionThrown")]
    IN status = "running" =>
        /\ \A i \in DOMAIN told : told[i] = i
        /\ Len(told) <= used["throws"]
        /\ {waiting[i].id : i \in Undelivered("ExceptionThrown")}
              = (Len(told) + 1)..used["throws"]
        /\ \A i, j \in Undelivered("ExceptionThrown") :
              i < j => waiting[i].id < waiting[j].id

(* A console entry may be dropped, but none is reported twice or out of order *)
(* (console_entries is cleared by every report and when an action starts).    *)
ConsoleNeverRepeated ==
    LET told == toldConsole \o consoleLog
        waiting == queue[Lane("ConsoleEntry")]
    IN /\ \A i, j \in DOMAIN told : i < j => told[i] < told[j]
       /\ \A i \in DOMAIN told, j \in Undelivered("ConsoleEntry") :
             told[i] < waiting[j].id
       /\ \A i, j \in Undelivered("ConsoleEntry") :
             i < j => waiting[i].id < waiting[j].id

(* A screenshot and the state it is reported with are of one document, though *)
(* they are taken at different times (capture_browser_state and the handler   *)
(* of Paused) and the page may navigate in between.                           *)
ScreenshotShowsReport ==
    Undisturbed => \A i \in 1..Len(reports) :
                       reports[i].screenshot = reports[i].document

(* An action is applied once per generation: no two tasks apply an action for *)
(* one generation, none is still applying what it reported as applied, and    *)
(* in Paused and Resuming nothing of the current generation is left over: an  *)
(* ActionApplied or a timeout of an earlier action never ends a later one.    *)
(* Nothing is of a generation to come, either.                                *)
AppliedAt(i) ==
    /\ i \in 1..Len(queue["inner"])
    /\ queue["inner"][i].type = "ActionApplied"

OneActionPerGeneration ==
    /\ \A t \in applying : t.gen <= generation
    /\ \A g \in timers : g <= generation
    /\ \A i \in 1..Len(queue["inner"]) :
          AppliedAt(i) => queue["inner"][i].gen <= generation
    /\ \A s, t \in applying : s.gen = t.gen => s = t
    /\ \A i, j \in 1..Len(queue["inner"]) :
          /\ AppliedAt(i) /\ AppliedAt(j)
          /\ queue["inner"][i].gen = queue["inner"][j].gen
          => i = j
    /\ \A t \in applying, i \in 1..Len(queue["inner"]) :
          AppliedAt(i) => queue["inner"][i].gen # t.gen
    /\ kind \in {"Paused", "Resuming"} =>
          /\ \A t \in applying : t.gen # generation
          /\ \A i \in 1..Len(queue["inner"]) :
                AppliedAt(i) => queue["inner"][i].gen # generation
          /\ generation \notin timers

(* Console entries are cleared "between page navigations" (the note in the    *)
(* handler of ConsoleEntry): a reported entry was logged by the document it   *)
(* is reported with.                                                          *)
ConsoleOfReportedPage ==
    \A i \in 1..Len(reports) :
        \A k \in 1..Len(reports[i].console) :
            loggedIn[reports[i].console[k]] = reports[i].document

(* The action that starts is the answer to the latest report: actions carry   *)
(* no generation of their own, so one that arrived late would be applied to a *)
(* page it was not chosen for (as happens when somebody else resumes the page *)
(* while the caller is choosing).                                             *)
ActionAnswersLatestReport ==
    [][\A task \in applying' \ applying :
          Undisturbed => task.action = Len(reports)]_vars

(* As long as nobody else resumes the page, the channels of capacity one      *)
(* carry everything that matters: no action replaces one that was not taken,  *)
(* and a state is lost unread only to the error of a machine that failed.     *)
ChannelsNeverOverflow ==
    Undisturbed =>
        /\ lagged => status = "failed"
        /\ caller = "choosing" => queue["actions"] = <<>>

(* What the machine believes of the debugger is so, as long as nobody else    *)
(* uses it: the page stands still exactly in Paused and while the machine is  *)
(* about to learn of it.  A page that stood still in any other kind would be  *)
(* frozen for ever; one that ran in Paused could not be resumed.              *)
PauseWaiting ==
    Undelivered("Paused") # {}

PausedIsPaused ==
    status = "running" /\ Undisturbed =>
        (pagePaused <=> kind = "Paused" \/ PauseWaiting)

(* As long as DevTools events arrive in order and the only pauses are our     *)
(* own, the machine fails only because its page or its connection is gone or  *)
(* because a download begins in a kind that has no arm for it: no other pair  *)
(* of kind and event is left unhandled, no pause comes without a screenshot,  *)
(* and no page is resumed or read that does not stand still.                  *)
FailsOnlyWithThePage ==
    Undisturbed => failure \in {"none", "target destroyed",
                              "connection closed", "DownloadWillBegin"}

(* A machine that waits for the page gets to a state to report, or tells the  *)
(* caller that it failed.                                                     *)
StateEventuallyReported ==
    (status = "running" /\ kind # "Paused")
        ~> (kind = "Paused" \/ status # "running" \/ shutdown)

(* "Watchdog: if nothing happens for 30s, force a new state capture": after a *)
(* first state there is always a next one for the caller to act on.           *)
WatchdogForcesState ==
    (reports # <<>> /\ status = "running" /\ kind # "Paused")
        ~> (kind = "Paused" \/ status # "running" \/ shutdown)

(* terminate returns, even with a handler waiting for a reply for ever (the   *)
(* order of its steps is there for that).                                     *)
TerminateReturns == (caller = "closing") ~> (caller = "closed")

=============================================================================
