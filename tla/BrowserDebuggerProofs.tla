------------------------ MODULE BrowserDebuggerProofs ------------------------
(* The pauses of the page, the turns of the machine and its caller, and the   *)
(* screenshots they exchange, for every value of the constants: a report and  *)
(* its screenshot are of one document, an action answers the latest report,   *)
(* and no channel of capacity one loses anything but the last report of a     *)
(* machine that failed.  One inductive invariant has all three: while a pause *)
(* is undelivered or a turn is out the page stands still, so the document of  *)
(* the screenshot stays, and nobody else gets a turn.                         *)
EXTENDS BrowserMachineProofs

-----------------------------------------------------------------------------
(* The invariant *)

(* A report the caller has not taken *)
ReportUnread == unread # <<>> /\ Head(unread).type = "StateChanged"

(* ... one it chooses an action for, or an action the machine has not taken   *)
TurnOut == ReportUnread \/ caller = "choosing" \/ queue["actions"] # <<>>

OnePause == \A i, j \in Undelivered("Paused") : i = j

(* A pause is told once, and the page stands still from when it is hit to     *)
(* when the machine resumes it.                                               *)
Pauses ==
    /\ OnePause
    /\ PauseWaiting => pagePaused
    /\ kind = "Paused" => pagePaused /\ ~PauseWaiting

(* Who holds the turn answers the latest report, and the page waits for it.   *)
Turns ==
    /\ TurnOut => pagePaused /\ ~PauseWaiting
    /\ ReportUnread => /\ caller # "choosing" /\ queue["actions"] = <<>>
                       /\ unread = <<StateChanged(Len(reports))>>
    /\ caller = "choosing" => /\ queue["actions"] = <<>>
                              /\ answering = Len(reports)
    /\ queue["actions"] \in {<<>>, <<ActionAccepted(Len(reports))>>}
    /\ kind = "Resuming" => accepted = Len(reports)
    /\ unread # <<>> /\ ~ReportUnread => status = "failed"
    /\ lagged => status = "failed"

(* A break that can still be hit is of a document no younger than the one on  *)
(* the screenshot.                                                            *)
Screenshots ==
    /\ screenshot <= document
    /\ capturing <= document
    /\ PauseWaiting => screenshot = document
    /\ \A i \in 1..Len(breaks) : /\ breaks[i] <= document
                                 /\ ~pagePaused => breaks[i] <= screenshot
    /\ \A i \in 1..Len(reports) :
          reports[i].screenshot = reports[i].document

DebuggerInv == Undisturbed => Pauses /\ Turns /\ Screenshots

-----------------------------------------------------------------------------
(* Undelivered pauses *)

(* A pause, with or without a frame, is an event of one type. *)
LEMMA PausedTyped ==
    /\ "Paused" \in Watched /\ "Paused" \in EventTypes
    /\ \A reason \in {"other", "exception"}, framed \in BOOLEAN :
          /\ Paused(reason, framed) \in Events
          /\ Paused(reason, framed).type = "Paused"
BY EventsTyped DEF Watched, EventTypes, DevToolsTypes, Paused

(* Where pauses are undelivered, as a set of positions. *)
LEMMA PausesAt ==
    /\ PauseWaiting <=> At(queue, "Paused") # {}
    /\ OnePause <=> \A i, j \in At(queue, "Paused") : i = j
    /\ PauseWaiting' <=> At(queue', "Paused") # {}
    /\ OnePause' <=> \A i, j \in At(queue', "Paused") : i = j
BY DEF PauseWaiting, OnePause, Undelivered, At

(* The same pauses stay the only ones. *)
LEMMA PausesSame ==
    ASSUME TypeOK, TypeOK', Same("Paused", queue, queue')
    PROVE  (PauseWaiting' <=> PauseWaiting) /\ (OnePause => OnePause')
<1>1. PICK shift \in Int :
         /\ \A i \in At(queue', "Paused") : i + shift \in At(queue, "Paused")
         /\ \A i \in At(queue, "Paused") : i - shift \in At(queue', "Paused")
  BY DEF Same
<1>2. At(queue, "Paused") \subseteq Nat /\ At(queue', "Paused") \subseteq Nat
  BY PausedTyped, PositionsTyped DEF TypeOK, Queues
<1>3. PauseWaiting' <=> PauseWaiting
  BY <1>1, PausesAt
<1>4. ASSUME OnePause PROVE OnePause'
  <2> SUFFICES ASSUME NEW i \in At(queue', "Paused"),
                      NEW j \in At(queue', "Paused")
               PROVE  i = j
    BY PausesAt
  <2>1. i + shift = j + shift
    BY <1>1, <1>4, PausesAt
  <2> QED
    BY <1>2, <2>1
<1> QED
  BY <1>3, <1>4

(* Taking the only pause leaves none. *)
LEMMA PausesTaken ==
    ASSUME TypeOK, Takes("Paused"), OnePause
    PROVE  PauseWaiting /\ At(Rest("Paused"), "Paused") = {}
<1>1. /\ 1 \in At(queue, "Paused")
      /\ \A i \in At(Rest("Paused"), "Paused") : i + 1 \in At(queue, "Paused")
  BY PausedTyped, FirstTaken
<1>2. Rest("Paused") \in Queues
  BY PausedTyped, TakenTyped
<1>3. At(Rest("Paused"), "Paused") \subseteq 1..Len(Rest("Paused")[Lane("Paused")])
  BY <1>2, PausedTyped, PositionsTyped
<1>4. \A i \in At(Rest("Paused"), "Paused") : i + 1 = 1 /\ i >= 1
  BY <1>1, <1>3, PausesAt
<1> QED
  BY <1>1, <1>3, <1>4, PausesAt

(* Sending one when there is none makes it the only one. *)
LEMMA PausesSent ==
    ASSUME TypeOK, ~PauseWaiting, NEW reason \in {"other", "exception"},
           NEW framed \in BOOLEAN, queue' = Sent(queue, Paused(reason, framed))
    PROVE  PauseWaiting' /\ OnePause'
<1>1. queue \in Queues /\ Paused(reason, framed) \in Events
      /\ Paused(reason, framed).type = "Paused"
  BY PausedTyped DEF TypeOK, Queues
<1>2. \A e \in Events : \E n \in Nat :
         At(Sent(queue, e), e.type) = At(queue, e.type) \cup {n}
  BY <1>1, LastSent
<1>3. \E n \in Nat : At(queue', "Paused") = At(queue, "Paused") \cup {n}
  BY <1>1, <1>2
<1> QED
  BY <1>3, PausesAt

(* The steps that take or send no pause they survive *)
LEMMA PausesKept ==
    ASSUME TypeOK, TypeOK', [Next]_vars, OnePause,
           ~(HandlePausedFrameless \/ HandlePaused \/ HitBreak \/ OwnBreak)
    PROVE  OnePause' /\ (PauseWaiting' => PauseWaiting)
<1>1. Same("Paused", queue, queue') \/ Lost("Paused")
  BY AllMove, PausedTyped DEF Moved
<1>2. CASE Same("Paused", queue, queue')
  BY <1>2, PausesSame
<1>3. CASE Lost("Paused")
  BY <1>3, PausesTaken, PausesAt DEF Lost
<1> QED
  BY <1>1, <1>2, <1>3

-----------------------------------------------------------------------------
(* The actions channel *)

(* Actions have the channel to themselves. *)
LEMMA ActionsLane ==
    /\ "actions" \in Lanes /\ Lane("ActionAccepted") = "actions"
    /\ "ActionAccepted" \in EventTypes
    /\ \A type \in EventTypes \ {"ActionAccepted"} : Lane(type) # "actions"
BY DEF Lanes, Lane, EventTypes, DevToolsTypes

(* Everything else that is sent or taken leaves it alone ... *)
LEMMA ActionsElsewhere ==
    ASSUME TypeOK, NEW type \in EventTypes \ {"ActionAccepted"}, NEW q \in Queues
    PROVE  /\ Rest(type)["actions"] = queue["actions"]
           /\ \A e \in Events :
                 e.type = type => Sent(q, e)["actions"] = q["actions"]
BY ActionsLane DEF TypeOK, Rest, Taken, Sent, Queues

(* A handler leaves the channel alone, or takes its action. *)
LEMMA ActionsLeft ==
    ASSUME TypeOK, NEW type \in EventTypes, Takes(type), queue' \in Left(type)
    PROVE  /\ type = "ActionAccepted" =>
                 queue'["actions"] = Tail(queue["actions"])
           /\ type # "ActionAccepted" =>
                 queue'["actions"] = queue["actions"]
<1>1. Rest(type) \in Queues
  BY TakenTyped
<1>2. queue'["actions"] = Rest(type)["actions"]
  <2>1. /\ StateRequested(generation) \in Events /\ Resumed \in Events
        /\ StateRequested(generation).type = "StateRequested"
        /\ Resumed.type = "Resumed"
    BY EventsTyped DEF TypeOK, StateTyped, StateRequested, Resumed
  <2> QED
    BY <1>1, <2>1, ActionsElsewhere DEF Left, EventTypes, DevToolsTypes
<1>3. CASE type # "ActionAccepted"
  BY <1>2, <1>3, ActionsElsewhere DEF TypeOK, Queues
<1>4. CASE type = "ActionAccepted"
  BY <1>2, <1>4, ActionsLane DEF Rest, Taken, TypeOK
<1> QED
  BY <1>3, <1>4

(* The channel keeps its action, or the action is taken, or one is applied. *)
ActionTaken ==
    /\ Takes("ActionAccepted")
    /\ queue'["actions"] = Tail(queue["actions"])

(* Of all steps only apply and the machine touch the channel. *)
LEMMA ActionsMove ==
    ASSUME TypeOK, [Next]_vars, ~Apply
    PROVE  queue'["actions"] = queue["actions"] \/ ActionTaken
<1> USE DEF EventTypes, DevToolsTypes
<1> DEFINE Kept == queue'["actions"] = queue["actions"]
<1>1. \A type \in EventTypes : Takes(type) /\ queue' \in Left(type) =>
         Kept \/ (type = "ActionAccepted" /\ ActionTaken)
  <2> SUFFICES ASSUME NEW type \in EventTypes, Takes(type), queue' \in Left(type)
               PROVE  Kept \/ (type = "ActionAccepted" /\ ActionTaken)
    OBVIOUS
  <2>1. CASE type = "ActionAccepted"
    BY <2>1, ActionsLeft DEF ActionTaken
  <2>2. CASE type # "ActionAccepted"
    BY <2>2, ActionsLeft
  <2> QED
    BY <2>1, <2>2
<1>2. \A e \in Events :
         e.type \in EventTypes \ {"ActionAccepted"} /\ queue' = Sent(queue, e)
         => Kept
  BY ActionsElsewhere DEF TypeOK, Queues
<1>3. CASE \/ HandleStateRequested \/ HandlePausedFrameless \/ HandlePaused
           \/ PausedFails \/ HandleActionAccepted \/ ResumeFails
           \/ HandleResumed \/ HandleActionApplied
  BY <1>1, <1>3 DEF HandleStateRequested, HandlePausedFrameless, HandlePaused,
     PausedFails, HandleActionAccepted, ResumeFails, HandleResumed,
     HandleActionApplied, Left
<1>4. CASE \/ HandleLoaded \/ HandleFrameRequestedNavigation
           \/ HandleDownloadWillBegin \/ HandleConsoleEntry
           \/ HandleExceptionThrown \/ HandleFrameNavigated
           \/ HandleTargetDestroyed \/ UnhandledTransition
  BY <1>1, <1>4 DEF HandleLoaded, HandleFrameRequestedNavigation,
     HandleDownloadWillBegin, HandleConsoleEntry, HandleExceptionThrown,
     HandleFrameNavigated, HandleTargetDestroyed, UnhandledTransition, Left
<1>5. CASE CallFails \/ CallHangs
  BY <1>1, <1>5 DEF CallFails, CallHangs, Left
<1>6. CASE ApplyFinishes
  <2>1. PICK task \in applying : queue' = Sent(queue, ActionApplied(task.gen))
    BY <1>6 DEF ApplyFinishes
  <2> QED
    BY <1>2, <2>1, EventsTyped DEF TypeOK, TasksTyped, ActionApplied
<1>7. CASE Timers
  <2>1. PICK g \in Nat : queue' = Sent(queue, StateRequested(g))
    BY <1>7 DEF Timers, TimeoutFires, WatchdogFires, TypeOK, TasksTyped
  <2> QED
    BY <1>2, <2>1, EventsTyped DEF StateRequested
<1>8. CASE UNCHANGED queue
  BY <1>8
<1>9. CASE \/ FinishCapture \/ SkipCapture \/ Shutdown
           \/ NextEvent \/ GiveUp \/ CloseBrowser \/ AwaitDone
  BY <1>8, <1>9 DEF FinishCapture, SkipCapture, Shutdown, NextEvent, GiveUp,
                    CloseBrowser, AwaitDone
<1>10. CASE Page
  <2>1. CASE ActionNavigates \/ Abort \/ DropBreak
    BY <1>8, <2>1 DEF ActionNavigates, Abort, DropBreak
  <2>2. CASE PageNavigates \/ Commit \/ Restore
    BY <1>2, <2>2, EventsTyped DEF PageNavigates, Commit, Restore,
       FrameRequestedNavigation, FrameNavigated, Frames
  <2>3. CASE Download
    <3>1. navigation \in Urls
      BY <2>3 DEF Download, TypeOK, PageTyped
    <3> QED
      BY <1>2, <2>3, <3>1, EventsTyped DEF Download, DownloadWillBegin
  <2>4. CASE Load \/ DestroyTarget \/ OutsideResume \/ OwnBreak
    BY <1>2, <2>4, EventsTyped DEF Load, DestroyTarget, OutsideResume,
       OwnBreak, Loaded, TargetDestroyed, Resumed, Paused
  <2>5. CASE Throw \/ Log
    <3>1. used'["throws"] \in Nat /\ used'["logs"] \in Nat
      BY <2>5, SpendTyped DEF Throw, Log, TypeOK, Bounds
    <3> QED
      BY <1>2, <2>5, <3>1, EventsTyped DEF Throw, Log, ExceptionThrown,
         ConsoleEntry
  <2>6. CASE SubframeNavigates
    <3> DEFINE e == FrameRequestedNavigation("sub", "page")
               f == FrameNavigated("sub", "load")
    <3>1. /\ e \in Events /\ f \in Events
          /\ e.type = "FrameRequestedNavigation" /\ f.type = "FrameNavigated"
      BY EventsTyped DEF FrameRequestedNavigation, FrameNavigated, Frames, Urls
    <3>2. queue \in Queues /\ Sent(queue, e) \in Queues
      BY <3>1, SentTyped DEF TypeOK, Queues
    <3>3. Sent(Sent(queue, e), f)["actions"] = queue["actions"]
      BY <3>1, <3>2, ActionsElsewhere
    <3> QED
      BY <2>6, <3>3 DEF SubframeNavigates
  <2>7. CASE HitBreak
    BY <1>2, <2>7, PausedTyped, ConstantsAssumption DEF HitBreak
  <2> QED
    BY <1>10, <2>1, <2>2, <2>3, <2>4, <2>5, <2>6, <2>7 DEF Page, Navigate
<1>11. CASE UNCHANGED vars
  BY <1>8, <1>11 DEF vars
<1> QED
  BY <1>3, <1>4, <1>5, <1>6, <1>7, <1>9, <1>10, <1>11
     DEF Next, Machine, Handle, Caller

-----------------------------------------------------------------------------
(* The steps that pause and resume nothing and give nobody a turn *)

CalmPage ==
    /\ UNCHANGED <<pagePaused, breaks>>
    /\ document' = document \/ (document' = document + 1 /\ ~pagePaused)

CalmMachine ==
    /\ UNCHANGED <<screenshot, reports>>
    /\ kind' = kind \/ kind' \notin {"Paused", "Resuming"}
    /\ accepted' = accepted \/ kind' # "Resuming"
    /\ capturing' \in {capturing, document, None}
    /\ status = "failed" => status' = "failed"

CalmCaller ==
    /\ UNCHANGED answering
    /\ caller' = caller \/ caller' # "choosing"
    /\ \/ UNCHANGED <<unread, lagged>>
       \/ unread' = <<ErrorEvent>> /\ status' = "failed"

Calm == CalmPage /\ CalmMachine /\ CalmCaller

(* Nothing is paused or sent by them. *)
CalmQueue ==
    /\ OnePause' /\ (PauseWaiting' => PauseWaiting)
    /\ queue'["actions"] \in {queue["actions"], <<>>}

(* Such a step keeps the invariant. *)
LEMMA CalmKeeps ==
    ASSUME TypeOK, TypeOK', Pauses, Turns, Screenshots, Calm, CalmQueue
    PROVE  Pauses' /\ Turns' /\ Screenshots'
<1>1. Pauses'
  BY DEF Pauses, Calm, CalmPage, CalmMachine, CalmQueue
<1>2. ReportUnread' => ReportUnread /\ UNCHANGED unread
  BY DEF ReportUnread, Calm, CalmCaller, ErrorEvent
<1>3. TurnOut' => TurnOut
  BY <1>2 DEF TurnOut, Calm, CalmCaller, CalmQueue
<1>4. Turns'
  <2>1. TurnOut' => pagePaused' /\ ~PauseWaiting'
    BY <1>3 DEF Turns, Calm, CalmPage, CalmQueue
  <2>2. ReportUnread' => /\ caller' # "choosing" /\ queue'["actions"] = <<>>
                         /\ unread' = <<StateChanged(Len(reports'))>>
    BY <1>2 DEF Turns, Calm, CalmCaller, CalmMachine, CalmQueue
  <2>3. /\ caller' = "choosing" => /\ queue'["actions"] = <<>>
                                   /\ answering' = Len(reports')
        /\ queue'["actions"] \in {<<>>, <<ActionAccepted(Len(reports'))>>}
    BY DEF Turns, Calm, CalmCaller, CalmMachine, CalmQueue
  <2>4. kind' = "Resuming" => accepted' = Len(reports')
    BY DEF Turns, Calm, CalmMachine
  <2>5. /\ unread' # <<>> /\ ~ReportUnread' => status' = "failed"
        /\ lagged' => status' = "failed"
    <3>1. CASE unread' = <<ErrorEvent>> /\ status' = "failed"
      BY <3>1
    <3>2. CASE UNCHANGED <<unread, lagged>>
      BY <3>2 DEF Turns, Calm, CalmMachine, ReportUnread
    <3> QED
      BY <3>1, <3>2 DEF Calm, CalmCaller
  <2> QED
    BY <2>1, <2>2, <2>3, <2>4, <2>5 DEF Turns
<1>5. Screenshots'
  <2>1. /\ document \in Nat /\ document' \in Nat /\ screenshot \in Nat
        /\ capturing \in Nat /\ document <= document'
        /\ breaks \in Seq(Nat)
    BY DEF TypeOK, PageTyped, StateTyped, TasksTyped, Calm, CalmPage
  <2>2. \A i \in 1..Len(breaks) : breaks[i] \in Nat
    BY <2>1, ElementOfSeq
  <2>3. screenshot' <= document' /\ capturing' <= document'
    BY <2>1 DEF Screenshots, Calm, CalmMachine, None
  <2>4. PauseWaiting' => screenshot' = document'
    BY DEF Screenshots, Pauses, Calm, CalmMachine, CalmPage, CalmQueue
  <2>5. \A i \in 1..Len(breaks') : /\ breaks'[i] <= document'
                                   /\ ~pagePaused' => breaks'[i] <= screenshot'
    BY <2>1, <2>2 DEF Screenshots, Calm, CalmMachine, CalmPage
  <2> QED
    BY <2>3, <2>4, <2>5 DEF Screenshots, Calm, CalmMachine
<1> QED
  BY <1>1, <1>4, <1>5

(* The steps that are not calm *)
Active ==
    \/ HandlePausedFrameless \/ HandlePaused \/ FinishCapture
    \/ HandleActionAccepted /\ kind = "Paused"
    \/ NextEvent \/ Apply \/ HitBreak \/ DropBreak \/ OwnBreak \/ OutsideResume

(* Beginning a capture is calm. *)
LEMMA BeginCaptureCalm ==
    BeginCapture => capturing' = document /\ UNCHANGED status
BY DEF BeginCapture

(* So is failing. *)
LEMMA FailCalm ==
    ASSUME NEW why, Fail(why) PROVE Calm
BY DEF Fail, Deliver, None, Calm, CalmPage, CalmMachine, CalmCaller,
       stateVars, pageVars, historyVars

(* So is every step but the active ones. *)
LEMMA OthersCalm ==
    ASSUME [Next]_vars, ~Active PROVE Calm
<1> USE DEF stateVars, taskVars, callerVars, pageVars, historyVars
<1>1. CASE \/ PausedFails \/ ResumeFails \/ UnhandledTransition \/ CallFails
  BY <1>1, FailCalm DEF PausedFails, ResumeFails, UnhandledTransition, CallFails
<1>2. CASE HandleStateRequested \/ HandleExceptionThrown
  BY <1>2, BeginCaptureCalm DEF HandleStateRequested, HandleExceptionThrown,
     Calm, CalmPage, CalmMachine, CalmCaller
<1>3. CASE HandleActionAccepted
  <2>1. /\ UNCHANGED <<kind, accepted, screenshot, pageVars, taskVars,
                       callerVars, reports>>
    BY <1>3 DEF HandleActionAccepted, Active
  <2> QED
    BY <2>1 DEF Calm, CalmPage, CalmMachine, CalmCaller
<1>4. CASE HandleResumed \/ HandleActionApplied \/ HandleLoaded
  BY <1>4 DEF HandleResumed, HandleActionApplied, HandleLoaded, Calm,
     CalmPage, CalmMachine, CalmCaller
<1>5. CASE HandleFrameRequestedNavigation \/ HandleDownloadWillBegin
  BY <1>5 DEF HandleFrameRequestedNavigation, HandleDownloadWillBegin, Calm,
     CalmPage, CalmMachine, CalmCaller
<1>6. CASE HandleConsoleEntry \/ HandleFrameNavigated
  BY <1>6 DEF HandleConsoleEntry, HandleFrameNavigated, Calm, CalmPage,
     CalmMachine, CalmCaller
<1>7. CASE HandleTargetDestroyed
  <2>1. \/ Fail("target destroyed")
        \/ UNCHANGED <<stateVars, taskVars, callerVars, pageVars, historyVars>>
    BY <1>7 DEF HandleTargetDestroyed
  <2>2. ASSUME UNCHANGED <<stateVars, taskVars, callerVars, pageVars,
                           historyVars>>
        PROVE  Calm
    BY <2>2 DEF Calm, CalmPage, CalmMachine, CalmCaller
  <2> QED
    BY <2>1, <2>2, FailCalm
<1>8. CASE SkipCapture \/ CallHangs \/ Shutdown \/ ApplyFinishes \/ Timers
  BY <1>8 DEF SkipCapture, CallHangs, Shutdown, ApplyFinishes, Timers, Takes,
     TimeoutFires, WatchdogFires, Calm, CalmPage, CalmMachine, CalmCaller, None
<1>9. CASE GiveUp \/ CloseBrowser \/ AwaitDone
  BY <1>9 DEF GiveUp, Terminates, CloseBrowser, AwaitDone, Calm, CalmPage,
     CalmMachine, CalmCaller
<1>10. CASE Page
  BY <1>10 DEF Active, Page, Navigate, PageNavigates, ActionNavigates, Commit,
     Restore, Download, Abort, Load, Throw, Log, SubframeNavigates,
     DestroyTarget, PageRuns, PageFrame, Calm, CalmPage, CalmMachine, CalmCaller
<1>11. CASE UNCHANGED vars
  BY <1>11 DEF vars, Calm, CalmPage, CalmMachine, CalmCaller
<1> QED
  BY <1>1, <1>2, <1>3, <1>4, <1>5, <1>6, <1>7, <1>8, <1>9, <1>10, <1>11
     DEF Next, Machine, Handle, Caller, Active

(* So is taking an event that is neither a pause nor an action. *)
LEMMA QueueCalm ==
    ASSUME TypeOK, TypeOK', Pauses, Turns, [Next]_vars, ~Active
    PROVE  CalmQueue
<1>1. OnePause' /\ (PauseWaiting' => PauseWaiting)
  BY PausesKept DEF Active, Pauses
<1>2. queue'["actions"] = queue["actions"] \/ ActionTaken
  BY ActionsMove DEF Active
<1>3. ASSUME ActionTaken PROVE queue'["actions"] = <<>>
  <2>1. queue["actions"] = <<ActionAccepted(Len(reports))>>
    BY <1>3, ActionsLane DEF Turns, ActionTaken, Takes
  <2> QED
    BY <1>3, <2>1 DEF ActionTaken
<1> QED
  BY <1>1, <1>2, <1>3 DEF CalmQueue

-----------------------------------------------------------------------------
(* The steps that pause, resume, report, answer or take a screenshot *)

DebuggerParts == Pauses /\ Turns /\ Screenshots

(* Who takes a pause finds the page standing still and nobody's turn. *)
LEMMA PauseTaken ==
    ASSUME TypeOK, DebuggerParts, Takes("Paused")
    PROVE  /\ pagePaused /\ ~TurnOut /\ screenshot = document
           /\ unread = <<>> /\ queue["actions"] = <<>>
           /\ At(Rest("Paused"), "Paused") = {}
<1>1. PauseWaiting /\ At(Rest("Paused"), "Paused") = {}
  BY PausesTaken DEF DebuggerParts, Pauses
<1>2. status # "failed"
  BY DEF Takes
<1> QED
  BY <1>1, <1>2 DEF DebuggerParts, Pauses, Turns, Screenshots, TurnOut

(* A pause without a frame is over at once: the page runs again. *)
LEMMA FramelessKeeps ==
    ASSUME TypeOK, TypeOK', DebuggerParts, HandlePausedFrameless
    PROVE  DebuggerParts'
<1>1. /\ Takes("Paused") /\ queue' = Sent(Rest("Paused"), Resumed)
      /\ pagePaused' = FALSE /\ breaks' = <<>> /\ capturing' = document
      /\ kind' = "Running"
      /\ UNCHANGED <<document, screenshot, status, reports, callerVars>>
  BY DEF HandlePausedFrameless, Resume, BeginCapture, historyVars
<1>2. ~TurnOut /\ unread = <<>> /\ queue["actions"] = <<>>
      /\ At(Rest("Paused"), "Paused") = {}
  BY <1>1, PauseTaken
<1>3. ~PauseWaiting' /\ OnePause'
  <2>1. Rest("Paused") \in Queues
    BY <1>1, PausedTyped, TakenTyped
  <2>2. Same("Paused", Rest("Paused"), queue')
    BY <1>1, <2>1, EventsTyped, PausedTyped, SameSent DEF Resumed
  <2>3. At(queue', "Paused") = {}
    BY <1>2, <2>2 DEF Same
  <2> QED
    BY <2>3, PausesAt
<1>4. queue'["actions"] = <<>>
  BY <1>1, <1>2, PausedTyped, ActionsLeft DEF Left
<1>5. Pauses'
  BY <1>1, <1>3 DEF Pauses
<1>6. Turns'
  BY <1>1, <1>2, <1>3, <1>4
     DEF Turns, TurnOut, ReportUnread, callerVars, DebuggerParts
<1>7. Screenshots'
  <2>1. document \in Nat /\ 1..Len(breaks') = {}
    BY <1>1 DEF TypeOK, PageTyped
  <2> QED
    BY <1>1, <1>3, <2>1 DEF Screenshots, DebuggerParts
<1> QED
  BY <1>5, <1>6, <1>7 DEF DebuggerParts

(* A report gives the turn to the caller, of a page that stands still. *)
LEMMA ReportKeeps ==
    ASSUME TypeOK, TypeOK', DebuggerParts, HandlePaused
    PROVE  DebuggerParts'
<1> DEFINE report == [gen |-> generation, document |-> document,
                      screenshot |-> screenshot, console |-> consoleLog]
<1>1. /\ Takes("Paused") /\ queue' = Rest("Paused")
      /\ reports' = Append(reports, report)
      /\ unread' = <<StateChanged(Len(reports) + 1)>>
      /\ lagged' = (lagged \/ unread # <<>>)
      /\ kind' = "Paused" /\ screenshot' = None
      /\ UNCHANGED <<caller, status, capturing, document, breaks, pagePaused>>
  BY DEF HandlePaused, Deliver, pageVars
<1>2. /\ pagePaused /\ ~TurnOut /\ screenshot = document
      /\ unread = <<>> /\ queue["actions"] = <<>>
      /\ At(Rest("Paused"), "Paused") = {}
  BY <1>1, PauseTaken
<1>3. ~PauseWaiting' /\ OnePause'
  BY <1>1, <1>2, PausesAt
<1>4. queue'["actions"] = <<>>
  BY <1>1, <1>2, PausedTyped, ActionsLeft DEF Left
<1>5. /\ Len(reports) \in Nat /\ Len(reports') = Len(reports) + 1
      /\ reports'[Len(reports) + 1] = report
      /\ \A i \in 1..Len(reports) : reports'[i] = reports[i]
  BY <1>1, AppendProperties DEF TypeOK, HistoryTyped, StateTyped, PageTyped,
     Reports
<1>6. Pauses'
  BY <1>1, <1>2, <1>3 DEF Pauses
<1>7. Turns'
  <2>1. unread' = <<StateChanged(Len(reports'))>> /\ caller' # "choosing"
    BY <1>1, <1>2, <1>5 DEF TurnOut
  <2>2. ReportUnread'
    BY <2>1 DEF ReportUnread, StateChanged
  <2>3. lagged' => status' = "failed"
    BY <1>1, <1>2 DEF DebuggerParts, Turns
  <2> QED
    BY <1>1, <1>2, <1>3, <1>4, <2>1, <2>2, <2>3 DEF Turns, TurnOut
<1>8. Screenshots'
  <2>1. \A i \in 1..Len(reports') :
           reports'[i].screenshot = reports'[i].document
    <3> SUFFICES ASSUME NEW i \in 1..Len(reports')
                 PROVE  reports'[i].screenshot = reports'[i].document
      OBVIOUS
    <3>1. CASE i \in 1..Len(reports)
      BY <1>5, <3>1 DEF DebuggerParts, Screenshots
    <3>2. CASE i = Len(reports) + 1
      BY <1>2, <1>5, <3>2
    <3> QED
      BY <1>5, <3>1, <3>2
  <2>2. document \in Nat
    BY DEF TypeOK, PageTyped
  <2> QED
    BY <1>1, <1>2, <1>3, <2>1, <2>2 DEF DebuggerParts, Screenshots, None
<1> QED
  BY <1>6, <1>7, <1>8 DEF DebuggerParts

(* The capture queues a break of the document it began with, which is not     *)
(* younger than the one on its screenshot.                                    *)
LEMMA FinishKeeps ==
    ASSUME TypeOK, TypeOK', DebuggerParts, FinishCapture
    PROVE  DebuggerParts'
<1>1. /\ screenshot' = document /\ breaks' = Append(breaks, capturing)
      /\ capturing' = None /\ kind' = "Pausing"
      /\ UNCHANGED <<queue, status, reports, callerVars, document, pagePaused>>
  BY DEF FinishCapture, Captured, historyVars
<1>2. (PauseWaiting' <=> PauseWaiting) /\ (OnePause' <=> OnePause)
  BY <1>1, PausesAt
<1>3. /\ breaks \in Seq(Nat) /\ capturing \in Nat /\ document \in Nat
      /\ Len(breaks) \in Nat
  BY LenProperties DEF TypeOK, PageTyped, TasksTyped
<1>4. /\ Len(breaks') = Len(breaks) + 1 /\ breaks'[Len(breaks) + 1] = capturing
      /\ \A i \in 1..Len(breaks) : breaks'[i] = breaks[i]
  BY <1>1, <1>3, AppendProperties
<1>5. \A i \in 1..Len(breaks') : breaks'[i] <= document
  <2> SUFFICES ASSUME NEW i \in 1..Len(breaks') PROVE breaks'[i] <= document
    OBVIOUS
  <2>1. i \in 1..Len(breaks) \/ i = Len(breaks) + 1
    BY <1>3, <1>4
  <2> QED
    BY <1>3, <1>4, <2>1 DEF DebuggerParts, Screenshots
<1>6. Pauses'
  BY <1>1, <1>2 DEF Pauses, DebuggerParts
<1>7. Turns'
  BY <1>1, <1>2 DEF Turns, DebuggerParts, TurnOut, ReportUnread, callerVars
<1>8. Screenshots'
  BY <1>1, <1>3, <1>5 DEF Screenshots, DebuggerParts, None
<1> QED
  BY <1>6, <1>7, <1>8 DEF DebuggerParts

(* The machine takes the action that answers its report and gives up Paused. *)
LEMMA ResumeKeeps ==
    ASSUME TypeOK, TypeOK', [Next]_vars, DebuggerParts, HandleActionAccepted,
           kind = "Paused"
    PROVE  DebuggerParts'
<1>1. /\ Takes("ActionAccepted") /\ pagePaused' = FALSE /\ breaks' = <<>>
      /\ kind' = "Resuming" /\ accepted' = Event("ActionAccepted").action
      /\ UNCHANGED <<document, screenshot, status, capturing, reports,
                     callerVars>>
  BY DEF HandleActionAccepted, ActionDropped, Resume, taskVars, historyVars
<1>2. /\ queue["actions"] = <<ActionAccepted(Len(reports))>>
      /\ Event("ActionAccepted") = ActionAccepted(Len(reports))
  BY <1>1, ActionsLane DEF DebuggerParts, Turns, Takes, Event
<1>3. queue'["actions"] = <<>>
  <2>1. queue' \in Left("ActionAccepted")
    BY DEF HandleActionAccepted, Left
  <2>2. queue'["actions"] = Tail(queue["actions"])
    BY <1>1, <2>1, ActionsLane, ActionsLeft
  <2> QED
    BY <1>2, <2>2
<1>4. OnePause' /\ (PauseWaiting' => PauseWaiting)
  <2>1. Same("Paused", queue, queue')
    <3>1. queue' \in Left("ActionAccepted")
      BY DEF HandleActionAccepted, Left
    <3> QED
      BY <1>1, <3>1, ActionsLane, PausedTyped, OthersTaken
  <2> QED
    BY <2>1, PausesSame DEF DebuggerParts, Pauses
<1>5. ~PauseWaiting
  BY DEF DebuggerParts, Pauses
<1>6. ~TurnOut'
  BY <1>1, <1>2, <1>3 DEF DebuggerParts, Turns, TurnOut, ReportUnread, callerVars
<1>7. Pauses'
  BY <1>1, <1>4, <1>5 DEF Pauses
<1>8. Turns'
  BY <1>1, <1>2, <1>3, <1>6
     DEF Turns, DebuggerParts, TurnOut, ReportUnread, callerVars, ActionAccepted
<1>9. Screenshots'
  BY <1>1, <1>4, <1>5 DEF Screenshots, DebuggerParts
<1> QED
  BY <1>7, <1>8, <1>9 DEF DebuggerParts

(* The caller's own steps pass the turn on. *)
LEMMA CallerKeeps ==
    ASSUME TypeOK, TypeOK', DebuggerParts, NextEvent \/ Apply
    PROVE  DebuggerParts'
<1>1. /\ UNCHANGED <<stateVars, taskVars, pageVars, historyVars>>
      /\ At(queue', "Paused") = At(queue, "Paused")
  <2>1. CASE UNCHANGED queue
    BY <2>1 DEF NextEvent, Apply
  <2>2. CASE queue' = [queue EXCEPT !["actions"] = <<ActionAccepted(answering)>>]
    <3>1. Lane("Paused") # "actions" /\ Lane("Paused") \in Lanes
      BY PausedTyped, ActionsLane, LaneOfType
    <3> QED
      BY <2>2, <3>1 DEF NextEvent, Apply, At, TypeOK
  <2> QED
    BY <2>1, <2>2 DEF NextEvent, Apply
<1>2. (PauseWaiting' <=> PauseWaiting) /\ (OnePause' <=> OnePause)
  BY <1>1, PausesAt
<1>3. Pauses'
  BY <1>1, <1>2 DEF Pauses, DebuggerParts, stateVars, pageVars
<1>4. Screenshots'
  BY <1>1, <1>2 DEF Screenshots, DebuggerParts, stateVars, taskVars, pageVars,
     historyVars
<1>5. Turns'
  <2>1. CASE NextEvent
    <3>1. UNCHANGED queue
      BY <2>1 DEF NextEvent
    <3>2. CASE ReportUnread /\ caller' = "choosing"
      <4>1. unread' = <<>> /\ answering' = Len(reports) /\ UNCHANGED lagged
        BY <2>1, <3>2 DEF NextEvent, Terminates, DebuggerParts, Turns, ReportUnread,
           StateChanged
      <4> QED
        BY <1>1, <1>2, <3>1, <3>2, <4>1 DEF DebuggerParts, Turns, TurnOut,
           ReportUnread, stateVars, taskVars, pageVars, historyVars
    <3>3. CASE /\ caller' = "closing" /\ unread' \in {unread, <<>>}
               /\ lagged' => lagged
      <4>1. unread' # <<>> => unread' = unread /\ (ReportUnread' <=> ReportUnread)
        BY <3>3 DEF ReportUnread
      <4>2. ReportUnread' => unread' # <<>>
        BY DEF ReportUnread
      <4> QED
        BY <1>1, <1>2, <3>1, <3>3, <4>1, <4>2 DEF DebuggerParts, Turns, TurnOut,
           stateVars, taskVars, pageVars, historyVars
    <3> QED
      BY <2>1, <3>2, <3>3 DEF NextEvent, Terminates, ReportUnread
  <2>2. CASE Apply
    <3>1. caller = "choosing" /\ caller' # "choosing"
          /\ UNCHANGED <<unread, lagged, answering>>
      BY <2>2 DEF Apply, Terminates, AfterApply
    <3>2. ~ReportUnread /\ ~ReportUnread' /\ answering = Len(reports)
      BY <3>1 DEF DebuggerParts, Turns, ReportUnread
    <3>3. queue'["actions"] \in {<<>>, <<ActionAccepted(Len(reports))>>}
      BY <2>2, <3>1, <3>2, ActionsLane DEF Apply, DebuggerParts, Turns, TypeOK
    <3> QED
      BY <1>1, <1>2, <3>1, <3>2, <3>3 DEF DebuggerParts, Turns, TurnOut,
         ReportUnread, stateVars, taskVars, pageVars, historyVars
  <2> QED
    BY <2>1, <2>2
<1> QED
  BY <1>3, <1>4, <1>5 DEF DebuggerParts

(* A break that is hit is of the document on the screenshot: of none younger, *)
(* and of the one that runs it.                                               *)
LEMMA HitKeeps ==
    ASSUME TypeOK, TypeOK', [Next]_vars, DebuggerParts, HitBreak
    PROVE  DebuggerParts'
<1>1. /\ ~pagePaused /\ pagePaused' = TRUE /\ breaks # <<>>
      /\ Head(breaks) = document /\ breaks' = Tail(breaks)
      /\ UNCHANGED <<stateVars, taskVars, callerVars, historyVars, document>>
  BY DEF HitBreak, PageRuns, PageFrame
<1>2. PICK reason \in PauseReasons, framed \in BOOLEAN :
         queue' = Sent(queue, Paused(reason, framed))
  BY DEF HitBreak
<1>3. ~PauseWaiting /\ ~TurnOut /\ kind # "Paused"
  BY <1>1 DEF DebuggerParts, Pauses, Turns
<1>4. PauseWaiting' /\ OnePause'
  BY <1>2, <1>3, PausesSent, ConstantsAssumption
<1>5. queue'["actions"] = queue["actions"]
  <2> DEFINE e == Paused(reason, framed)
  <2>1. /\ queue \in Queues /\ e \in Events /\ e.type = "Paused"
        /\ "Paused" \in EventTypes \ {"ActionAccepted"}
    BY PausedTyped, ConstantsAssumption DEF TypeOK, Queues
  <2>2. Sent(queue, e)["actions"] = queue["actions"]
    BY <2>1, ActionsElsewhere
  <2> QED
    BY <1>2, <2>2
<1>6. ~TurnOut'
  BY <1>1, <1>3, <1>5 DEF TurnOut, ReportUnread, callerVars
<1>7. /\ breaks \in Seq(Nat) /\ Len(breaks) \in Nat \ {0}
      /\ breaks[1] = document
  BY <1>1, LenProperties, EmptySeq DEF TypeOK, PageTyped
<1>8. /\ Len(breaks') = Len(breaks) - 1
      /\ \A i \in 1..Len(breaks') : breaks'[i] = breaks[i + 1]
  BY <1>1, <1>7, HeadTailProperties
<1>9. Pauses'
  BY <1>1, <1>3, <1>4 DEF Pauses, stateVars
<1>10. Turns'
  BY <1>1, <1>5, <1>6 DEF Turns, TurnOut, ReportUnread, DebuggerParts, callerVars,
     stateVars, taskVars, historyVars
<1>11. Screenshots'
  <2>1. screenshot = document
    <3>1. 1 \in 1..Len(breaks) /\ screenshot \in Nat /\ document \in Nat
      BY <1>7 DEF TypeOK, StateTyped, PageTyped
    <3>2. document <= screenshot /\ screenshot <= document
      BY <1>1, <1>7, <3>1 DEF DebuggerParts, Screenshots
    <3> QED
      BY <3>1, <3>2
  <2>2. \A i \in 1..Len(breaks') : breaks'[i] <= document
    <3>1. \A i \in 1..Len(breaks') : i + 1 \in 1..Len(breaks)
      BY <1>7, <1>8
    <3> QED
      BY <1>8, <3>1 DEF DebuggerParts, Screenshots
  <2> QED
    BY <1>1, <2>1, <2>2 DEF DebuggerParts, Screenshots, stateVars, taskVars,
       historyVars
<1> QED
  BY <1>9, <1>10, <1>11 DEF DebuggerParts

(* A break whose document is gone stops nothing. *)
LEMMA DropKeeps ==
    ASSUME TypeOK, TypeOK', DebuggerParts, DropBreak
    PROVE  DebuggerParts'
<1>1. /\ breaks # <<>> /\ breaks' = Tail(breaks)
      /\ UNCHANGED <<queue, stateVars, taskVars, callerVars, historyVars,
                     document, pagePaused>>
  BY DEF DropBreak, PageFrame
<1>2. (PauseWaiting' <=> PauseWaiting) /\ (OnePause' <=> OnePause)
  BY <1>1, PausesAt
<1>3. /\ breaks \in Seq(Nat) /\ Len(breaks) \in Nat \ {0}
  BY <1>1, LenProperties, EmptySeq DEF TypeOK, PageTyped
<1>4. /\ Len(breaks') = Len(breaks) - 1
      /\ \A i \in 1..Len(breaks') : breaks'[i] = breaks[i + 1]
  BY <1>1, <1>3, HeadTailProperties
<1>5. Pauses'
  BY <1>1, <1>2 DEF Pauses, DebuggerParts, stateVars
<1>6. Turns'
  BY <1>1, <1>2 DEF Turns, TurnOut, ReportUnread, DebuggerParts, callerVars,
     stateVars, taskVars, historyVars
<1>7. Screenshots'
  <2>1. \A i \in 1..Len(breaks') : /\ breaks'[i] <= document
                                   /\ ~pagePaused => breaks'[i] <= screenshot
    <3>1. \A i \in 1..Len(breaks') : i + 1 \in 1..Len(breaks)
      BY <1>3, <1>4
    <3> QED
      BY <1>4, <3>1 DEF DebuggerParts, Screenshots
  <2> QED
    BY <1>1, <1>2, <2>1 DEF DebuggerParts, Screenshots, stateVars, taskVars,
       historyVars
<1> QED
  BY <1>5, <1>6, <1>7 DEF DebuggerParts

-----------------------------------------------------------------------------
(* The theorems *)

(* At first the page runs and nobody has a turn. *)
LEMMA DebuggerInit == Init => DebuggerParts
<1> SUFFICES ASSUME Init PROVE DebuggerParts
  OBVIOUS
<1>1. At(queue, "Paused") = {}
  BY NothingSentYet, PausedTyped
<1>2. ~PauseWaiting /\ OnePause
  BY <1>1, PausesAt
<1>3. queue["actions"] = <<>>
  <2> DEFINE empty == [lane \in Lanes |-> <<>>]
  <2>1. empty \in Queues /\ empty["actions"] = <<>>
    BY ActionsLane DEF Queues
  <2>2. StateRequested(0) \in Events /\ StateRequested(0).type = "StateRequested"
    BY EventsTyped DEF StateRequested
  <2>3. Sent(empty, StateRequested(0))["actions"] = <<>>
    <3>1. Lane("StateRequested") # "actions"
      BY ActionsLane DEF EventTypes
    <3> QED
      BY <2>1, <2>2, <3>1 DEF Sent, Queues
  <2> QED
    BY <2>1, <2>3 DEF Init
<1>4. ~TurnOut
  BY <1>3 DEF Init, TurnOut, ReportUnread
<1>5. Pauses
  BY <1>2 DEF Pauses, Init
<1>6. Turns
  BY <1>2, <1>3, <1>4 DEF Turns, Init, ReportUnread
<1>7. Screenshots
  BY <1>2 DEF Screenshots, Init, None
<1> QED
  BY <1>5, <1>6, <1>7 DEF DebuggerParts

(* What is spent stays spent, so who disturbed the page has done so for good. *)
LEMMA DisturbedForGood ==
    ASSUME TypeOK, TypeOK', [Next]_vars, Undisturbed'
    PROVE  Undisturbed /\ ~OwnBreak /\ ~OutsideResume
<1>1. "intrusions" \in DOMAIN Bounds
  BY DEF Bounds
<1>2. used["intrusions"] \in Nat /\ used'["intrusions"] \in Nat
  BY <1>1 DEF TypeOK
<1>3. CASE OwnBreak \/ OutsideResume
  <2>1. used'["intrusions"] = used["intrusions"] + 1
    BY <1>1, <1>3 DEF OwnBreak, OutsideResume, Spend, TypeOK
  <2> QED
    BY <1>2, <2>1 DEF Undisturbed
<1>4. CASE ~(OwnBreak \/ OutsideResume)
  BY <1>4, NumbersKept DEF Undisturbed
<1> QED
  BY <1>3, <1>4

(* Every step keeps the invariant. *)
LEMMA DebuggerNext ==
    ASSUME TypeOK, TypeOK', [Next]_vars, DebuggerInv
    PROVE  DebuggerInv'
<1> SUFFICES ASSUME Undisturbed' PROVE DebuggerParts'
  BY DEF DebuggerInv, DebuggerParts
<1>1. DebuggerParts /\ ~OwnBreak /\ ~OutsideResume
  BY DisturbedForGood DEF DebuggerInv, DebuggerParts
<1>2. CASE ~Active
  BY <1>1, <1>2, OthersCalm, QueueCalm, CalmKeeps DEF DebuggerParts
<1>3. CASE Active
  BY <1>1, <1>3, FramelessKeeps, ReportKeeps, FinishKeeps, ResumeKeeps,
     CallerKeeps, HitKeeps, DropKeeps DEF Active
<1> QED
  BY <1>2, <1>3

(* The machine's picture of the debugger is right until somebody else uses    *)
(* it.                                                                        *)
THEOREM DebuggerKept == Spec => []DebuggerInv
<1>1. Init => DebuggerInv
  BY DebuggerInit DEF DebuggerInv, DebuggerParts
<1>2. TypeOK /\ TypeOK' /\ [Next]_vars /\ DebuggerInv => DebuggerInv'
  BY DebuggerNext
<1> QED
  BY <1>1, <1>2, TypeCorrect, PTL DEF Spec

(* A screenshot and the state it is reported with are of one document.        *)
THEOREM ScreenshotsShowReports == Spec => []ScreenshotShowsReport
<1>1. DebuggerInv => ScreenshotShowsReport
  BY DEF DebuggerInv, Screenshots, ScreenshotShowsReport
<1> QED
  BY <1>1, DebuggerKept, PTL

(* The channels of capacity one carry everything that matters.                *)
THEOREM ChannelsDoNotOverflow == Spec => []ChannelsNeverOverflow
<1>1. DebuggerInv => ChannelsNeverOverflow
  BY DEF DebuggerInv, Turns, ChannelsNeverOverflow
<1> QED
  BY <1>1, DebuggerKept, PTL

(* Only the end of a pause for an action starts one.                          *)
LEMMA StartsOnlyAccepted ==
    ASSUME [Next]_vars, NEW task \in applying' \ applying
    PROVE  kind = "Resuming" /\ task.action = accepted
<1> USE DEF taskVars
<1>1. CASE HandleResumed
  BY <1>1 DEF HandleResumed
<1>2. CASE \/ HandleStateRequested \/ HandlePausedFrameless \/ HandlePaused
           \/ PausedFails \/ HandleActionAccepted \/ ResumeFails
           \/ HandleActionApplied \/ HandleLoaded
  BY <1>2 DEF HandleStateRequested, HandlePausedFrameless, HandlePaused,
     PausedFails, HandleActionAccepted, ResumeFails, HandleActionApplied,
     HandleLoaded, BeginCapture, Fail
<1>3. CASE \/ HandleFrameRequestedNavigation \/ HandleDownloadWillBegin
           \/ HandleConsoleEntry \/ HandleExceptionThrown
           \/ HandleFrameNavigated \/ HandleTargetDestroyed
           \/ UnhandledTransition
  BY <1>3 DEF HandleFrameRequestedNavigation, HandleDownloadWillBegin,
     HandleConsoleEntry, HandleExceptionThrown, HandleFrameNavigated,
     HandleTargetDestroyed, UnhandledTransition, BeginCapture, Fail
<1>4. CASE \/ FinishCapture \/ SkipCapture \/ CallFails \/ CallHangs
           \/ Shutdown \/ ApplyFinishes \/ Timers
  BY <1>4 DEF FinishCapture, SkipCapture, CallFails, CallHangs, Shutdown,
     ApplyFinishes, Timers, TimeoutFires, WatchdogFires, Fail
<1>5. CASE Caller
  BY <1>5 DEF Caller, NextEvent, Apply, GiveUp, CloseBrowser, AwaitDone
<1>6. CASE Page
  BY <1>6 DEF Page, Navigate, PageNavigates, ActionNavigates, Commit, Restore,
     Download, Abort, Load, Throw, Log, SubframeNavigates, DestroyTarget,
     OwnBreak, OutsideResume, HitBreak, DropBreak, PageFrame
<1>7. CASE UNCHANGED vars
  BY <1>7 DEF vars
<1> QED
  BY <1>1, <1>2, <1>3, <1>4, <1>5, <1>6, <1>7 DEF Next, Machine, Handle

(* The action that starts is the answer to the latest report.                 *)
THEOREM ActionsAnswerLatestReport == Spec => ActionAnswersLatestReport
<1>1. DebuggerInv /\ [Next]_vars =>
         [\A task \in applying' \ applying :
             Undisturbed => task.action = Len(reports)]_vars
  BY StartsOnlyAccepted DEF DebuggerInv, Turns
<1> QED
  BY <1>1, DebuggerKept, PTL DEF Spec, ActionAnswersLatestReport

-----------------------------------------------------------------------------
(* With the events in order *)

(* The events that may arrive while the page stands still: those of the       *)
(* browser process and of other frames.  No kind but Navigating outlives the  *)
(* first two of them, and the others change nothing.                          *)
Harmless(e) ==
    \/ e.type \in {"DownloadWillBegin", "TargetDestroyed"}
    \/ /\ e.type \in {"FrameRequestedNavigation", "FrameNavigated"}
       /\ e.frame = "sub"

AllHarmless(s) == \A i \in 1..Len(s) : Harmless(s[i])

Has(s, type) == \E i \in 1..Len(s) : s[i].type = type

(* After a pause and before the end of one only harmless events are waiting.  *)
Tame(s) ==
    \A i, j \in 1..Len(s) :
        \/ s[i].type = "Paused" /\ i < j
        \/ s[i].type = "Resumed" /\ j < i
        => Harmless(s[j])

OurReasons(s) ==
    \A i \in 1..Len(s) : s[i].type = "Paused" => s[i].reason = "other"

Stream == queue["devtools"]

(* What the machine believes of the page: it knows of every pause it was told *)
(* of, and of every end of one that it is still to be told of.                *)
Sequel ==
    /\ Tame(Stream)
    /\ status = "running" /\ pagePaused /\ ~PauseWaiting =>
          kind = "Paused" /\ AllHarmless(Stream)
    /\ capturing # None => kind # "Paused"
    /\ status = "running" /\ Has(Stream, "Resumed") =>
          kind \in {"Running", "Pausing", "Resuming"}
    /\ kind = "Resuming" => Has(Stream, "Resumed")
    /\ PauseReasons \subseteq {"other"} =>
          /\ OurReasons(Stream)
          /\ failure \in {"none", "target destroyed", "connection closed",
                          "DownloadWillBegin"}

OrderInv == Undisturbed => Sequel

(* Streams that lose their first event *)
LEMMA TameTail ==
    ASSUME NEW s \in Seq(Events), s # <<>>, Tame(s)
    PROVE  /\ Tail(s) \in Seq(Events)
           /\ Tame(Tail(s))
           /\ AllHarmless(s) => Harmless(s[1]) /\ AllHarmless(Tail(s))
           /\ s[1].type = "Paused" => AllHarmless(Tail(s))
           /\ Has(s, "Resumed") => s[1].type = "Resumed" \/ Harmless(s[1])
           /\ s[1].type = "Resumed" => ~Has(Tail(s), "Resumed")
           /\ \A type : Has(s, type) <=> s[1].type = type \/ Has(Tail(s), type)
           /\ OurReasons(s) => OurReasons(Tail(s))
<1> DEFINE t == Tail(s)
<1>1. /\ t \in Seq(Events) /\ Len(s) \in Nat \ {0} /\ Len(t) = Len(s) - 1
      /\ \A i \in 1..Len(t) : t[i] = s[i + 1]
  BY HeadTailProperties, LenProperties, EmptySeq
<1>2. \A i \in 1..Len(t) : i + 1 \in 1..Len(s) /\ 1 < i + 1
  BY <1>1
<1>3. \A i \in 1..Len(s) : i # 1 => i - 1 \in 1..Len(t) /\ t[i - 1] = s[i]
  <2> SUFFICES ASSUME NEW i \in 1..Len(s), i # 1
               PROVE  i - 1 \in 1..Len(t) /\ t[i - 1] = s[i]
    OBVIOUS
  <2>1. i - 1 \in 1..Len(t) /\ (i - 1) + 1 = i
    BY <1>1
  <2> QED
    BY <1>1, <2>1
<1>4. 1 \in 1..Len(s)
  BY <1>1
<1>5. Tame(t)
  <2> SUFFICES ASSUME NEW i \in 1..Len(t), NEW j \in 1..Len(t),
                      \/ t[i].type = "Paused" /\ i < j
                      \/ t[i].type = "Resumed" /\ j < i
               PROVE  Harmless(t[j])
    BY DEF Tame
  <2>1. \/ s[i + 1].type = "Paused" /\ i + 1 < j + 1
        \/ s[i + 1].type = "Resumed" /\ j + 1 < i + 1
    BY <1>1
  <2> QED
    BY <1>1, <1>2, <2>1 DEF Tame
<1>6. AllHarmless(s) => Harmless(s[1]) /\ AllHarmless(t)
  BY <1>1, <1>2, <1>4 DEF AllHarmless
<1>7. s[1].type = "Paused" => AllHarmless(t)
  BY <1>1, <1>2, <1>4 DEF AllHarmless, Tame
<1>8. ASSUME Has(s, "Resumed") PROVE s[1].type = "Resumed" \/ Harmless(s[1])
  <2>1. PICK i \in 1..Len(s) : s[i].type = "Resumed"
    BY <1>8 DEF Has
  <2>2. i = 1 \/ 1 < i
    OBVIOUS
  <2> QED
    BY <1>4, <2>1, <2>2 DEF Tame
<1>9. \A type : Has(s, type) <=> s[1].type = type \/ Has(t, type)
  <2> SUFFICES ASSUME NEW type
               PROVE  Has(s, type) <=> s[1].type = type \/ Has(t, type)
    OBVIOUS
  <2>1. ASSUME Has(s, type) PROVE s[1].type = type \/ Has(t, type)
    BY <1>3, <2>1 DEF Has
  <2>2. ASSUME s[1].type = type \/ Has(t, type) PROVE Has(s, type)
    BY <1>1, <1>2, <1>4, <2>2 DEF Has
  <2> QED
    BY <2>1, <2>2
<1>10. s[1].type = "Resumed" => ~Has(t, "Resumed")
  <2> SUFFICES ASSUME s[1].type = "Resumed", NEW i \in 1..Len(t),
                      t[i].type = "Resumed"
               PROVE  FALSE
    BY DEF Has
  <2>1. Harmless(s[1])
    BY <1>1, <1>2, <1>4 DEF Tame
  <2> QED
    BY <2>1 DEF Harmless
<1>11. OurReasons(s) => OurReasons(t)
  BY <1>1, <1>2 DEF OurReasons
<1> QED
  BY <1>1, <1>5, <1>6, <1>7, <1>8, <1>9, <1>10, <1>11

(* Streams that get one more *)
LEMMA TameAppend ==
    ASSUME NEW s \in Seq(Events), NEW e \in Events, Tame(s),
           Harmless(e) \/ ~Has(s, "Paused"),
           e.type = "Resumed" => AllHarmless(s)
    PROVE  /\ Append(s, e) \in Seq(Events)
           /\ Tame(Append(s, e))
           /\ AllHarmless(s) /\ Harmless(e) => AllHarmless(Append(s, e))
           /\ \A type : Has(Append(s, e), type) <=> e.type = type \/ Has(s, type)
           /\ OurReasons(s) /\ (e.type = "Paused" => e.reason = "other") =>
                 OurReasons(Append(s, e))
<1> DEFINE t == Append(s, e)
           n == Len(s) + 1
<1>1. /\ t \in Seq(Events) /\ Len(s) \in Nat /\ Len(t) = n
      /\ t[n] = e
      /\ \A i \in 1..Len(s) : t[i] = s[i]
  BY AppendProperties, LenProperties
<1>2. \A i \in 1..Len(t) : i \in 1..Len(s) \/ i = n
  BY <1>1
<1>3. \A i \in 1..Len(s) : i \in 1..Len(t) /\ i < n
  BY <1>1
<1>4. Tame(t)
  <2> SUFFICES ASSUME NEW i \in 1..Len(t), NEW j \in 1..Len(t),
                      \/ t[i].type = "Paused" /\ i < j
                      \/ t[i].type = "Resumed" /\ j < i
               PROVE  Harmless(t[j])
    BY DEF Tame
  <2>1. CASE i \in 1..Len(s) /\ j \in 1..Len(s)
    BY <1>1, <2>1 DEF Tame
  <2>2. CASE i \in 1..Len(s) /\ j = n
    <3>1. s[i].type = "Paused"
      BY <1>1, <1>3, <2>2
    <3> QED
      BY <1>1, <2>2, <3>1 DEF Has
  <2>3. CASE i = n /\ j \in 1..Len(s)
    <3>1. e.type = "Resumed"
      BY <1>1, <1>3, <2>3
    <3> QED
      BY <1>1, <2>3, <3>1 DEF AllHarmless
  <2>4. CASE i = n /\ j = n
    BY <1>1, <2>4
  <2> QED
    BY <1>2, <2>1, <2>2, <2>3, <2>4
<1>5. AllHarmless(s) /\ Harmless(e) => AllHarmless(t)
  BY <1>1, <1>2 DEF AllHarmless
<1>6. \A type : Has(t, type) <=> e.type = type \/ Has(s, type)
  <2>1. n \in 1..Len(t)
    BY <1>1
  <2> QED
    BY <1>1, <1>2, <1>3, <2>1 DEF Has
<1>7. OurReasons(s) /\ (e.type = "Paused" => e.reason = "other") => OurReasons(t)
  BY <1>1, <1>2 DEF OurReasons
<1> QED
  BY <1>1, <1>4, <1>5, <1>6, <1>7

-----------------------------------------------------------------------------
(* What the steps do with the one stream of DevTools events *)

(* All DevTools events are on one stream, and nothing else is. *)
LEMMA OneStream ==
    ASSUME Ordered, TypeOK
    PROVE  /\ "devtools" \in Lanes /\ Stream \in Seq(Events)
           /\ \A type \in DevToolsTypes : Lane(type) = "devtools"
           /\ \A type \in {"StateRequested", "ActionApplied",
                           "ActionAccepted"} : Lane(type) # "devtools"
           /\ DevToolsTypes \subseteq EventTypes
           /\ PauseWaiting <=> Has(Stream, "Paused")
<1>1. /\ "devtools" \in Lanes
      /\ \A type \in DevToolsTypes : Lane(type) = "devtools"
      /\ \A type \in {"StateRequested", "ActionApplied", "ActionAccepted"} :
            Lane(type) # "devtools"
      /\ DevToolsTypes \subseteq EventTypes /\ "Paused" \in DevToolsTypes
  BY DEF Lanes, Lane, DevToolsTypes, EventTypes
<1>2. Stream \in Seq(Events)
  BY <1>1 DEF Stream, TypeOK
<1>3. DOMAIN Stream = 1..Len(Stream)
  BY <1>2, LenProperties
<1>4. PauseWaiting <=> Has(Stream, "Paused")
  BY <1>1, <1>3 DEF PauseWaiting, Undelivered, Has, Stream
<1> QED
  BY <1>1, <1>2, <1>4

(* A pause is undelivered if and only if the stream has one. *)
LEMMA StreamPauses ==
    ASSUME Ordered, TypeOK, TypeOK'
    PROVE  /\ PauseWaiting <=> Has(Stream, "Paused")
           /\ PauseWaiting' <=> Has(Stream', "Paused")
<1>1. "devtools" \in Lanes /\ Lane("Paused") = "devtools"
  BY DEF Lanes, Lane
<1>2. Stream' \in Seq(Events)
  BY <1>1 DEF Stream, TypeOK
<1>3. DOMAIN Stream' = 1..Len(Stream')
  BY <1>2, LenProperties
<1>4. PauseWaiting' <=> Has(Stream', "Paused")
  BY <1>1, <1>3 DEF PauseWaiting, Undelivered, Has, Stream
<1> QED
  BY <1>4, OneStream

(* A DevTools event is sent to the end of the stream. *)
LEMMA StreamSent ==
    ASSUME Ordered, NEW q \in Queues, NEW e \in Events
    PROVE  /\ e.type \in DevToolsTypes =>
                 Sent(q, e)["devtools"] = Append(q["devtools"], e)
           /\ e.type \notin DevToolsTypes =>
                 Sent(q, e)["devtools"] = q["devtools"]
BY LaneOfEvent DEF Sent, Queues, Lane, Lanes, DevToolsTypes, Events

(* A DevTools event is taken from the head of the stream ... *)
LEMMA StreamTaken ==
    ASSUME Ordered, TypeOK, NEW type \in DevToolsTypes, Takes(type),
           \/ queue' = Rest(type)
           \/ queue' = Sent(Rest(type), StateRequested(generation))
    PROVE  /\ Stream # <<>> /\ Stream[1] = Event(type)
           /\ Stream[1].type = type /\ Event(type) \in Events
           /\ Stream' = Tail(Stream)
<1>1. type \in EventTypes /\ Lane(type) = "devtools"
  BY OneStream
<1>2. Rest(type) \in Queues /\ Event(type) \in Events
  BY <1>1, TakenTyped
<1>3. /\ Stream # <<>> /\ Stream[1] = Event(type) /\ Stream[1].type = type
      /\ Rest(type)["devtools"] = Tail(Stream)
  BY <1>1, OneStream DEF Takes, Event, Rest, Taken, Stream, TypeOK
<1>4. /\ StateRequested(generation) \in Events
      /\ StateRequested(generation).type \notin DevToolsTypes
  BY EventsTyped DEF StateRequested, DevToolsTypes, TypeOK, StateTyped
<1>5. queue'["devtools"] = Rest(type)["devtools"]
  BY <1>2, <1>4, StreamSent
<1> QED
  BY <1>2, <1>3, <1>5 DEF Stream

(* ... and another leaves it alone. *)
LEMMA StreamNotTaken ==
    ASSUME Ordered, TypeOK,
           NEW type \in {"StateRequested", "ActionApplied", "ActionAccepted"}
    PROVE  Rest(type)["devtools"] = Stream
BY OneStream DEF Rest, Taken, Stream, TypeOK

-----------------------------------------------------------------------------
(* Kinds of steps, and how they keep what the machine believes *)

Background ==
    /\ Ordered /\ TypeOK /\ TypeOK' /\ DebuggerParts /\ DebuggerParts'
    /\ Sequel

(* The page and the stream stay: in Paused the machine waits for an action.   *)
LEMMA KeptSequel ==
    ASSUME Background, Stream' = Stream, UNCHANGED <<pagePaused, failure>>,
           status' = "running" => status = "running",
           kind' = kind \/ (kind # "Paused" /\ kind' \in {"Running", "Pausing"}),
           capturing' # None => kind' # "Paused"
    PROVE  Sequel'
<1>1. PauseWaiting' <=> PauseWaiting
  BY StreamPauses DEF Background
<1> QED
  BY <1>1 DEF Background, Sequel

(* A harmless event is taken and changes no kind but Navigating. *)
LEMMA HarmlessTaken ==
    ASSUME Background, Stream # <<>>, Stream' = Tail(Stream),
           Harmless(Stream[1]), UNCHANGED <<pagePaused, capturing, failure>>,
           status = "running",
           kind' = kind \/ (kind = "Navigating" /\ kind' = "Running")
    PROVE  Sequel'
<1>1. Stream \in Seq(Events) /\ Tame(Stream)
  BY OneStream DEF Background, Sequel
<1>2. /\ Tame(Stream') /\ (AllHarmless(Stream) => AllHarmless(Stream'))
      /\ OurReasons(Stream) => OurReasons(Stream')
      /\ \A type : Has(Stream, type) <=> Stream[1].type = type \/ Has(Stream', type)
  BY <1>1, TameTail
<1>3. Stream[1].type \notin {"Paused", "Resumed"}
  BY DEF Harmless
<1>4. /\ Has(Stream', "Resumed") <=> Has(Stream, "Resumed")
      /\ PauseWaiting' <=> PauseWaiting
  BY <1>2, <1>3, StreamPauses DEF Background
<1> QED
  BY <1>2, <1>4 DEF Background, Sequel

(* Any other but a pause or the end of one is taken only while the page runs  *)
(* or has paused without the machine's knowledge.                             *)
LEMMA OtherTaken ==
    ASSUME Background, Stream # <<>>, Stream' = Tail(Stream),
           ~Harmless(Stream[1]), Stream[1].type \notin {"Paused", "Resumed"},
           status = "running", UNCHANGED <<pagePaused, failure>>,
           kind' = kind \/ kind' \notin {"Paused", "Resuming"},
           capturing' # None => kind' # "Paused"
    PROVE  Sequel'
<1>1. Stream \in Seq(Events) /\ Tame(Stream)
  BY OneStream DEF Background, Sequel
<1>2. /\ Tame(Stream') /\ ~AllHarmless(Stream) /\ ~Has(Stream, "Resumed")
      /\ OurReasons(Stream) => OurReasons(Stream')
      /\ \A type : Has(Stream, type) <=> Stream[1].type = type \/ Has(Stream', type)
  BY <1>1, TameTail
<1>3. ~Has(Stream', "Resumed") /\ (PauseWaiting' <=> PauseWaiting)
  BY <1>2, StreamPauses DEF Background
<1>4. kind' # "Resuming"
  BY <1>2 DEF Background, Sequel
<1> QED
  BY <1>2, <1>3, <1>4 DEF Background, Sequel

(* The machine ends or hangs. *)
LEMMA EndsSequel ==
    ASSUME Background, status' # "running", capturing' = None, kind' = kind,
           \/ Stream' = Stream
           \/ /\ Stream # <<>> /\ Stream' = Tail(Stream)
              /\ Stream[1].type = "Resumed" => kind # "Resuming",
           \/ failure' = failure
           \/ failure' \in {"target destroyed", "connection closed",
                            "DownloadWillBegin"}
    PROVE  Sequel'
<1>1. Stream \in Seq(Events) /\ Tame(Stream)
  BY OneStream DEF Background, Sequel
<1>2. /\ Tame(Stream') /\ (OurReasons(Stream) => OurReasons(Stream'))
      /\ kind = "Resuming" /\ Has(Stream, "Resumed") => Has(Stream', "Resumed")
  BY <1>1, TameTail
<1> QED
  BY <1>2 DEF Background, Sequel

(* The page runs and tells what happens on it. *)
LEMMA RunsSequel ==
    ASSUME Background, NEW e \in Events, Stream' = Append(Stream, e),
           e.type \notin {"Paused", "Resumed"}, ~pagePaused,
           UNCHANGED <<pagePaused, failure, status, kind, capturing>>
    PROVE  Sequel'
<1>1. Stream \in Seq(Events) /\ Tame(Stream) /\ ~Has(Stream, "Paused")
  BY OneStream DEF Background, Sequel, DebuggerParts, Pauses
<1>2. /\ Tame(Stream') /\ (OurReasons(Stream) => OurReasons(Stream'))
      /\ Has(Stream', "Resumed") <=> Has(Stream, "Resumed")
  BY <1>1, TameAppend
<1> QED
  BY <1>2 DEF Background, Sequel

(* The browser process tells what happens beside the page. *)
LEMMA HarmlessSent ==
    ASSUME NEW e \in Events, Harmless(e), NEW s \in Seq(Events), Tame(s)
    PROVE  /\ Append(s, e) \in Seq(Events) /\ Tame(Append(s, e))
           /\ OurReasons(s) => OurReasons(Append(s, e))
           /\ AllHarmless(s) => AllHarmless(Append(s, e))
           /\ Has(Append(s, e), "Resumed") <=> Has(s, "Resumed")
           /\ Has(Append(s, e), "Paused") <=> Has(s, "Paused")
<1>1. e.type \notin {"Paused", "Resumed"}
  BY DEF Harmless
<1> QED
  BY <1>1, TameAppend

-----------------------------------------------------------------------------
(* The steps of the machine *)

(* Of the navigations only those of another frame are harmless. *)
LEMMA HarmlessTypes ==
    ASSUME NEW e \in Events
    PROVE  /\ e.type \in {"Loaded", "ConsoleEntry", "ExceptionThrown",
                          "Paused", "Resumed"} => ~Harmless(e)
           /\ e.type \in {"DownloadWillBegin", "TargetDestroyed"} => Harmless(e)
           /\ e.type \in {"FrameRequestedNavigation", "FrameNavigated"} =>
                 (Harmless(e) <=> e.frame # "main")
BY DEF Harmless, Events, Frames

(* What the machine takes from its own streams changes no belief. *)
LEMMA InnerSequel ==
    ASSUME Background, HandleStateRequested \/ HandleActionApplied
    PROVE  Sequel'
<1>1. Stream' = Stream
  BY StreamNotTaken DEF HandleStateRequested, HandleActionApplied, Background,
     Stream
<1>2. /\ UNCHANGED <<pagePaused, failure, status>> /\ capturing = None
      /\ capturing' # None => kind \notin Captureless /\ kind' = kind
      /\ kind' = kind \/ (kind = "Acting" /\ kind' = "Running")
  BY DEF HandleStateRequested, HandleActionApplied, Takes, BeginCapture,
         stateVars, taskVars, pageVars
<1> QED
  BY <1>1, <1>2, KeptSequel DEF Captureless

(* An action ends the pause: the end of it is told on the stream. *)
LEMMA AcceptedSequel ==
    ASSUME Background, HandleActionAccepted
    PROVE  Sequel'
<1>1. /\ Takes("ActionAccepted") /\ capturing = None /\ status = "running"
      /\ UNCHANGED taskVars
  BY DEF HandleActionAccepted, Takes
<1>2. Rest("ActionAccepted")["devtools"] = Stream
      /\ Rest("ActionAccepted") \in Queues
  BY <1>1, StreamNotTaken, TakenTyped, ActionsLane DEF Background
<1>3. CASE kind # "Paused"
  <2>1. Stream' = Stream
    BY <1>2, <1>3 DEF HandleActionAccepted, Stream
  <2> QED
    BY <1>1, <1>3, <2>1, KeptSequel DEF HandleActionAccepted, taskVars, pageVars
<1>4. CASE kind = "Paused"
  <2>1. Stream' = Append(Stream, Resumed)
    <3>1. Resumed \in Events /\ Resumed.type \in DevToolsTypes
      BY EventsTyped DEF Resumed, DevToolsTypes
    <3> QED
      BY <1>2, <1>4, <3>1, StreamSent
         DEF HandleActionAccepted, Stream, Background
  <2>2. pagePaused /\ ~PauseWaiting /\ AllHarmless(Stream)
    BY <1>1, <1>4 DEF Background, Sequel, DebuggerParts, Pauses
  <2>3. Stream \in Seq(Events) /\ Tame(Stream) /\ ~Has(Stream, "Paused")
    BY <2>2, OneStream DEF Background, Sequel
  <2>4. Resumed \in Events /\ Resumed.type = "Resumed"
    BY EventsTyped DEF Resumed
  <2>5. /\ Tame(Stream') /\ Has(Stream', "Resumed")
        /\ OurReasons(Stream) => OurReasons(Stream')
    BY <2>1, <2>2, <2>3, <2>4, TameAppend
  <2>6. /\ kind' = "Resuming" /\ pagePaused' = FALSE /\ capturing' = None
        /\ failure' = failure
    BY <1>1, <1>4 DEF HandleActionAccepted, ActionDropped, Resume, taskVars
  <2> QED
    BY <2>5, <2>6 DEF Background, Sequel
<1> QED
  BY <1>3, <1>4

(* The end of a pause is told once, to a kind that awaits it. *)
LEMMA ResumedSequel ==
    ASSUME Background, HandleResumed
    PROVE  Sequel'
<1>1. /\ Stream # <<>> /\ Stream[1].type = "Resumed" /\ Stream' = Tail(Stream)
      /\ Stream[1] \in Events
  BY StreamTaken DEF HandleResumed, Background, DevToolsTypes
<1>2. /\ status = "running" /\ capturing = None
      /\ UNCHANGED <<status, capturing, pagePaused, failure>>
      /\ kind' = kind \/ kind' \in {"Running", "Acting"}
      /\ kind \in {"Pausing", "Running", "Resuming"} /\ kind' # "Resuming"
  BY DEF HandleResumed, ResumedIgnored, Takes, pageVars
<1>3. Stream \in Seq(Events) /\ Tame(Stream)
  BY OneStream DEF Background, Sequel
<1>4. ~Harmless(Stream[1])
  BY <1>1, HarmlessTypes
<1>5. /\ Tame(Stream') /\ ~Has(Stream', "Resumed") /\ ~AllHarmless(Stream)
      /\ Has(Stream', "Paused") <=> Has(Stream, "Paused")
      /\ OurReasons(Stream) => OurReasons(Stream')
  BY <1>1, <1>3, <1>4, TameTail
<1>6. PauseWaiting' <=> PauseWaiting
  BY <1>5, StreamPauses DEF Background
<1> QED
  BY <1>2, <1>5, <1>6 DEF Background, Sequel

(* The only pause is taken; all that is left is harmless. *)
LEMMA LastPause ==
    ASSUME Background, Takes("Paused"),
           queue' = Rest("Paused") \/ queue' = Sent(Rest("Paused"), Resumed)
    PROVE  /\ Tail(Stream) \in Seq(Events) /\ Tame(Tail(Stream))
           /\ AllHarmless(Tail(Stream)) /\ ~Has(Tail(Stream), "Paused")
           /\ ~Has(Tail(Stream), "Resumed") /\ ~Has(Stream, "Resumed")
           /\ OurReasons(Stream) =>
                 OurReasons(Tail(Stream)) /\ Event("Paused").reason = "other"
           /\ queue' = Rest("Paused") => Stream' = Tail(Stream)
           /\ queue' = Sent(Rest("Paused"), Resumed) =>
                 Stream' = Append(Tail(Stream), Resumed)
<1>1. "Paused" \in DevToolsTypes /\ Lane("Paused") = "devtools"
  BY DEF DevToolsTypes, Background, Lane
<1>2. Stream \in Seq(Events) /\ Tame(Stream)
  BY OneStream DEF Background, Sequel
<1>3. /\ Stream # <<>> /\ Stream[1] = Event("Paused")
      /\ Stream[1].type = "Paused" /\ Rest("Paused")["devtools"] = Tail(Stream)
  BY <1>1, <1>2, OneStream DEF Takes, Event, Rest, Taken, Stream, TypeOK, Background
<1>4. /\ Tail(Stream) \in Seq(Events) /\ Tame(Tail(Stream))
      /\ AllHarmless(Tail(Stream))
      /\ OurReasons(Stream) => OurReasons(Tail(Stream))
      /\ Has(Stream, "Resumed") => Has(Tail(Stream), "Resumed")
  BY <1>2, <1>3, TameTail
<1>5. ~Has(Tail(Stream), "Paused") /\ ~Has(Tail(Stream), "Resumed")
  BY <1>4 DEF AllHarmless, Has, Harmless
<1>6. OurReasons(Stream) => Event("Paused").reason = "other"
  <2>1. 1 \in 1..Len(Stream)
    BY <1>2, <1>3, LenProperties, EmptySeq
  <2> QED
    BY <1>3, <2>1 DEF OurReasons
<1>7. Sent(Rest("Paused"), Resumed)["devtools"] = Append(Tail(Stream), Resumed)
  <2>1. Rest("Paused") \in Queues
    BY PausedTyped, TakenTyped DEF Background
  <2>2. Resumed \in Events /\ Resumed.type \in DevToolsTypes
    BY EventsTyped DEF Resumed, DevToolsTypes
  <2> QED
    BY <1>3, <2>1, <2>2, StreamSent DEF Background
<1> QED
  BY <1>3, <1>4, <1>5, <1>6, <1>7 DEF Stream

(* A pause is reported, or resumed at once if it has no frame. *)
LEMMA PausedSequel ==
    ASSUME Background, HandlePaused \/ HandlePausedFrameless
    PROVE  Sequel'
<1>1. CASE HandlePaused
  <2>1. /\ Takes("Paused") /\ queue' = Rest("Paused") /\ kind' = "Paused"
        /\ capturing = None /\ UNCHANGED <<capturing, failure>>
    BY <1>1 DEF HandlePaused, Takes
  <2>2. /\ Tame(Stream') /\ AllHarmless(Stream') /\ ~Has(Stream', "Resumed")
        /\ OurReasons(Stream) => OurReasons(Stream')
    BY <2>1, LastPause
  <2> QED
    BY <2>1, <2>2 DEF Background, Sequel
<1>2. CASE HandlePausedFrameless
  <2>1. /\ Takes("Paused") /\ queue' = Sent(Rest("Paused"), Resumed)
        /\ kind' = "Running" /\ pagePaused' = FALSE /\ failure' = failure
    BY <1>2 DEF HandlePausedFrameless, Resume, BeginCapture
  <2>2. /\ Tail(Stream) \in Seq(Events) /\ Tame(Tail(Stream))
        /\ AllHarmless(Tail(Stream)) /\ ~Has(Tail(Stream), "Paused")
        /\ OurReasons(Stream) => OurReasons(Tail(Stream))
        /\ Stream' = Append(Tail(Stream), Resumed)
    BY <2>1, LastPause
  <2>3. Resumed \in Events /\ Resumed.type = "Resumed"
    BY EventsTyped DEF Resumed
  <2>4. /\ Tame(Stream') /\ (OurReasons(Tail(Stream)) => OurReasons(Stream'))
    BY <2>2, <2>3, TameAppend
  <2> QED
    BY <2>1, <2>2, <2>4 DEF Background, Sequel
<1> QED
  BY <1>1, <1>2

(* Any other event is of a page that ran, or it is harmless. *)
LEMMA TakenSequel ==
    ASSUME Background,
           \/ HandleLoaded \/ HandleFrameRequestedNavigation
           \/ HandleDownloadWillBegin \/ HandleConsoleEntry
           \/ HandleExceptionThrown \/ HandleFrameNavigated
    PROVE  Sequel'
<1> USE DEF DevToolsTypes
<1>1. status = "running" /\ capturing = None /\ UNCHANGED <<pagePaused, failure>>
  BY DEF Takes, HandleLoaded, HandleFrameRequestedNavigation,
     HandleDownloadWillBegin, HandleConsoleEntry, HandleExceptionThrown,
     HandleFrameNavigated, BeginCapture, taskVars, pageVars
<1>2. CASE HandleLoaded
  <2>1. /\ Stream # <<>> /\ Stream[1].type = "Loaded" /\ Stream[1] \in Events
        /\ Stream' = Tail(Stream)
    BY <1>2, StreamTaken DEF HandleLoaded, Background
  <2>2. kind' = "Running" /\ capturing' = None
    BY <1>1, <1>2 DEF HandleLoaded, taskVars
  <2> QED
    BY <1>1, <2>1, <2>2, HarmlessTypes, OtherTaken
<1>3. CASE HandleFrameRequestedNavigation
  <2>1. /\ Stream # <<>> /\ Stream[1].type = "FrameRequestedNavigation"
        /\ Stream[1] \in Events /\ Stream' = Tail(Stream)
        /\ Stream[1] = Event("FrameRequestedNavigation")
    BY <1>3, StreamTaken DEF HandleFrameRequestedNavigation, Background
  <2>2. CASE Stream[1].frame = "main"
    <3>1. kind' = "Navigating" /\ capturing' = None
      BY <1>1, <1>3, <2>1, <2>2 DEF HandleFrameRequestedNavigation, taskVars
    <3> QED
      BY <1>1, <2>1, <2>2, <3>1, HarmlessTypes, OtherTaken
  <2>3. CASE Stream[1].frame # "main"
    <3>1. UNCHANGED <<kind, capturing>>
      BY <1>3, <2>1, <2>3 DEF HandleFrameRequestedNavigation, taskVars
    <3> QED
      BY <1>1, <2>1, <2>3, <3>1, HarmlessTypes, HarmlessTaken
  <2> QED
    BY <2>2, <2>3
<1>4. CASE HandleDownloadWillBegin
  <2>1. /\ Stream # <<>> /\ Stream[1].type = "DownloadWillBegin"
        /\ Stream[1] \in Events /\ Stream' = Tail(Stream)
    BY <1>4, StreamTaken DEF HandleDownloadWillBegin, Background
  <2>2. /\ kind = "Navigating" /\ kind' \in {kind, "Running"}
        /\ capturing' = capturing
    BY <1>4 DEF HandleDownloadWillBegin, taskVars
  <2> QED
    BY <1>1, <2>1, <2>2, HarmlessTypes, HarmlessTaken
<1>5. CASE HandleConsoleEntry \/ HandleExceptionThrown
  <2>1. /\ Stream # <<>> /\ Stream[1].type \in {"ConsoleEntry", "ExceptionThrown"}
        /\ Stream[1] \in Events /\ Stream' = Tail(Stream)
    BY <1>5, StreamTaken DEF HandleConsoleEntry, HandleExceptionThrown, Background
  <2>2. kind' = kind /\ (capturing' # None => kind = "Running")
    BY <1>1, <1>5 DEF HandleConsoleEntry, HandleExceptionThrown, taskVars
  <2> QED
    BY <1>1, <2>1, <2>2, HarmlessTypes, OtherTaken
<1>6. CASE HandleFrameNavigated
  <2>1. /\ Stream # <<>> /\ Stream[1].type = "FrameNavigated"
        /\ Stream[1] \in Events /\ Stream' = Tail(Stream)
        /\ Stream[1] = Event("FrameNavigated")
    <3>1. \/ queue' = Rest("FrameNavigated")
          \/ queue' = Sent(Rest("FrameNavigated"), StateRequested(generation))
      BY <1>6 DEF HandleFrameNavigated
    <3> QED
      BY <1>6, <3>1, StreamTaken DEF HandleFrameNavigated, Background
  <2>2. CASE Stream[1].frame = "main"
    <3>1. kind' \in {"Loading", "Running"} /\ capturing' = None
      BY <1>1, <1>6, <2>1, <2>2 DEF HandleFrameNavigated, taskVars
    <3> QED
      BY <1>1, <2>1, <2>2, <3>1, HarmlessTypes, OtherTaken
  <2>3. CASE Stream[1].frame # "main"
    <3>1. UNCHANGED <<kind, capturing>>
      BY <1>6, <2>1, <2>3 DEF HandleFrameNavigated, taskVars
    <3> QED
      BY <1>1, <2>1, <2>3, <3>1, HarmlessTypes, HarmlessTaken
  <2> QED
    BY <2>2, <2>3
<1> QED
  BY <1>2, <1>3, <1>4, <1>5, <1>6

(* The machine fails: with a page that is paused it has a screenshot, with an *)
(* action it is in Paused or the page is on its way, and the end of a pause   *)
(* finds it in a kind that knows what to do.                                  *)
LEMMA FailsSequel ==
    ASSUME Background,
           \/ PausedFails \/ ResumeFails \/ UnhandledTransition
           \/ HandleTargetDestroyed \/ CallFails \/ CallHangs
    PROVE  Sequel'
<1> USE DEF DevToolsTypes
<1>1. \A why : Fail(why) => /\ status' # "running" /\ capturing' = None
                            /\ kind' = kind /\ failure' = why
                            /\ pagePaused' = pagePaused
  BY DEF Fail, stateVars, pageVars
<1>2. CASE PausedFails
  <2>1. Takes("Paused") /\ queue' = Rest("Paused")
    BY <1>2 DEF PausedFails
  <2>2. pagePaused /\ screenshot = document
    BY <2>1, PauseTaken DEF Background
  <2>3. screenshot # None
    BY <2>2 DEF Background, TypeOK, PageTyped, None
  <2>4. /\ Fail("unexpected pause reason") /\ Event("Paused").reason # "other"
    BY <1>2, <2>2, <2>3 DEF PausedFails
  <2>5. Stream' = Tail(Stream)
    BY <2>1, LastPause
  <2>6. Tame(Stream')
    BY <2>1, <2>5, LastPause
  <2>7. ~OurReasons(Stream) /\ ~Has(Stream, "Resumed")
    BY <2>1, <2>4, LastPause
  <2> QED
    BY <1>1, <2>4, <2>6, <2>7 DEF Background, Sequel
<1>3. CASE ResumeFails
  BY <1>3 DEF ResumeFails, Background, DebuggerParts, Pauses
<1>4. CASE HandleTargetDestroyed
  <2>1. /\ Stream # <<>> /\ Stream[1].type = "TargetDestroyed"
        /\ Stream[1] \in Events /\ Stream' = Tail(Stream)
    BY <1>4, StreamTaken DEF HandleTargetDestroyed, Background
  <2>2. CASE Fail("target destroyed")
    BY <1>1, <2>1, <2>2, EndsSequel
  <2>3. CASE UNCHANGED <<stateVars, taskVars, pageVars>>
    BY <1>4, <2>1, <2>3, HarmlessTypes, HarmlessTaken
       DEF HandleTargetDestroyed, Takes, stateVars, taskVars, pageVars
  <2> QED
    BY <1>4, <2>2, <2>3 DEF HandleTargetDestroyed
<1>5. CASE UnhandledTransition
  <2>1. CASE /\ Takes("ActionAccepted")
             /\ kind \notin {"Paused"} \cup ActionDropped
    <3>1. TurnOut /\ status = "running"
      BY <2>1, ActionsLane DEF Takes, TurnOut
    <3>2. kind = "Paused"
      BY <3>1 DEF Background, DebuggerParts, Turns, Sequel
    <3> QED
      BY <2>1, <3>2
  <2>2. CASE /\ Takes("Resumed") /\ queue' = Rest("Resumed")
             /\ kind \notin {"Running", "Resuming"} \cup ResumedIgnored
    <3>1. Stream # <<>> /\ Stream[1].type = "Resumed"
      BY <2>2, StreamTaken DEF Background
    <3>2. Has(Stream, "Resumed")
      BY <3>1, OneStream, LenProperties, EmptySeq DEF Has, Background
    <3> QED
      BY <2>2, <3>2 DEF Background, Sequel, Takes, ResumedIgnored
  <2>3. CASE /\ Takes("DownloadWillBegin") /\ queue' = Rest("DownloadWillBegin")
             /\ Fail("DownloadWillBegin")
    <3>1. /\ Stream # <<>> /\ Stream[1].type = "DownloadWillBegin"
          /\ Stream' = Tail(Stream)
      BY <2>3, StreamTaken DEF Background
    <3> QED
      BY <1>1, <2>3, <3>1, EndsSequel
  <2> QED
    BY <1>5, <2>1, <2>2, <2>3 DEF UnhandledTransition
<1>6. ASSUME NEW type \in {"Paused", "FrameNavigated", "ActionAccepted",
                           "StateRequested", "ExceptionThrown"},
             Takes(type), queue' = Rest(type)
      PROVE  \/ Stream' = Stream
             \/ /\ Stream # <<>> /\ Stream' = Tail(Stream)
                /\ Stream[1].type # "Resumed"
  <2>1. CASE type \in DevToolsTypes
    BY <1>6, <2>1, StreamTaken DEF Background
  <2>2. CASE type \notin DevToolsTypes
    BY <1>6, <2>2, StreamNotTaken DEF Background, Stream
  <2> QED
    BY <2>1, <2>2
<1>7. CASE CallFails
  <2>1. Fail("connection closed")
    BY <1>7 DEF CallFails
  <2>2. \/ Stream' = Stream
        \/ /\ Stream # <<>> /\ Stream' = Tail(Stream)
           /\ Stream[1].type # "Resumed"
    BY <1>6, <1>7 DEF CallFails, Stream
  <2> QED
    BY <1>1, <2>1, <2>2, EndsSequel
<1>8. CASE CallHangs
  <2>1. /\ status' = "stuck" /\ capturing' = None
        /\ UNCHANGED <<kind, failure>>
    BY <1>8 DEF CallHangs, Takes, stateVars
  <2>2. \/ Stream' = Stream
        \/ /\ Stream # <<>> /\ Stream' = Tail(Stream)
           /\ Stream[1].type # "Resumed"
    BY <1>6, <1>8 DEF CallHangs
  <2> QED
    BY <2>1, <2>2, EndsSequel
<1> QED
  BY <1>2, <1>3, <1>4, <1>5, <1>7, <1>8

(* The other tasks, the caller and the browser do not touch the stream. *)
LEMMA AsideSequel ==
    ASSUME Background,
           \/ FinishCapture \/ SkipCapture \/ Shutdown \/ ApplyFinishes
           \/ Timers \/ Caller \/ ActionNavigates \/ Abort \/ DropBreak
    PROVE  Sequel'
<1>1. CASE ApplyFinishes \/ Timers
  <2>1. \E e \in Events : e.type \notin DevToolsTypes /\ queue' = Sent(queue, e)
    <3>1. CASE ApplyFinishes
      <4>1. PICK task \in applying : queue' = Sent(queue, ActionApplied(task.gen))
        BY <3>1 DEF ApplyFinishes
      <4> QED
        BY <4>1, EventsTyped DEF Background, TypeOK, TasksTyped, ActionApplied,
                                 DevToolsTypes
    <3>2. CASE Timers
      <4>1. PICK g \in Nat : queue' = Sent(queue, StateRequested(g))
        BY <3>2 DEF Timers, TimeoutFires, WatchdogFires, Background, TypeOK,
                    TasksTyped
      <4> QED
        BY <4>1, EventsTyped DEF StateRequested, DevToolsTypes
    <3> QED
      BY <1>1, <3>1, <3>2
  <2>2. Stream' = Stream
    BY <2>1, StreamSent DEF Stream, Background, TypeOK, Queues
  <2>3. UNCHANGED <<pagePaused, failure, status, kind, capturing>>
    BY <1>1 DEF ApplyFinishes, Timers, TimeoutFires, WatchdogFires, stateVars,
                pageVars
  <2> QED
    BY <2>2, <2>3, KeptSequel DEF Background, Sequel
<1>2. CASE Caller
  <2>1. Stream' = Stream
    <3>1. \/ UNCHANGED queue
          \/ \E e : queue' = [queue EXCEPT !["actions"] = <<e>>]
      BY <1>2 DEF Caller, NextEvent, Apply, GiveUp, CloseBrowser, AwaitDone,
                  taskVars
    <3>2. CASE UNCHANGED queue
      BY <3>2 DEF Stream
    <3>3. CASE \E e : queue' = [queue EXCEPT !["actions"] = <<e>>]
      BY <3>3, OneStream DEF Stream, Background, TypeOK
    <3> QED
      BY <3>1, <3>2, <3>3
  <2>2. UNCHANGED <<pagePaused, failure, status, kind, capturing>>
    BY <1>2 DEF Caller, NextEvent, Apply, GiveUp, CloseBrowser, AwaitDone,
                stateVars, taskVars, pageVars
  <2> QED
    BY <2>1, <2>2, KeptSequel DEF Background, Sequel
<1>3. CASE ActionNavigates \/ Abort \/ DropBreak
  <2>1. Stream' = Stream
    BY <1>3 DEF ActionNavigates, Abort, DropBreak, Stream
  <2>2. /\ UNCHANGED <<failure, status, kind, capturing>>
        /\ pagePaused' = pagePaused
    BY <1>3 DEF ActionNavigates, Abort, DropBreak, PageFrame, stateVars, taskVars
  <2> QED
    BY <2>1, <2>2, KeptSequel DEF Background, Sequel
<1>4. CASE FinishCapture \/ SkipCapture \/ Shutdown
  <2>1. Stream' = Stream
    BY <1>4 DEF FinishCapture, SkipCapture, Shutdown, Stream
  <2>2. /\ UNCHANGED <<pagePaused, failure>> /\ capturing' = None
        /\ status' = "running" => status = "running"
        /\ kind' = kind \/ (capturing # None /\ kind' = "Pausing")
    BY <1>4 DEF FinishCapture, SkipCapture, Shutdown, stateVars, pageVars
  <2> QED
    BY <2>1, <2>2, KeptSequel DEF Background, Sequel
<1> QED
  BY <1>1, <1>2, <1>3, <1>4

-----------------------------------------------------------------------------
(* The steps of the page *)

(* A page that runs has no pause waiting, so it may tell anything. *)
LEMMA RunningSequel ==
    ASSUME Background,
           PageNavigates \/ Commit \/ Restore \/ Load \/ Throw \/ Log
    PROVE  Sequel'
<1>1. ~pagePaused /\ UNCHANGED <<pagePaused, failure, status, kind, capturing>>
  BY DEF PageNavigates, Commit, Restore, Load, Throw, Log, PageRuns,
         PageFrame, stateVars, taskVars, pageVars
<1>2. PICK e \in Events : /\ e.type \in DevToolsTypes \ {"Paused", "Resumed"}
                          /\ queue' = Sent(queue, e)
  <2> USE DEF DevToolsTypes
  <2>1. CASE PageNavigates \/ Commit \/ Restore
    BY <2>1, EventsTyped DEF PageNavigates, Commit, Restore,
       FrameRequestedNavigation, FrameNavigated, Frames
  <2>2. CASE Load
    BY <2>2, EventsTyped DEF Load, Loaded
  <2>3. CASE Throw \/ Log
    <3>1. used'["throws"] \in Nat /\ used'["logs"] \in Nat
      BY DEF Background, TypeOK, Bounds
    <3> QED
      BY <2>3, <3>1, EventsTyped DEF Throw, Log, ExceptionThrown, ConsoleEntry
  <2> QED
    BY <2>1, <2>2, <2>3
<1>3. Stream' = Append(Stream, e)
  BY <1>2, StreamSent DEF Stream, Background, TypeOK, Queues
<1> QED
  BY <1>1, <1>2, <1>3, RunsSequel

(* The browser process tells harmless events, paused or not. *)
LEMMA BesideSequel ==
    ASSUME Background, Download \/ SubframeNavigates \/ DestroyTarget
    PROVE  Sequel'
<1>1. UNCHANGED <<pagePaused, failure, status, kind, capturing>>
  BY DEF Download, SubframeNavigates, DestroyTarget, PageFrame, stateVars,
         taskVars, pageVars
<1>2. Stream \in Seq(Events) /\ Tame(Stream) /\ queue \in Queues
  BY OneStream DEF Background, Sequel, TypeOK, Queues
<1>3. /\ Tame(Stream')
      /\ OurReasons(Stream) => OurReasons(Stream')
      /\ AllHarmless(Stream) => AllHarmless(Stream')
      /\ Has(Stream', "Resumed") <=> Has(Stream, "Resumed")
      /\ Has(Stream', "Paused") <=> Has(Stream, "Paused")
  <2>1. CASE Download \/ DestroyTarget
    <3>1. PICK e \in Events : /\ e.type \in {"DownloadWillBegin", "TargetDestroyed"}
                              /\ queue' = Sent(queue, e)
      <4>1. CASE Download
        <5>1. navigation \in Urls
          BY <4>1 DEF Download, Background, TypeOK, PageTyped
        <5> QED
          BY <4>1, <5>1, EventsTyped DEF Download, DownloadWillBegin
      <4>2. CASE DestroyTarget
        BY <4>2, EventsTyped DEF DestroyTarget, TargetDestroyed
      <4> QED
        BY <2>1, <4>1, <4>2
    <3>2. Stream' = Append(Stream, e)
      BY <1>2, <3>1, StreamSent DEF Stream, Background, DevToolsTypes
    <3> QED
      BY <1>2, <3>1, <3>2, HarmlessTypes, HarmlessSent
  <2>2. CASE SubframeNavigates
    <3> DEFINE e == FrameRequestedNavigation("sub", "page")
               f == FrameNavigated("sub", "load")
    <3>1. /\ e \in Events /\ f \in Events /\ Harmless(e) /\ Harmless(f)
          /\ e.type \in DevToolsTypes /\ f.type \in DevToolsTypes
      BY EventsTyped DEF FrameRequestedNavigation, FrameNavigated, Frames,
         Urls, Harmless, DevToolsTypes
    <3>2. /\ queue' = Sent(Sent(queue, e), f) /\ Sent(queue, e) \in Queues
      BY <1>2, <2>2, <3>1, SentTyped DEF SubframeNavigates
    <3>3. /\ Sent(queue, e)["devtools"] = Append(Stream, e)
          /\ Stream' = Append(Sent(queue, e)["devtools"], f)
      BY <1>2, <3>1, <3>2, StreamSent DEF Stream, Background
    <3>4. Stream' = Append(Append(Stream, e), f)
      BY <3>3
    <3>5. /\ Append(Stream, e) \in Seq(Events) /\ Tame(Append(Stream, e))
          /\ OurReasons(Stream) => OurReasons(Append(Stream, e))
          /\ AllHarmless(Stream) => AllHarmless(Append(Stream, e))
          /\ Has(Append(Stream, e), "Resumed") <=> Has(Stream, "Resumed")
          /\ Has(Append(Stream, e), "Paused") <=> Has(Stream, "Paused")
      BY <1>2, <3>1, HarmlessSent
    <3> HIDE DEF e, f
    <3> QED
      BY <3>1, <3>4, <3>5, HarmlessSent
  <2> QED
    BY <2>1, <2>2
<1>4. PauseWaiting' <=> PauseWaiting
  BY <1>3, StreamPauses DEF Background
<1> QED
  BY <1>1, <1>3, <1>4 DEF Background, Sequel

(* A break that is hit tells the first pause after the last one. *)
LEMMA HitSequel ==
    ASSUME Background, HitBreak
    PROVE  Sequel'
<1>1. PICK reason \in PauseReasons, framed \in BOOLEAN :
         queue' = Sent(queue, Paused(reason, framed))
  BY DEF HitBreak
<1> DEFINE e == Paused(reason, framed)
<1>2. e \in Events /\ e.type = "Paused" /\ e.reason = reason
  BY PausedTyped, ConstantsAssumption DEF Paused
<1>3. Stream' = Append(Stream, e)
  BY <1>1, <1>2, StreamSent DEF Stream, Background, TypeOK, Queues, DevToolsTypes
<1>4. ~PauseWaiting /\ UNCHANGED <<failure, status, kind, capturing>>
  BY DEF HitBreak, PageRuns, PageFrame, stateVars, taskVars, Background,
         DebuggerParts, Pauses
<1>5. Stream \in Seq(Events) /\ Tame(Stream) /\ ~Has(Stream, "Paused")
  BY <1>4, OneStream DEF Background, Sequel
<1> HIDE DEF e
<1>6. /\ Tame(Stream') /\ Has(Stream', "Paused")
      /\ Has(Stream', "Resumed") <=> Has(Stream, "Resumed")
      /\ OurReasons(Stream) /\ reason = "other" => OurReasons(Stream')
  BY <1>2, <1>3, <1>5, TameAppend
<1>7. PauseWaiting'
  BY <1>6, StreamPauses DEF Background
<1> QED
  BY <1>4, <1>6, <1>7 DEF Background, Sequel

-----------------------------------------------------------------------------
(* The theorems about events in order *)

(* At first nothing is on the stream. *)
LEMMA SequelInit == Ordered /\ Init => Sequel
<1> SUFFICES ASSUME Ordered, Init PROVE Sequel
  OBVIOUS
<1> DEFINE empty == [lane \in Lanes |-> <<>>]
<1>1. empty \in Queues /\ StateRequested(0) \in Events
  BY EventsTyped DEF Queues
<1>2. Stream = <<>>
  <2>1. empty["devtools"] = <<>>
    BY DEF Lanes
  <2>2. StateRequested(0).type \notin DevToolsTypes
    BY DEF StateRequested, DevToolsTypes
  <2>3. Sent(empty, StateRequested(0))["devtools"] = empty["devtools"]
    BY <1>1, <2>2, StreamSent
  <2> QED
    BY <2>1, <2>3 DEF Init, Stream
<1>3. Tame(Stream) /\ OurReasons(Stream) /\ ~Has(Stream, "Resumed")
  BY <1>2 DEF Tame, OurReasons, Has
<1> QED
  BY <1>3 DEF Sequel, Init

(* Every step keeps what the machine believes true. *)
LEMMA SequelNext ==
    ASSUME Ordered, TypeOK, TypeOK', [Next]_vars, DebuggerInv, OrderInv
    PROVE  OrderInv'
<1> SUFFICES ASSUME Undisturbed' PROVE Sequel'
  BY DEF OrderInv
<1>1. Undisturbed /\ ~OwnBreak /\ ~OutsideResume
  BY DisturbedForGood
<1>2. Background
  BY <1>1, DebuggerNext DEF Background, DebuggerInv, DebuggerParts, OrderInv
<1>3. CASE UNCHANGED vars
  BY <1>2, <1>3, KeptSequel
     DEF vars, stateVars, taskVars, pageVars, Stream, Background, Sequel
<1>4. CASE Machine \/ CallHangs \/ Shutdown \/ ApplyFinishes \/ Timers \/ Caller
  BY <1>2, <1>4, InnerSequel, AcceptedSequel, ResumedSequel, PausedSequel,
     TakenSequel, FailsSequel, AsideSequel DEF Machine, Handle
<1>5. CASE Page
  BY <1>1, <1>2, <1>5, AsideSequel, RunningSequel, BesideSequel, HitSequel
     DEF Page, Navigate
<1> QED
  BY <1>3, <1>4, <1>5 DEF Next

(* With the events in order, the machine knows what it is still to be told.   *)
THEOREM OrderKept == Ordered => (Spec => []OrderInv)
<1> SUFFICES ASSUME Ordered PROVE Spec => []OrderInv
  OBVIOUS
<1>1. Init => OrderInv
  BY SequelInit DEF OrderInv
<1>2. TypeOK /\ TypeOK' /\ [Next]_vars /\ DebuggerInv /\ OrderInv => OrderInv'
  BY SequelNext
<1> QED
  BY <1>1, <1>2, TypeCorrect, DebuggerKept, PTL DEF Spec

(* With the events in order, the page stands still exactly in Paused and      *)
(* while the machine is about to learn of it.                                 *)
THEOREM PausedMeansPaused == Ordered => (Spec => []PausedIsPaused)
<1> SUFFICES ASSUME Ordered PROVE Spec => []PausedIsPaused
  OBVIOUS
<1>1. DebuggerInv /\ OrderInv => PausedIsPaused
  BY DEF DebuggerInv, OrderInv, Pauses, Sequel, PausedIsPaused
<1> QED
  BY <1>1, DebuggerKept, OrderKept, PTL

(* With the events in order and pauses for no reason but its own, the machine *)
(* fails only with the page, the connection or a download nobody asked for.   *)
THEOREM FailsWithThePage ==
    Ordered /\ PauseReasons \subseteq {"other"} =>
        (Spec => []FailsOnlyWithThePage)
<1> SUFFICES ASSUME Ordered, PauseReasons \subseteq {"other"}
             PROVE  Spec => []FailsOnlyWithThePage
  OBVIOUS
<1>1. OrderInv => FailsOnlyWithThePage
  BY DEF OrderInv, Sequel, FailsOnlyWithThePage
<1> QED
  BY <1>1, OrderKept, PTL

=============================================================================
