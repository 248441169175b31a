------------------------ MODULE BrowserMachineProofs ------------------------
(* Theorems about the browser state machine, for every value of its bounds,   *)
(* both orders of delivery and both ways to get a page: the types of its      *)
(* variables, that its generations keep actions apart, and that no event is   *)
(* lost or told twice on its way to a report.                                 *)
EXTENDS BrowserMachine, SequenceTheorems, TLAPS

Queues == [Lanes -> Seq(Events)]

EventTypes == {"StateRequested", "ActionApplied", "ActionAccepted"} \cup
              DevToolsTypes

-----------------------------------------------------------------------------
(* Streams and the events on them *)

(* Every event has a stream to arrive on. *)
LEMMA LaneOfEvent ==
    ASSUME NEW e \in Events
    PROVE  Lane(e.type) \in Lanes
BY DEF Events, Lane, Lanes, DevToolsTypes

(* The fields an event of each type carries have their types. *)
LEMMA EventFields ==
    ASSUME NEW e \in Events
    PROVE  /\ e.type \in {"StateRequested", "ActionApplied"} => e.gen \in Nat
           /\ e.type = "ActionAccepted" => e.action \in Nat
           /\ e.type \in {"ExceptionThrown", "ConsoleEntry"} => e.id \in Nat
           /\ e.type \in {"FrameRequestedNavigation", "DownloadWillBegin"} =>
                 e.url \in Urls
BY DEF Events

(* Sending keeps the queue a queue of events. *)
LEMMA SentTyped ==
    ASSUME NEW q \in Queues, NEW e \in Events
    PROVE  Sent(q, e) \in Queues
BY LaneOfEvent DEF Sent, Queues

(* So does taking, and what is taken is an event of the type asked for. *)
LEMMA TakesTyped ==
    ASSUME queue \in Queues, NEW type, Lane(type) \in Lanes, Takes(type)
    PROVE  /\ Event(type) \in Events
           /\ Event(type).type = type
           /\ Rest(type) \in Queues
BY DEF Takes, Event, Rest, Taken, Queues

(* Every type of event has a stream. *)
LEMMA LaneOfType == \A type \in EventTypes : Lane(type) \in Lanes
BY DEF Lane, Lanes, EventTypes, DevToolsTypes

(* What the machine, its tasks and the page send are events. *)
LEMMA EventsTyped ==
    /\ Loaded \in Events /\ Resumed \in Events
    /\ \A n \in Nat : /\ StateRequested(n) \in Events
                      /\ ActionApplied(n) \in Events
                      /\ ActionAccepted(n) \in Events
                      /\ ExceptionThrown(n) \in Events
                      /\ ConsoleEntry(n) \in Events
    /\ \A frame \in Frames, url \in Urls :
          /\ FrameRequestedNavigation(frame, url) \in Events
          /\ DownloadWillBegin(frame, url) \in Events
    /\ \A frame \in Frames, how \in {"load", "restore"} :
          FrameNavigated(frame, how) \in Events
    /\ \A own \in BOOLEAN : TargetDestroyed(own) \in Events
    /\ \A reason \in {"other", "exception"}, framed \in BOOLEAN :
          Paused(reason, framed) \in Events
BY DEF Events, Loaded, Resumed, StateRequested, ActionApplied, ActionAccepted,
       ExceptionThrown, ConsoleEntry, FrameRequestedNavigation,
       DownloadWillBegin, FrameNavigated, TargetDestroyed, Paused


-----------------------------------------------------------------------------
(* Type correctness *)

(* A group of variables that does not change keeps its types. *)
LEMMA FramesTyped ==
    /\ StateTyped /\ UNCHANGED stateVars => StateTyped'
    /\ TasksTyped /\ UNCHANGED taskVars => TasksTyped'
    /\ CallerTyped /\ UNCHANGED callerVars => CallerTyped'
    /\ PageTyped /\ UNCHANGED pageVars => PageTyped'
    /\ HistoryTyped /\ UNCHANGED historyVars => HistoryTyped'
BY DEF StateTyped, TasksTyped, CallerTyped, PageTyped, HistoryTyped,
       stateVars, taskVars, callerVars, pageVars, historyVars

(* What the machine takes from a queue of events is an event. *)
LEMMA TakenTyped ==
    ASSUME TypeOK
    PROVE  \A type \in EventTypes :
              Takes(type) => /\ Event(type) \in Events
                             /\ Event(type).type = type
                             /\ Rest(type) \in Queues
BY LaneOfType, TakesTyped DEF TypeOK, Queues, EventTypes

(* Whatever ends the machine with an error only touches the report channel    *)
(* and the task's own status.                                                 *)
LEMMA FailTyped ==
    ASSUME TypeOK, NEW why \in Failures, Fail(why)
    PROVE  StateTyped' /\ TasksTyped' /\ CallerTyped' /\ PageTyped'
           /\ HistoryTyped'
BY DEF Fail, Deliver, ErrorEvent, BrowserEvents, None, TypeOK, StateTyped,
       TasksTyped, CallerTyped, PageTyped, HistoryTyped, stateVars, pageVars,
       historyVars

(* Spending keeps the account of the bounds typed. *)
LEMMA SpendTyped ==
    ASSUME used \in [DOMAIN Bounds -> Nat], NEW what \in DOMAIN Bounds,
           Spend(what)
    PROVE  used' \in [DOMAIN Bounds -> Nat] /\ used'[what] \in Nat
BY DEF Spend

(* The page's steps leave everything else alone. *)
LEMMA PageFrameTyped ==
    ASSUME TypeOK, PageFrame
    PROVE  StateTyped' /\ TasksTyped' /\ CallerTyped' /\ HistoryTyped'
BY FramesTyped DEF TypeOK, PageFrame

(* Resuming the page keeps its types. *)
LEMMA ResumeTyped ==
    ASSUME PageTyped, Resume
    PROVE  PageTyped'
BY EmptySeq DEF PageTyped, Resume

(* Beginning a capture keeps the types of the machine's task. *)
LEMMA BeginCaptureTyped ==
    ASSUME TasksTyped, PageTyped, BeginCapture
    PROVE  TasksTyped'
BY DEF TasksTyped, PageTyped, BeginCapture

(* A state request changes at most the capture under way. *)
LEMMA HandleStateRequestedTyped ==
    TypeOK /\ HandleStateRequested => TypeOK'
<1> SUFFICES ASSUME TypeOK, HandleStateRequested PROVE TypeOK'
  OBVIOUS
<1>1. queue' \in Queues
  BY TakenTyped DEF HandleStateRequested, EventTypes, DevToolsTypes
<1>2. used' \in [DOMAIN Bounds -> Nat]
  BY DEF HandleStateRequested, TypeOK
<1>3. TasksTyped'
  BY BeginCaptureTyped, FramesTyped DEF HandleStateRequested, TypeOK,
       TasksTyped
<1>4. StateTyped' /\ CallerTyped' /\ PageTyped' /\ HistoryTyped'
  BY FramesTyped DEF HandleStateRequested, TypeOK
<1> QED
  BY <1>1, <1>2, <1>3, <1>4 DEF TypeOK, Queues

(* A pause without a frame resumes the page and captures again. *)
LEMMA HandlePausedFramelessTyped ==
    TypeOK /\ HandlePausedFrameless => TypeOK'
<1> SUFFICES ASSUME TypeOK, HandlePausedFrameless PROVE TypeOK'
  OBVIOUS
<1>1. queue' \in Queues
  BY TakenTyped, SentTyped, EventsTyped DEF HandlePausedFrameless, TypeOK,
       StateTyped, EventTypes, DevToolsTypes
<1>2. used' \in [DOMAIN Bounds -> Nat]
  BY DEF HandlePausedFrameless, TypeOK
<1>3. StateTyped'
  BY DEF HandlePausedFrameless, Kinds, None, TypeOK, StateTyped
<1>4. TasksTyped'
  BY BeginCaptureTyped, FramesTyped DEF HandlePausedFrameless, TypeOK,
       TasksTyped
<1>5. PageTyped'
  BY ResumeTyped DEF HandlePausedFrameless, TypeOK, PageTyped
<1>6. CallerTyped' /\ HistoryTyped'
  BY FramesTyped DEF HandlePausedFrameless, TypeOK
<1> QED
  BY <1>1, <1>2, <1>3, <1>4, <1>5, <1>6 DEF TypeOK, Queues

(* A pause with a frame sends a report and starts a generation. *)
LEMMA HandlePausedTyped ==
    TypeOK /\ HandlePaused => TypeOK'
<1> SUFFICES ASSUME TypeOK, HandlePaused PROVE TypeOK'
  OBVIOUS
<1>1. queue' \in Queues
  BY TakenTyped DEF HandlePaused, EventTypes, DevToolsTypes
<1>2. used' \in [DOMAIN Bounds -> Nat]
  BY DEF HandlePaused, TypeOK
<1>3. StateTyped'
  BY DEF HandlePaused, Kinds, None, NextGeneration, AfterReport, TypeOK,
       StateTyped
<1>4. TasksTyped'
  BY DEF HandlePaused, NextGeneration, StateTyped, TypeOK, TasksTyped
<1>5. CallerTyped'
  BY DEF HandlePaused, Deliver, StateChanged, BrowserEvents, HistoryTyped,
       TypeOK, CallerTyped
<1>6. HistoryTyped'
  BY DEF HandlePaused, StateTyped, PageTyped, Reports, TypeOK, HistoryTyped
<1>7. PageTyped'
  BY FramesTyped DEF HandlePaused, TypeOK
<1> QED
  BY <1>1, <1>2, <1>3, <1>4, <1>5, <1>6, <1>7 DEF TypeOK, Queues

(* An action resumes the page or is dropped. *)
LEMMA HandleActionAcceptedTyped ==
    TypeOK /\ HandleActionAccepted => TypeOK'
<1> SUFFICES ASSUME TypeOK, HandleActionAccepted PROVE TypeOK'
  OBVIOUS
<1>1. queue' \in Queues
  BY TakenTyped, SentTyped, EventsTyped DEF HandleActionAccepted, TypeOK,
       StateTyped, EventTypes, DevToolsTypes
<1>2. used' \in [DOMAIN Bounds -> Nat]
  BY DEF HandleActionAccepted, TypeOK
<1>3. StateTyped'
  BY TakenTyped, EventFields DEF HandleActionAccepted, Kinds, EventTypes,
       DevToolsTypes, TypeOK, StateTyped
<1>4. PageTyped'
  BY ResumeTyped, FramesTyped DEF HandleActionAccepted, TypeOK, PageTyped
<1>5. TasksTyped' /\ CallerTyped' /\ HistoryTyped'
  BY FramesTyped DEF HandleActionAccepted, TypeOK
<1> QED
  BY <1>1, <1>2, <1>3, <1>4, <1>5 DEF TypeOK, Queues

(* A resumed page starts the action's task and its timeout. *)
LEMMA HandleResumedTyped ==
    TypeOK /\ HandleResumed => TypeOK'
<1> SUFFICES ASSUME TypeOK, HandleResumed PROVE TypeOK'
  OBVIOUS
<1>1. queue' \in Queues
  BY TakenTyped DEF HandleResumed, EventTypes, DevToolsTypes
<1>2. used' \in [DOMAIN Bounds -> Nat]
  BY DEF HandleResumed, TypeOK
<1>3. StateTyped'
  <2>1. kind' \in Kinds /\ accepted' \in Nat
    BY DEF HandleResumed, Kinds, None, TypeOK, StateTyped
  <2>2. consoleLog' \in Seq(Nat)
    BY EmptySeq DEF HandleResumed, TypeOK, StateTyped
  <2> QED
    BY <2>1, <2>2 DEF HandleResumed, TypeOK, StateTyped
<1>4. TasksTyped'
  <2>1. CASE UNCHANGED <<applying, timers>>
    BY <2>1 DEF HandleResumed, TypeOK, TasksTyped
  <2>2. CASE /\ applying' = applying \cup {[gen |-> generation,
                                           action |-> accepted]}
             /\ timers' = timers \cup {generation}
    BY <2>2 DEF HandleResumed, TypeOK, TasksTyped, StateTyped
  <2> QED
    BY <2>1, <2>2 DEF HandleResumed
<1>5. CallerTyped' /\ PageTyped' /\ HistoryTyped'
  BY FramesTyped DEF HandleResumed, TypeOK
<1> QED
  BY <1>1, <1>2, <1>3, <1>4, <1>5 DEF TypeOK, Queues

(* An applied action at most ends Acting. *)
LEMMA HandleActionAppliedTyped ==
    TypeOK /\ HandleActionApplied => TypeOK'
<1> SUFFICES ASSUME TypeOK, HandleActionApplied PROVE TypeOK'
  OBVIOUS
<1>1. queue' \in Queues
  BY TakenTyped DEF HandleActionApplied, EventTypes, DevToolsTypes
<1>2. used' \in [DOMAIN Bounds -> Nat]
  BY DEF HandleActionApplied, TypeOK
<1>3. StateTyped'
  BY DEF HandleActionApplied, Kinds, TypeOK, StateTyped
<1>4. TasksTyped' /\ CallerTyped' /\ PageTyped' /\ HistoryTyped'
  BY FramesTyped DEF HandleActionApplied, TypeOK
<1> QED
  BY <1>1, <1>2, <1>3, <1>4 DEF TypeOK, Queues

(* A loaded page requests a state. *)
LEMMA HandleLoadedTyped ==
    TypeOK /\ HandleLoaded => TypeOK'
<1> SUFFICES ASSUME TypeOK, HandleLoaded PROVE TypeOK'
  OBVIOUS
<1>1. queue' \in Queues
  BY TakenTyped, SentTyped, EventsTyped DEF HandleLoaded, TypeOK, StateTyped,
       EventTypes, DevToolsTypes
<1>2. used' \in [DOMAIN Bounds -> Nat]
  BY DEF HandleLoaded, TypeOK
<1>3. StateTyped'
  BY DEF HandleLoaded, Kinds, None, TypeOK, StateTyped
<1>4. TasksTyped' /\ CallerTyped' /\ PageTyped' /\ HistoryTyped'
  BY FramesTyped DEF HandleLoaded, TypeOK
<1> QED
  BY <1>1, <1>2, <1>3, <1>4 DEF TypeOK, Queues

(* A requested navigation leads to Navigating, with its url. *)
LEMMA HandleFrameRequestedNavigationTyped ==
    TypeOK /\ HandleFrameRequestedNavigation => TypeOK'
<1> SUFFICES ASSUME TypeOK, HandleFrameRequestedNavigation PROVE TypeOK'
  OBVIOUS
<1>1. queue' \in Queues
  BY TakenTyped DEF HandleFrameRequestedNavigation, EventTypes, DevToolsTypes
<1>2. used' \in [DOMAIN Bounds -> Nat]
  BY DEF HandleFrameRequestedNavigation, TypeOK
<1>3. StateTyped'
  BY TakenTyped, EventFields DEF HandleFrameRequestedNavigation, Kinds, None,
       EventTypes, DevToolsTypes, TypeOK, StateTyped
<1>4. TasksTyped' /\ CallerTyped' /\ PageTyped' /\ HistoryTyped'
  BY FramesTyped DEF HandleFrameRequestedNavigation, TypeOK
<1> QED
  BY <1>1, <1>2, <1>3, <1>4 DEF TypeOK, Queues

(* A download ends Navigating and requests a state. *)
LEMMA HandleDownloadWillBeginTyped ==
    TypeOK /\ HandleDownloadWillBegin => TypeOK'
<1> SUFFICES ASSUME TypeOK, HandleDownloadWillBegin PROVE TypeOK'
  OBVIOUS
<1>1. queue' \in Queues
  <2>1. Rest("DownloadWillBegin") \in Queues
    BY TakenTyped DEF HandleDownloadWillBegin, EventTypes, DevToolsTypes
  <2>2. Sent(Rest("DownloadWillBegin"), StateRequested(generation)) \in Queues
    BY <2>1, SentTyped, EventsTyped DEF TypeOK, StateTyped
  <2> QED
    BY <2>1, <2>2 DEF HandleDownloadWillBegin
<1>2. used' \in [DOMAIN Bounds -> Nat]
  BY DEF HandleDownloadWillBegin, TypeOK
<1>3. StateTyped'
  BY DEF HandleDownloadWillBegin, Kinds, TypeOK, StateTyped
<1>4. TasksTyped' /\ CallerTyped' /\ PageTyped' /\ HistoryTyped'
  BY FramesTyped DEF HandleDownloadWillBegin, TypeOK
<1> QED
  BY <1>1, <1>2, <1>3, <1>4 DEF TypeOK, Queues

(* A console entry is kept or everything kept is dropped. *)
LEMMA HandleConsoleEntryTyped ==
    TypeOK /\ HandleConsoleEntry => TypeOK'
<1> SUFFICES ASSUME TypeOK, HandleConsoleEntry PROVE TypeOK'
  OBVIOUS
<1>1. queue' \in Queues
  BY TakenTyped DEF HandleConsoleEntry, EventTypes, DevToolsTypes
<1>2. used' \in [DOMAIN Bounds -> Nat]
  BY DEF HandleConsoleEntry, TypeOK
<1>3. StateTyped'
  BY TakenTyped, EventFields DEF HandleConsoleEntry, EventTypes,
       DevToolsTypes, TypeOK, StateTyped
<1>4. TasksTyped' /\ CallerTyped' /\ PageTyped' /\ HistoryTyped'
  BY FramesTyped DEF HandleConsoleEntry, TypeOK
<1> QED
  BY <1>1, <1>2, <1>3, <1>4 DEF TypeOK, Queues

(* An exception is kept and may begin a capture. *)
LEMMA HandleExceptionThrownTyped ==
    TypeOK /\ HandleExceptionThrown => TypeOK'
<1> SUFFICES ASSUME TypeOK, HandleExceptionThrown PROVE TypeOK'
  OBVIOUS
<1>1. queue' \in Queues
  BY TakenTyped DEF HandleExceptionThrown, EventTypes, DevToolsTypes
<1>2. used' \in [DOMAIN Bounds -> Nat]
  BY DEF HandleExceptionThrown, TypeOK
<1>3. StateTyped'
  BY TakenTyped, EventFields DEF HandleExceptionThrown, EventTypes,
       DevToolsTypes, TypeOK, StateTyped
<1>4. TasksTyped'
  BY BeginCaptureTyped, FramesTyped DEF HandleExceptionThrown, TypeOK,
       TasksTyped
<1>5. CallerTyped' /\ PageTyped' /\ HistoryTyped'
  BY FramesTyped DEF HandleExceptionThrown, TypeOK
<1> QED
  BY <1>1, <1>2, <1>3, <1>4, <1>5 DEF TypeOK, Queues

(* A new document leads to Loading or requests a state. *)
LEMMA HandleFrameNavigatedTyped ==
    TypeOK /\ HandleFrameNavigated => TypeOK'
<1> SUFFICES ASSUME TypeOK, HandleFrameNavigated PROVE TypeOK'
  OBVIOUS
<1>1. queue' \in Queues
  <2>1. Rest("FrameNavigated") \in Queues
    BY TakenTyped DEF HandleFrameNavigated, EventTypes, DevToolsTypes
  <2>2. Sent(Rest("FrameNavigated"), StateRequested(generation)) \in Queues
    BY <2>1, SentTyped, EventsTyped DEF TypeOK, StateTyped
  <2> QED
    BY <2>1, <2>2 DEF HandleFrameNavigated
<1>2. used' \in [DOMAIN Bounds -> Nat]
  BY DEF HandleFrameNavigated, TypeOK
<1>3. StateTyped'
  BY DEF HandleFrameNavigated, Kinds, None, TypeOK, StateTyped
<1>4. TasksTyped' /\ CallerTyped' /\ PageTyped' /\ HistoryTyped'
  BY FramesTyped DEF HandleFrameNavigated, TypeOK
<1> QED
  BY <1>1, <1>2, <1>3, <1>4 DEF TypeOK, Queues

(* A finished capture starts a generation and queues the pause. *)
LEMMA FinishCaptureTyped ==
    TypeOK /\ FinishCapture => TypeOK'
<1> SUFFICES ASSUME TypeOK, FinishCapture PROVE TypeOK'
  OBVIOUS
<1>1. queue' \in Queues
  BY DEF FinishCapture, TypeOK, Queues
<1>2. used' \in [DOMAIN Bounds -> Nat]
  BY DEF FinishCapture, TypeOK
<1>3. StateTyped'
  <2>1. screenshot' = document
    BY DEF FinishCapture, Captured
  <2>2. generation' \in Nat
    BY DEF FinishCapture, NextGeneration, TypeOK, StateTyped
  <2>3. kind' \in Kinds /\ target' = NoUrl /\ accepted' \in Nat
    BY DEF FinishCapture, Kinds, None
  <2> QED
    BY <2>1, <2>2, <2>3 DEF FinishCapture, TypeOK, StateTyped, PageTyped
<1>4. TasksTyped'
  BY DEF FinishCapture, None, TypeOK, TasksTyped
<1>5. PageTyped'
  BY AppendProperties DEF FinishCapture, Captured, TasksTyped, TypeOK,
       PageTyped
<1>6. CallerTyped' /\ HistoryTyped'
  BY FramesTyped DEF FinishCapture, TypeOK
<1> QED
  BY <1>1, <1>2, <1>3, <1>4, <1>5, <1>6 DEF TypeOK, Queues

(* A skipped capture only forgets the document. *)
LEMMA SkipCaptureTyped ==
    TypeOK /\ SkipCapture => TypeOK'
<1> SUFFICES ASSUME TypeOK, SkipCapture PROVE TypeOK'
  OBVIOUS
<1>1. queue' \in Queues
  BY DEF SkipCapture, TypeOK, Queues
<1>2. used' \in [DOMAIN Bounds -> Nat]
  BY SpendTyped DEF SkipCapture, Bounds, TypeOK
<1>3. TasksTyped'
  BY DEF SkipCapture, None, TypeOK, TasksTyped
<1>4. StateTyped' /\ CallerTyped' /\ PageTyped' /\ HistoryTyped'
  BY FramesTyped DEF SkipCapture, TypeOK
<1> QED
  BY <1>1, <1>2, <1>3, <1>4 DEF TypeOK, Queues

(* The pauses that end the machine: Fail, with one of the reasons. *)
LEMMA PausedFailsTyped ==
    TypeOK /\ PausedFails => TypeOK'
<1> SUFFICES ASSUME TypeOK, PausedFails PROVE TypeOK'
  OBVIOUS
<1>1. queue' \in Queues
  BY TakenTyped DEF PausedFails, EventTypes, DevToolsTypes
<1>2. used' \in [DOMAIN Bounds -> Nat]
  BY DEF PausedFails, TypeOK
<1>3. \E why \in Failures : Fail(why)
  BY DEF PausedFails, Failures
<1> QED
  BY <1>1, <1>2, <1>3, FailTyped DEF TypeOK, Queues

(* A resume that fails ends the machine. *)
LEMMA ResumeFailsTyped ==
    TypeOK /\ ResumeFails => TypeOK'
<1> SUFFICES ASSUME TypeOK, ResumeFails PROVE TypeOK'
  OBVIOUS
<1>1. queue' \in Queues
  BY TakenTyped DEF ResumeFails, EventTypes, DevToolsTypes
<1>2. used' \in [DOMAIN Bounds -> Nat]
  BY DEF ResumeFails, TypeOK
<1>3. \E why \in Failures : Fail(why)
  BY DEF ResumeFails, Failures
<1> QED
  BY <1>1, <1>2, <1>3, FailTyped DEF TypeOK, Queues

(* A pair of kind and event with no arm ends the machine. *)
LEMMA UnhandledTransitionTyped ==
    TypeOK /\ UnhandledTransition => TypeOK'
<1> SUFFICES ASSUME TypeOK, UnhandledTransition PROVE TypeOK'
  OBVIOUS
<1>1. queue' \in Queues
  BY TakenTyped DEF UnhandledTransition, EventTypes, DevToolsTypes
<1>2. used' \in [DOMAIN Bounds -> Nat]
  BY DEF UnhandledTransition, TypeOK
<1>3. \E why \in Failures : Fail(why)
  BY DEF UnhandledTransition, Failures
<1> QED
  BY <1>1, <1>2, <1>3, FailTyped DEF TypeOK, Queues

(* A call over a closed connection ends the machine. *)
LEMMA CallFailsTyped ==
    TypeOK /\ CallFails => TypeOK'
<1> SUFFICES ASSUME TypeOK, CallFails PROVE TypeOK'
  OBVIOUS
<1>1. queue' \in Queues
  BY TakenTyped DEF CallFails, TypeOK, Queues, EventTypes, DevToolsTypes
<1>2. used' \in [DOMAIN Bounds -> Nat]
  BY DEF CallFails, TypeOK
<1>3. \E why \in Failures : Fail(why)
  BY DEF CallFails, Failures
<1> QED
  BY <1>1, <1>2, <1>3, FailTyped DEF TypeOK, Queues

(* A destroyed target ends the machine if it is its own. *)
LEMMA HandleTargetDestroyedTyped ==
    TypeOK /\ HandleTargetDestroyed => TypeOK'
<1> SUFFICES ASSUME TypeOK, HandleTargetDestroyed PROVE TypeOK'
  OBVIOUS
<1>1. queue' \in Queues
  BY TakenTyped DEF HandleTargetDestroyed, EventTypes, DevToolsTypes
<1>2. used' \in [DOMAIN Bounds -> Nat]
  BY DEF HandleTargetDestroyed, TypeOK
<1>3. CASE Fail("target destroyed")
  BY <1>1, <1>2, <1>3, FailTyped DEF TypeOK, Queues, Failures
<1>4. CASE UNCHANGED <<stateVars, taskVars, callerVars, pageVars, historyVars>>
  BY <1>1, <1>2, <1>4, FramesTyped DEF TypeOK, Queues
<1> QED
  BY <1>3, <1>4 DEF HandleTargetDestroyed

(* A call without a reply only changes the status of the task. *)
LEMMA CallHangsTyped ==
    TypeOK /\ CallHangs => TypeOK'
<1> SUFFICES ASSUME TypeOK, CallHangs PROVE TypeOK'
  OBVIOUS
<1>1. queue' \in Queues
  BY TakenTyped DEF CallHangs, EventTypes, DevToolsTypes
<1>2. used' \in [DOMAIN Bounds -> Nat]
  BY SpendTyped DEF CallHangs, Bounds, TypeOK
<1>3. TasksTyped'
  BY DEF CallHangs, TypeOK, TasksTyped
<1>4. StateTyped' /\ CallerTyped' /\ PageTyped' /\ HistoryTyped'
  BY FramesTyped DEF CallHangs, TypeOK
<1> QED
  BY <1>1, <1>2, <1>3, <1>4 DEF TypeOK, Queues

(* The shutdown signal only changes the status of the task. *)
LEMMA ShutdownTyped ==
    TypeOK /\ Shutdown => TypeOK'
<1> SUFFICES ASSUME TypeOK, Shutdown PROVE TypeOK'
  OBVIOUS
<1>1. queue' \in Queues
  BY DEF Shutdown, TypeOK, Queues
<1>2. used' \in [DOMAIN Bounds -> Nat]
  BY DEF Shutdown, TypeOK
<1>3. TasksTyped'
  BY DEF Shutdown, TypeOK, TasksTyped
<1>4. StateTyped' /\ CallerTyped' /\ PageTyped' /\ HistoryTyped'
  BY FramesTyped DEF Shutdown, TypeOK
<1> QED
  BY <1>1, <1>2, <1>3, <1>4 DEF TypeOK, Queues

(* An action task ends with an inner event of its generation. *)
LEMMA ApplyFinishesTyped ==
    TypeOK /\ ApplyFinishes => TypeOK'
<1> SUFFICES ASSUME TypeOK, ApplyFinishes PROVE TypeOK'
  OBVIOUS
<1>1. queue' \in Queues
  BY SentTyped, EventsTyped DEF ApplyFinishes, TypeOK, TasksTyped, Queues
<1>2. used' \in [DOMAIN Bounds -> Nat]
  BY DEF ApplyFinishes, TypeOK
<1>3. TasksTyped'
  BY DEF ApplyFinishes, TypeOK, TasksTyped
<1>4. StateTyped' /\ CallerTyped' /\ PageTyped' /\ HistoryTyped'
  BY FramesTyped DEF ApplyFinishes, TypeOK
<1> QED
  BY <1>1, <1>2, <1>3, <1>4 DEF TypeOK, Queues

(* A timeout aborts a task and requests a state. *)
LEMMA TimeoutFiresTyped ==
    TypeOK /\ TimeoutFires => TypeOK'
<1> SUFFICES ASSUME TypeOK, TimeoutFires PROVE TypeOK'
  OBVIOUS
<1>1. queue' \in Queues
  BY SentTyped, EventsTyped DEF TimeoutFires, TypeOK, TasksTyped, Queues
<1>2. used' \in [DOMAIN Bounds -> Nat]
  BY DEF TimeoutFires, TypeOK
<1>3. TasksTyped'
  BY DEF TimeoutFires, TypeOK, TasksTyped
<1>4. StateTyped' /\ CallerTyped' /\ PageTyped' /\ HistoryTyped'
  BY FramesTyped DEF TimeoutFires, TypeOK
<1> QED
  BY <1>1, <1>2, <1>3, <1>4 DEF TypeOK, Queues

(* A watchdog requests a state. *)
LEMMA WatchdogFiresTyped ==
    TypeOK /\ WatchdogFires => TypeOK'
<1> SUFFICES ASSUME TypeOK, WatchdogFires PROVE TypeOK'
  OBVIOUS
<1>1. queue' \in Queues
  BY SentTyped, EventsTyped DEF WatchdogFires, TypeOK, TasksTyped, Queues
<1>2. used' \in [DOMAIN Bounds -> Nat]
  BY DEF WatchdogFires, TypeOK
<1>3. TasksTyped'
  BY DEF WatchdogFires, TypeOK, TasksTyped
<1>4. StateTyped' /\ CallerTyped' /\ PageTyped' /\ HistoryTyped'
  BY FramesTyped DEF WatchdogFires, TypeOK
<1> QED
  BY <1>1, <1>2, <1>3, <1>4 DEF TypeOK, Queues

(* The caller takes the one unread event, if there is one. *)
LEMMA NextEventTyped ==
    TypeOK /\ NextEvent => TypeOK'
<1> SUFFICES ASSUME TypeOK, NextEvent PROVE TypeOK'
  OBVIOUS
<1>1. queue' \in Queues
  BY DEF NextEvent, TypeOK, Queues
<1>2. used' \in [DOMAIN Bounds -> Nat]
  BY DEF NextEvent, TypeOK
<1>3. CallerTyped'
  <2>1. unread \in Seq(BrowserEvents) /\ Len(unread) <= 1
    BY DEF TypeOK, CallerTyped
  <2>2. unread' \in Seq(BrowserEvents) /\ Len(unread') <= 1
    <3>1. CASE unread' = unread
      BY <2>1, <3>1
    <3>2. CASE unread' = <<>>
      BY <3>2
    <3> QED
      BY <3>1, <3>2 DEF NextEvent
  <2>3. unread # <<>> => Head(unread).report \in Nat
    <3>1. unread # <<>> => Head(unread) \in BrowserEvents
      BY <2>1, HeadTailProperties
    <3> QED
      BY <3>1 DEF BrowserEvents
  <2>4. answering' \in Nat
    BY <2>3 DEF NextEvent, TypeOK, CallerTyped
  <2>5. lagged' \in BOOLEAN /\ shutdown' \in BOOLEAN
        /\ caller' \in {"waiting", "choosing", "closing", "closed"}
    BY DEF NextEvent, Terminates, TypeOK, CallerTyped
  <2> QED
    BY <2>2, <2>4, <2>5 DEF NextEvent, TypeOK, CallerTyped
<1>4. StateTyped' /\ TasksTyped' /\ PageTyped' /\ HistoryTyped'
  BY FramesTyped DEF NextEvent, TypeOK
<1> QED
  BY <1>1, <1>2, <1>3, <1>4 DEF TypeOK, Queues

(* The caller replaces the action in its channel. *)
LEMMA ApplyTyped ==
    TypeOK /\ Apply => TypeOK'
<1> SUFFICES ASSUME TypeOK, Apply PROVE TypeOK'
  OBVIOUS
<1>1. queue' \in Queues
  <2>1. <<ActionAccepted(answering)>> \in Seq(Events)
    BY EventsTyped DEF TypeOK, CallerTyped
  <2> QED
    BY <2>1 DEF Apply, TypeOK, Queues, Lanes
<1>2. used' \in [DOMAIN Bounds -> Nat]
  BY SpendTyped DEF Apply, Bounds, TypeOK
<1>3. CallerTyped'
  BY DEF Apply, Terminates, AfterApply, TypeOK, CallerTyped
<1>4. StateTyped' /\ TasksTyped' /\ PageTyped' /\ HistoryTyped'
  BY FramesTyped DEF Apply, TypeOK
<1> QED
  BY <1>1, <1>2, <1>3, <1>4 DEF TypeOK, Queues

(* The caller ends the test. *)
LEMMA GiveUpTyped ==
    TypeOK /\ GiveUp => TypeOK'
<1> SUFFICES ASSUME TypeOK, GiveUp PROVE TypeOK'
  OBVIOUS
<1>1. queue' \in Queues
  BY DEF GiveUp, TypeOK, Queues
<1>2. used' \in [DOMAIN Bounds -> Nat]
  BY SpendTyped DEF GiveUp, Bounds, TypeOK
<1>3. CallerTyped'
  BY DEF GiveUp, Terminates, TypeOK, CallerTyped
<1>4. StateTyped' /\ TasksTyped' /\ PageTyped' /\ HistoryTyped'
  BY FramesTyped DEF GiveUp, TypeOK
<1> QED
  BY <1>1, <1>2, <1>3, <1>4 DEF TypeOK, Queues

(* terminate closes the connection. *)
LEMMA CloseBrowserTyped ==
    TypeOK /\ CloseBrowser => TypeOK'
<1> SUFFICES ASSUME TypeOK, CloseBrowser PROVE TypeOK'
  OBVIOUS
<1>1. queue' \in Queues
  BY DEF CloseBrowser, TypeOK, Queues
<1>2. used' \in [DOMAIN Bounds -> Nat]
  BY DEF CloseBrowser, TypeOK
<1>3. CallerTyped'
  BY DEF CloseBrowser, TypeOK, CallerTyped
<1>4. StateTyped' /\ TasksTyped' /\ PageTyped' /\ HistoryTyped'
  BY FramesTyped DEF CloseBrowser, TypeOK
<1> QED
  BY <1>1, <1>2, <1>3, <1>4 DEF TypeOK, Queues

(* terminate returns. *)
LEMMA AwaitDoneTyped ==
    TypeOK /\ AwaitDone => TypeOK'
<1> SUFFICES ASSUME TypeOK, AwaitDone PROVE TypeOK'
  OBVIOUS
<1>1. queue' \in Queues
  BY DEF AwaitDone, TypeOK, Queues
<1>2. used' \in [DOMAIN Bounds -> Nat]
  BY DEF AwaitDone, TypeOK
<1>3. CallerTyped'
  BY DEF AwaitDone, TypeOK, CallerTyped
<1>4. StateTyped' /\ TasksTyped' /\ PageTyped' /\ HistoryTyped'
  BY FramesTyped DEF AwaitDone, TypeOK
<1> QED
  BY <1>1, <1>2, <1>3, <1>4 DEF TypeOK, Queues

(* A navigation by the page. *)
LEMMA PageNavigatesTyped ==
    TypeOK /\ PageNavigates => TypeOK'
<1> SUFFICES ASSUME TypeOK, PageNavigates PROVE TypeOK'
  OBVIOUS
<1>1. queue' \in Queues
  BY SentTyped, EventsTyped DEF PageNavigates, TypeOK, Queues, Frames
<1>2. used' \in [DOMAIN Bounds -> Nat]
  BY SpendTyped DEF PageNavigates, Bounds, TypeOK
<1>3. PageTyped'
  BY DEF PageNavigates, TypeOK, PageTyped
<1>4. StateTyped' /\ TasksTyped' /\ CallerTyped' /\ HistoryTyped'
  BY PageFrameTyped DEF PageNavigates
<1> QED
  BY <1>1, <1>2, <1>3, <1>4 DEF TypeOK, Queues

(* A navigation by an action. *)
LEMMA ActionNavigatesTyped ==
    TypeOK /\ ActionNavigates => TypeOK'
<1> SUFFICES ASSUME TypeOK, ActionNavigates PROVE TypeOK'
  OBVIOUS
<1>1. queue' \in Queues
  BY DEF ActionNavigates, TypeOK, Queues
<1>2. used' \in [DOMAIN Bounds -> Nat]
  BY SpendTyped DEF ActionNavigates, Bounds, TypeOK
<1>3. PageTyped'
  BY DEF ActionNavigates, Urls, TypeOK, PageTyped
<1>4. StateTyped' /\ TasksTyped' /\ CallerTyped' /\ HistoryTyped'
  BY PageFrameTyped DEF ActionNavigates
<1> QED
  BY <1>1, <1>2, <1>3, <1>4 DEF TypeOK, Queues

(* A navigation commits a document. *)
LEMMA CommitTyped ==
    TypeOK /\ Commit => TypeOK'
<1> SUFFICES ASSUME TypeOK, Commit PROVE TypeOK'
  OBVIOUS
<1>1. queue' \in Queues
  BY SentTyped, EventsTyped DEF Commit, TypeOK, Queues, Frames
<1>2. used' \in [DOMAIN Bounds -> Nat]
  BY DEF Commit, TypeOK
<1>3. PageTyped'
  BY DEF Commit, TypeOK, PageTyped
<1>4. StateTyped' /\ TasksTyped' /\ CallerTyped' /\ HistoryTyped'
  BY PageFrameTyped DEF Commit
<1> QED
  BY <1>1, <1>2, <1>3, <1>4 DEF TypeOK, Queues

(* A navigation restores a document. *)
LEMMA RestoreTyped ==
    TypeOK /\ Restore => TypeOK'
<1> SUFFICES ASSUME TypeOK, Restore PROVE TypeOK'
  OBVIOUS
<1>1. queue' \in Queues
  BY SentTyped, EventsTyped DEF Restore, TypeOK, Queues, Frames
<1>2. used' \in [DOMAIN Bounds -> Nat]
  BY SpendTyped DEF Restore, Bounds, TypeOK
<1>3. PageTyped'
  <2>1. document' \in Nat \ {0} /\ navigation' = NoUrl
    BY DEF Restore, TypeOK, PageTyped
  <2>2. loading' \in BOOLEAN /\ UNCHANGED <<pagePaused, breaks>>
    BY DEF Restore
  <2> QED
    BY <2>1, <2>2 DEF TypeOK, PageTyped
<1>4. StateTyped' /\ TasksTyped' /\ CallerTyped' /\ HistoryTyped'
  BY PageFrameTyped DEF Restore
<1> QED
  BY <1>1, <1>2, <1>3, <1>4 DEF TypeOK, Queues

(* A navigation becomes a download. *)
LEMMA DownloadTyped ==
    TypeOK /\ Download => TypeOK'
<1> SUFFICES ASSUME TypeOK, Download PROVE TypeOK'
  OBVIOUS
<1>1. queue' \in Queues
  <2>1. \A frame \in Frames : DownloadWillBegin(frame, navigation) \in Events
    BY EventsTyped DEF Download, TypeOK, PageTyped
  <2> QED
    BY <2>1, SentTyped DEF Download, TypeOK, Queues
<1>2. used' \in [DOMAIN Bounds -> Nat]
  BY SpendTyped DEF Download, Bounds, TypeOK
<1>3. PageTyped'
  BY DEF Download, TypeOK, PageTyped
<1>4. StateTyped' /\ TasksTyped' /\ CallerTyped' /\ HistoryTyped'
  BY PageFrameTyped DEF Download
<1> QED
  BY <1>1, <1>2, <1>3, <1>4 DEF TypeOK, Queues

(* A navigation is dropped. *)
LEMMA AbortTyped ==
    TypeOK /\ Abort => TypeOK'
<1> SUFFICES ASSUME TypeOK, Abort PROVE TypeOK'
  OBVIOUS
<1>1. queue' \in Queues
  BY DEF Abort, TypeOK, Queues
<1>2. used' \in [DOMAIN Bounds -> Nat]
  BY SpendTyped DEF Abort, Bounds, TypeOK
<1>3. PageTyped'
  BY DEF Abort, TypeOK, PageTyped
<1>4. StateTyped' /\ TasksTyped' /\ CallerTyped' /\ HistoryTyped'
  BY PageFrameTyped DEF Abort
<1> QED
  BY <1>1, <1>2, <1>3, <1>4 DEF TypeOK, Queues

(* A document loads. *)
LEMMA LoadTyped ==
    TypeOK /\ Load => TypeOK'
<1> SUFFICES ASSUME TypeOK, Load PROVE TypeOK'
  OBVIOUS
<1>1. queue' \in Queues
  BY SentTyped, EventsTyped DEF Load, TypeOK, Queues
<1>2. used' \in [DOMAIN Bounds -> Nat]
  BY DEF Load, TypeOK
<1>3. PageTyped'
  BY DEF Load, TypeOK, PageTyped
<1>4. StateTyped' /\ TasksTyped' /\ CallerTyped' /\ HistoryTyped'
  BY PageFrameTyped DEF Load
<1> QED
  BY <1>1, <1>2, <1>3, <1>4 DEF TypeOK, Queues

(* The page throws; the exception takes the next number. *)
LEMMA ThrowTyped ==
    TypeOK /\ Throw => TypeOK'
<1> SUFFICES ASSUME TypeOK, Throw PROVE TypeOK'
  OBVIOUS
<1>1. queue' \in Queues
  BY SentTyped, EventsTyped, SpendTyped DEF Throw, TypeOK, Queues, Bounds
<1>2. used' \in [DOMAIN Bounds -> Nat]
  BY SpendTyped DEF Throw, Bounds, TypeOK
<1>3. PageTyped'
  BY FramesTyped DEF Throw, TypeOK
<1>4. StateTyped' /\ TasksTyped' /\ CallerTyped' /\ HistoryTyped'
  BY PageFrameTyped DEF Throw
<1> QED
  BY <1>1, <1>2, <1>3, <1>4 DEF TypeOK, Queues

(* Another frame navigates. *)
LEMMA SubframeNavigatesTyped ==
    TypeOK /\ SubframeNavigates => TypeOK'
<1> SUFFICES ASSUME TypeOK, SubframeNavigates PROVE TypeOK'
  OBVIOUS
<1>1. queue' \in Queues
  BY SentTyped, EventsTyped DEF SubframeNavigates, TypeOK, Queues, Frames,
       Urls
<1>2. used' \in [DOMAIN Bounds -> Nat]
  BY SpendTyped DEF SubframeNavigates, Bounds, TypeOK
<1>3. PageTyped'
  BY FramesTyped DEF SubframeNavigates, TypeOK
<1>4. StateTyped' /\ TasksTyped' /\ CallerTyped' /\ HistoryTyped'
  BY PageFrameTyped DEF SubframeNavigates
<1> QED
  BY <1>1, <1>2, <1>3, <1>4 DEF TypeOK, Queues

(* A target is destroyed. *)
LEMMA DestroyTargetTyped ==
    TypeOK /\ DestroyTarget => TypeOK'
<1> SUFFICES ASSUME TypeOK, DestroyTarget PROVE TypeOK'
  OBVIOUS
<1>1. queue' \in Queues
  BY SentTyped, EventsTyped DEF DestroyTarget, TypeOK, Queues
<1>2. used' \in [DOMAIN Bounds -> Nat]
  BY SpendTyped DEF DestroyTarget, Bounds, TypeOK
<1>3. PageTyped'
  BY FramesTyped DEF DestroyTarget, TypeOK
<1>4. StateTyped' /\ TasksTyped' /\ CallerTyped' /\ HistoryTyped'
  BY PageFrameTyped DEF DestroyTarget
<1> QED
  BY <1>1, <1>2, <1>3, <1>4 DEF TypeOK, Queues

(* The page's own debugger statement. *)
LEMMA OwnBreakTyped ==
    TypeOK /\ OwnBreak => TypeOK'
<1> SUFFICES ASSUME TypeOK, OwnBreak PROVE TypeOK'
  OBVIOUS
<1>1. queue' \in Queues
  BY SentTyped, EventsTyped DEF OwnBreak, TypeOK, Queues
<1>2. used' \in [DOMAIN Bounds -> Nat]
  BY SpendTyped DEF OwnBreak, Bounds, TypeOK
<1>3. PageTyped'
  BY DEF OwnBreak, TypeOK, PageTyped
<1>4. StateTyped' /\ TasksTyped' /\ CallerTyped' /\ HistoryTyped'
  BY PageFrameTyped DEF OwnBreak
<1> QED
  BY <1>1, <1>2, <1>3, <1>4 DEF TypeOK, Queues

(* Somebody else resumes the page. *)
LEMMA OutsideResumeTyped ==
    TypeOK /\ OutsideResume => TypeOK'
<1> SUFFICES ASSUME TypeOK, OutsideResume PROVE TypeOK'
  OBVIOUS
<1>1. queue' \in Queues
  BY SentTyped, EventsTyped DEF OutsideResume, TypeOK, Queues
<1>2. used' \in [DOMAIN Bounds -> Nat]
  BY SpendTyped DEF OutsideResume, Bounds, TypeOK
<1>3. PageTyped'
  BY DEF OutsideResume, TypeOK, PageTyped
<1>4. StateTyped' /\ TasksTyped' /\ CallerTyped' /\ HistoryTyped'
  BY PageFrameTyped DEF OutsideResume
<1> QED
  BY <1>1, <1>2, <1>3, <1>4 DEF TypeOK, Queues

(* A queued evaluation pauses the page. *)
LEMMA HitBreakTyped ==
    TypeOK /\ HitBreak => TypeOK'
<1> SUFFICES ASSUME TypeOK, HitBreak PROVE TypeOK'
  OBVIOUS
<1>1. queue' \in Queues
  <2>1. \A reason \in PauseReasons, framed \in BOOLEAN :
           Paused(reason, framed) \in Events
    BY EventsTyped, ConstantsAssumption
  <2> QED
    BY <2>1, SentTyped DEF HitBreak, TypeOK, Queues
<1>2. used' \in [DOMAIN Bounds -> Nat]
  BY SpendTyped DEF HitBreak, Bounds, TypeOK
<1>3. PageTyped'
  BY DEF HitBreak, TypeOK, PageTyped
<1>4. StateTyped' /\ TasksTyped' /\ CallerTyped' /\ HistoryTyped'
  BY PageFrameTyped DEF HitBreak
<1> QED
  BY <1>1, <1>2, <1>3, <1>4 DEF TypeOK, Queues

(* A queued evaluation is dropped. *)
LEMMA DropBreakTyped ==
    TypeOK /\ DropBreak => TypeOK'
<1> SUFFICES ASSUME TypeOK, DropBreak PROVE TypeOK'
  OBVIOUS
<1>1. queue' \in Queues
  BY DEF DropBreak, TypeOK, Queues
<1>2. used' \in [DOMAIN Bounds -> Nat]
  BY DEF DropBreak, TypeOK
<1>3. PageTyped'
  BY DEF DropBreak, TypeOK, PageTyped
<1>4. StateTyped' /\ TasksTyped' /\ CallerTyped' /\ HistoryTyped'
  BY PageFrameTyped DEF DropBreak
<1> QED
  BY <1>1, <1>2, <1>3, <1>4 DEF TypeOK, Queues

(* The page logs; the entry takes the next number. *)
LEMMA LogTyped ==
    TypeOK /\ Log => TypeOK'
<1> SUFFICES ASSUME TypeOK, Log PROVE TypeOK'
  OBVIOUS
<1>1. queue' \in Queues
  BY SentTyped, EventsTyped, SpendTyped DEF Log, TypeOK, Queues, Bounds
<1>2. used' \in [DOMAIN Bounds -> Nat]
  BY SpendTyped DEF Log, Bounds, TypeOK
<1>3. HistoryTyped'
  BY AppendProperties DEF Log, PageTyped, historyVars, TypeOK, HistoryTyped
<1>4. StateTyped' /\ TasksTyped' /\ CallerTyped' /\ PageTyped'
  BY FramesTyped DEF Log, TypeOK
<1> QED
  BY <1>1, <1>2, <1>3, <1>4 DEF TypeOK, Queues

(* The first state has the types of TypeOK: Browser::new and initiate. *)
LEMMA InitTyped == Init => TypeOK
<1> SUFFICES ASSUME Init PROVE TypeOK
  OBVIOUS
<1>1. [lane \in Lanes |-> <<>>] \in Queues
  BY DEF Queues
<1>2. queue \in Queues
  BY <1>1, SentTyped, EventsTyped DEF Init
<1>3. used \in [DOMAIN Bounds -> Nat]
  BY DEF Init
<1>4. StateTyped
  BY EmptySeq DEF Init, StateTyped, Kinds, None
<1>5. TasksTyped
  BY DEF Init, TasksTyped, Failures, None
<1>6. CallerTyped
  <2>1. unread \in Seq(BrowserEvents) /\ Len(unread) <= 1
    BY EmptySeq DEF Init
  <2> QED
    BY <2>1 DEF Init, CallerTyped, None
<1>7. PageTyped
  <2>1. breaks \in Seq(Nat)
    BY EmptySeq DEF Init
  <2>2. navigation \in Urls \cup {NoUrl}
    BY DEF Init, Urls
  <2>3. document \in Nat \ {0}
    BY DEF Init
  <2>4. loading \in BOOLEAN /\ pagePaused \in BOOLEAN
    BY DEF Init
  <2> QED
    BY <2>1, <2>2, <2>3, <2>4 DEF PageTyped
<1>8. HistoryTyped
  BY EmptySeq DEF Init, HistoryTyped
<1> QED
  BY <1>2, <1>3, <1>4, <1>5, <1>6, <1>7, <1>8 DEF TypeOK, Queues

(* Every step keeps the types, one lemma per action. *)
LEMMA NextTyped == TypeOK /\ [Next]_vars => TypeOK'
<1> SUFFICES ASSUME TypeOK, [Next]_vars PROVE TypeOK'
  OBVIOUS
<1>1. CASE Handle
  BY <1>1, HandleStateRequestedTyped, HandlePausedFramelessTyped,
       HandlePausedTyped, PausedFailsTyped, HandleActionAcceptedTyped,
       ResumeFailsTyped, HandleResumedTyped, HandleActionAppliedTyped,
       HandleLoadedTyped, HandleFrameRequestedNavigationTyped,
       HandleDownloadWillBeginTyped, HandleConsoleEntryTyped,
       HandleExceptionThrownTyped, HandleFrameNavigatedTyped,
       HandleTargetDestroyedTyped, UnhandledTransitionTyped DEF Handle
<1>2. CASE Machine \/ CallHangs \/ Shutdown \/ ApplyFinishes \/ Timers
  BY <1>1, <1>2, FinishCaptureTyped, SkipCaptureTyped, CallFailsTyped,
       CallHangsTyped, ShutdownTyped, ApplyFinishesTyped, TimeoutFiresTyped,
       WatchdogFiresTyped DEF Machine, Timers
<1>3. CASE Caller
  BY <1>3, NextEventTyped, ApplyTyped, GiveUpTyped, CloseBrowserTyped,
       AwaitDoneTyped DEF Caller
<1>4. CASE Page
  BY <1>4, PageNavigatesTyped, ActionNavigatesTyped, CommitTyped,
       RestoreTyped, DownloadTyped, AbortTyped, LoadTyped, ThrowTyped,
       LogTyped, SubframeNavigatesTyped, DestroyTargetTyped, OwnBreakTyped,
       OutsideResumeTyped, HitBreakTyped, DropBreakTyped DEF Page, Navigate
<1>5. CASE UNCHANGED vars
  BY <1>5, FramesTyped DEF TypeOK, vars
<1> QED
  BY <1>1, <1>2, <1>3, <1>4, <1>5 DEF Next

(* Every variable always has its type, and the report channel holds at most   *)
(* one event. *)
THEOREM TypeCorrect == Spec => []TypeOK
  BY InitTyped, NextTyped, PTL DEF Spec

-----------------------------------------------------------------------------
(* The generations keep the machine's actions apart: OneActionPerGeneration.  *)
(* The property is inductive beside the types.  Most steps leave the tasks,   *)
(* timers and inner events alone, drop some of them or request a state; one   *)
(* lemma covers all of those, and only the start of an action and its end     *)
(* need their own.                                                            *)

(* The stream of inner events *)

(* What is on the stream after the step was on it before, in the same order:  *)
(* nothing was reported as applied in this step.                              *)
NothingApplied ==
    \E shift \in {0, 1} :
        \A i \in 1..Len(queue'["inner"]) :
            AppliedAt(i)' =>
                /\ AppliedAt(i + shift)
                /\ queue["inner"][i + shift].gen = queue'["inner"][i].gen

(* Inner events have a stream of their own. *)
LEMMA InnerLane ==
    /\ "inner" \in Lanes
    /\ Lane("StateRequested") = "inner" /\ Lane("ActionApplied") = "inner"
    /\ \A type \in EventTypes \ {"StateRequested", "ActionApplied"} :
          Lane(type) # "inner"
BY DEF Lanes, Lane, EventTypes, DevToolsTypes

(* Sending another event leaves the stream alone. *)
LEMMA SentElsewhere ==
    ASSUME NEW q \in Queues, NEW e, Lane(e.type) # "inner"
    PROVE  Sent(q, e)["inner"] = q["inner"]
BY InnerLane DEF Sent, Queues

(* So does taking one. *)
LEMMA TakenElsewhere ==
    ASSUME queue \in Queues,
           NEW type \in EventTypes \ {"StateRequested", "ActionApplied"}
    PROVE  Rest(type)["inner"] = queue["inner"]
BY InnerLane DEF Rest, Taken, Queues

(* A stream that stays as it is reports nothing as applied ... *)
LEMMA InnerKept ==
    ASSUME queue'["inner"] = queue["inner"]
    PROVE  NothingApplied
<1>1. \A i \in 1..Len(queue'["inner"]) :
         AppliedAt(i)' =>
            /\ AppliedAt(i + 0)
            /\ queue["inner"][i + 0].gen = queue'["inner"][i].gen
  BY DEF AppliedAt
<1> QED
  BY <1>1 DEF NothingApplied

(* ... nor does one whose head is taken ... *)
LEMMA InnerTaken ==
    ASSUME queue \in Queues, NEW type \in {"StateRequested", "ActionApplied"},
           Takes(type), queue' = Rest(type)
    PROVE  NothingApplied
<1>1. /\ queue["inner"] \in Seq(Events) /\ queue["inner"] # <<>>
      /\ queue'["inner"] = Tail(queue["inner"])
  BY InnerLane DEF Takes, Rest, Taken, Queues
<1>2. /\ Len(queue'["inner"]) = Len(queue["inner"]) - 1
      /\ Len(queue["inner"]) \in Nat
      /\ \A i \in 1..Len(queue'["inner"]) :
            queue'["inner"][i] = queue["inner"][i + 1]
  BY <1>1, HeadTailProperties, LenProperties
<1>3. \A i \in 1..Len(queue'["inner"]) :
         AppliedAt(i)' =>
            /\ AppliedAt(i + 1)
            /\ queue["inner"][i + 1].gen = queue'["inner"][i].gen
  BY <1>2 DEF AppliedAt
<1> QED
  BY <1>3 DEF NothingApplied

(* ... or one on which a state is requested. *)
LEMMA InnerRequested ==
    ASSUME NEW q \in Queues, q["inner"] = queue["inner"], NEW g \in Nat,
           queue' = Sent(q, StateRequested(g))
    PROVE  NothingApplied
<1>1. /\ q["inner"] \in Seq(Events)
      /\ queue'["inner"] = Append(q["inner"], StateRequested(g))
  BY InnerLane DEF Sent, StateRequested, Queues
<1>2. \A i \in 1..Len(queue'["inner"]) :
         \/ i = Len(queue["inner"]) + 1 /\ queue'["inner"][i] = StateRequested(g)
         \/ /\ i \in 1..Len(queue["inner"])
            /\ queue'["inner"][i] = queue["inner"][i]
  BY <1>1, AppendProperties, LenProperties, EventsTyped
<1>3. \A i \in 1..Len(queue'["inner"]) :
         AppliedAt(i)' =>
            /\ AppliedAt(i + 0)
            /\ queue["inner"][i + 0].gen = queue'["inner"][i].gen
  BY <1>2 DEF AppliedAt, StateRequested
<1> QED
  BY <1>3 DEF NothingApplied

-----------------------------------------------------------------------------
(* The steps that start and end no action *)

(* No task or timer starts, nothing is reported as applied, generations do    *)
(* not run backwards, and Paused and Resuming are entered from one another or *)
(* with a new generation.                                                     *)
Quiet ==
    /\ NothingApplied
    /\ applying' \subseteq applying /\ timers' \subseteq timers
    /\ generation' \in Nat /\ generation' >= generation
    /\ kind' \in {"Paused", "Resuming"} =>
          \/ kind \in {"Paused", "Resuming"} /\ generation' = generation
          \/ generation' > generation

(* A quiet step keeps the generations apart. *)
LEMMA QuietKeeps ==
    ASSUME TypeOK, OneActionPerGeneration, Quiet
    PROVE  OneActionPerGeneration'
<1>1. PICK shift \in {0, 1} :
         \A i \in 1..Len(queue'["inner"]) :
            AppliedAt(i)' =>
                /\ AppliedAt(i + shift)
                /\ queue["inner"][i + shift].gen = queue'["inner"][i].gen
  BY DEF Quiet, NothingApplied
<1>2. \A i : AppliedAt(i) => i \in 1..Len(queue["inner"])
  BY DEF AppliedAt
<1>3. \A i \in 1..Len(queue["inner"]) :
         AppliedAt(i) => queue["inner"][i].gen \in Nat
  BY InnerLane, EventFields, ElementOfSeq DEF AppliedAt, TypeOK
<1>4. /\ generation \in Nat /\ generation' \in Nat
      /\ \A t \in applying : t.gen \in Nat
      /\ \A g \in timers : g \in Nat
  BY DEF Quiet, TypeOK, StateTyped, TasksTyped
<1>5. /\ \A t \in applying' : t.gen <= generation'
      /\ \A g \in timers' : g <= generation'
      /\ \A s, t \in applying' : s.gen = t.gen => s = t
  BY <1>4 DEF Quiet, OneActionPerGeneration
<1>6. \A i \in 1..Len(queue'["inner"]) :
         AppliedAt(i)' => queue'["inner"][i].gen <= generation'
  BY <1>1, <1>2, <1>3, <1>4 DEF Quiet, OneActionPerGeneration
<1>7. \A i, j \in 1..Len(queue'["inner"]) :
         /\ AppliedAt(i)' /\ AppliedAt(j)'
         /\ queue'["inner"][i].gen = queue'["inner"][j].gen
         => i = j
  BY <1>1, <1>2 DEF OneActionPerGeneration
<1>8. \A t \in applying', i \in 1..Len(queue'["inner"]) :
         AppliedAt(i)' => queue'["inner"][i].gen # t.gen
  BY <1>1, <1>2 DEF Quiet, OneActionPerGeneration
<1>9. ASSUME kind' \in {"Paused", "Resuming"}
      PROVE  /\ \A t \in applying' : t.gen # generation'
             /\ \A i \in 1..Len(queue'["inner"]) :
                   AppliedAt(i)' => queue'["inner"][i].gen # generation'
             /\ generation' \notin timers'
  <2>1. CASE kind \in {"Paused", "Resuming"} /\ generation' = generation
    <3>1. /\ \A t \in applying : t.gen # generation
          /\ \A i \in 1..Len(queue["inner"]) :
                AppliedAt(i) => queue["inner"][i].gen # generation
          /\ generation \notin timers
      BY <2>1 DEF OneActionPerGeneration
    <3> QED
      BY <1>1, <1>2, <2>1, <3>1 DEF Quiet
  <2>2. CASE generation' > generation
    <3>1. /\ \A t \in applying : t.gen <= generation
          /\ \A g \in timers : g <= generation
          /\ \A i \in 1..Len(queue["inner"]) :
                AppliedAt(i) => queue["inner"][i].gen <= generation
      BY DEF OneActionPerGeneration
    <3>2. /\ \A t \in applying' : t.gen # generation'
          /\ generation' \notin timers'
      BY <1>4, <2>2, <3>1 DEF Quiet
    <3>3. \A i \in 1..Len(queue'["inner"]) :
             AppliedAt(i)' => queue'["inner"][i].gen # generation'
      BY <1>1, <1>2, <1>3, <1>4, <2>2, <3>1
    <3> QED
      BY <3>2, <3>3
  <2> QED
    BY <1>9, <2>1, <2>2 DEF Quiet
<1> QED
  BY <1>5, <1>6, <1>7, <1>8, <1>9 DEF OneActionPerGeneration

-----------------------------------------------------------------------------
(* One lemma per action that is quiet *)

(* What the machine takes apart from inner events. *)
LEMMA TakenOtherwise ==
    ASSUME TypeOK, NEW type \in EventTypes \ {"StateRequested", "ActionApplied"},
           Takes(type)
    PROVE  /\ Rest(type) \in Queues
           /\ Rest(type)["inner"] = queue["inner"]
BY TakenTyped, TakenElsewhere DEF TypeOK, Queues

(* Taking such an event, and then at most requesting a state or telling the   *)
(* machine of its own resume, reports nothing as applied.                     *)
LEMMA TakenQuietly ==
    ASSUME TypeOK, NEW type \in EventTypes \ {"StateRequested", "ActionApplied"},
           Takes(type), NEW g \in Nat,
           queue' \in {Rest(type), Sent(Rest(type), StateRequested(g)),
                       Sent(Rest(type), Resumed)}
    PROVE  NothingApplied
<1>1. CASE queue' = Rest(type)
  BY <1>1, TakenOtherwise, InnerKept
<1>2. CASE queue' = Sent(Rest(type), StateRequested(g))
  BY <1>2, TakenOtherwise, InnerRequested
<1>3. CASE queue' = Sent(Rest(type), Resumed)
  <2>1. Lane(Resumed.type) # "inner"
    BY InnerLane DEF Resumed, EventTypes, DevToolsTypes
  <2> QED
    BY <1>3, <2>1, TakenOtherwise, SentElsewhere, InnerKept
<1> QED
  BY <1>1, <1>2, <1>3

(* A step that does not touch what the generations are about is quiet. *)
Untouched == UNCHANGED <<applying, timers, generation>>

(* Only a step that enters Paused or Resuming needs another reason. *)
LEMMA UntouchedQuiet ==
    ASSUME TypeOK, NothingApplied, Untouched,
           kind' = kind \/ kind' \notin {"Paused", "Resuming"}
    PROVE  Quiet
BY DEF Quiet, Untouched, TypeOK, StateTyped

(* Taking an inner event is quiet. *)
LEMMA InnerEventsQuiet ==
    ASSUME TypeOK, HandleStateRequested \/ HandleActionApplied
    PROVE  Quiet
<1>1. NothingApplied
  BY InnerTaken DEF HandleStateRequested, HandleActionApplied, TypeOK, Queues
<1>2. Untouched /\ (kind' = kind \/ kind' \notin {"Paused", "Resuming"})
  BY DEF HandleStateRequested, HandleActionApplied, BeginCapture, Untouched,
         stateVars, taskVars
<1> QED
  BY <1>1, <1>2, UntouchedQuiet

(* So is every handler of another event that starts no action. *)
LEMMA HandlersQuiet ==
    ASSUME TypeOK,
           \/ HandlePausedFrameless \/ HandlePaused \/ PausedFails
           \/ HandleActionAccepted \/ ResumeFails \/ HandleLoaded
           \/ HandleFrameRequestedNavigation \/ HandleDownloadWillBegin
           \/ HandleConsoleEntry \/ HandleExceptionThrown
           \/ HandleFrameNavigated \/ HandleTargetDestroyed
           \/ UnhandledTransition
    PROVE  Quiet
<1> USE DEF EventTypes, DevToolsTypes
<1>1. generation \in Nat
  BY DEF TypeOK, StateTyped
<1>2. CASE HandlePausedFrameless
  <2>1. NothingApplied
    BY <1>1, <1>2, TakenQuietly DEF HandlePausedFrameless
  <2>2. /\ Untouched
        /\ kind' = kind \/ kind' \notin {"Paused", "Resuming"}
    BY <1>2 DEF HandlePausedFrameless, Untouched, BeginCapture
  <2> QED
    BY <2>1, <2>2, UntouchedQuiet
<1>3. CASE HandlePaused
  <2>1. NothingApplied
    BY <1>1, <1>3, TakenQuietly DEF HandlePaused
  <2>2. /\ UNCHANGED <<applying, timers>>
        /\ generation' \in Nat /\ generation' > generation
    BY <1>1, <1>3 DEF HandlePaused, NextGeneration
  <2> QED
    BY <1>1, <2>1, <2>2 DEF Quiet
<1>4. CASE PausedFails
  <2>1. NothingApplied
    BY <1>1, <1>4, TakenQuietly DEF PausedFails
  <2>2. /\ Untouched
        /\ kind' = kind \/ kind' \notin {"Paused", "Resuming"}
    BY <1>4 DEF PausedFails, Untouched, Fail, stateVars
  <2> QED
    BY <2>1, <2>2, UntouchedQuiet
<1>5. CASE HandleActionAccepted
  <2>1. NothingApplied
    BY <1>1, <1>5, TakenQuietly DEF HandleActionAccepted
  <2>2. /\ Untouched
        /\ kind' = kind \/ kind = "Paused"
    BY <1>5 DEF HandleActionAccepted, Untouched, taskVars
  <2> QED
    BY <1>1, <2>1, <2>2 DEF Quiet, Untouched
<1>6. CASE ResumeFails
  <2>1. NothingApplied
    BY <1>1, <1>6, TakenQuietly DEF ResumeFails
  <2>2. /\ Untouched
        /\ kind' = kind \/ kind' \notin {"Paused", "Resuming"}
    BY <1>6 DEF ResumeFails, Untouched, Fail, stateVars
  <2> QED
    BY <2>1, <2>2, UntouchedQuiet
<1>7. CASE HandleLoaded
  <2>1. NothingApplied
    BY <1>1, <1>7, TakenQuietly DEF HandleLoaded
  <2>2. /\ Untouched
        /\ kind' = kind \/ kind' \notin {"Paused", "Resuming"}
    BY <1>7 DEF HandleLoaded, Untouched, taskVars
  <2> QED
    BY <2>1, <2>2, UntouchedQuiet
<1>8. CASE HandleFrameRequestedNavigation
  <2>1. NothingApplied
    BY <1>1, <1>8, TakenQuietly DEF HandleFrameRequestedNavigation
  <2>2. /\ Untouched
        /\ kind' = kind \/ kind' \notin {"Paused", "Resuming"}
    BY <1>8 DEF HandleFrameRequestedNavigation, Untouched, taskVars
  <2> QED
    BY <2>1, <2>2, UntouchedQuiet
<1>9. CASE HandleDownloadWillBegin
  <2>1. NothingApplied
    BY <1>1, <1>9, TakenQuietly DEF HandleDownloadWillBegin
  <2>2. /\ Untouched
        /\ kind' = kind \/ kind' \notin {"Paused", "Resuming"}
    BY <1>9 DEF HandleDownloadWillBegin, Untouched, taskVars
  <2> QED
    BY <2>1, <2>2, UntouchedQuiet
<1>10. CASE HandleConsoleEntry
  <2>1. NothingApplied
    BY <1>1, <1>10, TakenQuietly DEF HandleConsoleEntry
  <2>2. /\ Untouched
        /\ kind' = kind \/ kind' \notin {"Paused", "Resuming"}
    BY <1>10 DEF HandleConsoleEntry, Untouched, taskVars
  <2> QED
    BY <2>1, <2>2, UntouchedQuiet
<1>11. CASE HandleExceptionThrown
  <2>1. NothingApplied
    BY <1>1, <1>11, TakenQuietly DEF HandleExceptionThrown
  <2>2. /\ Untouched
        /\ kind' = kind \/ kind' \notin {"Paused", "Resuming"}
    BY <1>11 DEF HandleExceptionThrown, Untouched, BeginCapture, taskVars
  <2> QED
    BY <2>1, <2>2, UntouchedQuiet
<1>12. CASE HandleFrameNavigated
  <2>1. NothingApplied
    BY <1>1, <1>12, TakenQuietly DEF HandleFrameNavigated
  <2>2. /\ Untouched
        /\ kind' = kind \/ kind' \notin {"Paused", "Resuming"}
    BY <1>12 DEF HandleFrameNavigated, Untouched, taskVars
  <2> QED
    BY <2>1, <2>2, UntouchedQuiet
<1>13. CASE HandleTargetDestroyed
  <2>1. NothingApplied
    BY <1>1, <1>13, TakenQuietly DEF HandleTargetDestroyed
  <2>2. /\ Untouched
        /\ kind' = kind \/ kind' \notin {"Paused", "Resuming"}
    BY <1>13 DEF HandleTargetDestroyed, Untouched, Fail, stateVars, taskVars
  <2> QED
    BY <2>1, <2>2, UntouchedQuiet
<1>14. CASE UnhandledTransition
  <2>1. NothingApplied
    BY <1>1, <1>14, TakenQuietly DEF UnhandledTransition
  <2>2. Untouched /\ kind' = kind
    BY <1>14 DEF UnhandledTransition, Untouched, Fail, stateVars
  <2> QED
    BY <2>1, <2>2, UntouchedQuiet
<1> QED
  BY <1>2, <1>3, <1>4, <1>5, <1>6, <1>7, <1>8, <1>9, <1>10, <1>11, <1>12,
       <1>13, <1>14

(* So are the rest of the machine's steps, its watchdogs and its timeouts. *)
LEMMA TasksQuiet ==
    ASSUME TypeOK,
           \/ FinishCapture \/ SkipCapture \/ CallFails \/ CallHangs
           \/ Shutdown \/ TimeoutFires \/ WatchdogFires
    PROVE  Quiet
<1> USE DEF EventTypes, DevToolsTypes
<1>1. generation \in Nat
  BY DEF TypeOK, StateTyped
<1>2. CASE FinishCapture
  <2>1. NothingApplied
    BY <1>2, InnerKept DEF FinishCapture
  <2>2. /\ UNCHANGED <<applying, timers>>
        /\ generation' \in Nat /\ generation' > generation
    BY <1>1, <1>2 DEF FinishCapture, NextGeneration
  <2> QED
    BY <1>1, <2>1, <2>2 DEF Quiet
<1>3. CASE SkipCapture \/ Shutdown
  BY <1>3, InnerKept, UntouchedQuiet
     DEF SkipCapture, Shutdown, Untouched, stateVars
<1>4. CASE CallFails
  <2>1. NothingApplied
    <3>1. CASE queue' = queue
      BY <3>1, InnerKept
    <3>2. CASE \E type \in {"Paused", "FrameNavigated", "ActionAccepted",
                            "ExceptionThrown"} :
                  Takes(type) /\ queue' = Rest(type)
      BY <1>1, <3>2, TakenQuietly
    <3>3. CASE Takes("StateRequested") /\ queue' = Rest("StateRequested")
      BY <3>3, InnerTaken DEF TypeOK, Queues
    <3> QED
      BY <1>4, <3>1, <3>2, <3>3 DEF CallFails
  <2>2. Untouched /\ kind' = kind
    BY <1>4 DEF CallFails, Untouched, Fail, stateVars
  <2> QED
    BY <2>1, <2>2, UntouchedQuiet
<1>5. CASE CallHangs
  <2>1. NothingApplied
    <3>1. CASE \E type \in {"Paused", "FrameNavigated", "ActionAccepted",
                            "ExceptionThrown"} :
                  Takes(type) /\ queue' = Rest(type)
      BY <1>1, <3>1, TakenQuietly
    <3>2. CASE Takes("StateRequested") /\ queue' = Rest("StateRequested")
      BY <3>2, InnerTaken DEF TypeOK, Queues
    <3> QED
      BY <1>5, <3>1, <3>2 DEF CallHangs
  <2>2. Untouched /\ kind' = kind
    BY <1>5 DEF CallHangs, Untouched, stateVars
  <2> QED
    BY <2>1, <2>2, UntouchedQuiet
<1>6. CASE TimeoutFires \/ WatchdogFires
  <2>1. \E g \in Nat : queue' = Sent(queue, StateRequested(g))
    BY <1>6 DEF TimeoutFires, WatchdogFires, TypeOK, TasksTyped
  <2>2. NothingApplied
    BY <2>1, InnerRequested DEF TypeOK, Queues
  <2>3. /\ applying' \subseteq applying /\ timers' \subseteq timers
        /\ UNCHANGED <<kind, generation>>
    BY <1>6 DEF TimeoutFires, WatchdogFires, stateVars
  <2> QED
    BY <1>1, <2>2, <2>3 DEF Quiet
<1> QED
  BY <1>2, <1>3, <1>4, <1>5, <1>6

(* So is whatever the caller does ... *)
LEMMA CallerQuiet ==
    ASSUME TypeOK, Caller
    PROVE  Quiet
<1>1. queue'["inner"] = queue["inner"]
  BY InnerLane DEF Caller, NextEvent, Apply, GiveUp, CloseBrowser, AwaitDone,
                   TypeOK
<1>2. UNCHANGED <<stateVars, taskVars>>
  BY DEF Caller, NextEvent, Apply, GiveUp, CloseBrowser, AwaitDone
<1> QED
  BY <1>1, <1>2, InnerKept, UntouchedQuiet
     DEF Untouched, stateVars, taskVars

(* ... and whatever the page does. *)
LEMMA PageQuiet ==
    ASSUME TypeOK, Page
    PROVE  Quiet
<1>1. UNCHANGED <<stateVars, taskVars>>
  BY DEF Page, PageNavigates, ActionNavigates, Navigate, Commit, Restore,
         Download, Abort, Load, Throw, Log, SubframeNavigates, DestroyTarget,
         OwnBreak, OutsideResume, HitBreak, DropBreak, PageFrame
<1>2. ASSUME NEW q \in Queues, NEW e \in Events, e.type \in DevToolsTypes
      PROVE  Sent(q, e) \in Queues /\ Sent(q, e)["inner"] = q["inner"]
  BY <1>2, SentTyped, SentElsewhere, InnerLane DEF EventTypes, DevToolsTypes
<1>3. queue \in Queues
  BY DEF TypeOK, Queues
<1>4. queue'["inner"] = queue["inner"]
  <2>1. CASE ActionNavigates \/ Abort \/ DropBreak
    BY <2>1 DEF ActionNavigates, Abort, DropBreak
  <2>2. CASE PageNavigates
    BY <1>2, <1>3, <2>2, EventsTyped
       DEF PageNavigates, FrameRequestedNavigation, Frames, DevToolsTypes
  <2>3. CASE Commit \/ Restore
    BY <1>2, <1>3, <2>3, EventsTyped
       DEF Commit, Restore, FrameNavigated, Frames, DevToolsTypes
  <2>4. CASE Download
    BY <1>2, <1>3, <2>4, EventsTyped
       DEF Download, DownloadWillBegin, TypeOK, PageTyped, DevToolsTypes
  <2>5. CASE Load \/ OutsideResume
    BY <1>2, <1>3, <2>5, EventsTyped
       DEF Load, OutsideResume, Loaded, Resumed, DevToolsTypes
  <2>6. CASE Throw \/ Log
    <3>1. used'["throws"] \in Nat /\ used'["logs"] \in Nat
      BY <2>6, SpendTyped DEF Throw, Log, Bounds, TypeOK
    <3>2. \A n \in Nat : /\ Sent(queue, ExceptionThrown(n))["inner"]
                             = queue["inner"]
                         /\ Sent(queue, ConsoleEntry(n))["inner"]
                             = queue["inner"]
      BY <1>2, <1>3, EventsTyped
         DEF ExceptionThrown, ConsoleEntry, DevToolsTypes
    <3> QED
      BY <2>6, <3>1, <3>2 DEF Throw, Log
  <2>7. CASE SubframeNavigates
    <3> DEFINE requested == FrameRequestedNavigation("sub", "page")
    <3> DEFINE navigated == FrameNavigated("sub", "load")
    <3>1. /\ requested \in Events /\ requested.type \in DevToolsTypes
          /\ navigated \in Events /\ navigated.type \in DevToolsTypes
      BY EventsTyped DEF FrameRequestedNavigation, FrameNavigated, Frames,
                         Urls, DevToolsTypes
    <3>2. queue' = Sent(Sent(queue, requested), navigated)
      BY <2>7 DEF SubframeNavigates
    <3> HIDE DEF requested, navigated
    <3> QED
      BY <1>2, <1>3, <3>1, <3>2
  <2>8. CASE DestroyTarget
    BY <1>2, <1>3, <2>8, EventsTyped
       DEF DestroyTarget, TargetDestroyed, DevToolsTypes
  <2>9. CASE OwnBreak \/ HitBreak
    <3>1. \A reason \in {"other", "exception"}, framed \in BOOLEAN :
             Sent(queue, Paused(reason, framed))["inner"] = queue["inner"]
      BY <1>2, <1>3, EventsTyped DEF Paused, DevToolsTypes
    <3>2. \E reason \in {"other", "exception"}, framed \in BOOLEAN :
             queue' = Sent(queue, Paused(reason, framed))
      BY <2>9, ConstantsAssumption DEF OwnBreak, HitBreak
    <3> QED
      BY <3>1, <3>2
  <2> QED
    BY <2>1, <2>2, <2>3, <2>4, <2>5, <2>6, <2>7, <2>8, <2>9 DEF Page, Navigate
<1> QED
  BY <1>1, <1>4, InnerKept, UntouchedQuiet DEF Untouched, stateVars, taskVars

-----------------------------------------------------------------------------
(* The two steps that are not *)

(* From Resuming an action starts: nothing else is of its generation. *)
LEMMA ResumedKeeps ==
    ASSUME TypeOK, OneActionPerGeneration, HandleResumed
    PROVE  OneActionPerGeneration'
<1>1. NothingApplied
  <2>1. generation \in Nat
    BY DEF TypeOK, StateTyped
  <2> QED
    BY <2>1, TakenQuietly DEF HandleResumed, EventTypes, DevToolsTypes
<1>2. CASE kind # "Resuming"
  <2>1. Untouched /\ kind' = kind
    BY <1>2 DEF HandleResumed, Untouched
  <2> QED
    BY <1>1, <2>1, UntouchedQuiet, QuietKeeps
<1>3. CASE kind = "Resuming"
  <2> DEFINE task == [gen |-> generation, action |-> accepted]
  <2>1. /\ applying' = applying \cup {task}
        /\ timers' = timers \cup {generation}
        /\ kind' = "Acting" /\ generation' = generation
    BY <1>3 DEF HandleResumed, ResumedIgnored
  <2>2. queue'["inner"] = queue["inner"]
    BY TakenOtherwise DEF HandleResumed, EventTypes, DevToolsTypes
  <2>3. /\ \A t \in applying : t.gen # generation
        /\ \A i \in 1..Len(queue["inner"]) :
              AppliedAt(i) => queue["inner"][i].gen # generation
    BY <1>3 DEF OneActionPerGeneration
  <2>4. generation \in Nat
    BY DEF TypeOK, StateTyped
  <2>5. \A i : AppliedAt(i)' <=> AppliedAt(i)
    BY <2>2 DEF AppliedAt
  <2>6. /\ \A t \in applying' : t.gen <= generation'
        /\ \A g \in timers' : g <= generation'
        /\ \A s, t \in applying' : s.gen = t.gen => s = t
    BY <2>1, <2>3, <2>4 DEF OneActionPerGeneration
  <2>7. /\ \A i \in 1..Len(queue'["inner"]) :
              AppliedAt(i)' => queue'["inner"][i].gen <= generation'
        /\ \A i, j \in 1..Len(queue'["inner"]) :
              /\ AppliedAt(i)' /\ AppliedAt(j)'
              /\ queue'["inner"][i].gen = queue'["inner"][j].gen
              => i = j
    BY <2>1, <2>2, <2>5 DEF OneActionPerGeneration
  <2>8. \A t \in applying', i \in 1..Len(queue'["inner"]) :
           AppliedAt(i)' => queue'["inner"][i].gen # t.gen
    BY <2>1, <2>2, <2>3, <2>5 DEF OneActionPerGeneration
  <2> QED
    BY <2>1, <2>6, <2>7, <2>8 DEF OneActionPerGeneration
<1> QED
  BY <1>2, <1>3

(* An action ends: its task is gone when its inner event is sent. *)
LEMMA AppliedKeeps ==
    ASSUME TypeOK, OneActionPerGeneration, ApplyFinishes
    PROVE  OneActionPerGeneration'
<1>1. PICK task \in applying :
         /\ applying' = applying \ {task}
         /\ queue' = Sent(queue, ActionApplied(task.gen))
  BY DEF ApplyFinishes
<1>2. UNCHANGED <<kind, generation, timers>>
  BY DEF ApplyFinishes, stateVars
<1>3. /\ task.gen \in Nat /\ ActionApplied(task.gen) \in Events
      /\ queue \in Queues /\ queue["inner"] \in Seq(Events)
      /\ Len(queue["inner"]) \in Nat
  BY EventsTyped, InnerLane, LenProperties DEF TypeOK, TasksTyped, Queues
<1>4. queue'["inner"] = Append(queue["inner"], ActionApplied(task.gen))
  BY <1>1, <1>3, InnerLane DEF Sent, ActionApplied, Queues
<1>5. /\ Len(queue'["inner"]) = Len(queue["inner"]) + 1
      /\ queue'["inner"][Len(queue["inner"]) + 1] = ActionApplied(task.gen)
      /\ \A i \in 1..Len(queue["inner"]) :
            queue'["inner"][i] = queue["inner"][i]
  BY <1>3, <1>4, AppendProperties
<1>6. \A i \in 1..Len(queue'["inner"]) :
         \/ /\ i = Len(queue["inner"]) + 1
            /\ queue'["inner"][i].gen = task.gen
         \/ /\ i \in 1..Len(queue["inner"])
            /\ queue'["inner"][i].gen = queue["inner"][i].gen
            /\ AppliedAt(i)' => AppliedAt(i)
  BY <1>3, <1>5 DEF AppliedAt, ActionApplied
<1>7. /\ \A t \in applying : t.gen <= generation
      /\ \A t \in applying : t.gen = task.gen => t = task
      /\ \A i \in 1..Len(queue["inner"]) :
            AppliedAt(i) => /\ queue["inner"][i].gen <= generation
                            /\ queue["inner"][i].gen # task.gen
  BY DEF OneActionPerGeneration
<1>8. \A i \in 1..Len(queue'["inner"]) :
         AppliedAt(i)' => queue'["inner"][i].gen <= generation'
  BY <1>2, <1>6, <1>7
<1>9. \A i, j \in 1..Len(queue'["inner"]) :
         /\ AppliedAt(i)' /\ AppliedAt(j)'
         /\ queue'["inner"][i].gen = queue'["inner"][j].gen
         => i = j
  <2>1. \A i, j \in 1..Len(queue["inner"]) :
           /\ AppliedAt(i) /\ AppliedAt(j)
           /\ queue["inner"][i].gen = queue["inner"][j].gen
           => i = j
    BY DEF OneActionPerGeneration
  <2> QED
    BY <1>6, <1>7, <2>1
<1>10. \A t \in applying', i \in 1..Len(queue'["inner"]) :
          AppliedAt(i)' => queue'["inner"][i].gen # t.gen
  <2>1. \A t \in applying, i \in 1..Len(queue["inner"]) :
           AppliedAt(i) => queue["inner"][i].gen # t.gen
    BY DEF OneActionPerGeneration
  <2> QED
    BY <1>1, <1>6, <1>7, <2>1
<1>11. ASSUME kind' \in {"Paused", "Resuming"}
       PROVE  /\ \A t \in applying' : t.gen # generation'
              /\ \A i \in 1..Len(queue'["inner"]) :
                    AppliedAt(i)' => queue'["inner"][i].gen # generation'
              /\ generation' \notin timers'
  <2>1. /\ \A t \in applying : t.gen # generation
        /\ \A i \in 1..Len(queue["inner"]) :
              AppliedAt(i) => queue["inner"][i].gen # generation
        /\ generation \notin timers
    BY <1>2, <1>11 DEF OneActionPerGeneration
  <2> QED
    BY <1>1, <1>2, <1>6, <2>1
<1>12. /\ \A t \in applying' : t.gen <= generation'
       /\ \A g \in timers' : g <= generation'
       /\ \A s, t \in applying' : s.gen = t.gen => s = t
  BY <1>1, <1>2 DEF OneActionPerGeneration
<1> QED
  BY <1>8, <1>9, <1>10, <1>11, <1>12 DEF OneActionPerGeneration

-----------------------------------------------------------------------------
(* At the start nothing is under way. *)
LEMMA InitGenerations == Init => OneActionPerGeneration
<1> SUFFICES ASSUME Init PROVE OneActionPerGeneration
  OBVIOUS
<1>1. \A i : ~AppliedAt(i)
  <2> DEFINE empty == [lane \in Lanes |-> <<>>]
  <2>1. empty \in Queues
    BY DEF Queues
  <2>2. queue = empty \/ queue = Sent(empty, StateRequested(0))
    BY DEF Init
  <2>3. queue["inner"] = <<>> \/ queue["inner"] = <<StateRequested(0)>>
    BY <2>2, InnerLane DEF Sent, StateRequested
  <2> QED
    BY <2>3 DEF AppliedAt, StateRequested
<1>2. applying = {} /\ timers = {} /\ kind = "Running"
  BY DEF Init
<1> QED
  BY <1>1, <1>2 DEF OneActionPerGeneration

(* Every step keeps the generations apart. *)
LEMMA NextGenerations ==
    TypeOK /\ OneActionPerGeneration /\ [Next]_vars => OneActionPerGeneration'
<1> SUFFICES ASSUME TypeOK, OneActionPerGeneration, [Next]_vars
             PROVE  OneActionPerGeneration'
  OBVIOUS
<1>1. CASE Handle
  BY <1>1, InnerEventsQuiet, HandlersQuiet, QuietKeeps, ResumedKeeps DEF Handle
<1>2. CASE FinishCapture \/ SkipCapture \/ CallFails \/ CallHangs \/ Shutdown
           \/ Timers
  BY <1>2, TasksQuiet, QuietKeeps DEF Timers
<1>3. CASE ApplyFinishes
  BY <1>3, AppliedKeeps
<1>4. CASE Caller
  BY <1>4, CallerQuiet, QuietKeeps
<1>5. CASE Page
  BY <1>5, PageQuiet, QuietKeeps
<1>6. CASE UNCHANGED vars
  <2>1. Untouched /\ kind' = kind /\ queue' = queue
    BY <1>6 DEF vars, Untouched, stateVars, taskVars
  <2> QED
    BY <2>1, InnerKept, UntouchedQuiet, QuietKeeps
<1> QED
  BY <1>1, <1>2, <1>3, <1>4, <1>5, <1>6 DEF Next, Machine

(* An ActionApplied or a timeout of an earlier action never ends a later one: *)
(* OneActionPerGeneration is an invariant of the machine.                     *)
THEOREM GenerationsApart == Spec => []OneActionPerGeneration
<1>1. Init => OneActionPerGeneration
  BY InitGenerations
<1>2. TypeOK /\ OneActionPerGeneration /\ [Next]_vars => OneActionPerGeneration'
  BY NextGenerations
<1> QED
  BY <1>1, <1>2, TypeCorrect, PTL DEF Spec

-----------------------------------------------------------------------------
(* What becomes of the events on the streams, and with it that exceptions are *)
(* reported exactly once and console entries at most once.  A step leaves the *)
(* events of a type as they are, takes the first of them or sends one more;   *)
(* lemmas say which, for every action, and the properties follow from them.   *)

(* The events of one type on a queue *)

At(q, type) == {i \in DOMAIN q[Lane(type)] : q[Lane(type)][i].type = type}

(* The events of a type are the same on both queues, in the same order.       *)
Same(type, q, r) ==
    \E shift \in Int :
        /\ \A i \in At(r, type) : /\ i + shift \in At(q, type)
                                  /\ q[Lane(type)][i + shift] = r[Lane(type)][i]
        /\ \A i \in At(q, type) : i - shift \in At(r, type)

(* The undelivered events of the queue as it is. *)
LEMMA UndeliveredAt == \A type : Undelivered(type) = At(queue, type)
BY DEF Undelivered, At

(* They are positions on a stream of events. *)
LEMMA PositionsTyped ==
    ASSUME NEW q \in Queues, NEW type \in EventTypes
    PROVE  /\ q[Lane(type)] \in Seq(Events)
           /\ At(q, type) \subseteq 1..Len(q[Lane(type)])
           /\ At(q, type) \subseteq Nat
           /\ \A i \in At(q, type) : /\ q[Lane(type)][i] \in Events
                                     /\ q[Lane(type)][i].type = type
<1>1. q[Lane(type)] \in Seq(Events)
  BY LaneOfType DEF Queues
<1>2. DOMAIN q[Lane(type)] = 1..Len(q[Lane(type)]) /\ Len(q[Lane(type)]) \in Nat
  BY <1>1, LenProperties
<1>3. \A i \in 1..Len(q[Lane(type)]) : q[Lane(type)][i] \in Events
  BY <1>1, ElementOfSeq
<1> QED
  BY <1>1, <1>2, <1>3 DEF At

(* A queue carries the same events as itself. *)
LEMMA SameAgain ==
    ASSUME NEW q \in Queues, NEW type \in EventTypes PROVE Same(type, q, q)
<1>1. At(q, type) \subseteq Nat
  BY PositionsTyped
<1>2. /\ \A i \in At(q, type) : /\ i + 0 \in At(q, type)
                                /\ q[Lane(type)][i + 0] = q[Lane(type)][i]
      /\ \A i \in At(q, type) : i - 0 \in At(q, type)
  BY <1>1
<1> QED
  BY <1>2 DEF Same

(* Carrying the same events is transitive. *)
LEMMA SameThrough ==
    ASSUME NEW type \in EventTypes, NEW q \in Queues, NEW r \in Queues,
           NEW s \in Queues, Same(type, q, r), Same(type, r, s)
    PROVE  Same(type, q, s)
<1>1. PICK m \in Int :
         /\ \A i \in At(r, type) : /\ i + m \in At(q, type)
                                   /\ q[Lane(type)][i + m] = r[Lane(type)][i]
         /\ \A i \in At(q, type) : i - m \in At(r, type)
  BY DEF Same
<1>2. PICK n \in Int :
         /\ \A i \in At(s, type) : /\ i + n \in At(r, type)
                                   /\ r[Lane(type)][i + n] = s[Lane(type)][i]
         /\ \A i \in At(r, type) : i - n \in At(s, type)
  BY DEF Same
<1>3. /\ At(q, type) \subseteq Nat /\ At(r, type) \subseteq Nat
      /\ At(s, type) \subseteq Nat
  BY PositionsTyped
<1>4. \A i \in At(s, type) : /\ i + (n + m) \in At(q, type)
                             /\ q[Lane(type)][i + (n + m)] = s[Lane(type)][i]
  <2> SUFFICES ASSUME NEW i \in At(s, type)
               PROVE  /\ i + (n + m) \in At(q, type)
                      /\ q[Lane(type)][i + (n + m)] = s[Lane(type)][i]
    OBVIOUS
  <2>1. i + (n + m) = (i + n) + m
    BY <1>3
  <2> QED
    BY <1>1, <1>2, <2>1
<1>5. \A i \in At(q, type) : i - (n + m) \in At(s, type)
  <2> SUFFICES ASSUME NEW i \in At(q, type) PROVE i - (n + m) \in At(s, type)
    OBVIOUS
  <2>1. i - (n + m) = (i - m) - n
    BY <1>3
  <2> QED
    BY <1>1, <1>2, <2>1
<1>6. n + m \in Int
  OBVIOUS
<1> QED
  BY <1>4, <1>5, <1>6 DEF Same

(* Sending an event of another type leaves them as they are ... *)
LEMMA SameSent ==
    ASSUME NEW q \in Queues, NEW type \in EventTypes,
           NEW e \in Events, e.type # type
    PROVE  Same(type, q, Sent(q, e))
<1> DEFINE r == Sent(q, e)
<1>1. q[Lane(type)] \in Seq(Events) /\ Lane(type) \in Lanes
  BY LaneOfType, PositionsTyped
<1>2. r[Lane(type)] = q[Lane(type)] \/ r[Lane(type)] = Append(q[Lane(type)], e)
  BY <1>1 DEF Sent, Queues
<1>3. At(r, type) = At(q, type)
      /\ \A i \in At(q, type) : r[Lane(type)][i] = q[Lane(type)][i]
  BY <1>1, <1>2, AppendProperties DEF At
<1>4. At(q, type) \subseteq Nat
  BY PositionsTyped
<1>5. /\ \A i \in At(r, type) : /\ i + 0 \in At(q, type)
                                /\ q[Lane(type)][i + 0] = r[Lane(type)][i]
      /\ \A i \in At(q, type) : i - 0 \in At(r, type)
  BY <1>3, <1>4
<1> QED
  BY <1>5 DEF Same

(* ... and so does taking one. *)
LEMMA SameTaken ==
    ASSUME TypeOK, NEW type \in EventTypes, NEW other \in EventTypes,
           other # type, Takes(other)
    PROVE  Same(type, queue, Rest(other))
<1> DEFINE q == queue[Lane(type)]
           r == Rest(other)[Lane(type)]
<1>1. queue \in Queues /\ Rest(other) \in Queues
  BY TakenTyped DEF TypeOK, Queues
<1>2. q \in Seq(Events) /\ Lane(type) \in Lanes
  BY <1>1, LaneOfType, PositionsTyped
<1>3. CASE Lane(other) # Lane(type)
  <2>1. r = q
    BY <1>1, <1>3 DEF Rest, Taken, Queues
  <2>2. /\ \A i \in At(Rest(other), type) :
              i + 0 \in At(queue, type) /\ q[i + 0] = r[i]
        /\ \A i \in At(queue, type) : i - 0 \in At(Rest(other), type)
    BY <1>1, <2>1, PositionsTyped DEF At
  <2> QED
    BY <2>2 DEF Same
<1>4. CASE Lane(other) = Lane(type)
  <2>1. q # <<>> /\ q[1].type # type /\ r = Tail(q)
    BY <1>1, <1>2, <1>4 DEF Takes, Rest, Taken, Queues
  <2>2. /\ Len(r) = Len(q) - 1 /\ Len(q) \in Nat /\ Len(r) \in Nat
        /\ DOMAIN q = 1..Len(q) /\ DOMAIN r = 1..Len(r)
        /\ \A i \in 1..Len(r) : r[i] = q[i + 1]
    BY <1>2, <2>1, HeadTailProperties, LenProperties
  <2>3. \A i \in At(Rest(other), type) :
           i + 1 \in At(queue, type) /\ q[i + 1] = r[i]
    BY <2>2 DEF At
  <2>4. \A i \in At(queue, type) : i - 1 \in At(Rest(other), type)
    BY <2>1, <2>2 DEF At
  <2> QED
    BY <2>3, <2>4 DEF Same
<1> QED
  BY <1>3, <1>4

(* The first event of a type is the one taken; those after it stay. *)
LEMMA FirstTaken ==
    ASSUME TypeOK, NEW type \in EventTypes, Takes(type)
    PROVE  /\ 1 \in At(queue, type) /\ queue[Lane(type)][1] = Event(type)
           /\ \A i \in At(Rest(type), type) :
                 /\ i + 1 \in At(queue, type)
                 /\ queue[Lane(type)][i + 1] = Rest(type)[Lane(type)][i]
           /\ \A i \in At(queue, type) : i # 1 => i - 1 \in At(Rest(type), type)
<1> DEFINE q == queue[Lane(type)]
           r == Rest(type)[Lane(type)]
<1>1. q \in Seq(Events) /\ Lane(type) \in Lanes /\ queue \in Queues
  BY LaneOfType, PositionsTyped DEF TypeOK, Queues
<1>2. q # <<>> /\ q[1].type = type /\ q[1] = Event(type) /\ r = Tail(q)
  BY <1>1 DEF Takes, Rest, Taken, Event, Queues
<1>3. /\ Len(r) = Len(q) - 1 /\ Len(q) \in Nat \ {0} /\ Len(r) \in Nat
      /\ DOMAIN q = 1..Len(q) /\ DOMAIN r = 1..Len(r)
      /\ \A i \in 1..Len(r) : r[i] = q[i + 1]
  BY <1>1, <1>2, HeadTailProperties, LenProperties, EmptySeq
<1>4. 1 \in At(queue, type)
  BY <1>2, <1>3 DEF At
<1>5. \A i \in At(Rest(type), type) : i + 1 \in At(queue, type) /\ q[i + 1] = r[i]
  BY <1>3 DEF At
<1>6. \A i \in At(queue, type) : i # 1 => i - 1 \in At(Rest(type), type)
  BY <1>3 DEF At
<1> QED
  BY <1>2, <1>4, <1>5, <1>6

(* An event that is sent comes after all others. *)
LEMMA LastSent ==
    ASSUME NEW q \in Queues, NEW e \in Events
    PROVE  \E n \in Nat \ {0} :
              /\ At(Sent(q, e), e.type) = At(q, e.type) \cup {n}
              /\ Sent(q, e)[Lane(e.type)][n] = e
              /\ \A i \in At(q, e.type) :
                    /\ i < n
                    /\ Sent(q, e)[Lane(e.type)][i] = q[Lane(e.type)][i]
<1> DEFINE s == q[Lane(e.type)]
           r == Sent(q, e)[Lane(e.type)]
<1>1. Lane(e.type) \in Lanes /\ s \in Seq(Events) /\ r = Append(s, e)
  BY LaneOfEvent DEF Sent, Queues
<1>2. Len(s) \in Nat /\ DOMAIN s = 1..Len(s)
  BY <1>1, LenProperties
<1>3. /\ DOMAIN r = 1..(Len(s) + 1) /\ r[Len(s) + 1] = e
      /\ \A i \in 1..Len(s) : r[i] = s[i]
  BY <1>1, <1>2, AppendProperties
<1>4. At(Sent(q, e), e.type) = At(q, e.type) \cup {Len(s) + 1}
  BY <1>2, <1>3 DEF At
<1>5. \A i \in At(q, e.type) : i < Len(s) + 1 /\ r[i] = s[i]
  BY <1>2, <1>3 DEF At
<1>6. Len(s) + 1 \in Nat \ {0}
  BY <1>2
<1> QED
  BY <1>3, <1>4, <1>5, <1>6

-----------------------------------------------------------------------------
(* What the steps do with the events of a type *)

Watched == {"ExceptionThrown", "ConsoleEntry", "Paused"}

(* The first of them is taken, and the machine ends or hangs. *)
Lost(type) == Takes(type) /\ queue' = Rest(type) /\ status' # "running"

(* The steps that take or send one; all others keep them.                     *)
Moved(type) ==
    \/ Same(type, queue, queue') \/ Lost(type)
    \/ type = "ExceptionThrown" /\ (HandleExceptionThrown \/ Throw)
    \/ type = "ConsoleEntry" /\ (HandleConsoleEntry \/ Log)
    \/ /\ type = "Paused"
       /\ HandlePausedFrameless \/ HandlePaused \/ HitBreak \/ OwnBreak

(* What a handler leaves of the queue after it took an event *)
Left(type) == {Rest(type), Sent(Rest(type), StateRequested(generation)),
               Sent(Rest(type), Resumed)}

(* A handler that takes an event of another type keeps those watched ... *)
LEMMA OthersTaken ==
    ASSUME TypeOK, NEW type \in Watched, NEW other \in EventTypes,
           other # type, Takes(other), queue' \in Left(other)
    PROVE  Same(type, queue, queue')
<1>1. type \in EventTypes /\ type \notin {"StateRequested", "Resumed"}
  BY DEF Watched, EventTypes, DevToolsTypes
<1>2. Same(type, queue, Rest(other)) /\ queue \in Queues /\ Rest(other) \in Queues
  BY <1>1, SameTaken, TakenTyped DEF TypeOK, Queues
<1>3. CASE queue' = Rest(other)
  BY <1>2, <1>3
<1>4. \A e \in Events : e.type # type => Same(type, queue, Sent(Rest(other), e))
  BY <1>1, <1>2, SameSent, SentTyped, SameThrough
<1>5. /\ StateRequested(generation) \in Events /\ Resumed \in Events
      /\ StateRequested(generation).type # type /\ Resumed.type # type
  BY <1>1, EventsTyped DEF TypeOK, StateTyped, StateRequested, Resumed
<1> QED
  BY <1>3, <1>4, <1>5 DEF Left

(* ... and so does whoever sends an event of another type. *)
LEMMA OtherSent ==
    ASSUME TypeOK, NEW type \in Watched, NEW e \in Events, e.type # type,
           queue' = Sent(queue, e)
    PROVE  Same(type, queue, queue')
BY SameSent DEF TypeOK, Queues, Watched, EventTypes, DevToolsTypes

(* A queue that does not change keeps all of them. *)
LEMMA QueueKept ==
    ASSUME TypeOK, UNCHANGED queue, NEW type \in Watched
    PROVE  Same(type, queue, queue')
BY SameAgain DEF TypeOK, Queues, Watched, EventTypes, DevToolsTypes

(* The handlers take one event each. *)
LEMMA HandlersMove ==
    ASSUME TypeOK, Handle, NEW type \in Watched
    PROVE  Moved(type)
<1> USE DEF EventTypes, DevToolsTypes
<1>1. \A other \in EventTypes : Takes(other) /\ queue' \in Left(other) =>
         other = type \/ Same(type, queue, queue')
  BY OthersTaken
<1>2. CASE HandleStateRequested
  BY <1>1, <1>2 DEF HandleStateRequested, Left, Watched, Moved
<1>3. CASE HandlePausedFrameless
  BY <1>1, <1>3 DEF HandlePausedFrameless, Left, Moved
<1>4. CASE HandlePaused
  BY <1>1, <1>4 DEF HandlePaused, Left, Moved
<1>5. CASE PausedFails
  BY <1>1, <1>5 DEF PausedFails, Left, Moved, Lost, Fail
<1>6. CASE HandleActionAccepted \/ ResumeFails
  BY <1>1, <1>6 DEF HandleActionAccepted, ResumeFails, Left, Watched, Moved
<1>7. CASE HandleResumed \/ HandleActionApplied
  BY <1>1, <1>7 DEF HandleResumed, HandleActionApplied, Left, Watched, Moved
<1>8. CASE HandleLoaded \/ HandleFrameRequestedNavigation
  BY <1>1, <1>8 DEF HandleLoaded, HandleFrameRequestedNavigation, Left,
                    Watched, Moved
<1>9. CASE HandleDownloadWillBegin
  BY <1>1, <1>9 DEF HandleDownloadWillBegin, Left, Watched, Moved
<1>10. CASE HandleConsoleEntry \/ HandleExceptionThrown
  BY <1>1, <1>10 DEF HandleConsoleEntry, HandleExceptionThrown, Left, Moved
<1>11. CASE HandleFrameNavigated
  BY <1>1, <1>11 DEF HandleFrameNavigated, Left, Watched, Moved
<1>12. CASE HandleTargetDestroyed
  BY <1>1, <1>12 DEF HandleTargetDestroyed, Left, Watched, Moved
<1>13. CASE UnhandledTransition
  BY <1>1, <1>13 DEF UnhandledTransition, Left, Watched, Moved
<1> QED
  BY <1>2, <1>3, <1>4, <1>5, <1>6, <1>7, <1>8, <1>9, <1>10, <1>11, <1>12,
     <1>13 DEF Handle

(* So does a call that hangs or fails; the rest of the machine, its tasks and *)
(* the caller move inner events and actions only.                             *)
LEMMA TasksMove ==
    ASSUME TypeOK, NEW type \in Watched,
           \/ FinishCapture \/ SkipCapture \/ CallFails \/ CallHangs
           \/ Shutdown \/ ApplyFinishes \/ Timers \/ Caller
    PROVE  Moved(type)
<1> USE DEF EventTypes, DevToolsTypes
<1>1. \A other \in EventTypes : Takes(other) /\ queue' = Rest(other) =>
         other = type \/ Same(type, queue, queue')
  BY OthersTaken DEF Left
<1>2. CASE UNCHANGED queue
  BY <1>2, QueueKept DEF Moved
<1>3. CASE CallFails \/ CallHangs
  BY <1>1, <1>2, <1>3 DEF CallFails, CallHangs, Moved, Lost, Fail
<1>4. CASE ApplyFinishes \/ Timers
  <2>1. \E e \in Events : e.type # type /\ queue' = Sent(queue, e)
    <3>1. CASE ApplyFinishes
      <4>1. PICK task \in applying : queue' = Sent(queue, ActionApplied(task.gen))
        BY <3>1 DEF ApplyFinishes
      <4> QED
        BY <4>1, EventsTyped DEF TypeOK, TasksTyped, ActionApplied, Watched
    <3>2. CASE Timers
      <4>1. PICK g \in Nat : queue' = Sent(queue, StateRequested(g))
        BY <3>2 DEF Timers, TimeoutFires, WatchdogFires, TypeOK, TasksTyped
      <4> QED
        BY <4>1, EventsTyped DEF StateRequested, Watched
    <3> QED
      BY <1>4, <3>1, <3>2
  <2> QED
    BY <2>1, OtherSent DEF Moved
<1>5. CASE Apply
  <2>1. CASE UNCHANGED queue
    BY <2>1, <1>2
  <2>2. CASE queue' = [queue EXCEPT !["actions"] = <<ActionAccepted(answering)>>]
    <3>1. Lane(type) # "actions" /\ Lane(type) \in Lanes
      BY LaneOfType DEF Lane, Watched
    <3>2. queue'[Lane(type)] = queue[Lane(type)]
      BY <2>2, <3>1 DEF TypeOK
    <3>3. Same(type, queue, queue) /\ type \in EventTypes
      BY QueueKept, SameAgain DEF TypeOK, Queues, Watched
    <3>4. Same(type, queue, queue')
      BY <3>2, <3>3 DEF Same, At
    <3> QED
      BY <3>4 DEF Moved
  <2> QED
    BY <1>5, <2>1, <2>2 DEF Apply
<1>6. CASE \/ FinishCapture \/ SkipCapture \/ Shutdown
           \/ NextEvent \/ GiveUp \/ CloseBrowser \/ AwaitDone
  BY <1>2, <1>6 DEF FinishCapture, SkipCapture, Shutdown, NextEvent, GiveUp,
                    CloseBrowser, AwaitDone
<1> QED
  BY <1>3, <1>4, <1>5, <1>6 DEF Caller

(* The page sends its events one by one, those of another frame in pairs. *)
LEMMA PageMoves ==
    ASSUME TypeOK, Page, NEW type \in Watched
    PROVE  Moved(type)
<1>1. \A e \in Events :
         e.type # type /\ queue' = Sent(queue, e) => Same(type, queue, queue')
  BY OtherSent
<1>2. CASE ActionNavigates \/ Abort \/ DropBreak
  BY <1>2, QueueKept DEF ActionNavigates, Abort, DropBreak, Moved
<1>3. CASE PageNavigates
  BY <1>1, <1>3, EventsTyped DEF PageNavigates, FrameRequestedNavigation,
                                 Frames, Watched, Moved
<1>4. CASE Commit \/ Restore
  BY <1>1, <1>4, EventsTyped DEF Commit, Restore, FrameNavigated, Frames,
                                 Watched, Moved
<1>5. CASE Download
  <2>1. navigation \in Urls
    BY <1>5 DEF Download, TypeOK, PageTyped
  <2> QED
    BY <1>1, <1>5, <2>1, EventsTyped DEF Download, DownloadWillBegin, Watched,
                                         Moved
<1>6. CASE Load
  BY <1>1, <1>6, EventsTyped DEF Load, Loaded, Watched, Moved
<1>7. CASE Throw
  <2>1. used'["throws"] \in Nat
    BY <1>7, SpendTyped DEF Throw, TypeOK, Bounds
  <2> QED
    BY <1>1, <1>7, <2>1, EventsTyped DEF Throw, ExceptionThrown, Moved
<1>8. CASE Log
  <2>1. used'["logs"] \in Nat
    BY <1>8, SpendTyped DEF Log, TypeOK, Bounds
  <2> QED
    BY <1>1, <1>8, <2>1, EventsTyped DEF Log, ConsoleEntry, Moved
<1>9. CASE SubframeNavigates
  <2> DEFINE e == FrameRequestedNavigation("sub", "page")
             f == FrameNavigated("sub", "load")
  <2>1. e \in Events /\ f \in Events /\ e.type # type /\ f.type # type
    BY EventsTyped DEF FrameRequestedNavigation, FrameNavigated, Frames, Urls,
                       Watched
  <2>2. queue \in Queues /\ type \in EventTypes
    BY DEF TypeOK, Queues, Watched, EventTypes, DevToolsTypes
  <2>3. Sent(queue, e) \in Queues /\ Sent(Sent(queue, e), f) \in Queues
    BY <2>1, <2>2, SentTyped
  <2>4. Same(type, queue, Sent(Sent(queue, e), f))
    BY <2>1, <2>2, <2>3, SameSent, SameThrough
  <2> QED
    BY <1>9, <2>4 DEF SubframeNavigates, Moved
<1>10. CASE DestroyTarget
  BY <1>1, <1>10, EventsTyped DEF DestroyTarget, TargetDestroyed, Watched, Moved
<1>11. CASE OutsideResume
  BY <1>1, <1>11, EventsTyped DEF OutsideResume, Resumed, Watched, Moved
<1>12. CASE OwnBreak
  BY <1>1, <1>12, EventsTyped DEF OwnBreak, Paused, Moved
<1>13. CASE HitBreak
  <2>1. CASE type = "Paused"
    BY <1>13, <2>1 DEF Moved
  <2>2. CASE type # "Paused"
    BY <1>1, <1>13, <2>2, EventsTyped, ConstantsAssumption
       DEF HitBreak, Paused, Moved
  <2> QED
    BY <2>1, <2>2
<1> QED
  BY <1>2, <1>3, <1>4, <1>5, <1>6, <1>7, <1>8, <1>9, <1>10, <1>11, <1>12,
     <1>13 DEF Page, Navigate

(* No other step takes or sends an event that is watched. *)
LEMMA AllMove ==
    ASSUME TypeOK, [Next]_vars, NEW type \in Watched
    PROVE  Moved(type)
<1>1. CASE UNCHANGED vars
  BY <1>1, QueueKept DEF vars, Moved
<1> QED
  BY <1>1, HandlersMove, TasksMove, PageMoves DEF Next, Machine

-----------------------------------------------------------------------------
(* What the steps leave alone *)

(* A machine that ended or hangs does not run again. *)
LEMMA StaysEnded == [Next]_vars /\ status' = "running" => status = "running"
<1> SUFFICES ASSUME [Next]_vars, status' = "running"
             PROVE  status = "running"
  OBVIOUS
<1>1. CASE Handle
  BY <1>1 DEF Handle, Takes, HandleStateRequested, HandlePausedFrameless,
     HandlePaused, PausedFails, HandleActionAccepted, ResumeFails,
     HandleResumed, HandleActionApplied, HandleLoaded,
     HandleFrameRequestedNavigation, HandleDownloadWillBegin,
     HandleConsoleEntry, HandleExceptionThrown, HandleFrameNavigated,
     HandleTargetDestroyed, UnhandledTransition
<1>2. CASE \/ FinishCapture \/ SkipCapture \/ CallFails \/ CallHangs
           \/ Shutdown \/ ApplyFinishes \/ Timers
  BY <1>2 DEF FinishCapture, SkipCapture, CallFails, CallHangs, Fail, Shutdown,
              ApplyFinishes, Timers, TimeoutFires, WatchdogFires
<1>3. CASE Caller
  BY <1>3 DEF Caller, NextEvent, Apply, GiveUp, CloseBrowser, AwaitDone, taskVars
<1>4. CASE Page
  BY <1>4 DEF Page, Navigate, PageNavigates, ActionNavigates, Commit, Restore,
     Download, Abort, Load, Throw, Log, SubframeNavigates, DestroyTarget,
     OwnBreak, OutsideResume, HitBreak, DropBreak, PageFrame, taskVars
<1>5. CASE UNCHANGED vars
  BY <1>5 DEF vars, taskVars
<1> QED
  BY <1>1, <1>2, <1>3, <1>4, <1>5 DEF Next, Machine

(* What is collected and told changes with an exception, an entry, a report   *)
(* and the end of a pause.                                                    *)
LEMMA CollectedKept ==
    ASSUME [Next]_vars
    PROVE  /\ \/ HandleExceptionThrown \/ HandlePaused
              \/ UNCHANGED <<exceptions, toldExceptions>>
           /\ \/ HandleConsoleEntry \/ HandlePaused \/ HandleResumed
              \/ UNCHANGED <<consoleLog, toldConsole>>
<1> USE DEF Fail, stateVars, historyVars
<1>1. CASE \/ HandleStateRequested \/ HandlePausedFrameless \/ HandlePaused
           \/ PausedFails \/ HandleActionAccepted \/ ResumeFails
           \/ HandleResumed \/ HandleActionApplied
  BY <1>1 DEF HandleStateRequested, HandlePausedFrameless, PausedFails,
              HandleActionAccepted, ResumeFails, HandleResumed,
              HandleActionApplied
<1>2. CASE \/ HandleLoaded \/ HandleFrameRequestedNavigation
           \/ HandleDownloadWillBegin \/ HandleConsoleEntry
           \/ HandleExceptionThrown \/ HandleFrameNavigated
           \/ HandleTargetDestroyed \/ UnhandledTransition
  BY <1>2 DEF HandleLoaded, HandleFrameRequestedNavigation,
              HandleDownloadWillBegin, HandleConsoleEntry,
              HandleExceptionThrown, HandleFrameNavigated,
              HandleTargetDestroyed, UnhandledTransition
<1>3. CASE \/ FinishCapture \/ SkipCapture \/ CallFails \/ CallHangs
           \/ Shutdown \/ ApplyFinishes \/ Timers
  BY <1>3 DEF FinishCapture, SkipCapture, CallFails, CallHangs, Shutdown,
              ApplyFinishes, Timers, TimeoutFires, WatchdogFires
<1>4. CASE Caller
  BY <1>4 DEF Caller, NextEvent, Apply, GiveUp, CloseBrowser, AwaitDone
<1>5. CASE Page
  BY <1>5 DEF Page, Navigate, PageNavigates, ActionNavigates, Commit, Restore,
     Download, Abort, Load, Throw, Log, SubframeNavigates, DestroyTarget,
     OwnBreak, OutsideResume, HitBreak, DropBreak, PageFrame
<1>6. CASE UNCHANGED vars
  BY <1>6 DEF vars
<1> QED
  BY <1>1, <1>2, <1>3, <1>4, <1>5, <1>6 DEF Next, Machine, Handle

(* Spending one bound leaves the others. *)
LEMMA SpentElsewhere ==
    ASSUME TypeOK, NEW what \in DOMAIN Bounds, NEW other \in DOMAIN Bounds,
           other # what, Spend(what)
    PROVE  used'[other] = used[other]
BY DEF Spend, TypeOK

(* Exceptions and entries are numbered where they are born. *)
LEMMA NumbersKept ==
    ASSUME TypeOK, [Next]_vars
    PROVE  /\ Throw \/ used'["throws"] = used["throws"]
           /\ Log \/ used'["logs"] = used["logs"]
           /\ \/ OwnBreak \/ OutsideResume
              \/ used'["intrusions"] = used["intrusions"]
<1>1. {"navigations", "restores", "downloads", "aborts", "throws", "logs",
       "actions", "frameless", "skips", "hangs", "subframes", "destroys",
       "interrupts", "intrusions"} \subseteq DOMAIN Bounds
  BY DEF Bounds
<1>2. \A what \in DOMAIN Bounds : Spend(what) =>
         /\ what # "throws" => used'["throws"] = used["throws"]
         /\ what # "logs" => used'["logs"] = used["logs"]
         /\ what # "intrusions" => used'["intrusions"] = used["intrusions"]
  BY <1>1, SpentElsewhere
<1>3. CASE UNCHANGED used
  BY <1>3
<1>4. CASE Handle
  BY <1>3, <1>4 DEF Handle, HandleStateRequested, HandlePausedFrameless,
     HandlePaused, PausedFails, HandleActionAccepted, ResumeFails,
     HandleResumed, HandleActionApplied, HandleLoaded,
     HandleFrameRequestedNavigation, HandleDownloadWillBegin,
     HandleConsoleEntry, HandleExceptionThrown, HandleFrameNavigated,
     HandleTargetDestroyed, UnhandledTransition
<1>5. CASE \/ FinishCapture \/ SkipCapture \/ CallFails \/ CallHangs
           \/ Shutdown \/ ApplyFinishes \/ Timers
  BY <1>1, <1>2, <1>3, <1>5 DEF FinishCapture, SkipCapture, CallFails,
     CallHangs, Shutdown, ApplyFinishes, Timers, TimeoutFires, WatchdogFires
<1>6. CASE Caller
  BY <1>1, <1>2, <1>3, <1>6 DEF Caller, NextEvent, Apply, GiveUp, CloseBrowser,
     AwaitDone
<1>7. CASE Page
  BY <1>1, <1>2, <1>3, <1>7 DEF Page, Navigate, PageNavigates,
     ActionNavigates, Commit, Restore, Download, Abort, Load, Throw, Log,
     SubframeNavigates, DestroyTarget, OwnBreak, OutsideResume, HitBreak,
     DropBreak
<1>8. CASE UNCHANGED vars
  BY <1>3, <1>8 DEF vars
<1> QED
  BY <1>4, <1>5, <1>6, <1>7, <1>8 DEF Next, Machine

-----------------------------------------------------------------------------
(* The numbers of the undelivered exceptions or entries *)

Numbered == {"ExceptionThrown", "ConsoleEntry"}

Ids(q, type) == {q[Lane(type)][i].id : i \in At(q, type)}

Rising(q, type) ==
    \A i, j \in At(q, type) :
        i < j => q[Lane(type)][i].id < q[Lane(type)][j].id

(* The undelivered numbers are numbers. *)
LEMMA IdsTyped ==
    ASSUME NEW q \in Queues, NEW type \in Numbered
    PROVE  /\ type \in EventTypes /\ type \in Watched
           /\ Ids(q, type) \subseteq Nat
           /\ \A i \in At(q, type) : q[Lane(type)][i].id \in Nat
<1>1. type \in EventTypes /\ type \in Watched
  BY DEF Numbered, EventTypes, DevToolsTypes, Watched
<1>2. \A i \in At(q, type) : q[Lane(type)][i].id \in Nat
  BY <1>1, PositionsTyped, EventFields DEF Numbered
<1> QED
  BY <1>1, <1>2 DEF Ids

(* The same events carry the same numbers in the same order. *)
LEMMA IdsSame ==
    ASSUME NEW q \in Queues, NEW r \in Queues, NEW type \in Numbered,
           Same(type, q, r)
    PROVE  Ids(r, type) = Ids(q, type) /\ (Rising(q, type) => Rising(r, type))
<1>1. PICK shift \in Int :
         /\ \A i \in At(r, type) : /\ i + shift \in At(q, type)
                                   /\ q[Lane(type)][i + shift] = r[Lane(type)][i]
         /\ \A i \in At(q, type) : i - shift \in At(r, type)
  BY DEF Same
<1>2. At(q, type) \subseteq Nat /\ At(r, type) \subseteq Nat
  BY PositionsTyped, IdsTyped
<1>3. \A i \in At(q, type) : r[Lane(type)][i - shift] = q[Lane(type)][i]
  <2> SUFFICES ASSUME NEW i \in At(q, type)
               PROVE  r[Lane(type)][i - shift] = q[Lane(type)][i]
    OBVIOUS
  <2>1. (i - shift) + shift = i
    BY <1>2
  <2> QED
    BY <1>1, <2>1
<1>4. Ids(r, type) \subseteq Ids(q, type)
  BY <1>1 DEF Ids
<1>5. Ids(q, type) \subseteq Ids(r, type)
  BY <1>1, <1>3 DEF Ids
<1>6. ASSUME Rising(q, type) PROVE Rising(r, type)
  <2> SUFFICES ASSUME NEW i \in At(r, type), NEW j \in At(r, type), i < j
               PROVE  r[Lane(type)][i].id < r[Lane(type)][j].id
    BY DEF Rising
  <2>1. i + shift < j + shift
    BY <1>2
  <2> QED
    BY <1>1, <1>6, <2>1 DEF Rising
<1> QED
  BY <1>4, <1>5, <1>6

(* The least number is taken first. *)
LEMMA IdsTaken ==
    ASSUME TypeOK, NEW type \in Numbered, Takes(type), Rising(queue, type)
    PROVE  /\ Event(type).id \in Nat
           /\ Ids(queue, type) = Ids(Rest(type), type) \cup {Event(type).id}
           /\ \A n \in Ids(Rest(type), type) : Event(type).id < n
           /\ Rising(Rest(type), type)
<1> DEFINE q == queue[Lane(type)]
           r == Rest(type)[Lane(type)]
<1>1. type \in EventTypes /\ queue \in Queues /\ Rest(type) \in Queues
  BY IdsTyped, TakenTyped DEF TypeOK, Queues
<1>2. /\ At(queue, type) \subseteq 1..Len(q)
      /\ At(Rest(type), type) \subseteq 1..Len(r)
      /\ At(queue, type) \subseteq Nat /\ At(Rest(type), type) \subseteq Nat
  BY <1>1, PositionsTyped
<1>3. /\ 1 \in At(queue, type) /\ q[1] = Event(type)
      /\ \A i \in At(Rest(type), type) : i + 1 \in At(queue, type) /\ q[i + 1] = r[i]
      /\ \A i \in At(queue, type) : i # 1 => i - 1 \in At(Rest(type), type)
  BY <1>1, FirstTaken
<1>4. Event(type).id \in Nat
  BY <1>1, <1>3, IdsTyped
<1>5. \A i \in At(queue, type) : i # 1 => q[i] = r[i - 1]
  <2> SUFFICES ASSUME NEW i \in At(queue, type), i # 1 PROVE q[i] = r[i - 1]
    OBVIOUS
  <2>1. (i - 1) + 1 = i
    BY <1>2
  <2> QED
    BY <1>3, <2>1
<1>6. Ids(queue, type) \subseteq Ids(Rest(type), type) \cup {Event(type).id}
  BY <1>3, <1>5 DEF Ids
<1>7. Ids(Rest(type), type) \cup {Event(type).id} \subseteq Ids(queue, type)
  BY <1>3 DEF Ids
<1>8. \A i \in At(Rest(type), type) : Event(type).id < r[i].id
  <2> SUFFICES ASSUME NEW i \in At(Rest(type), type)
               PROVE  Event(type).id < r[i].id
    OBVIOUS
  <2>1. i >= 1 /\ 1 < i + 1
    BY <1>2
  <2> QED
    BY <1>3, <2>1 DEF Rising
<1>9. Rising(Rest(type), type)
  <2> SUFFICES ASSUME NEW i \in At(Rest(type), type),
                      NEW j \in At(Rest(type), type), i < j
               PROVE  r[i].id < r[j].id
    BY DEF Rising
  <2>1. i + 1 < j + 1
    BY <1>2
  <2> QED
    BY <1>3, <2>1 DEF Rising
<1> QED
  BY <1>4, <1>6, <1>7, <1>8, <1>9 DEF Ids

(* A greater number is sent last. *)
LEMMA IdsSent ==
    ASSUME NEW q \in Queues, NEW e \in Events, e.type \in Numbered,
           Rising(q, e.type), \A n \in Ids(q, e.type) : n < e.id
    PROVE  /\ Ids(Sent(q, e), e.type) = Ids(q, e.type) \cup {e.id}
           /\ Rising(Sent(q, e), e.type)
<1> DEFINE lane == Lane(e.type)
<1>1. PICK n \in Nat \ {0} :
         /\ At(Sent(q, e), e.type) = At(q, e.type) \cup {n}
         /\ Sent(q, e)[lane][n] = e
         /\ \A i \in At(q, e.type) :
               i < n /\ Sent(q, e)[lane][i] = q[lane][i]
  BY LastSent
<1>2. At(q, e.type) \subseteq Nat
  BY IdsTyped, PositionsTyped
<1>3. Ids(Sent(q, e), e.type) = Ids(q, e.type) \cup {e.id}
  BY <1>1 DEF Ids
<1>4. \A i \in At(q, e.type) : q[lane][i].id < e.id
  BY DEF Ids
<1>5. Rising(Sent(q, e), e.type)
  <2> SUFFICES ASSUME NEW i \in At(Sent(q, e), e.type),
                      NEW j \in At(Sent(q, e), e.type), i < j
               PROVE  Sent(q, e)[lane][i].id < Sent(q, e)[lane][j].id
    BY DEF Rising
  <2>1. i \in At(q, e.type)
    BY <1>1, <1>2
  <2> QED
    BY <1>1, <1>2, <1>4, <2>1 DEF Rising
<1> QED
  BY <1>3, <1>5

(* No event is undelivered at first but a state request. *)
LEMMA NothingSentYet ==
    ASSUME Init, NEW type \in EventTypes, type # "StateRequested"
    PROVE  At(queue, type) = {}
<1> DEFINE empty == [lane \in Lanes |-> <<>>]
<1>1. empty \in Queues /\ StateRequested(0) \in Events
  BY EventsTyped DEF Queues
<1>2. At(empty, type) = {}
  BY LaneOfType DEF At
<1>3. Same(type, empty, Sent(empty, StateRequested(0)))
  BY <1>1, SameSent DEF StateRequested
<1>4. At(Sent(empty, StateRequested(0)), type) = {}
  BY <1>2, <1>3 DEF Same
<1> QED
  BY <1>2, <1>4 DEF Init

-----------------------------------------------------------------------------
(* Exceptions *)

ToldExceptions == toldExceptions \o exceptions

(* The property, by the numbers *)
ExceptionsInOrder ==
    /\ \A i \in 1..Len(ToldExceptions) : ToldExceptions[i] = i
    /\ Len(ToldExceptions) <= used["throws"]
    /\ Ids(queue, "ExceptionThrown")
          = (Len(ToldExceptions) + 1)..used["throws"]
    /\ Rising(queue, "ExceptionThrown")

(* The invariant says what the property says of positions. *)
LEMMA ExceptionsByNumber ==
    ASSUME TypeOK
    PROVE  ExceptionsReportedOnce <=> (status = "running" => ExceptionsInOrder)
<1>1. ToldExceptions \in Seq(Nat)
  BY ConcatProperties DEF ToldExceptions, TypeOK, StateTyped, HistoryTyped
<1>2. DOMAIN ToldExceptions = 1..Len(ToldExceptions)
  BY <1>1, LenProperties
<1> QED
  BY <1>2 DEF ExceptionsReportedOnce, ExceptionsInOrder, ToldExceptions, Ids,
              Rising, Undelivered, At

(* A report only moves what was collected. *)
LEMMA ReportMovesExceptions ==
    ASSUME TypeOK, HandlePaused
    PROVE  ToldExceptions' = ToldExceptions
<1>1. toldExceptions \in Seq(Nat) /\ exceptions \in Seq(Nat)
  BY DEF TypeOK, StateTyped, HistoryTyped
<1>2. toldExceptions \o exceptions \in Seq(Nat)
  BY <1>1, ConcatProperties
<1>3. /\ toldExceptions' = toldExceptions \o exceptions
      /\ exceptions' = <<>>
  BY DEF HandlePaused, AfterReport
<1>4. (toldExceptions \o exceptions) \o <<>> = toldExceptions \o exceptions
  BY <1>2, ConcatEmptySeq
<1> QED
  BY <1>3, <1>4 DEF ToldExceptions

(* What is appended to the collected comes last of all. *)
LEMMA AppendLast ==
    ASSUME NEW s \in Seq(Nat), NEW t \in Seq(Nat), NEW n \in Nat
    PROVE  s \o Append(t, n) = Append(s \o t, n)
BY AppendIsConcat, ConcatAssociative, ConcatProperties

(* Only an exception's arrival adds to what is told. *)
LEMMA ExceptionsAdded ==
    ASSUME TypeOK, [Next]_vars
    PROVE  HandleExceptionThrown \/ ToldExceptions' = ToldExceptions
BY CollectedKept, ReportMovesExceptions DEF ToldExceptions

(* At first nothing was thrown and nothing is told. *)
LEMMA ExceptionsInit == Init => (status = "running" => ExceptionsInOrder)
<1> SUFFICES ASSUME Init PROVE ExceptionsInOrder
  OBVIOUS
<1>1. At(queue, "ExceptionThrown") = {}
  BY NothingSentYet DEF EventTypes, DevToolsTypes
<1>2. ToldExceptions = <<>>
  BY ConcatEmptySeq, EmptySeq DEF Init, ToldExceptions
<1>3. used["throws"] = 0
  BY DEF Init, Bounds
<1> QED
  BY <1>1, <1>2, <1>3 DEF ExceptionsInOrder, Ids, Rising

(* A step keeps them in order: the next to arrive has the next number, and    *)
(* the next to be thrown the one after all others.                            *)
LEMMA ExceptionsNext ==
    ASSUME TypeOK, TypeOK', status = "running" => ExceptionsInOrder, [Next]_vars,
           status' = "running"
    PROVE  ExceptionsInOrder'
<1> DEFINE type == "ExceptionThrown"
           told == ToldExceptions
<1>1. ExceptionsInOrder
  BY StaysEnded
<1>2. /\ queue \in Queues /\ queue' \in Queues /\ used["throws"] \in Nat
      /\ type \in Numbered /\ type \in Watched /\ type \in EventTypes
      /\ told \in Seq(Nat)
  BY ConcatProperties DEF TypeOK, Queues, Bounds, Numbered, Watched, EventTypes,
     DevToolsTypes, ToldExceptions, StateTyped, HistoryTyped
<1>3. CASE Same(type, queue, queue') /\ ~HandleExceptionThrown /\ ~Throw
  <2>1. ToldExceptions' = told /\ used'["throws"] = used["throws"]
    BY <1>3, ExceptionsAdded, NumbersKept
  <2>2. Ids(queue', type) = Ids(queue, type) /\ Rising(queue', type)
    BY <1>1, <1>2, <1>3, IdsSame DEF ExceptionsInOrder
  <2> QED
    BY <1>1, <2>1, <2>2 DEF ExceptionsInOrder
<1>4. CASE HandleExceptionThrown
  <2>1. /\ Takes(type) /\ queue' = Rest(type)
        /\ exceptions' = Append(exceptions, Event(type).id)
        /\ UNCHANGED <<toldExceptions, used>>
    BY <1>4 DEF HandleExceptionThrown, historyVars
  <2>2. /\ Event(type).id \in Nat
        /\ Ids(queue, type) = Ids(queue', type) \cup {Event(type).id}
        /\ \A n \in Ids(queue', type) : Event(type).id < n
        /\ Rising(queue', type)
    BY <1>1, <1>2, <2>1, IdsTaken DEF ExceptionsInOrder
  <2>3. Ids(queue', type) \subseteq Nat
    BY <1>2, IdsTyped
  <2>4. Len(told) \in Nat
    BY <1>2, LenProperties
  <2>5. /\ Ids(queue, type) = (Len(told) + 1)..used["throws"]
        /\ \A i \in 1..Len(told) : told[i] = i
    BY <1>1 DEF ExceptionsInOrder
  <2>6. Event(type).id = Len(told) + 1 /\ Len(told) + 1 <= used["throws"]
    <3>1. Event(type).id \in (Len(told) + 1)..used["throws"]
      BY <2>2, <2>5
    <3>2. Len(told) + 1 \in Ids(queue, type)
      BY <1>2, <2>4, <2>5, <3>1
    <3> QED
      BY <1>2, <2>2, <2>4, <3>1, <3>2
  <2>7. Ids(queue', type) = (Len(told) + 2)..used["throws"]
    <3>1. \A m \in Ids(queue', type) : m \in (Len(told) + 2)..used["throws"]
      BY <1>2, <2>2, <2>3, <2>4, <2>5, <2>6
    <3>2. \A m \in (Len(told) + 2)..used["throws"] : m \in Ids(queue', type)
      <4> SUFFICES ASSUME NEW m \in (Len(told) + 2)..used["throws"]
                   PROVE  m \in Ids(queue', type)
        OBVIOUS
      <4>1. m \in Ids(queue, type) /\ m # Len(told) + 1
        BY <1>2, <2>4, <2>5
      <4> QED
        BY <2>2, <2>6, <4>1
    <3> QED
      BY <3>1, <3>2
  <2>8. ToldExceptions' = Append(told, Len(told) + 1)
    <3>1. toldExceptions \in Seq(Nat) /\ exceptions \in Seq(Nat)
      BY DEF TypeOK, StateTyped, HistoryTyped
    <3> QED
      BY <2>1, <2>2, <2>6, <3>1, AppendLast DEF ToldExceptions
  <2>9. /\ Len(ToldExceptions') = Len(told) + 1
        /\ \A i \in 1..Len(ToldExceptions') : ToldExceptions'[i] = i
    BY <1>2, <2>4, <2>5, <2>8, AppendProperties
  <2> QED
    BY <2>1, <2>2, <2>4, <2>6, <2>7, <2>9 DEF ExceptionsInOrder
<1>5. CASE Throw
  <2> DEFINE n == used["throws"] + 1
  <2>1. queue' = Sent(queue, ExceptionThrown(n)) /\ used'["throws"] = n
    BY <1>5 DEF Throw, Spend, TypeOK, Bounds
  <2>2. ToldExceptions' = told
    <3>1. UNCHANGED <<exceptions, toldExceptions>>
      BY <1>5 DEF Throw, PageFrame, stateVars, historyVars
    <3> QED
      BY <3>1 DEF ToldExceptions
  <2>3. n \in Nat /\ Len(told) \in Nat
        /\ Ids(queue, type) = (Len(told) + 1)..used["throws"]
    BY <1>1, <1>2, LenProperties DEF ExceptionsInOrder
  <2>4. /\ ExceptionThrown(n) \in Events /\ ExceptionThrown(n).type = type
        /\ ExceptionThrown(n).id = n
        /\ \A m \in Ids(queue, type) : m < n
    BY <1>2, <2>3, EventsTyped DEF ExceptionThrown
  <2>5. Ids(queue', type) = Ids(queue, type) \cup {n} /\ Rising(queue', type)
    BY <1>1, <1>2, <2>1, <2>4, IdsSent DEF ExceptionsInOrder
  <2>6. Len(told) <= used["throws"]
    BY <1>1, <2>3 DEF ExceptionsInOrder
  <2>7. Ids(queue', type) = (Len(told) + 1)..n /\ Len(told) <= n
    <3>1. ((Len(told) + 1)..used["throws"]) \cup {n} = (Len(told) + 1)..n
      BY <1>2, <2>3, <2>6
    <3>2. Ids(queue', type) = ((Len(told) + 1)..used["throws"]) \cup {n}
      BY <2>3, <2>5
    <3>3. Len(told) <= n
      BY <1>2, <2>3, <2>6
    <3> QED
      BY <3>1, <3>2, <3>3
  <2> QED
    BY <1>1, <2>1, <2>2, <2>5, <2>7 DEF ExceptionsInOrder
<1> QED
  BY <1>2, <1>3, <1>4, <1>5, AllMove DEF Moved, Lost

(* Every uncaught exception is reported exactly once and in order. *)
THEOREM ExceptionsAreReportedOnce == Spec => []ExceptionsReportedOnce
<1> DEFINE Inv == status = "running" => ExceptionsInOrder
<1>1. Init => Inv
  BY ExceptionsInit
<1>2. TypeOK /\ TypeOK' /\ Inv /\ [Next]_vars => Inv'
  BY ExceptionsNext
<1>3. TypeOK /\ Inv => ExceptionsReportedOnce
  BY ExceptionsByNumber
<1> QED
  BY <1>1, <1>2, <1>3, TypeCorrect, PTL DEF Spec

-----------------------------------------------------------------------------
(* Console entries *)

ToldConsole == toldConsole \o consoleLog

(* The property, by the numbers, and none of them is still to be given *)
ConsoleInOrder ==
    /\ \A i, j \in 1..Len(ToldConsole) : i < j => ToldConsole[i] < ToldConsole[j]
    /\ \A i \in 1..Len(ToldConsole) :
          /\ ToldConsole[i] <= used["logs"]
          /\ \A n \in Ids(queue, "ConsoleEntry") : ToldConsole[i] < n
    /\ \A n \in Ids(queue, "ConsoleEntry") : n <= used["logs"]
    /\ Rising(queue, "ConsoleEntry")

(* What is told of the console are entry numbers. *)
LEMMA ToldConsoleTyped ==
    ASSUME TypeOK
    PROVE  /\ toldConsole \in Seq(Nat) /\ consoleLog \in Seq(Nat)
           /\ ToldConsole \in Seq(Nat) /\ Len(ToldConsole) \in Nat
           /\ \A i \in 1..Len(ToldConsole) : ToldConsole[i] \in Nat
<1>1. toldConsole \in Seq(Nat) /\ consoleLog \in Seq(Nat)
  BY DEF TypeOK, StateTyped, HistoryTyped
<1>2. ToldConsole \in Seq(Nat)
  BY <1>1, ConcatProperties DEF ToldConsole
<1> QED
  BY <1>1, <1>2, LenProperties, ElementOfSeq

(* The invariant says what the property says of positions. *)
LEMMA ConsoleByNumber ==
    ASSUME TypeOK, ConsoleInOrder
    PROVE  ConsoleNeverRepeated
<1>1. DOMAIN ToldConsole = 1..Len(ToldConsole)
  BY ToldConsoleTyped, LenProperties
<1> QED
  BY <1>1 DEF ConsoleNeverRepeated, ConsoleInOrder, ToldConsole, Ids, Rising,
              Undelivered, At

(* Only an entry's arrival adds to what is told: a report moves what was      *)
(* collected, and the end of a pause drops it.                                *)
LEMMA ConsoleAdded ==
    ASSUME TypeOK, [Next]_vars, ~HandleConsoleEntry
    PROVE  /\ Len(ToldConsole') <= Len(ToldConsole)
           /\ \A i \in 1..Len(ToldConsole') : ToldConsole'[i] = ToldConsole[i]
<1>1. CASE UNCHANGED <<consoleLog, toldConsole>>
  <2>1. ToldConsole' = ToldConsole
    BY <1>1 DEF ToldConsole
  <2> QED
    BY <2>1, ToldConsoleTyped
<1>2. CASE HandlePaused
  <2>1. toldConsole' = ToldConsole /\ consoleLog' = <<>>
    BY <1>2 DEF HandlePaused, AfterReport, ToldConsole
  <2>2. ToldConsole' = ToldConsole \o <<>>
    BY <2>1 DEF ToldConsole
  <2>3. ToldConsole' = ToldConsole
    BY <2>2, ToldConsoleTyped, ConcatEmptySeq
  <2> QED
    BY <2>3, ToldConsoleTyped
<1>3. CASE HandleResumed
  <2>1. toldConsole' = toldConsole /\ consoleLog' \in {consoleLog, <<>>}
    BY <1>3 DEF HandleResumed, historyVars
  <2>2. ToldConsole' = ToldConsole \/ ToldConsole' = toldConsole \o <<>>
    BY <2>1 DEF ToldConsole
  <2>3. toldConsole \o <<>> = toldConsole
    BY ToldConsoleTyped, ConcatEmptySeq
  <2>4. /\ Len(toldConsole) \in Nat /\ Len(consoleLog) \in Nat
        /\ Len(ToldConsole) = Len(toldConsole) + Len(consoleLog)
        /\ \A i \in 1..Len(toldConsole) : ToldConsole[i] = toldConsole[i]
    BY ToldConsoleTyped, ConcatProperties, LenProperties DEF ToldConsole
  <2> QED
    BY <2>2, <2>3, <2>4, ToldConsoleTyped
<1> QED
  BY <1>1, <1>2, <1>3, CollectedKept

(* Dropping entries keeps the order of the others. *)
LEMMA ConsoleDropped ==
    ASSUME TypeOK, TypeOK', ConsoleInOrder, used'["logs"] = used["logs"],
           Len(ToldConsole') <= Len(ToldConsole),
           \A i \in 1..Len(ToldConsole') : ToldConsole'[i] = ToldConsole[i],
           Ids(queue', "ConsoleEntry") \subseteq Ids(queue, "ConsoleEntry"),
           Rising(queue', "ConsoleEntry")
    PROVE  ConsoleInOrder'
<1>1. Len(ToldConsole) \in Nat /\ Len(ToldConsole') \in Nat
  BY ToldConsoleTyped, LenProperties DEF TypeOK, StateTyped, HistoryTyped,
     ToldConsole
<1>2. \A i \in 1..Len(ToldConsole') : i \in 1..Len(ToldConsole)
  BY <1>1
<1>3. /\ \A i, j \in 1..Len(ToldConsole') :
            i < j => ToldConsole'[i] < ToldConsole'[j]
      /\ \A i \in 1..Len(ToldConsole') :
            /\ ToldConsole'[i] <= used'["logs"]
            /\ \A n \in Ids(queue', "ConsoleEntry") : ToldConsole'[i] < n
  BY <1>2 DEF ConsoleInOrder
<1>4. \A n \in Ids(queue', "ConsoleEntry") : n <= used'["logs"]
  BY DEF ConsoleInOrder
<1> QED
  BY <1>3, <1>4 DEF ConsoleInOrder

(* At first nothing was logged and nothing is told. *)
LEMMA ConsoleInit == Init => ConsoleInOrder
<1> SUFFICES ASSUME Init PROVE ConsoleInOrder
  OBVIOUS
<1>1. At(queue, "ConsoleEntry") = {}
  BY NothingSentYet DEF EventTypes, DevToolsTypes
<1>2. ToldConsole = <<>>
  BY ConcatEmptySeq, EmptySeq DEF Init, ToldConsole
<1> QED
  BY <1>1, <1>2 DEF ConsoleInOrder, Ids, Rising

(* Every step keeps what is told before what is to come. *)
LEMMA ConsoleNext ==
    ASSUME TypeOK, TypeOK', ConsoleInOrder, [Next]_vars
    PROVE  ConsoleInOrder'
<1> DEFINE type == "ConsoleEntry"
           told == ToldConsole
<1>1. /\ queue \in Queues /\ queue' \in Queues /\ used["logs"] \in Nat
      /\ type \in Numbered /\ type \in Watched /\ type \in EventTypes
  BY DEF TypeOK, Queues, Bounds, Numbered, Watched, EventTypes, DevToolsTypes
<1>2. CASE Same(type, queue, queue') /\ ~HandleConsoleEntry /\ ~Log
  <2>1. Ids(queue', type) = Ids(queue, type) /\ Rising(queue', type)
    BY <1>1, <1>2, IdsSame DEF ConsoleInOrder
  <2>2. used'["logs"] = used["logs"]
    BY <1>2, NumbersKept
  <2> QED
    BY <1>2, <2>1, <2>2, ConsoleAdded, ConsoleDropped
<1>3. ASSUME Takes(type), queue' = Rest(type)
      PROVE  /\ Event(type).id \in Nat
             /\ Ids(queue, type) = Ids(queue', type) \cup {Event(type).id}
             /\ \A n \in Ids(queue', type) : Event(type).id < n
             /\ Rising(queue', type)
  BY <1>1, <1>3, IdsTaken DEF ConsoleInOrder
<1>4. CASE Lost(type) /\ ~HandleConsoleEntry /\ ~Log
  <2>1. used'["logs"] = used["logs"]
    BY <1>4, NumbersKept
  <2> QED
    BY <1>3, <1>4, <2>1, ConsoleAdded, ConsoleDropped DEF Lost
<1>5. CASE HandleConsoleEntry
  <2>1. /\ Takes(type) /\ queue' = Rest(type)
        /\ consoleLog' \in {<<>>, Append(consoleLog, Event(type).id)}
        /\ toldConsole' = toldConsole /\ UNCHANGED used
    BY <1>5 DEF HandleConsoleEntry, historyVars
  <2>2. CASE consoleLog' = <<>>
    <3>1. ToldConsole' = toldConsole
      BY <2>1, <2>2, ToldConsoleTyped, ConcatEmptySeq DEF ToldConsole
    <3>2. /\ Len(toldConsole) <= Len(ToldConsole)
          /\ \A i \in 1..Len(toldConsole) : ToldConsole[i] = toldConsole[i]
      BY ToldConsoleTyped, ConcatProperties, LenProperties DEF ToldConsole
    <3> QED
      BY <1>3, <2>1, <3>1, <3>2, ConsoleDropped
  <2>3. CASE consoleLog' = Append(consoleLog, Event(type).id)
    <3> DEFINE n == Event(type).id
    <3>1. n \in Nat /\ n \in Ids(queue, type)
      BY <1>3, <2>1
    <3>2. ToldConsole' = Append(told, n)
      BY <2>1, <2>3, <3>1, ToldConsoleTyped, AppendLast DEF ToldConsole
    <3>3. /\ Len(ToldConsole') = Len(told) + 1 /\ Len(told) \in Nat
          /\ ToldConsole'[Len(told) + 1] = n
          /\ \A i \in 1..Len(told) : ToldConsole'[i] = told[i]
      BY <3>1, <3>2, ToldConsoleTyped, AppendProperties
    <3>4. \A i, j \in 1..Len(ToldConsole') :
             i < j => ToldConsole'[i] < ToldConsole'[j]
      <4> SUFFICES ASSUME NEW i \in 1..Len(ToldConsole'),
                          NEW j \in 1..Len(ToldConsole'), i < j
                   PROVE  ToldConsole'[i] < ToldConsole'[j]
        OBVIOUS
      <4>1. i \in 1..Len(told) /\ (j \in 1..Len(told) \/ j = Len(told) + 1)
        BY <3>3
      <4> QED
        BY <3>1, <3>3, <4>1 DEF ConsoleInOrder
    <3>5. \A i \in 1..Len(ToldConsole') :
             /\ ToldConsole'[i] <= used'["logs"]
             /\ \A m \in Ids(queue', type) : ToldConsole'[i] < m
      <4> SUFFICES ASSUME NEW i \in 1..Len(ToldConsole')
                   PROVE  /\ ToldConsole'[i] <= used'["logs"]
                          /\ \A m \in Ids(queue', type) : ToldConsole'[i] < m
        OBVIOUS
      <4>1. i \in 1..Len(told) \/ i = Len(told) + 1
        BY <3>3
      <4>2. Ids(queue', type) \subseteq Ids(queue, type)
        BY <1>3, <2>1
      <4> QED
        BY <1>3, <2>1, <3>1, <3>3, <4>1, <4>2 DEF ConsoleInOrder
    <3>6. \A m \in Ids(queue', type) : m <= used'["logs"]
      BY <1>3, <2>1 DEF ConsoleInOrder
    <3> QED
      BY <1>3, <2>1, <3>4, <3>5, <3>6 DEF ConsoleInOrder
  <2> QED
    BY <2>1, <2>2, <2>3
<1>6. CASE Log
  <2> DEFINE n == used["logs"] + 1
  <2>1. queue' = Sent(queue, ConsoleEntry(n)) /\ used'["logs"] = n
    BY <1>6 DEF Log, Spend, TypeOK, Bounds
  <2>2. ToldConsole' = told
    BY <1>6 DEF Log, stateVars, ToldConsole
  <2>3. /\ ConsoleEntry(n) \in Events /\ ConsoleEntry(n).type = type
        /\ ConsoleEntry(n).id = n
    BY <1>1, EventsTyped DEF ConsoleEntry
  <2>4. Ids(queue, type) \subseteq Nat
    BY <1>1, IdsTyped
  <2>5. \A m \in Ids(queue, type) : m < n
    BY <1>1, <2>4 DEF ConsoleInOrder
  <2>6. Ids(queue', type) = Ids(queue, type) \cup {n} /\ Rising(queue', type)
    BY <1>1, <2>1, <2>3, <2>5, IdsSent DEF ConsoleInOrder
  <2>7. \A i \in 1..Len(told) : told[i] <= used["logs"] /\ told[i] \in Nat
    BY ToldConsoleTyped DEF ConsoleInOrder
  <2>8. \A i \in 1..Len(ToldConsole') :
           /\ ToldConsole'[i] <= used'["logs"]
           /\ \A m \in Ids(queue', type) : ToldConsole'[i] < m
    BY <1>1, <2>1, <2>2, <2>6, <2>7 DEF ConsoleInOrder
  <2>9. \A m \in Ids(queue', type) : m <= used'["logs"]
    BY <1>1, <2>1, <2>4, <2>5, <2>6
  <2> QED
    BY <2>2, <2>6, <2>8, <2>9 DEF ConsoleInOrder
<1> QED
  BY <1>1, <1>2, <1>4, <1>5, <1>6, AllMove DEF Moved

(* No console entry is reported twice or out of order. *)
THEOREM ConsoleIsNeverRepeated == Spec => []ConsoleNeverRepeated
<1>1. TypeOK /\ TypeOK' /\ ConsoleInOrder /\ [Next]_vars => ConsoleInOrder'
  BY ConsoleNext
<1>2. TypeOK /\ ConsoleInOrder => ConsoleNeverRepeated
  BY ConsoleByNumber
<1> QED
  BY <1>1, <1>2, ConsoleInit, TypeCorrect, PTL DEF Spec

=============================================================================
