---------------------------- MODULE TestRunProofs ----------------------------
(* What holds of a test however many states it has, whatever specification,   *)
(* trees of actions and clock it meets, and wherever a callee fails: its      *)
(* trace is the path of the test, and the runner, the worker, the observer    *)
(* and the writer together implement TestSession.                             *)
EXTENDS TestRun, SequenceTheorems, TLAPS

-----------------------------------------------------------------------------
(* The inductive invariant *)

States == [id : Nat, time : Times, url : Urls, hash : Nat]
StepResults == [violations : Counts, pending : BOOLEAN, actions : Generated]
StepErrors == [error : {"specification", "worker"}]
Answers == [violations : Nat, pending : BOOLEAN]
Entries == [state : Nat, time : Times, hash : Nat, hashPrevious : Nat,
            action : Actions \cup {Nothing}, violations : Nat]

Writing == pc \in {"recording", "appending"}
InHand == Writing \/ pc \in {"extracting", "verifying"}
SomeViolation == \E i \in DOMAIN trace : trace[i].violations > 0

Types ==
    /\ pc \in Pcs
    /\ options \in [exitOnViolation : BOOLEAN, deadline : {1, MaxTime + 1}]
    /\ reply \in {Nothing} \cup StepErrors \cup StepResults
    /\ steps \in Seq(Answers)
    /\ trace \in Seq(Entries)
    /\ answered \in Seq(Nat)
    /\ delivered \in Nat
    /\ violationsCount \in Nat /\ lastHash \in Nat
    /\ pending \in BOOLEAN /\ handler \in BOOLEAN
    /\ lastAction \in Actions \cup {Nothing}
    /\ tree \in Trees \cup {NoActions}

(* Nothing has happened before the loop; a signal kills only then.            *)
Starting ==
    /\ pc \in Startup =>
        /\ ~handler /\ steps = <<>> /\ trace = <<>> /\ answered = <<>>
        /\ event = Nothing /\ delivered = 0
    /\ ~handler => pc \in Startup \cup {"exiting"} /\ steps = <<>>

(* The worker has something to do only while the runner waits for it: a state *)
(* is never verified twice, and no answer is left for the next one.           *)
Asked ==
    /\ command \in Seq(Nat) /\ Len(command) <= 1
    /\ worker = "stepping" => command = <<>>
    /\ worker = "stepping" \/ command # <<>> =>
        pc = "verifying" /\ reply = Nothing

(* The worker's answers are one ahead of the trace while one of them is on    *)
(* its way into it.                                                           *)
Lockstep ==
    /\ Phase = "waiting" => Len(steps) = Len(trace)
    /\ Phase = "verified" =>
        /\ reply \in StepResults
        /\ Len(steps) = Len(trace) + 1
        /\ steps[Len(steps)] = [violations |-> reply.violations,
                                pending |-> reply.pending]
    /\ Phase = "recorded" =>
        /\ Len(steps) = Len(trace) /\ Len(trace) > 0
        /\ pending = steps[Len(steps)].pending
    /\ Writing => pending = reply.pending
    /\ Writing \/ pc = "deciding" => tree \in Trees

(* The observer's count is of the trace, with the state being written.        *)
Counting ==
    /\ ~Over => (violationsCount > 0 <=>
                    SomeViolation \/ (Writing /\ reply.violations > 0))
    /\ ~Over => result = Nothing /\ error = NoError
    /\ Over /\ error = NoError /\ result # Nothing =>
        /\ result.reason \in {"ExitOnViolation", "TimeLimit", "Interrupted"}
        /\ result.count > 0 <=> SomeViolation

(* The browser, the runner and the trace agree on how far the test has come.  *)
Path ==
    /\ ~Over => Len(answered) = Len(trace) - (IF pc = "deciding" THEN 1 ELSE 0)
    /\ InHand => /\ current \in States
                 /\ current.id = Len(trace) + 1 /\ current.hash = current.id
    /\ pc = "deciding" => current.id \in Nat
    /\ InHand \/ pc = "deciding" => /\ delivered = Len(answered) + 1
                                    /\ event \in {Nothing, Stopped}
    /\ event \notin {Nothing, Stopped} =>
        /\ event \in States /\ delivered = Len(answered) + 1
        /\ event.id = delivered /\ event.hash = event.id
    /\ lastAction = Nothing <=> answered = <<>>
    /\ ~Over =>
        lastHash = IF trace = <<>> THEN NoHash ELSE trace[Len(trace)].hash
    /\ TraceIsAPath

IInv == Types /\ Starting /\ Asked /\ Lockstep /\ Counting /\ Path

(* Tuples of variables, and names for sets of strings and for conditions.     *)
USE DEF vars, workerVars, browserVars, signalVars, stateVars, endVars,
        writerVars, historyVars, Running, Startup, Busy, Pcs, Over, InHand,
        Writing, NoError

-----------------------------------------------------------------------------
(* Data *)

(* Nothing, errors and results of a step can be told apart. *)
LEMMA Replies ==
    /\ Nothing \notin StepErrors \cup StepResults /\ ~IsError(Nothing)
    /\ \A r \in StepErrors : IsError(r)
    /\ \A r \in StepResults : ~IsError(r)
    /\ \A violations \in Counts, anyPending \in BOOLEAN, actions \in Generated :
        LET r == StepResult(violations, anyPending, actions)
        IN /\ r \in StepResults
           /\ r.violations = violations /\ r.pending = anyPending
    /\ \A what \in {"specification", "worker"} : StepError(what) \in StepErrors
BY DEF Nothing, IsError, StepErrors, StepResults, StepResult, StepError

(* What the observer returns is something. *)
LEMMA Results ==
    ASSUME NEW reason, NEW count
    PROVE  /\ Result(reason, count) # Nothing
           /\ Result(reason, count).reason = reason
           /\ Result(reason, count).count = count
<1>1. "nothing" \notin DOMAIN Result(reason, count)
  BY DEF Result
<1>2. "nothing" \in DOMAIN Nothing
  BY DEF Nothing
<1> QED
  BY <1>1, <1>2 DEF Result

LEMMA CountsAreNaturals == Counts \subseteq Nat
BY ConstantsAssumption DEF Counts

(* An answer's numbers are of their types. *)
LEMMA ResultTyped ==
    ASSUME NEW r \in StepResults
    PROVE  r.violations \in Nat /\ r.pending \in BOOLEAN
BY CountsAreNaturals DEF StepResults

-----------------------------------------------------------------------------
(* The invariant, step by step *)

(* A step that is invisible to it *)
LEMMA UnseenKeeps ==
    ASSUME IInv,
           UNCHANGED <<pc, options, command, reply, event, delivered, current,
                       tree, pending, lastAction, handler, result, error,
                       violationsCount, lastHash, trace, steps, answered>>,
           worker' = worker \/ worker' # "stepping"
    PROVE  IInv'
<1>1. Types' /\ Starting'
  BY DEF IInv, Types, Starting
<1>4. Asked'
  BY DEF IInv, Asked
<1>2. Lockstep' /\ Counting'
  BY DEF IInv, Lockstep, Counting, Phase, SomeViolation
<1>3. Path'
  BY DEF IInv, Path, TraceIsAPath
<1> QED
  BY <1>1, <1>2, <1>3, <1>4 DEF IInv

(* An error ends the loop, and nothing else changes but the event and the     *)
(* hash of the entry being written. *)
LEMMA FailureKeeps ==
    ASSUME IInv, NEW what, what # NoError, Fails(what), ~Over,
           UNCHANGED <<options, worker, command, delivered, current,
                       tree, pending, lastAction, handler, violationsCount,
                       trace, steps, answered>>,
           worker # "stepping" /\ command = <<>>,
           reply' \in {reply, Nothing},
           event' \in {event, Nothing}, lastHash' \in Nat
    PROVE  IInv'
<1>1. pc' = IF pc \in Startup THEN "exiting" ELSE "terminating"
  BY DEF Fails
<1>2. error' = what /\ result' = result
  BY DEF Fails
<1>3. Types'
  BY <1>1 DEF IInv, Types
<1>4. Starting'
  BY <1>1 DEF IInv, Starting
<1>7. Asked'
  BY DEF IInv, Asked
<1>5. Lockstep' /\ Counting'
  BY <1>1, <1>2 DEF IInv, Lockstep, Counting, Phase
<1>6. Path'
  BY <1>1 DEF IInv, Path, TraceIsAPath
<1> QED
  BY <1>3, <1>4, <1>5, <1>6, <1>7 DEF IInv

-----------------------------------------------------------------------------
(* Getting ready *)

LEMMA GettingReadyKeeps == ASSUME IInv, GettingReady PROVE IInv'
<1>1. CASE BundleSpecification \/ LaunchBrowser \/ InitializeWriter
           \/ (WorkerReady /\ worker = "idle")
  <2>1. /\ pc \in Startup /\ pc' \in Startup
        /\ UNCHANGED <<options, command, reply, event, delivered, current,
                       tree, pending, lastAction, handler, result, error,
                       violationsCount, lastHash, trace, steps, answered>>
        /\ worker' = worker \/ worker' # "stepping"
    BY <1>1 DEF BundleSpecification, LaunchBrowser, InitializeWriter,
                WorkerReady
  <2>2. Types' /\ Starting' /\ Asked'
    BY <2>1 DEF IInv, Types, Starting, Asked
  <2>3. Lockstep' /\ Counting' /\ Path'
    BY <2>1 DEF IInv, Lockstep, Counting, Path, Phase, SomeViolation,
                TraceIsAPath
  <2> QED
    BY <2>2, <2>3 DEF IInv
<1>2. CASE Initiate
  <2>1. Types' /\ Starting' /\ Asked'
    BY <1>2 DEF Initiate, IInv, Types, Starting, Asked
  <2>2. Lockstep' /\ Counting' /\ Path'
    BY <1>2 DEF Initiate, IInv, Lockstep, Counting, Path, Phase,
                SomeViolation, TraceIsAPath
  <2> QED
    BY <2>1, <2>2 DEF IInv
<1>3. CASE StartFails \/ (WorkerReady /\ worker = "gone")
  <2>1. PICK what \in Startup \cup {"specification"} : Fails(what)
    BY <1>3 DEF StartFails, WorkerReady
  <2>2. worker # "stepping" /\ command = <<>>
    BY <1>3 DEF StartFails, WorkerReady, IInv, Asked
  <2>3. lastHash \in Nat
    BY DEF IInv, Types
  <2> QED
    BY <1>3, <2>1, <2>2, <2>3, FailureKeeps DEF StartFails, WorkerReady
<1> QED
  BY <1>1, <1>2, <1>3 DEF GettingReady, WorkerReady

-----------------------------------------------------------------------------
(* The browser and the user *)

(* The state that is delivered is the one after those that were answered. *)
LEMMA DeliverStateKeeps == ASSUME IInv, DeliverState PROVE IInv'
<1>1. PICK time \in Times, url \in Urls :
         event' = State(delivered + 1, time, url)
  BY DEF DeliverState
<1>2. /\ delivered = Len(answered) /\ delivered' = delivered + 1 /\ handler
      /\ UNCHANGED <<pc, options, workerVars, signalVars, stateVars, lastAction,
                     endVars, writerVars, exit, historyVars>>
  BY DEF DeliverState
<1>3. Types /\ delivered \in Nat
  BY DEF IInv, Types
<1>4. event' \in States /\ event'.id = delivered + 1 /\ event'.hash = event'.id
  BY <1>1, <1>3 DEF State, States
<1>5. ~InHand /\ pc # "deciding"
  BY <1>2, <1>3 DEF IInv, Path
<1>6. Types'
  <2>1. /\ UNCHANGED <<pc, options, reply, steps, trace, answered,
                       violationsCount, lastHash, pending, handler, lastAction,
                       tree>>
        /\ delivered' \in Nat
    BY <1>2, <1>3
  <2> QED
    BY <2>1, <1>3 DEF Types
<1>7. Starting' /\ Asked' /\ Lockstep' /\ Counting'
  BY <1>2 DEF IInv, Starting, Asked, Lockstep, Counting, Phase, SomeViolation
<1>8. Path'
  BY <1>2, <1>3, <1>4, <1>5 DEF IInv, Path, TraceIsAPath
<1> QED
  BY <1>6, <1>7, <1>8 DEF IInv

LEMMA EnvironmentKeeps ==
    ASSUME IInv, Environment \/ ScreenshotWritten PROVE IInv'
<1>1. CASE DeliverState
  BY <1>1, DeliverStateKeeps
<1>2. CASE BrowserStops
  <2>1. Types' /\ Starting' /\ Asked'
    BY <1>2 DEF BrowserStops, IInv, Types, Starting, Asked
  <2>2. Lockstep' /\ Counting'
    BY <1>2 DEF BrowserStops, IInv, Lockstep, Counting, Phase, SomeViolation
  <2>3. Path'
    BY <1>2 DEF BrowserStops, IInv, Path, TraceIsAPath
  <2> QED
    BY <2>1, <2>2, <2>3 DEF IInv
<1>3. CASE Interrupt \/ ScreenshotWritten
  BY <1>3, UnseenKeeps DEF Interrupt, ScreenshotWritten
<1> QED
  BY <1>1, <1>2, <1>3 DEF Environment

-----------------------------------------------------------------------------
(* The worker's thread *)

LEMMA WorkerRepliesKeeps == ASSUME IInv, WorkerReplies PROVE IInv'
<1>1. pc = "verifying" /\ reply = Nothing /\ command = <<>>
  BY DEF IInv, Asked, WorkerReplies
<1>2. PICK violations \in Counts, anyPending \in BOOLEAN, actions \in Generated :
         /\ reply' = StepResult(violations, anyPending, actions)
         /\ steps' = Append(steps, [violations |-> violations,
                                    pending |-> anyPending])
  BY DEF WorkerReplies
<1> DEFINE answer == [violations |-> violations, pending |-> anyPending]
<1>3. /\ reply' \in StepResults /\ ~IsError(reply') /\ reply' # Nothing
      /\ reply'.violations = violations /\ reply'.pending = anyPending
  BY <1>2, Replies
<1>4. /\ steps' \in Seq(Answers) /\ Len(steps') = Len(steps) + 1
      /\ steps'[Len(steps')] = answer
  <2>1. steps \in Seq(Answers) /\ answer \in Answers
    BY CountsAreNaturals DEF IInv, Types, Answers
  <2> QED
    BY <2>1, <1>2, AppendProperties
<1>5. /\ worker' = "idle"
      /\ UNCHANGED <<pc, options, command, browserVars, signalVars, stateVars,
                     lastAction, endVars, writerVars, exit, answered>>
  BY DEF WorkerReplies
<1>6. Types' /\ Starting' /\ Asked'
  BY <1>1, <1>3, <1>4, <1>5 DEF IInv, Types, Starting, Asked
<1>7. Lockstep'
  BY <1>1, <1>3, <1>4, <1>5, Replies DEF IInv, Lockstep, Phase
<1>8. Counting' /\ Path'
  BY <1>1, <1>5 DEF IInv, Counting, SomeViolation, Path, TraceIsAPath
<1> QED
  BY <1>6, <1>7, <1>8 DEF IInv

LEMMA WorkerKeeps == ASSUME IInv, Worker PROVE IInv'
<1>1. CASE WorkerLoads
  BY <1>1, UnseenKeeps DEF WorkerLoads
<1>2. CASE WorkerTakesStep
  <2>1. Asked'
    BY <1>2 DEF WorkerTakesStep, IInv, Asked
  <2>2. Types' /\ Starting'
    BY <1>2 DEF WorkerTakesStep, IInv, Types, Starting
  <2>3. Lockstep' /\ Counting' /\ Path'
    BY <1>2 DEF WorkerTakesStep, IInv, Lockstep, Counting, Path, Phase,
                SomeViolation, TraceIsAPath
  <2> QED
    BY <2>1, <2>2, <2>3 DEF IInv
<1>3. CASE WorkerReplies
  BY <1>3, WorkerRepliesKeeps
<1>4. CASE WorkerReportsError \/ WorkerPanics
  <2>1. pc = "verifying" /\ reply = Nothing /\ command = <<>>
    BY <1>4 DEF IInv, Asked, WorkerReportsError, WorkerPanics
  <2>2. reply' \in StepErrors /\ IsError(reply')
    BY <1>4, Replies DEF WorkerReportsError, WorkerPanics
  <2>3. /\ worker' \in {"idle", "gone"}
        /\ UNCHANGED <<pc, options, command, browserVars, signalVars, stateVars,
                       lastAction, endVars, writerVars, historyVars>>
    BY <1>4 DEF WorkerReportsError, WorkerPanics
  <2>4. Types' /\ Starting' /\ Asked'
    BY <2>1, <2>2, <2>3 DEF IInv, Types, Starting, Asked
  <2>5. Lockstep'
    BY <2>1, <2>2, <2>3, Replies DEF IInv, Lockstep, Phase
  <2>6. Counting' /\ Path'
    BY <2>1, <2>3 DEF IInv, Counting, SomeViolation, Path, TraceIsAPath
  <2> QED
    BY <2>4, <2>5, <2>6 DEF IInv
<1> QED
  BY <1>1, <1>2, <1>3, <1>4 DEF Worker

-----------------------------------------------------------------------------
(* The turn of the loop *)

LEMMA TakingKeeps ==
    ASSUME IInv, TakeState \/ TakeStop \/ OnInterrupted PROVE IInv'
<1>1. CASE TakeState
  <2>1. Types' /\ Starting' /\ Asked'
    BY <1>1 DEF TakeState, IInv, Types, Starting, Asked
  <2>2. Lockstep' /\ Counting'
    BY <1>1 DEF TakeState, IInv, Lockstep, Counting, Phase, SomeViolation
  <2>3. Path'
    BY <1>1 DEF TakeState, IInv, Types, Path, TraceIsAPath
  <2> QED
    BY <2>1, <2>2, <2>3 DEF IInv
<1>2. CASE TakeStop
  <2>1. worker # "stepping" /\ command = <<>> /\ lastHash \in Nat
    BY <1>2 DEF TakeStop, IInv, Asked, Types
  <2> QED
    BY <1>2, <2>1, FailureKeeps DEF TakeStop
<1>3. CASE OnInterrupted
  <2>1. Types' /\ Starting' /\ Asked' /\ Lockstep' /\ Path'
    BY <1>3 DEF OnInterrupted, Returns, IInv, Types, Starting, Asked, Lockstep,
                Phase, Path, TraceIsAPath
  <2>2. Counting'
    BY <1>3, Results DEF OnInterrupted, Returns, IInv, Counting, SomeViolation
  <2> QED
    BY <2>1, <2>2 DEF IInv
<1> QED
  BY <1>1, <1>2, <1>3

LEMMA ExtractingKeeps ==
    ASSUME IInv, RunExtractors \/ ExtractorFails PROVE IInv'
<1>1. worker # "stepping" /\ command = <<>> /\ lastHash \in Nat
  BY DEF IInv, Asked, Types, RunExtractors, ExtractorFails
<1>2. CASE RunExtractors /\ worker # "gone"
  <2>1. /\ pc = "extracting" /\ pc' = "verifying"
        /\ command' = <<current.id>> /\ current.id \in Nat
        /\ reply' = Nothing
        /\ UNCHANGED <<options, worker, browserVars, signalVars, stateVars,
                       lastAction, endVars, writerVars, exit, historyVars>>
    BY <1>1, <1>2 DEF RunExtractors, IInv, Path, States
  <2>2. Types' /\ Starting' /\ Asked'
    BY <1>1, <2>1 DEF IInv, Types, Starting, Asked
  <2>3. Lockstep' /\ Counting'
    BY <2>1 DEF IInv, Lockstep, Counting, Phase, SomeViolation
  <2>4. Path'
    BY <2>1 DEF IInv, Path, TraceIsAPath
  <2> QED
    BY <2>2, <2>3, <2>4 DEF IInv
<1>3. CASE ExtractorFails \/ (RunExtractors /\ worker = "gone")
  BY <1>1, <1>3, FailureKeeps DEF RunExtractors, ExtractorFails
<1> QED
  BY <1>2, <1>3

(* The answer is taken over, and the observer counts its violations. *)
LEMMA ReceiveStepKeeps == ASSUME IInv, ReceiveStep PROVE IInv'
<1>1. /\ reply \in StepResults /\ pc = "verifying" /\ pc' = "recording"
      /\ reply.violations \in Nat /\ reply.pending \in BOOLEAN
  BY Replies, ResultTyped DEF IInv, Types, ReceiveStep
<1>2. tree' \in Trees
  BY <1>1 DEF ReceiveStep, Offered, Trees, StepResults
<1>3. /\ violationsCount' = violationsCount + reply.violations
      /\ pending' = reply.pending
      /\ UNCHANGED <<options, workerVars, browserVars, signalVars, current,
                     lastAction, endVars, lastHash, screenshots, unwritten,
                     trace, exit, historyVars>>
  BY DEF ReceiveStep, Counted
<1>4. Types' /\ Starting' /\ Asked'
  BY <1>1, <1>2, <1>3, Replies DEF IInv, Types, Starting, Asked
<1>5. Lockstep'
  BY <1>1, <1>2, <1>3, Replies DEF IInv, Lockstep, Phase
<1>6. Counting'
  BY <1>1, <1>3 DEF IInv, Counting, Types, SomeViolation
<1>7. Path'
  BY <1>1, <1>3 DEF IInv, Path, TraceIsAPath
<1> QED
  BY <1>4, <1>5, <1>6, <1>7 DEF IInv

(* The entry that is appended goes on where the trace ended. *)
LEMMA AppendEntryKeeps == ASSUME IInv, AppendEntry PROVE IInv'
<1>1. /\ pc = "appending" /\ pc' = "deciding" /\ reply \in StepResults
      /\ reply.violations \in Nat
  BY ResultTyped DEF IInv, Lockstep, Phase, AppendEntry
<1> DEFINE entry == Entry(current, lastAction, reply.violations)
<1>2. trace \in Seq(Entries) /\ Len(trace) \in Nat /\ DOMAIN trace = 1..Len(trace)
  BY LenProperties DEF IInv, Types
<1>3. current \in States /\ current.id = Len(trace) + 1
  BY <1>1 DEF IInv, Path
<1>4. /\ entry \in Entries /\ entry.state = Len(trace) + 1
      /\ entry.action = lastAction /\ entry.hash = current.hash
      /\ entry.hashPrevious = lastHash /\ entry.violations = reply.violations
  BY <1>1, <1>3 DEF IInv, Types, States, Entries, Entry
<1>5. /\ trace' = Append(trace, entry)
      /\ lastHash' = current.hash /\ current.hash \in Nat
      /\ UNCHANGED <<options, workerVars, browserVars, signalVars, stateVars,
                     lastAction, endVars, violationsCount, screenshots,
                     unwritten, exit, historyVars>>
  BY <1>3 DEF AppendEntry, States
<1> HIDE DEF entry
<1>6. /\ trace' \in Seq(Entries) /\ Len(trace') = Len(trace) + 1
      /\ DOMAIN trace' = 1..(Len(trace) + 1)
      /\ trace'[Len(trace) + 1] = entry
      /\ \A i \in 1..Len(trace) : trace'[i] = trace[i]
  BY <1>2, <1>4, <1>5
<1>7. Types' /\ Starting' /\ Asked'
  BY <1>1, <1>5, <1>6 DEF IInv, Types, Starting, Asked
<1>8. Lockstep'
  BY <1>1, <1>2, <1>5, <1>6 DEF IInv, Lockstep, Phase
<1>9. Counting'
  <2>1. SomeViolation' <=> SomeViolation \/ reply.violations > 0
    BY <1>2, <1>4, <1>6 DEF SomeViolation
  <2> QED
    BY <1>1, <1>5, <2>1 DEF IInv, Counting
<1>10. TraceIsAPath'
  <2>1. lastAction = Nothing <=> Len(trace) = 0
    BY <1>1, <1>2 DEF IInv, Path, Types
  <2>2. lastHash = IF Len(trace) = 0 THEN NoHash ELSE trace[Len(trace)].hash
    BY <1>1, <1>2 DEF IInv, Path
  <2>3. TraceIsAPath
    BY DEF IInv, Path
  <2> SUFFICES
        ASSUME NEW i \in 1..(Len(trace) + 1)
        PROVE  /\ trace'[i].state = i
               /\ (trace'[i].action = Nothing <=> i = 1)
               /\ trace'[i].hashPrevious =
                    IF i = 1 THEN NoHash ELSE trace'[i - 1].hash
    BY <1>6, Zenon DEF TraceIsAPath
  <2>4. CASE i \in 1..Len(trace)
    <3>1. i = 1 \/ i - 1 \in 1..Len(trace)
      BY <2>4, <1>2
    <3> QED
      BY <2>4, <1>2, <1>6, <2>3, <3>1 DEF TraceIsAPath
  <2>5. CASE i = Len(trace) + 1
    <3>1. i = 1 <=> Len(trace) = 0
      BY <2>5, <1>2
    <3>2. i # 1 => i - 1 = Len(trace) /\ Len(trace) \in 1..Len(trace)
      BY <2>5, <1>2
    <3> QED
      BY <2>5, <1>4, <1>6, <2>1, <2>2, <3>1, <3>2
  <2> QED
    BY <2>4, <2>5, <1>2
<1>11. Path'
  BY <1>1, <1>2, <1>3, <1>4, <1>5, <1>6, <1>10 DEF IInv, Path, States
<1> QED
  BY <1>7, <1>8, <1>9, <1>11 DEF IInv

LEMMA WritingKeeps ==
    ASSUME IInv, StepFails \/ WriteScreenshot \/ WriteFails PROVE IInv'
<1>1. worker # "stepping" /\ command = <<>> /\ lastHash \in Nat
  BY DEF IInv, Asked, Types, StepFails, WriteScreenshot, WriteFails
<1>2. CASE WriteScreenshot
  <2>1. Types' /\ Starting' /\ Asked'
    BY <1>2 DEF WriteScreenshot, IInv, Types, Starting, Asked
  <2>2. Lockstep' /\ Counting'
    BY <1>2, Replies DEF WriteScreenshot, IInv, Lockstep, Counting, Phase,
                SomeViolation
  <2>3. Path'
    BY <1>2 DEF WriteScreenshot, IInv, Path, TraceIsAPath
  <2> QED
    BY <2>1, <2>2, <2>3 DEF IInv
<1>3. CASE StepFails
  <2>1. PICK what \in {"specification", "worker", "action"} : Fails(what)
    BY <1>3, Replies DEF StepFails, IInv, Types, StepErrors
  <2> QED
    BY <1>1, <1>3, <2>1, FailureKeeps DEF StepFails
<1>4. CASE WriteFails
  <2>1. lastHash' \in Nat
    BY <1>1, <1>4 DEF WriteFails, IInv, Path, States
  <2> QED
    BY <1>1, <1>4, <2>1, FailureKeeps DEF WriteFails
<1> QED
  BY <1>2, <1>3, <1>4

LEMMA StoppingKeeps ==
    ASSUME IInv, ObserverStops \/ AllDefinite PROVE IInv'
<1>1. PICK value :
         /\ Returns(value)
         /\ \/ value = Nothing
            \/ \E reason \in {"ExitOnViolation", "TimeLimit"} :
                  value = Result(reason, violationsCount)
  BY DEF ObserverStops, AllDefinite
<1>2. /\ pc = "deciding" /\ pc' = "terminating" /\ result' = value
      /\ UNCHANGED <<options, workerVars, browserVars, signalVars, stateVars,
                     lastAction, error, writerVars, historyVars>>
  BY <1>1 DEF ObserverStops, AllDefinite, Returns
<1>3. Types' /\ Starting' /\ Asked' /\ Lockstep' /\ Path'
  BY <1>2 DEF IInv, Types, Starting, Asked, Lockstep, Phase, Path, TraceIsAPath
<1>4. Counting'
  BY <1>1, <1>2, Results DEF IInv, Counting, SomeViolation
<1> QED
  BY <1>3, <1>4 DEF IInv

(* The action that is picked answers the state in hand. *)
LEMMA PickAndApplyKeeps == ASSUME IInv, PickAndApply PROVE IInv'
<1>1. /\ pc = "deciding" /\ tree \in Trees /\ Prunes(tree) # NoActions
      /\ UNCHANGED <<options, workerVars, browserVars, signalVars, stateVars,
                     writerVars, exit, steps>>
  BY DEF PickAndApply, IInv, Lockstep
<1>2. /\ worker # "stepping" /\ command = <<>> /\ lastHash \in Nat
      /\ answered \in Seq(Nat) /\ current.id \in Nat
  BY <1>1 DEF IInv, Asked, Types, Path
<1>3. PICK picked \in Chooses(Prunes(tree)) :
         IF picked = NoActions
         THEN Fails("zeroTotalWeight") /\ UNCHANGED <<lastAction, answered>>
         ELSE /\ lastAction' = picked
              /\ answered' = Append(answered, current.id)
              /\ pc' = "waiting"
              /\ UNCHANGED endVars
  BY DEF PickAndApply
<1>4. CASE picked = NoActions
  BY <1>1, <1>2, <1>3, <1>4, FailureKeeps
<1>5. CASE picked # NoActions
  <2>1. picked \in Actions /\ picked # Nothing
    <3>1. picked \in UNION {Chooses(Prunes(t)) :
                               t \in {u \in Trees : Prunes(u) # NoActions}}
      BY <1>1, Zenon
    <3>2. picked \in Actions
      <4>1. picked \notin {NoActions}
        BY <1>5
      <4> QED
        BY <3>1, <4>1, Zenon DEF Actions
    <3> QED
      BY <3>2, ActionsAssumption
  <2>2. /\ lastAction' = picked /\ pc' = "waiting" /\ UNCHANGED endVars
        /\ answered' \in Seq(Nat) /\ Len(answered') = Len(answered) + 1
        /\ answered' # <<>>
    BY <1>2, <1>3, <1>5
  <2>3. Types' /\ Starting' /\ Asked'
    BY <1>1, <2>1, <2>2 DEF IInv, Types, Starting, Asked
  <2>4. Lockstep' /\ Counting'
    BY <1>1, <2>2 DEF IInv, Lockstep, Counting, Phase, SomeViolation
  <2>5. Path'
    BY <1>1, <1>2, <2>1, <2>2 DEF IInv, Path, Types, TraceIsAPath
  <2> QED
    BY <2>3, <2>4, <2>5 DEF IInv
<1> QED
  BY <1>4, <1>5

LEMMA TurnKeeps == ASSUME IInv, Turn PROVE IInv'
<1>1. CASE NoActionsAvailable \/ ApplyFails
  <2>1. worker # "stepping" /\ command = <<>> /\ lastHash \in Nat
    BY <1>1 DEF IInv, Asked, Types, NoActionsAvailable, ApplyFails
  <2> QED
    BY <1>1, <2>1, FailureKeeps DEF NoActionsAvailable, ApplyFails
<1> QED
  BY <1>1, TakingKeeps, ExtractingKeeps, ReceiveStepKeeps, AppendEntryKeeps,
     WritingKeeps, StoppingKeeps, PickAndApplyKeeps DEF Turn

-----------------------------------------------------------------------------
(* The end *)

LEMMA EndingKeeps == ASSUME IInv, Ending PROVE IInv'
<1>1. /\ pc \in {"terminating", "exiting"} /\ pc' \in {pc, "exiting"}
      /\ UNCHANGED <<options, workerVars, browserVars, signalVars, stateVars,
                     lastAction, endVars, violationsCount, lastHash, trace,
                     historyVars>>
  BY DEF Ending, Terminate, Exit
<1>2. Types' /\ Starting' /\ Asked'
  BY <1>1 DEF IInv, Types, Starting, Asked
<1>3. Lockstep' /\ Counting' /\ Path'
  BY <1>1 DEF IInv, Lockstep, Counting, Path, Phase, SomeViolation, TraceIsAPath
<1> QED
  BY <1>2, <1>3 DEF IInv

-----------------------------------------------------------------------------
LEMMA InitInvariant == Init => IInv
<1> SUFFICES ASSUME Init PROVE IInv
  OBVIOUS
<1>1. Types
  <2>1. /\ pc \in Pcs /\ reply \in {Nothing} /\ delivered \in Nat
        /\ violationsCount \in Nat /\ lastHash \in Nat
        /\ pending \in BOOLEAN /\ handler \in BOOLEAN
        /\ lastAction \in {Nothing} /\ tree \in {NoActions}
    BY DEF Init, NoHash
  <2>2. steps \in Seq(Answers) /\ trace \in Seq(Entries) /\ answered \in Seq(Nat)
    BY DEF Init
  <2>3. options \in [exitOnViolation : BOOLEAN, deadline : {1, MaxTime + 1}]
    BY DEF Init
  <2> QED
    BY <2>1, <2>2, <2>3 DEF Types
<1>2. Starting /\ Asked /\ Lockstep /\ Counting /\ Path
  BY DEF Init, Starting, Asked, Lockstep, Counting, Path, Phase, SomeViolation,
         TraceIsAPath
<1> QED
  BY <1>1, <1>2 DEF IInv

LEMMA NextInvariant == IInv /\ [Next]_vars => IInv'
<1> SUFFICES ASSUME IInv, [Next]_vars PROVE IInv'
  OBVIOUS
<1>1. CASE UNCHANGED vars
  BY <1>1, UnseenKeeps
<1> QED
  BY <1>1, GettingReadyKeeps, EnvironmentKeeps, WorkerKeeps, TurnKeeps,
     EndingKeeps DEF Next

LEMMA Invariant == Spec => []IInv
BY InitInvariant, NextInvariant, PTL DEF Spec

(* The entries of the trace are the states in the order they were answered,   *)
(* each with the action that led to it and the hash of the one before,        *)
(* however many states a test has and wherever it ends: TraceIsAPath is an    *)
(* invariant of a test.                                                       *)
THEOREM TracesArePaths == Spec => []TraceIsAPath
<1>1. IInv => TraceIsAPath
  BY DEF IInv, Path
<1> QED
  BY <1>1, Invariant, PTL


-----------------------------------------------------------------------------
(* The screenshots *)

(* A file is only ever created under a new name, so what an entry points to   *)
(* stays what it was; nothing is left to write when main was left.            *)
Shown(time, id) == time \in DOMAIN screenshots /\ screenshots[time] = id
Screens ==
    /\ \A i \in DOMAIN trace : Shown(trace[i].time, trace[i].state)
    /\ pc = "appending" => Shown(current.time, current.id)
    /\ exit \in {"success", "error"} => unwritten = {}

LEMMA ScreensInitially == Init => Screens
BY DEF Init, Screens, Shown

LEMMA ScreensKept == ASSUME IInv, Screens, [Next]_vars PROVE Screens'
<1>1. CASE WriteScreenshot
  <2>1. /\ current.time \notin DOMAIN screenshots
        /\ screenshots' = [time \in DOMAIN screenshots \cup {current.time} |->
                            IF time = current.time THEN current.id
                            ELSE screenshots[time]]
        /\ exit = "none" /\ UNCHANGED <<trace, current, exit>>
    BY <1>1 DEF WriteScreenshot, CreatesAnew
  <2> QED
    BY <2>1 DEF Screens, Shown
<1>2. CASE AppendEntry
  <2>1. /\ pc = "appending" /\ pc' = "deciding" /\ exit = "none"
        /\ trace' = Append(trace, Entry(current, lastAction, reply.violations))
        /\ UNCHANGED <<screenshots, exit>>
    BY <1>2 DEF AppendEntry
  <2>2. \A i \in DOMAIN trace' :
           \/ i \in DOMAIN trace /\ trace'[i] = trace[i]
           \/ trace'[i].time = current.time /\ trace'[i].state = current.id
    BY <2>1 DEF IInv, Types, Entry
  <2> QED
    BY <2>1, <2>2 DEF Screens, Shown
<1>3. CASE Exit
  BY <1>3 DEF Exit, Screens, Shown
<1>4. CASE UNCHANGED vars
  BY <1>4 DEF Screens, Shown
<1>5. CASE GettingReady \/ Worker \/ Environment \/ Terminate \/ ScreenshotWritten
  <2>1. /\ UNCHANGED <<trace, screenshots, current>>
        /\ exit = "none" /\ exit' \in {"none", "panic", "killed"}
        /\ pc' = "appending" => pc = "appending"
    BY <1>5 DEF GettingReady, Worker, Environment, BundleSpecification,
       WorkerReady, LaunchBrowser, InitializeWriter, Initiate, StartFails,
       WorkerLoads, WorkerTakesStep, WorkerReplies, WorkerReportsError,
       WorkerPanics, DeliverState, BrowserStops, Interrupt, Terminate,
       ScreenshotWritten, Fails
  <2> QED
    BY <2>1 DEF Screens, Shown
<1>6. CASE Turn /\ ~WriteScreenshot /\ ~AppendEntry
  <2>1. /\ UNCHANGED <<trace, screenshots, exit>>
        /\ exit = "none" /\ pc' # "appending"
    BY <1>6 DEF Turn, TakeState, TakeStop, OnInterrupted, RunExtractors,
       ExtractorFails, ReceiveStep, StepFails, WriteFails, ObserverStops,
       AllDefinite, NoActionsAvailable, PickAndApply, ApplyFails, Fails, Returns
  <2> QED
    BY <2>1 DEF Screens, Shown
<1> QED
  BY <1>1, <1>2, <1>3, <1>4, <1>5, <1>6 DEF Next, Ending

(* The screenshot an entry names shows the entry's state, whatever the clock  *)
(* and the output directory were, and is on the disk when main was left:      *)
(* EntriesHaveScreenshots is an invariant of a test.                          *)
THEOREM EntriesKeepTheirScreenshots == Spec => []EntriesHaveScreenshots
<1>1. Screens => EntriesHaveScreenshots
  BY DEF Screens, Shown, EntriesHaveScreenshots
<1> QED
  BY <1>1, ScreensInitially, ScreensKept, Invariant, PTL DEF Spec

-----------------------------------------------------------------------------
(* The choice of an action *)

(* While a state is written and decided on, the tree is the one its answer    *)
(* offers; what is chosen from it, or why nothing is, stays explained by that *)
(* answer for as long as the runner waits or ends.                            *)
Choosing ==
    /\ Writing \/ pc = "deciding" =>
        /\ reply \in StepResults /\ Converted(reply.actions) # NoActions
        /\ tree = Offered(Converted(reply.actions))
    /\ ActionsWereGenerated
    /\ ActsWhenItCan

NoChoice == {"noActionsAvailable", "zeroTotalWeight", "action"}

(* A tree that is offered holds the actions of its answer that are allowed in *)
(* the state in hand, and no weight of zero of its own. *)
LEMMA OfferedTree ==
    ASSUME NEW g \in Generated, Converted(g) # NoActions
    PROVE  /\ Offered(Converted(g)) \in Trees
           /\ \A action \in LeavesOf(Offered(Converted(g))) :
                action \in LeavesOf(g) /\ Convertible(action) /\ Allowed(action)
           /\ \A action \in LeavesOf(g) :
                Allowed(action) => action \in LeavesOf(Offered(Converted(g)))
           /\ HasZeroWeight(Offered(Converted(g))) => HasZeroWeight(g)
<1> DEFINE c == Converted(g)
<1>1. c \in Trees /\ Restricted(c) \in Trees
  BY DEF Trees
<1>2. /\ \A action \in LeavesOf(g) : Convertible(action)
      /\ LeavesOf(c) = LeavesOf(g)
      /\ HasZeroWeight(c) => HasZeroWeight(g)
  BY TreesAssumption
<1>3. /\ LeavesOf(Restricted(c)) = LeavesOf(c) \cap {GoBack}
      /\ HasZeroWeight(Restricted(c)) => HasZeroWeight(c)
  BY <1>1, TreesAssumption
<1> HIDE DEF c
<1>4. CASE IsWithinDomain(current.url, Origin)
  <2>1. Offered(c) = c
    BY <1>4 DEF Offered
  <2> QED
    BY <1>1, <1>2, <1>4, <2>1 DEF Allowed, c
<1>5. CASE ~IsWithinDomain(current.url, Origin)
  <2>1. Offered(c) = Restricted(c)
    BY <1>5 DEF Offered
  <2> QED
    BY <1>1, <1>2, <1>3, <1>5, <2>1 DEF Allowed, c
<1> QED
  BY <1>4, <1>5

(* What pruning and picking make of it *)
LEMMA ChoiceOfOffered ==
    ASSUME NEW g \in Generated, Converted(g) # NoActions,
           NEW t, t = Offered(Converted(g))
    PROVE  /\ Prunes(t) = NoActions =>
                \A action \in LeavesOf(g) : ~Allowed(action)
           /\ Prunes(t) # NoActions =>
                \A picked \in Chooses(Prunes(t)) :
                    IF picked = NoActions THEN HasZeroWeight(g)
                    ELSE /\ picked \in LeavesOf(g)
                         /\ Convertible(picked) /\ Allowed(picked)
<1>1. /\ t \in Trees
      /\ \A action \in LeavesOf(t) :
            action \in LeavesOf(g) /\ Convertible(action) /\ Allowed(action)
      /\ \A action \in LeavesOf(g) : Allowed(action) => action \in LeavesOf(t)
      /\ HasZeroWeight(t) => HasZeroWeight(g)
  BY OfferedTree
<1>2. IF Prunes(t) = NoActions THEN LeavesOf(t) = {}
      ELSE /\ Chooses(Prunes(t)) \subseteq LeavesOf(t) \cup {NoActions}
           /\ NoActions \in Chooses(Prunes(t)) => HasZeroWeight(t)
  BY <1>1, TreesAssumption
<1> QED
  BY <1>1, <1>2

LEMMA ResultsAreNoErrors ==
    IInv => (reply \in StepErrors <=> reply # Nothing /\ IsError(reply))
BY Replies DEF IInv, Types

LEMMA ChoosingInitially == Init => Choosing
BY DEF Init, Choosing, ActionsWereGenerated, ActsWhenItCan

(* Steps that neither offer nor choose leave what was chosen alone, *)
LEMMA ChosenStays ==
    ASSUME Choosing, UNCHANGED <<reply, current, tree, lastAction, answered>>,
           pc' \in {"recording", "appending", "deciding"} =>
                Writing \/ pc = "deciding",
           pc' = "waiting" => pc = "waiting" \/ answered = <<>>,
           error' \in NoChoice => error' = error
    PROVE  Choosing'
<1>1. ActionsWereGenerated'
  BY DEF Choosing, ActionsWereGenerated, Allowed
<1>2. ActsWhenItCan'
  BY DEF Choosing, ActsWhenItCan, Allowed, NoChoice
<1>3. (Writing \/ pc = "deciding")' =>
        /\ reply \in StepResults /\ Converted(reply.actions) # NoActions
        /\ tree = Offered(Converted(reply.actions))
  BY DEF Choosing
<1>4. Offered(Converted(reply.actions))' = Offered(Converted(reply.actions))
  BY DEF Offered
<1> QED
  BY <1>1, <1>2, <1>3, <1>4 DEF Choosing

(* or come before there is anything to choose from. *)
LEMMA NothingChosen ==
    ASSUME pc' \notin {"recording", "appending", "deciding", "waiting"},
           error' \notin NoChoice
    PROVE  Choosing'
BY DEF Choosing, ActionsWereGenerated, ActsWhenItCan, NoChoice

LEMMA ReceiveStepChooses == ASSUME IInv, ReceiveStep PROVE Choosing'
<1>1. /\ reply \in StepResults /\ Converted(reply.actions) # NoActions
      /\ tree' = Offered(Converted(reply.actions)) /\ pc' = "recording"
      /\ UNCHANGED <<reply, current, error>>
  BY Replies DEF ReceiveStep, IInv, Types
<1>2. error' = NoError
  BY <1>1 DEF IInv, Counting, ReceiveStep
<1>3. Offered(Converted(reply.actions))' = Offered(Converted(reply.actions))
  BY <1>1 DEF Offered
<1> QED
  BY <1>1, <1>2, <1>3
  DEF Choosing, ActionsWereGenerated, ActsWhenItCan

LEMMA StepFailsChooses == ASSUME IInv, StepFails PROVE Choosing'
<1>1. pc' = "terminating" /\ UNCHANGED <<reply, current>>
  BY DEF StepFails, Fails
<1>2. CASE IsError(reply)
  <2>1. reply \in StepErrors
    BY <1>2, ResultsAreNoErrors DEF StepFails
  <2>2. error' \in {"specification", "worker"}
    BY <1>2, <2>1 DEF StepFails, Fails, StepErrors
  <2> QED
    BY <1>1, <2>2, NothingChosen DEF NoChoice
<1>3. CASE ~IsError(reply)
  <2>1. /\ reply \in StepResults /\ Converted(reply.actions) = NoActions
        /\ error' = "action"
    BY <1>3, Replies DEF StepFails, Fails, IInv, Types
  <2>2. reply.actions \in Generated
    BY <2>1 DEF StepResults
  <2>3. \E action \in LeavesOf(reply.actions) : ~Convertible(action)
    BY <2>1, <2>2, TreesAssumption
  <2>4. \E action \in LeavesOf(reply'.actions) : ~Convertible(action)
    BY <1>1, <2>3
  <2> QED
    BY <1>1, <2>1, <2>4 DEF Choosing, ActionsWereGenerated, ActsWhenItCan
<1> QED
  BY <1>2, <1>3

LEMMA DecisionChooses ==
    ASSUME IInv, Choosing, NoActionsAvailable \/ PickAndApply
    PROVE  Choosing'
<1>1. /\ pc = "deciding" /\ UNCHANGED <<reply, current, tree>>
      /\ reply \in StepResults /\ reply.actions \in Generated
      /\ Converted(reply.actions) # NoActions
      /\ tree = Offered(Converted(reply.actions))
  BY DEF NoActionsAvailable, PickAndApply, Choosing, StepResults
<1>2. /\ Prunes(tree) = NoActions =>
            \A action \in LeavesOf(reply.actions) : ~Allowed(action)
      /\ Prunes(tree) # NoActions =>
            \A picked \in Chooses(Prunes(tree)) :
                IF picked = NoActions THEN HasZeroWeight(reply.actions)
                ELSE /\ picked \in LeavesOf(reply.actions)
                     /\ Convertible(picked) /\ Allowed(picked)
  BY <1>1, ChoiceOfOffered
<1>3. \A action : Allowed(action) <=>
                    IsWithinDomain(current'.url, Origin) \/ action = GoBack
  BY <1>1 DEF Allowed
<1>4. CASE NoActionsAvailable
  <2>1. /\ Prunes(tree) = NoActions /\ pc' = "terminating"
        /\ error' = "noActionsAvailable"
    BY <1>4 DEF NoActionsAvailable, Fails
  <2>2. ActsWhenItCan'
    BY <1>1, <1>2, <1>3, <2>1 DEF ActsWhenItCan, Allowed
  <2> QED
    BY <2>1, <2>2 DEF Choosing, ActionsWereGenerated
<1>5. CASE PickAndApply
  <2>1. PICK picked \in Chooses(Prunes(tree)) :
           IF picked = NoActions
           THEN Fails("zeroTotalWeight")
           ELSE /\ lastAction' = picked
                /\ answered' = Append(answered, current.id)
                /\ pc' = "waiting" /\ UNCHANGED endVars
    BY <1>5 DEF PickAndApply
  <2>2. Prunes(tree) # NoActions
    BY <1>5 DEF PickAndApply
  <2>3. CASE picked = NoActions
    <3>1. pc' = "terminating" /\ error' = "zeroTotalWeight"
      BY <1>1, <2>1, <2>3 DEF Fails
    <3>2. HasZeroWeight(reply'.actions)
      BY <1>1, <1>2, <2>2, <2>3
    <3> QED
      BY <3>1, <3>2 DEF Choosing, ActionsWereGenerated, ActsWhenItCan
  <2>4. CASE picked # NoActions
    <3>1. /\ picked \in LeavesOf(reply'.actions) /\ Convertible(picked)
          /\ IsWithinDomain(current'.url, Origin) \/ picked = GoBack
      BY <1>1, <1>2, <1>3, <2>2, <2>4
    <3>2. answered'[Len(answered')] = current'.id
      BY <1>1, <2>1, <2>4, AppendProperties DEF IInv, Types, Path
    <3>3. error' = NoError /\ pc' = "waiting" /\ lastAction' = picked
      BY <1>1, <2>1, <2>4 DEF IInv, Counting
    <3> QED
      BY <3>1, <3>2, <3>3
      DEF Choosing, ActionsWereGenerated, ActsWhenItCan, Allowed
  <2> QED
    BY <2>3, <2>4
<1> QED
  BY <1>4, <1>5

LEMMA ChoosingKept == ASSUME IInv, Choosing, [Next]_vars PROVE Choosing'
<1>1. CASE UNCHANGED vars
  BY <1>1, ChosenStays
<1>2. CASE GettingReady
  <2>1. /\ UNCHANGED <<reply, current, tree, lastAction, answered>>
        /\ pc \in Startup
        /\ pc' \in Startup \cup {"waiting", "exiting"}
        /\ error' = error \/ error' \in Startup \cup {"specification"}
    BY <1>2 DEF GettingReady, BundleSpecification, WorkerReady, LaunchBrowser,
       InitializeWriter, Initiate, StartFails, Fails
  <2>2. answered = <<>>
    BY <2>1 DEF IInv, Starting
  <2> QED
    BY <2>1, <2>2, ChosenStays DEF NoChoice
<1>3. CASE Worker
  <2>1. CASE WorkerLoads \/ WorkerTakesStep
    BY <2>1, ChosenStays DEF WorkerLoads, WorkerTakesStep
  <2>2. CASE WorkerReplies \/ WorkerReportsError \/ WorkerPanics
    <3>1. pc = "verifying" /\ UNCHANGED <<pc, error>>
      BY <2>2 DEF WorkerReplies, WorkerReportsError, WorkerPanics, IInv, Asked
    <3>2. error = NoError
      BY <3>1 DEF IInv, Counting
    <3> QED
      BY <3>1, <3>2, NothingChosen DEF NoChoice
  <2> QED
    BY <1>3, <2>1, <2>2 DEF Worker
<1>4. CASE Environment \/ ScreenshotWritten
  BY <1>4, ChosenStays DEF Environment, DeliverState, BrowserStops, Interrupt,
     ScreenshotWritten
<1>5. CASE Ending
  BY <1>5, ChosenStays DEF Ending, Terminate, Exit
<1>6. CASE TakeState \/ RunExtractors
  <2>1. /\ pc' \in {"extracting", "verifying", "terminating"}
        /\ pc \in {"waiting", "extracting"}
        /\ error' \in {error, "worker"}
    BY <1>6 DEF TakeState, RunExtractors, Fails
  <2>2. error = NoError
    BY <2>1 DEF IInv, Counting
  <2> QED
    BY <2>1, <2>2, NothingChosen DEF NoChoice
<1>7. CASE WriteScreenshot \/ AppendEntry
  BY <1>7, ChosenStays DEF WriteScreenshot, AppendEntry
<1>8. CASE TakeStop \/ OnInterrupted \/ ExtractorFails \/ WriteFails
           \/ ObserverStops \/ AllDefinite \/ ApplyFails
  <2>1. pc' = "terminating" /\ error' \in {error, "browser", "extractor", "trace"}
    BY <1>8 DEF TakeStop, OnInterrupted, ExtractorFails, WriteFails,
       ObserverStops, AllDefinite, ApplyFails, Fails, Returns
  <2>2. error = NoError
    BY <1>8 DEF IInv, Counting, TakeStop, OnInterrupted, ExtractorFails,
       WriteFails, ObserverStops, AllDefinite, ApplyFails
  <2> QED
    BY <2>1, <2>2, NothingChosen DEF NoChoice
<1> QED
  BY <1>1, <1>2, <1>3, <1>4, <1>5, <1>6, <1>7, <1>8, ReceiveStepChooses,
     StepFailsChooses, DecisionChooses DEF Next, Turn

(* Whatever a specification generates and for however many states, the action *)
(* that is applied was generated for the state it answers, has a conversion,  *)
(* and is Back outside of the origin: ActionsWereGenerated is an invariant of *)
(* a test (run_test).                                                         *)
THEOREM ActionsComeFromTheSpecification == Spec => []ActionsWereGenerated
<1>1. Choosing => ActionsWereGenerated
  BY DEF Choosing
<1> QED
  BY <1>1, ChoosingInitially, ChoosingKept, Invariant, PTL DEF Spec

(* A test that ends for want of an action had none that was allowed, or a     *)
(* weight of zero, or one that cannot be converted: ActsWhenItCan is an       *)
(* invariant of a test (run_test).                                            *)
THEOREM TestsActWhenTheyCan == Spec => []ActsWhenItCan
<1>1. Choosing => ActsWhenItCan
  BY DEF Choosing
<1> QED
  BY <1>1, ChoosingInitially, ChoosingKept, Invariant, PTL DEF Spec

-----------------------------------------------------------------------------
(* The types with their bounds *)

(* What the invariant does not say of them.  A count of violations needs to   *)
(* know which answers it has; the rest follows from how far the test has come.*)
Bounded ==
    /\ worker \in {"absent", "loading", "idle", "stepping", "gone"}
    /\ command # <<>> => command[1] \in 1..MaxStates
    /\ delivered <= MaxStates
    /\ current = Nothing \/ (current \in States /\ current.id \in 1..MaxStates)
    /\ interrupted \in BOOLEAN /\ interrupts \in 0..MaxInterrupts
    /\ lastHash <= MaxStates
    /\ DOMAIN screenshots \subseteq Times /\ unwritten \subseteq DOMAIN screenshots
    /\ Len(trace) <= MaxStates
    /\ exit \in {"none", "success", "violations", "error", "panic", "killed"}

Summed ==
    /\ violationsCount <= Len(steps) * MaxViolations
    /\ pc = "verifying" /\ reply \in StepResults =>
          violationsCount + MaxViolations <= Len(steps) * MaxViolations

(* At first nothing was counted and nothing is there. *)
LEMMA BoundedInit == Init => Bounded /\ Summed
<1> SUFFICES ASSUME Init PROVE Bounded /\ Summed
  OBVIOUS
<1>1. /\ Len(trace) = 0 /\ Len(steps) = 0
      /\ MaxStates \in Nat /\ MaxViolations \in Nat /\ MaxInterrupts \in Nat
      /\ MaxTime \in Nat
  BY ConstantsAssumption DEF Init
<1>2. DOMAIN screenshots \subseteq Times
  <2>1. CASE screenshots = <<>>
    BY <2>1
  <2>2. CASE screenshots = [time \in {MaxTime} |-> 0]
    BY <1>1, <2>2 DEF Times
  <2> QED
    BY <2>1, <2>2 DEF Init
<1>3. /\ worker = "absent" /\ command = <<>> /\ delivered = 0
      /\ current = Nothing /\ interrupted = FALSE /\ interrupts = 0
      /\ lastHash = 0 /\ unwritten = {} /\ exit = "none"
  BY DEF Init, NoHash
<1>4. 0 \in 0..MaxInterrupts /\ 0 <= MaxStates
  BY <1>1
<1>5. interrupted \in BOOLEAN
  BY Zenon DEF Init
<1>6. Bounded
  BY <1>1, <1>2, <1>3, <1>4, <1>5 DEF Bounded
<1>7. Summed
  BY <1>1 DEF Init, Summed
<1> QED
  BY <1>6, <1>7

(* The state in hand is the next one of the trace. *)
LEMMA HandBounded ==
    ASSUME IInv, Bounded, InHand
    PROVE  /\ current \in States /\ current.id = Len(trace) + 1
           /\ current.hash = current.id /\ current.id \in 1..MaxStates
           /\ Len(trace) \in Nat
<1>1. Len(trace) \in Nat /\ MaxStates \in Nat
  BY LenProperties, ConstantsAssumption DEF IInv, Types
<1>2. /\ current \in States /\ current.id = Len(trace) + 1
      /\ current.hash = current.id /\ delivered = Len(answered) + 1
      /\ Len(answered) = Len(trace)
  BY <1>1 DEF IInv, Path
<1> QED
  BY <1>1, <1>2 DEF Bounded

(* The bounds are kept. *)
LEMMA BoundedNext == ASSUME IInv, Bounded, [Next]_vars PROVE Bounded'
<1> DEFINE Rest == /\ command' = command \/ command' = <<>>
                   /\ UNCHANGED <<delivered, current, lastHash, trace>>
<1>1. CASE UNCHANGED vars
  BY <1>1 DEF Bounded
<1>2. CASE GettingReady
  BY <1>2 DEF GettingReady, BundleSpecification, WorkerReady, LaunchBrowser,
     InitializeWriter, Initiate, StartFails, Bounded
<1>3. CASE Worker
  <2>1. CASE WorkerTakesStep
    <3>1. command' = <<>>
      BY <2>1 DEF WorkerTakesStep, IInv, Asked
    <3> QED
      BY <2>1, <3>1 DEF WorkerTakesStep, Bounded
  <2>2. CASE ~WorkerTakesStep
    BY <1>3, <2>2 DEF Worker, WorkerLoads, WorkerReplies, WorkerReportsError,
       WorkerPanics, Bounded
  <2> QED
    BY <2>1, <2>2
<1>4. CASE DeliverState
  <2>1. delivered' = delivered + 1 /\ delivered < MaxStates
    BY <1>4 DEF DeliverState
  <2>2. delivered \in Nat /\ MaxStates \in Nat
    BY ConstantsAssumption DEF IInv, Types
  <2>3. delivered' <= MaxStates
    BY <2>1, <2>2
  <2> QED
    BY <1>4, <2>3 DEF DeliverState, Bounded
<1>5. CASE BrowserStops \/ ScreenshotWritten
  BY <1>5 DEF BrowserStops, ScreenshotWritten, Bounded
<1>6. CASE Interrupt
  <2>1. interrupts' \in 0..MaxInterrupts /\ exit' \in {exit, "killed"}
    BY <1>6, ConstantsAssumption DEF Interrupt, Bounded
  <2>2. interrupted' \in BOOLEAN
    BY <1>6 DEF Interrupt
  <2> QED
    BY <1>6, <2>1, <2>2 DEF Interrupt, Bounded
<1>7. CASE Terminate
  BY <1>7 DEF Terminate, Bounded
<1>8. CASE Exit
  <2>1. exit' \in {"success", "violations", "error"}
    BY <1>8 DEF Exit, ExitStatus
  <2>2. unwritten' \subseteq unwritten
    BY <1>8 DEF Exit
  <2> QED
    BY <1>8, <2>1, <2>2 DEF Exit, Bounded
<1>9. CASE TakeState
  <2>1. /\ event \in States /\ event.id = delivered /\ delivered = Len(answered) + 1
        /\ Len(answered) \in Nat /\ delivered \in Nat
    BY <1>9, LenProperties DEF TakeState, IInv, Path, Types
  <2>2. event.id \in 1..MaxStates
    BY <2>1, ConstantsAssumption DEF Bounded
  <2> QED
    BY <1>9, <2>1, <2>2 DEF TakeState, Bounded
<1>10. CASE RunExtractors
  <2>1. InHand /\ command = <<>>
    BY <1>10 DEF RunExtractors, IInv, Asked
  <2>2. current.id \in 1..MaxStates
    BY <2>1, HandBounded
  <2>3. command' = <<>> \/ command' = <<current.id>>
    BY <1>10, <2>1 DEF RunExtractors
  <2> QED
    BY <1>10, <2>2, <2>3 DEF RunExtractors, Bounded
<1>11. CASE WriteScreenshot
  <2>1. current.time \in Times
    BY <1>11, HandBounded DEF WriteScreenshot, States
  <2> QED
    BY <1>11, <2>1 DEF WriteScreenshot, Bounded
<1>12. CASE AppendEntry
  <2>1. /\ Len(trace) + 1 \in 1..MaxStates /\ current.hash = Len(trace) + 1
        /\ Len(trace) \in Nat
    BY <1>12, HandBounded DEF AppendEntry
  <2>2. Len(trace') = Len(trace) + 1
    BY <1>12 DEF AppendEntry, IInv, Types
  <2>3. Len(trace') <= MaxStates /\ lastHash' <= MaxStates
    BY <1>12, <2>1, <2>2, ConstantsAssumption DEF AppendEntry
  <2> QED
    BY <1>12, <2>3 DEF AppendEntry, Bounded
<1>13. CASE WriteFails
  <2>1. current.hash \in 1..MaxStates
    BY <1>13, HandBounded DEF WriteFails
  <2>2. lastHash' <= MaxStates
    BY <1>13, <2>1, ConstantsAssumption DEF WriteFails, Bounded
  <2> QED
    BY <1>13, <2>2 DEF WriteFails, Bounded
<1>14. CASE \/ TakeStop \/ OnInterrupted \/ ExtractorFails \/ ReceiveStep
            \/ StepFails \/ ObserverStops \/ AllDefinite \/ NoActionsAvailable
            \/ PickAndApply \/ ApplyFails
  BY <1>14 DEF TakeStop, OnInterrupted, ExtractorFails, ReceiveStep, StepFails,
     ObserverStops, AllDefinite, NoActionsAvailable, PickAndApply, ApplyFails,
     Bounded
<1> QED
  BY <1>1, <1>2, <1>3, <1>4, <1>5, <1>6, <1>7, <1>8, <1>9, <1>10, <1>11, <1>12,
     <1>13, <1>14 DEF Next, Turn, Ending, Environment

(* The count of an answer comes from that answer and no other. *)
LEMMA SummedNext == ASSUME IInv, Summed, [Next]_vars PROVE Summed'
<1>1. /\ MaxViolations \in Nat /\ Len(steps) \in Nat /\ violationsCount \in Nat
  BY LenProperties, ConstantsAssumption DEF IInv, Types
<1>2. CASE WorkerReplies
  <2>1. /\ Len(steps') = Len(steps) + 1 /\ violationsCount' = violationsCount
    <3>1. PICK violations \in Counts, anyPending \in BOOLEAN :
             steps' = Append(steps, [violations |-> violations,
                                     pending |-> anyPending])
      BY <1>2 DEF WorkerReplies
    <3>2. /\ steps \in Seq(Answers)
          /\ [violations |-> violations, pending |-> anyPending] \in Answers
      BY <3>1, CountsAreNaturals DEF IInv, Types, Answers
    <3>3. Len(steps') = Len(steps) + 1
      BY <3>1, <3>2, AppendProperties
    <3> QED
      BY <1>2, <3>3 DEF WorkerReplies
  <2>2. (Len(steps) + 1) * MaxViolations
           = Len(steps) * MaxViolations + MaxViolations
    BY <1>1
  <2> QED
    BY <1>1, <2>1, <2>2 DEF Summed
<1>3. CASE ReceiveStep
  <2>1. reply \in StepResults /\ reply.violations \in 0..MaxViolations
    BY <1>3, Replies DEF ReceiveStep, IInv, Types, StepResults, Counts
  <2>2. /\ violationsCount' = violationsCount + reply.violations
        /\ pc' = "recording" /\ steps' = steps /\ pc = "verifying"
    BY <1>3 DEF ReceiveStep, Counted
  <2>3. Len(steps) * MaxViolations \in Nat
    BY <1>1
  <2> QED
    BY <1>1, <2>1, <2>2, <2>3 DEF Summed
<1>4. CASE ~WorkerReplies /\ ~ReceiveStep
  <2>1. UNCHANGED <<steps, violationsCount>>
    BY <1>4 DEF Next, GettingReady, Worker, Turn, Ending, Environment,
       BundleSpecification, WorkerReady, LaunchBrowser, InitializeWriter,
       Initiate, StartFails, WorkerLoads, WorkerTakesStep, WorkerReportsError,
       WorkerPanics, TakeState, TakeStop, OnInterrupted, RunExtractors,
       ExtractorFails, StepFails, WriteScreenshot, AppendEntry, WriteFails,
       ObserverStops, AllDefinite, NoActionsAvailable, PickAndApply, ApplyFails,
       Terminate, Exit, ScreenshotWritten, DeliverState, BrowserStops, Interrupt
  <2>2. pc' = "verifying" /\ reply' \in StepResults =>
           pc = "verifying" /\ reply \in StepResults
    BY <1>4, Replies DEF Next, GettingReady, Worker, Turn, Ending, Environment,
       BundleSpecification, WorkerReady, LaunchBrowser, InitializeWriter,
       Initiate, StartFails, WorkerLoads, WorkerTakesStep, WorkerReportsError,
       WorkerPanics, TakeState, TakeStop, OnInterrupted, RunExtractors,
       ExtractorFails, StepFails, WriteScreenshot, AppendEntry, WriteFails,
       ObserverStops, AllDefinite, NoActionsAvailable, PickAndApply, ApplyFails,
       Terminate, Exit, ScreenshotWritten, DeliverState, BrowserStops, Interrupt,
       Fails, Returns
  <2> QED
    BY <2>1, <2>2 DEF Summed
<1> QED
  BY <1>2, <1>3, <1>4

(* Every variable has its type, with the bounds of the environment: a trace   *)
(* is no longer than what the browser delivered, and the observer's count no  *)
(* higher than the answers allow.                                             *)
THEOREM TypeCorrect == Spec => []TypeOK
<1>1. IInv /\ Bounded /\ Summed => TypeOK
  <2> SUFFICES ASSUME IInv, Bounded, Summed PROVE TypeOK
    OBVIOUS
  <2>1. command \in {<<>>} \cup {<<id>> : id \in 1..MaxStates}
    <3>1. command \in Seq(Nat) /\ Len(command) <= 1
      BY DEF IInv, Asked
    <3>2. command # <<>> => command = <<command[1]>>
      <4> SUFFICES ASSUME command # <<>> PROVE command = <<command[1]>>
        OBVIOUS
      <4>1. Len(command) = 1
        <5>1. Len(command) \in Nat /\ Len(command) <= 1
          BY <3>1, LenProperties
        <5>2. Len(command) # 0
          BY <3>1, EmptySeq
        <5> DEFINE length == Len(command)
        <5>3. length \in Nat /\ length <= 1 /\ length # 0
          BY <5>1, <5>2
        <5> HIDE DEF length
        <5>4. length = 1
          BY <5>3
        <5> QED
          BY <5>4 DEF length
      <4>2. \A i \in 1..1 : command[i] = <<command[1]>>[i]
        OBVIOUS
      <4> QED
        BY <3>1, <4>1, <4>2
    <3> QED
      BY <3>2 DEF Bounded
  <2>2. \/ reply = Nothing
        \/ IsError(reply) /\ reply.error \in {"specification", "worker"}
        \/ /\ ~IsError(reply)
           /\ reply \in [violations : Counts, pending : BOOLEAN,
                         actions : Generated]
    <3>1. reply \in {Nothing} \cup StepErrors \cup StepResults
      BY DEF IInv, Types
    <3>2. \A r \in StepErrors : r.error \in {"specification", "worker"}
      BY DEF StepErrors
    <3> QED
      BY <3>1, <3>2, Replies DEF StepResults
  <2>3. /\ delivered \in 0..MaxStates /\ lastHash \in 0..MaxStates
        /\ Len(trace) <= MaxStates
        /\ violationsCount \in 0..(Len(steps) * MaxViolations)
    <3>1. /\ MaxStates \in Nat /\ MaxViolations \in Nat /\ Len(steps) \in Nat
          /\ delivered \in Nat /\ lastHash \in Nat /\ violationsCount \in Nat
      BY LenProperties, ConstantsAssumption DEF IInv, Types
    <3>2. Len(steps) * MaxViolations \in Nat
      BY <3>1
    <3> QED
      BY <3>1, <3>2 DEF Bounded, Summed
  <2>4. \/ event \in {Nothing, Stopped}
        \/ event.id \in 1..MaxStates /\ event.time \in Times /\ event.url \in Urls
    <3>1. CASE event \notin {Nothing, Stopped}
      <4>1. /\ event \in States /\ event.id = Len(answered) + 1
            /\ event.id = delivered /\ Len(answered) \in Nat
        BY <3>1, LenProperties DEF IInv, Path, Types
      <4>2. event.time \in Times /\ event.url \in Urls
        BY <4>1 DEF States
      <4> QED
        BY <2>3, <4>1, <4>2, ConstantsAssumption
    <3> QED
      BY <3>1
  <2>5. \/ current = Nothing
        \/ /\ current.id \in 1..MaxStates /\ current.time \in Times
           /\ current.url \in Urls
    BY DEF Bounded, States
  <2> QED
    BY <2>1, <2>2, <2>3, <2>4, <2>5 DEF IInv, Types, Bounded, TypeOK
<1> QED
  BY <1>1, BoundedInit, BoundedNext, SummedNext, Invariant, PTL DEF Spec

-----------------------------------------------------------------------------
(* The runner, the worker's thread, the observer and the writer implement     *)
(* TestSession: every step of a test is one of a session, or none.            *)
Recorded == [i \in DOMAIN trace |-> trace[i].violations]

-----------------------------------------------------------------------------
(* What a session sees *)

LEMMA SameViolations == Session!SomeViolation <=> SomeViolation
BY DEF Session!SomeViolation, SomeViolation

(* A step that changes nothing a session sees *)
LEMMA Unseen ==
    ASSUME UNCHANGED <<options, trace, steps, answered, exit>>,
           Phase' = Phase, Outcome' = Outcome
    PROVE  UNCHANGED Session!vars
BY DEF Session!vars

(* An error ends the session, whatever it was at. *)
LEMMA FailureEnds ==
    ASSUME ~Over, NEW what, what # NoError, Fails(what),
           UNCHANGED <<options, trace, steps, answered, exit>>
    PROVE  Session!End
<1>1. Phase # "over" /\ Phase' = "over" /\ Outcome' = "failed"
  BY DEF Fails, Phase, Outcome
<1> QED
  BY <1>1 DEF Session!End

(* So does a value, if what it stands for is true. *)
LEMMA ReturnEnds ==
    ASSUME IInv, ~Over, NEW value, Returns(value),
           UNCHANGED <<options, trace, steps, answered, exit>>
    PROVE  /\ Phase # "over" /\ Phase' = "over"
           /\ Outcome' = IF value = Nothing THEN "settled"
                         ELSE IF value.reason = "Interrupted" THEN "interrupted"
                         ELSE "stopped"
<1>1. error = NoError
  BY DEF IInv, Counting
<1> QED
  BY <1>1 DEF Returns, Phase, Outcome

LEMMA InitIsInitial == Init => Session!Init
<1> SUFFICES ASSUME Init PROVE Session!Init
  OBVIOUS
<1>1. Recorded = <<>>
  BY DEF Init, Recorded
<1>2. options.exitOnViolation \in BOOLEAN /\ Len(answered) = 0
  BY DEF Init
<1>3. Phase = "waiting" /\ Outcome = "none"
  BY DEF Init, Phase, Outcome
<1> QED
  BY <1>1, <1>2, <1>3 DEF Init, Session!Init, Recorded

-----------------------------------------------------------------------------
(* The steps *)

LEMMA GettingReadyMaps ==
    ASSUME IInv, GettingReady PROVE Session!End \/ UNCHANGED Session!vars
<1>1. CASE BundleSpecification \/ LaunchBrowser \/ InitializeWriter
           \/ Initiate \/ (WorkerReady /\ worker = "idle")
  <2>1. /\ pc \in Startup /\ pc' \in Startup \cup {"waiting"}
        /\ UNCHANGED <<options, trace, steps, answered, exit>>
    BY <1>1 DEF BundleSpecification, LaunchBrowser, InitializeWriter, Initiate,
                WorkerReady
  <2> QED
    BY <2>1, Unseen DEF Phase, Outcome
<1>2. CASE StartFails \/ (WorkerReady /\ worker = "gone")
  <2>1. PICK what \in Startup \cup {"specification"} : Fails(what)
    BY <1>2 DEF StartFails, WorkerReady
  <2> QED
    BY <1>2, <2>1, FailureEnds DEF StartFails, WorkerReady
<1> QED
  BY <1>1, <1>2 DEF GettingReady, WorkerReady

(* A signal kills the process only while nothing was verified. *)
LEMMA EnvironmentMaps ==
    ASSUME IInv, Environment \/ ScreenshotWritten
    PROVE  Session!Exit \/ UNCHANGED Session!vars
<1>1. CASE Interrupt /\ ~handler
  <2>1. steps = <<>> /\ exit = "none" /\ exit' = "killed"
        /\ UNCHANGED <<options, trace, steps, answered, pc, reply, error, result>>
    BY <1>1 DEF IInv, Starting, Interrupt
  <2>2. Phase' = Phase /\ Outcome' = Outcome
    BY <2>1 DEF Phase, Outcome
  <2> QED
    BY <2>1, <2>2 DEF Session!Exit
<1>2. CASE DeliverState \/ BrowserStops \/ (Interrupt /\ handler)
           \/ ScreenshotWritten
  <2>1. UNCHANGED <<options, trace, steps, answered, exit, pc, reply, error,
                    result>>
    BY <1>2 DEF DeliverState, BrowserStops, Interrupt, ScreenshotWritten
  <2> QED
    BY <2>1, Unseen DEF Phase, Outcome
<1> QED
  BY <1>1, <1>2 DEF Environment

(* A state is verified when the worker answers. *)
LEMMA WorkerMaps ==
    ASSUME IInv, Worker PROVE Session!Verify \/ UNCHANGED Session!vars
<1>1. CASE WorkerReplies
  <2>1. pc = "verifying" /\ reply = Nothing
    BY <1>1 DEF WorkerReplies, IInv, Asked
  <2>2. PICK violations \in Counts, anyPending \in BOOLEAN,
             actions \in Generated :
           /\ reply' = StepResult(violations, anyPending, actions)
           /\ steps' = Append(steps, [violations |-> violations,
                                      pending |-> anyPending])
    BY <1>1 DEF WorkerReplies
  <2>3. ~IsError(reply') /\ reply' # Nothing
    BY <2>2, Replies
  <2>4. UNCHANGED <<pc, options, trace, answered, exit, error, result>>
    BY <1>1 DEF WorkerReplies
  <2>5. /\ Phase = "waiting" /\ Phase' = "verified"
        /\ Outcome = "none" /\ Outcome' = "none"
    BY <2>1, <2>3, <2>4 DEF Phase, Outcome
  <2> QED
    BY <2>2, <2>4, <2>5 DEF Session!Verify
<1>2. CASE WorkerReportsError \/ WorkerPanics
  <2>1. pc = "verifying" /\ reply = Nothing
    BY <1>2 DEF WorkerReportsError, WorkerPanics, IInv, Asked
  <2>2. reply' \in StepErrors /\ IsError(reply')
    BY <1>2, Replies DEF WorkerReportsError, WorkerPanics
  <2>3. UNCHANGED <<pc, options, trace, steps, answered, exit, error, result>>
    BY <1>2 DEF WorkerReportsError, WorkerPanics
  <2> QED
    BY <2>1, <2>2, <2>3, Unseen DEF Phase, Outcome
<1>3. CASE WorkerLoads \/ WorkerTakesStep
  <2>1. UNCHANGED <<pc, options, trace, steps, answered, exit, reply, error,
                    result>>
    BY <1>3 DEF WorkerLoads, WorkerTakesStep
  <2> QED
    BY <2>1, Unseen DEF Phase, Outcome
<1> QED
  BY <1>1, <1>2, <1>3 DEF Worker

(* The entry of the trace counts the violations the worker found in its state.*)
LEMMA AppendEntryMaps == ASSUME IInv, AppendEntry PROVE Session!Record
<1> DEFINE entry == Entry(current, lastAction, reply.violations)
<1>1. /\ pc = "appending" /\ pc' = "deciding" /\ trace' = Append(trace, entry)
      /\ UNCHANGED <<options, steps, answered, exit, error, result>>
  BY DEF AppendEntry
<1>2. Phase = "verified" /\ Phase' = "recorded"
      /\ Outcome = "none" /\ Outcome' = "none"
  BY <1>1 DEF Phase, Outcome
<1>3. Session!Latest.violations = reply.violations
  BY <1>2 DEF IInv, Lockstep, Session!Latest
<1>4. Recorded' = Append(Recorded, reply.violations)
  <2>1. trace \in Seq(Entries) /\ entry.violations = reply.violations
    BY DEF IInv, Types, Entry
  <2>2. Recorded \in Seq(Nat) /\ Len(Recorded) = Len(trace)
    <3>1. DOMAIN trace = 1..Len(trace) /\ Len(trace) \in Nat
      BY <2>1
    <3>2. \A i \in DOMAIN trace : trace[i].violations \in Nat
      <4> SUFFICES ASSUME NEW i \in 1..Len(trace)
                   PROVE  trace[i].violations \in Nat
        BY <3>1
      <4>1. trace[i] \in Entries
        BY <2>1, ElementOfSeq
      <4> QED
        BY <4>1 DEF Entries
    <3>3. Recorded \in [1..Len(trace) -> Nat]
      BY <3>1, <3>2 DEF Recorded
    <3> QED
      BY <3>1, <3>3
  <2> QED
    BY <1>1, <2>1, <2>2 DEF Recorded
<1> QED
  BY <1>1, <1>2, <1>3, <1>4 DEF Session!Record, Recorded

(* What the observer's count, the verifier's answer and the trace say when    *)
(* the next action is to be chosen is the same. *)
LEMMA Deciding ==
    ASSUME IInv, pc = "deciding"
    PROVE  /\ Phase = "recorded"
           /\ Session!Latest.pending = pending
           /\ violationsCount > 0 <=> Session!SomeViolation
BY SameViolations DEF IInv, Lockstep, Counting, Phase, Session!Latest

LEMMA DecisionMaps ==
    ASSUME IInv, ObserverStops \/ AllDefinite \/ PickAndApply
    PROVE  Session!Answer \/ Session!End
<1>1. pc = "deciding" /\ UNCHANGED <<options, trace, steps, exit>>
  BY DEF ObserverStops, AllDefinite, PickAndApply
<1>2. CASE ObserverStops
  <2>1. PICK reason \in {"ExitOnViolation", "TimeLimit"} :
           Returns(Result(reason, violationsCount))
    BY <1>2 DEF ObserverStops
  <2>2. Phase' = "over" /\ Outcome' = "stopped"
    BY <1>1, <1>2, <2>1, Results, ReturnEnds DEF ObserverStops
  <2> QED
    BY <1>1, <1>2, <2>2, Deciding DEF ObserverStops, Session!End
<1>3. CASE AllDefinite
  <2>1. Phase' = "over" /\ Outcome' = "settled" /\ UNCHANGED answered
    BY <1>1, <1>3, ReturnEnds DEF AllDefinite
  <2> QED
    BY <1>1, <1>3, <2>1, Deciding
    DEF AllDefinite, Continues, ExitsOnViolation, Session!End
<1>4. CASE PickAndApply
  <2>1. CASE Fails("zeroTotalWeight") /\ UNCHANGED answered
    BY <1>1, <2>1, FailureEnds
  <2>2. CASE /\ answered' = Append(answered, current.id) /\ pc' = "waiting"
             /\ UNCHANGED endVars
    <3>1. Len(answered') = Len(answered) + 1
      BY <1>1, <2>2 DEF IInv, Types, Path
    <3>2. Phase' = "waiting" /\ Outcome = "none" /\ Outcome' = "none"
      BY <1>1, <2>2 DEF Phase, Outcome
    <3> QED
      BY <1>1, <1>4, <3>1, <3>2, Deciding
      DEF PickAndApply, Continues, ExitsOnViolation, Session!Answer
  <2> QED
    BY <1>4, <2>1, <2>2 DEF PickAndApply
<1> QED
  BY <1>2, <1>3, <1>4

LEMMA FailedTurnMaps ==
    ASSUME IInv, TakeStop \/ ExtractorFails \/ StepFails \/ WriteFails
                     \/ NoActionsAvailable \/ ApplyFails
    PROVE  Session!End
<1>1. PICK what \in {"browser", "extractor", "specification", "worker",
                     "action", "trace", "noActionsAvailable"} : Fails(what)
  <2>1. CASE StepFails
    BY <2>1, ResultsAreNoErrors DEF StepFails, StepErrors
  <2>2. CASE TakeStop \/ ExtractorFails \/ WriteFails \/ NoActionsAvailable
             \/ ApplyFails
    BY <2>2 DEF TakeStop, ExtractorFails, WriteFails, NoActionsAvailable,
                ApplyFails
  <2> QED
    BY <2>1, <2>2
<1>2. ~Over /\ UNCHANGED <<options, trace, steps, answered, exit>>
  BY DEF TakeStop, ExtractorFails, StepFails, WriteFails, NoActionsAvailable,
         ApplyFails
<1> QED
  BY <1>1, <1>2, FailureEnds

LEMMA TurnMaps ==
    ASSUME IInv, Turn
    PROVE  \/ Session!Record \/ Session!Answer \/ Session!End
           \/ UNCHANGED Session!vars
<1>1. CASE OnInterrupted
  <2>1. /\ pc = "waiting" /\ Returns(Result("Interrupted", violationsCount))
        /\ UNCHANGED <<options, trace, steps, answered, exit>>
    BY <1>1 DEF OnInterrupted
  <2>2. Phase = "waiting" /\ Phase' = "over" /\ Outcome' = "interrupted"
    BY <2>1, Results, ReturnEnds DEF Phase
  <2> QED
    BY <2>1, <2>2 DEF Session!End
<1>2. CASE RunExtractors
  <2>1. CASE Fails("worker")
    BY <1>2, <2>1, FailureEnds DEF RunExtractors
  <2>2. CASE pc' = "verifying" /\ UNCHANGED endVars
    BY <1>2, <2>2, Unseen DEF RunExtractors, Phase, Outcome
  <2> QED
    BY <1>2, <2>1, <2>2 DEF RunExtractors
<1>3. CASE TakeState \/ ReceiveStep \/ WriteScreenshot
  BY <1>3, Unseen DEF TakeState, ReceiveStep, WriteScreenshot, Phase, Outcome
<1> QED
  BY <1>1, <1>2, <1>3, AppendEntryMaps, DecisionMaps, FailedTurnMaps DEF Turn

(* The status of the process is the one the trace gives. *)
LEMMA EndingMaps ==
    ASSUME IInv, Ending PROVE Session!Exit \/ UNCHANGED Session!vars
<1>1. /\ Over /\ Over' /\ exit = "none"
      /\ UNCHANGED <<options, trace, steps, answered, error, result>>
  BY DEF Ending, Terminate, Exit
<1>2. Phase = "over" /\ Phase' = "over" /\ Outcome' = Outcome
  BY <1>1 DEF Phase, Outcome
<1>3. CASE Terminate
  BY <1>1, <1>2, <1>3, Unseen DEF Terminate, Session!Exit
<1>4. CASE Exit
  <2>1. ExitStatus \in Session!StatusOf
    BY <1>1, SameViolations
    DEF IInv, Counting, ExitStatus, Outcome, Session!StatusOf
  <2> QED
    BY <1>1, <1>2, <1>4, <2>1 DEF Exit, Session!Exit
<1> QED
  BY <1>3, <1>4 DEF Ending

LEMMA StepsMap == IInv /\ [Next]_vars => [Session!Next]_(Session!vars)
<1> SUFFICES ASSUME IInv, [Next]_vars
             PROVE  Session!Next \/ UNCHANGED Session!vars
  OBVIOUS
<1>1. CASE UNCHANGED vars
  BY <1>1, Unseen DEF Phase, Outcome
<1> QED
  BY <1>1, GettingReadyMaps, EnvironmentMaps, WorkerMaps, TurnMaps, EndingMaps
  DEF Next, Session!Next

(* Every state of a test is verified, recorded and answered once and in that  *)
(* order, no action follows a violation that was to stop the test, and the    *)
(* exit status is the one the violations in the trace give: for tests of any  *)
(* length, whatever the specification, the clock and the disk do, a test is a *)
(* session of TestSession (run_test, MainObserver and test).                  *)
THEOREM TestsAreSessions == Spec => ImplementsSession
<1>1. Spec => Session!Init /\ [][Session!Next]_(Session!vars)
  BY InitIsInitial, StepsMap, Invariant, PTL DEF Spec
<1> QED
  BY <1>1 DEF ImplementsSession, Session!Spec
=============================================================================
