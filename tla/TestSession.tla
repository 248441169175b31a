---------------------------- MODULE TestSession ----------------------------
(* What a test promises to whoever reads its trace and its exit status: the   *)
(* states it sees are verified, recorded and answered in lockstep, each once  *)
(* and in order, and the status is a function of what the trace says.  Module *)
(* TestRun is shown to implement it; nothing here knows of workers, channels, *)
(* files or signals.                                                          *)
EXTENDS Naturals, Sequences

CONSTANTS
    Counts           \* numbers of violations one state can have

VARIABLES
    asked,           \* to stop at the first violation
    phase,           \* waiting, verified, recorded, over
    verified,        \* per state: its violations, and if anything is pending
    recorded,        \* per state in the trace: its violations
    answered,        \* how many states were answered with an action
    outcome,         \* how the test ended, before the process does
    status           \* the exit status, "none" while it runs

vars == <<asked, phase, verified, recorded, answered, outcome, status>>

Latest == verified[Len(verified)]
SomeViolation == \E i \in DOMAIN recorded : recorded[i] > 0

Init ==
    /\ asked \in BOOLEAN
    /\ phase = "waiting"
    /\ verified = <<>>
    /\ recorded = <<>>
    /\ answered = 0
    /\ outcome = "none"
    /\ status = "none"

Verify ==
    /\ phase = "waiting"
    /\ \E violations \in Counts, pending \in BOOLEAN :
        verified' = Append(verified,
                           [violations |-> violations, pending |-> pending])
    /\ phase' = "verified"
    /\ UNCHANGED <<asked, recorded, answered, outcome, status>>

Record ==
    /\ phase = "verified"
    /\ recorded' = Append(recorded, Latest.violations)
    /\ phase' = "recorded"
    /\ UNCHANGED <<asked, verified, answered, outcome, status>>

(* An answer goes to a state that is in the trace, when there is something    *)
(* left to find out and no violation that should have stopped the test.       *)
Answer ==
    /\ phase = "recorded"
    /\ Latest.pending
    /\ ~(asked /\ SomeViolation)
    /\ answered' = answered + 1
    /\ phase' = "waiting"
    /\ UNCHANGED <<asked, verified, recorded, outcome, status>>

End ==
    /\ phase # "over"
    /\ \/ /\ phase = "recorded"
          /\ outcome' = "stopped"
       \/ /\ phase = "recorded"
          /\ ~Latest.pending
          /\ ~(asked /\ SomeViolation)
          /\ outcome' = "settled"
       \/ /\ phase = "waiting"
          /\ outcome' = "interrupted"
       \/ outcome' = "failed"
    /\ phase' = "over"
    /\ UNCHANGED <<asked, verified, recorded, answered, status>>

(* The status counts the violations in the trace, no others, unless all the   *)
(* properties were settled.                                                   *)
StatusOf ==
    CASE outcome = "failed" -> {"error"}
      [] outcome = "settled" -> {"success"}
      [] outcome \in {"stopped", "interrupted"} ->
            {IF SomeViolation THEN "violations" ELSE "success"}
      [] OTHER -> {}

Exit ==
    /\ status = "none"
    /\ \/ phase = "over" /\ status' \in StatusOf
       \/ phase = "over" /\ status' = "panic"    \* closing the browser failed
       \/ verified = <<>> /\ status' = "killed"
    /\ UNCHANGED <<asked, phase, verified, recorded, answered, outcome>>

Next == Verify \/ Record \/ Answer \/ End \/ Exit

Spec == Init /\ [][Next]_vars
=============================================================================
