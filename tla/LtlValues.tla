----------------------------- MODULE LtlValues -----------------------------
(***************************************************************************)
(* The values and the residuals of the LTL evaluator of                    *)
(* lib/bombadil-ltl/src/eval.rs and the functions that combine them, one   *)
(* operator per function.  Nothing here recurses: the recursion over       *)
(* formulas and residuals is in module Ltl.                                *)
(*                                                                         *)
(* The program states attached to values for error messages (attach_state  *)
(* and the merges of states) and the formulas quoted inside violations are *)
(* left out: no result of the evaluator depends on them.                   *)
(***************************************************************************)
EXTENDS Integers, Sequences

(***************************************************************************)
(* The optional end of a bounded operator: an instant, or NoEnd.           *)
(***************************************************************************)
NoEnd == -1
(* As if the end were excluded *)
PastAtEnd(end, time) == end # NoEnd /\ end <= time
Past(end, time) == end # NoEnd /\ end < time

(***************************************************************************)
(* Values.  A False carries a violation and, in `next`, at most one        *)
(* residual to go on from: <<>> or <<residual>>.                           *)
(***************************************************************************)
TrueValue == [is |-> "True"]
FalseValue(violation, next) ==
    [is |-> "False", violation |-> violation, next |-> next]
Pending(residual) == [is |-> "Residual", residual |-> residual]

IsTrue(value) == value.is = "True"
IsFalse(value) == value.is = "False"
IsPending(value) == value.is = "Residual"

(***************************************************************************)
(* Residuals.                                                              *)
(***************************************************************************)
TrueResidual == [op |-> "True"]
FalseResidual(violation) == [op |-> "False", violation |-> violation]
Combined(op, left, right) == [op |-> op, left |-> left, right |-> right]
Once(subformula) == [op |-> "Once", subformula |-> subformula]
DerivedAlways(subformula, end) ==
    [op |-> "Always", subformula |-> subformula, end |-> end]
DerivedEventually(subformula, end) ==
    [op |-> "Eventually", subformula |-> subformula, end |-> end]
AndAlways(subformula, end, onset, left, right) ==
    [op |-> "AndAlways", subformula |-> subformula, end |-> end,
     onset |-> onset, left |-> left, right |-> right]
OrEventually(subformula, end, left, right) ==
    [op |-> "OrEventually", subformula |-> subformula, end |-> end,
     left |-> left, right |-> right]

(***************************************************************************)
(* Violations.  Of the Always violations nested in one another only the    *)
(* outermost's time, the innermost's time (`last`) and what the innermost  *)
(* encloses (`core`) are kept: the loops of evaluate_and_always (474-500)  *)
(* look for nothing else.                                                  *)
(***************************************************************************)
FalseAt(time) == [op |-> "False", time |-> time]
TimedOut(time) == [op |-> "Eventually", time |-> time]
BothViolated(op, left, right) == [op |-> op, left |-> left, right |-> right]
ConsequentViolated(of) == [op |-> "Implies", of |-> of]
Core(violation) ==
    IF violation.op = "Always" THEN violation.core ELSE violation
(* As if a failure were dated when it is confirmed *)
CoreTimeNow(violation, time) == time
CoreTime(violation, time) ==
    IF violation.op = "Always" THEN violation.last ELSE time
AlwaysViolation(time, of) ==
    [op |-> "Always", time |-> time,
     last |-> CoreTime(of, time), core |-> Core(of)]

(***************************************************************************)
(* At most one residual out of two that may be missing (combine_options).  *)
(***************************************************************************)
(* As if one of two were enough *)
CombineOptionsOne(left, right, op) == IF left # <<>> THEN left ELSE right
CombineOptions(left, right, op) ==
    IF left # <<>> /\ right # <<>>
    THEN <<Combined(op, left[1], right[1])>>
    ELSE left \o right

(***************************************************************************)
(* What is left to step of a value (pending_residual).                     *)
(***************************************************************************)
(* As if a settled violation were kept *)
PendingResidualFalse(value) ==
    IF IsPending(value) THEN <<value.residual>>
    ELSE IF IsFalse(value)
    THEN IF value.next = <<>> THEN <<FalseResidual(value.violation)>>
                              ELSE value.next
    ELSE <<>>
PendingResidual(value) ==
    IF IsPending(value) THEN <<value.residual>>
    ELSE IF IsFalse(value) THEN value.next
    ELSE <<>>

EvaluateAnd(left, right) ==
    IF IsTrue(left) /\ IsPending(right)
    THEN Pending(Combined("And", TrueResidual, right.residual))
    ELSE IF IsPending(left) /\ IsTrue(right)
    THEN Pending(Combined("And", left.residual, TrueResidual))
    ELSE IF IsTrue(left) THEN right
    ELSE IF IsTrue(right) THEN left
    ELSE IF IsFalse(left) /\ IsFalse(right)
    THEN FalseValue(BothViolated("And", left.violation, right.violation),
                    CombineOptions(left.next, right.next, "And"))
    ELSE IF IsPending(left) /\ IsFalse(right)
    THEN FalseValue(right.violation,
                    CombineOptions(<<left.residual>>, right.next, "And"))
    ELSE IF IsFalse(left)
    THEN FalseValue(left.violation,
                    CombineOptions(<<right.residual>>, left.next, "And"))
    ELSE Pending(Combined("And", left.residual, right.residual))

EvaluateOr(left, right) ==
    IF IsFalse(left) /\ IsFalse(right)
    THEN FalseValue(BothViolated("Or", left.violation, right.violation),
                    CombineOptions(left.next, right.next, "Or"))
    ELSE IF IsTrue(left) \/ IsTrue(right) THEN TrueValue
    ELSE IF IsFalse(right) THEN left
    ELSE IF IsFalse(left) THEN right
    ELSE Pending(Combined("Or", left.residual, right.residual))

EvaluateImplies(left, right) ==
    IF IsFalse(left) THEN TrueValue
    ELSE IF IsTrue(left) /\ IsFalse(right)
    THEN FalseValue(ConsequentViolated(right.violation),
                    IF right.next = <<>> THEN <<>>
                    ELSE <<Combined("Implies", TrueResidual, right.next[1])>>)
    ELSE IF IsTrue(right) THEN TrueValue
    ELSE Pending(Combined("Implies",
                          IF IsTrue(left) THEN TrueResidual ELSE left.residual,
                          IF IsFalse(right) THEN FalseResidual(right.violation)
                                            ELSE right.residual))

(***************************************************************************)
(* The residual a violated Always goes on from, which stands for `rest`    *)
(* beside what the violation itself leaves, if anything.                   *)
(***************************************************************************)
(* As if the violation settled the Always *)
ContinuationEnds(subformula, end, onset, inner, rest) ==
    IF inner = <<>> THEN <<>>
    ELSE <<AndAlways(subformula, end, onset, inner[1], rest)>>
(* As if there were always something beside it *)
ContinuationWraps(subformula, end, onset, inner, rest) ==
    <<AndAlways(subformula, end, onset,
                IF inner = <<>> THEN rest ELSE inner[1], rest)>>
Continuation(subformula, end, onset, inner, rest) ==
    IF inner = <<>> THEN <<rest>>
    ELSE <<AndAlways(subformula, end, onset, inner[1], rest)>>

(***************************************************************************)
(* The value of Always at `time`, from the value `inner` its subformula    *)
(* has there (evaluate_always).  A violated Always goes on watching.       *)
(***************************************************************************)
AlwaysValue(subformula, end, time, inner) ==
    LET rest == DerivedAlways(subformula, end)
    IN  IF Past(end, time) THEN TrueValue
        ELSE IF IsTrue(inner) THEN Pending(rest)
        ELSE IF IsPending(inner)
        THEN Pending(AndAlways(subformula, end, time, inner.residual, rest))
        ELSE FalseValue(AlwaysViolation(time, inner.violation),
                        Continuation(subformula, end, time, inner.next, rest))

(***************************************************************************)
(* The value of an Always that waits for `left`, its subformula at earlier *)
(* instants, beside `right`, the Always itself (evaluate_and_always).  The *)
(* violation reported is the left side's, under the onset; else the right  *)
(* side's, under the time of its innermost Always.                         *)
(***************************************************************************)
EvaluateAndAlways(subformula, end, onset, time, left, right) ==
    LET rest == DerivedAlways(subformula, end)
        Wrap(since, l, r) == AndAlways(subformula, end, since, l, r)
        inner == CombineOptions(PendingResidual(left),
                                PendingResidual(right), "And")
    IN  IF Past(end, time) \/ (IsTrue(left) /\ IsTrue(right))
        THEN TrueValue
        ELSE IF IsPending(left) /\ IsTrue(right)
        THEN Pending(Wrap(onset, left.residual, TrueResidual))
        ELSE IF IsTrue(left) /\ IsPending(right)
        THEN Pending(Wrap(time, TrueResidual, right.residual))
        ELSE IF IsPending(left) /\ IsPending(right)
        THEN Pending(Wrap(onset, left.residual, right.residual))
        ELSE FalseValue(IF IsFalse(left)
                        THEN AlwaysViolation(onset, Core(left.violation))
                        ELSE AlwaysViolation(CoreTime(right.violation, time),
                                             Core(right.violation)),
                        Continuation(subformula, end, onset, inner, rest))

(***************************************************************************)
(* The value of Eventually at `time`, from the value of its subformula     *)
(* (evaluate_eventually).  The subformula's own violation is dropped.      *)
(***************************************************************************)
EventuallyValue(subformula, end, time, inner) ==
    LET rest == DerivedEventually(subformula, end)
    IN  IF Past(end, time) THEN FalseValue(TimedOut(time), <<>>)
        ELSE IF IsTrue(inner) THEN TrueValue
        ELSE IF IsFalse(inner) THEN Pending(rest)
        ELSE Pending(OrEventually(subformula, end, inner.residual, rest))

(***************************************************************************)
(* The value of an Eventually that waits for `left`, its subformula at     *)
(* earlier instants, beside `right`, the Eventually itself                 *)
(* (evaluate_or_eventually).                                               *)
(***************************************************************************)
EvaluateOrEventually(subformula, end, time, left, right) ==
    IF Past(end, time) THEN FalseValue(TimedOut(time), <<>>)
    ELSE IF IsTrue(left) \/ IsTrue(right) THEN TrueValue
    ELSE IF IsFalse(left) /\ IsFalse(right)
    THEN FalseValue(right.violation, <<>>)
    ELSE IF IsFalse(left) THEN right
    ELSE IF IsFalse(right) THEN left
    ELSE Pending(OrEventually(subformula, end, left.residual, right.residual))
==============================================================================
