----------------------------- MODULE LtlProofs -----------------------------
(***************************************************************************)
(* First, what the functions of module LtlValues compute, for all values:  *)
(* the connectives of eval.rs are those of Kleene's three-valued logic,    *)
(* and a value that is false says rightly whether there is more to watch.  *)
(*                                                                         *)
(* Then, what residuals stand for: stepping one never changes it, so what  *)
(* the evaluator says of a trace, state by state, is what the reference    *)
(* says of it.  Last, of what residuals are made.                          *)
(***************************************************************************)
EXTENDS Verifier, SequenceTheorems, WellFoundedInduction, TLAPS

IsValue(v) == v.is \in {"True", "False", "Residual"}

KleeneAnd(a, b) ==
    IF a = "False" \/ b = "False" THEN "False"
    ELSE IF a = "True" /\ b = "True" THEN "True" ELSE "Residual"
KleeneOr(a, b) ==
    IF a = "True" \/ b = "True" THEN "True"
    ELSE IF a = "False" /\ b = "False" THEN "False" ELSE "Residual"
KleeneNot(a) ==
    IF a = "True" THEN "False" ELSE IF a = "False" THEN "True" ELSE "Residual"

(***************************************************************************)
(* evaluate_and is Kleene's conjunction.                                   *)
(***************************************************************************)
LEMMA AndIsKleene ==
    ASSUME NEW left, NEW right, IsValue(left), IsValue(right)
    PROVE  EvaluateAnd(left, right).is = KleeneAnd(left.is, right.is)
<1>1. CASE left.is = "True"
  BY <1>1 DEF IsValue, EvaluateAnd, KleeneAnd, IsTrue, IsFalse, IsPending,
              Pending
<1>2. CASE left.is = "False"
  BY <1>2 DEF IsValue, EvaluateAnd, KleeneAnd, IsTrue, IsFalse, IsPending,
              FalseValue
<1>3. CASE left.is = "Residual"
  BY <1>3 DEF IsValue, EvaluateAnd, KleeneAnd, IsTrue, IsFalse, IsPending,
              Pending, FalseValue
<1>. QED BY <1>1, <1>2, <1>3 DEF IsValue

(***************************************************************************)
(* evaluate_or is Kleene's disjunction.                                    *)
(***************************************************************************)
LEMMA OrIsKleene ==
    ASSUME NEW left, NEW right, IsValue(left), IsValue(right)
    PROVE  EvaluateOr(left, right).is = KleeneOr(left.is, right.is)
<1>1. CASE left.is = "True"
  BY <1>1 DEF IsValue, EvaluateOr, KleeneOr, IsTrue, IsFalse, TrueValue
<1>2. CASE left.is = "False"
  BY <1>2 DEF IsValue, EvaluateOr, KleeneOr, IsTrue, IsFalse, TrueValue,
              FalseValue
<1>3. CASE left.is = "Residual"
  BY <1>3 DEF IsValue, EvaluateOr, KleeneOr, IsTrue, IsFalse, TrueValue,
              Pending
<1>. QED BY <1>1, <1>2, <1>3 DEF IsValue

(***************************************************************************)
(* evaluate_implies, kept apart for the sake of its messages, decides like *)
(* the disjunction of the negated left side with the right side.           *)
(***************************************************************************)
LEMMA ImpliesIsKleene ==
    ASSUME NEW left, NEW right, IsValue(left), IsValue(right)
    PROVE  EvaluateImplies(left, right).is =
               KleeneOr(KleeneNot(left.is), right.is)
<1>1. CASE left.is = "True"
  BY <1>1 DEF IsValue, EvaluateImplies, KleeneOr, KleeneNot, IsTrue, IsFalse,
              TrueValue, FalseValue, Pending
<1>2. CASE left.is = "False"
  BY <1>2 DEF IsValue, EvaluateImplies, KleeneOr, KleeneNot, IsFalse, TrueValue
<1>3. CASE left.is = "Residual"
  BY <1>3 DEF IsValue, EvaluateImplies, KleeneOr, KleeneNot, IsTrue, IsFalse,
              TrueValue, Pending
<1>. QED BY <1>1, <1>2, <1>3 DEF IsValue

(***************************************************************************)
(* Until its end, an Always that waits for earlier instances of its        *)
(* subformula is their conjunction with the rest of itself; after the end  *)
(* it is true, whatever it still waited for (evaluate_and_always).         *)
(***************************************************************************)
LEMMA AndAlwaysIsKleene ==
    ASSUME NEW subformula, NEW end, NEW onset, NEW time,
           NEW left, NEW right, IsValue(left), IsValue(right)
    PROVE  EvaluateAndAlways(subformula, end, onset, time, left, right).is =
               IF Past(end, time) THEN "True" ELSE KleeneAnd(left.is, right.is)
<1>1. CASE Past(end, time)
  BY <1>1 DEF EvaluateAndAlways, TrueValue
<1>2. CASE ~Past(end, time) /\ left.is = "True"
  BY <1>2 DEF IsValue, EvaluateAndAlways, KleeneAnd, IsTrue, IsFalse,
              IsPending, TrueValue, FalseValue, Pending
<1>3. CASE ~Past(end, time) /\ left.is = "False"
  BY <1>3 DEF IsValue, EvaluateAndAlways, KleeneAnd, IsTrue, IsFalse,
              IsPending, FalseValue
<1>4. CASE ~Past(end, time) /\ left.is = "Residual"
  BY <1>4 DEF IsValue, EvaluateAndAlways, KleeneAnd, IsTrue, IsFalse,
              IsPending, FalseValue, Pending
<1>. QED BY <1>1, <1>2, <1>3, <1>4 DEF IsValue

(***************************************************************************)
(* Until its end, an Eventually that waits for earlier instances of its    *)
(* subformula is their disjunction with the rest of itself; after the end  *)
(* it is false, whatever it still waited for (evaluate_or_eventually).     *)
(***************************************************************************)
LEMMA OrEventuallyIsKleene ==
    ASSUME NEW subformula, NEW end, NEW time,
           NEW left, NEW right, IsValue(left), IsValue(right)
    PROVE  EvaluateOrEventually(subformula, end, time, left, right).is =
               IF Past(end, time) THEN "False" ELSE KleeneOr(left.is, right.is)
<1>1. CASE Past(end, time)
  BY <1>1 DEF EvaluateOrEventually, FalseValue
<1>2. CASE ~Past(end, time) /\ left.is = "True"
  BY <1>2 DEF EvaluateOrEventually, KleeneOr, IsTrue, TrueValue
<1>3. CASE ~Past(end, time) /\ left.is = "False"
  BY <1>3 DEF IsValue, EvaluateOrEventually, KleeneOr, IsTrue, IsFalse,
              TrueValue, FalseValue
<1>4. CASE ~Past(end, time) /\ left.is = "Residual"
  BY <1>4 DEF IsValue, EvaluateOrEventually, KleeneOr, IsTrue, IsFalse,
              TrueValue, Pending
<1>. QED BY <1>1, <1>2, <1>3, <1>4 DEF IsValue

(***************************************************************************)
(* The connectives and the two waiting operators decide as Kleene's logic  *)
(* does, for all values of their operands and at every time: no verdict    *)
(* depends on the side an operand stands on or on the form of a residual.  *)
(***************************************************************************)
THEOREM ConnectivesAreKleene ==
    ASSUME NEW left, NEW right, IsValue(left), IsValue(right),
           NEW subformula, NEW end, NEW onset, NEW time
    PROVE  /\ EvaluateAnd(left, right).is = EvaluateAnd(right, left).is
           /\ EvaluateOr(left, right).is = EvaluateOr(right, left).is
           /\ EvaluateImplies(left, right).is =
                  KleeneOr(KleeneNot(left.is), right.is)
           /\ ~Past(end, time) =>
                /\ EvaluateAndAlways(subformula, end, onset, time, left, right).is
                       = EvaluateAnd(left, right).is
                /\ EvaluateOrEventually(subformula, end, time, left, right).is
                       = EvaluateOr(left, right).is
<1>1. KleeneAnd(left.is, right.is) = KleeneAnd(right.is, left.is)
  BY DEF KleeneAnd
<1>2. KleeneOr(left.is, right.is) = KleeneOr(right.is, left.is)
  BY DEF KleeneOr
<1>3. EvaluateAnd(left, right).is = EvaluateAnd(right, left).is
  BY <1>1, AndIsKleene
<1>4. EvaluateOr(left, right).is = EvaluateOr(right, left).is
  BY <1>2, OrIsKleene
<1>5. ASSUME ~Past(end, time)
      PROVE  EvaluateAndAlways(subformula, end, onset, time, left, right).is
                 = EvaluateAnd(left, right).is
  BY <1>5, AndIsKleene, AndAlwaysIsKleene
<1>6. ASSUME ~Past(end, time)
      PROVE  EvaluateOrEventually(subformula, end, time, left, right).is
                 = EvaluateOr(left, right).is
  BY <1>6, OrIsKleene, OrEventuallyIsKleene
<1>. QED BY <1>3, <1>4, <1>5, <1>6, ImpliesIsKleene

(***************************************************************************)
(* A violated Always is never given up: wherever it is found false, at     *)
(* first or while it waits, there is a residual to go on from, so the      *)
(* verifier does not settle it as false (evaluate_always,                  *)
(* evaluate_and_always).  An Eventually is only false for good.            *)
(***************************************************************************)
THEOREM ViolatedAlwaysGoesOn ==
    ASSUME NEW subformula, NEW end, NEW onset, NEW time, NEW inner,
           NEW left, NEW right,
           IsValue(inner), IsValue(left), IsValue(right)
    PROVE  /\ IsFalse(AlwaysValue(subformula, end, time, inner)) =>
                  AlwaysValue(subformula, end, time, inner).next # <<>>
           /\ IsFalse(EvaluateAndAlways(subformula, end, onset, time,
                                        left, right)) =>
                  EvaluateAndAlways(subformula, end, onset, time,
                                    left, right).next # <<>>
           /\ IsFalse(EventuallyValue(subformula, end, time, inner)) =>
                  EventuallyValue(subformula, end, time, inner).next = <<>>
<1>1. ASSUME NEW rest, NEW left2, NEW since
      PROVE  Continuation(subformula, end, since, left2, rest) # <<>>
  BY DEF Continuation
<1>2. IsFalse(AlwaysValue(subformula, end, time, inner)) =>
          AlwaysValue(subformula, end, time, inner).next # <<>>
  BY <1>1 DEF AlwaysValue, IsTrue, IsFalse, IsPending, TrueValue, FalseValue,
              Pending
<1>3. IsFalse(EvaluateAndAlways(subformula, end, onset, time, left, right)) =>
          EvaluateAndAlways(subformula, end, onset, time, left, right).next # <<>>
  BY <1>1 DEF EvaluateAndAlways, IsTrue, IsFalse, IsPending, TrueValue,
              FalseValue, Pending
<1>4. IsFalse(EventuallyValue(subformula, end, time, inner)) =>
          EventuallyValue(subformula, end, time, inner).next = <<>>
  BY DEF EventuallyValue, IsTrue, IsFalse, TrueValue, FalseValue, Pending
<1>. QED BY <1>2, <1>3, <1>4

-----------------------------------------------------------------------------
(***************************************************************************)
(* The recursion, one level at a time: each recursive function does in a   *)
(* case what Ltl and Verifier say, with itself for the parts.              *)
(***************************************************************************)
IsResidual(r) ==
    \/ r = TrueResidual
    \/ \E violation : r = FalseResidual(violation)
    \/ \E op \in {"And", "Or", "Implies"} : \E left, right :
          r = Combined(op, left, right)
    \/ \E formula : r = Once(formula)
    \/ \E formula, end : r = DerivedAlways(formula, end)
    \/ \E formula, end : r = DerivedEventually(formula, end)
    \/ \E formula, end, onset, left, right :
          r = AndAlways(formula, end, onset, left, right)
    \/ \E formula, end, left, right : r = OrEventually(formula, end, left, right)

Traces ==
    {tr \in Seq([time : Nat, state : States]) :
        \A j, k \in 1..Len(tr) : j <= k => tr[j].time <= tr[k].time}

SyntaxRecursion ==
    \A s \in Syntaxes : \A negated \in BOOLEAN :
        /\ Go(s, negated) = GoCase(s, negated)
        /\ \A state \in States : \A time \in Nat :
              Evaluate(Go(s, negated), state, time)
                  = EvaluateCase(Go(s, negated), state, time)

ResidualRecursion ==
    \A r : IsResidual(r) =>
        /\ StopDefault(r) = StopDefaultCase(r)
        /\ \A state \in States : \A time \in Nat :
              Step(r, state, time) = StepCase(r, state, time)

ReferenceRecursion ==
    \A tr \in Traces : \A s \in Syntaxes : \A n \in 1..Len(tr) : \A i \in 1..n :
        /\ Verdict(tr, s, i, n) = VerdictCase(tr, s, i, n)
        /\ \A sign \in BOOLEAN :
              TrueAtEnd(tr, s, sign, i, n) = TrueAtEndCase(tr, s, sign, i, n)

Recursive == SyntaxRecursion /\ ResidualRecursion /\ ReferenceRecursion

(***************************************************************************)
(* The step of a residual, by its form (Evaluator::step).                  *)
(***************************************************************************)
LEMMA StepOfForms ==
    ASSUME ResidualRecursion, NEW state \in States, NEW time \in Nat
    PROVE  /\ Step(TrueResidual, state, time) = TrueValue
           /\ \A violation : Step(FalseResidual(violation), state, time)
                                = FalseValue(violation, <<>>)
           /\ \A left, right :
                /\ Step(Combined("And", left, right), state, time)
                       = EvaluateAnd(Step(left, state, time),
                                     Step(right, state, time))
                /\ Step(Combined("Or", left, right), state, time)
                       = EvaluateOr(Step(left, state, time),
                                    Step(right, state, time))
                /\ Step(Combined("Implies", left, right), state, time)
                       = EvaluateImplies(Step(left, state, time),
                                         Step(right, state, time))
           /\ \A formula : Step(Once(formula), state, time)
                              = Evaluate(formula, state, time)
           /\ \A formula, end :
                /\ Step(DerivedAlways(formula, end), state, time)
                       = AlwaysValue(formula, end, time,
                                     Evaluate(formula, state, time))
                /\ Step(DerivedEventually(formula, end), state, time)
                       = EventuallyValue(formula, end, time,
                                         Evaluate(formula, state, time))
           /\ \A formula, end, onset, left, right :
                Step(AndAlways(formula, end, onset, left, right), state, time)
                    = EvaluateAndAlways(formula, end, onset, time,
                          Step(left, state, time), Step(right, state, time))
           /\ \A formula, end, left, right :
                Step(OrEventually(formula, end, left, right), state, time)
                    = EvaluateOrEventually(formula, end, time,
                          Step(left, state, time), Step(right, state, time))
<1>1. Step(TrueResidual, state, time) = TrueValue
  <2>1. IsResidual(TrueResidual)
    BY DEF IsResidual
  <2>2. Step(TrueResidual, state, time) = StepCase(TrueResidual, state, time)
    BY <2>1 DEF ResidualRecursion
  <2> QED
    BY <2>2 DEF StepCase, TrueResidual
<1>2. ASSUME NEW violation
      PROVE  Step(FalseResidual(violation), state, time) = FalseValue(violation, <<>>)
  <2>1. IsResidual(FalseResidual(violation))
    BY DEF IsResidual
  <2>2. Step(FalseResidual(violation), state, time)
            = StepCase(FalseResidual(violation), state, time)
    BY <2>1 DEF ResidualRecursion
  <2> QED
    BY <2>2 DEF StepCase, FalseResidual
<1>3. ASSUME NEW op \in {"And", "Or", "Implies"}, NEW left, NEW right
      PROVE  Step(Combined(op, left, right), state, time) =
                 IF op = "And"
                 THEN EvaluateAnd(Step(left, state, time), Step(right, state, time))
                 ELSE IF op = "Or"
                 THEN EvaluateOr(Step(left, state, time), Step(right, state, time))
                 ELSE EvaluateImplies(Step(left, state, time),
                                      Step(right, state, time))
  <2>1. IsResidual(Combined(op, left, right))
    BY DEF IsResidual
  <2>2. Step(Combined(op, left, right), state, time)
            = StepCase(Combined(op, left, right), state, time)
    BY <2>1 DEF ResidualRecursion
  <2>3. CASE op = "And"
    BY <2>2, <2>3 DEF StepCase, Combined
  <2>4. CASE op = "Or"
    BY <2>2, <2>4 DEF StepCase, Combined
  <2>5. CASE op = "Implies"
    BY <2>2, <2>5 DEF StepCase, Combined
  <2> QED
    BY <2>3, <2>4, <2>5
<1>4. ASSUME NEW formula
      PROVE  Step(Once(formula), state, time) = Evaluate(formula, state, time)
  <2>1. IsResidual(Once(formula))
    BY DEF IsResidual
  <2>2. Step(Once(formula), state, time) = StepCase(Once(formula), state, time)
    BY <2>1 DEF ResidualRecursion
  <2> QED
    BY <2>2 DEF StepCase, Once
<1>5. ASSUME NEW formula, NEW end
      PROVE  Step(DerivedAlways(formula, end), state, time)
                 = AlwaysValue(formula, end, time, Evaluate(formula, state, time))
  <2>1. IsResidual(DerivedAlways(formula, end))
    BY DEF IsResidual
  <2>2. Step(DerivedAlways(formula, end), state, time)
            = StepCase(DerivedAlways(formula, end), state, time)
    BY <2>1 DEF ResidualRecursion
  <2> QED
    BY <2>2 DEF StepCase, DerivedAlways
<1>6. ASSUME NEW formula, NEW end
      PROVE  Step(DerivedEventually(formula, end), state, time)
                 = EventuallyValue(formula, end, time, Evaluate(formula, state, time))
  <2>1. IsResidual(DerivedEventually(formula, end))
    BY DEF IsResidual
  <2>2. Step(DerivedEventually(formula, end), state, time)
            = StepCase(DerivedEventually(formula, end), state, time)
    BY <2>1 DEF ResidualRecursion
  <2> QED
    BY <2>2 DEF StepCase, DerivedEventually
<1>7. ASSUME NEW formula, NEW end, NEW onset, NEW left, NEW right
      PROVE  Step(AndAlways(formula, end, onset, left, right), state, time)
                 = EvaluateAndAlways(formula, end, onset, time,
                       Step(left, state, time), Step(right, state, time))
  <2>1. IsResidual(AndAlways(formula, end, onset, left, right))
    BY DEF IsResidual
  <2>2. Step(AndAlways(formula, end, onset, left, right), state, time)
            = StepCase(AndAlways(formula, end, onset, left, right), state, time)
    BY <2>1 DEF ResidualRecursion
  <2> QED
    BY <2>2 DEF StepCase, AndAlways
<1>8. ASSUME NEW formula, NEW end, NEW left, NEW right
      PROVE  Step(OrEventually(formula, end, left, right), state, time)
                 = EvaluateOrEventually(formula, end, time,
                       Step(left, state, time), Step(right, state, time))
  <2>1. IsResidual(OrEventually(formula, end, left, right))
    BY DEF IsResidual
  <2>2. Step(OrEventually(formula, end, left, right), state, time)
            = StepCase(OrEventually(formula, end, left, right), state, time)
    BY <2>1 DEF ResidualRecursion
  <2> QED
    BY <2>2 DEF StepCase, OrEventually
<1>9. ASSUME NEW left, NEW right
      PROVE  /\ Step(Combined("And", left, right), state, time)
                    = EvaluateAnd(Step(left, state, time), Step(right, state, time))
             /\ Step(Combined("Or", left, right), state, time)
                    = EvaluateOr(Step(left, state, time), Step(right, state, time))
             /\ Step(Combined("Implies", left, right), state, time)
                    = EvaluateImplies(Step(left, state, time),
                                      Step(right, state, time))
  BY <1>3
<1> QED
  BY <1>1, <1>2, <1>4, <1>5, <1>6, <1>7, <1>8, <1>9

(***************************************************************************)
(* What a residual is worth at the end, by its form (stop_default).        *)
(***************************************************************************)
LEMMA DefaultOfForms ==
    ASSUME ResidualRecursion,
           NEW left, NEW right, NEW formula, NEW end, NEW onset, NEW violation
    PROVE  /\ StopDefault(TrueResidual)
           /\ ~StopDefault(FalseResidual(violation))
           /\ StopDefault(Combined("And", left, right))
                  <=> StopDefault(left) /\ StopDefault(right)
           /\ StopDefault(Combined("Or", left, right))
                  <=> StopDefault(left) \/ StopDefault(right)
           /\ StopDefault(Combined("Implies", left, right))
                  <=> (StopDefault(left) => StopDefault(right))
           /\ StopDefault(Once(formula))
           /\ StopDefault(DerivedAlways(formula, end))
           /\ ~StopDefault(DerivedEventually(formula, end))
           /\ StopDefault(AndAlways(formula, end, onset, left, right))
                  <=> StopDefault(left) /\ StopDefault(right)
           /\ StopDefault(OrEventually(formula, end, left, right))
                  <=> StopDefault(left) \/ StopDefault(right)
<1>1. StopDefault(TrueResidual)
  <2>1. IsResidual(TrueResidual)
    BY DEF IsResidual
  <2>2. StopDefault(TrueResidual) = StopDefaultCase(TrueResidual)
    BY <2>1 DEF ResidualRecursion
  <2> QED
    BY <2>2 DEF StopDefaultCase, TrueResidual
<1>2. ~StopDefault(FalseResidual(violation))
  <2>1. IsResidual(FalseResidual(violation))
    BY DEF IsResidual
  <2>2. StopDefault(FalseResidual(violation))
            = StopDefaultCase(FalseResidual(violation))
    BY <2>1 DEF ResidualRecursion
  <2> QED
    BY <2>2 DEF StopDefaultCase, FalseResidual
<1>3. ASSUME NEW op \in {"And", "Or", "Implies"}
      PROVE  StopDefault(Combined(op, left, right)) <=>
                 IF op = "And" THEN StopDefault(left) /\ StopDefault(right)
                 ELSE IF op = "Or" THEN StopDefault(left) \/ StopDefault(right)
                 ELSE (StopDefault(left) => StopDefault(right))
  <2>1. IsResidual(Combined(op, left, right))
    BY DEF IsResidual
  <2>2. StopDefault(Combined(op, left, right))
            = StopDefaultCase(Combined(op, left, right))
    BY <2>1 DEF ResidualRecursion
  <2>3. CASE op = "And"
    BY <2>2, <2>3 DEF StopDefaultCase, Combined
  <2>4. CASE op = "Or"
    BY <2>2, <2>4 DEF StopDefaultCase, Combined
  <2>5. CASE op = "Implies"
    BY <2>2, <2>5 DEF StopDefaultCase, Combined
  <2> QED
    BY <2>3, <2>4, <2>5
<1>4. StopDefault(Once(formula))
  <2>1. IsResidual(Once(formula))
    BY DEF IsResidual
  <2>2. StopDefault(Once(formula)) = StopDefaultCase(Once(formula))
    BY <2>1 DEF ResidualRecursion
  <2> QED
    BY <2>2 DEF StopDefaultCase, Once, Leaning
<1>5. StopDefault(DerivedAlways(formula, end))
  <2>1. IsResidual(DerivedAlways(formula, end))
    BY DEF IsResidual
  <2>2. StopDefault(DerivedAlways(formula, end))
            = StopDefaultCase(DerivedAlways(formula, end))
    BY <2>1 DEF ResidualRecursion
  <2> QED
    BY <2>2 DEF StopDefaultCase, DerivedAlways, Leaning
<1>6. ~StopDefault(DerivedEventually(formula, end))
  <2>1. IsResidual(DerivedEventually(formula, end))
    BY DEF IsResidual
  <2>2. StopDefault(DerivedEventually(formula, end))
            = StopDefaultCase(DerivedEventually(formula, end))
    BY <2>1 DEF ResidualRecursion
  <2> QED
    BY <2>2 DEF StopDefaultCase, DerivedEventually, Leaning
<1>7. StopDefault(AndAlways(formula, end, onset, left, right))
          <=> StopDefault(left) /\ StopDefault(right)
  <2>1. IsResidual(AndAlways(formula, end, onset, left, right))
    BY DEF IsResidual
  <2>2. StopDefault(AndAlways(formula, end, onset, left, right))
            = StopDefaultCase(AndAlways(formula, end, onset, left, right))
    BY <2>1 DEF ResidualRecursion
  <2> QED
    BY <2>2 DEF StopDefaultCase, AndAlways
<1>8. StopDefault(OrEventually(formula, end, left, right))
          <=> StopDefault(left) \/ StopDefault(right)
  <2>1. IsResidual(OrEventually(formula, end, left, right))
    BY DEF IsResidual
  <2>2. StopDefault(OrEventually(formula, end, left, right))
            = StopDefaultCase(OrEventually(formula, end, left, right))
    BY <2>1 DEF ResidualRecursion
  <2> QED
    BY <2>2 DEF StopDefaultCase, OrEventually
<1> QED
  BY <1>1, <1>2, <1>3, <1>4, <1>5, <1>6, <1>7, <1>8

(***************************************************************************)
(* The syntaxes there are, and their parts.                                *)
(***************************************************************************)
Operators ==
    {"Pure", "Thunk", "Not", "Next", "And", "Or", "Implies", "Always", "Eventually"}

LEMMA SyntaxForms ==
    ASSUME NEW s \in Syntaxes
    PROVE  /\ s.op \in Operators /\ Depth(s) \in Nat
           /\ s.op = "Pure" => s.value \in BOOLEAN
           /\ s.op = "Thunk" =>
                \A state \in States :
                    /\ Call(s.function, state) \in Syntaxes
                    /\ Depth(Call(s.function, state)) < Depth(s)
           /\ s.op \in {"Not", "Next", "Always", "Eventually"} =>
                s.sub \in Syntaxes /\ Depth(s.sub) < Depth(s)
           /\ s.op \in {"And", "Or", "Implies"} =>
                /\ s.left \in Syntaxes /\ Depth(s.left) < Depth(s)
                /\ s.right \in Syntaxes /\ Depth(s.right) < Depth(s)
           /\ s.op \in {"Always", "Eventually"} => s.bound \in Nat \cup {NoEnd}
<1>1. /\ IsSyntax(s) /\ Depth(s) \in Nat
      /\ \A part \in Parts(s) : part \in Syntaxes /\ Depth(part) < Depth(s)
  BY VerifierAssumption
<1>2. s.op \in Operators
  BY <1>1 DEF IsSyntax, Operators
<1>3. s.op = "Pure" => s.value \in BOOLEAN
  BY <1>1 DEF IsSyntax
<1>4. s.op \in {"Always", "Eventually"} => s.bound \in Nat \cup {NoEnd}
  <2>1. CASE s.op = "Always"
    BY <1>1, <2>1 DEF IsSyntax
  <2>2. CASE s.op = "Eventually"
    BY <1>1, <2>2 DEF IsSyntax
  <2> QED
    BY <2>1, <2>2
<1>5. s.op = "Thunk" => Parts(s) = {Call(s.function, state) : state \in States}
  BY DEF Parts
<1>6. s.op \in {"And", "Or", "Implies"} => Parts(s) = {s.left, s.right}
  BY DEF Parts
<1>7. s.op \in {"Not", "Next", "Always", "Eventually"} => Parts(s) = {s.sub}
  BY DEF Parts
<1> QED
  BY <1>1, <1>2, <1>3, <1>4, <1>5, <1>6, <1>7

(***************************************************************************)
(* The value of the normal form of a syntax (of its negation, if `sign` is *)
(* FALSE) in a state, by the form of the syntax (nnf and                   *)
(* Evaluator::evaluate).                                                   *)
(***************************************************************************)
Formula(s, sign) == Go(s, ~sign)
ValueIn(s, sign, state, time) == Evaluate(Formula(s, sign), state, time)

\* Whether it is a conjunction, or an Always, rather than a disjunction.
Universal(s, sign) == (s.op \in {"And", "Always"}) = sign

LEMMA EvaluatedForms ==
    ASSUME NEW value, NEW sub, NEW bound, NEW left, NEW right, NEW state, NEW time
    PROVE  /\ EvaluateCase(Pure(value), state, time) =
                  IF value THEN TrueValue ELSE FalseValue(FalseAt(time), <<>>)
           /\ EvaluateCase(Always(sub, bound), state, time) =
                  AlwaysValue(sub, EndOf(bound, time), time,
                              Evaluate(sub, state, time))
           /\ EvaluateCase(Eventually(sub, bound), state, time) =
                  EventuallyValue(sub, EndOf(bound, time), time,
                                  Evaluate(sub, state, time))
           /\ EvaluateCase(Binary("And", left, right), state, time) =
                  EvaluateAnd(Evaluate(left, state, time),
                              Evaluate(right, state, time))
           /\ EvaluateCase(Binary("Implies", left, right), state, time) =
                  EvaluateImplies(Evaluate(left, state, time),
                                  Evaluate(right, state, time))
<1>1. EvaluateCase(Pure(value), state, time) =
          IF value THEN TrueValue ELSE FalseValue(FalseAt(time), <<>>)
  BY DEF EvaluateCase, Pure
<1>2. EvaluateCase(Always(sub, bound), state, time) =
          AlwaysValue(sub, EndOf(bound, time), time, Evaluate(sub, state, time))
  BY DEF EvaluateCase, Always
<1>3. EvaluateCase(Eventually(sub, bound), state, time) =
          EventuallyValue(sub, EndOf(bound, time), time, Evaluate(sub, state, time))
  BY DEF EvaluateCase, Eventually
<1>4. EvaluateCase(Binary("And", left, right), state, time) =
          EvaluateAnd(Evaluate(left, state, time), Evaluate(right, state, time))
  BY DEF EvaluateCase, Binary
<1>5. EvaluateCase(Binary("Implies", left, right), state, time) =
          EvaluateImplies(Evaluate(left, state, time),
                          Evaluate(right, state, time))
  BY DEF EvaluateCase, Binary
<1> QED
  BY <1>1, <1>2, <1>3, <1>4, <1>5

LEMMA ValueOfForms ==
    ASSUME SyntaxRecursion, NEW s \in Syntaxes, NEW sign \in BOOLEAN,
           NEW state \in States, NEW time \in Nat
    PROVE  /\ s.op = "Pure" =>
                ValueIn(s, sign, state, time) =
                    IF s.value = sign THEN TrueValue
                    ELSE FalseValue(FalseAt(time), <<>>)
           /\ s.op = "Thunk" =>
                ValueIn(s, sign, state, time)
                    = ValueIn(Call(s.function, state), sign, state, time)
           /\ s.op = "Not" =>
                ValueIn(s, sign, state, time) = ValueIn(s.sub, ~sign, state, time)
           /\ s.op \in {"And", "Or"} =>
                ValueIn(s, sign, state, time) =
                    IF Universal(s, sign)
                    THEN EvaluateAnd(ValueIn(s.left, sign, state, time),
                                     ValueIn(s.right, sign, state, time))
                    ELSE EvaluateOr(ValueIn(s.left, sign, state, time),
                                    ValueIn(s.right, sign, state, time))
           /\ s.op = "Implies" =>
                ValueIn(s, sign, state, time) =
                    IF sign
                    THEN EvaluateImplies(ValueIn(s.left, TRUE, state, time),
                                         ValueIn(s.right, TRUE, state, time))
                    ELSE EvaluateAnd(ValueIn(s.left, TRUE, state, time),
                                     ValueIn(s.right, FALSE, state, time))
           /\ s.op = "Next" =>
                ValueIn(s, sign, state, time) = Pending(Once(Formula(s.sub, sign)))
           /\ s.op \in {"Always", "Eventually"} =>
                ValueIn(s, sign, state, time) =
                    IF Universal(s, sign)
                    THEN AlwaysValue(Formula(s.sub, sign), EndOf(s.bound, time),
                             time, ValueIn(s.sub, sign, state, time))
                    ELSE EventuallyValue(Formula(s.sub, sign),
                             EndOf(s.bound, time), time,
                             ValueIn(s.sub, sign, state, time))
<1> DEFINE g == Go(s, ~sign)
<1>1. g = GoCase(s, ~sign)
  BY DEF SyntaxRecursion
<1>2. ValueIn(s, sign, state, time) = EvaluateCase(g, state, time)
  BY DEF SyntaxRecursion, ValueIn, Formula
<1>3. CASE s.op = "Pure"
  <2>1. s.value \in BOOLEAN
    BY <1>3, SyntaxForms
  <2>2. PICK b \in BOOLEAN : b = (s.value # ~sign)
    OBVIOUS
  <2>3. g = Pure(b)
    BY <1>1, <1>3, <2>2 DEF GoCase
  <2>4. EvaluateCase(Pure(b), state, time) =
            IF b THEN TrueValue ELSE FalseValue(FalseAt(time), <<>>)
    BY EvaluatedForms
  <2>5. b = (s.value = sign)
    BY <2>1, <2>2
  <2> QED
    BY <1>2, <1>3, <2>3, <2>4, <2>5
<1>4. CASE s.op = "Thunk"
  <2>1. g = [op |-> "Thunk", function |-> s.function, negated |-> ~sign]
    BY <1>1, <1>4 DEF GoCase
  <2>2. EvaluateCase(g, state, time) = Evaluate(EvaluateThunk(g, state), state, time)
    BY <2>1 DEF EvaluateCase
  <2>3. EvaluateThunk(g, state) = Go(Call(s.function, state), ~sign)
    BY <2>1 DEF EvaluateThunk
  <2> QED
    BY <1>2, <1>4, <2>2, <2>3 DEF ValueIn, Formula
<1>5. CASE s.op = "Not"
  <2>1. g = Go(s.sub, ~~sign)
    BY <1>1, <1>5 DEF GoCase
  <2> QED
    BY <1>5, <2>1 DEF ValueIn, Formula
<1>6. CASE s.op \in {"And", "Or"}
  <2>1. g = Binary(IF ~sign THEN Dual(s.op) ELSE s.op,
                   Go(s.left, ~sign), Go(s.right, ~sign))
    BY <1>1, <1>6 DEF GoCase
  <2>2. (IF ~sign THEN Dual(s.op) ELSE s.op) =
            IF Universal(s, sign) THEN "And" ELSE "Or"
    BY <1>6 DEF Dual, Universal
  <2>3. CASE Universal(s, sign)
    <3>1. g = Binary("And", Go(s.left, ~sign), Go(s.right, ~sign))
      BY <2>1, <2>2, <2>3
    <3> QED
      BY <1>2, <1>6, <2>3, <3>1
         DEF EvaluateCase, Binary, ValueIn, Formula
  <2>4. CASE ~Universal(s, sign)
    <3>1. g = Binary("Or", Go(s.left, ~sign), Go(s.right, ~sign))
      BY <2>1, <2>2, <2>4
    <3> QED
      BY <1>2, <1>6, <2>4, <3>1
         DEF EvaluateCase, Binary, ValueIn, Formula
  <2> QED
    BY <2>3, <2>4
<1>7. CASE s.op = "Implies"
  <2>0. \A part : /\ ValueIn(part, TRUE, state, time)
                        = Evaluate(Go(part, FALSE), state, time)
                  /\ ValueIn(part, FALSE, state, time)
                        = Evaluate(Go(part, TRUE), state, time)
    <3>1. ~TRUE = FALSE /\ ~FALSE = TRUE
      OBVIOUS
    <3> QED
      BY <3>1 DEF ValueIn, Formula
  <2>1. CASE sign
    <3>1. PICK l, r : l = Go(s.left, FALSE) /\ r = Go(s.right, FALSE)
      OBVIOUS
    <3>2. g = Binary("Implies", l, r)
      BY <1>1, <1>7, <2>1, <3>1 DEF GoCase
    <3>3. EvaluateCase(g, state, time)
              = EvaluateImplies(Evaluate(l, state, time), Evaluate(r, state, time))
      BY <3>2, EvaluatedForms
    <3> QED
      BY <1>2, <1>7, <2>0, <2>1, <3>1, <3>3, Zenon
  <2>2. CASE ~sign
    <3>1. PICK l, r : l = Go(s.left, FALSE) /\ r = Go(s.right, TRUE)
      OBVIOUS
    <3>2. g = Binary("And", l, r)
      BY <1>1, <1>7, <2>2, <3>1 DEF GoCase
    <3>3. EvaluateCase(g, state, time)
              = EvaluateAnd(Evaluate(l, state, time), Evaluate(r, state, time))
      BY <3>2, EvaluatedForms
    <3> QED
      BY <1>2, <1>7, <2>0, <2>2, <3>1, <3>3, Zenon
  <2> QED
    BY <2>1, <2>2
<1>8. CASE s.op = "Next"
  <2>1. g = Next1(Go(s.sub, ~sign))
    BY <1>1, <1>8 DEF GoCase
  <2> QED
    BY <1>2, <1>8, <2>1 DEF EvaluateCase, Next1, Formula
<1>9. CASE s.op \in {"Always", "Eventually"}
  <2>1. g = [op |-> IF ~sign THEN Dual(s.op) ELSE s.op,
             sub |-> Go(s.sub, ~sign), bound |-> s.bound]
    BY <1>1, <1>9 DEF GoCase
  <2>2. (IF ~sign THEN Dual(s.op) ELSE s.op) =
            IF Universal(s, sign) THEN "Always" ELSE "Eventually"
    BY <1>9 DEF Dual, Universal
  <2>3. CASE Universal(s, sign)
    <3>1. g = Always(Go(s.sub, ~sign), s.bound)
      BY <2>1, <2>2, <2>3 DEF Always
    <3>2. EvaluateCase(Always(Go(s.sub, ~sign), s.bound), state, time)
              = AlwaysValue(Go(s.sub, ~sign), EndOf(s.bound, time), time,
                            Evaluate(Go(s.sub, ~sign), state, time))
      BY EvaluatedForms
    <3>3. ValueIn(s, sign, state, time)
              = AlwaysValue(Formula(s.sub, sign), EndOf(s.bound, time), time,
                            ValueIn(s.sub, sign, state, time))
      BY <1>2, <3>1, <3>2 DEF ValueIn, Formula
    <3> QED
      BY <1>9, <2>3, <3>3
  <2>4. CASE ~Universal(s, sign)
    <3>1. g = Eventually(Go(s.sub, ~sign), s.bound)
      BY <2>1, <2>2, <2>4 DEF Eventually
    <3>2. EvaluateCase(Eventually(Go(s.sub, ~sign), s.bound), state, time)
              = EventuallyValue(Go(s.sub, ~sign), EndOf(s.bound, time), time,
                                Evaluate(Go(s.sub, ~sign), state, time))
      BY EvaluatedForms
    <3>3. ValueIn(s, sign, state, time)
              = EventuallyValue(Formula(s.sub, sign), EndOf(s.bound, time), time,
                                ValueIn(s.sub, sign, state, time))
      BY <1>2, <3>1, <3>2 DEF ValueIn, Formula
    <3> QED
      BY <1>9, <2>4, <3>3
  <2> QED
    BY <2>3, <2>4
<1>10. s.op \in Operators
  BY SyntaxForms
<1> QED
  BY <1>3, <1>4, <1>5, <1>6, <1>7, <1>8, <1>9, <1>10 DEF Operators

-----------------------------------------------------------------------------
(***************************************************************************)
(* What a residual stands for.  A signal says of each state of a trace     *)
(* what is known by it (as a verdict) and what the property is worth if    *)
(* the trace ends with it.                                                 *)
(***************************************************************************)
IsSignal(g, i, last) ==
    /\ \A n \in i..last :
          /\ g.known[n] \in {-1, 0, 1} /\ g.ends[n] \in BOOLEAN
          /\ g.known[n] = 1 => g.ends[n]
          /\ g.known[n] = -1 => ~g.ends[n]
    /\ \A m, n \in i..last :
          m <= n /\ g.known[m] # 0 => g.known[n] = g.known[m]

Right(v, g, n) ==
    /\ IsValue(v)
    /\ IsTrue(v) <=> g.known[n] = 1
    /\ IsFalse(v) <=> g.known[n] = -1
    /\ IsPending(v) => (StopDefault(v.residual) <=> g.ends[n])

(***************************************************************************)
(* A residual behaves as a signal after state n if stepping it through the *)
(* states that follow gives the right values, until one is decided.        *)
(***************************************************************************)
StepAt(r, tr, n) == Step(r, tr[n].state, tr[n].time)
IsRun(run, r, n, m, tr) ==
    /\ run[n] = Pending(r)
    /\ \A k \in (n + 1)..m :
          IsPending(run[k - 1]) /\ run[k] = StepAt(run[k - 1].residual, tr, k)
Behaves(r, g, n, tr) ==
    \A m \in (n + 1)..Len(tr) : \A run :
        IsRun(run, r, n, m, tr) => Right(run[m], g, m)
Stands(r, g, n, tr) == Behaves(r, g, n, tr) /\ (StopDefault(r) <=> g.ends[n])
Follows(v, g, n, tr) ==
    Right(v, g, n) /\ (IsPending(v) => Behaves(v.residual, g, n, tr))

LEMMA Unrolled ==
    ASSUME NEW tr \in Seq([time : Nat, state : States]), NEW n \in 0..Len(tr),
           NEW r, NEW g
    PROVE  Behaves(r, g, n, tr) <=>
               (n < Len(tr) => Follows(StepAt(r, tr, n + 1), g, n + 1, tr))
<1> DEFINE v == StepAt(r, tr, n + 1)
<1>0. Len(tr) \in Nat /\ n \in Nat
  BY LenProperties
<1>1. ASSUME Behaves(r, g, n, tr), n < Len(tr) PROVE Follows(v, g, n + 1, tr)
  <2>1. Right(v, g, n + 1)
    <3> DEFINE run == [k \in n..(n + 1) |-> IF k = n THEN Pending(r) ELSE v]
    <3>1. run[n] = Pending(r) /\ run[n + 1] = v
      BY <1>0
    <3>2. IsPending(run[n]) /\ run[n].residual = r
      BY <3>1 DEF IsPending, Pending
    <3> HIDE DEF run
    <3>3. \A k \in (n + 1)..(n + 1) : k = n + 1 /\ k - 1 = n
      BY <1>0
    <3>4. IsRun(run, r, n, n + 1, tr)
      BY <3>1, <3>2, <3>3 DEF IsRun
    <3>5. n + 1 \in (n + 1)..Len(tr)
      BY <1>0, <1>1
    <3> QED
      BY <1>1, <3>1, <3>4, <3>5 DEF Behaves
  <2>2. ASSUME IsPending(v), NEW m \in (n + 2)..Len(tr), NEW old,
               IsRun(old, v.residual, n + 1, m, tr)
        PROVE  Right(old[m], g, m)
    <3> DEFINE run == [k \in n..m |-> IF k = n THEN Pending(r)
                                      ELSE IF k = n + 1 THEN v ELSE old[k]]
    <3>0. m \in Nat /\ m >= n + 2 /\ m <= Len(tr)
      BY <1>0
    <3>1. /\ run[n] = Pending(r) /\ run[n + 1] = v /\ run[m] = old[m]
          /\ \A k \in (n + 2)..m : run[k] = old[k]
      BY <1>0, <3>0
    <3>2. /\ IsPending(run[n]) /\ run[n].residual = r
          /\ old[n + 1].residual = v.residual
      BY <2>2, <3>1 DEF IsPending, Pending, IsRun
    <3> HIDE DEF run
    <3>3. ASSUME NEW k \in (n + 1)..m
          PROVE  IsPending(run[k - 1])
                     /\ run[k] = StepAt(run[k - 1].residual, tr, k)
      <4>1. CASE k = n + 1
        <5>1. k - 1 = n
          BY <4>1, <1>0
        <5> QED
          BY <4>1, <5>1, <3>1, <3>2
      <4>2. CASE k = n + 2
        <5>1. k - 1 = n + 1 /\ k \in (n + 2)..m
          BY <4>2, <1>0, <3>0
        <5>2. old[k] = StepAt(old[k - 1].residual, tr, k)
          BY <2>2, <5>1 DEF IsRun
        <5> QED
          BY <5>1, <5>2, <3>1, <3>2, <2>2
      <4>3. CASE k > n + 2
        <5>1. k - 1 \in (n + 2)..m /\ k \in (n + 2)..m
          BY <4>3, <1>0, <3>0
        <5>2. IsPending(old[k - 1]) /\ old[k] = StepAt(old[k - 1].residual, tr, k)
          BY <2>2, <5>1 DEF IsRun
        <5> QED
          BY <5>1, <5>2, <3>1
      <4> QED
        BY <4>1, <4>2, <4>3, <1>0, <3>0
    <3>4. IsRun(run, r, n, m, tr)
      BY <3>1, <3>3 DEF IsRun
    <3>5. m \in (n + 1)..Len(tr)
      BY <1>0, <3>0
    <3> QED
      BY <1>1, <3>1, <3>4, <3>5 DEF Behaves
  <2>3. (n + 1) + 1 = n + 2
    BY <1>0
  <2> QED
    BY <2>1, <2>2, <2>3 DEF Follows, Behaves
<1>2. ASSUME n < Len(tr) => Follows(v, g, n + 1, tr) PROVE Behaves(r, g, n, tr)
  <2> SUFFICES ASSUME NEW m \in (n + 1)..Len(tr), NEW run,
                      IsRun(run, r, n, m, tr)
               PROVE  Right(run[m], g, m)
    BY DEF Behaves
  <2>0. m \in Nat /\ m >= n + 1 /\ m <= Len(tr) /\ n < Len(tr)
    BY <1>0
  <2>1. run[n + 1] = v
    <3>1. n + 1 \in (n + 1)..m /\ (n + 1) - 1 = n
      BY <1>0, <2>0
    <3>2. run[n + 1] = StepAt(run[n].residual, tr, n + 1) /\ run[n] = Pending(r)
      BY <3>1 DEF IsRun
    <3> QED
      BY <3>2 DEF Pending
  <2>2. Follows(v, g, n + 1, tr)
    BY <1>2, <2>0
  <2>3. CASE m = n + 1
    BY <2>1, <2>2, <2>3 DEF Follows
  <2>4. CASE m > n + 1
    <3> DEFINE next == [k \in (n + 1)..m |->
                            IF k = n + 1 THEN Pending(v.residual) ELSE run[k]]
    <3>1. /\ next[n + 1] = Pending(v.residual) /\ next[m] = run[m]
          /\ \A k \in (n + 2)..m : next[k] = run[k]
      BY <1>0, <2>0, <2>4
    <3>2. IsPending(v)
      <4>1. n + 2 \in (n + 1)..m /\ (n + 2) - 1 = n + 1
        BY <1>0, <2>0, <2>4
      <4> QED
        BY <4>1, <2>1 DEF IsRun
    <3>3. IsPending(next[n + 1]) /\ next[n + 1].residual = v.residual
      BY <3>1 DEF IsPending, Pending
    <3> HIDE DEF next
    <3>4. ASSUME NEW k \in (n + 2)..m
          PROVE  IsPending(next[k - 1])
                     /\ next[k] = StepAt(next[k - 1].residual, tr, k)
      <4>0. k \in (n + 1)..m
        BY <1>0, <2>0
      <4>1. IsPending(run[k - 1]) /\ run[k] = StepAt(run[k - 1].residual, tr, k)
        BY <4>0 DEF IsRun
      <4>2. CASE k = n + 2
        <5>1. k - 1 = n + 1
          BY <4>2, <1>0
        <5> QED
          BY <4>1, <5>1, <3>1, <3>3, <2>1
      <4>3. CASE k > n + 2
        <5>1. k - 1 \in (n + 2)..m
          BY <4>3, <1>0, <2>0
        <5> QED
          BY <4>1, <5>1, <3>1
      <4> QED
        BY <4>2, <4>3, <1>0, <2>0
    <3>5. (n + 1) + 1 = n + 2 /\ m \in (n + 2)..Len(tr)
      BY <1>0, <2>0, <2>4
    <3>6. IsRun(next, v.residual, n + 1, m, tr)
      BY <3>1, <3>4, <3>5 DEF IsRun
    <3>7. Behaves(v.residual, g, n + 1, tr)
      BY <2>2, <3>2 DEF Follows
    <3> QED
      BY <3>1, <3>5, <3>6, <3>7 DEF Behaves
  <2> QED
    BY <2>3, <2>4, <2>0, <1>0
<1> QED
  BY <1>1, <1>2

(***************************************************************************)
(* Induction by a least counterexample: from the end of a trace back, and  *)
(* over the depth of syntaxes.                                             *)
(***************************************************************************)
LEMMA LeastNumber ==
    ASSUME NEW T \in SUBSET Nat, T # {}
    PROVE  \E least \in T : \A n \in T : least <= n
<1>1. \E x \in T : \A y \in T : ~ (<<y, x>> \in OpToRel(<, Nat))
  BY NatLessThanWellFounded, WFMin
<1>2. PICK x \in T : \A y \in T : ~ (<<y, x>> \in OpToRel(<, Nat))
  BY <1>1
<1>3. ASSUME NEW y \in T PROVE x <= y
  <2>1. x \in Nat /\ y \in Nat
    OBVIOUS
  <2>2. ~(y < x)
    BY <1>2, <2>1 DEF OpToRel
  <2> QED
    BY <2>1, <2>2
<1> QED
  BY <1>3

LEMMA Backwards ==
    ASSUME NEW first \in Nat, NEW last \in Nat, NEW holds,
           \A n \in first..last : (n = last \/ n + 1 \in holds) => n \in holds
    PROVE  first..last \subseteq holds
<1> DEFINE T == {k \in Nat : last - k \in first..last /\ last - k \notin holds}
<1> SUFFICES ASSUME NEW n \in first..last, n \notin holds PROVE FALSE
  OBVIOUS
<1>1. last - n \in T
  <2>1. last - (last - n) = n /\ last - n \in Nat
    OBVIOUS
  <2> QED
    BY <2>1
<1>2. PICK least \in T : \A k \in T : least <= k
  BY <1>1, LeastNumber
<1> DEFINE m == last - least
<1>3. m \in first..last /\ m \notin holds /\ least \in Nat
  BY <1>2
<1>4. m # last /\ m + 1 \notin holds
  BY <1>3
<1>5. m + 1 \in first..last
  BY <1>3, <1>4
<1>6. least - 1 \in Nat /\ last - (least - 1) = m + 1
  BY <1>3, <1>5
<1>7. least - 1 \in T
  BY <1>4, <1>5, <1>6
<1> QED
  BY <1>2, <1>3, <1>7

LEMMA ByDepth ==
    ASSUME NEW holds,
           \A s \in Syntaxes :
              (\A t \in Syntaxes : Depth(t) < Depth(s) => t \in holds) => s \in holds
    PROVE  Syntaxes \subseteq holds
<1> DEFINE T == {n \in Nat : \E s \in Syntaxes : s \notin holds /\ Depth(s) = n}
<1> SUFFICES ASSUME NEW s \in Syntaxes, s \notin holds PROVE FALSE
  OBVIOUS
<1>1. Depth(s) \in T
  BY SyntaxForms
<1>2. PICK least \in T : \A n \in T : least <= n
  BY <1>1, LeastNumber
<1>3. PICK t \in Syntaxes : t \notin holds /\ Depth(t) = least
  BY <1>2
<1>4. ASSUME NEW u \in Syntaxes, Depth(u) < Depth(t) PROVE u \in holds
  <2>1. Depth(u) \in Nat /\ least \in Nat
    BY <1>2, SyntaxForms
  <2>2. Depth(u) \notin T
    BY <1>2, <1>3, <1>4, <2>1
  <2> QED
    BY <2>1, <2>2
<1> QED
  BY <1>3, <1>4

LEMMA Entries ==
    ASSUME NEW tr \in Traces
    PROVE  /\ tr \in Seq([time : Nat, state : States]) /\ Len(tr) \in Nat
           /\ \A k \in 1..Len(tr) : tr[k].state \in States /\ tr[k].time \in Nat
           /\ \A j, k \in 1..Len(tr) : j <= k => tr[j].time <= tr[k].time
<1>1. tr \in Seq([time : Nat, state : States])
  BY DEF Traces
<1>2. Len(tr) \in Nat /\ \A k \in 1..Len(tr) : tr[k] \in [time : Nat, state : States]
  BY <1>1, LenProperties, ElementOfSeq
<1> QED
  BY <1>1, <1>2 DEF Traces

(***************************************************************************)
(* A residual that is decided stands for whatever is known as decided, and *)
(* one that behaves as a signal behaves as any that goes on like it.       *)
(***************************************************************************)
LEMMA TrueStands ==
    ASSUME ResidualRecursion, NEW tr \in Traces, NEW g, NEW n \in 1..Len(tr),
           IsSignal(g, n, Len(tr)), g.known[n] = 1
    PROVE  Stands(TrueResidual, g, n, tr)
<1>0. tr \in Seq([time : Nat, state : States]) /\ Len(tr) \in Nat
  BY Entries
<1>1. g.ends[n]
  BY <1>0 DEF IsSignal
<1>2. ASSUME n < Len(tr)
      PROVE  Follows(StepAt(TrueResidual, tr, n + 1), g, n + 1, tr)
  <2>1. n + 1 \in n..Len(tr) /\ n \in n..Len(tr) /\ n <= n + 1
    BY <1>0, <1>2
  <2>2. g.known[n + 1] = 1
    BY <2>1 DEF IsSignal
  <2>3. tr[n + 1].state \in States /\ tr[n + 1].time \in Nat
    <3>1. n + 1 \in 1..Len(tr)
      BY <1>0, <1>2
    <3> QED
      BY <3>1, Entries
  <2>4. StepAt(TrueResidual, tr, n + 1) = TrueValue
    BY <2>3, StepOfForms DEF StepAt
  <2> QED
    BY <2>2, <2>4 DEF Follows, Right, IsValue, TrueValue, IsTrue, IsFalse, IsPending
<1>3. Behaves(TrueResidual, g, n, tr)
  <2>1. n \in 0..Len(tr)
    BY <1>0
  <2> QED
    BY <1>0, <1>2, <2>1, Unrolled
<1> QED
  BY <1>1, <1>3, DefaultOfForms DEF Stands

LEMMA FalseStands ==
    ASSUME ResidualRecursion, NEW tr \in Traces, NEW g, NEW n \in 1..Len(tr),
           IsSignal(g, n, Len(tr)), g.known[n] = -1, NEW violation
    PROVE  Stands(FalseResidual(violation), g, n, tr)
<1>0. tr \in Seq([time : Nat, state : States]) /\ Len(tr) \in Nat
  BY Entries
<1>1. ~g.ends[n]
  BY <1>0 DEF IsSignal
<1>2. ASSUME n < Len(tr)
      PROVE  Follows(StepAt(FalseResidual(violation), tr, n + 1), g, n + 1, tr)
  <2>1. n + 1 \in n..Len(tr) /\ n \in n..Len(tr) /\ n <= n + 1
    BY <1>0, <1>2
  <2>2. g.known[n + 1] = -1
    BY <2>1 DEF IsSignal
  <2>3. tr[n + 1].state \in States /\ tr[n + 1].time \in Nat
    <3>1. n + 1 \in 1..Len(tr)
      BY <1>0, <1>2
    <3> QED
      BY <3>1, Entries
  <2>4. StepAt(FalseResidual(violation), tr, n + 1) = FalseValue(violation, <<>>)
    BY <2>3, StepOfForms DEF StepAt
  <2> QED
    BY <2>2, <2>4
       DEF Follows, Right, IsValue, FalseValue, IsTrue, IsFalse, IsPending
<1>3. Behaves(FalseResidual(violation), g, n, tr)
  <2>1. n \in 0..Len(tr)
    BY <1>0
  <2> QED
    BY <1>0, <1>2, <2>1, Unrolled
<1> QED
  BY <1>1, <1>3, DefaultOfForms DEF Stands

Agree(g, x, n, last) ==
    \A m \in n..last : g.known[m] = x.known[m] /\ (g.ends[m] <=> x.ends[m])

LEMMA FollowsAlike ==
    ASSUME NEW tr \in Traces, NEW n \in 1..Len(tr), NEW g, NEW x, NEW v,
           Follows(v, g, n, tr), Agree(g, x, n, Len(tr))
    PROVE  Follows(v, x, n, tr)
<1>0. Len(tr) \in Nat
  BY LenProperties DEF Traces
<1>1. n \in n..Len(tr) /\ \A m \in (n + 1)..Len(tr) : m \in n..Len(tr)
  BY <1>0
<1>2. \A m \in n..Len(tr) : \A w : Right(w, g, m) => Right(w, x, m)
  BY DEF Agree, Right
<1>3. ASSUME NEW r, Behaves(r, g, n, tr) PROVE Behaves(r, x, n, tr)
  BY <1>1, <1>2, <1>3 DEF Behaves
<1> QED
  BY <1>1, <1>2, <1>3 DEF Follows

LEMMA Settled ==
    ASSUME NEW tr, NEW n, NEW x
    PROVE  /\ x.known[n] = 1 => Follows(TrueValue, x, n, tr)
           /\ x.known[n] = -1 =>
                \A violation, next : Follows(FalseValue(violation, next), x, n, tr)
           /\ x.known[n] = 0 => \A r :
                Stands(r, x, n, tr) => Follows(Pending(r), x, n, tr)
<1>1. x.known[n] = 1 => Follows(TrueValue, x, n, tr)
  BY DEF Follows, Right, IsValue, TrueValue, IsTrue, IsFalse, IsPending
<1>2. ASSUME x.known[n] = -1, NEW violation, NEW next
      PROVE  Follows(FalseValue(violation, next), x, n, tr)
  BY <1>2 DEF Follows, Right, IsValue, FalseValue, IsTrue, IsFalse, IsPending
<1>3. ASSUME x.known[n] = 0, NEW r, Stands(r, x, n, tr)
      PROVE  Follows(Pending(r), x, n, tr)
  <2>1. /\ Pending(r).is = "Residual" /\ Pending(r).residual = r
    BY DEF Pending
  <2> QED
    BY <1>3, <2>1 DEF Follows, Right, Stands, IsValue, IsTrue, IsFalse, IsPending
<1> QED
  BY <1>1, <1>2, <1>3

LEMMA Refuted ==
    ASSUME NEW tr, NEW n, NEW x, NEW v, v.is = "False", x.known[n] = -1
    PROVE  Follows(v, x, n, tr)
BY DEF Follows, Right, IsValue, IsTrue, IsFalse, IsPending

LEMMA StepAtForms ==
    ASSUME ResidualRecursion, NEW tr \in Traces, NEW k \in 1..Len(tr)
    PROVE  /\ \A left, right :
                /\ StepAt(Combined("And", left, right), tr, k)
                       = EvaluateAnd(StepAt(left, tr, k), StepAt(right, tr, k))
                /\ StepAt(Combined("Or", left, right), tr, k)
                       = EvaluateOr(StepAt(left, tr, k), StepAt(right, tr, k))
                /\ StepAt(Combined("Implies", left, right), tr, k)
                       = EvaluateImplies(StepAt(left, tr, k), StepAt(right, tr, k))
           /\ \A formula, end, onset, left, right :
                StepAt(AndAlways(formula, end, onset, left, right), tr, k)
                    = EvaluateAndAlways(formula, end, onset, tr[k].time,
                                        StepAt(left, tr, k), StepAt(right, tr, k))
           /\ \A formula, end, left, right :
                StepAt(OrEventually(formula, end, left, right), tr, k)
                    = EvaluateOrEventually(formula, end, tr[k].time,
                                           StepAt(left, tr, k), StepAt(right, tr, k))
           /\ \A formula, end :
                /\ StepAt(DerivedAlways(formula, end), tr, k)
                       = AlwaysValue(formula, end, tr[k].time,
                                     Evaluate(formula, tr[k].state, tr[k].time))
                /\ StepAt(DerivedEventually(formula, end), tr, k)
                       = EventuallyValue(formula, end, tr[k].time,
                                         Evaluate(formula, tr[k].state, tr[k].time))
           /\ \A formula : StepAt(Once(formula), tr, k)
                              = Evaluate(formula, tr[k].state, tr[k].time)
<1>1. tr[k].state \in States /\ tr[k].time \in Nat
  BY Entries
<1> QED
  BY <1>1, StepOfForms DEF StepAt

Says(v, g, n, tr) ==
    /\ IsTrue(v) \/ IsFalse(v) \/ IsPending(v)
    /\ IsTrue(v) => /\ g.known[n] = 1 /\ ~IsFalse(v) /\ ~IsPending(v)
                    /\ Stands(TrueResidual, g, n, tr)
    /\ IsFalse(v) => /\ g.known[n] = -1 /\ ~IsTrue(v) /\ ~IsPending(v)
                     /\ \A violation : Stands(FalseResidual(violation), g, n, tr)
    /\ IsPending(v) => /\ g.known[n] = 0 /\ ~IsTrue(v) /\ ~IsFalse(v)
                       /\ Stands(v.residual, g, n, tr)

LEMMA WhatFollows ==
    ASSUME ResidualRecursion, NEW tr \in Traces, NEW n \in 1..Len(tr), NEW g,
           IsSignal(g, n, Len(tr)), NEW v, Follows(v, g, n, tr)
    PROVE  Says(v, g, n, tr)
<1>1. Right(v, g, n)
  BY DEF Follows
<1>2. IsTrue(v) \/ IsFalse(v) \/ IsPending(v)
  BY <1>1 DEF Right, IsValue, IsTrue, IsFalse, IsPending
<1>3. IsTrue(v) => g.known[n] = 1 /\ ~IsFalse(v) /\ ~IsPending(v)
  BY <1>1 DEF Right, IsTrue, IsFalse, IsPending
<1>4. IsFalse(v) => g.known[n] = -1 /\ ~IsTrue(v) /\ ~IsPending(v)
  BY <1>1 DEF Right, IsTrue, IsFalse, IsPending
<1>5. IsPending(v) => g.known[n] = 0 /\ ~IsTrue(v) /\ ~IsFalse(v)
  <2>1. n \in n..Len(tr)
    BY Entries
  <2>2. g.known[n] \in {-1, 0, 1}
    BY <2>1 DEF IsSignal
  <2> QED
    BY <1>1, <2>2 DEF Right, IsTrue, IsFalse, IsPending
<1>6. IsPending(v) => Stands(v.residual, g, n, tr)
  BY <1>1 DEF Follows, Right, Stands
<1> QED
  BY <1>2, <1>3, <1>4, <1>5, <1>6, TrueStands, FalseStands DEF Says

-----------------------------------------------------------------------------
(***************************************************************************)
(* A connective of residuals stands for the connective of what they stand  *)
(* for.                                                                    *)
(***************************************************************************)
Joined(op, g, h, x, n) ==
    IF op = "And"
    THEN /\ x.known[n] = 1 <=> g.known[n] = 1 /\ h.known[n] = 1
         /\ x.known[n] = -1 <=> g.known[n] = -1 \/ h.known[n] = -1
         /\ x.ends[n] <=> g.ends[n] /\ h.ends[n]
    ELSE IF op = "Or"
    THEN /\ x.known[n] = 1 <=> g.known[n] = 1 \/ h.known[n] = 1
         /\ x.known[n] = -1 <=> g.known[n] = -1 /\ h.known[n] = -1
         /\ x.ends[n] <=> g.ends[n] \/ h.ends[n]
    ELSE /\ x.known[n] = 1 <=> g.known[n] = -1 \/ h.known[n] = 1
         /\ x.known[n] = -1 <=> g.known[n] = 1 /\ h.known[n] = -1
         /\ x.ends[n] <=> (g.ends[n] => h.ends[n])

Joint(op, g, h, x, first, last) ==
    /\ IsSignal(g, first, last) /\ IsSignal(h, first, last)
    /\ IsSignal(x, first, last)
    /\ \A n \in first..last : Joined(op, g, h, x, n)

Keeps(op, g, h, x, n, tr) ==
    \A left, right : Stands(left, g, n, tr) /\ Stands(right, h, n, tr) =>
                         Stands(Combined(op, left, right), x, n, tr)

LEMMA JointLater ==
    ASSUME NEW op, NEW g, NEW h, NEW x, NEW first \in Nat, NEW last \in Nat,
           Joint(op, g, h, x, first, last), NEW n \in first..last
    PROVE  Joint(op, g, h, x, n, last)
<1>1. n..last \subseteq first..last
  OBVIOUS
<1> QED
  BY <1>1 DEF Joint, IsSignal

LEMMA AndFollows ==
    ASSUME ResidualRecursion, NEW tr \in Traces, NEW n \in 1..Len(tr),
           NEW g, NEW h, NEW x, Joint("And", g, h, x, n, Len(tr)),
           Keeps("And", g, h, x, n, tr),
           NEW v, NEW w, Follows(v, g, n, tr), Follows(w, h, n, tr)
    PROVE  Follows(EvaluateAnd(v, w), x, n, tr)
<1>0. n \in n..Len(tr)
  BY Entries
<1>1. /\ x.known[n] \in {-1, 0, 1}
      /\ x.known[n] = 1 <=> g.known[n] = 1 /\ h.known[n] = 1
      /\ x.known[n] = -1 <=> g.known[n] = -1 \/ h.known[n] = -1
  BY <1>0 DEF Joint, IsSignal, Joined
<1>2. Says(v, g, n, tr) /\ Says(w, h, n, tr)
  BY WhatFollows DEF Joint
<1>3. CASE IsPending(v) /\ IsPending(w)
  <2>1. Stands(Combined("And", v.residual, w.residual), x, n, tr)
    BY <1>2, <1>3 DEF Keeps, Says
  <2>2. EvaluateAnd(v, w) = Pending(Combined("And", v.residual, w.residual))
    BY <1>2, <1>3 DEF EvaluateAnd, Says
  <2>3. x.known[n] = 0
    BY <1>1, <1>2, <1>3 DEF Says
  <2> QED
    BY <2>1, <2>2, <2>3, Settled
<1>4. CASE IsTrue(v) /\ IsPending(w)
  <2>1. Stands(Combined("And", TrueResidual, w.residual), x, n, tr)
    BY <1>2, <1>4 DEF Keeps, Says
  <2>2. EvaluateAnd(v, w) = Pending(Combined("And", TrueResidual, w.residual))
    BY <1>4 DEF EvaluateAnd
  <2>3. x.known[n] = 0
    BY <1>1, <1>2, <1>4 DEF Says
  <2> QED
    BY <2>1, <2>2, <2>3, Settled
<1>5. CASE IsPending(v) /\ IsTrue(w)
  <2>1. Stands(Combined("And", v.residual, TrueResidual), x, n, tr)
    BY <1>2, <1>5 DEF Keeps, Says
  <2>2. EvaluateAnd(v, w) = Pending(Combined("And", v.residual, TrueResidual))
    BY <1>2, <1>5 DEF EvaluateAnd, Says
  <2>3. x.known[n] = 0
    BY <1>1, <1>2, <1>5 DEF Says
  <2> QED
    BY <2>1, <2>2, <2>3, Settled
<1>6. CASE IsTrue(v) /\ IsTrue(w)
  <2>1. EvaluateAnd(v, w) = w
    BY <1>2, <1>6 DEF EvaluateAnd, Says
  <2>2. x.known[n] = 1 /\ h.known[n] = 1
    BY <1>1, <1>2, <1>6 DEF Says
  <2>3. ~IsPending(w) /\ Right(w, h, n)
    BY <1>2, <1>6 DEF Follows, Says
  <2> QED
    BY <2>1, <2>2, <2>3 DEF Follows, Right
<1>7. CASE IsFalse(v) \/ IsFalse(w)
  <2>1. EvaluateAnd(v, w).is = "False"
    <3>1. IsValue(v) /\ IsValue(w)
      BY DEF Follows, Right
    <3> QED
      BY <1>7, <3>1, AndIsKleene DEF KleeneAnd, IsFalse
  <2>2. x.known[n] = -1
    BY <1>1, <1>2, <1>7 DEF Says
  <2> QED
    BY <2>1, <2>2, Refuted
<1> QED
  BY <1>2, <1>3, <1>4, <1>5, <1>6, <1>7 DEF Says

LEMMA OrFollows ==
    ASSUME ResidualRecursion, NEW tr \in Traces, NEW n \in 1..Len(tr),
           NEW g, NEW h, NEW x, Joint("Or", g, h, x, n, Len(tr)),
           Keeps("Or", g, h, x, n, tr),
           NEW v, NEW w, Follows(v, g, n, tr), Follows(w, h, n, tr)
    PROVE  Follows(EvaluateOr(v, w), x, n, tr)
<1>0. n \in n..Len(tr) /\ \A m \in n..Len(tr) : n <= m
  BY Entries
<1>1. /\ x.known[n] \in {-1, 0, 1}
      /\ x.known[n] = 1 <=> g.known[n] = 1 \/ h.known[n] = 1
      /\ x.known[n] = -1 <=> g.known[n] = -1 /\ h.known[n] = -1
  BY <1>0 DEF Joint, IsSignal, Joined
<1>2. Says(v, g, n, tr) /\ Says(w, h, n, tr)
  BY WhatFollows DEF Joint
<1>3. CASE IsPending(v) /\ IsPending(w)
  <2>1. Stands(Combined("Or", v.residual, w.residual), x, n, tr)
    BY <1>2, <1>3 DEF Keeps, Says
  <2>2. EvaluateOr(v, w) = Pending(Combined("Or", v.residual, w.residual))
    BY <1>2, <1>3 DEF EvaluateOr, Says
  <2>3. x.known[n] = 0
    BY <1>1, <1>2, <1>3 DEF Says
  <2> QED
    BY <2>1, <2>2, <2>3, Settled
<1>4. CASE IsTrue(v) \/ IsTrue(w)
  <2>1. EvaluateOr(v, w) = TrueValue
    BY <1>2, <1>4 DEF EvaluateOr, Says
  <2>2. x.known[n] = 1
    BY <1>1, <1>2, <1>4 DEF Says
  <2> QED
    BY <2>1, <2>2, Settled
<1>5. CASE IsFalse(v) /\ IsFalse(w)
  <2>1. EvaluateOr(v, w).is = "False"
    BY <1>5 DEF EvaluateOr, FalseValue
  <2>2. x.known[n] = -1
    BY <1>1, <1>2, <1>5 DEF Says
  <2> QED
    BY <2>1, <2>2, Refuted
<1>6. ASSUME NEW m \in n..Len(tr)
      PROVE  /\ g.known[n] = -1 => x.known[m] = h.known[m] /\ (h.ends[m] <=> x.ends[m])
             /\ h.known[n] = -1 => x.known[m] = g.known[m] /\ (g.ends[m] <=> x.ends[m])
  <2>1. /\ {g.known[m], h.known[m], x.known[m]} \subseteq {-1, 0, 1}
        /\ g.known[n] = -1 => g.known[m] = -1 /\ ~g.ends[m]
        /\ h.known[n] = -1 => h.known[m] = -1 /\ ~h.ends[m]
    BY <1>0 DEF Joint, IsSignal
  <2>2. /\ x.known[m] = 1 <=> g.known[m] = 1 \/ h.known[m] = 1
        /\ x.known[m] = -1 <=> g.known[m] = -1 /\ h.known[m] = -1
        /\ x.ends[m] <=> g.ends[m] \/ h.ends[m]
    BY DEF Joint, Joined
  <2> QED
    BY <2>1, <2>2
<1>7. CASE IsFalse(v) /\ IsPending(w)
  <2>1. EvaluateOr(v, w) = w
    BY <1>2, <1>7 DEF EvaluateOr, Says
  <2>2. Agree(h, x, n, Len(tr))
    BY <1>2, <1>6, <1>7 DEF Agree, Says
  <2> QED
    BY <2>1, <2>2, FollowsAlike
<1>8. CASE IsPending(v) /\ IsFalse(w)
  <2>1. EvaluateOr(v, w) = v
    BY <1>2, <1>8 DEF EvaluateOr, Says
  <2>2. Agree(g, x, n, Len(tr))
    BY <1>2, <1>6, <1>8 DEF Agree, Says
  <2> QED
    BY <2>1, <2>2, FollowsAlike
<1> QED
  BY <1>2, <1>3, <1>4, <1>5, <1>7, <1>8 DEF Says

LEMMA ImpliesFollows ==
    ASSUME ResidualRecursion, NEW tr \in Traces, NEW n \in 1..Len(tr),
           NEW g, NEW h, NEW x, Joint("Implies", g, h, x, n, Len(tr)),
           Keeps("Implies", g, h, x, n, tr),
           NEW v, NEW w, Follows(v, g, n, tr), Follows(w, h, n, tr)
    PROVE  Follows(EvaluateImplies(v, w), x, n, tr)
<1>0. n \in n..Len(tr)
  BY Entries
<1>1. /\ x.known[n] \in {-1, 0, 1}
      /\ x.known[n] = 1 <=> g.known[n] = -1 \/ h.known[n] = 1
      /\ x.known[n] = -1 <=> g.known[n] = 1 /\ h.known[n] = -1
  BY <1>0 DEF Joint, IsSignal, Joined
<1>2. Says(v, g, n, tr) /\ Says(w, h, n, tr)
  BY WhatFollows DEF Joint
<1>3. CASE IsFalse(v) \/ IsTrue(w)
  <2>1. EvaluateImplies(v, w) = TrueValue
    BY <1>2, <1>3 DEF EvaluateImplies, Says
  <2>2. x.known[n] = 1
    BY <1>1, <1>2, <1>3 DEF Says
  <2> QED
    BY <2>1, <2>2, Settled
<1>4. CASE IsTrue(v) /\ IsFalse(w)
  <2>1. EvaluateImplies(v, w).is = "False"
    BY <1>2, <1>4 DEF EvaluateImplies, FalseValue, Says
  <2>2. x.known[n] = -1
    BY <1>1, <1>2, <1>4 DEF Says
  <2> QED
    BY <2>1, <2>2, Refuted
<1>5. CASE ~IsFalse(v) /\ ~IsTrue(w) /\ ~(IsTrue(v) /\ IsFalse(w))
  <2>1. PICK left, right :
            /\ left = (IF IsTrue(v) THEN TrueResidual ELSE v.residual)
            /\ right = (IF IsFalse(w) THEN FalseResidual(w.violation)
                        ELSE w.residual)
    OBVIOUS
  <2>2. EvaluateImplies(v, w) = Pending(Combined("Implies", left, right))
    BY <1>5, <2>1 DEF EvaluateImplies
  <2>3. Stands(left, g, n, tr) /\ Stands(right, h, n, tr)
    BY <1>2, <1>5, <2>1 DEF Says
  <2>4. Stands(Combined("Implies", left, right), x, n, tr)
    BY <2>3 DEF Keeps
  <2>5. x.known[n] = 0
    BY <1>1, <1>2, <1>5 DEF Says
  <2> QED
    BY <2>2, <2>4, <2>5, Settled
<1> QED
  BY <1>2, <1>3, <1>4, <1>5 DEF Says

LEMMA CombinedStands ==
    ASSUME ResidualRecursion, NEW tr \in Traces,
           NEW op \in {"And", "Or", "Implies"}, NEW first \in 1..Len(tr),
           NEW g, NEW h, NEW x, Joint(op, g, h, x, first, Len(tr))
    PROVE  \A n \in first..Len(tr) : Keeps(op, g, h, x, n, tr)
<1> DEFINE holds == {n \in first..Len(tr) : Keeps(op, g, h, x, n, tr)}
<1>a. tr \in Seq([time : Nat, state : States]) /\ Len(tr) \in Nat
  BY Entries
<1>0. /\ tr \in Seq([time : Nat, state : States])
      /\ first \in Nat /\ Len(tr) \in Nat /\ first >= 1
  BY <1>a
<1>1. ASSUME NEW n \in first..Len(tr), n = Len(tr) \/ n + 1 \in holds,
             NEW left, NEW right, Stands(left, g, n, tr), Stands(right, h, n, tr)
      PROVE  Stands(Combined(op, left, right), x, n, tr)
  <2> DEFINE v == StepAt(left, tr, n + 1)
             w == StepAt(right, tr, n + 1)
             y == StepAt(Combined(op, left, right), tr, n + 1)
  <2>1. StopDefault(Combined(op, left, right)) <=> x.ends[n]
    <3>1. Joined(op, g, h, x, n)
      BY DEF Joint
    <3>2. (StopDefault(left) <=> g.ends[n]) /\ (StopDefault(right) <=> h.ends[n])
      BY <1>1 DEF Stands
    <3>3. CASE op = "And"
      BY <3>1, <3>2, <3>3, DefaultOfForms DEF Joined
    <3>4. CASE op = "Or"
      BY <3>1, <3>2, <3>4, DefaultOfForms DEF Joined
    <3>5. CASE op = "Implies"
      BY <3>1, <3>2, <3>5, DefaultOfForms DEF Joined
    <3> QED
      BY <3>3, <3>4, <3>5
  <2>2. ASSUME n < Len(tr) PROVE Follows(y, x, n + 1, tr)
    <3>1. n \in 0..Len(tr) /\ n + 1 \in 1..Len(tr) /\ n + 1 \in first..Len(tr)
      BY <1>0, <2>2
    <3>2. tr[n + 1].state \in States /\ tr[n + 1].time \in Nat
      BY <3>1, Entries
    <3>3. Follows(v, g, n + 1, tr) /\ Follows(w, h, n + 1, tr)
      BY <1>0, <1>1, <2>2, <3>1, Unrolled DEF Stands
    <3>4. Keeps(op, g, h, x, n + 1, tr)
      BY <1>0, <1>1, <2>2
    <3>5. Joint(op, g, h, x, n + 1, Len(tr))
      BY <1>0, <3>1, JointLater
    <3> HIDE DEF v, w, y
    <3>6. CASE op = "And"
      <4>1. y = EvaluateAnd(v, w)
        BY <3>1, <3>6, StepAtForms DEF v, w, y
      <4> QED
        BY <3>1, <3>3, <3>4, <3>5, <3>6, <4>1, AndFollows
    <3>7. CASE op = "Or"
      <4>1. y = EvaluateOr(v, w)
        BY <3>1, <3>7, StepAtForms DEF v, w, y
      <4> QED
        BY <3>1, <3>3, <3>4, <3>5, <3>7, <4>1, OrFollows
    <3>8. CASE op = "Implies"
      <4>1. y = EvaluateImplies(v, w)
        BY <3>1, <3>8, StepAtForms DEF v, w, y
      <4> QED
        BY <3>1, <3>3, <3>4, <3>5, <3>8, <4>1, ImpliesFollows
    <3> QED
      BY <3>6, <3>7, <3>8
  <2>3. Behaves(Combined(op, left, right), x, n, tr)
    <3>1. n \in 0..Len(tr)
      BY <1>0
    <3> QED
      BY <1>0, <2>2, <3>1, Unrolled
  <2> QED
    BY <2>1, <2>3 DEF Stands
<1>2. \A n \in first..Len(tr) : (n = Len(tr) \/ n + 1 \in holds) => n \in holds
  BY <1>1 DEF Keeps
<1>3. first..Len(tr) \subseteq holds
  <2> HIDE DEF holds
  <2> QED
    BY <1>0, <1>2, Backwards
<1> QED
  BY <1>3

-----------------------------------------------------------------------------
(***************************************************************************)
(* An Always that waits stands for the conjunction of what it waits for    *)
(* and of the rest of itself until its end, and is true from then on if it *)
(* was not refuted; an Eventually that waits, dually.                      *)
(***************************************************************************)
Waiting(g, h, x, end, tr, n) ==
    IF Past(end, tr[n].time) THEN x.known[n - 1] # -1 => x.known[n] = 1
    ELSE Joined("And", g, h, x, n)

AlwaysWaits(g, h, x, end, tr, first) ==
    /\ IsSignal(g, first, Len(tr)) /\ IsSignal(h, first, Len(tr))
    /\ IsSignal(x, first, Len(tr))
    /\ Joined("And", g, h, x, first)
    /\ \A n \in (first + 1)..Len(tr) : Waiting(g, h, x, end, tr, n)

AlwaysKeeps(formula, end, g, h, x, n, tr) ==
    \A onset, left, right :
        /\ Stands(left, g, n, tr) /\ Stands(right, h, n, tr)
        /\ x.known[n] = 0
        /\ Joined("And", g, h, x, n)
        => Stands(AndAlways(formula, end, onset, left, right), x, n, tr)

LEMMA AndAlwaysFollows ==
    ASSUME ResidualRecursion, NEW tr \in Traces, NEW n \in 1..Len(tr),
           NEW g, NEW h, NEW x, NEW formula, NEW end, NEW onset, NEW time,
           IsSignal(g, n, Len(tr)), IsSignal(h, n, Len(tr)),
           IsSignal(x, n, Len(tr)), Joined("And", g, h, x, n),
           ~Past(end, time), AlwaysKeeps(formula, end, g, h, x, n, tr),
           NEW v, NEW w, Follows(v, g, n, tr), Follows(w, h, n, tr)
    PROVE  Follows(EvaluateAndAlways(formula, end, onset, time, v, w), x, n, tr)
<1> DEFINE y == EvaluateAndAlways(formula, end, onset, time, v, w)
<1>0. n \in n..Len(tr)
  BY Entries
<1>1. /\ x.known[n] \in {-1, 0, 1}
      /\ x.known[n] = 1 <=> g.known[n] = 1 /\ h.known[n] = 1
      /\ x.known[n] = -1 <=> g.known[n] = -1 \/ h.known[n] = -1
  BY <1>0 DEF IsSignal, Joined
<1>2. Says(v, g, n, tr) /\ Says(w, h, n, tr)
  BY WhatFollows
<1>3. CASE ~IsFalse(v) /\ ~IsFalse(w) /\ ~(IsTrue(v) /\ IsTrue(w))
  <2>1. PICK left, right :
            /\ left = (IF IsTrue(v) THEN TrueResidual ELSE v.residual)
            /\ right = (IF IsTrue(w) THEN TrueResidual ELSE w.residual)
    OBVIOUS
  <2>2. PICK since : since = (IF IsTrue(v) THEN time ELSE onset)
    OBVIOUS
  <2>3. y = Pending(AndAlways(formula, end, since, left, right))
    BY <1>2, <1>3, <2>1, <2>2 DEF EvaluateAndAlways, Says
  <2>4. Stands(left, g, n, tr) /\ Stands(right, h, n, tr)
    BY <1>2, <1>3, <2>1 DEF Says
  <2>5. x.known[n] = 0
    BY <1>1, <1>2, <1>3 DEF Says
  <2>6. Stands(AndAlways(formula, end, since, left, right), x, n, tr)
    BY <2>4, <2>5 DEF AlwaysKeeps
  <2> QED
    BY <2>3, <2>5, <2>6, Settled
<1>4. CASE IsTrue(v) /\ IsTrue(w)
  <2>1. y = TrueValue
    BY <1>4 DEF EvaluateAndAlways
  <2>2. x.known[n] = 1
    BY <1>1, <1>2, <1>4 DEF Says
  <2> QED
    BY <2>1, <2>2, Settled
<1>5. CASE IsFalse(v) \/ IsFalse(w)
  <2>1. y.is = "False"
    <3>1. IsValue(v) /\ IsValue(w)
      BY DEF Follows, Right
    <3>2. y.is = KleeneAnd(v.is, w.is)
      BY <3>1, AndAlwaysIsKleene
    <3> QED
      BY <1>5, <3>2 DEF KleeneAnd, IsFalse
  <2>2. x.known[n] = -1
    BY <1>1, <1>2, <1>5 DEF Says
  <2> QED
    BY <2>1, <2>2, Refuted
<1> QED
  BY <1>2, <1>3, <1>4, <1>5 DEF Says

LEMMA AndAlwaysStands ==
    ASSUME ResidualRecursion, NEW tr \in Traces, NEW first \in 1..Len(tr),
           NEW g, NEW h, NEW x, NEW formula, NEW end,
           AlwaysWaits(g, h, x, end, tr, first)
    PROVE  \A n \in first..Len(tr) : AlwaysKeeps(formula, end, g, h, x, n, tr)
<1> DEFINE holds ==
        {n \in first..Len(tr) : AlwaysKeeps(formula, end, g, h, x, n, tr)}
<1>a. tr \in Seq([time : Nat, state : States]) /\ Len(tr) \in Nat
  BY Entries
<1>0. /\ tr \in Seq([time : Nat, state : States])
      /\ first \in Nat /\ Len(tr) \in Nat /\ first >= 1
  BY <1>a
<1>1. ASSUME NEW n \in first..Len(tr), n = Len(tr) \/ n + 1 \in holds,
             NEW onset, NEW left, NEW right,
             Stands(left, g, n, tr), Stands(right, h, n, tr),
             x.known[n] = 0, Joined("And", g, h, x, n)
      PROVE  Stands(AndAlways(formula, end, onset, left, right), x, n, tr)
  <2> DEFINE v == StepAt(left, tr, n + 1)
             w == StepAt(right, tr, n + 1)
             y == StepAt(AndAlways(formula, end, onset, left, right), tr, n + 1)
  <2>1. StopDefault(AndAlways(formula, end, onset, left, right)) <=> x.ends[n]
    BY <1>1, DefaultOfForms DEF Stands, Joined
  <2>2. ASSUME n < Len(tr) PROVE Follows(y, x, n + 1, tr)
    <3>1. /\ n \in 0..Len(tr) /\ n + 1 \in 1..Len(tr) /\ n + 1 \in first..Len(tr)
          /\ n + 1 \in (first + 1)..Len(tr) /\ (n + 1) - 1 = n
      BY <1>0, <2>2
    <3>2. tr[n + 1].state \in States /\ tr[n + 1].time \in Nat
      BY <3>1, Entries
    <3>3. Follows(v, g, n + 1, tr) /\ Follows(w, h, n + 1, tr)
      BY <1>0, <1>1, <2>2, <3>1, Unrolled DEF Stands
    <3>4. AlwaysKeeps(formula, end, g, h, x, n + 1, tr)
      BY <1>0, <1>1, <2>2
    <3>5. /\ IsSignal(g, n + 1, Len(tr)) /\ IsSignal(h, n + 1, Len(tr))
          /\ IsSignal(x, n + 1, Len(tr))
      <4>1. (n + 1)..Len(tr) \subseteq first..Len(tr)
        BY <1>0
      <4> QED
        BY <4>1 DEF AlwaysWaits, IsSignal
    <3>6. Waiting(g, h, x, end, tr, n + 1)
      BY <3>1 DEF AlwaysWaits
    <3>7. y = EvaluateAndAlways(formula, end, onset, tr[n + 1].time, v, w)
      BY <3>1, StepAtForms
    <3> HIDE DEF v, w, y
    <3>8. CASE Past(end, tr[n + 1].time)
      <4>1. y = TrueValue
        BY <3>7, <3>8 DEF EvaluateAndAlways
      <4>2. x.known[n + 1] = 1
        BY <1>1, <3>1, <3>6, <3>8 DEF Waiting
      <4> QED
        BY <4>1, <4>2, Settled
    <3>9. CASE ~Past(end, tr[n + 1].time)
      <4>1. Joined("And", g, h, x, n + 1)
        BY <3>6, <3>9 DEF Waiting
      <4> QED
        BY <3>1, <3>3, <3>4, <3>5, <3>7, <3>9, <4>1, AndAlwaysFollows
    <3> QED
      BY <3>8, <3>9
  <2>3. Behaves(AndAlways(formula, end, onset, left, right), x, n, tr)
    <3>1. n \in 0..Len(tr)
      BY <1>0
    <3> QED
      BY <1>0, <2>2, <3>1, Unrolled
  <2> QED
    BY <2>1, <2>3 DEF Stands
<1>2. \A n \in first..Len(tr) : (n = Len(tr) \/ n + 1 \in holds) => n \in holds
  BY <1>1 DEF AlwaysKeeps
<1>3. first..Len(tr) \subseteq holds
  <2> HIDE DEF holds
  <2> QED
    BY <1>0, <1>2, Backwards
<1> QED
  BY <1>3

Hoping(g, h, x, end, tr, n) ==
    IF Past(end, tr[n].time) THEN x.known[n - 1] # 1 => x.known[n] = -1
    ELSE /\ Joined("Or", g, h, x, n)
         /\ h.known[n] # -1
         /\ g.known[n] = -1 => Agree(h, x, n, Len(tr))

EventuallyWaits(g, h, x, end, tr, first) ==
    /\ IsSignal(g, first, Len(tr)) /\ IsSignal(h, first, Len(tr))
    /\ IsSignal(x, first, Len(tr))
    /\ \A n \in (first + 1)..Len(tr) : Hoping(g, h, x, end, tr, n)

EventuallyKeeps(formula, end, g, h, x, n, tr) ==
    \A left, right :
        /\ Stands(left, g, n, tr) /\ Stands(right, h, n, tr)
        /\ x.known[n] = 0
        /\ Joined("Or", g, h, x, n)
        => Stands(OrEventually(formula, end, left, right), x, n, tr)

LEMMA OrEventuallyFollows ==
    ASSUME ResidualRecursion, NEW tr \in Traces, NEW n \in 1..Len(tr),
           NEW g, NEW h, NEW x, NEW formula, NEW end, NEW time,
           IsSignal(g, n, Len(tr)), IsSignal(h, n, Len(tr)),
           IsSignal(x, n, Len(tr)), Joined("Or", g, h, x, n),
           h.known[n] # -1, g.known[n] = -1 => Agree(h, x, n, Len(tr)),
           ~Past(end, time), EventuallyKeeps(formula, end, g, h, x, n, tr),
           NEW v, NEW w, Follows(v, g, n, tr), Follows(w, h, n, tr)
    PROVE  Follows(EvaluateOrEventually(formula, end, time, v, w), x, n, tr)
<1> DEFINE y == EvaluateOrEventually(formula, end, time, v, w)
<1>0. n \in n..Len(tr)
  BY Entries
<1>1. /\ x.known[n] \in {-1, 0, 1}
      /\ x.known[n] = 1 <=> g.known[n] = 1 \/ h.known[n] = 1
      /\ x.known[n] = -1 <=> g.known[n] = -1 /\ h.known[n] = -1
  BY <1>0 DEF IsSignal, Joined
<1>2. Says(v, g, n, tr) /\ Says(w, h, n, tr)
  BY WhatFollows
<1>3. CASE IsPending(v) /\ IsPending(w)
  <2>1. y = Pending(OrEventually(formula, end, v.residual, w.residual))
    BY <1>2, <1>3 DEF EvaluateOrEventually, Says
  <2>2. x.known[n] = 0
    BY <1>1, <1>2, <1>3 DEF Says
  <2>3. Stands(OrEventually(formula, end, v.residual, w.residual), x, n, tr)
    BY <1>2, <1>3, <2>2 DEF EventuallyKeeps, Says
  <2> QED
    BY <2>1, <2>2, <2>3, Settled
<1>4. CASE IsTrue(v) \/ IsTrue(w)
  <2>1. y = TrueValue
    BY <1>4 DEF EvaluateOrEventually
  <2>2. x.known[n] = 1
    BY <1>1, <1>2, <1>4 DEF Says
  <2> QED
    BY <2>1, <2>2, Settled
<1>5. CASE IsFalse(v) /\ IsPending(w)
  <2>1. y = w
    BY <1>2, <1>5 DEF EvaluateOrEventually, Says
  <2>2. Agree(h, x, n, Len(tr))
    BY <1>2, <1>5 DEF Says
  <2> QED
    BY <2>1, <2>2, FollowsAlike
<1>6. ~IsFalse(w)
  BY <1>2 DEF Says
<1> QED
  BY <1>2, <1>3, <1>4, <1>5, <1>6 DEF Says

LEMMA OrEventuallyStands ==
    ASSUME ResidualRecursion, NEW tr \in Traces, NEW first \in 1..Len(tr),
           NEW g, NEW h, NEW x, NEW formula, NEW end,
           EventuallyWaits(g, h, x, end, tr, first)
    PROVE  \A n \in first..Len(tr) :
               EventuallyKeeps(formula, end, g, h, x, n, tr)
<1> DEFINE holds ==
        {n \in first..Len(tr) : EventuallyKeeps(formula, end, g, h, x, n, tr)}
<1>a. tr \in Seq([time : Nat, state : States]) /\ Len(tr) \in Nat
  BY Entries
<1>0. /\ tr \in Seq([time : Nat, state : States])
      /\ first \in Nat /\ Len(tr) \in Nat /\ first >= 1
  BY <1>a
<1>1. ASSUME NEW n \in first..Len(tr), n = Len(tr) \/ n + 1 \in holds,
             NEW left, NEW right,
             Stands(left, g, n, tr), Stands(right, h, n, tr),
             x.known[n] = 0, Joined("Or", g, h, x, n)
      PROVE  Stands(OrEventually(formula, end, left, right), x, n, tr)
  <2> DEFINE v == StepAt(left, tr, n + 1)
             w == StepAt(right, tr, n + 1)
             y == StepAt(OrEventually(formula, end, left, right), tr, n + 1)
  <2>1. StopDefault(OrEventually(formula, end, left, right)) <=> x.ends[n]
    BY <1>1, DefaultOfForms DEF Stands, Joined
  <2>2. ASSUME n < Len(tr) PROVE Follows(y, x, n + 1, tr)
    <3>1. /\ n \in 0..Len(tr) /\ n + 1 \in 1..Len(tr) /\ n + 1 \in first..Len(tr)
          /\ n + 1 \in (first + 1)..Len(tr) /\ (n + 1) - 1 = n
      BY <1>0, <2>2
    <3>3. Follows(v, g, n + 1, tr) /\ Follows(w, h, n + 1, tr)
      BY <1>0, <1>1, <2>2, <3>1, Unrolled DEF Stands
    <3>4. EventuallyKeeps(formula, end, g, h, x, n + 1, tr)
      BY <1>0, <1>1, <2>2
    <3>5. /\ IsSignal(g, n + 1, Len(tr)) /\ IsSignal(h, n + 1, Len(tr))
          /\ IsSignal(x, n + 1, Len(tr))
      <4>1. (n + 1)..Len(tr) \subseteq first..Len(tr)
        BY <1>0
      <4> QED
        BY <4>1 DEF EventuallyWaits, IsSignal
    <3>6. Hoping(g, h, x, end, tr, n + 1)
      BY <3>1 DEF EventuallyWaits
    <3>7. y = EvaluateOrEventually(formula, end, tr[n + 1].time, v, w)
      BY <3>1, StepAtForms
    <3> HIDE DEF v, w, y
    <3>8. CASE Past(end, tr[n + 1].time)
      <4>1. y.is = "False"
        BY <3>7, <3>8 DEF EvaluateOrEventually, FalseValue
      <4>2. x.known[n + 1] = -1
        BY <1>1, <3>1, <3>6, <3>8 DEF Hoping
      <4> QED
        BY <4>1, <4>2, Refuted
    <3>9. CASE ~Past(end, tr[n + 1].time)
      <4>1. /\ Joined("Or", g, h, x, n + 1) /\ h.known[n + 1] # -1
            /\ g.known[n + 1] = -1 => Agree(h, x, n + 1, Len(tr))
        BY <3>6, <3>9 DEF Hoping
      <4> QED
        BY <3>1, <3>3, <3>4, <3>5, <3>7, <3>9, <4>1, OrEventuallyFollows
    <3> QED
      BY <3>8, <3>9
  <2>3. Behaves(OrEventually(formula, end, left, right), x, n, tr)
    <3>1. n \in 0..Len(tr)
      BY <1>0
    <3> QED
      BY <1>0, <2>2, <3>1, Unrolled
  <2> QED
    BY <2>1, <2>3 DEF Stands
<1>2. \A n \in first..Len(tr) : (n = Len(tr) \/ n + 1 \in holds) => n \in holds
  BY <1>1 DEF EventuallyKeeps
<1>3. first..Len(tr) \subseteq holds
  <2> HIDE DEF holds
  <2> QED
    BY <1>0, <1>2, Backwards
<1> QED
  BY <1>3

-----------------------------------------------------------------------------
(***************************************************************************)
(* What an Always stands for that watches its subformula at positions k    *)
(* and later: `family` has the signals of the subformula by position, and  *)
(* `last` for every state the last one up to it that the bound allows.     *)
(***************************************************************************)
IsFamily(family, i, N) == \A j \in i..N : IsSignal(family[j], j, N)

IsLast(last, i, N) ==
    /\ \A n \in i..N : last[n] \in i..n
    /\ \A m, n \in i..N : m <= n =>
          /\ last[m] <= last[n]
          /\ last[m] < m => last[n] = last[m]

Fails(family, last, k, n) == \E j \in k..last[n] : family[j].known[last[n]] = -1
Comes(family, last, k, n) == \E j \in k..last[n] : family[j].known[last[n]] = 1
AllEnd(family, k, n) == \A j \in k..n : family[j].ends[n]
SomeEnds(family, k, n) == \E j \in k..n : family[j].ends[n]

AlwaysFrom(family, last, k, i, N) ==
    [known |-> [n \in i..N |-> IF Fails(family, last, k, n) THEN -1
                               ELSE IF last[n] < n THEN 1 ELSE 0],
     ends  |-> [n \in i..N |-> IF last[n] < n THEN ~Fails(family, last, k, n)
                               ELSE AllEnd(family, k, n)]]

EventuallyFrom(family, last, k, i, N) ==
    [known |-> [n \in i..N |-> IF Comes(family, last, k, n) THEN 1
                               ELSE IF last[n] < n THEN -1 ELSE 0],
     ends  |-> [n \in i..N |-> IF last[n] < n THEN Comes(family, last, k, n)
                               ELSE SomeEnds(family, k, n)]]

LEMMA AlwaysFromValues ==
    ASSUME NEW family, NEW last, NEW i, NEW N, NEW k,
           NEW x, x = AlwaysFrom(family, last, k, i, N)
    PROVE  \A n \in i..N :
             /\ Fails(family, last, k, n) => x.known[n] = -1
             /\ ~Fails(family, last, k, n) /\ last[n] < n => x.known[n] = 1
             /\ ~Fails(family, last, k, n) /\ ~(last[n] < n) => x.known[n] = 0
             /\ x.ends[n] \in BOOLEAN
             /\ last[n] < n => (x.ends[n] <=> ~Fails(family, last, k, n))
             /\ ~(last[n] < n) => (x.ends[n] <=> AllEnd(family, k, n))
<1>1. \A n \in i..N :
        /\ x.known[n] = IF Fails(family, last, k, n) THEN -1
                        ELSE IF last[n] < n THEN 1 ELSE 0
        /\ x.ends[n] = IF last[n] < n THEN ~Fails(family, last, k, n)
                       ELSE AllEnd(family, k, n)
  BY DEF AlwaysFrom
<1>2. \A n : AllEnd(family, k, n) \in BOOLEAN /\ Fails(family, last, k, n) \in BOOLEAN
  BY DEF AllEnd, Fails
<1> QED
  BY <1>1, <1>2

LEMMA EventuallyFromValues ==
    ASSUME NEW family, NEW last, NEW i, NEW N, NEW k,
           NEW x, x = EventuallyFrom(family, last, k, i, N)
    PROVE  \A n \in i..N :
             /\ Comes(family, last, k, n) => x.known[n] = 1
             /\ ~Comes(family, last, k, n) /\ last[n] < n => x.known[n] = -1
             /\ ~Comes(family, last, k, n) /\ ~(last[n] < n) => x.known[n] = 0
             /\ x.ends[n] \in BOOLEAN
             /\ last[n] < n => (x.ends[n] <=> Comes(family, last, k, n))
             /\ ~(last[n] < n) => (x.ends[n] <=> SomeEnds(family, k, n))
<1>1. \A n \in i..N :
        /\ x.known[n] = IF Comes(family, last, k, n) THEN 1
                        ELSE IF last[n] < n THEN -1 ELSE 0
        /\ x.ends[n] = IF last[n] < n THEN Comes(family, last, k, n)
                       ELSE SomeEnds(family, k, n)
  BY DEF EventuallyFrom
<1>2. \A n : /\ SomeEnds(family, k, n) \in BOOLEAN
             /\ Comes(family, last, k, n) \in BOOLEAN
  BY DEF SomeEnds, Comes
<1> QED
  BY <1>1, <1>2

LEMMA FamilyLater ==
    ASSUME NEW i \in Nat, NEW N \in Nat, NEW family, NEW last,
           IsFamily(family, i, N), IsLast(last, i, N)
    PROVE  \A m, n \in i..N : \A j \in i..last[m] : m <= n =>
             /\ j \in i..last[n]
             /\ family[j].known[last[m]] \in {-1, 0, 1}
             /\ family[j].known[last[m]] # 0 =>
                  family[j].known[last[n]] = family[j].known[last[m]]
<1> SUFFICES ASSUME NEW m \in i..N, NEW n \in i..N, NEW j \in i..last[m], m <= n
             PROVE  /\ j \in i..last[n]
                    /\ family[j].known[last[m]] \in {-1, 0, 1}
                    /\ family[j].known[last[m]] # 0 =>
                         family[j].known[last[n]] = family[j].known[last[m]]
  OBVIOUS
<1>1. /\ last[m] \in i..m /\ last[n] \in i..n /\ last[m] <= last[n]
  BY DEF IsLast
<1>2. j \in i..N /\ last[m] \in j..N /\ last[n] \in j..N /\ j \in i..last[n]
  BY <1>1
<1>3. IsSignal(family[j], j, N)
  BY <1>2 DEF IsFamily
<1> QED
  BY <1>1, <1>2, <1>3 DEF IsSignal

LEMMA FailsForGood ==
    ASSUME NEW i \in Nat, NEW N \in Nat, NEW family, NEW last,
           IsFamily(family, i, N), IsLast(last, i, N), NEW k \in Nat, k >= i,
           NEW m \in i..N, NEW n \in i..N, m <= n
    PROVE  /\ Fails(family, last, k, m) => Fails(family, last, k, n)
           /\ Comes(family, last, k, m) => Comes(family, last, k, n)
           /\ last[m] < m => /\ last[n] < n
                             /\ Fails(family, last, k, n) => Fails(family, last, k, m)
                             /\ Comes(family, last, k, n) => Comes(family, last, k, m)
<1>1. /\ last[m] \in i..m /\ last[n] \in i..n
      /\ last[m] < m => last[n] = last[m]
  BY DEF IsLast
<1>2. ASSUME NEW decided \in {-1, 1}, NEW j \in k..last[m],
             family[j].known[last[m]] = decided
      PROVE  j \in k..last[n] /\ family[j].known[last[n]] = decided
  <2>1. j \in i..last[m] /\ decided # 0
    BY <1>1
  <2>2. j \in i..last[n] /\ family[j].known[last[n]] = decided
    BY <1>2, <2>1, FamilyLater
  <2>3. j \in k..last[n]
    <3>1. j \in k..last[m] /\ last[m] \in i..m
      BY <1>1
    <3>2. j >= k /\ j \in Int
      BY <3>1
    <3>3. j <= last[n] /\ last[n] \in i..n
      BY <1>1, <2>2
    <3> QED
      BY ONLY <3>2, <3>3, i \in Nat, n \in i..N, N \in Nat, k \in Nat
  <2> QED
    BY <2>2, <2>3
<1>3. Fails(family, last, k, m) => Fails(family, last, k, n)
  BY <1>2 DEF Fails
<1>4. Comes(family, last, k, m) => Comes(family, last, k, n)
  BY <1>2 DEF Comes
<1>5. last[m] < m => last[n] < n /\ last[n] = last[m]
  BY <1>1
<1> QED
  BY <1>3, <1>4, <1>5 DEF Fails, Comes

LEMMA EndsOfFamily ==
    ASSUME NEW i \in Nat, NEW N \in Nat, NEW family, NEW last,
           IsFamily(family, i, N), NEW k \in Nat, k >= i,
           NEW n \in i..N, last[n] = n
    PROVE  /\ Fails(family, last, k, n) => ~AllEnd(family, k, n)
           /\ Comes(family, last, k, n) => SomeEnds(family, k, n)
<1>1. \A j \in k..n : /\ family[j].known[n] = -1 => ~family[j].ends[n]
                      /\ family[j].known[n] = 1 => family[j].ends[n]
  <2> SUFFICES ASSUME NEW j \in k..n
               PROVE  /\ family[j].known[n] = -1 => ~family[j].ends[n]
                      /\ family[j].known[n] = 1 => family[j].ends[n]
    OBVIOUS
  <2>1. j \in i..N /\ n \in j..N
    OBVIOUS
  <2>2. IsSignal(family[j], j, N)
    BY <2>1 DEF IsFamily
  <2> QED
    BY <2>1, <2>2 DEF IsSignal
<1> QED
  BY <1>1 DEF Fails, Comes, AllEnd, SomeEnds

LEMMA AlwaysFromIsSignal ==
    ASSUME NEW i \in Nat, NEW N \in Nat, NEW family, NEW last,
           IsFamily(family, i, N), IsLast(last, i, N), NEW k \in Nat, k >= i,
           NEW x, x = AlwaysFrom(family, last, k, i, N)
    PROVE  IsSignal(x, i, N)
<1>1. ASSUME NEW n \in i..N
      PROVE  /\ x.known[n] \in {-1, 0, 1} /\ x.ends[n] \in BOOLEAN
             /\ x.known[n] = 1 => x.ends[n]
             /\ x.known[n] = -1 => ~x.ends[n]
  <2>1. last[n] \in i..n
    BY DEF IsLast
  <2>2. last[n] < n \/ (~(last[n] < n) /\ last[n] = n)
    BY <2>1
  <2> QED
    BY <2>2, AlwaysFromValues, EndsOfFamily
<1>2. ASSUME NEW m \in i..N, NEW n \in i..N, m <= n, x.known[m] # 0
      PROVE  x.known[n] = x.known[m]
  <2>1. /\ Fails(family, last, k, m) => Fails(family, last, k, n)
        /\ last[m] < m =>
             last[n] < n /\ (Fails(family, last, k, n) => Fails(family, last, k, m))
    BY <1>2, FailsForGood
  <2> QED
    BY <1>2, <2>1, AlwaysFromValues
<1> QED
  BY <1>1, <1>2 DEF IsSignal

LEMMA EventuallyFromIsSignal ==
    ASSUME NEW i \in Nat, NEW N \in Nat, NEW family, NEW last,
           IsFamily(family, i, N), IsLast(last, i, N), NEW k \in Nat, k >= i,
           NEW x, x = EventuallyFrom(family, last, k, i, N)
    PROVE  IsSignal(x, i, N)
<1>1. ASSUME NEW n \in i..N
      PROVE  /\ x.known[n] \in {-1, 0, 1} /\ x.ends[n] \in BOOLEAN
             /\ x.known[n] = 1 => x.ends[n]
             /\ x.known[n] = -1 => ~x.ends[n]
  <2>1. last[n] \in i..n
    BY DEF IsLast
  <2>2. last[n] < n \/ (~(last[n] < n) /\ last[n] = n)
    BY <2>1
  <2> QED
    BY <2>2, EventuallyFromValues, EndsOfFamily
<1>2. ASSUME NEW m \in i..N, NEW n \in i..N, m <= n, x.known[m] # 0
      PROVE  x.known[n] = x.known[m]
  <2>1. /\ Comes(family, last, k, m) => Comes(family, last, k, n)
        /\ last[m] < m =>
             last[n] < n /\ (Comes(family, last, k, n) => Comes(family, last, k, m))
    BY <1>2, FailsForGood
  <2> QED
    BY <1>2, <2>1, EventuallyFromValues
<1> QED
  BY <1>1, <1>2 DEF IsSignal

LEMMA FirstApart ==
    ASSUME NEW i \in Nat, NEW N \in Nat, NEW family, NEW last, NEW k \in i..N,
           NEW n \in k..N
    PROVE  /\ last[n] \in k..N =>
                /\ Fails(family, last, k, n) <=>
                     family[k].known[last[n]] = -1 \/ Fails(family, last, k + 1, n)
                /\ Comes(family, last, k, n) <=>
                     family[k].known[last[n]] = 1 \/ Comes(family, last, k + 1, n)
           /\ AllEnd(family, k, n) <=> family[k].ends[n] /\ AllEnd(family, k + 1, n)
           /\ SomeEnds(family, k, n) <=>
                family[k].ends[n] \/ SomeEnds(family, k + 1, n)
<1>1. last[n] \in k..N => k..last[n] = {k} \cup (k + 1)..last[n]
  OBVIOUS
<1>2. k..n = {k} \cup (k + 1)..n
  OBVIOUS
<1> QED
  BY <1>1, <1>2 DEF Fails, Comes, AllEnd, SomeEnds

LEMMA LastFromFirst ==
    ASSUME NEW i \in Nat, NEW N \in Nat, NEW last, IsLast(last, i, N),
           NEW k \in i..N, last[k] = k
    PROVE  /\ \A n \in k..N : last[n] \in k..n /\ last[n] \in k..N
           /\ \A n \in (k + 1)..N : last[n] < n => last[n] = last[n - 1]
<1>1. ASSUME NEW n \in k..N PROVE last[n] \in k..n /\ last[n] \in k..N
  <2>1. n \in i..N /\ k <= n
    OBVIOUS
  <2>2. last[n] \in i..n /\ last[k] <= last[n]
    BY <2>1 DEF IsLast
  <2> QED
    BY <2>2
<1>2. ASSUME NEW n \in (k + 1)..N, last[n] < n PROVE last[n] = last[n - 1]
  <2>1. n \in i..N /\ n - 1 \in i..N /\ n - 1 <= n
    OBVIOUS
  <2>2. /\ last[n - 1] \in i..(n - 1) /\ last[n] \in i..n
        /\ last[n - 1] <= last[n]
        /\ last[n - 1] < n - 1 => last[n] = last[n - 1]
    BY <2>1 DEF IsLast
  <2> QED
    BY <1>2, <2>2
<1> QED
  BY <1>1, <1>2

AlwaysJoins(g, h, x, last, k, N) ==
    /\ h.known[k] = 0 /\ h.ends[k]
    /\ \A n \in k..N : ~(last[n] < n) => Joined("And", g, h, x, n)
    /\ \A n \in (k + 1)..N :
         last[n] < n /\ x.known[n - 1] # -1 => x.known[n] = 1
    /\ g.known[k] = 1 => Agree(h, x, k, N)

EventuallyJoins(g, h, x, last, k, N) ==
    /\ h.known[k] = 0 /\ ~h.ends[k]
    /\ \A n \in k..N : ~(last[n] < n) =>
         /\ Joined("Or", g, h, x, n) /\ h.known[n] # -1
         /\ g.known[n] = -1 => Agree(h, x, n, N)
    /\ \A n \in (k + 1)..N :
         last[n] < n /\ x.known[n - 1] # 1 => x.known[n] = -1

LEMMA AlwaysFromJoins ==
    ASSUME NEW i \in Nat, NEW N \in Nat, NEW family, NEW last,
           IsFamily(family, i, N), IsLast(last, i, N),
           NEW k \in i..N, last[k] = k,
           NEW g, g = family[k],
           NEW h, h = AlwaysFrom(family, last, k + 1, i, N),
           NEW x, x = AlwaysFrom(family, last, k, i, N)
    PROVE  AlwaysJoins(g, h, x, last, k, N)
<1>0. k \in i..N /\ k \in k..N /\ k..N \subseteq i..N /\ IsSignal(g, k, N)
  BY DEF IsFamily
<1>1. h.known[k] = 0 /\ h.ends[k]
  <2>1. ~Fails(family, last, k + 1, k) /\ AllEnd(family, k + 1, k)
    BY DEF Fails, AllEnd
  <2>2. ~(last[k] < k)
    OBVIOUS
  <2> QED
    BY <1>0, <2>1, <2>2, AlwaysFromValues
<1>2. ASSUME NEW n \in k..N, ~(last[n] < n) PROVE Joined("And", g, h, x, n)
  <2>1. last[n] \in k..N /\ last[n] = n /\ n \in i..N
    BY <1>2, LastFromFirst
  <2>2. Fails(family, last, k, n) <=>
            g.known[n] = -1 \/ Fails(family, last, k + 1, n)
    BY <2>1, FirstApart
  <2>3. AllEnd(family, k, n) <=> g.ends[n] /\ AllEnd(family, k + 1, n)
    BY FirstApart
  <2>4. /\ Fails(family, last, k, n) <=> x.known[n] = -1
        /\ x.known[n] # 1 /\ (x.ends[n] <=> AllEnd(family, k, n))
    BY <1>2, <2>1, AlwaysFromValues
  <2>5. /\ Fails(family, last, k + 1, n) <=> h.known[n] = -1
        /\ h.known[n] # 1 /\ (h.ends[n] <=> AllEnd(family, k + 1, n))
    BY <1>2, <2>1, AlwaysFromValues
  <2> QED
    BY <2>2, <2>3, <2>4, <2>5 DEF Joined
<1>3. ASSUME NEW n \in (k + 1)..N, last[n] < n, x.known[n - 1] # -1
      PROVE  x.known[n] = 1
  <2>1. last[n] = last[n - 1] /\ n \in i..N /\ n - 1 \in i..N
    BY <1>3, LastFromFirst
  <2>2. ~Fails(family, last, k, n - 1)
    BY <1>3, <2>1, AlwaysFromValues
  <2>3. ~Fails(family, last, k, n)
    BY <2>1, <2>2 DEF Fails
  <2> QED
    BY <1>3, <2>1, <2>3, AlwaysFromValues
<1>4. ASSUME g.known[k] = 1, NEW n \in k..N
      PROVE  h.known[n] = x.known[n] /\ (h.ends[n] <=> x.ends[n])
  <2>1. last[n] \in k..N /\ n \in i..N /\ k <= last[n] /\ k <= n
    BY LastFromFirst
  <2>2. g.known[last[n]] = 1 /\ g.ends[n]
    BY <1>0, <1>4, <2>1 DEF IsSignal
  <2>3. Fails(family, last, k, n) <=> Fails(family, last, k + 1, n)
    BY <2>1, <2>2, FirstApart
  <2>4. AllEnd(family, k, n) <=> AllEnd(family, k + 1, n)
    BY <2>2, FirstApart
  <2> QED
    BY <2>1, <2>3, <2>4, AlwaysFromValues
<1> QED
  BY <1>1, <1>2, <1>3, <1>4 DEF Agree, AlwaysJoins

LEMMA EventuallyFromJoins ==
    ASSUME NEW i \in Nat, NEW N \in Nat, NEW family, NEW last,
           IsFamily(family, i, N), IsLast(last, i, N),
           NEW k \in i..N, last[k] = k,
           NEW g, g = family[k],
           NEW h, h = EventuallyFrom(family, last, k + 1, i, N),
           NEW x, x = EventuallyFrom(family, last, k, i, N)
    PROVE  EventuallyJoins(g, h, x, last, k, N)
<1>0. k \in i..N /\ k \in k..N /\ k..N \subseteq i..N /\ IsSignal(g, k, N)
  BY DEF IsFamily
<1>1. h.known[k] = 0 /\ ~h.ends[k]
  <2>1. ~Comes(family, last, k + 1, k) /\ ~SomeEnds(family, k + 1, k)
    BY DEF Comes, SomeEnds
  <2>2. ~(last[k] < k)
    OBVIOUS
  <2> QED
    BY <1>0, <2>1, <2>2, EventuallyFromValues
<1>2. ASSUME NEW n \in k..N, ~(last[n] < n)
      PROVE  Joined("Or", g, h, x, n) /\ h.known[n] # -1
  <2>1. last[n] \in k..N /\ last[n] = n /\ n \in i..N
    BY <1>2, LastFromFirst
  <2>2. Comes(family, last, k, n) <=>
            g.known[n] = 1 \/ Comes(family, last, k + 1, n)
    BY <2>1, FirstApart
  <2>3. SomeEnds(family, k, n) <=> g.ends[n] \/ SomeEnds(family, k + 1, n)
    BY FirstApart
  <2>4. /\ Comes(family, last, k, n) <=> x.known[n] = 1
        /\ x.known[n] # -1 /\ (x.ends[n] <=> SomeEnds(family, k, n))
    BY <1>2, <2>1, EventuallyFromValues
  <2>5. /\ Comes(family, last, k + 1, n) <=> h.known[n] = 1
        /\ h.known[n] # -1 /\ (h.ends[n] <=> SomeEnds(family, k + 1, n))
    BY <1>2, <2>1, EventuallyFromValues
  <2> QED
    BY <2>2, <2>3, <2>4, <2>5 DEF Joined
<1>3. ASSUME NEW n \in (k + 1)..N, last[n] < n, x.known[n - 1] # 1
      PROVE  x.known[n] = -1
  <2>1. last[n] = last[n - 1] /\ n \in i..N /\ n - 1 \in i..N
    BY <1>3, LastFromFirst
  <2>2. ~Comes(family, last, k, n - 1)
    BY <1>3, <2>1, EventuallyFromValues
  <2>3. ~Comes(family, last, k, n)
    BY <2>1, <2>2 DEF Comes
  <2>4. ~Comes(family, last, k, n) /\ last[n] < n => x.known[n] = -1
    BY <2>1, EventuallyFromValues
  <2> QED
    BY <1>3, <2>3, <2>4
<1>4. ASSUME NEW n \in k..N, ~(last[n] < n), g.known[n] = -1, NEW m \in n..N
      PROVE  h.known[m] = x.known[m] /\ (h.ends[m] <=> x.ends[m])
  <2>1. /\ last[m] \in k..N /\ m \in i..N /\ m \in k..N /\ n <= m
        /\ last[n] = n
    <3>1. m \in i..N /\ m \in k..N /\ n <= m
      BY <1>4
    <3>2. last[m] \in k..N
      BY ONLY <3>1, LastFromFirst, i \in Nat, N \in Nat, k \in i..N,
              last[k] = k, IsLast(last, i, N)
    <3>3. last[n] = n
      BY ONLY <1>4, LastFromFirst, i \in Nat, N \in Nat, k \in i..N,
              last[k] = k, IsLast(last, i, N)
    <3> QED
      BY ONLY <3>1, <3>2, <3>3
  <2>2. n <= last[m]
    BY <1>0, <2>1 DEF IsLast
  <2>3. g.known[last[m]] = -1 /\ ~g.ends[m]
    BY <1>0, <1>4, <2>1, <2>2 DEF IsSignal
  <2>4. Comes(family, last, k, m) <=> Comes(family, last, k + 1, m)
    <3>1. Comes(family, last, k, m) <=>
              family[k].known[last[m]] = 1 \/ Comes(family, last, k + 1, m)
      BY <2>1, FirstApart
    <3>2. ~(family[k].known[last[m]] = 1)
      BY <2>3
    <3> QED
      BY ONLY <3>1, <3>2
  <2>5. SomeEnds(family, k, m) <=> SomeEnds(family, k + 1, m)
    <3>1. SomeEnds(family, k, m) <=>
              family[k].ends[m] \/ SomeEnds(family, k + 1, m)
      BY <2>1, FirstApart
    <3> QED
      BY <2>3, <3>1
  <2> QED
    BY <2>1, <2>4, <2>5, EventuallyFromValues
<1> QED
  BY <1>1, <1>2, <1>3, <1>4 DEF Agree, EventuallyJoins

(***************************************************************************)
(* From the end of the trace back: what is left of an Always at a state    *)
(* stands for the Always from the next one on, and its value there, first  *)
(* met or stepped, follows it.                                             *)
(***************************************************************************)
Watched(tr, i, formula, end, family, last) ==
    /\ IsFamily(family, i, Len(tr)) /\ IsLast(last, i, Len(tr))
    /\ \A n \in i..Len(tr) : Past(end, tr[n].time) <=> last[n] < n
    /\ \A j \in i..Len(tr) :
          Follows(Evaluate(formula, tr[j].state, tr[j].time), family[j], j, tr)

LEMMA AlwaysFollows ==
    ASSUME ResidualRecursion, NEW tr \in Traces, NEW i \in 1..Len(tr),
           NEW formula, NEW end, NEW family, NEW last,
           Watched(tr, i, formula, end, family, last)
    PROVE  \A k \in i..Len(tr) :
             Follows(AlwaysValue(formula, end, tr[k].time,
                                 Evaluate(formula, tr[k].state, tr[k].time)),
                     AlwaysFrom(family, last, k, i, Len(tr)), k, tr)
<1> DEFINE rest == DerivedAlways(formula, end)
           inner(k) == Evaluate(formula, tr[k].state, tr[k].time)
           value(k) == AlwaysValue(formula, end, tr[k].time, inner(k))
           part(k) == AlwaysFrom(family, last, k, i, Len(tr))
           holds == {k \in i..Len(tr) : Follows(value(k), part(k), k, tr)}
<1>a. tr \in Seq([time : Nat, state : States]) /\ Len(tr) \in Nat
  BY Entries
<1>0. i \in Nat /\ i >= 1 /\ i <= Len(tr)
  BY <1>a
<1>1. ASSUME NEW k \in i..Len(tr), k = Len(tr) \/ k + 1 \in holds
      PROVE  Follows(value(k), part(k), k, tr)
  <2> DEFINE g == family[k]
             h == part(k + 1)
             x == part(k)
             v == inner(k)
  <2>0. /\ k \in 1..Len(tr) /\ k \in 0..Len(tr) /\ k \in Nat
        /\ k + 1 \in Nat /\ k >= i /\ k + 1 >= i /\ k \in i..Len(tr)
        /\ k..Len(tr) \subseteq i..Len(tr)
    BY <1>0, <1>a
  <2>1. /\ IsSignal(g, k, Len(tr)) /\ Follows(v, g, k, tr)
        /\ Past(end, tr[k].time) <=> last[k] < k
        /\ last[k] \in i..k
        /\ IsFamily(family, i, Len(tr)) /\ IsLast(last, i, Len(tr))
    BY DEF Watched, IsFamily, IsLast
  <2>2. IsSignal(x, i, Len(tr)) /\ IsSignal(h, i, Len(tr))
    BY <1>0, <1>a, <2>0, <2>1, AlwaysFromIsSignal
  <2>3. IsSignal(x, k, Len(tr)) /\ IsSignal(h, k, Len(tr))
    BY <2>0, <2>2 DEF IsSignal
  <2>4. CASE Past(end, tr[k].time)
    <3>1. value(k) = TrueValue
      BY <2>4 DEF AlwaysValue
    <3>2. ~Fails(family, last, k, k)
      BY <1>0, <2>0, <2>1, <2>4 DEF Fails
    <3>3. x.known[k] = 1
      BY <2>1, <2>4, <3>2, AlwaysFromValues
    <3> QED
      BY <3>1, <3>3, Settled
  <2>5. CASE ~Past(end, tr[k].time)
    <3>0. last[k] = k
      BY <1>0, <2>0, <2>1, <2>5
    <3>a. /\ g = family[k] /\ x = AlwaysFrom(family, last, k, i, Len(tr))
          /\ h = AlwaysFrom(family, last, k + 1, i, Len(tr))
      OBVIOUS
    <3> HIDE DEF g, h, x
    <3>b. /\ i \in Nat /\ Len(tr) \in Nat /\ k \in i..Len(tr)
          /\ IsFamily(family, i, Len(tr)) /\ IsLast(last, i, Len(tr))
      BY <1>0, <1>a, <2>1
    <3>1. /\ h.known[k] = 0 /\ h.ends[k]
          /\ \A n \in k..Len(tr) : ~(last[n] < n) => Joined("And", g, h, x, n)
          /\ \A n \in (k + 1)..Len(tr) :
               last[n] < n /\ x.known[n - 1] # -1 => x.known[n] = 1
          /\ g.known[k] = 1 => Agree(h, x, k, Len(tr))
      <4>1. AlwaysJoins(g, h, x, last, k, Len(tr))
        BY <3>0, <3>a, <3>b, AlwaysFromJoins
      <4> QED
        BY <4>1 DEF AlwaysJoins
    <3>2. Stands(rest, h, k, tr)
      <4>1. ASSUME k < Len(tr) PROVE Follows(StepAt(rest, tr, k + 1), h, k + 1, tr)
        <5>1. k + 1 \in holds /\ k + 1 \in 1..Len(tr)
          BY <1>1, <1>a, <2>0, <4>1
        <5>2. StepAt(rest, tr, k + 1) = value(k + 1)
          BY <5>1, StepAtForms
        <5> QED
          BY <5>1, <5>2 DEF h
      <4>2. Behaves(rest, h, k, tr)
        BY <1>a, <2>0, <4>1, Unrolled
      <4> QED
        BY <3>1, <4>2, DefaultOfForms DEF Stands
    <3>3. Says(v, g, k, tr)
      BY <2>0, <2>1, WhatFollows DEF g
    <3>4. Joined("And", g, h, x, k)
      BY <2>0, <3>0, <3>1
    <3> HIDE DEF v, rest
    <3>5. CASE IsTrue(v)
      <4>1. value(k) = Pending(rest)
        BY <2>5, <3>5 DEF AlwaysValue, v, rest
      <4>2. Follows(Pending(rest), h, k, tr)
        BY <3>1, <3>2, Settled
      <4>3. Agree(h, x, k, Len(tr))
        BY <3>1, <3>3, <3>5 DEF Says
      <4> QED
        BY <2>0, <4>1, <4>2, <4>3, FollowsAlike DEF x
    <3>6. CASE IsPending(v)
      <4>1. value(k) = Pending(AndAlways(formula, end, tr[k].time, v.residual, rest))
        BY <2>5, <3>3, <3>6 DEF AlwaysValue, v, rest, Says
      <4>2. AlwaysWaits(g, h, x, end, tr, k)
        <5>1. ASSUME NEW n \in (k + 1)..Len(tr) PROVE Waiting(g, h, x, end, tr, n)
          <6>1. n \in i..Len(tr) /\ n \in k..Len(tr)
            BY <1>a, <2>0
          <6>2. Past(end, tr[n].time) <=> last[n] < n
            BY <6>1 DEF Watched
          <6> QED
            BY <3>1, <6>1, <6>2 DEF Waiting
        <5> QED
          BY <2>1, <2>3, <3>4, <5>1 DEF AlwaysWaits, g
      <4>3. AlwaysKeeps(formula, end, g, h, x, k, tr)
        BY <1>a, <2>0, <4>2, AndAlwaysStands
      <4>4. x.known[k] = 0
        <5>1. x.known[k] \in {-1, 0, 1}
          BY <2>0, <2>2 DEF IsSignal, x
        <5> QED
          BY <3>1, <3>3, <3>4, <3>6, <5>1 DEF Says, Joined
      <4>5. Stands(AndAlways(formula, end, tr[k].time, v.residual, rest), x, k, tr)
        BY <3>2, <3>3, <3>4, <3>6, <4>3, <4>4 DEF AlwaysKeeps, Says
      <4> QED
        BY <4>1, <4>4, <4>5, Settled DEF x
    <3>7. CASE IsFalse(v)
      <4>1. value(k).is = "False"
        BY <2>5, <3>3, <3>7 DEF AlwaysValue, FalseValue, v, Says
      <4>2. x.known[k] = -1
        BY <3>3, <3>4, <3>7 DEF Says, Joined
      <4> QED
        BY <4>1, <4>2, Refuted DEF x
    <3> QED
      BY <3>3, <3>5, <3>6, <3>7 DEF Says
  <2> QED
    BY <2>4, <2>5
<1>2. \A k \in i..Len(tr) : (k = Len(tr) \/ k + 1 \in holds) => k \in holds
  BY <1>1
<1>3. i..Len(tr) \subseteq holds
  <2> HIDE DEF holds
  <2> QED
    BY <1>0, <1>a, <1>2, Backwards
<1> QED
  BY <1>3

LEMMA EventuallyFollows ==
    ASSUME ResidualRecursion, NEW tr \in Traces, NEW i \in 1..Len(tr),
           NEW formula, NEW end, NEW family, NEW last,
           Watched(tr, i, formula, end, family, last)
    PROVE  \A k \in i..Len(tr) :
             Follows(EventuallyValue(formula, end, tr[k].time,
                                 Evaluate(formula, tr[k].state, tr[k].time)),
                     EventuallyFrom(family, last, k, i, Len(tr)), k, tr)
<1> DEFINE rest == DerivedEventually(formula, end)
           inner(k) == Evaluate(formula, tr[k].state, tr[k].time)
           value(k) == EventuallyValue(formula, end, tr[k].time, inner(k))
           part(k) == EventuallyFrom(family, last, k, i, Len(tr))
           holds == {k \in i..Len(tr) : Follows(value(k), part(k), k, tr)}
<1>a. tr \in Seq([time : Nat, state : States]) /\ Len(tr) \in Nat
  BY Entries
<1>0. i \in Nat /\ i >= 1 /\ i <= Len(tr)
  BY <1>a
<1>1. ASSUME NEW k \in i..Len(tr), k = Len(tr) \/ k + 1 \in holds
      PROVE  Follows(value(k), part(k), k, tr)
  <2> DEFINE g == family[k]
             h == part(k + 1)
             x == part(k)
             v == inner(k)
  <2>0. /\ k \in 1..Len(tr) /\ k \in 0..Len(tr) /\ k \in Nat
        /\ k + 1 \in Nat /\ k >= i /\ k + 1 >= i /\ k \in i..Len(tr)
        /\ k..Len(tr) \subseteq i..Len(tr)
    BY <1>0, <1>a
  <2>1. /\ IsSignal(g, k, Len(tr)) /\ Follows(v, g, k, tr)
        /\ Past(end, tr[k].time) <=> last[k] < k
        /\ last[k] \in i..k
        /\ IsFamily(family, i, Len(tr)) /\ IsLast(last, i, Len(tr))
    BY DEF Watched, IsFamily, IsLast
  <2>2. IsSignal(x, i, Len(tr)) /\ IsSignal(h, i, Len(tr))
    BY <1>0, <1>a, <2>0, <2>1, EventuallyFromIsSignal
  <2>3. IsSignal(x, k, Len(tr)) /\ IsSignal(h, k, Len(tr))
    BY <2>0, <2>2 DEF IsSignal
  <2>4. CASE Past(end, tr[k].time)
    <3>1. value(k).is = "False"
      BY <2>4 DEF EventuallyValue, FalseValue
    <3>2. ~Comes(family, last, k, k)
      BY <1>0, <2>0, <2>1, <2>4 DEF Comes
    <3>3. x.known[k] = -1
      BY <2>1, <2>4, <3>2, EventuallyFromValues
    <3> QED
      BY <3>1, <3>3, Refuted
  <2>5. CASE ~Past(end, tr[k].time)
    <3>0. last[k] = k
      BY <1>0, <2>0, <2>1, <2>5
    <3>a. /\ g = family[k] /\ x = EventuallyFrom(family, last, k, i, Len(tr))
          /\ h = EventuallyFrom(family, last, k + 1, i, Len(tr))
      OBVIOUS
    <3> HIDE DEF g, h, x
    <3>b. /\ i \in Nat /\ Len(tr) \in Nat /\ k \in i..Len(tr)
          /\ IsFamily(family, i, Len(tr)) /\ IsLast(last, i, Len(tr))
      BY <1>0, <1>a, <2>1
    <3>1. /\ h.known[k] = 0 /\ ~h.ends[k]
          /\ \A n \in k..Len(tr) : ~(last[n] < n) =>
               /\ Joined("Or", g, h, x, n) /\ h.known[n] # -1
               /\ g.known[n] = -1 => Agree(h, x, n, Len(tr))
          /\ \A n \in (k + 1)..Len(tr) :
               last[n] < n /\ x.known[n - 1] # 1 => x.known[n] = -1
      <4>1. EventuallyJoins(g, h, x, last, k, Len(tr))
        BY <3>0, <3>a, <3>b, EventuallyFromJoins
      <4> QED
        BY <4>1 DEF EventuallyJoins
    <3>2. Stands(rest, h, k, tr)
      <4>1. ASSUME k < Len(tr) PROVE Follows(StepAt(rest, tr, k + 1), h, k + 1, tr)
        <5>1. k + 1 \in holds /\ k + 1 \in 1..Len(tr)
          BY <1>1, <1>a, <2>0, <4>1
        <5>2. StepAt(rest, tr, k + 1) = value(k + 1)
          BY <5>1, StepAtForms
        <5> QED
          BY <5>1, <5>2 DEF h
      <4>2. Behaves(rest, h, k, tr)
        BY <1>a, <2>0, <4>1, Unrolled
      <4> QED
        BY <3>1, <4>2, DefaultOfForms DEF Stands
    <3>3. Says(v, g, k, tr)
      BY <2>0, <2>1, WhatFollows DEF g
    <3>4. Joined("Or", g, h, x, k)
      BY <2>0, <3>0, <3>1
    <3> HIDE DEF v, rest
    <3>5. CASE IsFalse(v)
      <4>1. value(k) = Pending(rest)
        BY <2>5, <3>3, <3>5 DEF EventuallyValue, v, rest, Says
      <4>2. Follows(Pending(rest), h, k, tr)
        BY <3>1, <3>2, Settled
      <4>3. Agree(h, x, k, Len(tr))
        BY <2>0, <3>0, <3>1, <3>3, <3>5 DEF Says
      <4> QED
        BY <2>0, <4>1, <4>2, <4>3, FollowsAlike DEF x
    <3>6. CASE IsPending(v)
      <4>1. value(k) = Pending(OrEventually(formula, end, v.residual, rest))
        BY <2>5, <3>3, <3>6 DEF EventuallyValue, v, rest, Says
      <4>2. EventuallyWaits(g, h, x, end, tr, k)
        <5>1. ASSUME NEW n \in (k + 1)..Len(tr) PROVE Hoping(g, h, x, end, tr, n)
          <6>1. n \in i..Len(tr) /\ n \in k..Len(tr)
            BY <1>a, <2>0
          <6>2. Past(end, tr[n].time) <=> last[n] < n
            BY <6>1 DEF Watched
          <6> QED
            BY <3>1, <6>1, <6>2 DEF Hoping
        <5> QED
          BY <2>1, <2>3, <5>1 DEF EventuallyWaits, g
      <4>3. EventuallyKeeps(formula, end, g, h, x, k, tr)
        BY <1>a, <2>0, <4>2, OrEventuallyStands
      <4>4. x.known[k] = 0
        <5>1. x.known[k] \in {-1, 0, 1}
          BY <2>0, <2>2 DEF IsSignal, x
        <5> QED
          BY <3>1, <3>3, <3>4, <3>6, <5>1 DEF Says, Joined
      <4>5. Stands(OrEventually(formula, end, v.residual, rest), x, k, tr)
        BY <3>2, <3>3, <3>4, <3>6, <4>3, <4>4 DEF EventuallyKeeps, Says
      <4> QED
        BY <4>1, <4>4, <4>5, Settled DEF x
    <3>7. CASE IsTrue(v)
      <4>1. value(k) = TrueValue
        BY <2>5, <3>7 DEF EventuallyValue, v
      <4>2. x.known[k] = 1
        BY <3>3, <3>4, <3>7 DEF Says, Joined
      <4> QED
        BY <4>1, <4>2, Settled DEF x
    <3> QED
      BY <3>3, <3>5, <3>6, <3>7 DEF Says
  <2> QED
    BY <2>4, <2>5
<1>2. \A k \in i..Len(tr) : (k = Len(tr) \/ k + 1 \in holds) => k \in holds
  BY <1>1
<1>3. i..Len(tr) \subseteq holds
  <2> HIDE DEF holds
  <2> QED
    BY <1>0, <1>a, <1>2, Backwards
<1> QED
  BY <1>3

-----------------------------------------------------------------------------
(***************************************************************************)
(* The reference semantics, by the form of a syntax.                       *)
(***************************************************************************)
LEMMA PairBounds ==
    ASSUME NEW a \in {-1, 0, 1}, NEW b \in {-1, 0, 1}
    PROVE  /\ Min({a, b}) = IF a <= b THEN a ELSE b
           /\ Max({a, b}) = IF a >= b THEN a ELSE b
<1>1. \A x \in {a, b} : (\A y \in {a, b} : x <= y) <=>
          x = IF a <= b THEN a ELSE b
  OBVIOUS
<1>2. \A x \in {a, b} : (\A y \in {a, b} : x >= y) <=>
          x = IF a >= b THEN a ELSE b
  OBVIOUS
<1>3. Min({a, b}) = CHOOSE x \in {a, b} : \A y \in {a, b} : x <= y
  BY DEF Min
<1>4. Max({a, b}) = CHOOSE x \in {a, b} : \A y \in {a, b} : x >= y
  BY DEF Max
<1> QED
  BY <1>1, <1>2, <1>3, <1>4

LEMMA MaxInRange ==
    ASSUME NEW i \in Nat, NEW n \in Nat, NEW S \in SUBSET (i..n), S # {}
    PROVE  Max(S) \in S /\ \A y \in S : y <= Max(S)
<1> DEFINE T == {k \in Nat : n - k \in S}
<1>1. T # {}
  <2>1. PICK x \in S : TRUE
    OBVIOUS
  <2>2. n - x \in Nat /\ n - (n - x) = x
    OBVIOUS
  <2> QED
    BY <2>1, <2>2
<1>2. PICK least \in T : \A k \in T : least <= k
  BY <1>1, LeastNumber
<1>3. \A y \in S : n - least >= y
  <2> SUFFICES ASSUME NEW y \in S PROVE n - least >= y
    OBVIOUS
  <2>1. n - y \in Nat /\ n - (n - y) = y
    OBVIOUS
  <2>2. n - y \in T
    BY <2>1
  <2>3. least <= n - y
    BY <1>2, <2>2
  <2>4. least \in Nat /\ y \in i..n
    OBVIOUS
  <2> HIDE DEF T
  <2> QED
    BY <2>3, <2>4
<1>4. \E x \in S : \A y \in S : x >= y
  BY <1>2, <1>3
<1>5. Max(S) \in S /\ \A y \in S : Max(S) >= y
  BY <1>4 DEF Max
<1>6. Max(S) \in i..n /\ \A y \in S : y \in i..n
  BY <1>5
<1> QED
  BY <1>5, <1>6

LEMMA LastFacts ==
    ASSUME NEW tr \in Traces, NEW s, s.bound \in Nat \cup {NoEnd},
           NEW i \in 1..Len(tr)
    PROVE  \A n \in i..Len(tr) :
             /\ LastWithin(tr, s, i, n) \in i..n
             /\ Within(tr, s, i, LastWithin(tr, s, i, n))
             /\ \A j \in i..n : Within(tr, s, i, j) =>
                    j <= LastWithin(tr, s, i, n)
             /\ Within(tr, s, i, n) <=> LastWithin(tr, s, i, n) = n
             /\ Past(EndOf(s.bound, tr[i].time), tr[n].time)
                    <=> LastWithin(tr, s, i, n) < n
<1> SUFFICES ASSUME NEW n \in i..Len(tr)
             PROVE  /\ LastWithin(tr, s, i, n) \in i..n
                    /\ Within(tr, s, i, LastWithin(tr, s, i, n))
                    /\ \A j \in i..n : Within(tr, s, i, j) =>
                           j <= LastWithin(tr, s, i, n)
                    /\ Within(tr, s, i, n) <=> LastWithin(tr, s, i, n) = n
                    /\ Past(EndOf(s.bound, tr[i].time), tr[n].time)
                           <=> LastWithin(tr, s, i, n) < n
  OBVIOUS
<1> DEFINE S == {j \in i..n : Within(tr, s, i, j)}
           L == LastWithin(tr, s, i, n)
<1>0. /\ Len(tr) \in Nat /\ i \in Nat /\ n \in Nat /\ i \in i..n /\ n \in i..n
      /\ tr[i].time \in Nat /\ tr[n].time \in Nat
  <2>1. Len(tr) \in Nat
    BY Entries
  <2>2. i \in 1..Len(tr) /\ n \in 1..Len(tr) /\ i \in i..n /\ n \in i..n
        /\ i \in Nat /\ n \in Nat
    BY <2>1
  <2> QED
    BY <2>1, <2>2, Entries
<1>1. Within(tr, s, i, i)
  <2>1. tr[i].time - tr[i].time = 0
    BY <1>0
  <2> QED
    BY <2>1 DEF Within
<1>2. i \in S /\ S \in SUBSET (i..n) /\ S # {}
  BY <1>0, <1>1
<1>3. L = Max(S)
  BY DEF LastWithin
<1>4. L \in S /\ \A j \in S : j <= L
  <2> HIDE DEF S, L
  <2> QED
    BY <1>0, <1>2, <1>3, MaxInRange
<1>5. L \in i..n /\ Within(tr, s, i, L)
  BY <1>4
<1>6. \A j \in i..n : Within(tr, s, i, j) => j <= L
  BY <1>4
<1> HIDE DEF L
<1>7. Within(tr, s, i, n) <=> L = n
  BY <1>0, <1>5, <1>6
<1>8. Past(EndOf(s.bound, tr[i].time), tr[n].time) <=> ~Within(tr, s, i, n)
  <2>1. CASE s.bound = NoEnd
    BY <2>1 DEF Past, EndOf, Within
  <2>2. CASE s.bound # NoEnd
    <3>1. s.bound \in Nat /\ EndOf(s.bound, tr[i].time) = tr[i].time + s.bound
      BY <2>2 DEF EndOf
    <3>2. tr[i].time + s.bound # NoEnd
      BY <1>0, <3>1 DEF NoEnd
    <3> QED
      BY <1>0, <2>2, <3>1, <3>2 DEF Past, Within
  <2> QED
    BY <2>1, <2>2
<1> QED
  BY <1>0, <1>5, <1>6, <1>7, <1>8 DEF L

LEMMA LastIsLast ==
    ASSUME NEW tr \in Traces, NEW s, s.bound \in Nat \cup {NoEnd},
           NEW i \in 1..Len(tr)
    PROVE  IsLast([n \in i..Len(tr) |-> LastWithin(tr, s, i, n)], i, Len(tr))
<1> DEFINE L(n) == LastWithin(tr, s, i, n)
<1>0. Len(tr) \in Nat /\ i \in Nat
  BY Entries
<1>1. \A n \in i..Len(tr) :
        /\ L(n) \in i..n /\ Within(tr, s, i, L(n))
        /\ \A j \in i..n : Within(tr, s, i, j) => j <= L(n)
  BY LastFacts
<1>2. ASSUME NEW m \in i..Len(tr), NEW n \in i..Len(tr), m <= n
      PROVE  L(m) <= L(n) /\ (L(m) < m => L(n) = L(m))
  <2>1. /\ L(m) \in i..m /\ L(n) \in i..n /\ L(m) \in i..n
        /\ Within(tr, s, i, L(m)) /\ Within(tr, s, i, L(n))
    BY <1>0, <1>1, <1>2
  <2>2. L(m) <= L(n)
    BY <1>1, <2>1
  <2>3. ASSUME L(m) < m PROVE L(n) = L(m)
    <3>1. CASE L(n) \in i..m
      BY <1>1, <2>1, <2>2, <3>1
    <3>2. CASE L(n) \notin i..m
      <4>1. ~Within(tr, s, i, m)
        <5>1. m \in i..m
          BY <1>0
        <5> QED
          BY <1>1, <2>1, <2>3, <5>1
      <4>2. m <= L(n)
        BY <1>0, <2>1, <3>2
      <4>3. tr[m].time <= tr[L(n)].time /\ tr[m].time \in Nat
            /\ tr[L(n)].time \in Nat /\ tr[i].time \in Nat
        <5>1. m \in 1..Len(tr) /\ L(n) \in 1..Len(tr)
          BY <1>0, <1>2, <2>1
        <5> QED
          BY <4>2, <5>1, Entries
      <4>4. Within(tr, s, i, m)
        BY <2>1, <4>3 DEF Within
      <4> QED
        BY <4>1, <4>4
    <3> QED
      BY <3>1, <3>2
  <2> QED
    BY <2>2, <2>3
<1> HIDE DEF L
<1>3. \A n \in i..Len(tr) : [k \in i..Len(tr) |-> L(k)][n] = L(n)
  OBVIOUS
<1>4. IsLast([k \in i..Len(tr) |-> L(k)], i, Len(tr))
  BY <1>1, <1>2, <1>3 DEF IsLast
<1> QED
  BY <1>4 DEF L

VerdictByForm(tr, s, i, n) ==
    /\ s.op = "Pure" => Verdict(tr, s, i, n) = IF s.value THEN 1 ELSE -1
    /\ s.op = "Thunk" =>
         Verdict(tr, s, i, n)
             = Verdict(tr, Call(s.function, tr[i].state), i, n)
    /\ s.op = "Not" => Verdict(tr, s, i, n) = -Verdict(tr, s.sub, i, n)
    /\ s.op = "And" =>
         Verdict(tr, s, i, n) =
             Min({Verdict(tr, s.left, i, n), Verdict(tr, s.right, i, n)})
    /\ s.op = "Or" =>
         Verdict(tr, s, i, n) =
             Max({Verdict(tr, s.left, i, n), Verdict(tr, s.right, i, n)})
    /\ s.op = "Implies" =>
         Verdict(tr, s, i, n) =
             Max({-Verdict(tr, s.left, i, n), Verdict(tr, s.right, i, n)})
    /\ s.op = "Next" =>
         Verdict(tr, s, i, n) =
             IF i = n THEN 0 ELSE Verdict(tr, s.sub, i + 1, n)
    /\ s.op = "Always" =>
         Verdict(tr, s, i, n) =
             IF \E j \in i..LastWithin(tr, s, i, n) :
                   Verdict(tr, s.sub, j, LastWithin(tr, s, i, n)) = -1
             THEN -1 ELSE IF LastWithin(tr, s, i, n) < n THEN 1 ELSE 0
    /\ s.op = "Eventually" =>
         Verdict(tr, s, i, n) =
             IF \E j \in i..LastWithin(tr, s, i, n) :
                   Verdict(tr, s.sub, j, LastWithin(tr, s, i, n)) = 1
             THEN 1 ELSE IF LastWithin(tr, s, i, n) < n THEN -1 ELSE 0

LEMMA VerdictForms ==
    ASSUME ReferenceRecursion, NEW tr \in Traces, NEW s \in Syntaxes,
           NEW n \in 1..Len(tr), NEW i \in 1..n
    PROVE  VerdictByForm(tr, s, i, n)
<1>0. Verdict(tr, s, i, n) = VerdictCase(tr, s, i, n)
  BY DEF ReferenceRecursion
<1> USE DEF VerdictByForm
<1>1. CASE s.op = "Pure"
  BY <1>0, <1>1 DEF VerdictCase
<1>2. CASE s.op = "Thunk"
  BY <1>0, <1>2 DEF VerdictCase
<1>3. CASE s.op = "Not"
  BY <1>0, <1>3 DEF VerdictCase
<1>4. CASE s.op = "And"
  BY <1>0, <1>4 DEF VerdictCase
<1>5. CASE s.op = "Or"
  BY <1>0, <1>5 DEF VerdictCase
<1>6. CASE s.op = "Implies"
  BY <1>0, <1>6 DEF VerdictCase
<1>7. CASE s.op = "Next"
  BY <1>0, <1>7 DEF VerdictCase
<1>8. CASE s.op = "Always"
  BY <1>0, <1>8 DEF VerdictCase
<1>9. CASE s.op = "Eventually"
  BY <1>0, <1>9 DEF VerdictCase
<1>10. s.op \in Operators
  BY SyntaxForms
<1> QED
  BY <1>1, <1>2, <1>3, <1>4, <1>5, <1>6, <1>7, <1>8, <1>9, <1>10 DEF Operators

EndByForm(tr, s, sign, i, n) ==
    /\ s.op = "Thunk" =>
         TrueAtEnd(tr, s, sign, i, n)
             = TrueAtEnd(tr, Call(s.function, tr[i].state), sign, i, n)
    /\ s.op = "Not" =>
         TrueAtEnd(tr, s, sign, i, n) = TrueAtEnd(tr, s.sub, ~sign, i, n)
    /\ s.op \notin {"Thunk", "Not"} => TrueAtEnd(tr, s, sign, i, n) \in BOOLEAN
    /\ s.op = "Pure" =>
         TrueAtEnd(tr, s, sign, i, n) = (s.value = sign)
    /\ s.op \in {"And", "Or"} =>
         (TrueAtEnd(tr, s, sign, i, n) <=>
             IF Universal(s, sign)
             THEN /\ TrueAtEnd(tr, s.left, sign, i, n)
                  /\ TrueAtEnd(tr, s.right, sign, i, n)
             ELSE \/ TrueAtEnd(tr, s.left, sign, i, n)
                  \/ TrueAtEnd(tr, s.right, sign, i, n))
    /\ s.op = "Implies" =>
         (TrueAtEnd(tr, s, sign, i, n) <=>
             IF sign
             THEN TrueAtEnd(tr, s.left, TRUE, i, n) =>
                      TrueAtEnd(tr, s.right, TRUE, i, n)
             ELSE /\ TrueAtEnd(tr, s.left, TRUE, i, n)
                  /\ TrueAtEnd(tr, s.right, FALSE, i, n))
    /\ s.op = "Next" =>
         (TrueAtEnd(tr, s, sign, i, n) <=>
             (i < n => TrueAtEnd(tr, s.sub, sign, i + 1, n)))
    /\ s.op \in {"Always", "Eventually"} =>
         (TrueAtEnd(tr, s, sign, i, n) <=>
             IF ~Within(tr, s, i, n)
             THEN Verdict(tr, s, i, n) = IF sign THEN 1 ELSE -1
             ELSE IF Universal(s, sign)
             THEN \A j \in i..n : TrueAtEnd(tr, s.sub, sign, j, n)
             ELSE \E j \in i..n : TrueAtEnd(tr, s.sub, sign, j, n))

LEMMA TrueAtEndForms ==
    ASSUME ReferenceRecursion, NEW tr \in Traces, NEW s \in Syntaxes,
           NEW n \in 1..Len(tr), NEW i \in 1..n, NEW sign \in BOOLEAN
    PROVE  EndByForm(tr, s, sign, i, n)
<1>0. TrueAtEnd(tr, s, sign, i, n) = TrueAtEndCase(tr, s, sign, i, n)
  BY DEF ReferenceRecursion
<1> DEFINE t == TrueAtEnd(tr, s, sign, i, n)
<1> USE DEF EndByForm
<1>1. CASE s.op = "Pure"
  <2>1. t = (s.value = sign)
    BY <1>0, <1>1 DEF TrueAtEndCase
  <2>2. PICK b \in BOOLEAN : b = (s.value = sign)
    OBVIOUS
  <2> QED
    BY <1>1, <2>1, <2>2
<1>2. CASE s.op = "Thunk"
  BY <1>0, <1>2 DEF TrueAtEndCase
<1>3. CASE s.op = "Not"
  BY <1>0, <1>3 DEF TrueAtEndCase
<1>4. CASE s.op = "And"
  <2>1. CASE sign
    <3>1. PICK b \in BOOLEAN : b = (/\ TrueAtEnd(tr, s.left, TRUE, i, n)
                                    /\ TrueAtEnd(tr, s.right, TRUE, i, n))
      OBVIOUS
    <3>2. t = b
      BY <1>0, <1>4, <2>1, <3>1 DEF TrueAtEndCase
    <3>3. Universal(s, sign) /\ sign = TRUE
      BY <1>4, <2>1 DEF Universal
    <3> QED
      BY <1>4, <3>1, <3>2, <3>3
  <2>2. CASE ~sign
    <3>1. PICK b \in BOOLEAN : b = (\/ TrueAtEnd(tr, s.left, FALSE, i, n)
                                    \/ TrueAtEnd(tr, s.right, FALSE, i, n))
      OBVIOUS
    <3>2. t = b
      BY <1>0, <1>4, <2>2, <3>1 DEF TrueAtEndCase
    <3>3. ~Universal(s, sign) /\ sign = FALSE
      BY <1>4, <2>2 DEF Universal
    <3> QED
      BY <1>4, <3>1, <3>2, <3>3
  <2> QED
    BY <2>1, <2>2
<1>5. CASE s.op = "Or"
  <2>1. CASE sign
    <3>1. PICK b \in BOOLEAN : b = (\/ TrueAtEnd(tr, s.left, TRUE, i, n)
                                    \/ TrueAtEnd(tr, s.right, TRUE, i, n))
      OBVIOUS
    <3>2. t = b
      BY <1>0, <1>5, <2>1, <3>1 DEF TrueAtEndCase
    <3>3. ~Universal(s, sign) /\ sign = TRUE
      BY <1>5, <2>1 DEF Universal
    <3> QED
      BY <1>5, <3>1, <3>2, <3>3
  <2>2. CASE ~sign
    <3>1. PICK b \in BOOLEAN : b = (/\ TrueAtEnd(tr, s.left, FALSE, i, n)
                                    /\ TrueAtEnd(tr, s.right, FALSE, i, n))
      OBVIOUS
    <3>2. t = b
      BY <1>0, <1>5, <2>2, <3>1 DEF TrueAtEndCase
    <3>3. Universal(s, sign) /\ sign = FALSE
      BY <1>5, <2>2 DEF Universal
    <3> QED
      BY <1>5, <3>1, <3>2, <3>3
  <2> QED
    BY <2>1, <2>2
<1>6. CASE s.op = "Implies"
  <2>1. CASE sign
    <3>1. PICK b \in BOOLEAN : b = (TrueAtEnd(tr, s.left, TRUE, i, n) =>
                                        TrueAtEnd(tr, s.right, TRUE, i, n))
      OBVIOUS
    <3>2. t = b
      BY <1>0, <1>6, <2>1, <3>1 DEF TrueAtEndCase
    <3> QED
      BY <1>6, <2>1, <3>1, <3>2
  <2>2. CASE ~sign
    <3>1. PICK b \in BOOLEAN : b = (/\ TrueAtEnd(tr, s.left, TRUE, i, n)
                                    /\ TrueAtEnd(tr, s.right, FALSE, i, n))
      OBVIOUS
    <3>2. t = b
      BY <1>0, <1>6, <2>2, <3>1 DEF TrueAtEndCase
    <3> QED
      BY <1>6, <2>2, <3>1, <3>2
  <2> QED
    BY <2>1, <2>2
<1>7. CASE s.op = "Next"
  <2>1. PICK b \in BOOLEAN : b = (i < n => TrueAtEnd(tr, s.sub, sign, i + 1, n))
    OBVIOUS
  <2>2. t = b
    BY <1>0, <1>7, <2>1 DEF TrueAtEndCase
  <2> QED
    BY <1>7, <2>1, <2>2
<1>8. CASE s.op \in {"Always", "Eventually"}
  <2>1. CASE ~Within(tr, s, i, n)
    <3>1. PICK b \in BOOLEAN : b = (Verdict(tr, s, i, n) = IF sign THEN 1 ELSE -1)
      OBVIOUS
    <3>2. t = b
      BY <1>0, <1>8, <2>1, <3>1 DEF TrueAtEndCase
    <3> QED
      BY <1>8, <2>1, <3>1, <3>2
  <2>2. CASE Within(tr, s, i, n)
    <3>1. PICK a \in BOOLEAN, e \in BOOLEAN :
              /\ a = \A j \in i..n : TrueAtEnd(tr, s.sub, sign, j, n)
              /\ e = \E j \in i..n : TrueAtEnd(tr, s.sub, sign, j, n)
      OBVIOUS
    <3>2. t = IF (s.op = "Always") = sign THEN a ELSE e
      BY <1>0, <1>8, <2>2, <3>1 DEF TrueAtEndCase
    <3>3. Universal(s, sign) <=> (s.op = "Always") = sign
      BY <1>8 DEF Universal
    <3> QED
      BY <1>8, <2>2, <3>1, <3>2, <3>3
  <2> QED
    BY <2>1, <2>2
<1>9. s.op \in Operators
  BY SyntaxForms
<1> QED
  BY <1>1, <1>2, <1>3, <1>4, <1>5, <1>6, <1>7, <1>8, <1>9
     DEF Operators

(***************************************************************************)
(* The signal of a syntax, or of its negation, at a position: what the     *)
(* reference says of it there as the trace grows.  The value the evaluator *)
(* has there is faithful when it follows that signal.                      *)
(***************************************************************************)
Signal(tr, s, sign, i) ==
    [known |-> [n \in i..Len(tr) |-> IF sign THEN Verdict(tr, s, i, n)
                                             ELSE -Verdict(tr, s, i, n)],
     ends  |-> [n \in i..Len(tr) |-> TrueAtEnd(tr, s, sign, i, n)]]

Faithful(tr, s, sign, i) ==
    /\ IsSignal(Signal(tr, s, sign, i), i, Len(tr))
    /\ Follows(ValueIn(s, sign, tr[i].state, tr[i].time),
               Signal(tr, s, sign, i), i, tr)

LEMMA SignalValues ==
    ASSUME NEW tr, NEW s, NEW sign \in BOOLEAN, NEW i,
           NEW x, x = Signal(tr, s, sign, i)
    PROVE  \A n \in i..Len(tr) :
             /\ sign => x.known[n] = Verdict(tr, s, i, n)
             /\ ~sign => x.known[n] = -Verdict(tr, s, i, n)
             /\ x.ends[n] = TrueAtEnd(tr, s, sign, i, n)
<1>1. x.known = [n \in i..Len(tr) |-> IF sign THEN Verdict(tr, s, i, n)
                                              ELSE -Verdict(tr, s, i, n)]
  BY DEF Signal
<1>2. x.ends = [n \in i..Len(tr) |-> TrueAtEnd(tr, s, sign, i, n)]
  BY DEF Signal
<1> QED
  BY <1>1, <1>2

LEMMA VerdictOfSignal ==
    ASSUME NEW tr, NEW s, NEW i, IsSignal(Signal(tr, s, TRUE, i), i, Len(tr))
    PROVE  \A n \in i..Len(tr) : Verdict(tr, s, i, n) \in {-1, 0, 1}
<1> DEFINE x == Signal(tr, s, TRUE, i)
<1>1. \A n \in i..Len(tr) : x.known[n] = Verdict(tr, s, i, n)
  <2>1. x.known = [n \in i..Len(tr) |-> IF TRUE THEN Verdict(tr, s, i, n)
                                               ELSE -Verdict(tr, s, i, n)]
    BY DEF Signal
  <2> HIDE DEF x
  <2> QED
    BY <2>1
<1> HIDE DEF x
<1>2. IsSignal(x, i, Len(tr))
  BY DEF x
<1> QED
  BY <1>1, <1>2 DEF IsSignal

LEMMA JoinedIsSignal ==
    ASSUME NEW op \in {"And", "Or", "Implies"}, NEW g, NEW h, NEW x,
           NEW first \in Nat, NEW last \in Nat,
           IsSignal(g, first, last), IsSignal(h, first, last),
           \A n \in first..last :
               /\ x.known[n] \in {-1, 0, 1} /\ x.ends[n] \in BOOLEAN
               /\ Joined(op, g, h, x, n)
    PROVE  Joint(op, g, h, x, first, last)
<1>1. \A n \in first..last :
        /\ g.known[n] \in {-1, 0, 1} /\ h.known[n] \in {-1, 0, 1}
        /\ g.known[n] = 1 => g.ends[n]
        /\ g.known[n] = -1 => ~g.ends[n]
        /\ h.known[n] = 1 => h.ends[n]
        /\ h.known[n] = -1 => ~h.ends[n]
  BY DEF IsSignal
<1>2. \A m, n \in first..last : m <= n =>
        /\ g.known[m] # 0 => g.known[n] = g.known[m]
        /\ h.known[m] # 0 => h.known[n] = h.known[m]
  BY DEF IsSignal
<1>3. \A n \in first..last :
        /\ x.known[n] = 1 => x.ends[n]
        /\ x.known[n] = -1 => ~x.ends[n]
  <2> SUFFICES ASSUME NEW n \in first..last
               PROVE  /\ x.known[n] = 1 => x.ends[n]
                      /\ x.known[n] = -1 => ~x.ends[n]
    OBVIOUS
  <2> QED
    BY <1>1 DEF Joined
<1>4. \A m, n \in first..last :
        m <= n /\ x.known[m] # 0 => x.known[n] = x.known[m]
  <2> SUFFICES ASSUME NEW m \in first..last, NEW n \in first..last,
                      m <= n, x.known[m] # 0
               PROVE  x.known[n] = x.known[m]
    OBVIOUS
  <2>1. Joined(op, g, h, x, m) /\ Joined(op, g, h, x, n)
        /\ x.known[m] \in {-1, 0, 1} /\ x.known[n] \in {-1, 0, 1}
    OBVIOUS
  <2>2. /\ g.known[m] # 0 => g.known[n] = g.known[m]
        /\ h.known[m] # 0 => h.known[n] = h.known[m]
    BY <1>2
  <2>3. CASE op = "And"
    BY <2>1, <2>2, <2>3 DEF Joined
  <2>4. CASE op = "Or"
    BY <2>1, <2>2, <2>4 DEF Joined
  <2>5. CASE op = "Implies"
    BY <2>1, <2>2, <2>5 DEF Joined
  <2> QED
    BY <2>3, <2>4, <2>5
<1>5. IsSignal(x, first, last)
  BY <1>3, <1>4 DEF IsSignal
<1> QED
  BY <1>5 DEF Joint

LEMMA PureFaithful ==
    ASSUME Recursive, NEW tr \in Traces, NEW s \in Syntaxes,
           NEW sign \in BOOLEAN, NEW i \in 1..Len(tr), s.op = "Pure"
    PROVE  Faithful(tr, s, sign, i)
<1> DEFINE x == Signal(tr, s, sign, i)
<1>1. Len(tr) \in Nat
  BY Entries
<1>2. \A n \in i..Len(tr) : n \in 1..Len(tr) /\ i \in 1..n
  BY <1>1
<1>3. s.value \in BOOLEAN
  BY SyntaxForms
<1>4. \A n \in i..Len(tr) : Verdict(tr, s, i, n) = IF s.value THEN 1 ELSE -1
  BY <1>2, VerdictForms DEF Recursive, VerdictByForm
<1>5. \A n \in i..Len(tr) : /\ TrueAtEnd(tr, s, sign, i, n) \in BOOLEAN
                            /\ TrueAtEnd(tr, s, sign, i, n) <=> s.value = sign
  <2> SUFFICES ASSUME NEW n \in i..Len(tr)
               PROVE  /\ TrueAtEnd(tr, s, sign, i, n) \in BOOLEAN
                      /\ TrueAtEnd(tr, s, sign, i, n) <=> s.value = sign
    OBVIOUS
  <2>1. n \in 1..Len(tr) /\ i \in 1..n /\ s.op \notin {"Thunk", "Not"}
    BY <1>2
  <2>2. ReferenceRecursion
    BY DEF Recursive
  <2>3. EndByForm(tr, s, sign, i, n)
    BY <2>1, <2>2, TrueAtEndForms
  <2> QED
    BY <2>1, <2>3 DEF EndByForm
<1>6. \A n \in i..Len(tr) :
        /\ sign => x.known[n] = Verdict(tr, s, i, n)
        /\ ~sign => x.known[n] = -Verdict(tr, s, i, n)
        /\ x.ends[n] = TrueAtEnd(tr, s, sign, i, n)
  BY SignalValues
<1> HIDE DEF x
<1>7. \A n \in i..Len(tr) :
        /\ x.known[n] = IF s.value = sign THEN 1 ELSE -1
        /\ x.ends[n] \in BOOLEAN
        /\ x.ends[n] <=> s.value = sign
  BY <1>3, <1>4, <1>5, <1>6
<1>8. IsSignal(x, i, Len(tr))
  BY <1>7 DEF IsSignal
<1>9. ValueIn(s, sign, tr[i].state, tr[i].time) =
          IF s.value = sign THEN TrueValue
          ELSE FalseValue(FalseAt(tr[i].time), <<>>)
  BY ValueOfForms, Entries DEF Recursive
<1>10. i \in i..Len(tr)
  BY <1>1
<1>11. Follows(ValueIn(s, sign, tr[i].state, tr[i].time), x, i, tr)
  <2>1. CASE s.value = sign
    BY <1>7, <1>9, <1>10, <2>1, Settled
  <2>2. CASE s.value # sign
    BY <1>7, <1>9, <1>10, <2>2, Settled
  <2> QED
    BY <2>1, <2>2
<1> QED
  BY <1>8, <1>11 DEF Faithful, x

LEMMA SignalsAlike ==
    ASSUME NEW tr, NEW s, NEW sign, NEW t, NEW other, NEW i,
           \A n \in i..Len(tr) :
               /\ (IF sign THEN Verdict(tr, s, i, n) ELSE -Verdict(tr, s, i, n))
                    = IF other THEN Verdict(tr, t, i, n) ELSE -Verdict(tr, t, i, n)
               /\ TrueAtEnd(tr, s, sign, i, n) = TrueAtEnd(tr, t, other, i, n)
    PROVE  Signal(tr, s, sign, i) = Signal(tr, t, other, i)
BY DEF Signal

LEMMA ThunkFaithful ==
    ASSUME Recursive, NEW tr \in Traces, NEW s \in Syntaxes,
           NEW sign \in BOOLEAN, NEW i \in 1..Len(tr), s.op = "Thunk",
           \A t \in Syntaxes : Depth(t) < Depth(s) => Faithful(tr, t, sign, i)
    PROVE  Faithful(tr, s, sign, i)
<1> DEFINE t == Call(s.function, tr[i].state)
<1>1. Len(tr) \in Nat /\ tr[i].state \in States /\ tr[i].time \in Nat
  BY Entries
<1>2. \A n \in i..Len(tr) : n \in 1..Len(tr) /\ i \in 1..n
  BY <1>1
<1>3. t \in Syntaxes /\ Depth(t) < Depth(s)
  BY <1>1, SyntaxForms
<1>4. \A n \in i..Len(tr) : Verdict(tr, s, i, n) = Verdict(tr, t, i, n)
  BY <1>2, VerdictForms DEF Recursive, VerdictByForm
<1>5. \A n \in i..Len(tr) : TrueAtEnd(tr, s, sign, i, n) = TrueAtEnd(tr, t, sign, i, n)
  <2>1. \A n \in i..Len(tr) : EndByForm(tr, s, sign, i, n)
    BY <1>2, TrueAtEndForms DEF Recursive
  <2> QED
    BY <2>1 DEF EndByForm
<1>6. ValueIn(s, sign, tr[i].state, tr[i].time)
          = ValueIn(t, sign, tr[i].state, tr[i].time)
  BY <1>1, ValueOfForms DEF Recursive
<1> HIDE DEF t
<1>7. Signal(tr, s, sign, i) = Signal(tr, t, sign, i)
  BY <1>4, <1>5, SignalsAlike
<1>8. Faithful(tr, t, sign, i)
  BY <1>3
<1> QED
  BY <1>6, <1>7, <1>8 DEF Faithful

LEMMA NotFaithful ==
    ASSUME Recursive, NEW tr \in Traces, NEW s \in Syntaxes,
           NEW sign \in BOOLEAN, NEW i \in 1..Len(tr), s.op = "Not",
           \A either \in BOOLEAN : Faithful(tr, s.sub, either, i)
    PROVE  Faithful(tr, s, sign, i)
<1>1. Len(tr) \in Nat /\ tr[i].state \in States /\ tr[i].time \in Nat
  BY Entries
<1>2. \A n \in i..Len(tr) : n \in 1..Len(tr) /\ i \in 1..n
  BY <1>1
<1>3. \A n \in i..Len(tr) : Verdict(tr, s, i, n) = -Verdict(tr, s.sub, i, n)
  BY <1>2, VerdictForms DEF Recursive, VerdictByForm
<1>4. \A n \in i..Len(tr) :
        TrueAtEnd(tr, s, sign, i, n) = TrueAtEnd(tr, s.sub, ~sign, i, n)
  <2>1. \A n \in i..Len(tr) : EndByForm(tr, s, sign, i, n)
    BY <1>2, TrueAtEndForms DEF Recursive
  <2> QED
    BY <2>1 DEF EndByForm
<1>5. \A n \in i..Len(tr) : Verdict(tr, s.sub, i, n) \in {-1, 0, 1}
  <2>1. IsSignal(Signal(tr, s.sub, TRUE, i), i, Len(tr))
    BY DEF Faithful
  <2> QED
    BY <2>1, VerdictOfSignal
<1>6. ValueIn(s, sign, tr[i].state, tr[i].time)
          = ValueIn(s.sub, ~sign, tr[i].state, tr[i].time)
  BY <1>1, ValueOfForms DEF Recursive
<1>7. PICK other \in BOOLEAN : other = ~sign
  OBVIOUS
<1>8. \A n \in i..Len(tr) :
        (IF sign THEN Verdict(tr, s, i, n) ELSE -Verdict(tr, s, i, n)) =
            IF other THEN Verdict(tr, s.sub, i, n) ELSE -Verdict(tr, s.sub, i, n)
  <2>1. \A v \in {-1, 0, 1} : -(-v) = v
    OBVIOUS
  <2>2. \A n \in i..Len(tr) : -(-Verdict(tr, s.sub, i, n)) = Verdict(tr, s.sub, i, n)
    BY <1>5, <2>1
  <2>3. CASE sign
    BY <1>3, <1>7, <2>3
  <2>4. CASE ~sign
    BY <1>3, <1>7, <2>2, <2>4
  <2> QED
    BY <2>3, <2>4
<1>9. Signal(tr, s, sign, i) = Signal(tr, s.sub, other, i)
  BY <1>4, <1>7, <1>8, SignalsAlike
<1>10. Faithful(tr, s.sub, other, i)
  OBVIOUS
<1> QED
  BY <1>6, <1>7, <1>9, <1>10 DEF Faithful

\* How a connective joins its sides: negated or not, the right side keeps the
\* sign, and the left side of an implication is never negated.
JoinOf(s, sign) ==
    IF s.op = "Implies" THEN IF sign THEN "Implies" ELSE "And"
    ELSE IF Universal(s, sign) THEN "And" ELSE "Or"
LeftSign(s, sign) == s.op = "Implies" \/ sign

LEMMA ConnectiveJoined ==
    ASSUME Recursive, NEW tr \in Traces, NEW s \in Syntaxes,
           NEW sign \in BOOLEAN, NEW i \in 1..Len(tr),
           s.op \in {"And", "Or", "Implies"},
           IsSignal(Signal(tr, s.left, TRUE, i), i, Len(tr)),
           IsSignal(Signal(tr, s.right, TRUE, i), i, Len(tr)),
           NEW g, g = Signal(tr, s.left, LeftSign(s, sign), i),
           NEW h, h = Signal(tr, s.right, sign, i),
           NEW x, x = Signal(tr, s, sign, i)
    PROVE  \A n \in i..Len(tr) :
               /\ x.known[n] \in {-1, 0, 1} /\ x.ends[n] \in BOOLEAN
               /\ Joined(JoinOf(s, sign), g, h, x, n)
<1> SUFFICES ASSUME NEW n \in i..Len(tr)
             PROVE  /\ x.known[n] \in {-1, 0, 1} /\ x.ends[n] \in BOOLEAN
                    /\ Joined(JoinOf(s, sign), g, h, x, n)
  OBVIOUS
<1> DEFINE a == Verdict(tr, s.left, i, n)
           b == Verdict(tr, s.right, i, n)
           c == Verdict(tr, s, i, n)
           t == TrueAtEnd(tr, s, sign, i, n)
           l == TrueAtEnd(tr, s.left, LeftSign(s, sign), i, n)
           r == TrueAtEnd(tr, s.right, sign, i, n)
<1>1. Len(tr) \in Nat
  BY Entries
<1>2. n \in 1..Len(tr) /\ i \in 1..n /\ n \in i..Len(tr)
  BY <1>1
<1>3. a \in {-1, 0, 1} /\ b \in {-1, 0, 1}
  BY <1>2, VerdictOfSignal
<1>4. -a \in {-1, 0, 1}
  BY <1>3
<1>5. EndByForm(tr, s, sign, i, n)
  BY <1>2, TrueAtEndForms DEF Recursive
<1>6. LeftSign(s, sign) \in BOOLEAN
  BY DEF LeftSign
<1>7. /\ LeftSign(s, sign) => g.known[n] = a
      /\ ~LeftSign(s, sign) => g.known[n] = -a
      /\ g.ends[n] = l
  BY <1>2, <1>6, SignalValues
<1>8. /\ sign => h.known[n] = b /\ x.known[n] = c
      /\ ~sign => h.known[n] = -b /\ x.known[n] = -c
      /\ h.ends[n] = r /\ x.ends[n] = t
  BY <1>2, SignalValues
<1>9. CASE s.op = "Implies"
  <2>1. c = Max({-a, b})
    <3>1. VerdictByForm(tr, s, i, n)
      BY <1>2, VerdictForms DEF Recursive
    <3> QED
      BY <1>9, <3>1 DEF VerdictByForm
  <2>2. c = IF -a >= b THEN -a ELSE b
    <3> HIDE DEF a, b, c
    <3> QED
      BY <1>3, <1>4, <2>1, PairBounds
  <2>3. LeftSign(s, sign) = TRUE
    BY <1>9 DEF LeftSign
  <2>4. t \in BOOLEAN /\ (t <=> IF sign THEN l => r ELSE l /\ r)
    BY <1>5, <1>9, <2>3 DEF EndByForm
  <2> HIDE DEF a, b, c, t, l, r
  <2>5. g.known[n] = a /\ g.ends[n] = l
    BY <1>7, <2>3
  <2>6. CASE sign
    <3>1. JoinOf(s, sign) = "Implies"
      BY <1>9, <2>6 DEF JoinOf
    <3>2. x.ends[n] \in BOOLEAN /\ (x.ends[n] <=> (g.ends[n] => h.ends[n]))
      BY <1>8, <2>4, <2>5, <2>6
    <3>3. x.known[n] = c /\ h.known[n] = b
      BY <1>8, <2>6
    <3>4. x.known[n] \in {-1, 0, 1}
      BY <1>3, <2>2, <3>3
    <3>5. /\ x.known[n] = 1 <=> g.known[n] = -1 \/ h.known[n] = 1
          /\ x.known[n] = -1 <=> g.known[n] = 1 /\ h.known[n] = -1
      BY <1>3, <2>2, <2>5, <3>3
    <3> QED
      BY <3>1, <3>2, <3>4, <3>5 DEF Joined
  <2>7. CASE ~sign
    <3>1. JoinOf(s, sign) = "And"
      BY <1>9, <2>7 DEF JoinOf
    <3> QED
      BY <1>3, <1>8, <2>2, <2>4, <2>5, <2>7, <3>1 DEF Joined
  <2> QED
    BY <2>6, <2>7
<1>10. CASE s.op \in {"And", "Or"}
  <2>1. c = IF s.op = "And" THEN Min({a, b}) ELSE Max({a, b})
    BY <1>2, <1>10, VerdictForms DEF Recursive, VerdictByForm
  <2>2. c = IF s.op = "And" THEN IF a <= b THEN a ELSE b
            ELSE IF a >= b THEN a ELSE b
    <3> HIDE DEF a, b, c
    <3> QED
      BY <1>3, <2>1, PairBounds
  <2>3. LeftSign(s, sign) = sign
    BY <1>10 DEF LeftSign
  <2>4. t \in BOOLEAN /\ (t <=> IF Universal(s, sign) THEN l /\ r ELSE l \/ r)
    BY <1>5, <1>10, <2>3 DEF EndByForm
  <2>5. Universal(s, sign) <=> (s.op = "And") = sign
    BY <1>10 DEF Universal
  <2> HIDE DEF a, b, c, t, l, r
  <2> QED
    BY <1>3, <1>7, <1>8, <1>10, <2>2, <2>3, <2>4, <2>5 DEF Joined, JoinOf
<1> QED
  BY <1>9, <1>10

LEMMA ConnectiveFaithful ==
    ASSUME Recursive, NEW tr \in Traces, NEW s \in Syntaxes,
           NEW sign \in BOOLEAN, NEW i \in 1..Len(tr),
           s.op \in {"And", "Or", "Implies"},
           \A either \in BOOLEAN :
               Faithful(tr, s.left, either, i) /\ Faithful(tr, s.right, either, i)
    PROVE  Faithful(tr, s, sign, i)
<1> DEFINE g == Signal(tr, s.left, LeftSign(s, sign), i)
           h == Signal(tr, s.right, sign, i)
           x == Signal(tr, s, sign, i)
           v == ValueIn(s.left, LeftSign(s, sign), tr[i].state, tr[i].time)
           w == ValueIn(s.right, sign, tr[i].state, tr[i].time)
           op == JoinOf(s, sign)
<1>1. /\ Len(tr) \in Nat /\ tr[i].state \in States /\ tr[i].time \in Nat
      /\ i \in Nat /\ i \in i..Len(tr)
  <2>1. Len(tr) \in Nat
    BY Entries
  <2> QED
    BY <2>1, Entries
<1>2. ResidualRecursion /\ SyntaxRecursion
  BY DEF Recursive
<1>3. LeftSign(s, sign) \in BOOLEAN /\ TRUE \in BOOLEAN
  BY DEF LeftSign
<1>4. /\ IsSignal(g, i, Len(tr)) /\ Follows(v, g, i, tr)
      /\ IsSignal(h, i, Len(tr)) /\ Follows(w, h, i, tr)
  BY <1>3 DEF Faithful
<1>5. /\ IsSignal(Signal(tr, s.left, TRUE, i), i, Len(tr))
      /\ IsSignal(Signal(tr, s.right, TRUE, i), i, Len(tr))
  BY <1>3 DEF Faithful
<1>6. \A n \in i..Len(tr) :
          /\ x.known[n] \in {-1, 0, 1} /\ x.ends[n] \in BOOLEAN
          /\ Joined(op, g, h, x, n)
  <2>1. /\ g = Signal(tr, s.left, LeftSign(s, sign), i)
        /\ h = Signal(tr, s.right, sign, i) /\ x = Signal(tr, s, sign, i)
    OBVIOUS
  <2> HIDE DEF g, h, x
  <2> QED
    BY <1>5, <2>1, ConnectiveJoined
<1>7. op \in {"And", "Or", "Implies"}
  BY DEF JoinOf
<1>8. ValueIn(s, sign, tr[i].state, tr[i].time) =
          IF op = "And" THEN EvaluateAnd(v, w)
          ELSE IF op = "Or" THEN EvaluateOr(v, w) ELSE EvaluateImplies(v, w)
  <2>1. CASE s.op = "Implies"
    <3>1. LeftSign(s, sign) = TRUE /\ op = IF sign THEN "Implies" ELSE "And"
      BY <2>1 DEF LeftSign, JoinOf
    <3>2. v = ValueIn(s.left, TRUE, tr[i].state, tr[i].time)
      BY <3>1
    <3>3. CASE sign
      <4>1. sign = TRUE /\ op = "Implies"
        BY <3>1, <3>3
      <4>2. w = ValueIn(s.right, TRUE, tr[i].state, tr[i].time)
        BY <4>1
      <4> HIDE DEF v, w, op
      <4> QED
        BY <1>1, <1>2, <2>1, <3>2, <3>3, <4>1, <4>2, ValueOfForms
    <3>4. CASE ~sign
      <4>1. sign = FALSE /\ op = "And"
        BY <3>1, <3>4
      <4>2. w = ValueIn(s.right, FALSE, tr[i].state, tr[i].time)
        BY <4>1
      <4> HIDE DEF v, w, op
      <4> QED
        BY <1>1, <1>2, <2>1, <3>2, <3>4, <4>1, <4>2, ValueOfForms
    <3> QED
      BY <3>3, <3>4
  <2>2. CASE s.op \in {"And", "Or"}
    <3>1. LeftSign(s, sign) = sign /\ op = IF Universal(s, sign) THEN "And" ELSE "Or"
      BY <2>2 DEF LeftSign, JoinOf
    <3>2. v = ValueIn(s.left, sign, tr[i].state, tr[i].time)
      BY <3>1
    <3> HIDE DEF v, op
    <3> QED
      BY <1>1, <1>2, <2>2, <3>1, <3>2, ValueOfForms
  <2> QED
    BY <2>1, <2>2
<1> HIDE DEF g, h, x, v, w, op
<1>9. Joint(op, g, h, x, i, Len(tr))
  BY <1>1, <1>4, <1>6, <1>7, JoinedIsSignal
<1>10. Keeps(op, g, h, x, i, tr)
  BY <1>1, <1>2, <1>7, <1>9, CombinedStands
<1>11. Follows(ValueIn(s, sign, tr[i].state, tr[i].time), x, i, tr)
  <2>1. CASE op = "And"
    BY <1>2, <1>4, <1>8, <1>9, <1>10, <2>1, AndFollows
  <2>2. CASE op = "Or"
    BY <1>2, <1>4, <1>8, <1>9, <1>10, <2>2, OrFollows
  <2>3. CASE op = "Implies"
    BY <1>2, <1>4, <1>8, <1>9, <1>10, <2>3, ImpliesFollows
  <2> QED
    BY <1>7, <2>1, <2>2, <2>3
<1> QED
  BY <1>9, <1>11 DEF Faithful, Joint, x

LEMMA AgreeIsSignal ==
    ASSUME NEW g, NEW x, NEW first, NEW last, IsSignal(g, first, last),
           Agree(g, x, first, last), \A n \in first..last : x.ends[n] \in BOOLEAN
    PROVE  IsSignal(x, first, last)
BY DEF IsSignal, Agree

LEMMA NextFaithful ==
    ASSUME Recursive, NEW tr \in Traces, NEW s \in Syntaxes,
           NEW sign \in BOOLEAN, NEW i \in 1..Len(tr), s.op = "Next",
           \A j \in 1..Len(tr) : Faithful(tr, s.sub, sign, j)
    PROVE  Faithful(tr, s, sign, i)
<1> DEFINE x == Signal(tr, s, sign, i)
           g == Signal(tr, s.sub, sign, i + 1)
           f == Formula(s.sub, sign)
<1>1. /\ tr \in Seq([time : Nat, state : States]) /\ Len(tr) \in Nat
      /\ tr[i].state \in States /\ tr[i].time \in Nat
  BY Entries
<1>2. /\ i \in Nat /\ i \in i..Len(tr) /\ i \in 1..i /\ i \in 0..Len(tr)
      /\ \A n \in i..Len(tr) : n \in 1..Len(tr) /\ i \in 1..n
      /\ \A n \in i..Len(tr) : n # i => n \in (i + 1)..Len(tr) /\ i < n
      /\ \A n \in (i + 1)..Len(tr) : n \in i..Len(tr) /\ n # i /\ i < n
      /\ i < Len(tr) => i + 1 \in 1..Len(tr)
  BY <1>1
<1>3. ResidualRecursion /\ SyntaxRecursion /\ ReferenceRecursion
  BY DEF Recursive
<1>4. \A n \in i..Len(tr) :
        /\ Verdict(tr, s, i, n) = IF i = n THEN 0 ELSE Verdict(tr, s.sub, i + 1, n)
        /\ TrueAtEnd(tr, s, sign, i, n) \in BOOLEAN
        /\ TrueAtEnd(tr, s, sign, i, n) <=>
               (i < n => TrueAtEnd(tr, s.sub, sign, i + 1, n))
  <2> SUFFICES ASSUME NEW n \in i..Len(tr)
               PROVE  /\ Verdict(tr, s, i, n) =
                             IF i = n THEN 0 ELSE Verdict(tr, s.sub, i + 1, n)
                      /\ TrueAtEnd(tr, s, sign, i, n) \in BOOLEAN
                      /\ TrueAtEnd(tr, s, sign, i, n) <=>
                             (i < n => TrueAtEnd(tr, s.sub, sign, i + 1, n))
    OBVIOUS
  <2>1. EndByForm(tr, s, sign, i, n)
    BY <1>2, <1>3, TrueAtEndForms
  <2>2. VerdictByForm(tr, s, i, n)
    BY <1>2, <1>3, VerdictForms
  <2> QED
    BY <2>1, <2>2 DEF EndByForm, VerdictByForm
<1>5. /\ \A n \in i..Len(tr) :
           /\ sign => x.known[n] = Verdict(tr, s, i, n)
           /\ ~sign => x.known[n] = -Verdict(tr, s, i, n)
           /\ x.ends[n] = TrueAtEnd(tr, s, sign, i, n)
      /\ \A n \in (i + 1)..Len(tr) :
           /\ sign => g.known[n] = Verdict(tr, s.sub, i + 1, n)
           /\ ~sign => g.known[n] = -Verdict(tr, s.sub, i + 1, n)
           /\ g.ends[n] = TrueAtEnd(tr, s.sub, sign, i + 1, n)
  BY SignalValues
<1>6. \A n \in (i + 1)..Len(tr) : i + 1 \in 1..Len(tr)
  BY <1>1, <1>2
<1>7. IsSignal(g, i + 1, Len(tr))
  <2>1. CASE i < Len(tr)
    BY <1>2, <2>1 DEF Faithful
  <2>2. CASE ~(i < Len(tr))
    <3>1. (i + 1)..Len(tr) = {}
      BY <1>1, <1>2, <2>2
    <3> QED
      BY <3>1 DEF IsSignal
  <2> QED
    BY <2>1, <2>2
<1> HIDE DEF x, g
<1>8. x.known[i] = 0 /\ x.ends[i] \in BOOLEAN /\ x.ends[i]
  <2>1. Verdict(tr, s, i, i) = 0 /\ TrueAtEnd(tr, s, sign, i, i)
        /\ TrueAtEnd(tr, s, sign, i, i) \in BOOLEAN
    BY <1>2, <1>4
  <2>2. x.ends[i] = TrueAtEnd(tr, s, sign, i, i)
    BY <1>2, <1>5
  <2>3. x.known[i] = 0
    BY <1>2, <1>5, <2>1
  <2> QED
    BY <2>1, <2>2, <2>3
<1>9. \A n \in (i + 1)..Len(tr) :
        /\ x.known[n] = g.known[n] /\ x.ends[n] \in BOOLEAN
        /\ x.ends[n] <=> g.ends[n]
  BY <1>2, <1>4, <1>5
<1>10. IsSignal(x, i, Len(tr))
  <2>1. \A n \in i..Len(tr) : n = i \/ n \in (i + 1)..Len(tr)
    BY <1>2
  <2>2. \A n \in (i + 1)..Len(tr) :
          /\ x.known[n] \in {-1, 0, 1} /\ x.ends[n] \in BOOLEAN
          /\ x.known[n] = 1 => x.ends[n]
          /\ x.known[n] = -1 => ~x.ends[n]
    BY <1>7, <1>9 DEF IsSignal
  <2>3. \A m, n \in (i + 1)..Len(tr) :
          m <= n /\ x.known[m] # 0 => x.known[n] = x.known[m]
    BY <1>7, <1>9 DEF IsSignal
  <2>4. \A m \in (i + 1)..Len(tr) : ~(m <= i)
    BY <1>1, <1>2
  <2>5. \A n \in i..Len(tr) :
          /\ x.known[n] \in {-1, 0, 1} /\ x.ends[n] \in BOOLEAN
          /\ x.known[n] = 1 => x.ends[n]
          /\ x.known[n] = -1 => ~x.ends[n]
    <3> SUFFICES ASSUME NEW n \in i..Len(tr)
                 PROVE  /\ x.known[n] \in {-1, 0, 1} /\ x.ends[n] \in BOOLEAN
                        /\ x.known[n] = 1 => x.ends[n]
                        /\ x.known[n] = -1 => ~x.ends[n]
      OBVIOUS
    <3>1. CASE n = i
      <4>1. x.known[i] \in {-1, 0, 1} /\ x.known[i] # 1 /\ x.known[i] # -1
        BY <1>8
      <4> QED
        BY <1>8, <3>1, <4>1, Zenon
    <3>2. CASE n \in (i + 1)..Len(tr)
      BY <2>2, <3>2
    <3> QED
      BY <2>1, <3>1, <3>2
  <2>6. ASSUME NEW m \in i..Len(tr), NEW n \in i..Len(tr), m <= n, x.known[m] # 0
        PROVE  x.known[n] = x.known[m]
    <3>1. m \in (i + 1)..Len(tr)
      BY <1>8, <2>1, <2>6
    <3>2. n \in (i + 1)..Len(tr)
      BY <2>1, <2>4, <2>6, <3>1
    <3> QED
      BY <2>3, <2>6, <3>1, <3>2
  <2> QED
    BY <2>5, <2>6 DEF IsSignal
<1>11. ASSUME i < Len(tr)
       PROVE  Follows(StepAt(Once(f), tr, i + 1), x, i + 1, tr)
  <2>1. StepAt(Once(f), tr, i + 1)
            = ValueIn(s.sub, sign, tr[i + 1].state, tr[i + 1].time)
    BY <1>2, <1>3, <1>11, StepAtForms DEF ValueIn
  <2>2. Follows(StepAt(Once(f), tr, i + 1), g, i + 1, tr)
    BY <1>2, <1>11, <2>1 DEF Faithful, g
  <2>3. Agree(g, x, i + 1, Len(tr))
    BY <1>9 DEF Agree
  <2> QED
    BY <1>2, <1>11, <2>2, <2>3, FollowsAlike
<1>12. Stands(Once(f), x, i, tr)
  <2>1. Behaves(Once(f), x, i, tr)
    BY <1>1, <1>2, <1>11, Unrolled
  <2>2. StopDefault(Once(f))
    BY <1>3, DefaultOfForms
  <2> QED
    BY <1>8, <2>1, <2>2 DEF Stands
<1>13. ValueIn(s, sign, tr[i].state, tr[i].time) = Pending(Once(f))
  BY <1>1, <1>3, ValueOfForms
<1>14. Follows(ValueIn(s, sign, tr[i].state, tr[i].time), x, i, tr)
  BY <1>8, <1>12, <1>13, Settled
<1> QED
  BY <1>10, <1>14 DEF Faithful, x

\* What an Always or an Eventually watches: its subformula at each position,
\* and how far its end lets it look.
FamilyOf(tr, s, sign, i) == [j \in i..Len(tr) |-> Signal(tr, s.sub, sign, j)]
LastsOf(tr, s, i) == [n \in i..Len(tr) |-> LastWithin(tr, s, i, n)]

LEMMA TemporalWatched ==
    ASSUME NEW tr \in Traces, NEW s \in Syntaxes, s.op \in {"Always", "Eventually"},
           NEW sign \in BOOLEAN, NEW i \in 1..Len(tr),
           \A j \in 1..Len(tr) : Faithful(tr, s.sub, sign, j)
    PROVE  Watched(tr, i, Formula(s.sub, sign), EndOf(s.bound, tr[i].time),
                   FamilyOf(tr, s, sign, i), LastsOf(tr, s, i))
<1> DEFINE family == FamilyOf(tr, s, sign, i)
           last == LastsOf(tr, s, i)
<1>1. Len(tr) \in Nat /\ i \in Nat
  BY Entries
<1>2. s.bound \in Nat \cup {NoEnd}
  BY SyntaxForms
<1>3. IsLast(last, i, Len(tr))
  BY <1>2, LastIsLast DEF LastsOf
<1>4. \A j \in i..Len(tr) : j \in 1..Len(tr) /\ family[j] = Signal(tr, s.sub, sign, j)
  BY <1>1 DEF FamilyOf
<1>5. IsFamily(family, i, Len(tr))
  <2>1. \A j \in i..Len(tr) : IsSignal(Signal(tr, s.sub, sign, j), j, Len(tr))
    BY <1>4 DEF Faithful
  <2> HIDE DEF family
  <2> QED
    BY <1>4, <2>1 DEF IsFamily
<1>6. \A n \in i..Len(tr) : Past(EndOf(s.bound, tr[i].time), tr[n].time) <=> last[n] < n
  <2>1. \A n \in i..Len(tr) : Past(EndOf(s.bound, tr[i].time), tr[n].time)
                                  <=> LastWithin(tr, s, i, n) < n
    BY <1>2, LastFacts
  <2>2. \A n \in i..Len(tr) : last[n] = LastWithin(tr, s, i, n)
    BY DEF LastsOf
  <2> QED
    BY <2>1, <2>2
<1>7. \A j \in i..Len(tr) :
        Follows(Evaluate(Formula(s.sub, sign), tr[j].state, tr[j].time),
                family[j], j, tr)
  <2>1. \A j \in i..Len(tr) :
          Follows(Evaluate(Formula(s.sub, sign), tr[j].state, tr[j].time),
                  Signal(tr, s.sub, sign, j), j, tr)
    BY <1>4 DEF Faithful, ValueIn
  <2> HIDE DEF family
  <2> QED
    BY <1>4, <2>1
<1> QED
  BY <1>3, <1>5, <1>6, <1>7 DEF Watched

LEMMA TemporalAgrees ==
    ASSUME Recursive, NEW tr \in Traces, NEW s \in Syntaxes,
           s.op \in {"Always", "Eventually"},
           NEW sign \in BOOLEAN, NEW i \in 1..Len(tr),
           \A j \in 1..Len(tr) : Faithful(tr, s.sub, TRUE, j),
           NEW family, family = FamilyOf(tr, s, sign, i),
           NEW last, last = LastsOf(tr, s, i),
           NEW x, x = Signal(tr, s, sign, i)
    PROVE  /\ \A n \in i..Len(tr) : x.ends[n] \in BOOLEAN
           /\ Universal(s, sign) =>
                  Agree(AlwaysFrom(family, last, i, i, Len(tr)), x, i, Len(tr))
           /\ ~Universal(s, sign) =>
                  Agree(EventuallyFrom(family, last, i, i, Len(tr)), x, i, Len(tr))
<1> DEFINE a == AlwaysFrom(family, last, i, i, Len(tr))
           e == EventuallyFrom(family, last, i, i, Len(tr))
<1>1. Len(tr) \in Nat /\ i \in Nat
  BY Entries
<1>2. s.bound \in Nat \cup {NoEnd}
  BY SyntaxForms
<1> SUFFICES ASSUME NEW n \in i..Len(tr)
             PROVE  /\ x.ends[n] \in BOOLEAN
                    /\ Universal(s, sign) => /\ a.known[n] = x.known[n]
                                             /\ a.ends[n] <=> x.ends[n]
                    /\ ~Universal(s, sign) => /\ e.known[n] = x.known[n]
                                              /\ e.ends[n] <=> x.ends[n]
  BY DEF Agree
<1> DEFINE L == last[n]
           c == Verdict(tr, s, i, n)
           t == TrueAtEnd(tr, s, sign, i, n)
<1>3. n \in 1..Len(tr) /\ i \in 1..n
  BY <1>1
<1>4. L = LastWithin(tr, s, i, n)
  BY DEF LastsOf
<1>5. L \in i..n /\ (Within(tr, s, i, n) <=> ~(L < n))
  <2>1. LastWithin(tr, s, i, n) \in i..n
        /\ (Within(tr, s, i, n) <=> LastWithin(tr, s, i, n) = n)
    BY <1>2, LastFacts
  <2> HIDE DEF L
  <2> QED
    BY <1>1, <1>4, <2>1
<1>6. /\ L \in i..Len(tr) /\ L \in 1..Len(tr) /\ i..L \subseteq i..Len(tr)
      /\ \A j \in i..L : j \in 1..Len(tr) /\ L \in j..Len(tr) /\ j \in i..Len(tr)
      /\ \A j \in i..n : j \in 1..Len(tr) /\ n \in j..Len(tr) /\ j \in i..Len(tr)
  <2> HIDE DEF L
  <2> QED
    BY <1>1, <1>3, <1>5
<1>7. \A j \in i..Len(tr) : family[j] = Signal(tr, s.sub, sign, j)
  BY DEF FamilyOf
<1>8. \A j \in i..L :
        /\ sign => family[j].known[L] = Verdict(tr, s.sub, j, L)
        /\ ~sign => family[j].known[L] = -Verdict(tr, s.sub, j, L)
        /\ Verdict(tr, s.sub, j, L) \in {-1, 0, 1}
  <2> SUFFICES ASSUME NEW j \in i..L
               PROVE  /\ sign => family[j].known[L] = Verdict(tr, s.sub, j, L)
                      /\ ~sign => family[j].known[L] = -Verdict(tr, s.sub, j, L)
                      /\ Verdict(tr, s.sub, j, L) \in {-1, 0, 1}
    OBVIOUS
  <2>1. j \in 1..Len(tr) /\ L \in j..Len(tr) /\ family[j] = Signal(tr, s.sub, sign, j)
    BY <1>6, <1>7
  <2>2. IsSignal(Signal(tr, s.sub, TRUE, j), j, Len(tr))
    BY <2>1 DEF Faithful
  <2>3. Verdict(tr, s.sub, j, L) \in {-1, 0, 1}
    BY <2>1, <2>2, VerdictOfSignal
  <2> HIDE DEF L
  <2> QED
    BY <2>1, <2>3, SignalValues
<1>9. \A j \in i..n : family[j].ends[n] = TrueAtEnd(tr, s.sub, sign, j, n)
  <2> SUFFICES ASSUME NEW j \in i..n
               PROVE  family[j].ends[n] = TrueAtEnd(tr, s.sub, sign, j, n)
    OBVIOUS
  <2>1. n \in j..Len(tr) /\ family[j] = Signal(tr, s.sub, sign, j)
    BY <1>6, <1>7
  <2> QED
    BY <2>1, SignalValues
<1>10. /\ sign => x.known[n] = c
       /\ ~sign => x.known[n] = -c
       /\ x.ends[n] = t
  BY SignalValues
<1>11. VerdictByForm(tr, s, i, n) /\ EndByForm(tr, s, sign, i, n)
  BY <1>3, VerdictForms, TrueAtEndForms DEF Recursive
<1>12. /\ s.op = "Always" =>
            c = IF \E j \in i..L : Verdict(tr, s.sub, j, L) = -1
                THEN -1 ELSE IF L < n THEN 1 ELSE 0
       /\ s.op = "Eventually" =>
            c = IF \E j \in i..L : Verdict(tr, s.sub, j, L) = 1
                THEN 1 ELSE IF L < n THEN -1 ELSE 0
  BY <1>4, <1>11 DEF VerdictByForm
<1>13. /\ t \in BOOLEAN
       /\ L < n => (t <=> c = IF sign THEN 1 ELSE -1)
       /\ ~(L < n) /\ Universal(s, sign) =>
            (t <=> \A j \in i..n : TrueAtEnd(tr, s.sub, sign, j, n))
       /\ ~(L < n) /\ ~Universal(s, sign) =>
            (t <=> \E j \in i..n : TrueAtEnd(tr, s.sub, sign, j, n))
  BY <1>5, <1>11 DEF EndByForm
<1>14. Universal(s, sign) <=> (s.op = "Always") = sign
  BY DEF Universal
<1>15. x.ends[n] \in BOOLEAN
  BY <1>10, <1>13
<1>16. ASSUME Universal(s, sign)
       PROVE  /\ a.known[n] = x.known[n]
              /\ a.ends[n] <=> x.ends[n]
  <2>1. Fails(family, last, i, n) <=> \E j \in i..L : family[j].known[L] = -1
    BY DEF Fails
  <2>2. /\ Fails(family, last, i, n) => a.known[n] = -1
        /\ ~Fails(family, last, i, n) /\ L < n => a.known[n] = 1
        /\ ~Fails(family, last, i, n) /\ ~(L < n) => a.known[n] = 0
        /\ a.ends[n] \in BOOLEAN
        /\ L < n => (a.ends[n] <=> ~Fails(family, last, i, n))
        /\ ~(L < n) => (a.ends[n] <=> AllEnd(family, i, n))
    BY AlwaysFromValues
  <2>3. AllEnd(family, i, n) <=> \A j \in i..n : TrueAtEnd(tr, s.sub, sign, j, n)
    BY <1>9 DEF AllEnd
  <2> HIDE DEF L, a, c, t
  <2>4. x.known[n] = IF Fails(family, last, i, n) THEN -1 ELSE IF L < n THEN 1 ELSE 0
    <3>1. CASE s.op = "Always" /\ sign
      <4>1. \A j \in i..L : family[j].known[L] = Verdict(tr, s.sub, j, L)
        BY <1>8, <3>1
      <4> QED
        BY <1>10, <1>12, <2>1, <3>1, <4>1
    <3>2. CASE s.op = "Eventually" /\ ~sign
      <4>1. \A j \in i..L : (family[j].known[L] = -1) <=> Verdict(tr, s.sub, j, L) = 1
        BY <1>8, <3>2
      <4> QED
        BY <1>10, <1>12, <2>1, <3>2, <4>1
    <3> QED
      BY <1>14, <1>16, <3>1, <3>2
  <2>5. a.known[n] = x.known[n]
    BY <2>2, <2>4
  <2>6. CASE L < n
    <3>1. c = (IF sign THEN 1 ELSE -1) <=> x.known[n] = 1
      BY <1>10, <1>12
    <3> QED
      BY <1>10, <1>13, <2>2, <2>4, <2>5, <2>6, <3>1
  <2>7. CASE ~(L < n)
    BY <1>10, <1>13, <1>16, <2>2, <2>3, <2>5, <2>7
  <2> QED
    BY <2>6, <2>7
<1>17. ASSUME ~Universal(s, sign)
       PROVE  /\ e.known[n] = x.known[n]
              /\ e.ends[n] <=> x.ends[n]
  <2>1. Comes(family, last, i, n) <=> \E j \in i..L : family[j].known[L] = 1
    BY DEF Comes
  <2>2. /\ Comes(family, last, i, n) => e.known[n] = 1
        /\ ~Comes(family, last, i, n) /\ L < n => e.known[n] = -1
        /\ ~Comes(family, last, i, n) /\ ~(L < n) => e.known[n] = 0
        /\ e.ends[n] \in BOOLEAN
        /\ L < n => (e.ends[n] <=> Comes(family, last, i, n))
        /\ ~(L < n) => (e.ends[n] <=> SomeEnds(family, i, n))
    BY EventuallyFromValues
  <2>3. SomeEnds(family, i, n) <=> \E j \in i..n : TrueAtEnd(tr, s.sub, sign, j, n)
    BY <1>9 DEF SomeEnds
  <2> HIDE DEF L, e, c, t
  <2>4. x.known[n] = IF Comes(family, last, i, n) THEN 1 ELSE IF L < n THEN -1 ELSE 0
    <3>1. CASE s.op = "Eventually" /\ sign
      <4>1. \A j \in i..L : family[j].known[L] = Verdict(tr, s.sub, j, L)
        BY <1>8, <3>1
      <4> QED
        BY <1>10, <1>12, <2>1, <3>1, <4>1
    <3>2. CASE s.op = "Always" /\ ~sign
      <4>1. \A j \in i..L : (family[j].known[L] = 1) <=> Verdict(tr, s.sub, j, L) = -1
        BY <1>8, <3>2
      <4> QED
        BY <1>10, <1>12, <2>1, <3>2, <4>1
    <3> QED
      BY <1>14, <1>17, <3>1, <3>2
  <2>5. e.known[n] = x.known[n]
    BY <2>2, <2>4
  <2>6. CASE L < n
    <3>1. c = (IF sign THEN 1 ELSE -1) <=> x.known[n] = 1
      BY <1>10, <1>12
    <3> QED
      BY <1>10, <1>13, <2>2, <2>4, <2>5, <2>6, <3>1
  <2>7. CASE ~(L < n)
    BY <1>10, <1>13, <1>17, <2>2, <2>3, <2>5, <2>7
  <2> QED
    BY <2>6, <2>7
<1> QED
  BY <1>15, <1>16, <1>17

LEMMA TemporalFaithful ==
    ASSUME Recursive, NEW tr \in Traces, NEW s \in Syntaxes,
           s.op \in {"Always", "Eventually"},
           NEW sign \in BOOLEAN, NEW i \in 1..Len(tr),
           \A either \in BOOLEAN : \A j \in 1..Len(tr) : Faithful(tr, s.sub, either, j)
    PROVE  Faithful(tr, s, sign, i)
<1> DEFINE family == FamilyOf(tr, s, sign, i)
           last == LastsOf(tr, s, i)
           f == Formula(s.sub, sign)
           end == EndOf(s.bound, tr[i].time)
           a == AlwaysFrom(family, last, i, i, Len(tr))
           e == EventuallyFrom(family, last, i, i, Len(tr))
           x == Signal(tr, s, sign, i)
           v == ValueIn(s, sign, tr[i].state, tr[i].time)
<1>1. Len(tr) \in Nat /\ tr[i].state \in States /\ tr[i].time \in Nat
  BY Entries
<1>2. i \in Nat /\ i >= i /\ i \in i..Len(tr)
  BY <1>1
<1>3. ResidualRecursion /\ SyntaxRecursion
  BY DEF Recursive
<1>4. \A j \in 1..Len(tr) : Faithful(tr, s.sub, sign, j) /\ Faithful(tr, s.sub, TRUE, j)
  OBVIOUS
<1>5. Watched(tr, i, f, end, family, last)
  BY <1>4, TemporalWatched
<1>6. /\ \A n \in i..Len(tr) : x.ends[n] \in BOOLEAN
      /\ Universal(s, sign) => Agree(a, x, i, Len(tr))
      /\ ~Universal(s, sign) => Agree(e, x, i, Len(tr))
  <2>1. /\ family = FamilyOf(tr, s, sign, i) /\ last = LastsOf(tr, s, i)
        /\ x = Signal(tr, s, sign, i)
    OBVIOUS
  <2> HIDE DEF family, last, x
  <2> QED
    BY <1>4, <2>1, TemporalAgrees
<1>7. v = IF Universal(s, sign)
          THEN AlwaysValue(f, end, tr[i].time, Evaluate(f, tr[i].state, tr[i].time))
          ELSE EventuallyValue(f, end, tr[i].time, Evaluate(f, tr[i].state, tr[i].time))
  BY <1>1, <1>3, ValueOfForms DEF ValueIn
<1> HIDE DEF family, last, f, end, x, v
<1>8. IsSignal(a, i, Len(tr)) /\ IsSignal(e, i, Len(tr))
  BY <1>1, <1>2, <1>5, AlwaysFromIsSignal, EventuallyFromIsSignal DEF Watched
<1>9. IsSignal(x, i, Len(tr))
  <2> HIDE DEF a, e
  <2> QED
    BY <1>6, <1>8, AgreeIsSignal
<1>10. Follows(v, x, i, tr)
  <2>1. CASE Universal(s, sign)
    <3>1. Follows(v, a, i, tr)
      BY <1>2, <1>3, <1>5, <1>7, <2>1, AlwaysFollows
    <3> HIDE DEF a
    <3> QED
      BY <1>6, <2>1, <3>1, FollowsAlike
  <2>2. CASE ~Universal(s, sign)
    <3>1. Follows(v, e, i, tr)
      BY <1>2, <1>3, <1>5, <1>7, <2>2, EventuallyFollows
    <3> HIDE DEF e
    <3> QED
      BY <1>6, <2>2, <3>1, FollowsAlike
  <2> QED
    BY <2>1, <2>2
<1> QED
  BY <1>9, <1>10 DEF Faithful, x, v

(***************************************************************************)
(* The evaluator computes the reference semantics: of every syntax, and of *)
(* its negation, met at any position of any trace, the value it gives      *)
(* there and the values of the residuals it leaves say at every later      *)
(* state what the reference says of the trace up to it; and if the trace   *)
(* stops there, the residual leans as the reference does.                  *)
(***************************************************************************)
THEOREM EvaluatorIsFaithful ==
    ASSUME Recursive, NEW tr \in Traces
    PROVE  \A s \in Syntaxes : \A sign \in BOOLEAN : \A i \in 1..Len(tr) :
               Faithful(tr, s, sign, i)
<1> DEFINE holds == {s \in Syntaxes : \A sign \in BOOLEAN : \A i \in 1..Len(tr) :
                                          Faithful(tr, s, sign, i)}
<1>1. ASSUME NEW s \in Syntaxes,
             \A t \in Syntaxes : Depth(t) < Depth(s) => t \in holds
      PROVE  s \in holds
  <2> SUFFICES ASSUME NEW sign \in BOOLEAN, NEW i \in 1..Len(tr)
               PROVE  Faithful(tr, s, sign, i)
    OBVIOUS
  <2>1. \A t \in Syntaxes : Depth(t) < Depth(s) =>
            \A either \in BOOLEAN : \A j \in 1..Len(tr) : Faithful(tr, t, either, j)
    BY <1>1
  <2> HIDE DEF holds
  <2>2. CASE s.op = "Pure"
    BY <2>2, PureFaithful
  <2>3. CASE s.op = "Thunk"
    BY <2>1, <2>3, ThunkFaithful
  <2>4. CASE s.op = "Not"
    <3>1. \A either \in BOOLEAN : Faithful(tr, s.sub, either, i)
      BY <2>1, <2>4, SyntaxForms
    <3> QED
      BY <2>4, <3>1, NotFaithful
  <2>5. CASE s.op \in {"And", "Or", "Implies"}
    <3>1. \A either \in BOOLEAN :
            Faithful(tr, s.left, either, i) /\ Faithful(tr, s.right, either, i)
      BY <2>1, <2>5, SyntaxForms
    <3> QED
      BY <2>5, <3>1, ConnectiveFaithful
  <2>6. CASE s.op = "Next"
    <3>1. \A j \in 1..Len(tr) : Faithful(tr, s.sub, sign, j)
      BY <2>1, <2>6, SyntaxForms
    <3> QED
      BY <2>6, <3>1, NextFaithful
  <2>7. CASE s.op \in {"Always", "Eventually"}
    <3>1. \A either \in BOOLEAN : \A j \in 1..Len(tr) : Faithful(tr, s.sub, either, j)
      BY <2>1, <2>7, SyntaxForms
    <3> QED
      BY <2>7, <3>1, TemporalFaithful
  <2>8. s.op \in Operators
    BY SyntaxForms
  <2> QED
    BY <2>2, <2>3, <2>4, <2>5, <2>6, <2>7, <2>8 DEF Operators
<1>2. Syntaxes \subseteq holds
  <2> HIDE DEF holds
  <2> QED
    BY <1>1, ByDepth
<1> QED
  BY <1>2

-----------------------------------------------------------------------------
(***************************************************************************)
(* What is left of an Always without end is an Always without end, alone   *)
(* or beside what it waits for, violated or not: it is never settled.      *)
(***************************************************************************)
Chain(links, m, r) ==
    /\ links[m] = r
    /\ \E formula : links[0] = DerivedAlways(formula, NoEnd)
    /\ \A k \in 1..m : \E formula, onset, left :
          links[k] = AndAlways(formula, NoEnd, onset, left, links[k - 1])
Endless(r) == \E m \in Nat : \E links : Chain(links, m, r)

GoesOn(v) ==
    /\ ~IsTrue(v)
    /\ IsPending(v) => Endless(v.residual)
    /\ ~IsPending(v) => v.next # <<>> /\ Endless(v.next[1])

LEMMA EndlessForms ==
    /\ \A formula : Endless(DerivedAlways(formula, NoEnd))
    /\ \A formula, onset, left, r : Endless(r) =>
           Endless(AndAlways(formula, NoEnd, onset, left, r))
<1>1. ASSUME NEW formula PROVE Endless(DerivedAlways(formula, NoEnd))
  <2> DEFINE links == [k \in {0} |-> DerivedAlways(formula, NoEnd)]
  <2>1. links[0] = DerivedAlways(formula, NoEnd) /\ 1..0 = {}
    OBVIOUS
  <2> HIDE DEF links
  <2>2. Chain(links, 0, DerivedAlways(formula, NoEnd))
    BY <2>1 DEF Chain
  <2> QED
    BY <2>2 DEF Endless
<1>2. ASSUME NEW formula, NEW onset, NEW left, NEW r, Endless(r)
      PROVE  Endless(AndAlways(formula, NoEnd, onset, left, r))
  <2> DEFINE x == AndAlways(formula, NoEnd, onset, left, r)
  <2>0. PICK m \in Nat : \E links : Chain(links, m, r)
    BY <1>2 DEF Endless
  <2>1. PICK links : Chain(links, m, r)
    BY <2>0
  <2> DEFINE more == [k \in 0..(m + 1) |-> IF k = m + 1 THEN x ELSE links[k]]
  <2>2. /\ more[m + 1] = x
        /\ \A k \in 0..m : more[k] = links[k]
    <3>1. m + 1 \in 0..(m + 1) /\ \A k \in 0..m : k \in 0..(m + 1) /\ k # m + 1
      OBVIOUS
    <3> HIDE DEF x
    <3> QED
      BY <3>1
  <2> HIDE DEF more
  <2>3. \E other : more[0] = DerivedAlways(other, NoEnd)
    <3>1. 0 \in 0..m
      OBVIOUS
    <3> QED
      BY <2>1, <2>2, <3>1 DEF Chain
  <2>4. ASSUME NEW k \in 1..(m + 1)
        PROVE  \E other, since, beside :
                  more[k] = AndAlways(other, NoEnd, since, beside, more[k - 1])
    <3>1. CASE k = m + 1
      <4>1. k - 1 = m /\ m \in 0..m
        BY <3>1
      <4>2. more[k - 1] = r
        BY <2>1, <2>2, <4>1 DEF Chain
      <4> QED
        BY <2>2, <3>1, <4>2
    <3>2. CASE k # m + 1
      <4>1. k \in 1..m /\ k \in 0..m /\ k - 1 \in 0..m
        BY <3>2
      <4> QED
        BY <2>1, <2>2, <4>1 DEF Chain
    <3> QED
      BY <3>1, <3>2
  <2> HIDE DEF x
  <2>5. Chain(more, m + 1, x)
    BY <2>2, <2>3, <2>4 DEF Chain
  <2>6. m + 1 \in Nat
    OBVIOUS
  <2> QED
    BY <2>5, <2>6 DEF Endless, x
<1> QED
  BY <1>1, <1>2

LEMMA ContinuationEndless ==
    ASSUME NEW formula, NEW onset, NEW inner
    PROVE  /\ Continuation(formula, NoEnd, onset, inner,
                           DerivedAlways(formula, NoEnd)) # <<>>
           /\ Endless(Continuation(formula, NoEnd, onset, inner,
                                   DerivedAlways(formula, NoEnd))[1])
<1> DEFINE rest == DerivedAlways(formula, NoEnd)
           beside == AndAlways(formula, NoEnd, onset, inner[1], rest)
<1>1. Endless(rest) /\ Endless(beside)
  BY EndlessForms
<1>2. Continuation(formula, NoEnd, onset, inner, rest)
          = IF inner = <<>> THEN <<rest>> ELSE <<beside>>
  BY DEF Continuation
<1> HIDE DEF rest, beside
<1> QED
  BY <1>1, <1>2 DEF rest

LEMMA AlwaysGoesOn ==
    ASSUME NEW formula, NEW time, NEW inner
    PROVE  GoesOn(AlwaysValue(formula, NoEnd, time, inner))
<1> DEFINE rest == DerivedAlways(formula, NoEnd)
           value == AlwaysValue(formula, NoEnd, time, inner)
<1>1. ~Past(NoEnd, time)
  BY DEF Past
<1>2. CASE IsTrue(inner)
  <2>1. value = Pending(rest)
    BY <1>1, <1>2 DEF AlwaysValue
  <2> QED
    BY <2>1, EndlessForms DEF GoesOn, Pending, IsTrue, IsPending
<1>3. CASE ~IsTrue(inner) /\ IsPending(inner)
  <2>1. value = Pending(AndAlways(formula, NoEnd, time, inner.residual, rest))
    BY <1>1, <1>3 DEF AlwaysValue
  <2> QED
    BY <2>1, EndlessForms DEF GoesOn, Pending, IsTrue, IsPending
<1>4. CASE ~IsTrue(inner) /\ ~IsPending(inner)
  <2>1. value = FalseValue(AlwaysViolation(time, inner.violation),
                           Continuation(formula, NoEnd, time, inner.next, rest))
    BY <1>1, <1>4 DEF AlwaysValue
  <2> QED
    BY <2>1, ContinuationEndless DEF GoesOn, FalseValue, IsTrue, IsPending
<1> QED
  BY <1>2, <1>3, <1>4

LEMMA AndAlwaysGoesOn ==
    ASSUME NEW formula, NEW onset, NEW time, NEW left, NEW right, GoesOn(right)
    PROVE  GoesOn(EvaluateAndAlways(formula, NoEnd, onset, time, left, right))
<1> DEFINE rest == DerivedAlways(formula, NoEnd)
           value == EvaluateAndAlways(formula, NoEnd, onset, time, left, right)
           inner == CombineOptions(PendingResidual(left),
                                   PendingResidual(right), "And")
<1>1. ~Past(NoEnd, time) /\ ~IsTrue(right)
  BY DEF Past, GoesOn
<1>2. CASE IsTrue(left) /\ IsPending(right)
  <2>1. value = Pending(AndAlways(formula, NoEnd, time, TrueResidual, right.residual))
    BY <1>1, <1>2 DEF EvaluateAndAlways
  <2> QED
    BY <1>2, <2>1, EndlessForms DEF GoesOn, Pending, IsTrue, IsPending
<1>3. CASE ~IsTrue(left) /\ IsPending(left) /\ IsPending(right)
  <2>1. value = Pending(AndAlways(formula, NoEnd, onset, left.residual,
                                  right.residual))
    BY <1>1, <1>3 DEF EvaluateAndAlways
  <2> QED
    BY <1>3, <2>1, EndlessForms DEF GoesOn, Pending, IsTrue, IsPending
<1>4. CASE ~(IsTrue(left) /\ IsPending(right)) /\ ~(IsPending(left) /\ IsPending(right))
  <2>1. \E violation : value = FalseValue(violation,
                                   Continuation(formula, NoEnd, onset, inner, rest))
    BY <1>1, <1>4 DEF EvaluateAndAlways
  <2> HIDE DEF inner, value
  <2>2. GoesOn(value)
    BY <2>1, ContinuationEndless DEF GoesOn, FalseValue, IsTrue, IsPending
  <2> QED
    BY <2>2 DEF value
<1> QED
  BY <1>2, <1>3, <1>4

LEMMA EndlessGoesOn ==
    ASSUME ResidualRecursion, NEW r, Endless(r), NEW state \in States, NEW time \in Nat
    PROVE  GoesOn(Step(r, state, time))
<1> DEFINE T == {m \in Nat : \E links, x : /\ Chain(links, m, x)
                                           /\ ~GoesOn(Step(x, state, time))}
<1>1. T = {}
  <2> SUFFICES ASSUME T # {} PROVE FALSE
    OBVIOUS
  <2>1. PICK m \in T : \A k \in T : m <= k
    BY LeastNumber
  <2>2. PICK links, x : Chain(links, m, x) /\ ~GoesOn(Step(x, state, time))
    BY <2>1
  <2>3. m \in Nat
    OBVIOUS
  <2>4. CASE m = 0
    <3>1. PICK formula : x = DerivedAlways(formula, NoEnd)
      BY <2>2, <2>4 DEF Chain
    <3>2. Step(x, state, time) = AlwaysValue(formula, NoEnd, time,
                                             Evaluate(formula, state, time))
      BY <3>1, StepOfForms
    <3> QED
      BY <2>2, <3>2, AlwaysGoesOn
  <2>5. CASE m # 0
    <3>1. m \in 1..m /\ m - 1 \in Nat /\ 1..(m - 1) \subseteq 1..m /\ ~(m <= m - 1)
      BY <2>3, <2>5
    <3>2. PICK formula, onset, left :
              x = AndAlways(formula, NoEnd, onset, left, links[m - 1])
      BY <2>2, <3>1 DEF Chain
    <3>3. Chain(links, m - 1, links[m - 1])
      BY <2>2, <3>1 DEF Chain
    <3>4. GoesOn(Step(links[m - 1], state, time))
      BY <2>1, <3>1, <3>3
    <3>5. Step(x, state, time) =
              EvaluateAndAlways(formula, NoEnd, onset, time,
                  Step(left, state, time), Step(links[m - 1], state, time))
      BY <3>2, StepOfForms
    <3> QED
      BY <2>2, <3>4, <3>5, AndAlwaysGoesOn
  <2> QED
    BY <2>4, <2>5
<1> QED
  BY <1>1 DEF Endless

(***************************************************************************)
(* The residuals the evaluator builds, of any shape: finite trees whose    *)
(* nodes are those of eval.rs and whose formulas come from the             *)
(* specification.  R holds the parts of one, h their heights.              *)
(***************************************************************************)
Formulas == {Formula(s, sign) : s \in Syntaxes, sign \in BOOLEAN}

\* An Always violation names the innermost one, which encloses no other.
Flat(violation) == violation.op = "Always" => violation.core.op # "Always"

LEMMA FlatForms ==
    /\ \A time : Flat(FalseAt(time)) /\ Flat(TimedOut(time))
    /\ \A left, right : /\ Flat(BothViolated("And", left, right))
                        /\ Flat(BothViolated("Or", left, right))
    /\ \A of : Flat(ConsequentViolated(of))
    /\ \A of : Flat(of) => Core(of).op # "Always"
    /\ \A time, of : Flat(of) => /\ Flat(AlwaysViolation(time, of))
                                 /\ Flat(AlwaysViolation(time, Core(of)))
<1>1. \A time : Flat(FalseAt(time)) /\ Flat(TimedOut(time))
  BY DEF Flat, FalseAt, TimedOut
<1>2. \A left, right : /\ Flat(BothViolated("And", left, right))
                      /\ Flat(BothViolated("Or", left, right))
  BY DEF Flat, BothViolated
<1>3. \A of : Flat(ConsequentViolated(of))
  BY DEF Flat, ConsequentViolated
<1>4. ASSUME NEW of, Flat(of) PROVE Core(of).op # "Always"
  BY <1>4 DEF Flat, Core
<1>5. ASSUME NEW time, NEW of, Flat(of)
      PROVE  Flat(AlwaysViolation(time, of)) /\ Flat(AlwaysViolation(time, Core(of)))
  <2>1. /\ AlwaysViolation(time, of).core = Core(of)
        /\ AlwaysViolation(time, Core(of)).core = Core(Core(of))
    BY DEF AlwaysViolation
  <2>2. Core(of).op # "Always" /\ Core(Core(of)) = Core(of)
    BY <1>4, <1>5 DEF Core
  <2> QED
    BY <2>1, <2>2 DEF Flat
<1> QED
  BY <1>1, <1>2, <1>3, <1>4, <1>5

IsLeaf(K, r) ==
    \/ r = TrueResidual
    \/ \E violation : Flat(violation) /\ r = FalseResidual(violation)
    \/ \E f \in K : r = Once(f)
    \/ \E f \in K : \E end : r = DerivedAlways(f, end)
    \/ \E f \in K : \E end : r = DerivedEventually(f, end)
IsNode(K, r, left, right) ==
    \/ \E op \in {"And", "Or", "Implies"} : r = Combined(op, left, right)
    \/ \E f \in K : \E end, onset : r = AndAlways(f, end, onset, left, right)
    \/ \E f \in K : \E end : r = OrEventually(f, end, left, right)
IsTree(K, R, h) ==
    \A r \in R :
        /\ h[r] \in Nat
        /\ \/ IsLeaf(K, r)
           \/ \E left, right \in R : /\ IsNode(K, r, left, right)
                                     /\ h[left] < h[r] /\ h[right] < h[r]
MadeOf(K, r) == \E R, h : IsTree(K, R, h) /\ r \in R

LEMMA TreesMeet ==
    ASSUME NEW K, NEW R, NEW h, NEW S, NEW g, IsTree(K, R, h), IsTree(K, S, g)
    PROVE  \E both : IsTree(K, R \cup S, both)
<1> DEFINE both == [r \in R \cup S |->
                       IF r \notin S THEN h[r] ELSE IF r \notin R THEN g[r]
                       ELSE IF h[r] <= g[r] THEN h[r] ELSE g[r]]
<1>1. \A r \in R \cup S :
        both[r] = IF r \notin S THEN h[r] ELSE IF r \notin R THEN g[r]
                  ELSE IF h[r] <= g[r] THEN h[r] ELSE g[r]
  OBVIOUS
<1>2. (\A r \in R : h[r] \in Nat) /\ (\A r \in S : g[r] \in Nat)
  BY DEF IsTree
<1> HIDE DEF both
<1>3. /\ \A r \in R \cup S : both[r] \in Nat /\ (both[r] = h[r] \/ both[r] = g[r])
      /\ \A r \in R : both[r] <= h[r]
      /\ \A r \in S : both[r] <= g[r]
      /\ \A r \in R \cup S : (r \in R /\ both[r] = h[r]) \/ (r \in S /\ both[r] = g[r])
  BY <1>1, <1>2
<1>4. ASSUME NEW r \in R \cup S, ~IsLeaf(K, r)
      PROVE  \E left, right \in R \cup S :
                /\ IsNode(K, r, left, right)
                /\ both[left] < both[r] /\ both[right] < both[r]
  <2>1. CASE r \in R /\ both[r] = h[r]
    <3>1. PICK left \in R, right \in R :
              IsNode(K, r, left, right) /\ h[left] < h[r] /\ h[right] < h[r]
      BY <1>4, <2>1 DEF IsTree
    <3>2. /\ both[left] <= h[left] /\ both[left] \in Nat /\ h[left] \in Nat
          /\ both[right] <= h[right] /\ both[right] \in Nat /\ h[right] \in Nat
          /\ h[r] \in Nat
      BY <1>2, <1>3, <2>1
    <3>3. both[left] < both[r] /\ both[right] < both[r]
      BY <2>1, <3>1, <3>2
    <3> QED
      BY <3>1, <3>3
  <2>2. CASE r \in S /\ both[r] = g[r]
    <3>1. PICK left \in S, right \in S :
              IsNode(K, r, left, right) /\ g[left] < g[r] /\ g[right] < g[r]
      BY <1>4, <2>2 DEF IsTree
    <3>2. /\ both[left] <= g[left] /\ both[left] \in Nat /\ g[left] \in Nat
          /\ both[right] <= g[right] /\ both[right] \in Nat /\ g[right] \in Nat
          /\ g[r] \in Nat
      BY <1>2, <1>3, <2>2
    <3>3. both[left] < both[r] /\ both[right] < both[r]
      BY <2>2, <3>1, <3>2
    <3> QED
      BY <3>1, <3>3
  <2> QED
    BY <1>3, <2>1, <2>2
<1>5. IsTree(K, R \cup S, both)
  BY <1>3, <1>4 DEF IsTree
<1> QED
  BY <1>5

LEMMA LeafMade ==
    ASSUME NEW K, NEW r, IsLeaf(K, r)
    PROVE  MadeOf(K, r)
<1> DEFINE h == [q \in {r} |-> 0]
<1>1. \A q \in {r} : h[q] \in Nat
  OBVIOUS
<1> HIDE DEF h
<1>2. IsTree(K, {r}, h)
  BY <1>1 DEF IsTree
<1> QED
  BY <1>2 DEF MadeOf

LEMMA NodeMade ==
    ASSUME NEW K, NEW r, NEW left, NEW right, IsNode(K, r, left, right),
           MadeOf(K, left), MadeOf(K, right)
    PROVE  MadeOf(K, r)
<1>1. PICK R, h : IsTree(K, R, h) /\ left \in R
  BY DEF MadeOf
<1>2. PICK S, g : IsTree(K, S, g) /\ right \in S
  BY DEF MadeOf
<1>3. PICK both : IsTree(K, R \cup S, both)
  BY <1>1, <1>2, TreesMeet
<1> DEFINE T == R \cup S
           top == [q \in T \cup {r} |-> IF q \in T THEN both[q]
                                        ELSE both[left] + both[right] + 1]
<1>4. left \in T /\ right \in T /\ IsTree(K, T, both)
  BY <1>1, <1>2, <1>3
<1>5. /\ \A q \in T : top[q] = both[q]
      /\ r \notin T => top[r] = both[left] + both[right] + 1
  OBVIOUS
<1> HIDE DEF T, top
<1>6. \A q \in T : both[q] \in Nat
  BY <1>4 DEF IsTree
<1>7. CASE r \in T
  BY <1>4, <1>7 DEF MadeOf
<1>8. CASE r \notin T
  <2>1. both[left] \in Nat /\ both[right] \in Nat
    BY <1>4, <1>6
  <2>2. top[r] \in Nat /\ top[left] < top[r] /\ top[right] < top[r]
    BY <1>4, <1>5, <1>8, <2>1
  <2>3. ASSUME NEW q \in T
        PROVE  /\ top[q] \in Nat
               /\ IsLeaf(K, q) \/ \E l, m \in T \cup {r} :
                    IsNode(K, q, l, m) /\ top[l] < top[q] /\ top[m] < top[q]
    <3>1. IsLeaf(K, q) \/ \E l, m \in T :
              IsNode(K, q, l, m) /\ both[l] < both[q] /\ both[m] < both[q]
      BY <1>4 DEF IsTree
    <3> QED
      BY <1>5, <1>6, <3>1
  <2>4. IsTree(K, T \cup {r}, top)
    BY <1>4, <2>2, <2>3 DEF IsTree
  <2> QED
    BY <2>4 DEF MadeOf
<1> QED
  BY <1>7, <1>8

LEMMA MadeForms ==
    ASSUME NEW K
    PROVE  /\ MadeOf(K, TrueResidual)
           /\ \A violation : Flat(violation) => MadeOf(K, FalseResidual(violation))
           /\ \A f \in K : MadeOf(K, Once(f))
           /\ \A f \in K : \A end : /\ MadeOf(K, DerivedAlways(f, end))
                                    /\ MadeOf(K, DerivedEventually(f, end))
           /\ \A left, right : MadeOf(K, left) /\ MadeOf(K, right) =>
                /\ MadeOf(K, Combined("And", left, right))
                /\ MadeOf(K, Combined("Or", left, right))
                /\ MadeOf(K, Combined("Implies", left, right))
           /\ \A f \in K : \A end, onset, left, right :
                MadeOf(K, left) /\ MadeOf(K, right) =>
                    MadeOf(K, AndAlways(f, end, onset, left, right))
           /\ \A f \in K : \A end, left, right :
                MadeOf(K, left) /\ MadeOf(K, right) =>
                    MadeOf(K, OrEventually(f, end, left, right))
<1>1. MadeOf(K, TrueResidual)
  BY LeafMade DEF IsLeaf
<1>2. ASSUME NEW violation, Flat(violation) PROVE MadeOf(K, FalseResidual(violation))
  BY <1>2, LeafMade DEF IsLeaf
<1>3. ASSUME NEW f \in K PROVE MadeOf(K, Once(f))
  BY LeafMade DEF IsLeaf
<1>4. ASSUME NEW f \in K, NEW end
      PROVE  MadeOf(K, DerivedAlways(f, end)) /\ MadeOf(K, DerivedEventually(f, end))
  BY LeafMade DEF IsLeaf
<1>5. ASSUME NEW left, NEW right, MadeOf(K, left), MadeOf(K, right),
             NEW op \in {"And", "Or", "Implies"}
      PROVE  MadeOf(K, Combined(op, left, right))
  BY <1>5, NodeMade DEF IsNode
<1>6. ASSUME NEW f \in K, NEW end, NEW onset, NEW left, NEW right,
             MadeOf(K, left), MadeOf(K, right)
      PROVE  MadeOf(K, AndAlways(f, end, onset, left, right))
  BY <1>6, NodeMade DEF IsNode
<1>7. ASSUME NEW f \in K, NEW end, NEW left, NEW right,
             MadeOf(K, left), MadeOf(K, right)
      PROVE  MadeOf(K, OrEventually(f, end, left, right))
  BY <1>7, NodeMade DEF IsNode
<1> QED
  BY <1>1, <1>2, <1>3, <1>4, <1>5, <1>6, <1>7

NextMadeOf(K, next) == next = <<>> \/ \E r : MadeOf(K, r) /\ next = <<r>>
ValueMadeOf(K, v) ==
    /\ IsValue(v)
    /\ IsPending(v) => MadeOf(K, v.residual)
    /\ IsFalse(v) => Flat(v.violation) /\ NextMadeOf(K, v.next)

LEMMA ValuesMade ==
    ASSUME NEW K
    PROVE  /\ ValueMadeOf(K, TrueValue)
           /\ \A violation, next : Flat(violation) /\ NextMadeOf(K, next) =>
                ValueMadeOf(K, FalseValue(violation, next))
           /\ \A r : MadeOf(K, r) => ValueMadeOf(K, Pending(r))
<1>1. ValueMadeOf(K, TrueValue)
  BY DEF ValueMadeOf, TrueValue, IsValue, IsPending, IsFalse
<1>2. ASSUME NEW violation, NEW next, Flat(violation), NextMadeOf(K, next)
      PROVE  ValueMadeOf(K, FalseValue(violation, next))
  BY <1>2 DEF ValueMadeOf, FalseValue, IsValue, IsPending, IsFalse
<1>3. ASSUME NEW r, MadeOf(K, r) PROVE ValueMadeOf(K, Pending(r))
  BY <1>3 DEF ValueMadeOf, Pending, IsValue, IsPending, IsFalse
<1> QED
  BY <1>1, <1>2, <1>3

LEMMA NextsMade ==
    ASSUME NEW K
    PROVE  /\ NextMadeOf(K, <<>>)
           /\ \A r : MadeOf(K, r) => NextMadeOf(K, <<r>>)
           /\ \A next : NextMadeOf(K, next) /\ next # <<>> => MadeOf(K, next[1])
           /\ \A v : ValueMadeOf(K, v) => NextMadeOf(K, PendingResidual(v))
           /\ \A a, b : NextMadeOf(K, a) /\ NextMadeOf(K, b) =>
                /\ NextMadeOf(K, CombineOptions(a, b, "And"))
                /\ NextMadeOf(K, CombineOptions(a, b, "Or"))
<1>1. NextMadeOf(K, <<>>) /\ \A r : MadeOf(K, r) => NextMadeOf(K, <<r>>)
  BY DEF NextMadeOf
<1>2. ASSUME NEW next, NextMadeOf(K, next), next # <<>> PROVE MadeOf(K, next[1])
  BY <1>2 DEF NextMadeOf
<1>3. ASSUME NEW v, ValueMadeOf(K, v) PROVE NextMadeOf(K, PendingResidual(v))
  BY <1>1, <1>3 DEF ValueMadeOf, PendingResidual
<1>4. ASSUME NEW a, NEW b, NextMadeOf(K, a), NextMadeOf(K, b), NEW op \in {"And", "Or"}
      PROVE  NextMadeOf(K, CombineOptions(a, b, op))
  <2>1. CASE a # <<>> /\ b # <<>>
    <3>1. MadeOf(K, a[1]) /\ MadeOf(K, b[1])
      BY <1>2, <1>4, <2>1
    <3>2. MadeOf(K, Combined(op, a[1], b[1]))
      BY <3>1, MadeForms
    <3> QED
      BY <1>1, <2>1, <3>2 DEF CombineOptions
  <2>2. CASE a = <<>>
    <3>1. PICK S : b \in Seq(S)
      <4>1. CASE b = <<>>
        <5>1. b \in Seq({})
          BY <4>1
        <5> QED
          BY <5>1
      <4>2. CASE b # <<>>
        <5>1. PICK r : b = <<r>>
          BY <1>4, <4>2 DEF NextMadeOf
        <5>2. b \in Seq({r})
          BY <5>1
        <5> QED
          BY <5>2
      <4> QED
        BY <4>1, <4>2
    <3>2. <<>> \o b = b
      BY <3>1, ConcatEmptySeq
    <3> QED
      BY <1>4, <2>2, <3>2 DEF CombineOptions
  <2>3. CASE a # <<>> /\ b = <<>>
    <3>1. PICK r : a = <<r>>
      BY <1>4, <2>3 DEF NextMadeOf
    <3>2. a \in Seq({r})
      BY <3>1
    <3>3. a \o <<>> = a
      BY <3>2, ConcatEmptySeq
    <3> QED
      BY <1>4, <2>3, <3>3 DEF CombineOptions
  <2> QED
    BY <2>1, <2>2, <2>3
<1> QED
  BY <1>1, <1>2, <1>3, <1>4

LEMMA CombinedMade ==
    ASSUME NEW K, NEW v, NEW w, ValueMadeOf(K, v), ValueMadeOf(K, w)
    PROVE  /\ ValueMadeOf(K, EvaluateAnd(v, w))
           /\ ValueMadeOf(K, EvaluateOr(v, w))
           /\ ValueMadeOf(K, EvaluateImplies(v, w))
<1>1. /\ IsTrue(v) \/ IsFalse(v) \/ IsPending(v)
      /\ IsTrue(w) \/ IsFalse(w) \/ IsPending(w)
  BY DEF ValueMadeOf, IsValue, IsTrue, IsFalse, IsPending
<1>2. /\ IsPending(v) => MadeOf(K, v.residual)
      /\ IsPending(w) => MadeOf(K, w.residual)
      /\ IsFalse(v) => Flat(v.violation) /\ NextMadeOf(K, v.next)
      /\ IsFalse(w) => Flat(w.violation) /\ NextMadeOf(K, w.next)
  BY DEF ValueMadeOf
<1>3. /\ ~(IsTrue(v) /\ IsFalse(v)) /\ ~(IsTrue(v) /\ IsPending(v))
      /\ ~(IsFalse(v) /\ IsPending(v))
      /\ ~(IsTrue(w) /\ IsFalse(w)) /\ ~(IsTrue(w) /\ IsPending(w))
      /\ ~(IsFalse(w) /\ IsPending(w))
  BY DEF IsTrue, IsFalse, IsPending
<1>4. ValueMadeOf(K, EvaluateAnd(v, w))
  <2>1. CASE IsTrue(v) /\ IsPending(w)
    <3>1. MadeOf(K, Combined("And", TrueResidual, w.residual))
      BY <1>2, <2>1, MadeForms
    <3> QED
      BY <2>1, <3>1, ValuesMade DEF EvaluateAnd
  <2>2. CASE IsPending(v) /\ IsTrue(w)
    <3>1. MadeOf(K, Combined("And", v.residual, TrueResidual))
      BY <1>2, <2>2, MadeForms
    <3> QED
      BY <1>3, <2>2, <3>1, ValuesMade DEF EvaluateAnd
  <2>3. CASE (IsTrue(v) /\ ~IsPending(w)) \/ (IsTrue(w) /\ ~IsPending(v))
    BY <1>3, <2>3 DEF EvaluateAnd
  <2>4. CASE IsFalse(v) /\ IsFalse(w)
    <3>1. NextMadeOf(K, CombineOptions(v.next, w.next, "And"))
      BY <1>2, <2>4, NextsMade
    <3> QED
      BY <1>3, <2>4, <3>1, FlatForms, ValuesMade DEF EvaluateAnd
  <2>5. CASE IsPending(v) /\ IsFalse(w)
    <3>1. NextMadeOf(K, CombineOptions(<<v.residual>>, w.next, "And"))
      BY <1>2, <2>5, NextsMade
    <3> QED
      BY <1>2, <1>3, <2>5, <3>1, ValuesMade DEF EvaluateAnd
  <2>6. CASE IsFalse(v) /\ IsPending(w)
    <3>1. NextMadeOf(K, CombineOptions(<<w.residual>>, v.next, "And"))
      BY <1>2, <2>6, NextsMade
    <3> QED
      BY <1>2, <1>3, <2>6, <3>1, ValuesMade DEF EvaluateAnd
  <2>7. CASE IsPending(v) /\ IsPending(w)
    <3>1. MadeOf(K, Combined("And", v.residual, w.residual))
      BY <1>2, <2>7, MadeForms
    <3> QED
      BY <1>3, <2>7, <3>1, ValuesMade DEF EvaluateAnd
  <2> QED
    BY <1>1, <2>1, <2>2, <2>3, <2>4, <2>5, <2>6, <2>7
<1>5. ValueMadeOf(K, EvaluateOr(v, w))
  <2>1. CASE IsFalse(v) /\ IsFalse(w)
    <3>1. NextMadeOf(K, CombineOptions(v.next, w.next, "Or"))
      BY <1>2, <2>1, NextsMade
    <3> QED
      BY <2>1, <3>1, FlatForms, ValuesMade DEF EvaluateOr
  <2>2. CASE IsTrue(v) \/ IsTrue(w)
    BY <1>3, <2>2, ValuesMade DEF EvaluateOr
  <2>3. CASE IsPending(v) /\ IsPending(w)
    <3>1. MadeOf(K, Combined("Or", v.residual, w.residual))
      BY <1>2, <2>3, MadeForms
    <3> QED
      BY <1>3, <2>3, <3>1, ValuesMade DEF EvaluateOr
  <2>4. CASE (IsPending(v) /\ IsFalse(w)) \/ (IsFalse(v) /\ IsPending(w))
    BY <1>3, <2>4 DEF EvaluateOr
  <2> QED
    BY <1>1, <2>1, <2>2, <2>3, <2>4
<1>6. ValueMadeOf(K, EvaluateImplies(v, w))
  <2>1. CASE IsFalse(v)
    BY <2>1, ValuesMade DEF EvaluateImplies
  <2>2. CASE IsTrue(v) /\ IsFalse(w)
    <3> DEFINE next == IF w.next = <<>> THEN <<>>
                       ELSE <<Combined("Implies", TrueResidual, w.next[1])>>
    <3>1. NextMadeOf(K, next)
      <4>1. CASE w.next = <<>>
        BY <4>1, NextsMade
      <4>2. CASE w.next # <<>>
        <5>1. MadeOf(K, w.next[1])
          BY <1>2, <2>2, <4>2, NextsMade
        <5>2. MadeOf(K, Combined("Implies", TrueResidual, w.next[1]))
          BY <5>1, MadeForms
        <5> QED
          BY <4>2, <5>2, NextsMade
      <4> QED
        BY <4>1, <4>2
    <3>2. EvaluateImplies(v, w) = FalseValue(ConsequentViolated(w.violation), next)
      BY <1>3, <2>2 DEF EvaluateImplies
    <3> HIDE DEF next
    <3> QED
      BY <3>1, <3>2, FlatForms, ValuesMade
  <2>3. CASE ~IsFalse(v) /\ IsTrue(w)
    BY <1>3, <2>3, ValuesMade DEF EvaluateImplies
  <2>4. CASE (IsTrue(v) /\ IsPending(w)) \/ (IsPending(v) /\ ~IsTrue(w))
    <3> DEFINE left == IF IsTrue(v) THEN TrueResidual ELSE v.residual
               right == IF IsFalse(w) THEN FalseResidual(w.violation) ELSE w.residual
    <3>1. MadeOf(K, left) /\ MadeOf(K, right)
      BY <1>1, <1>2, <1>3, <2>4, MadeForms
    <3>2. EvaluateImplies(v, w) = Pending(Combined("Implies", left, right))
      BY <1>3, <2>4 DEF EvaluateImplies
    <3> HIDE DEF left, right
    <3> QED
      BY <3>1, <3>2, MadeForms, ValuesMade
  <2> QED
    BY <1>1, <1>3, <2>1, <2>2, <2>3, <2>4
<1> QED
  BY <1>4, <1>5, <1>6

LEMMA ContinuationMade ==
    ASSUME NEW K, NEW f \in K, NEW end, NEW onset, NEW inner, NextMadeOf(K, inner)
    PROVE  NextMadeOf(K, Continuation(f, end, onset, inner, DerivedAlways(f, end)))
<1> DEFINE rest == DerivedAlways(f, end)
           beside == AndAlways(f, end, onset, inner[1], rest)
<1>1. MadeOf(K, rest)
  BY MadeForms
<1>2. CASE inner = <<>>
  BY <1>1, <1>2, NextsMade DEF Continuation
<1>3. CASE inner # <<>>
  <2>1. MadeOf(K, inner[1])
    BY <1>3, NextsMade
  <2> HIDE DEF rest
  <2>2. MadeOf(K, beside)
    BY <1>1, <2>1, MadeForms
  <2>3. Continuation(f, end, onset, inner, rest) = <<beside>>
    BY <1>3 DEF Continuation
  <2> HIDE DEF beside
  <2>4. NextMadeOf(K, Continuation(f, end, onset, inner, rest))
    BY <2>2, <2>3, NextsMade
  <2> QED
    BY <2>4 DEF rest
<1> QED
  BY <1>2, <1>3

LEMMA TemporalMade ==
    ASSUME NEW K, NEW f \in K, NEW end, NEW time, NEW inner, ValueMadeOf(K, inner)
    PROVE  /\ ValueMadeOf(K, AlwaysValue(f, end, time, inner))
           /\ ValueMadeOf(K, EventuallyValue(f, end, time, inner))
<1> DEFINE always == DerivedAlways(f, end)
           eventually == DerivedEventually(f, end)
<1>1. MadeOf(K, always) /\ MadeOf(K, eventually)
  BY MadeForms
<1>2. /\ IsTrue(inner) \/ IsFalse(inner) \/ IsPending(inner)
      /\ ~(IsTrue(inner) /\ IsFalse(inner)) /\ ~(IsTrue(inner) /\ IsPending(inner))
      /\ ~(IsFalse(inner) /\ IsPending(inner))
      /\ IsPending(inner) => MadeOf(K, inner.residual)
      /\ IsFalse(inner) => Flat(inner.violation) /\ NextMadeOf(K, inner.next)
  BY DEF ValueMadeOf, IsValue, IsTrue, IsFalse, IsPending
<1>3. IsFalse(inner) =>
        NextMadeOf(K, Continuation(f, end, time, inner.next, always))
  BY <1>2, ContinuationMade
<1>4. IsPending(inner) =>
        /\ MadeOf(K, AndAlways(f, end, time, inner.residual, always))
        /\ MadeOf(K, OrEventually(f, end, inner.residual, eventually))
  BY <1>1, <1>2, MadeForms
<1> HIDE DEF always, eventually
<1>5. ValueMadeOf(K, AlwaysValue(f, end, time, inner))
  <2>1. CASE Past(end, time) \/ IsTrue(inner)
    BY <1>1, <2>1, ValuesMade DEF AlwaysValue, always
  <2>2. CASE ~Past(end, time) /\ IsPending(inner)
    BY <1>2, <1>4, <2>2, ValuesMade DEF AlwaysValue, always
  <2>3. CASE ~Past(end, time) /\ IsFalse(inner)
    BY <1>2, <1>3, <2>3, FlatForms, ValuesMade DEF AlwaysValue, always
  <2> QED
    BY <1>2, <2>1, <2>2, <2>3
<1>6. ValueMadeOf(K, EventuallyValue(f, end, time, inner))
  <2>1. CASE Past(end, time)
    BY <2>1, FlatForms, NextsMade, ValuesMade DEF EventuallyValue
  <2>2. CASE ~Past(end, time) /\ ~IsPending(inner)
    BY <1>1, <1>2, <2>2, ValuesMade DEF EventuallyValue, eventually
  <2>3. CASE ~Past(end, time) /\ IsPending(inner)
    BY <1>2, <1>4, <2>3, ValuesMade DEF EventuallyValue, eventually
  <2> QED
    BY <2>1, <2>2, <2>3
<1> QED
  BY <1>5, <1>6

LEMMA WaitingMade ==
    ASSUME NEW K, NEW f \in K, NEW end, NEW onset, NEW time,
           NEW v, NEW w, ValueMadeOf(K, v), ValueMadeOf(K, w)
    PROVE  /\ ValueMadeOf(K, EvaluateAndAlways(f, end, onset, time, v, w))
           /\ ValueMadeOf(K, EvaluateOrEventually(f, end, time, v, w))
<1>1. /\ IsTrue(v) \/ IsFalse(v) \/ IsPending(v)
      /\ IsTrue(w) \/ IsFalse(w) \/ IsPending(w)
      /\ ~(IsTrue(v) /\ IsFalse(v)) /\ ~(IsTrue(v) /\ IsPending(v))
      /\ ~(IsFalse(v) /\ IsPending(v))
      /\ ~(IsTrue(w) /\ IsFalse(w)) /\ ~(IsTrue(w) /\ IsPending(w))
      /\ ~(IsFalse(w) /\ IsPending(w))
  BY DEF ValueMadeOf, IsValue, IsTrue, IsFalse, IsPending
<1>2. /\ IsPending(v) => MadeOf(K, v.residual)
      /\ IsPending(w) => MadeOf(K, w.residual)
      /\ IsFalse(v) => Flat(v.violation)
      /\ IsFalse(w) => Flat(w.violation)
  BY DEF ValueMadeOf
<1>3. ValueMadeOf(K, EvaluateAndAlways(f, end, onset, time, v, w))
  <2> DEFINE value == EvaluateAndAlways(f, end, onset, time, v, w)
             inner == CombineOptions(PendingResidual(v), PendingResidual(w), "And")
             rest == DerivedAlways(f, end)
  <2>1. CASE Past(end, time) \/ (IsTrue(v) /\ IsTrue(w))
    BY <2>1, ValuesMade DEF EvaluateAndAlways
  <2>2. CASE ~Past(end, time) /\ IsPending(v) /\ IsTrue(w)
    <3>1. MadeOf(K, AndAlways(f, end, onset, v.residual, TrueResidual))
      BY <1>2, <2>2, MadeForms
    <3> QED
      BY <1>1, <2>2, <3>1, ValuesMade DEF EvaluateAndAlways
  <2>3. CASE ~Past(end, time) /\ IsTrue(v) /\ IsPending(w)
    <3>1. MadeOf(K, AndAlways(f, end, time, TrueResidual, w.residual))
      BY <1>2, <2>3, MadeForms
    <3> QED
      BY <1>1, <2>3, <3>1, ValuesMade DEF EvaluateAndAlways
  <2>4. CASE ~Past(end, time) /\ IsPending(v) /\ IsPending(w)
    <3>1. MadeOf(K, AndAlways(f, end, onset, v.residual, w.residual))
      BY <1>2, <2>4, MadeForms
    <3> QED
      BY <1>1, <2>4, <3>1, ValuesMade DEF EvaluateAndAlways
  <2>5. CASE ~Past(end, time) /\ (IsFalse(v) \/ IsFalse(w))
    <3>1. \E violation : /\ Flat(violation)
                         /\ value = FalseValue(violation,
                                     Continuation(f, end, onset, inner, rest))
      <4>1. CASE IsFalse(v)
        <5>1. Flat(AlwaysViolation(onset, Core(v.violation)))
          BY <1>2, <4>1, FlatForms
        <5> QED
          BY <1>1, <2>5, <4>1, <5>1 DEF EvaluateAndAlways
      <4>2. CASE ~IsFalse(v)
        <5>1. Flat(AlwaysViolation(CoreTime(w.violation, time), Core(w.violation)))
          BY <1>2, <2>5, <4>2, FlatForms
        <5> QED
          BY <1>1, <2>5, <4>2, <5>1 DEF EvaluateAndAlways
      <4> QED
        BY <4>1, <4>2
    <3>2. NextMadeOf(K, inner)
      BY NextsMade
    <3> HIDE DEF value, inner
    <3>3. NextMadeOf(K, Continuation(f, end, onset, inner, rest))
      BY <3>2, ContinuationMade
    <3>4. ValueMadeOf(K, value)
      BY <3>1, <3>3, ValuesMade
    <3> QED
      BY <3>4 DEF value
  <2> HIDE DEF value, inner, rest
  <2> QED
    BY <1>1, <2>1, <2>2, <2>3, <2>4, <2>5
<1>4. ValueMadeOf(K, EvaluateOrEventually(f, end, time, v, w))
  <2>1. CASE Past(end, time)
    BY <2>1, FlatForms, NextsMade, ValuesMade DEF EvaluateOrEventually
  <2>2. CASE ~Past(end, time) /\ (IsTrue(v) \/ IsTrue(w))
    BY <2>2, ValuesMade DEF EvaluateOrEventually
  <2>3. CASE ~Past(end, time) /\ ~IsTrue(v) /\ ~IsTrue(w)
             /\ (IsFalse(v) \/ IsFalse(w))
    BY <1>2, <2>3, NextsMade, ValuesMade DEF EvaluateOrEventually
  <2>4. CASE ~Past(end, time) /\ IsPending(v) /\ IsPending(w)
    <3>1. MadeOf(K, OrEventually(f, end, v.residual, w.residual))
      BY <1>2, <2>4, MadeForms
    <3> QED
      BY <1>1, <2>4, <3>1, ValuesMade DEF EvaluateOrEventually
  <2> QED
    BY <1>1, <2>1, <2>2, <2>3, <2>4
<1> QED
  BY <1>3, <1>4

(***************************************************************************)
(* What is made of some formulas is made of more.                          *)
(***************************************************************************)
LEMMA MadeOfMore ==
    ASSUME NEW K, NEW J, K \subseteq J
    PROVE  /\ \A r : MadeOf(K, r) => MadeOf(J, r)
           /\ \A next : NextMadeOf(K, next) => NextMadeOf(J, next)
           /\ \A v : ValueMadeOf(K, v) => ValueMadeOf(J, v)
<1>1. ASSUME NEW r, MadeOf(K, r) PROVE MadeOf(J, r)
  <2>1. PICK R, h : IsTree(K, R, h) /\ r \in R
    BY <1>1 DEF MadeOf
  <2>2. \A q : IsLeaf(K, q) => IsLeaf(J, q)
    BY DEF IsLeaf
  <2>3. \A q, left, right : IsNode(K, q, left, right) => IsNode(J, q, left, right)
    BY DEF IsNode
  <2>4. IsTree(J, R, h)
    BY <2>1, <2>2, <2>3 DEF IsTree
  <2> QED
    BY <2>1, <2>4 DEF MadeOf
<1>2. ASSUME NEW next, NextMadeOf(K, next) PROVE NextMadeOf(J, next)
  BY <1>1, <1>2 DEF NextMadeOf
<1>3. ASSUME NEW v, ValueMadeOf(K, v) PROVE ValueMadeOf(J, v)
  BY <1>1, <1>2, <1>3 DEF ValueMadeOf
<1> QED
  BY <1>1, <1>2, <1>3

(***************************************************************************)
(* Of the formulas of the specification.                                   *)
(***************************************************************************)
WellBuilt(r) == MadeOf(Formulas, r)
GoodNext(next) == next = <<>> \/ \E r : WellBuilt(r) /\ next = <<r>>
GoodValue(v) ==
    /\ IsValue(v)
    /\ IsPending(v) => WellBuilt(v.residual)
    /\ IsFalse(v) => Flat(v.violation) /\ GoodNext(v.next)

LEMMA GoodIsMade ==
    /\ \A r : WellBuilt(r) <=> MadeOf(Formulas, r)
    /\ \A next : GoodNext(next) <=> NextMadeOf(Formulas, next)
    /\ \A v : GoodValue(v) <=> ValueMadeOf(Formulas, v)
<1>1. \A r : WellBuilt(r) <=> MadeOf(Formulas, r)
  BY DEF WellBuilt
<1>2. \A next : GoodNext(next) <=> NextMadeOf(Formulas, next)
  BY <1>1 DEF GoodNext, NextMadeOf
<1>3. \A v : GoodValue(v) <=> ValueMadeOf(Formulas, v)
  BY <1>1, <1>2 DEF GoodValue, ValueMadeOf
<1> QED
  BY <1>1, <1>2, <1>3

LEMMA BuiltForms ==
    /\ WellBuilt(TrueResidual)
    /\ \A violation : Flat(violation) => WellBuilt(FalseResidual(violation))
    /\ \A f \in Formulas : WellBuilt(Once(f))
    /\ \A f \in Formulas : \A end : /\ WellBuilt(DerivedAlways(f, end))
                                    /\ WellBuilt(DerivedEventually(f, end))
    /\ \A left, right : WellBuilt(left) /\ WellBuilt(right) =>
         /\ WellBuilt(Combined("And", left, right))
         /\ WellBuilt(Combined("Or", left, right))
         /\ WellBuilt(Combined("Implies", left, right))
    /\ \A f \in Formulas : \A end, onset, left, right :
         WellBuilt(left) /\ WellBuilt(right) =>
             WellBuilt(AndAlways(f, end, onset, left, right))
    /\ \A f \in Formulas : \A end, left, right :
         WellBuilt(left) /\ WellBuilt(right) =>
             WellBuilt(OrEventually(f, end, left, right))
  BY GoodIsMade, MadeForms

LEMMA ValuesGood ==
    /\ GoodValue(TrueValue)
    /\ \A violation, next : Flat(violation) /\ GoodNext(next) =>
         GoodValue(FalseValue(violation, next))
    /\ \A r : WellBuilt(r) => GoodValue(Pending(r))
  BY GoodIsMade, ValuesMade

LEMMA NextsGood ==
    /\ GoodNext(<<>>)
    /\ \A r : WellBuilt(r) => GoodNext(<<r>>)
    /\ \A next : GoodNext(next) /\ next # <<>> => WellBuilt(next[1])
    /\ \A v : GoodValue(v) => GoodNext(PendingResidual(v))
    /\ \A a, b : GoodNext(a) /\ GoodNext(b) =>
         /\ GoodNext(CombineOptions(a, b, "And"))
         /\ GoodNext(CombineOptions(a, b, "Or"))
  BY GoodIsMade, NextsMade

LEMMA GoodCombined ==
    ASSUME NEW v, NEW w, GoodValue(v), GoodValue(w)
    PROVE  /\ GoodValue(EvaluateAnd(v, w))
           /\ GoodValue(EvaluateOr(v, w))
           /\ GoodValue(EvaluateImplies(v, w))
  BY GoodIsMade, CombinedMade

LEMMA GoodContinuation ==
    ASSUME NEW f \in Formulas, NEW end, NEW onset, NEW inner, GoodNext(inner)
    PROVE  GoodNext(Continuation(f, end, onset, inner, DerivedAlways(f, end)))
  BY GoodIsMade, ContinuationMade

LEMMA GoodTemporal ==
    ASSUME NEW f \in Formulas, NEW end, NEW time, NEW inner, GoodValue(inner)
    PROVE  /\ GoodValue(AlwaysValue(f, end, time, inner))
           /\ GoodValue(EventuallyValue(f, end, time, inner))
  BY GoodIsMade, TemporalMade

LEMMA GoodWaiting ==
    ASSUME NEW f \in Formulas, NEW end, NEW onset, NEW time,
           NEW v, NEW w, GoodValue(v), GoodValue(w)
    PROVE  /\ GoodValue(EvaluateAndAlways(f, end, onset, time, v, w))
           /\ GoodValue(EvaluateOrEventually(f, end, time, v, w))
  BY GoodIsMade, WaitingMade

(***************************************************************************)
(* The time a violation is shown with.  A value that has just been         *)
(* evaluated is false now, so an Always in its violation names this time.  *)
(***************************************************************************)
Dates(violation, time) == violation.op = "Always" => violation.last = time
Recent(v, time) == IsFalse(v) => Dates(v.violation, time)

LEMMA DatesForms ==
    ASSUME NEW time
    PROVE  /\ Dates(FalseAt(time), time) /\ Dates(TimedOut(time), time)
           /\ \A left, right : /\ Dates(BothViolated("And", left, right), time)
                               /\ Dates(BothViolated("Or", left, right), time)
           /\ \A of : /\ Dates(ConsequentViolated(of), time)
                      /\ Dates(of, time) => Dates(AlwaysViolation(time, of), time)
<1>1. Dates(FalseAt(time), time) /\ Dates(TimedOut(time), time)
  BY DEF Dates, FalseAt, TimedOut
<1>2. ASSUME NEW left, NEW right
      PROVE  /\ Dates(BothViolated("And", left, right), time)
             /\ Dates(BothViolated("Or", left, right), time)
  BY DEF Dates, BothViolated
<1>3. ASSUME NEW of
      PROVE  /\ Dates(ConsequentViolated(of), time)
             /\ Dates(of, time) => Dates(AlwaysViolation(time, of), time)
  <2>1. Dates(ConsequentViolated(of), time)
    BY DEF Dates, ConsequentViolated
  <2>2. AlwaysViolation(time, of).last = CoreTime(of, time)
    BY DEF AlwaysViolation
  <2>3. Dates(of, time) => CoreTime(of, time) = time
    BY DEF Dates, CoreTime
  <2> QED
    BY <2>1, <2>2, <2>3 DEF Dates
<1> QED
  BY <1>1, <1>2, <1>3

LEMMA RecentForms ==
    ASSUME NEW time
    PROVE  /\ Recent(TrueValue, time)
           /\ \A r : Recent(Pending(r), time)
           /\ \A violation, next : Dates(violation, time) =>
                  Recent(FalseValue(violation, next), time)
<1>1. Recent(TrueValue, time)
  BY DEF Recent, TrueValue, IsFalse
<1>2. \A r : Recent(Pending(r), time)
  BY DEF Recent, Pending, IsFalse
<1>3. \A violation, next : FalseValue(violation, next).violation = violation
  BY DEF FalseValue
<1> QED
  BY <1>1, <1>2, <1>3 DEF Recent

LEMMA RecentCombined ==
    ASSUME NEW time, NEW v, NEW w, IsValue(v), IsValue(w),
           Recent(v, time), Recent(w, time)
    PROVE  /\ Recent(EvaluateAnd(v, w), time)
           /\ Recent(EvaluateOr(v, w), time)
           /\ Recent(EvaluateImplies(v, w), time)
<1>1. /\ \A left, right : /\ Dates(BothViolated("And", left, right), time)
                          /\ Dates(BothViolated("Or", left, right), time)
      /\ \A of : Dates(ConsequentViolated(of), time)
  BY DatesForms
<1>2. /\ IsFalse(v) => Dates(v.violation, time)
      /\ IsFalse(w) => Dates(w.violation, time)
  BY DEF Recent
<1>3. /\ IsTrue(v) \/ IsFalse(v) \/ IsPending(v)
      /\ IsTrue(w) \/ IsFalse(w) \/ IsPending(w)
  BY DEF IsValue, IsTrue, IsFalse, IsPending
<1>4. /\ IsTrue(v) => ~IsFalse(v) /\ ~IsPending(v)
      /\ IsPending(v) => ~IsFalse(v)
      /\ IsTrue(w) => ~IsFalse(w) /\ ~IsPending(w)
      /\ IsPending(w) => ~IsFalse(w)
  BY DEF IsTrue, IsFalse, IsPending
<1>5. Recent(EvaluateAnd(v, w), time)
  <2>1. CASE IsTrue(v) \/ IsTrue(w)
    <3>1. \/ EvaluateAnd(v, w) = v \/ EvaluateAnd(v, w) = w
          \/ \E r : EvaluateAnd(v, w) = Pending(r)
      BY <1>3, <1>4, <2>1 DEF EvaluateAnd
    <3> QED
      BY <3>1, RecentForms
  <2>2. CASE ~IsTrue(v) /\ ~IsTrue(w) /\ IsFalse(v) /\ IsFalse(w)
    <3>1. \E next : EvaluateAnd(v, w) =
              FalseValue(BothViolated("And", v.violation, w.violation), next)
      BY <1>4, <2>2 DEF EvaluateAnd
    <3> QED
      BY <1>1, <3>1, RecentForms
  <2>3. CASE IsPending(v) /\ IsFalse(w)
    <3>1. \E next : EvaluateAnd(v, w) = FalseValue(w.violation, next)
      BY <1>4, <2>3 DEF EvaluateAnd
    <3> QED
      BY <1>2, <2>3, <3>1, RecentForms
  <2>4. CASE IsFalse(v) /\ IsPending(w)
    <3>1. \E next : EvaluateAnd(v, w) = FalseValue(v.violation, next)
      BY <1>4, <2>4 DEF EvaluateAnd
    <3> QED
      BY <1>2, <2>4, <3>1, RecentForms
  <2>5. CASE IsPending(v) /\ IsPending(w)
    <3>1. \E r : EvaluateAnd(v, w) = Pending(r)
      BY <1>4, <2>5 DEF EvaluateAnd
    <3> QED
      BY <3>1, RecentForms
  <2> QED
    BY <1>3, <2>1, <2>2, <2>3, <2>4, <2>5
<1>6. Recent(EvaluateOr(v, w), time)
  <2>1. CASE IsFalse(v) /\ IsFalse(w)
    <3>1. \E next : EvaluateOr(v, w) =
              FalseValue(BothViolated("Or", v.violation, w.violation), next)
      BY <2>1 DEF EvaluateOr
    <3> QED
      BY <1>1, <3>1, RecentForms
  <2>2. CASE ~(IsFalse(v) /\ IsFalse(w))
    <3>1. \/ EvaluateOr(v, w) = TrueValue
          \/ EvaluateOr(v, w) = v \/ EvaluateOr(v, w) = w
          \/ \E r : EvaluateOr(v, w) = Pending(r)
      BY <2>2 DEF EvaluateOr
    <3> QED
      BY <3>1, RecentForms
  <2> QED
    BY <2>1, <2>2
<1>7. Recent(EvaluateImplies(v, w), time)
  <2>1. \/ EvaluateImplies(v, w) = TrueValue
        \/ \E r : EvaluateImplies(v, w) = Pending(r)
        \/ \E next : EvaluateImplies(v, w)
                         = FalseValue(ConsequentViolated(w.violation), next)
    BY DEF EvaluateImplies
  <2> QED
    BY <1>1, <2>1, RecentForms
<1> QED
  BY <1>5, <1>6, <1>7

LEMMA RecentTemporal ==
    ASSUME NEW f, NEW end, NEW time, NEW inner, IsValue(inner), Recent(inner, time)
    PROVE  /\ Recent(AlwaysValue(f, end, time, inner), time)
           /\ Recent(EventuallyValue(f, end, time, inner), time)
<1>1. Recent(AlwaysValue(f, end, time, inner), time)
  <2>1. \/ AlwaysValue(f, end, time, inner) = TrueValue
        \/ \E r : AlwaysValue(f, end, time, inner) = Pending(r)
        \/ /\ ~IsTrue(inner) /\ ~IsPending(inner)
           /\ \E next : AlwaysValue(f, end, time, inner)
                            = FalseValue(AlwaysViolation(time, inner.violation), next)
    BY DEF AlwaysValue
  <2>2. ~IsTrue(inner) /\ ~IsPending(inner) => Dates(inner.violation, time)
    BY DEF IsValue, IsTrue, IsFalse, IsPending, Recent
  <2>3. Dates(inner.violation, time) => Dates(AlwaysViolation(time, inner.violation), time)
    BY DatesForms
  <2> QED
    BY <2>1, <2>2, <2>3, RecentForms
<1>2. Recent(EventuallyValue(f, end, time, inner), time)
  <2>1. \/ EventuallyValue(f, end, time, inner) = TrueValue
        \/ \E r : EventuallyValue(f, end, time, inner) = Pending(r)
        \/ EventuallyValue(f, end, time, inner) = FalseValue(TimedOut(time), <<>>)
    BY DEF EventuallyValue
  <2> QED
    BY <2>1, DatesForms, RecentForms
<1> QED
  BY <1>1, <1>2

\* A value the evaluator gives of a formula at `time`.
Fresh(K, v, time) == ValueMadeOf(K, v) /\ Recent(v, time)

LEMMA FreshForms ==
    ASSUME NEW K, NEW time
    PROVE  /\ Fresh(K, TrueValue, time)
           /\ \A r : MadeOf(K, r) => Fresh(K, Pending(r), time)
           /\ \A violation, next :
                Flat(violation) /\ Dates(violation, time) /\ NextMadeOf(K, next) =>
                    Fresh(K, FalseValue(violation, next), time)
  BY ValuesMade, RecentForms DEF Fresh

LEMMA FreshCombined ==
    ASSUME NEW K, NEW time, NEW v, NEW w, Fresh(K, v, time), Fresh(K, w, time)
    PROVE  /\ Fresh(K, EvaluateAnd(v, w), time)
           /\ Fresh(K, EvaluateOr(v, w), time)
           /\ Fresh(K, EvaluateImplies(v, w), time)
<1>1. /\ ValueMadeOf(K, v) /\ ValueMadeOf(K, w) /\ Recent(v, time) /\ Recent(w, time)
      /\ IsValue(v) /\ IsValue(w)
  BY DEF Fresh, ValueMadeOf
<1> QED
  BY <1>1, CombinedMade, RecentCombined DEF Fresh

LEMMA FreshTemporal ==
    ASSUME NEW K, NEW f \in K, NEW end, NEW time, NEW inner, Fresh(K, inner, time)
    PROVE  /\ Fresh(K, AlwaysValue(f, end, time, inner), time)
           /\ Fresh(K, EventuallyValue(f, end, time, inner), time)
<1>1. ValueMadeOf(K, inner) /\ Recent(inner, time) /\ IsValue(inner)
  BY DEF Fresh, ValueMadeOf
<1> QED
  BY <1>1, TemporalMade, RecentTemporal DEF Fresh

(***************************************************************************)
(* The formulas of syntaxes less deep than k, and the formulas beneath a   *)
(* formula: those of syntaxes less deep than any it is the formula of.     *)
(***************************************************************************)
Below(k) == {g \in Formulas : \E t \in Syntaxes : \E sign \in BOOLEAN :
                                  Depth(t) < k /\ g = Formula(t, sign)}
Beneath(f) == {g \in Formulas : \E k \in Nat : g \in Below(k) /\ f \notin Below(k)}

LEMMA DepthIsNat ==
    \A s \in Syntaxes : Depth(s) \in Nat
  BY SyntaxForms

LEMMA BeneathForms ==
    /\ \A f : Beneath(f) \subseteq Formulas /\ f \notin Beneath(f)
    /\ \A f, g : g \in Beneath(f) => Beneath(g) \subseteq Beneath(f)
    /\ \A f \in Formulas : \E s \in Syntaxes : \E sign \in BOOLEAN :
            f = Formula(s, sign) /\ Below(Depth(s)) \subseteq Beneath(f)
    /\ \A s \in Syntaxes : \A sign \in BOOLEAN : Formula(s, sign) \in Formulas
<1>1. ASSUME NEW f PROVE Beneath(f) \subseteq Formulas /\ f \notin Beneath(f)
  BY DEF Beneath
<1>2. ASSUME NEW j \in Nat, NEW k \in Nat, j <= k PROVE Below(j) \subseteq Below(k)
  <2>1. \A t \in Syntaxes : Depth(t) < j => Depth(t) < k
    BY <1>2, DepthIsNat
  <2> QED
    BY <2>1 DEF Below
<1>3. ASSUME NEW f, NEW g, g \in Beneath(f) PROVE Beneath(g) \subseteq Beneath(f)
  <2>1. PICK k \in Nat : g \in Below(k) /\ f \notin Below(k)
    BY <1>3 DEF Beneath
  <2> SUFFICES ASSUME NEW e \in Beneath(g) PROVE e \in Beneath(f)
    OBVIOUS
  <2>2. PICK j \in Nat : e \in Below(j) /\ g \notin Below(j)
    BY DEF Beneath
  <2>3. j <= k
    BY <1>2, <2>1, <2>2
  <2>4. e \in Below(k) /\ e \in Formulas
    BY <1>2, <2>2, <2>3 DEF Below
  <2> QED
    BY <2>1, <2>4 DEF Beneath
<1>4. ASSUME NEW f \in Formulas
      PROVE  \E s \in Syntaxes : \E sign \in BOOLEAN :
                 f = Formula(s, sign) /\ Below(Depth(s)) \subseteq Beneath(f)
  <2> DEFINE T == {m \in Nat : \E s \in Syntaxes : \E sign \in BOOLEAN :
                                   f = Formula(s, sign) /\ m = Depth(s)}
  <2>1. T # {}
    BY DepthIsNat DEF Formulas
  <2>2. PICK m \in T : \A k \in T : m <= k
    BY <2>1, LeastNumber
  <2>3. PICK s \in Syntaxes, sign \in BOOLEAN : f = Formula(s, sign) /\ m = Depth(s)
    BY <2>2
  <2>4. f \notin Below(m)
    <3> SUFFICES ASSUME f \in Below(m) PROVE FALSE
      OBVIOUS
    <3>1. PICK t \in Syntaxes, other \in BOOLEAN : Depth(t) < m /\ f = Formula(t, other)
      BY DEF Below
    <3>2. Depth(t) \in T /\ Depth(t) \in Nat
      BY <3>1, DepthIsNat
    <3> HIDE DEF T
    <3>3. m <= Depth(t) /\ m \in Nat
      BY <2>2, <2>3, <3>2, DepthIsNat
    <3> QED
      BY <3>1, <3>2, <3>3
  <2>5. Below(Depth(s)) \subseteq Beneath(f)
    BY <2>3, <2>4, DepthIsNat DEF Beneath, Below
  <2> QED
    BY <2>3, <2>5
<1>5. ASSUME NEW s \in Syntaxes, NEW sign \in BOOLEAN PROVE Formula(s, sign) \in Formulas
  BY DEF Formulas
<1> QED
  BY <1>1, <1>3, <1>4, <1>5

LEMMA EvaluateFresh ==
    ASSUME SyntaxRecursion
    PROVE  \A f \in Formulas : \A state \in States : \A time \in Nat :
               Fresh(Beneath(f), Evaluate(f, state, time), time)
<1> DEFINE holds == {s \in Syntaxes :
                        \A sign \in BOOLEAN : \A state \in States : \A time \in Nat :
                            Fresh(Below(Depth(s)), ValueIn(s, sign, state, time), time)}
<1>1. ASSUME NEW s \in Syntaxes,
             \A t \in Syntaxes : Depth(t) < Depth(s) => t \in holds
      PROVE  s \in holds
  <2> SUFFICES ASSUME NEW K, K = Below(Depth(s)),
                      NEW sign \in BOOLEAN, NEW state \in States, NEW time \in Nat
               PROVE  Fresh(K, ValueIn(s, sign, state, time), time)
    OBVIOUS
  <2>1. \A t \in Syntaxes : Depth(t) < Depth(s) =>
            \A either \in BOOLEAN :
                /\ Fresh(K, ValueIn(t, either, state, time), time)
                /\ Formula(t, either) \in K
    <3> SUFFICES ASSUME NEW t \in Syntaxes, Depth(t) < Depth(s), NEW either \in BOOLEAN
                 PROVE  /\ Fresh(K, ValueIn(t, either, state, time), time)
                        /\ Formula(t, either) \in K
      OBVIOUS
    <3>1. Fresh(Below(Depth(t)), ValueIn(t, either, state, time), time)
      BY <1>1
    <3>2. \A u \in Syntaxes : Depth(u) < Depth(t) => Depth(u) < Depth(s)
      BY DepthIsNat
    <3>3. Below(Depth(t)) \subseteq K
      BY <3>2 DEF Below
    <3>4. Formula(t, either) \in K
      BY DEF Below, Formulas
    <3> QED
      BY <3>1, <3>3, <3>4, MadeOfMore DEF Fresh
  <2> HIDE DEF holds
  <2>2. CASE s.op = "Pure"
    <3>1. ValueIn(s, sign, state, time) =
              IF s.value = sign THEN TrueValue ELSE FalseValue(FalseAt(time), <<>>)
      BY <2>2, ValueOfForms
    <3>2. Fresh(K, TrueValue, time) /\ Fresh(K, FalseValue(FalseAt(time), <<>>), time)
      BY FlatForms, NextsMade, FreshForms, DatesForms
    <3> QED
      BY <3>1, <3>2
  <2>3. CASE s.op = "Thunk"
    <3>1. Fresh(K, ValueIn(Call(s.function, state), sign, state, time), time)
      BY <2>1, <2>3, SyntaxForms
    <3> QED
      BY <2>3, <3>1, ValueOfForms
  <2>4. CASE s.op = "Not"
    <3>1. PICK other \in BOOLEAN : other = ~sign
      OBVIOUS
    <3>2. Fresh(K, ValueIn(s.sub, other, state, time), time)
      BY <2>1, <2>4, SyntaxForms
    <3>3. ValueIn(s, sign, state, time) = ValueIn(s.sub, ~sign, state, time)
      BY <2>4, ValueOfForms
    <3> QED
      BY <3>1, <3>2, <3>3
  <2>5. CASE s.op \in {"And", "Or"}
    <3>1. /\ Fresh(K, ValueIn(s.left, sign, state, time), time)
          /\ Fresh(K, ValueIn(s.right, sign, state, time), time)
      BY <2>1, <2>5, SyntaxForms
    <3>2. ValueIn(s, sign, state, time) =
              IF Universal(s, sign)
              THEN EvaluateAnd(ValueIn(s.left, sign, state, time),
                               ValueIn(s.right, sign, state, time))
              ELSE EvaluateOr(ValueIn(s.left, sign, state, time),
                              ValueIn(s.right, sign, state, time))
      BY <2>5, ValueOfForms
    <3> QED
      BY <3>1, <3>2, FreshCombined
  <2>6. CASE s.op = "Implies"
    <3>1. PICK yes \in BOOLEAN : yes = TRUE
      OBVIOUS
    <3>2. PICK no \in BOOLEAN : no = FALSE
      OBVIOUS
    <3>3. /\ Fresh(K, ValueIn(s.left, yes, state, time), time)
          /\ Fresh(K, ValueIn(s.right, yes, state, time), time)
          /\ Fresh(K, ValueIn(s.right, no, state, time), time)
      BY <2>1, <2>6, SyntaxForms
    <3>4. ValueIn(s, sign, state, time) =
              IF sign
              THEN EvaluateImplies(ValueIn(s.left, TRUE, state, time),
                                   ValueIn(s.right, TRUE, state, time))
              ELSE EvaluateAnd(ValueIn(s.left, TRUE, state, time),
                               ValueIn(s.right, FALSE, state, time))
      BY <2>6, ValueOfForms
    <3>5. ValueIn(s, sign, state, time) =
              IF sign
              THEN EvaluateImplies(ValueIn(s.left, yes, state, time),
                                   ValueIn(s.right, yes, state, time))
              ELSE EvaluateAnd(ValueIn(s.left, yes, state, time),
                               ValueIn(s.right, no, state, time))
      BY <3>1, <3>2, <3>4
    <3> QED
      BY <3>3, <3>5, FreshCombined
  <2>7. CASE s.op = "Next"
    <3>1. Formula(s.sub, sign) \in K
      BY <2>1, <2>7, SyntaxForms
    <3>2. MadeOf(K, Once(Formula(s.sub, sign)))
      BY <3>1, MadeForms
    <3>3. ValueIn(s, sign, state, time) = Pending(Once(Formula(s.sub, sign)))
      BY <2>7, ValueOfForms
    <3> QED
      BY <3>2, <3>3, FreshForms
  <2>8. CASE s.op \in {"Always", "Eventually"}
    <3> DEFINE f == Formula(s.sub, sign)
               inner == ValueIn(s.sub, sign, state, time)
               end == EndOf(s.bound, time)
    <3>1. f \in K
      BY <2>1, <2>8, SyntaxForms
    <3>2. Fresh(K, inner, time)
      BY <2>1, <2>8, SyntaxForms
    <3>3. ValueIn(s, sign, state, time) =
              IF Universal(s, sign) THEN AlwaysValue(f, end, time, inner)
              ELSE EventuallyValue(f, end, time, inner)
      BY <2>8, ValueOfForms
    <3> HIDE DEF f, inner, end
    <3> QED
      BY <3>1, <3>2, <3>3, FreshTemporal
  <2> QED
    BY <2>2, <2>3, <2>4, <2>5, <2>6, <2>7, <2>8, SyntaxForms DEF Operators
<1>2. Syntaxes \subseteq holds
  <2> HIDE DEF holds
  <2> QED
    BY <1>1, ByDepth
<1>3. ASSUME NEW f \in Formulas, NEW state \in States, NEW time \in Nat
      PROVE  Fresh(Beneath(f), Evaluate(f, state, time), time)
  <2>1. PICK s \in Syntaxes, sign \in BOOLEAN :
            f = Formula(s, sign) /\ Below(Depth(s)) \subseteq Beneath(f)
    BY BeneathForms
  <2>2. Fresh(Below(Depth(s)), ValueIn(s, sign, state, time), time)
    BY <1>2
  <2>3. Fresh(Below(Depth(s)), Evaluate(f, state, time), time)
    BY <2>1, <2>2 DEF ValueIn
  <2> QED
    BY <2>1, <2>3, MadeOfMore DEF Fresh
<1> QED
  BY <1>3

LEMMA EvaluateGood ==
    ASSUME SyntaxRecursion
    PROVE  \A f \in Formulas : \A state \in States : \A time \in Nat :
               /\ ValueMadeOf(Beneath(f), Evaluate(f, state, time))
               /\ GoodValue(Evaluate(f, state, time))
               /\ Recent(Evaluate(f, state, time), time)
<1>1. ASSUME NEW f \in Formulas, NEW state \in States, NEW time \in Nat
      PROVE  /\ ValueMadeOf(Beneath(f), Evaluate(f, state, time))
             /\ Recent(Evaluate(f, state, time), time)
  BY EvaluateFresh DEF Fresh
<1>2. \A f : Beneath(f) \subseteq Formulas
  BY BeneathForms
<1> QED
  BY <1>1, <1>2, GoodIsMade, MadeOfMore

(***************************************************************************)
(* A step makes nothing of other formulas than the residual is made of and *)
(* those beneath them.                                                     *)
(***************************************************************************)
LEMMA StepMade ==
    ASSUME Recursive, NEW K, K \subseteq Formulas, \A f \in K : Beneath(f) \subseteq K,
           NEW r, MadeOf(K, r), NEW state \in States, NEW time \in Nat
    PROVE  ValueMadeOf(K, Step(r, state, time))
<1>1. PICK R, h : IsTree(K, R, h) /\ r \in R
  BY DEF MadeOf
<1> DEFINE T == {m \in Nat : \E q \in R : /\ h[q] = m
                                          /\ ~ValueMadeOf(K, Step(q, state, time))}
<1>2. T = {}
  <2> SUFFICES ASSUME T # {} PROVE FALSE
    OBVIOUS
  <2>1. PICK m \in T : \A k \in T : m <= k
    BY LeastNumber
  <2>2. PICK q \in R : h[q] = m /\ ~ValueMadeOf(K, Step(q, state, time))
    BY <2>1
  <2>3. ASSUME NEW p \in R, h[p] < h[q] PROVE ValueMadeOf(K, Step(p, state, time))
    <3>1. h[p] \in Nat /\ h[q] \in Nat /\ ~(m <= h[p])
      BY <1>1, <2>2, <2>3 DEF IsTree
    <3> QED
      BY <2>1, <3>1
  <2>4. \A f \in K : ValueMadeOf(K, Evaluate(f, state, time))
    BY EvaluateGood, MadeOfMore DEF Recursive
  <2> HIDE DEF T
  <2>5. CASE IsLeaf(K, q)
    <3>1. CASE q = TrueResidual
      <4>1. Step(q, state, time) = TrueValue
        BY <3>1, StepOfForms DEF Recursive
      <4> QED
        BY <2>2, <4>1, ValuesMade
    <3>2. CASE \E violation : Flat(violation) /\ q = FalseResidual(violation)
      <4>1. \E violation : /\ Flat(violation)
                           /\ Step(q, state, time) = FalseValue(violation, <<>>)
        BY <3>2, StepOfForms DEF Recursive
      <4> QED
        BY <2>2, <4>1, NextsMade, ValuesMade
    <3>3. CASE \E f \in K : q = Once(f)
      <4>1. \E f \in K : Step(q, state, time) = Evaluate(f, state, time)
        BY <3>3, StepOfForms DEF Recursive
      <4> QED
        BY <2>2, <2>4, <4>1
    <3>4. CASE \E f \in K : \E end : q = DerivedAlways(f, end)
      <4>1. PICK f \in K : \E end : q = DerivedAlways(f, end)
        BY <3>4
      <4>2. PICK end : q = DerivedAlways(f, end)
        BY <4>1
      <4>3. Step(q, state, time) =
                AlwaysValue(f, end, time, Evaluate(f, state, time))
        BY <4>2, StepOfForms DEF Recursive
      <4> QED
        BY <2>2, <2>4, <4>3, TemporalMade
    <3>5. CASE \E f \in K : \E end : q = DerivedEventually(f, end)
      <4>1. PICK f \in K : \E end : q = DerivedEventually(f, end)
        BY <3>5
      <4>2. PICK end : q = DerivedEventually(f, end)
        BY <4>1
      <4>3. Step(q, state, time) =
                EventuallyValue(f, end, time, Evaluate(f, state, time))
        BY <4>2, StepOfForms DEF Recursive
      <4> QED
        BY <2>2, <2>4, <4>3, TemporalMade
    <3> QED
      BY <2>5, <3>1, <3>2, <3>3, <3>4, <3>5 DEF IsLeaf
  <2>6. CASE ~IsLeaf(K, q)
    <3>1. PICK left \in R, right \in R :
              IsNode(K, q, left, right) /\ h[left] < h[q] /\ h[right] < h[q]
      BY <1>1, <2>6 DEF IsTree
    <3> DEFINE v == Step(left, state, time)
               w == Step(right, state, time)
    <3>2. ValueMadeOf(K, v) /\ ValueMadeOf(K, w)
      BY <2>3, <3>1
    <3>3. CASE \E op \in {"And", "Or", "Implies"} : q = Combined(op, left, right)
      <4>1. \/ Step(q, state, time) = EvaluateAnd(v, w)
            \/ Step(q, state, time) = EvaluateOr(v, w)
            \/ Step(q, state, time) = EvaluateImplies(v, w)
        BY <3>3, StepOfForms DEF Recursive
      <4> HIDE DEF v, w
      <4> QED
        BY <2>2, <3>2, <4>1, CombinedMade
    <3>4. CASE \E f \in K : \E end, onset :
                  q = AndAlways(f, end, onset, left, right)
      <4>1. PICK f \in K : \E end, onset :
                q = AndAlways(f, end, onset, left, right)
        BY <3>4
      <4>2. PICK end, onset : q = AndAlways(f, end, onset, left, right)
        BY <4>1
      <4>3. Step(q, state, time) = EvaluateAndAlways(f, end, onset, time, v, w)
        BY <4>2, StepOfForms DEF Recursive
      <4> HIDE DEF v, w
      <4> QED
        BY <2>2, <3>2, <4>3, WaitingMade
    <3>5. CASE \E f \in K : \E end : q = OrEventually(f, end, left, right)
      <4>1. PICK f \in K : \E end : q = OrEventually(f, end, left, right)
        BY <3>5
      <4>2. PICK end : q = OrEventually(f, end, left, right)
        BY <4>1
      <4>3. Step(q, state, time) = EvaluateOrEventually(f, end, time, v, w)
        BY <4>2, StepOfForms DEF Recursive
      <4> HIDE DEF v, w
      <4> QED
        BY <2>2, <3>2, <4>3, WaitingMade
    <3> QED
      BY <3>1, <3>3, <3>4, <3>5 DEF IsNode
  <2> QED
    BY <2>5, <2>6
<1>3. h[r] \in Nat
  BY <1>1 DEF IsTree
<1> QED
  BY <1>1, <1>2, <1>3

LEMMA StepGood ==
    ASSUME Recursive, NEW r, WellBuilt(r), NEW state \in States, NEW time \in Nat
    PROVE  GoodValue(Step(r, state, time))
<1>1. \A f \in Formulas : Beneath(f) \subseteq Formulas
  BY BeneathForms
<1>2. MadeOf(Formulas, r)
  BY GoodIsMade
<1>3. ValueMadeOf(Formulas, Step(r, state, time))
  BY <1>1, <1>2, StepMade
<1> QED
  BY <1>3, GoodIsMade

=============================================================================
