------------------------------ MODULE Verifier ------------------------------
(***************************************************************************)
(* The verifier of lib/bombadil/src/specification/verifier.rs as the test  *)
(* runner drives it: every state the driver reports steps every property   *)
(* that is not settled, the violations found are handed to the observer,   *)
(* and the test stops when no property is pending.                         *)
(*                                                                         *)
(* The last part states what the verifier promises against a reference     *)
(* semantics of the formulas on the whole trace, which knows nothing of    *)
(* residuals.                                                              *)
(***************************************************************************)
EXTENDS Ltl, FiniteSets, FiniteSetsExt

CONSTANTS
    Specifications,   \* the specifications tried: a syntax for every name
    Syntaxes,         \* these, their parts, and what their functions return
    Depth(_),         \* of a syntax, the functions it calls included
    States,           \* what the functions of a specification can observe
    Waits,            \* the time between two states
    MaxStates,        \* bound on the states of a test
    Verdict(_, _, _, _),          \* the reference semantics of a syntax,
    TrueAtEnd(_, _, _, _, _),     \* and what it is worth at the end
    FailsOnce(_),                 \* of a formula, that it fails in one way only
    Watches(_, _)                 \* of a residual, how often it watches a formula

(***************************************************************************)
(* Syntaxes are finite trees, and so are those that functions return, with *)
(* what the functions in these return: an evaluation ends.                 *)
(***************************************************************************)
IsSyntax(s) ==
    CASE s.op = "Pure" -> s = Pure(s.value) /\ s.value \in BOOLEAN
      [] s.op = "Thunk" -> s = Thunk(s.function)
      [] s.op = "Not" -> s = Not(s.sub)
      [] s.op = "Next" -> s = Next1(s.sub)
      [] s.op \in {"And", "Or", "Implies"} -> s = Binary(s.op, s.left, s.right)
      [] s.op = "Always" ->
            s = Always(s.sub, s.bound) /\ s.bound \in Nat \cup {NoEnd}
      [] s.op = "Eventually" ->
            s = Eventually(s.sub, s.bound) /\ s.bound \in Nat \cup {NoEnd}
      [] OTHER -> FALSE
Parts(s) ==
    CASE s.op = "Pure" -> {}
      [] s.op = "Thunk" -> {Call(s.function, state) : state \in States}
      [] s.op \in {"And", "Or", "Implies"} -> {s.left, s.right}
      [] OTHER -> {s.sub}

ASSUME VerifierAssumption ==
    /\ Waits \subseteq Nat
    /\ MaxStates \in Nat
    /\ \A exports \in Specifications : \A n \in DOMAIN exports :
          exports[n] \in Syntaxes
    /\ \A s \in Syntaxes :
          /\ IsSyntax(s) /\ Depth(s) \in Nat
          /\ \A part \in Parts(s) : part \in Syntaxes /\ Depth(part) < Depth(s)

VARIABLES
    specification,   \* the exports, by name: a syntax each
    properties,      \* the state of each property (PropertyState)
    answers,         \* the values of the last step (StepResult.properties)
    reports,         \* the violations of each property, with their position
    trace,           \* the states so far, each with its time
    running          \* whether the runner still asks for states

Names == DOMAIN specification

vars == <<specification, properties, answers, reports, trace, running>>

(***************************************************************************)
(* The states of a property.                                               *)
(***************************************************************************)
Initial(formula) == [is |-> "Initial", formula |-> formula]
Stepping(residual) == [is |-> "Residual", residual |-> residual]
DefinitelyTrue == [is |-> "DefinitelyTrue"]
DefinitelyFalse == [is |-> "DefinitelyFalse"]

IsSettled(property) == property.is \in {"DefinitelyTrue", "DefinitelyFalse"}

Init ==
    /\ specification \in Specifications
    /\ properties = [n \in Names |-> Initial(Nnf(specification[n]))]
    /\ answers = <<>>
    /\ reports = [n \in Names |-> <<>>]
    /\ trace = <<>>
    /\ running = TRUE

ValueOf(property, state, time) ==
    IF property.is = "Initial"
    THEN Evaluate(property.formula, state, time)
    ELSE Step(property.residual, state, time)

(***************************************************************************)
(* A violated property goes on from the continuation its value carries.    *)
(***************************************************************************)
AfterValue(value) ==
    IF IsTrue(value) THEN DefinitelyTrue
    ELSE IF IsPending(value) THEN Stepping(value.residual)
    ELSE IF value.next = <<>> THEN DefinitelyFalse
    ELSE Stepping(value.next[1])

(***************************************************************************)
(* What the caller of the verifier is told: all but the continuation.      *)
(***************************************************************************)
Answered(value) ==
    IF IsFalse(value) THEN FalseValue(value.violation, <<>>) ELSE value

(* As if one settled property were enough to stop *)
HasPendingAll == \A n \in Names : ~IsSettled(properties[n])
HasPending == \E n \in Names : ~IsSettled(properties[n])

(***************************************************************************)
(* The violations of a property once it has the value `value` in the state *)
(* at position `at` (runner.rs).                                           *)
(***************************************************************************)
(* As if positions were counted from 0 to the length *)
ReportedFromZero(list, value, at) ==
    IF IsFalse(value)
    THEN Append(list, [at |-> at - 1, violation |-> value.violation]) ELSE list
Reported(list, value, at) ==
    IF IsFalse(value)
    THEN Append(list, [at |-> at, violation |-> value.violation]) ELSE list

(***************************************************************************)
(* The runner's handling of one state: Verifier::step, the collection of   *)
(* the violations, and the end of the test when all is settled.            *)
(***************************************************************************)
StateChanged(state, wait) ==
    LET time == wait + IF trace = <<>> THEN 0 ELSE trace[Len(trace)].time
        values == [n \in {m \in Names : ~IsSettled(properties[m])} |->
                      ValueOf(properties[n], state, time)]
        stepped == DOMAIN values
    IN  /\ running
        /\ Len(trace) < MaxStates
        /\ trace' = Append(trace, [time |-> time, state |-> state])
        /\ answers' = [n \in stepped |-> Answered(values[n])]
        /\ properties' = [n \in Names |->
               IF n \in stepped THEN AfterValue(values[n]) ELSE properties[n]]
        /\ reports' = [n \in Names |->
               IF n \in stepped THEN Reported(reports[n], values[n], Len(trace'))
                                ELSE reports[n]]
        /\ UNCHANGED specification
        /\ running' = HasPending'

Next == \E state \in States, wait \in Waits : StateChanged(state, wait)

Spec == Init /\ [][Next]_vars

-----------------------------------------------------------------------------
(***************************************************************************)
(* The reference semantics.  The verdict on a syntax at position i of a    *)
(* trace of which n states are known is 1 (true whatever follows), -1      *)
(* (false whatever follows) or 0 (it depends): Kleene's logic.             *)
(*                                                                         *)
(* A bounded operator looks at the states up to its end, and takes its     *)
(* subformula for what is known of it by the last of them.                 *)
(*                                                                         *)
(* As in module Ltl, these are the cases of a recursion.                   *)
(***************************************************************************)
Within(tr, f, i, j) == f.bound = NoEnd \/ tr[j].time - tr[i].time <= f.bound
LastWithin(tr, f, i, n) == Max({j \in i..n : Within(tr, f, i, j)})

VerdictCase(tr, f, i, n) ==
    LET Of(sub, j, m) == Verdict(tr, sub, j, m)
        last == LastWithin(tr, f, i, n)
        seen == {Of(f.sub, j, last) : j \in i..last}
        ended == last < n
    IN  CASE f.op = "Pure" -> IF f.value THEN 1 ELSE -1
          [] f.op = "Thunk" -> Of(Call(f.function, tr[i].state), i, n)
          [] f.op = "Not" -> -Of(f.sub, i, n)
          [] f.op = "And" -> Min({Of(f.left, i, n), Of(f.right, i, n)})
          [] f.op = "Or" -> Max({Of(f.left, i, n), Of(f.right, i, n)})
          [] f.op = "Implies" -> Max({-Of(f.left, i, n), Of(f.right, i, n)})
          [] f.op = "Next" -> IF i = n THEN 0 ELSE Of(f.sub, i + 1, n)
          [] f.op = "Always" ->
                IF -1 \in seen THEN -1 ELSE IF ended THEN 1 ELSE 0
          [] f.op = "Eventually" ->
                IF 1 \in seen THEN 1 ELSE IF ended THEN -1 ELSE 0

(***************************************************************************)
(* Whether a syntax (its negation, when `sign` is FALSE) counts as true at *)
(* position i if the trace ends with state n.  A state after the end       *)
(* satisfies anything, an Always counts as true if it is not refuted so    *)
(* far, an Eventually only if it came true; a bounded operator that has    *)
(* ended stays as it was decided.                                          *)
(***************************************************************************)
TrueAtEndCase(tr, f, sign, i, n) ==
    LET Of(sub, s, j) == TrueAtEnd(tr, sub, s, j, n)
        Is(sub, s) == Of(sub, s, i)
        ended == ~Within(tr, f, i, n)
        Throughout == \A j \in i..n : Of(f.sub, sign, j)
        Sometime == \E j \in i..n : Of(f.sub, sign, j)
    IN  CASE f.op = "Pure" -> f.value = sign
          [] f.op = "Thunk" -> Is(Call(f.function, tr[i].state), sign)
          [] f.op = "Not" -> Is(f.sub, ~sign)
          [] f.op = "And" ->
                IF sign THEN Is(f.left, TRUE) /\ Is(f.right, TRUE)
                        ELSE Is(f.left, FALSE) \/ Is(f.right, FALSE)
          [] f.op = "Or" ->
                IF sign THEN Is(f.left, TRUE) \/ Is(f.right, TRUE)
                        ELSE Is(f.left, FALSE) /\ Is(f.right, FALSE)
          [] f.op = "Implies" ->
                IF sign THEN Is(f.left, TRUE) => Is(f.right, TRUE)
                        ELSE Is(f.left, TRUE) /\ Is(f.right, FALSE)
          [] f.op = "Next" -> i < n => Of(f.sub, sign, i + 1)
          [] f.op \in {"Always", "Eventually"} ->
                IF ended THEN Verdict(tr, f, i, n) = IF sign THEN 1 ELSE -1
                ELSE IF (f.op = "Always") = sign THEN Throughout
                ELSE Sometime

-----------------------------------------------------------------------------
(***************************************************************************)
(* Each variable has its type.                                             *)
(***************************************************************************)
TypeOK ==
    /\ DOMAIN properties = Names /\ DOMAIN reports = Names
    /\ DOMAIN answers \subseteq Names
    /\ \A n \in Names :
          /\ properties[n].is \in
                {"Initial", "Residual", "DefinitelyTrue", "DefinitelyFalse"}
          /\ \A k \in DOMAIN reports[n] : reports[n][k].at \in 1..Len(trace)
    /\ \A n \in DOMAIN answers : answers[n].is \in {"True", "False", "Residual"}
    /\ \A k \in DOMAIN trace : trace[k].time \in Nat /\ trace[k].state \in States
    /\ running \in BOOLEAN

Now == Len(trace)
Whole(n) == Verdict(trace, specification[n], 1, Now)
Unreported(n) == reports[n] = <<>>

(***************************************************************************)
(* The verifier decides a property exactly when the states seen so far     *)
(* decide it, and as they do: until the first violation is reported a      *)
(* property is settled as true, or still pending, as the reference says;   *)
(* and the first violation comes with the first state that refutes the     *)
(* property (eval.rs, Evaluator::evaluate and Evaluator::step).            *)
(***************************************************************************)
VerdictsMatch ==
    Now > 0 => \A n \in Names :
        IF Unreported(n)
        THEN /\ properties[n].is # "DefinitelyFalse"
             /\ Whole(n) = IF IsSettled(properties[n]) THEN 1 ELSE 0
        ELSE LET first == reports[n][1].at
             IN  /\ Verdict(trace, specification[n], 1, first) = -1
                 /\ first > 1 => Verdict(trace, specification[n], 1, first - 1) = 0

(***************************************************************************)
(* If the test stops while a property is pending, the residual leans the   *)
(* way the property does on the trace that ends here (stop_default).       *)
(***************************************************************************)
StopDefaultsMatch ==
    Now > 0 => \A n \in Names :
        Unreported(n) /\ properties[n].is = "Residual" =>
            (StopDefault(properties[n].residual)
                <=> TrueAtEnd(trace, specification[n], TRUE, 1, Now))

(***************************************************************************)
(* The positions of an Always at which its subformula is refuted by state  *)
(* n and was not before.                                                   *)
(***************************************************************************)
NewlyFailing(f, n) ==
    {i \in 1..LastWithin(trace, f, 1, n) :
        /\ Verdict(trace, f.sub, i, n) = -1
        /\ i < n => Verdict(trace, f.sub, i, n - 1) # -1}

IsAlways(n) == specification[n].op = "Always"
ReportedNow(n) == \E k \in DOMAIN reports[n] : reports[n][k].at = Now

(***************************************************************************)
(* An exported Always that has been violated is still watched: every state *)
(* that refutes its subformula at one more position is reported, however   *)
(* many violations came before (evaluate_always and evaluate_and_always,   *)
(* and the continuation kept by Verifier::step).                           *)
(***************************************************************************)
EveryFailureReported ==
    Now > 0 => \A n \in Names :
        /\ IsAlways(n) /\ Within(trace, specification[n], 1, Now)
        /\ NewlyFailing(specification[n], Now) # {}
        => ReportedNow(n)

(***************************************************************************)
(* The time shown with the k-th violation of an exported Always is the     *)
(* time of a position at which its subformula has just been refuted, not   *)
(* that of the state that refuted it (the onset of AndAlways).             *)
(***************************************************************************)
OnsetFails(n, k) ==
    LET report == reports[n][k]
    IN  \E i \in NewlyFailing(specification[n], report.at) :
            report.violation.time = trace[i].time

FirstOnsetFails ==
    \A n \in Names : IsAlways(n) /\ ~Unreported(n) => OnsetFails(n, 1)

(***************************************************************************)
(* A formula in normal form that can be refuted in one way only: a         *)
(* conjunction or an Always goes on from its own violation and may fail    *)
(* again.                                                                  *)
(***************************************************************************)
FailsOnceCase(f) ==
    LET Returned(state) == FailsOnce(EvaluateThunk(f, state))
    IN  CASE f.op = "Pure" -> TRUE
          [] f.op = "Thunk" -> \A state \in States : Returned(state)
          [] f.op \in {"And", "Always"} -> FALSE
          [] f.op \in {"Or", "Implies"} -> FailsOnce(f.left) /\ FailsOnce(f.right)
          [] f.op = "Next" -> FailsOnce(f.sub)
          [] f.op = "Eventually" -> TRUE

SubFailsOnce(n) == FailsOnce(Nnf(specification[n].sub))

(***************************************************************************)
(* No report repeats an old failure: an exported Always whose subformula   *)
(* can be refuted in one way only reports a violation only with a state    *)
(* that refutes the subformula at one more position (evaluate_and_always   *)
(* and the continuations it combines).                                     *)
(***************************************************************************)
NoFailureRepeated ==
    Now > 0 => \A n \in Names :
        IsAlways(n) /\ SubFailsOnce(n) /\ ReportedNow(n) =>
            NewlyFailing(specification[n], Now) # {}

(***************************************************************************)
(* What the comment on the onset (eval.rs 70-73) says of every violation.  *)
(***************************************************************************)
EveryOnsetFails ==
    \A n \in Names :
        IsAlways(n) /\ SubFailsOnce(n) =>
            \A k \in DOMAIN reports[n] : OnsetFails(n, k)

(***************************************************************************)
(* How often a residual watches a formula from now on.                     *)
(***************************************************************************)
WatchesCase(residual, formula) ==
    LET left == Watches(residual.left, formula)
        right == Watches(residual.right, formula)
    IN  CASE residual.op = "Always" -> IF residual.subformula = formula THEN 1 ELSE 0
          [] residual.op \in {"And", "Or", "Implies", "AndAlways", "OrEventually"} ->
                left + right
          [] OTHER -> 0

(***************************************************************************)
(* An exported Always watches its subformula once until it is violated     *)
(* and, if its subformula fails in one way only and was decided at every   *)
(* position by the state there, after any number of violations.  A         *)
(* violation found while another position is or was open leaves both the   *)
(* Always that stood beside it and a new one (the continuation of          *)
(* evaluate_and_always, eval.rs 460-473), and each of them reports.        *)
(***************************************************************************)
NeverOpen(n) ==
    SubFailsOnce(n) /\ \A i \in 1..Now : Verdict(trace, specification[n].sub, i, i) # 0

WatchedOnce ==
    \A n \in Names :
        /\ IsAlways(n) /\ properties[n].is = "Residual"
        /\ Unreported(n) \/ NeverOpen(n)
        => Watches(properties[n].residual, Nnf(specification[n].sub)) = 1

(***************************************************************************)
(* The runner never stops early: when it does, every property has been     *)
(* violated or is true whatever would follow, and none is an Always        *)
(* without end, violated or not (StepResult.has_pending, runner.rs 201).   *)
(***************************************************************************)
StopsOnlyWhenDecided ==
    ~running => \A n \in Names :
        /\ ~Unreported(n) \/ Whole(n) = 1
        /\ ~(IsAlways(n) /\ specification[n].bound = NoEnd)

-----------------------------------------------------------------------------
(***************************************************************************)
(* The laws of ltl_equivalences.rs: left and right side, by their form.    *)
(***************************************************************************)
NextDistributes(l, r) ==
    /\ l.op = "Next" /\ l.sub.op \in {"And", "Or"}
    /\ r = Binary(l.sub.op, Next1(l.sub.left), Next1(l.sub.right))
AlwaysDistributes(l, r) ==
    /\ l.op = "Always" /\ l.sub.op = "And"
    /\ r = Binary("And", Always(l.sub.left, l.bound), Always(l.sub.right, l.bound))
EventuallyDistributes(l, r) ==
    /\ l.op = "Eventually" /\ l.sub.op = "Or"
    /\ r = Binary("Or", Eventually(l.sub.left, l.bound),
                        Eventually(l.sub.right, l.bound))
NextIsSelfDual(l, r) ==
    l.op = "Next" /\ l.sub.op = "Not" /\ r = Not(Next1(l.sub.sub))
AlwaysIsDual(l, r) ==
    /\ l.op = "Always" /\ l.sub.op = "Not"
    /\ r = Not(Eventually(l.sub.sub, l.bound))
AlwaysIsIdempotent(l, r) ==
    l.op = "Always" /\ l.bound = NoEnd /\ r = Always(l, NoEnd)
EventuallyIsIdempotent(l, r) ==
    l.op = "Eventually" /\ l.bound = NoEnd /\ r = Eventually(l, NoEnd)

Equates(l, r) ==
    \/ NextDistributes(l, r) \/ AlwaysDistributes(l, r) \/ EventuallyDistributes(l, r)
    \/ NextIsSelfDual(l, r) \/ AlwaysIsDual(l, r)
    \/ AlwaysIsIdempotent(l, r) \/ EventuallyIsIdempotent(l, r)

(***************************************************************************)
(* As long as neither is settled the answers to the two sides of a law     *)
(* agree, state for state, after a violation too (check_equivalence, up to *)
(* the contents of the violations).                                        *)
(***************************************************************************)
SameAnswers ==
    \A m, n \in DOMAIN answers : Equates(specification[m], specification[n]) =>
        /\ answers[m].is = answers[n].is
        /\ IsPending(answers[m]) =>
              (StopDefault(answers[m].residual) <=> StopDefault(answers[n].residual))
==============================================================================
