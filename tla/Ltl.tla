-------------------------------- MODULE Ltl --------------------------------
(***************************************************************************)
(* The LTL of lib/bombadil-ltl: negation normal form (syntax.rs), the      *)
(* evaluation of a formula in a state and of a residual in the next one    *)
(* (eval.rs), and what a residual is worth if the test stops (stop.rs).    *)
(*                                                                         *)
(* A formula is a record: op "Pure" with `value`; "Thunk" with `function`  *)
(* and, in a formula, `negated`; "Not", "Next" with `sub`; "And", "Or",    *)
(* "Implies" with `left` and `right`; "Always", "Eventually" with `sub`    *)
(* and `bound`, a duration or NoEnd.                                       *)
(*                                                                         *)
(* The four recursive functions of the code are constants here, and GoCase *)
(* and the other cases say what each does, calling these constants for the *)
(* parts.  A configuration closes the recursion (Go <- GoCase).            *)
(***************************************************************************)
EXTENDS LtlValues

CONSTANTS
    Call(_, _),           \* the syntax a function returns in a state
    Go(_, _),             \* the recursion of nnf
    Evaluate(_, _, _),    \* Evaluator::evaluate
    Step(_, _, _),        \* Evaluator::step
    StopDefault(_)        \* stop_default

Pure(value) == [op |-> "Pure", value |-> value]
Thunk(function) == [op |-> "Thunk", function |-> function]
Not(sub) == [op |-> "Not", sub |-> sub]
Binary(op, left, right) == [op |-> op, left |-> left, right |-> right]
Next1(sub) == [op |-> "Next", sub |-> sub]
Always(sub, bound) == [op |-> "Always", sub |-> sub, bound |-> bound]
Eventually(sub, bound) == [op |-> "Eventually", sub |-> sub, bound |-> bound]

(***************************************************************************)
(* Negation normal form.  Implies is kept, for the error messages; it and  *)
(* Not are the only operators whose negation changes shape and side.       *)
(***************************************************************************)
Dual(op) == CASE op = "And" -> "Or"
              [] op = "Or" -> "And"
              [] op = "Always" -> "Eventually"
              [] op = "Eventually" -> "Always"

GoCase(node, negated) ==
    LET op == IF negated THEN Dual(node.op) ELSE node.op
    IN  CASE node.op = "Pure" -> Pure(node.value # negated)
          [] node.op = "Thunk" ->
                [op |-> "Thunk", function |-> node.function, negated |-> negated]
          [] node.op = "Not" -> Go(node.sub, ~negated)
          [] node.op \in {"And", "Or"} ->
                Binary(op, Go(node.left, negated), Go(node.right, negated))
          [] node.op = "Implies" ->
                IF negated
                THEN Binary("And", Go(node.left, FALSE), Go(node.right, TRUE))
                ELSE Binary("Implies", Go(node.left, FALSE), Go(node.right, FALSE))
          [] node.op = "Next" -> Next1(Go(node.sub, negated))
          [] node.op \in {"Always", "Eventually"} ->
                [op |-> op, sub |-> Go(node.sub, negated), bound |-> node.bound]

Nnf(syntax) == Go(syntax, FALSE)

(***************************************************************************)
(* What a thunk stands for in a state: the syntax its function returns     *)
(* there, negated when the thunk is.                                       *)
(***************************************************************************)
EvaluateThunk(thunk, state) == Go(Call(thunk.function, state), thunk.negated)

EndOf(bound, time) == IF bound = NoEnd THEN NoEnd ELSE time + bound

(***************************************************************************)
(* The value of a formula first met in `state` at `time`.                  *)
(***************************************************************************)
EvaluateCase(formula, state, time) ==
    LET On(sub) == Evaluate(sub, state, time)
    IN  CASE formula.op = "Pure" ->
                IF formula.value THEN TrueValue
                                 ELSE FalseValue(FalseAt(time), <<>>)
          [] formula.op = "Thunk" -> On(EvaluateThunk(formula, state))
          [] formula.op = "And" ->
                EvaluateAnd(On(formula.left), On(formula.right))
          [] formula.op = "Or" ->
                EvaluateOr(On(formula.left), On(formula.right))
          [] formula.op = "Implies" ->
                EvaluateImplies(On(formula.left), On(formula.right))
          [] formula.op = "Next" -> Pending(Once(formula.sub))
          [] formula.op = "Always" ->
                AlwaysValue(formula.sub, EndOf(formula.bound, time), time,
                            On(formula.sub))
          [] formula.op = "Eventually" ->
                EventuallyValue(formula.sub, EndOf(formula.bound, time), time,
                                On(formula.sub))

(***************************************************************************)
(* The value of a residual in the next `state`, at `time`.  An Always or   *)
(* an Eventually that has ended does not evaluate its subformula: its      *)
(* value does not depend on it.                                            *)
(***************************************************************************)
StepCase(residual, state, time) ==
    LET left == Step(residual.left, state, time)
        right == Step(residual.right, state, time)
        inner == Evaluate(residual.subformula, state, time)
    IN  CASE residual.op = "True" -> TrueValue
          [] residual.op = "False" -> FalseValue(residual.violation, <<>>)
          [] residual.op = "And" -> EvaluateAnd(left, right)
          [] residual.op = "Or" -> EvaluateOr(left, right)
          [] residual.op = "Implies" -> EvaluateImplies(left, right)
          [] residual.op = "Once" -> inner
          [] residual.op = "Always" ->
                AlwaysValue(residual.subformula, residual.end, time, inner)
          [] residual.op = "Eventually" ->
                EventuallyValue(residual.subformula, residual.end, time, inner)
          [] residual.op = "OrEventually" ->
                EvaluateOrEventually(residual.subformula, residual.end, time,
                                     left, right)
          [] residual.op = "AndAlways" ->
                EvaluateAndAlways(residual.subformula, residual.end,
                                  residual.onset, time, left, right)

(***************************************************************************)
(* Whether a residual counts as true if the test stops now (stop_default). *)
(* Next and Always lean to true, Eventually to false (Leaning).            *)
(***************************************************************************)
(* As if an Eventually were given the benefit of the doubt *)
LeaningTrue(derived) == TRUE
Leaning(derived) == derived \in {"Once", "Always"}

StopDefaultCase(residual) ==
    LET left == StopDefault(residual.left)
        right == StopDefault(residual.right)
    IN  CASE residual.op = "True" -> TRUE
          [] residual.op = "False" -> FALSE
          [] residual.op \in {"Once", "Always", "Eventually"} -> Leaning(residual.op)
          [] residual.op \in {"And", "AndAlways"} -> left /\ right
          [] residual.op \in {"Or", "OrEventually"} -> left \/ right
          [] residual.op = "Implies" -> left => right
==============================================================================
