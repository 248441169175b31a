--------------------------- MODULE VerifierProofs ---------------------------
(***************************************************************************)
(* Theorems about the verifier, for every specification and traces of any  *)
(* length: its verdicts are those of the reference on the whole trace, and *)
(* what it reports of an exported Always is every failure, rightly dated,  *)
(* and none twice.                                                         *)
(***************************************************************************)
EXTENDS LtlProofs

-----------------------------------------------------------------------------
(***************************************************************************)
(* The verifier, along every trace that goes on from the states so far.    *)
(* Until a property is violated its state stands for the property itself;  *)
(* its first violation is at the first state that refutes it.              *)
(***************************************************************************)
Extensions(seen) ==
    {tr \in Traces : /\ Len(seen) <= Len(tr)
                     /\ \A k \in 1..Len(seen) : tr[k] = seen[k]}

Tracked(property, s, seen) ==
    IF Len(seen) = 0 THEN property = Initial(Formula(s, TRUE))
    ELSE /\ property.is \in {"DefinitelyTrue", "Residual"}
         /\ \A tr \in Extensions(seen) :
              /\ property.is = "DefinitelyTrue" =>
                     Signal(tr, s, TRUE, 1).known[Len(seen)] = 1
              /\ property.is = "Residual" =>
                     /\ Signal(tr, s, TRUE, 1).known[Len(seen)] = 0
                     /\ Stands(property.residual, Signal(tr, s, TRUE, 1),
                               Len(seen), tr)

FoundAt(first, s, seen) ==
    /\ first \in 1..Len(seen)
    /\ \A tr \in Extensions(seen) :
         /\ Signal(tr, s, TRUE, 1).known[first] = -1
         /\ first > 1 => Signal(tr, s, TRUE, 1).known[first - 1] = 0

LEMMA ExtensionsShrink ==
    ASSUME NEW seen \in Traces, NEW entry \in [time : Nat, state : States],
           NEW more, more = Append(seen, entry),
           seen # <<>> => seen[Len(seen)].time <= entry.time
    PROVE  /\ more \in Traces /\ Len(more) = Len(seen) + 1
           /\ more[Len(more)] = entry
           /\ Extensions(more) \subseteq Extensions(seen)
           /\ \A tr \in Extensions(more) :
                /\ tr \in Traces /\ Len(more) \in 1..Len(tr)
                /\ tr[Len(more)] = entry
<1> DEFINE E == [time : Nat, state : States]
<1>1. seen \in Seq(E) /\ Len(seen) \in Nat
  BY Entries
<1>2. /\ more \in Seq(E) /\ Len(more) = Len(seen) + 1
      /\ \A k \in 1..Len(seen) : more[k] = seen[k]
      /\ more[Len(seen) + 1] = entry
  <2> HIDE DEF E
  <2> QED
    BY <1>1, AppendProperties DEF E
<1>3. \A j, k \in 1..Len(more) : j <= k => more[j].time <= more[k].time
  <2> SUFFICES ASSUME NEW j \in 1..Len(more), NEW k \in 1..Len(more), j <= k
               PROVE  more[j].time <= more[k].time
    OBVIOUS
  <2>1. entry.time \in Nat
    OBVIOUS
  <2>2. CASE k \in 1..Len(seen)
    <3>1. j \in 1..Len(seen)
      BY <1>1, <1>2, <2>2
    <3> QED
      BY <1>2, <2>2, <3>1, Entries
  <2>3. CASE k = Len(seen) + 1 /\ j \in 1..Len(seen)
    <3>1. Len(seen) \in 1..Len(seen) /\ j <= Len(seen) /\ seen # <<>>
      BY <1>1, <2>3
    <3>2. seen[j].time <= seen[Len(seen)].time /\ seen[j].time \in Nat
          /\ seen[Len(seen)].time \in Nat
      BY <2>3, <3>1, Entries
    <3> QED
      BY <1>2, <2>1, <2>3, <3>1, <3>2
  <2>4. CASE k = Len(seen) + 1 /\ j = Len(seen) + 1
    BY <1>2, <2>1, <2>4
  <2> QED
    BY <1>1, <1>2, <2>2, <2>3, <2>4
<1>4. more \in Traces
  BY <1>2, <1>3 DEF Traces
<1>5. ASSUME NEW tr \in Extensions(more)
      PROVE  tr \in Extensions(seen)
  <2>1. tr \in Traces /\ Len(more) <= Len(tr)
        /\ \A k \in 1..Len(more) : tr[k] = more[k]
    BY DEF Extensions
  <2>2. Len(tr) \in Nat
    BY <2>1, Entries
  <2>3. \A k \in 1..Len(seen) : k \in 1..Len(more)
    BY <1>1, <1>2
  <2> QED
    BY <1>1, <1>2, <2>1, <2>2, <2>3 DEF Extensions
<1>6. ASSUME NEW tr \in Extensions(more)
      PROVE  /\ tr \in Traces /\ Len(more) \in 1..Len(tr)
             /\ tr[Len(more)] = entry
  <2>1. tr \in Traces /\ Len(more) <= Len(tr)
        /\ \A k \in 1..Len(more) : tr[k] = more[k]
    BY DEF Extensions
  <2>2. Len(tr) \in Nat
    BY <2>1, Entries
  <2>3. Len(more) \in 1..Len(more) /\ Len(more) \in 1..Len(tr)
    BY <1>1, <1>2, <2>1, <2>2
  <2> QED
    BY <1>2, <2>1, <2>3
<1> QED
  BY <1>2, <1>4, <1>5, <1>6

LEMMA NextValueSays ==
    ASSUME Recursive, NEW seen \in Traces, NEW state \in States, NEW time \in Nat,
           NEW more, more = Append(seen, [time |-> time, state |-> state]),
           seen # <<>> => seen[Len(seen)].time <= time,
           NEW s \in Syntaxes, NEW property, Tracked(property, s, seen),
           ~IsSettled(property),
           NEW v, v = ValueOf(property, state, time)
    PROVE  \A tr \in Extensions(more) :
             /\ Says(v, Signal(tr, s, TRUE, 1), Len(more), tr)
             /\ Len(seen) > 0 => Signal(tr, s, TRUE, 1).known[Len(seen)] = 0
<1> DEFINE entry == [time |-> time, state |-> state]
<1>1. entry \in [time : Nat, state : States] /\ entry.time = time
      /\ entry.state = state
  OBVIOUS
<1>2. /\ more \in Traces /\ Len(more) = Len(seen) + 1
      /\ Extensions(more) \subseteq Extensions(seen)
      /\ \A tr \in Extensions(more) :
           tr \in Traces /\ Len(more) \in 1..Len(tr) /\ tr[Len(more)] = entry
  <2> HIDE DEF entry
  <2> QED
    BY <1>1, ExtensionsShrink DEF entry
<1> SUFFICES ASSUME NEW tr \in Extensions(more)
             PROVE  /\ Says(v, Signal(tr, s, TRUE, 1), Len(more), tr)
                    /\ Len(seen) > 0 => Signal(tr, s, TRUE, 1).known[Len(seen)] = 0
  OBVIOUS
<1> DEFINE x == Signal(tr, s, TRUE, 1)
           n == Len(more)
<1>3. tr \in Traces /\ n \in 1..Len(tr) /\ tr[n].time = time /\ tr[n].state = state
      /\ tr \in Extensions(seen)
  BY <1>1, <1>2
<1>4. /\ tr \in Seq([time : Nat, state : States])
      /\ Len(tr) \in Nat /\ Len(seen) \in Nat /\ 1 \in 1..Len(tr)
  <2>1. /\ tr \in Seq([time : Nat, state : States])
        /\ Len(tr) \in Nat /\ Len(seen) \in Nat
    BY <1>3, Entries
  <2> QED
    BY <1>3, <2>1
<1>5. Faithful(tr, s, TRUE, 1)
  BY <1>3, <1>4, EvaluatorIsFaithful
<1>6. IsSignal(x, 1, Len(tr)) /\ IsSignal(x, n, Len(tr))
  <2>1. IsSignal(x, 1, Len(tr))
    BY <1>5 DEF Faithful
  <2>2. n..Len(tr) \subseteq 1..Len(tr)
    BY <1>3, <1>4
  <2> QED
    BY <2>1, <2>2 DEF IsSignal
<1>7. Follows(v, x, n, tr) /\ (Len(seen) > 0 => x.known[Len(seen)] = 0)
  <2>1. CASE Len(seen) = 0
    <3>1. property = Initial(Formula(s, TRUE)) /\ n = 1
      BY <1>2, <2>1 DEF Tracked
    <3>2. v = Evaluate(Formula(s, TRUE), state, time)
      BY <3>1 DEF ValueOf, Initial
    <3>3. v = ValueIn(s, TRUE, tr[1].state, tr[1].time)
      BY <1>3, <3>1, <3>2 DEF ValueIn
    <3>4. Follows(v, x, 1, tr)
      BY <1>5, <3>3 DEF Faithful
    <3>5. n = 1
      BY <3>1
    <3> HIDE DEF x, n
    <3> QED
      BY <2>1, <3>4, <3>5
  <2>2. CASE Len(seen) # 0
    <3>1. property.is = "Residual"
      BY <2>2 DEF Tracked, IsSettled
    <3>2. x.known[Len(seen)] = 0 /\ Stands(property.residual, x, Len(seen), tr)
      BY <1>3, <2>2, <3>1 DEF Tracked
    <3>3. v = StepAt(property.residual, tr, n)
      BY <1>3, <3>1 DEF ValueOf, StepAt
    <3>4. Len(seen) \in 0..Len(tr) /\ Len(seen) < Len(tr) /\ n = Len(seen) + 1
      BY <1>2, <1>3, <1>4
    <3>5. Behaves(property.residual, x, Len(seen), tr)
      BY <3>2 DEF Stands
    <3> HIDE DEF x, n
    <3>6. Follows(StepAt(property.residual, tr, Len(seen) + 1), x, Len(seen) + 1, tr)
      BY <1>4, <3>4, <3>5, Unrolled
    <3> QED
      BY <3>2, <3>3, <3>4, <3>6
  <2> QED
    BY <2>1, <2>2
<1> HIDE DEF x, n
<1>8. Says(v, x, n, tr)
  BY <1>3, <1>6, <1>7, WhatFollows DEF Recursive
<1> QED
  BY <1>7, <1>8 DEF x, n

LEMMA GoesOnTracked ==
    ASSUME Recursive, NEW seen \in Traces, NEW state \in States, NEW time \in Nat,
           NEW more, more = Append(seen, [time |-> time, state |-> state]),
           seen # <<>> => seen[Len(seen)].time <= time,
           NEW s \in Syntaxes, NEW property, Tracked(property, s, seen),
           ~IsSettled(property),
           NEW v, v = ValueOf(property, state, time)
    PROVE  /\ ~IsFalse(v) => Tracked(AfterValue(v), s, more)
           /\ IsFalse(v) => FoundAt(Len(more), s, more)
<1>1. Len(seen) \in Nat /\ Len(more) = Len(seen) + 1 /\ more \in Traces
  <2> DEFINE entry == [time |-> time, state |-> state]
  <2>1. entry \in [time : Nat, state : States] /\ entry.time = time
    OBVIOUS
  <2>2. more = Append(seen, entry)
    OBVIOUS
  <2> HIDE DEF entry
  <2>3. Len(seen) \in Nat
    BY Entries
  <2>4. seen # <<>> => seen[Len(seen)].time <= entry.time
    BY <2>1
  <2>5. /\ more \in Traces /\ Len(more) = Len(seen) + 1
        /\ Extensions(more) \subseteq Extensions(seen)
    BY ONLY seen \in Traces, <2>1, <2>2, <2>4, ExtensionsShrink
  <2> QED
    BY <2>3, <2>5
<1>2. \A tr \in Extensions(more) :
        /\ Says(v, Signal(tr, s, TRUE, 1), Len(more), tr)
        /\ Len(seen) > 0 => Signal(tr, s, TRUE, 1).known[Len(seen)] = 0
  BY NextValueSays
<1>3. more \in Extensions(more)
  <2>1. Len(more) <= Len(more)
    BY <1>1
  <2> QED
    BY <1>1, <2>1 DEF Extensions
<1>4. IsTrue(v) \/ IsFalse(v) \/ IsPending(v)
  BY <1>2, <1>3 DEF Says
<1>5. Len(more) # 0 /\ Len(more) \in 1..Len(more)
      /\ (Len(more) > 1 => Len(seen) > 0 /\ Len(more) - 1 = Len(seen))
  BY <1>1
<1>6. CASE IsTrue(v)
  <2>1. AfterValue(v) = DefinitelyTrue /\ ~IsFalse(v)
    BY <1>2, <1>3, <1>6 DEF AfterValue, Says
  <2>2. DefinitelyTrue.is = "DefinitelyTrue"
    BY DEF DefinitelyTrue
  <2>3. \A tr \in Extensions(more) : Signal(tr, s, TRUE, 1).known[Len(more)] = 1
    BY <1>2, <1>6 DEF Says
  <2> QED
    BY <1>5, <2>1, <2>2, <2>3 DEF Tracked
<1>7. CASE IsPending(v)
  <2>1. AfterValue(v) = Stepping(v.residual) /\ ~IsFalse(v)
    BY <1>2, <1>3, <1>7 DEF AfterValue, Says
  <2>2. /\ Stepping(v.residual).is = "Residual"
        /\ Stepping(v.residual).residual = v.residual
    BY DEF Stepping
  <2>3. \A tr \in Extensions(more) :
          /\ Signal(tr, s, TRUE, 1).known[Len(more)] = 0
          /\ Stands(v.residual, Signal(tr, s, TRUE, 1), Len(more), tr)
    BY <1>2, <1>7 DEF Says
  <2> QED
    BY <1>5, <2>1, <2>2, <2>3 DEF Tracked
<1>8. CASE IsFalse(v)
  <2>1. \A tr \in Extensions(more) : Signal(tr, s, TRUE, 1).known[Len(more)] = -1
    BY <1>2, <1>8 DEF Says
  <2> QED
    BY <1>2, <1>5, <1>8, <2>1 DEF FoundAt
<1> QED
  BY <1>4, <1>6, <1>7, <1>8

LEMMA StaysTracked ==
    ASSUME Recursive, NEW seen \in Traces, NEW entry \in [time : Nat, state : States],
           NEW more, more = Append(seen, entry),
           seen # <<>> => seen[Len(seen)].time <= entry.time,
           NEW s \in Syntaxes, NEW property, Tracked(property, s, seen),
           IsSettled(property)
    PROVE  Tracked(property, s, more)
<1>1. /\ more \in Traces /\ Len(more) = Len(seen) + 1
      /\ Extensions(more) \subseteq Extensions(seen)
      /\ \A tr \in Extensions(more) : tr \in Traces /\ Len(more) \in 1..Len(tr)
  BY ExtensionsShrink
<1>2. Len(seen) \in Nat
  BY Entries
<1>3. property.is = "DefinitelyTrue" /\ Len(seen) # 0
  <2>1. CASE Len(seen) = 0
    <3>1. property.is = "Initial"
      BY <2>1 DEF Tracked, Initial
    <3> QED
      BY <3>1 DEF IsSettled
  <2>2. CASE Len(seen) # 0
    BY <2>2 DEF Tracked, IsSettled
  <2> QED
    BY <2>1, <2>2
<1>4. ASSUME NEW tr \in Extensions(more)
      PROVE  Signal(tr, s, TRUE, 1).known[Len(more)] = 1
  <2> DEFINE x == Signal(tr, s, TRUE, 1)
  <2>1. tr \in Traces /\ tr \in Extensions(seen) /\ Len(more) \in 1..Len(tr)
    BY <1>1
  <2>2. Len(tr) \in Nat
    BY <2>1, Entries
  <2>3. 1 \in 1..Len(tr) /\ Len(seen) \in 1..Len(tr) /\ Len(seen) <= Len(more)
    BY <1>1, <1>2, <1>3, <2>1, <2>2
  <2>4. IsSignal(x, 1, Len(tr))
    BY <2>1, <2>3, EvaluatorIsFaithful DEF Faithful
  <2>5. x.known[Len(seen)] = 1
    BY <1>3, <2>1 DEF Tracked
  <2> HIDE DEF x
  <2>6. x.known[Len(more)] = 1
    BY <2>1, <2>3, <2>4, <2>5 DEF IsSignal
  <2> QED
    BY <2>6 DEF x
<1>5. Len(more) # 0
  BY <1>1, <1>2
<1> QED
  BY <1>3, <1>4, <1>5 DEF Tracked

-----------------------------------------------------------------------------
(***************************************************************************)
(* A property of the verifier, between two states: what its state and the  *)
(* list of its violations say, given the states seen.                      *)
(***************************************************************************)
Unmet(property, s) == property = Initial(Formula(s, TRUE))
IsStepping(property) == property.is = "Residual"

Listed(list, seen) ==
    /\ \E S : list \in Seq(S)
    /\ \A k \in DOMAIN list : list[k].at \in 1..Len(seen)
Decided(property, s, list, seen) ==
    IF list = <<>> THEN Tracked(property, s, seen)
                   ELSE FoundAt(list[1].at, s, seen)
Shaped(property, s) ==
    \/ Unmet(property, s) \/ IsSettled(property)
    \/ IsStepping(property) /\ WellBuilt(property.residual)
WithoutEnd(s) == s.op = "Always" /\ s.bound = NoEnd
Watching(property, s) ==
    WithoutEnd(s) => \/ Unmet(property, s)
                     \/ IsStepping(property) /\ Endless(property.residual)

Sound(property, s, list, seen) ==
    /\ Listed(list, seen)
    /\ Decided(property, s, list, seen)
    /\ Shaped(property, s)
    /\ Watching(property, s)

LEMMA StatesOfProperties ==
    /\ \A formula : Initial(formula).is = "Initial"
                    /\ Initial(formula).formula = formula
    /\ \A r : Stepping(r).is = "Residual" /\ Stepping(r).residual = r
    /\ DefinitelyTrue.is = "DefinitelyTrue" /\ DefinitelyFalse.is = "DefinitelyFalse"
  BY DEF Initial, Stepping, DefinitelyTrue, DefinitelyFalse

LEMMA ListedLater ==
    ASSUME NEW list, NEW seen, NEW more, Len(seen) \in Nat,
           Len(more) = Len(seen) + 1, Listed(list, seen),
           NEW e, e.at = Len(more), NEW longer, longer = Append(list, e)
    PROVE  /\ Listed(list, more) /\ Listed(longer, more)
           /\ longer # <<>>
           /\ list = <<>> => longer[1].at = Len(more)
           /\ list # <<>> => longer[1].at = list[1].at
<1>1. PICK S : list \in Seq(S)
  BY DEF Listed
<1>2. e.at = Len(more)
  OBVIOUS
<1>3. longer = Append(list, e)
  OBVIOUS
<1>4. list \in Seq(S \cup {e}) /\ Len(list) \in Nat /\ DOMAIN list = 1..Len(list)
  BY <1>1, SeqMonotonic, LenProperties
<1>5. /\ longer \in Seq(S \cup {e})
      /\ Len(longer) = Len(list) + 1 /\ DOMAIN longer = 1..(Len(list) + 1)
      /\ \A k \in 1..Len(list) : longer[k] = list[k]
      /\ longer[Len(list) + 1] = e
  <2> DEFINE T == S \cup {e}
  <2>1. list \in Seq(T) /\ e \in T
    BY <1>4
  <2> HIDE DEF T
  <2>2. /\ longer \in Seq(T)
        /\ Len(longer) = Len(list) + 1
        /\ \A k \in 1..Len(list) : longer[k] = list[k]
        /\ longer[Len(list) + 1] = e
    BY <1>3, <2>1, AppendProperties
  <2>3. DOMAIN longer = 1..Len(longer)
    BY <2>2, LenProperties
  <2> QED
    BY <2>2, <2>3 DEF T
<1>6. \A k \in DOMAIN list : list[k].at \in 1..Len(more)
  BY DEF Listed
<1>7. Listed(list, more)
  BY <1>1, <1>6 DEF Listed
<1>8. ASSUME NEW k \in DOMAIN longer PROVE longer[k].at \in 1..Len(more)
  <2>1. CASE k \in 1..Len(list)
    BY <1>4, <1>5, <1>6, <2>1
  <2>2. CASE k = Len(list) + 1
    <3>1. Len(more) \in 1..Len(more)
      OBVIOUS
    <3> QED
      BY <1>2, <1>5, <2>2, <3>1
  <2> QED
    BY <1>4, <1>5, <2>1, <2>2
<1>9. Listed(longer, more)
  BY <1>5, <1>8 DEF Listed
<1>10. longer # <<>>
  <2>1. Len(longer) # 0
    BY <1>4, <1>5
  <2> QED
    BY <2>1
<1>11. CASE list = <<>>
  <2>1. Len(list) = 0
    BY <1>11
  <2>2. longer[1] = e
    BY <1>5, <2>1
  <2> QED
    BY <1>2, <1>7, <1>9, <1>10, <1>11, <2>2
<1>12. CASE list # <<>>
  <2>1. 1 \in 1..Len(list)
    BY <1>1, <1>4, <1>12, EmptySeq
  <2>2. longer[1] = list[1]
    BY <1>5, <2>1
  <2> QED
    BY <1>7, <1>9, <1>10, <1>12, <2>2
<1> QED
  BY <1>11, <1>12

LEMMA FoundStaysFound ==
    ASSUME NEW seen, NEW more, Len(seen) \in Nat, Len(more) = Len(seen) + 1,
           Extensions(more) \subseteq Extensions(seen),
           NEW s, NEW first, FoundAt(first, s, seen)
    PROVE  FoundAt(first, s, more)
<1>1. first \in 1..Len(more)
  BY DEF FoundAt
<1> QED
  BY <1>1 DEF FoundAt

LEMMA NextValueGood ==
    ASSUME Recursive, NEW s \in Syntaxes, NEW property, Shaped(property, s),
           ~IsSettled(property), NEW state \in States, NEW time \in Nat,
           NEW v, v = ValueOf(property, state, time)
    PROVE  GoodValue(v)
<1>1. CASE Unmet(property, s)
  <2>1. PICK yes \in BOOLEAN : yes = TRUE
    OBVIOUS
  <2>2. Formula(s, yes) \in Formulas
    BY DEF Formulas
  <2>3. v = Evaluate(Formula(s, yes), state, time)
    <3>1. v = Evaluate(Formula(s, TRUE), state, time)
      BY <1>1, StatesOfProperties DEF Unmet, ValueOf
    <3> QED
      BY <2>1, <3>1
  <2>4. SyntaxRecursion
    BY DEF Recursive
  <2> QED
    BY <2>2, <2>3, <2>4, EvaluateGood
<1>2. CASE IsStepping(property) /\ WellBuilt(property.residual)
  <2>1. v = Step(property.residual, state, time)
    BY <1>2 DEF IsStepping, ValueOf
  <2> QED
    BY <1>2, <2>1, StepGood
<1> QED
  BY <1>1, <1>2 DEF Shaped

LEMMA NextValueGoesOn ==
    ASSUME Recursive, NEW s \in Syntaxes, NEW property, Watching(property, s),
           WithoutEnd(s), NEW state \in States, NEW time \in Nat,
           NEW v, v = ValueOf(property, state, time)
    PROVE  GoesOn(v)
<1>1. CASE Unmet(property, s)
  <2>1. PICK yes \in BOOLEAN : yes = TRUE
    OBVIOUS
  <2>2. v = ValueIn(s, yes, state, time)
    <3>1. v = Evaluate(Formula(s, TRUE), state, time)
      BY <1>1, StatesOfProperties DEF Unmet, ValueOf
    <3> QED
      BY <2>1, <3>1 DEF ValueIn
  <2>3. Universal(s, yes) /\ s.op \in {"Always", "Eventually"}
    BY <2>1 DEF WithoutEnd, Universal
  <2>4. SyntaxRecursion
    BY DEF Recursive
  <2>5. ValueIn(s, yes, state, time) =
            IF Universal(s, yes)
            THEN AlwaysValue(Formula(s.sub, yes), EndOf(s.bound, time), time,
                             ValueIn(s.sub, yes, state, time))
            ELSE EventuallyValue(Formula(s.sub, yes), EndOf(s.bound, time), time,
                                 ValueIn(s.sub, yes, state, time))
    BY <2>3, <2>4, ValueOfForms
  <2>6. EndOf(s.bound, time) = NoEnd
    BY DEF WithoutEnd, EndOf
  <2>7. v = AlwaysValue(Formula(s.sub, yes), NoEnd, time,
                        ValueIn(s.sub, yes, state, time))
    BY <2>2, <2>3, <2>5, <2>6
  <2> QED
    BY <2>7, AlwaysGoesOn
<1>2. CASE IsStepping(property) /\ Endless(property.residual)
  <2>1. v = Step(property.residual, state, time)
    BY <1>2 DEF IsStepping, ValueOf
  <2>2. ResidualRecursion
    BY DEF Recursive
  <2> QED
    BY <1>2, <2>1, <2>2, EndlessGoesOn
<1> QED
  BY <1>1, <1>2 DEF Watching

(***************************************************************************)
(* Verifier::step on one property keeps all of this.                       *)
(***************************************************************************)
LEMMA SoundStep ==
    ASSUME Recursive, NEW seen \in Traces, NEW state \in States, NEW time \in Nat,
           NEW more, more = Append(seen, [time |-> time, state |-> state]),
           seen # <<>> => seen[Len(seen)].time <= time,
           NEW s \in Syntaxes, NEW property, NEW list,
           Sound(property, s, list, seen), ~IsSettled(property),
           NEW v, v = ValueOf(property, state, time)
    PROVE  /\ IsValue(v)
           /\ Sound(AfterValue(v), s, Reported(list, v, Len(more)), more)
<1>1. /\ Listed(list, seen) /\ Decided(property, s, list, seen)
      /\ Shaped(property, s) /\ Watching(property, s)
  BY DEF Sound
<1>2. GoodValue(v)
  BY <1>1, NextValueGood
<1>3. WithoutEnd(s) => GoesOn(v)
  BY <1>1, NextValueGoesOn
<1>4. /\ Len(seen) \in Nat /\ Len(more) = Len(seen) + 1 /\ more \in Traces
      /\ Extensions(more) \subseteq Extensions(seen)
  <2> DEFINE entry == [time |-> time, state |-> state]
  <2>1. entry \in [time : Nat, state : States] /\ entry.time = time
    OBVIOUS
  <2>2. more = Append(seen, entry)
    OBVIOUS
  <2> HIDE DEF entry
  <2>3. Len(seen) \in Nat
    BY Entries
  <2>4. seen # <<>> => seen[Len(seen)].time <= entry.time
    BY <2>1
  <2>5. /\ more \in Traces /\ Len(more) = Len(seen) + 1
        /\ Extensions(more) \subseteq Extensions(seen)
    BY ONLY seen \in Traces, <2>1, <2>2, <2>4, ExtensionsShrink
  <2> QED
    BY <2>3, <2>5
<1>5. list = <<>> => /\ ~IsFalse(v) => Tracked(AfterValue(v), s, more)
                     /\ IsFalse(v) => FoundAt(Len(more), s, more)
  BY <1>1, GoesOnTracked DEF Decided
<1>6. ASSUME list # <<>> PROVE FoundAt(list[1].at, s, more)
  <2>1. PICK first : first = list[1].at
    OBVIOUS
  <2>2. FoundAt(first, s, seen)
    BY <1>1, <1>6, <2>1 DEF Decided
  <2>3. FoundAt(first, s, more)
    BY <1>4, <2>2, FoundStaysFound
  <2> QED
    BY <2>1, <2>3
<1>7. /\ IsTrue(v) \/ IsFalse(v) \/ IsPending(v)
      /\ ~(IsTrue(v) /\ IsFalse(v)) /\ ~(IsTrue(v) /\ IsPending(v))
      /\ ~(IsFalse(v) /\ IsPending(v))
      /\ IsPending(v) => WellBuilt(v.residual)
      /\ IsFalse(v) => GoodNext(v.next)
  BY <1>2 DEF GoodValue, IsValue, IsTrue, IsFalse, IsPending
<1> DEFINE longer == Append(list, [at |-> Len(more), violation |-> v.violation])
<1>8. /\ Listed(list, more) /\ Listed(longer, more) /\ longer # <<>>
      /\ list = <<>> => longer[1].at = Len(more)
      /\ list # <<>> => longer[1].at = list[1].at
  <2> DEFINE e == [at |-> Len(more), violation |-> v.violation]
  <2>1. e.at = Len(more) /\ longer = Append(list, e)
    OBVIOUS
  <2> HIDE DEF e, longer
  <2>2. PICK f : f = e
    OBVIOUS
  <2>3. PICK other : other = Append(list, f)
    OBVIOUS
  <2>4. /\ f.at = Len(more) /\ Listed(list, seen)
        /\ Len(seen) \in Nat /\ Len(more) = Len(seen) + 1
    BY <1>1, <1>4, <2>1, <2>2
  <2>5. Listed(list, more)
    BY ONLY <2>3, <2>4, ListedLater
  <2>6. Listed(other, more)
    BY ONLY <2>3, <2>4, ListedLater
  <2>7. other # <<>>
    BY ONLY <2>3, <2>4, ListedLater
  <2>8. list = <<>> => other[1].at = Len(more)
    BY ONLY <2>3, <2>4, ListedLater
  <2>9. list # <<>> => other[1].at = list[1].at
    BY ONLY <2>3, <2>4, ListedLater
  <2> QED
    BY <2>1, <2>2, <2>3, <2>5, <2>6, <2>7, <2>8, <2>9
<1>9. Reported(list, v, Len(more)) = IF IsFalse(v) THEN longer ELSE list
  BY DEF Reported
<1> HIDE DEF longer
<1>10. Listed(Reported(list, v, Len(more)), more)
  BY <1>8, <1>9
<1>11. Decided(AfterValue(v), s, Reported(list, v, Len(more)), more)
  BY <1>5, <1>6, <1>8, <1>9 DEF Decided
<1>12. AfterValue(v) = IF IsTrue(v) THEN DefinitelyTrue
                       ELSE IF IsPending(v) THEN Stepping(v.residual)
                       ELSE IF v.next = <<>> THEN DefinitelyFalse
                       ELSE Stepping(v.next[1])
  BY DEF AfterValue
<1>13. Shaped(AfterValue(v), s)
  <2>1. CASE IsTrue(v) \/ (IsFalse(v) /\ v.next = <<>>)
    <3>1. AfterValue(v) \in {DefinitelyTrue, DefinitelyFalse}
      BY <1>7, <1>12, <2>1
    <3> QED
      BY <3>1, StatesOfProperties DEF Shaped, IsSettled
  <2>2. CASE IsPending(v)
    <3>1. AfterValue(v) = Stepping(v.residual) /\ WellBuilt(v.residual)
      BY <1>7, <1>12, <2>2
    <3> QED
      BY <3>1, StatesOfProperties DEF Shaped, IsStepping
  <2>3. CASE IsFalse(v) /\ v.next # <<>>
    <3>1. AfterValue(v) = Stepping(v.next[1]) /\ WellBuilt(v.next[1])
      BY <1>7, <1>12, <2>3, NextsGood
    <3> QED
      BY <3>1, StatesOfProperties DEF Shaped, IsStepping
  <2> QED
    BY <1>7, <2>1, <2>2, <2>3
<1>14. ASSUME WithoutEnd(s)
       PROVE  IsStepping(AfterValue(v)) /\ Endless(AfterValue(v).residual)
  <2>1. /\ ~IsTrue(v)
        /\ IsPending(v) => Endless(v.residual)
        /\ ~IsPending(v) => v.next # <<>> /\ Endless(v.next[1])
    BY <1>3, <1>14 DEF GoesOn
  <2>2. \E r : AfterValue(v) = Stepping(r) /\ Endless(r)
    BY <1>12, <2>1
  <2> QED
    BY <2>2, StatesOfProperties DEF IsStepping
<1> QED
  BY <1>2, <1>10, <1>11, <1>13, <1>14 DEF GoodValue, Sound, Watching

LEMMA SoundRest ==
    ASSUME Recursive, NEW seen \in Traces, NEW entry \in [time : Nat, state : States],
           NEW more, more = Append(seen, entry),
           seen # <<>> => seen[Len(seen)].time <= entry.time,
           NEW s \in Syntaxes, NEW property, NEW list,
           Sound(property, s, list, seen), IsSettled(property)
    PROVE  Sound(property, s, list, more)
<1>2. /\ Len(seen) \in Nat /\ Len(more) = Len(seen) + 1
      /\ Extensions(more) \subseteq Extensions(seen)
  <2>1. Len(seen) \in Nat
    BY Entries
  <2> QED
    BY <2>1, ExtensionsShrink
<1>3. /\ Listed(list, seen) /\ Decided(property, s, list, seen)
      /\ Shaped(property, s) /\ Watching(property, s)
  BY DEF Sound
<1>4. Listed(list, more)
  <2> DEFINE e == [at |-> Len(more)]
  <2>1. e.at = Len(more)
    OBVIOUS
  <2> HIDE DEF e
  <2>2. PICK longer : longer = Append(list, e)
    OBVIOUS
  <2> QED
    BY <1>2, <1>3, <2>1, <2>2, ListedLater
<1>5. list = <<>> => Tracked(property, s, more)
  BY <1>3, StaysTracked DEF Decided
<1>6. ASSUME list # <<>> PROVE FoundAt(list[1].at, s, more)
  <2>1. PICK first : first = list[1].at
    OBVIOUS
  <2>2. FoundAt(first, s, seen)
    BY <1>3, <1>6, <2>1 DEF Decided
  <2>3. FoundAt(first, s, more)
    BY <1>2, <2>2, FoundStaysFound
  <2> QED
    BY <2>1, <2>3
<1> QED
  BY <1>3, <1>4, <1>5, <1>6 DEF Sound, Decided

(***************************************************************************)
(* The inductive invariant of the verifier.                                *)
(***************************************************************************)
VerifierInv ==
    /\ specification \in Specifications
    /\ DOMAIN properties = Names /\ DOMAIN reports = Names
    /\ DOMAIN answers \subseteq Names
    /\ \A n \in DOMAIN answers : IsValue(answers[n])
    /\ trace \in Traces
    /\ running \in BOOLEAN
    /\ ~running => \A n \in Names : IsSettled(properties[n])
    /\ \A n \in Names :
          Sound(properties[n], specification[n], reports[n], trace)

LEMMA NamedSyntaxes ==
    ASSUME NEW exports \in Specifications, NEW n \in DOMAIN exports
    PROVE  exports[n] \in Syntaxes
  BY VerifierAssumption

LEMMA VerifierInit ==
    Init => VerifierInv
<1> SUFFICES ASSUME Init PROVE VerifierInv
  OBVIOUS
<1>1. /\ specification \in Specifications
      /\ properties = [n \in Names |-> Initial(Nnf(specification[n]))]
      /\ answers = <<>> /\ reports = [n \in Names |-> <<>>]
      /\ trace = <<>> /\ running = TRUE
  BY DEF Init
<1>2. trace \in Traces
  <2>1. trace \in Seq([time : Nat, state : States]) /\ Len(trace) = 0
    BY <1>1
  <2> QED
    BY <2>1 DEF Traces
<1>3. DOMAIN answers = {}
  BY <1>1
<1>4. ASSUME NEW n \in Names
      PROVE  Sound(properties[n], specification[n], reports[n], trace)
  <2>1. properties[n] = Initial(Formula(specification[n], TRUE))
    <3>1. properties[n] = Initial(Nnf(specification[n]))
      BY <1>1
    <3> QED
      BY <3>1 DEF Nnf, Formula
  <2>2. reports[n] = <<>> /\ Len(trace) = 0
    BY <1>1
  <2>3. Unmet(properties[n], specification[n])
    BY <2>1 DEF Unmet
  <2>4. Listed(reports[n], trace)
    <3>1. reports[n] \in Seq({}) /\ DOMAIN reports[n] = {}
      BY <2>2
    <3> QED
      BY <3>1 DEF Listed
  <2>5. Decided(properties[n], specification[n], reports[n], trace)
    BY <2>1, <2>2 DEF Decided, Tracked
  <2> QED
    BY <2>3, <2>4, <2>5 DEF Sound, Shaped, Watching
<1>5. DOMAIN properties = Names /\ DOMAIN reports = Names /\ running \in BOOLEAN
  BY <1>1
<1> QED
  BY <1>1, <1>2, <1>3, <1>4, <1>5 DEF VerifierInv

LEMMA AnsweredIsValue ==
    ASSUME NEW v, IsValue(v)
    PROVE  IsValue(Answered(v))
<1>1. CASE IsFalse(v)
  BY <1>1 DEF Answered, FalseValue, IsValue
<1>2. CASE ~IsFalse(v)
  BY <1>2 DEF Answered
<1> QED
  BY <1>1, <1>2

LEMMA VerifierStep ==
    ASSUME Recursive, VerifierInv, NEW state \in States, NEW wait \in Waits,
           StateChanged(state, wait)
    PROVE  VerifierInv'
<1> DEFINE time == wait + IF trace = <<>> THEN 0 ELSE trace[Len(trace)].time
           stepped == {m \in Names : ~IsSettled(properties[m])}
           values == [n \in stepped |-> ValueOf(properties[n], state, time)]
<1>1. /\ trace' = Append(trace, [time |-> time, state |-> state])
      /\ answers' = [n \in DOMAIN values |-> Answered(values[n])]
      /\ properties' = [n \in Names |->
             IF n \in DOMAIN values THEN AfterValue(values[n]) ELSE properties[n]]
      /\ reports' = [n \in Names |->
             IF n \in DOMAIN values
             THEN Reported(reports[n], values[n], Len(trace')) ELSE reports[n]]
      /\ specification' = specification
      /\ running' = HasPending'
  BY DEF StateChanged
<1>2. DOMAIN values = stepped
  OBVIOUS
<1>3. /\ specification \in Specifications /\ trace \in Traces
      /\ \A n \in Names :
            Sound(properties[n], specification[n], reports[n], trace)
  BY DEF VerifierInv
<1>4. time \in Nat /\ (trace # <<>> => trace[Len(trace)].time <= time)
  <2>1. wait \in Nat
    BY VerifierAssumption
  <2>2. CASE trace = <<>>
    BY <2>1, <2>2
  <2>3. CASE trace # <<>>
    <3>1. Len(trace) \in 1..Len(trace)
      <4>1. trace \in Seq([time : Nat, state : States])
        BY <1>3, Entries
      <4>2. Len(trace) \in Nat \ {0}
        BY <2>3, <4>1, EmptySeq
      <4> QED
        BY <4>2
    <3>2. trace[Len(trace)].time \in Nat
      BY <1>3, <3>1, Entries
    <3> QED
      BY <2>1, <2>3, <3>2
  <2> QED
    BY <2>2, <2>3
<1> HIDE DEF time
<1> DEFINE entry == [time |-> time, state |-> state]
<1>5. /\ entry \in [time : Nat, state : States] /\ trace' = Append(trace, entry)
      /\ trace # <<>> => trace[Len(trace)].time <= entry.time
  BY <1>1, <1>4
<1>12. trace' \in Traces
  <2> HIDE DEF entry
  <2> QED
    BY <1>3, <1>5, ExtensionsShrink
<1>6. \A n \in stepped : values[n] = ValueOf(properties[n], state, time)
  OBVIOUS
<1> HIDE DEF values
<1>7. ASSUME NEW n \in Names
      PROVE  /\ n \in stepped => IsValue(values[n])
             /\ Sound(properties'[n], specification[n], reports'[n], trace')
  <2>0. specification[n] \in Syntaxes
    BY <1>3, NamedSyntaxes DEF Names
  <2>1. CASE ~IsSettled(properties[n])
    <3>1. /\ properties'[n] = AfterValue(values[n])
          /\ reports'[n] = Reported(reports[n], values[n], Len(trace'))
          /\ values[n] = ValueOf(properties[n], state, time)
      BY <1>1, <1>2, <1>6, <2>1
    <3> HIDE DEF stepped
    <3>2. /\ IsValue(values[n])
          /\ Sound(AfterValue(values[n]), specification[n],
                   Reported(reports[n], values[n], Len(trace')), trace')
      BY <1>1, <1>3, <1>4, <2>0, <2>1, <3>1, SoundStep
    <3> QED
      BY <3>1, <3>2
  <2>2. CASE IsSettled(properties[n])
    <3>1. /\ properties'[n] = properties[n] /\ reports'[n] = reports[n]
          /\ n \notin stepped
      BY <1>1, <1>2, <2>2
    <3> HIDE DEF stepped, entry
    <3>2. Sound(properties[n], specification[n], reports[n], trace')
      BY <1>3, <1>5, <2>0, <2>2, SoundRest
    <3> QED
      BY <3>1, <3>2
  <2> QED
    BY <2>1, <2>2
<1>8. Names' = Names
  BY <1>1 DEF Names
<1>9. DOMAIN answers' \subseteq Names /\ \A n \in DOMAIN answers' : IsValue(answers'[n])
  <2>1. DOMAIN answers' = stepped /\ stepped \subseteq Names
    BY <1>1, <1>2
  <2>2. ASSUME NEW n \in stepped PROVE IsValue(answers'[n])
    <3>1. IsValue(values[n])
      BY <1>7, <2>1
    <3>2. answers'[n] = Answered(values[n])
      BY <1>1, <1>2
    <3> QED
      BY <3>1, <3>2, AnsweredIsValue
  <2> QED
    BY <2>1, <2>2
<1>10. DOMAIN properties' = Names /\ DOMAIN reports' = Names
  BY <1>1
<1>11. running' \in BOOLEAN
       /\ (~running' => \A n \in Names : IsSettled(properties'[n]))
  <2>1. running' = (\E n \in Names : ~IsSettled(properties'[n]))
    BY <1>1, <1>8 DEF HasPending, IsSettled
  <2> QED
    BY <2>1
<1> QED
  BY <1>1, <1>3, <1>7, <1>8, <1>9, <1>10, <1>11, <1>12 DEF VerifierInv

THEOREM VerifierInvariant ==
    Recursive => (Spec => []VerifierInv)
<1>1. ASSUME Recursive, VerifierInv, [Next]_vars PROVE VerifierInv'
  <2>1. CASE Next
    <3>1. PICK state \in States, wait \in Waits : StateChanged(state, wait)
      BY <2>1 DEF Next
    <3> QED
      BY <1>1, <3>1, VerifierStep
  <2>2. CASE UNCHANGED vars
    BY <1>1, <2>2 DEF VerifierInv, vars, Names
  <2> QED
    BY <1>1, <2>1, <2>2
<1>2. Recursive /\ VerifierInv /\ [Next]_vars => VerifierInv'
  BY <1>1
<1>3. SUFFICES ASSUME Recursive PROVE Spec => []VerifierInv
  OBVIOUS
<1> QED
  BY <1>2, <1>3, VerifierInit, PTL DEF Spec

-----------------------------------------------------------------------------
LEMMA SignalSays ==
    ASSUME NEW tr, NEW s, NEW n \in 1..Len(tr)
    PROVE  /\ Signal(tr, s, TRUE, 1).known[n] = Verdict(tr, s, 1, n)
           /\ Signal(tr, s, TRUE, 1).ends[n] = TrueAtEnd(tr, s, TRUE, 1, n)
<1> DEFINE x == Signal(tr, s, TRUE, 1)
<1>1. /\ x.known = [m \in 1..Len(tr) |-> IF TRUE THEN Verdict(tr, s, 1, m)
                                                ELSE -Verdict(tr, s, 1, m)]
      /\ x.ends = [m \in 1..Len(tr) |-> TrueAtEnd(tr, s, TRUE, 1, m)]
  BY DEF Signal
<1> HIDE DEF x
<1>2. x.known[n] = Verdict(tr, s, 1, n) /\ x.ends[n] = TrueAtEnd(tr, s, TRUE, 1, n)
  BY <1>1
<1> QED
  BY <1>2 DEF x

LEMMA StatesSeen ==
    ASSUME VerifierInv
    PROVE  /\ trace \in Extensions(trace) /\ Now \in Nat /\ Now = Len(trace)
           /\ Now > 0 => Now \in 1..Len(trace) /\ Len(trace) # 0
<1>1. trace \in Traces
  BY DEF VerifierInv
<1>2. Len(trace) \in Nat
  BY <1>1, Entries
<1> QED
  BY <1>1, <1>2 DEF Extensions, Now

LEMMA WhileUnreported ==
    ASSUME VerifierInv, Now > 0, NEW n \in Names, Unreported(n)
    PROVE  /\ properties[n].is \in {"DefinitelyTrue", "Residual"}
           /\ properties[n].is = "DefinitelyTrue" => Whole(n) = 1
           /\ properties[n].is = "Residual" =>
                /\ Whole(n) = 0
                /\ StopDefault(properties[n].residual)
                       <=> TrueAtEnd(trace, specification[n], TRUE, 1, Now)
<1> DEFINE s == specification[n]
           x == Signal(trace, s, TRUE, 1)
<1>1. /\ trace \in Extensions(trace) /\ Now \in 1..Len(trace)
      /\ Now = Len(trace) /\ Len(trace) # 0
  BY StatesSeen
<1>2. Tracked(properties[n], s, trace)
  BY DEF VerifierInv, Sound, Decided, Unreported
<1>3. /\ x.known[Now] = Whole(n)
      /\ x.ends[Now] = TrueAtEnd(trace, s, TRUE, 1, Now)
  BY <1>1, SignalSays DEF Whole
<1>4. /\ properties[n].is \in {"DefinitelyTrue", "Residual"}
      /\ properties[n].is = "DefinitelyTrue" => x.known[Now] = 1
      /\ properties[n].is = "Residual" =>
           x.known[Now] = 0 /\ Stands(properties[n].residual, x, Now, trace)
  BY <1>1, <1>2 DEF Tracked
<1> HIDE DEF x
<1>5. properties[n].is = "Residual" =>
        (StopDefault(properties[n].residual) <=> x.ends[Now])
  BY <1>4 DEF Stands
<1> QED
  BY <1>3, <1>4, <1>5

LEMMA FirstViolation ==
    ASSUME VerifierInv, Now > 0, NEW n \in Names, ~Unreported(n)
    PROVE  LET first == reports[n][1].at
           IN  /\ first \in 1..Now
               /\ Verdict(trace, specification[n], 1, first) = -1
               /\ first > 1 => Verdict(trace, specification[n], 1, first - 1) = 0
<1> DEFINE first == reports[n][1].at
           s == specification[n]
<1>1. FoundAt(first, s, trace)
  BY DEF VerifierInv, Sound, Decided, Unreported
<1>2. trace \in Extensions(trace) /\ Len(trace) \in Nat /\ Now = Len(trace)
  BY StatesSeen
<1>3. /\ first \in 1..Len(trace)
      /\ Signal(trace, s, TRUE, 1).known[first] = -1
      /\ first > 1 => Signal(trace, s, TRUE, 1).known[first - 1] = 0
  BY <1>1, <1>2 DEF FoundAt
<1> HIDE DEF first, s
<1>4. Verdict(trace, s, 1, first) = -1
  BY <1>3, SignalSays
<1>5. first > 1 => Verdict(trace, s, 1, first - 1) = 0
  <2>1. first > 1 => first - 1 \in 1..Len(trace)
    BY <1>2, <1>3
  <2> QED
    BY <1>3, <2>1, SignalSays
<1> QED
  BY <1>2, <1>3, <1>4, <1>5 DEF first, s

(***************************************************************************)
(* Each variable has its type: a property is in one of its four states,    *)
(* and every violation is listed at a state that was seen.                 *)
(***************************************************************************)
THEOREM TypeCorrect ==
    Recursive => (Spec => []TypeOK)
<1>1. ASSUME VerifierInv PROVE TypeOK
  <2>1. ASSUME NEW n \in Names
        PROVE  /\ properties[n].is \in
                     {"Initial", "Residual", "DefinitelyTrue", "DefinitelyFalse"}
               /\ \A k \in DOMAIN reports[n] : reports[n][k].at \in 1..Len(trace)
    <3>1. /\ Shaped(properties[n], specification[n])
          /\ Listed(reports[n], trace)
      BY <1>1 DEF VerifierInv, Sound
    <3>2. properties[n].is \in
              {"Initial", "Residual", "DefinitelyTrue", "DefinitelyFalse"}
      BY <3>1, StatesOfProperties DEF Shaped, Unmet, IsSettled, IsStepping
    <3> QED
      BY <3>1, <3>2 DEF Listed
  <2>2. \A k \in DOMAIN trace : trace[k].time \in Nat /\ trace[k].state \in States
    <3>1. trace \in Traces
      BY <1>1 DEF VerifierInv
    <3>2. DOMAIN trace = 1..Len(trace)
      BY <3>1, LenProperties DEF Traces
    <3> QED
      BY <3>1, <3>2, Entries
  <2> QED
    BY <1>1, <2>1, <2>2 DEF VerifierInv, TypeOK, IsValue
<1>2. VerifierInv => TypeOK
  BY <1>1
<1>3. SUFFICES ASSUME Recursive PROVE Spec => []TypeOK
  OBVIOUS
<1> QED
  BY <1>2, <1>3, VerifierInvariant, PTL

(***************************************************************************)
(* The verifier decides a property exactly when the states seen so far     *)
(* decide it, and as they do, and the first violation it reports comes     *)
(* with the first state that refutes the property: for every specification *)
(* and every sequence of states (Evaluator::evaluate, Evaluator::step).    *)
(***************************************************************************)
THEOREM VerdictsAreRight ==
    Recursive => (Spec => []VerdictsMatch)
<1>1. ASSUME VerifierInv PROVE VerdictsMatch
  <2> SUFFICES ASSUME Now > 0, NEW n \in Names
               PROVE  IF Unreported(n)
                      THEN /\ properties[n].is # "DefinitelyFalse"
                           /\ Whole(n) = IF IsSettled(properties[n]) THEN 1 ELSE 0
                      ELSE LET first == reports[n][1].at
                           IN  /\ Verdict(trace, specification[n], 1, first) = -1
                               /\ first > 1 =>
                                    Verdict(trace, specification[n], 1, first - 1) = 0
    BY DEF VerdictsMatch
  <2>1. CASE Unreported(n)
    <3>1. /\ properties[n].is \in {"DefinitelyTrue", "Residual"}
          /\ properties[n].is = "DefinitelyTrue" => Whole(n) = 1
          /\ properties[n].is = "Residual" => Whole(n) = 0
      BY <1>1, <2>1, WhileUnreported
    <3> QED
      BY <2>1, <3>1 DEF IsSettled
  <2>2. CASE ~Unreported(n)
    BY <1>1, <2>2, FirstViolation
  <2> QED
    BY <2>1, <2>2
<1>2. VerifierInv => VerdictsMatch
  BY <1>1
<1>3. SUFFICES ASSUME Recursive PROVE Spec => []VerdictsMatch
  OBVIOUS
<1> QED
  BY <1>2, <1>3, VerifierInvariant, PTL

(***************************************************************************)
(* Whenever the test stops with a property pending, the default its        *)
(* residual gives is what the property is worth on the trace that ends     *)
(* there (stop_default).                                                   *)
(***************************************************************************)
THEOREM StopDefaultsAreRight ==
    Recursive => (Spec => []StopDefaultsMatch)
<1>1. ASSUME VerifierInv PROVE StopDefaultsMatch
  <2> SUFFICES ASSUME Now > 0, NEW n \in Names, Unreported(n),
                      properties[n].is = "Residual"
               PROVE  StopDefault(properties[n].residual)
                          <=> TrueAtEnd(trace, specification[n], TRUE, 1, Now)
    BY DEF StopDefaultsMatch
  <2> QED
    BY <1>1, WhileUnreported
<1>2. VerifierInv => StopDefaultsMatch
  BY <1>1
<1>3. SUFFICES ASSUME Recursive PROVE Spec => []StopDefaultsMatch
  OBVIOUS
<1> QED
  BY <1>2, <1>3, VerifierInvariant, PTL

(***************************************************************************)
(* The runner never stops a test early: when it does, every property has   *)
(* been violated or is true whatever would follow, and none is an Always   *)
(* without end, violated or not (StepResult.has_pending, runner.rs).       *)
(***************************************************************************)
THEOREM TestsStopWhenDecided ==
    Recursive => (Spec => []StopsOnlyWhenDecided)
<1>1. ASSUME VerifierInv PROVE StopsOnlyWhenDecided
  <2> SUFFICES ASSUME ~running, NEW n \in Names
               PROVE  /\ ~Unreported(n) \/ Whole(n) = 1
                      /\ ~(IsAlways(n) /\ specification[n].bound = NoEnd)
    BY DEF StopsOnlyWhenDecided
  <2>1. IsSettled(properties[n])
    BY <1>1 DEF VerifierInv
  <2>2. ~Unmet(properties[n], specification[n]) /\ ~IsStepping(properties[n])
    BY <2>1, StatesOfProperties DEF IsSettled, Unmet, IsStepping
  <2>3. ~(IsAlways(n) /\ specification[n].bound = NoEnd)
    BY <1>1, <2>2 DEF VerifierInv, Sound, Watching, WithoutEnd, IsAlways
  <2>4. ASSUME Unreported(n) PROVE Whole(n) = 1
    <3>1. Tracked(properties[n], specification[n], trace)
      BY <1>1, <2>4 DEF VerifierInv, Sound, Decided, Unreported
    <3>2. Len(trace) # 0
      BY <2>2, <3>1 DEF Tracked, Unmet
    <3>3. Now > 0
      BY <1>1, <3>2, StatesSeen
    <3>4. properties[n].is = "DefinitelyTrue"
      BY <1>1, <2>2, <2>4, <3>3, WhileUnreported DEF IsStepping
    <3> QED
      BY <1>1, <2>4, <3>3, <3>4, WhileUnreported
  <2> QED
    BY <2>3, <2>4
<1>2. VerifierInv => StopsOnlyWhenDecided
  BY <1>1
<1>3. SUFFICES ASSUME Recursive PROVE Spec => []StopsOnlyWhenDecided
  OBVIOUS
<1> QED
  BY <1>2, <1>3, VerifierInvariant, PTL

-----------------------------------------------------------------------------
(***************************************************************************)
(* The laws of ltl_equivalences.rs.  Two syntaxes mean the same at a       *)
(* position when the reference says the same of both there.                *)
(***************************************************************************)
MeanTheSame(tr, s, t, i, n) ==
    /\ Verdict(tr, s, i, n) = Verdict(tr, t, i, n)
    /\ TrueAtEnd(tr, s, TRUE, i, n) <=> TrueAtEnd(tr, t, TRUE, i, n)

LEMMA ReferenceValues ==
    ASSUME Recursive, NEW tr \in Traces, NEW s \in Syntaxes, NEW i \in 1..Len(tr)
    PROVE  /\ \A n \in i..Len(tr) : Verdict(tr, s, i, n) \in {-1, 0, 1}
           /\ \A m, n \in i..Len(tr) : m <= n /\ Verdict(tr, s, i, m) # 0 =>
                  Verdict(tr, s, i, n) = Verdict(tr, s, i, m)
<1> DEFINE x == Signal(tr, s, TRUE, i)
<1>1. IsSignal(x, i, Len(tr))
  BY EvaluatorIsFaithful DEF Faithful
<1>2. x.known = [n \in i..Len(tr) |-> IF TRUE THEN Verdict(tr, s, i, n)
                                             ELSE -Verdict(tr, s, i, n)]
  BY DEF Signal
<1> HIDE DEF x
<1>3. \A n \in i..Len(tr) : x.known[n] = Verdict(tr, s, i, n)
  BY <1>2
<1> QED
  BY <1>1, <1>3 DEF IsSignal

(***************************************************************************)
(* What the reference says of the operators that the laws are about.       *)
(***************************************************************************)
LEMMA MeaningOfNext ==
    ASSUME Recursive, NEW tr \in Traces, NEW n \in 1..Len(tr), NEW i \in 1..n,
           NEW s \in Syntaxes, s.op = "Next", NEW sub, sub = s.sub
    PROVE  /\ i = n => /\ Verdict(tr, s, i, n) = 0
                       /\ TrueAtEnd(tr, s, TRUE, i, n)
                       /\ TrueAtEnd(tr, s, FALSE, i, n)
           /\ i # n =>
                /\ i + 1 \in 1..n
                /\ Verdict(tr, s, i, n) = Verdict(tr, sub, i + 1, n)
                /\ TrueAtEnd(tr, s, TRUE, i, n)
                       <=> TrueAtEnd(tr, sub, TRUE, i + 1, n)
                /\ TrueAtEnd(tr, s, FALSE, i, n)
                       <=> TrueAtEnd(tr, sub, FALSE, i + 1, n)
<1>1. /\ VerdictByForm(tr, s, i, n)
      /\ EndByForm(tr, s, TRUE, i, n) /\ EndByForm(tr, s, FALSE, i, n)
  BY VerdictForms, TrueAtEndForms DEF Recursive
<1>2. Verdict(tr, s, i, n) = IF i = n THEN 0 ELSE Verdict(tr, sub, i + 1, n)
  BY <1>1 DEF VerdictByForm
<1>3. /\ TrueAtEnd(tr, s, TRUE, i, n) <=>
             (i < n => TrueAtEnd(tr, sub, TRUE, i + 1, n))
      /\ TrueAtEnd(tr, s, FALSE, i, n) <=>
             (i < n => TrueAtEnd(tr, sub, FALSE, i + 1, n))
  BY <1>1 DEF EndByForm
<1>4. n \in Nat /\ i \in Nat /\ i <= n
  BY Entries
<1>5. CASE i = n
  <2>1. ~(i < n)
    BY <1>4, <1>5
  <2> QED
    BY <1>2, <1>3, <1>5, <2>1
<1>6. CASE i # n
  <2>1. i < n /\ i + 1 \in 1..n
    BY <1>4, <1>6
  <2> QED
    BY <1>2, <1>3, <1>6, <2>1
<1> QED
  BY <1>5, <1>6

LEMMA MeaningOfNot ==
    ASSUME Recursive, NEW tr \in Traces, NEW n \in 1..Len(tr), NEW i \in 1..n,
           NEW s \in Syntaxes, s.op = "Not"
    PROVE  /\ Verdict(tr, s, i, n) = -Verdict(tr, s.sub, i, n)
           /\ TrueAtEnd(tr, s, TRUE, i, n) <=> TrueAtEnd(tr, s.sub, FALSE, i, n)
<1>1. VerdictByForm(tr, s, i, n) /\ EndByForm(tr, s, TRUE, i, n)
  BY VerdictForms, TrueAtEndForms DEF Recursive
<1>2. Verdict(tr, s, i, n) = -Verdict(tr, s.sub, i, n)
  BY <1>1 DEF VerdictByForm
<1>3. TrueAtEnd(tr, s, TRUE, i, n) = TrueAtEnd(tr, s.sub, ~TRUE, i, n)
  BY <1>1 DEF EndByForm
<1>4. (~TRUE) = FALSE
  OBVIOUS
<1> QED
  BY <1>2, <1>3, <1>4

MeansConnective(tr, s, left, right, i, n) ==
    LET a == Verdict(tr, left, i, n)
        b == Verdict(tr, right, i, n)
        v == Verdict(tr, s, i, n)
    IN  /\ a \in {-1, 0, 1} /\ b \in {-1, 0, 1}
        /\ s.op = "And" =>
             /\ v = IF a <= b THEN a ELSE b
             /\ TrueAtEnd(tr, s, TRUE, i, n) <=>
                  /\ TrueAtEnd(tr, left, TRUE, i, n)
                  /\ TrueAtEnd(tr, right, TRUE, i, n)
        /\ s.op = "Or" =>
             /\ v = IF a >= b THEN a ELSE b
             /\ TrueAtEnd(tr, s, TRUE, i, n) <=>
                  \/ TrueAtEnd(tr, left, TRUE, i, n)
                  \/ TrueAtEnd(tr, right, TRUE, i, n)

LEMMA MeaningOfConnective ==
    ASSUME Recursive, NEW tr \in Traces, NEW n \in 1..Len(tr), NEW i \in 1..n,
           NEW s \in Syntaxes, s.op \in {"And", "Or"},
           NEW left, left = s.left, NEW right, right = s.right
    PROVE  MeansConnective(tr, s, left, right, i, n)
<1> DEFINE a == Verdict(tr, left, i, n)
           b == Verdict(tr, right, i, n)
           v == Verdict(tr, s, i, n)
           t == TrueAtEnd(tr, s, TRUE, i, n)
           l == TrueAtEnd(tr, left, TRUE, i, n)
           r == TrueAtEnd(tr, right, TRUE, i, n)
<1>1. VerdictByForm(tr, s, i, n) /\ EndByForm(tr, s, TRUE, i, n)
  BY VerdictForms, TrueAtEndForms DEF Recursive
<1>2. left \in Syntaxes /\ right \in Syntaxes
  BY SyntaxForms
<1>3. a \in {-1, 0, 1} /\ b \in {-1, 0, 1}
  <2>1. n \in i..Len(tr) /\ i \in 1..Len(tr)
    BY Entries
  <2> QED
    BY <1>2, <2>1, ReferenceValues
<1>4. /\ s.op = "And" => v = Min({a, b})
      /\ s.op = "Or" => v = Max({a, b})
  BY <1>1 DEF VerdictByForm
<1>5. t <=> IF Universal(s, TRUE) THEN l /\ r ELSE l \/ r
  BY <1>1 DEF EndByForm
<1>6. Universal(s, TRUE) <=> s.op = "And"
  BY DEF Universal
<1> HIDE DEF a, b, v, t, l, r
<1>7. /\ Min({a, b}) = IF a <= b THEN a ELSE b
      /\ Max({a, b}) = IF a >= b THEN a ELSE b
  BY <1>3, PairBounds
<1>8. /\ s.op = "And" => v = IF a <= b THEN a ELSE b
      /\ s.op = "Or" => v = IF a >= b THEN a ELSE b
  BY <1>4, <1>7
<1>9. /\ s.op = "And" => (t <=> l /\ r)
      /\ s.op = "Or" => (t <=> l \/ r)
  BY <1>5, <1>6
<1> QED
  BY <1>3, <1>8, <1>9 DEF MeansConnective, a, b, v, t, l, r

LEMMA BoundAlike ==
    ASSUME NEW tr, NEW s, NEW t, s.bound = t.bound, NEW i, NEW n
    PROVE  LastWithin(tr, s, i, n) = LastWithin(tr, t, i, n)
  BY DEF LastWithin, Within

MeansOverTime(tr, s, sub, last, i, n) ==
    /\ last \in i..n /\ last \in 1..Len(tr)
    /\ s.bound = NoEnd => last = n
    /\ s.op = "Always" =>
         /\ Verdict(tr, s, i, n) =
              IF \E j \in i..last : Verdict(tr, sub, j, last) = -1
              THEN -1 ELSE IF last < n THEN 1 ELSE 0
         /\ TrueAtEnd(tr, s, TRUE, i, n) <=>
              IF last < n THEN Verdict(tr, s, i, n) = 1
              ELSE \A j \in i..n : TrueAtEnd(tr, sub, TRUE, j, n)
    /\ s.op = "Eventually" =>
         /\ Verdict(tr, s, i, n) =
              IF \E j \in i..last : Verdict(tr, sub, j, last) = 1
              THEN 1 ELSE IF last < n THEN -1 ELSE 0
         /\ TrueAtEnd(tr, s, TRUE, i, n) <=>
              IF last < n THEN Verdict(tr, s, i, n) = 1
              ELSE \E j \in i..n : TrueAtEnd(tr, sub, TRUE, j, n)
         /\ TrueAtEnd(tr, s, FALSE, i, n) <=>
              IF last < n THEN Verdict(tr, s, i, n) = -1
              ELSE \A j \in i..n : TrueAtEnd(tr, sub, FALSE, j, n)

LEMMA MeaningOverTime ==
    ASSUME Recursive, NEW tr \in Traces, NEW n \in 1..Len(tr), NEW i \in 1..n,
           NEW s \in Syntaxes, s.op \in {"Always", "Eventually"},
           NEW sub, sub = s.sub, NEW last, last = LastWithin(tr, s, i, n)
    PROVE  MeansOverTime(tr, s, sub, last, i, n)
<1>1. /\ VerdictByForm(tr, s, i, n)
      /\ EndByForm(tr, s, TRUE, i, n) /\ EndByForm(tr, s, FALSE, i, n)
  BY VerdictForms, TrueAtEndForms DEF Recursive
<1>2. Len(tr) \in Nat /\ n \in i..Len(tr) /\ i \in 1..Len(tr) /\ n \in Nat /\ i \in Nat
  BY Entries
<1>3. s.bound \in Nat \cup {NoEnd}
  BY SyntaxForms
<1>4. /\ last \in i..n /\ (Within(tr, s, i, n) <=> last = n)
  BY <1>2, <1>3, LastFacts
<1>5. last \in 1..Len(tr) /\ (Within(tr, s, i, n) <=> ~(last < n))
  BY <1>2, <1>4
<1>6. s.bound = NoEnd => last = n
  BY <1>4 DEF Within
<1>7. /\ s.op = "Always" =>
           Verdict(tr, s, i, n) =
                     IF \E j \in i..last : Verdict(tr, sub, j, last) = -1
                     THEN -1 ELSE IF last < n THEN 1 ELSE 0
      /\ s.op = "Eventually" =>
           Verdict(tr, s, i, n) =
                     IF \E j \in i..last : Verdict(tr, sub, j, last) = 1
                     THEN 1 ELSE IF last < n THEN -1 ELSE 0
  BY <1>1 DEF VerdictByForm
<1>8. \A sign \in BOOLEAN :
        EndByForm(tr, s, sign, i, n) =>
          (TrueAtEnd(tr, s, sign, i, n) <=>
             IF ~Within(tr, s, i, n)
             THEN Verdict(tr, s, i, n) = IF sign THEN 1 ELSE -1
             ELSE IF Universal(s, sign)
             THEN \A j \in i..n : TrueAtEnd(tr, sub, sign, j, n)
             ELSE \E j \in i..n : TrueAtEnd(tr, sub, sign, j, n))
  BY DEF EndByForm
<1>9. /\ TrueAtEnd(tr, s, TRUE, i, n) <=>
             IF last < n THEN Verdict(tr, s, i, n) = 1
             ELSE IF Universal(s, TRUE)
             THEN \A j \in i..n : TrueAtEnd(tr, sub, TRUE, j, n)
             ELSE \E j \in i..n : TrueAtEnd(tr, sub, TRUE, j, n)
      /\ TrueAtEnd(tr, s, FALSE, i, n) <=>
             IF last < n THEN Verdict(tr, s, i, n) = -1
             ELSE IF Universal(s, FALSE)
             THEN \A j \in i..n : TrueAtEnd(tr, sub, FALSE, j, n)
             ELSE \E j \in i..n : TrueAtEnd(tr, sub, FALSE, j, n)
  BY <1>1, <1>5, <1>8
<1>10. /\ Universal(s, TRUE) <=> s.op = "Always"
       /\ Universal(s, FALSE) <=> s.op = "Eventually"
  BY DEF Universal
<1> QED
  BY <1>4, <1>5, <1>6, <1>7, <1>9, <1>10 DEF MeansOverTime

(***************************************************************************)
(* The laws, one after the other, at every position of every trace.        *)
(***************************************************************************)
LEMMA NextLaw ==
    ASSUME Recursive, NEW tr \in Traces, NEW n \in 1..Len(tr), NEW i \in 1..n,
           NEW l \in Syntaxes, NEW r \in Syntaxes, NextDistributes(l, r)
    PROVE  MeanTheSame(tr, l, r, i, n)
<1>0. PICK f, g, op : f = l.sub.left /\ g = l.sub.right /\ op = l.sub.op
  OBVIOUS
<1>1. /\ l.op = "Next" /\ op \in {"And", "Or"} /\ l.sub.op = op /\ l.sub.left = f /\ l.sub.right = g
      /\ r.op = op /\ r.left.op = "Next" /\ r.right.op = "Next"
      /\ r.left.sub = f /\ r.right.sub = g
  BY <1>0 DEF NextDistributes, Next1, Binary
<1>2. /\ l.sub \in Syntaxes /\ r.left \in Syntaxes /\ r.right \in Syntaxes
      /\ op \in {"And", "Or"}
  BY <1>1, SyntaxForms
<1> DEFINE V(s, k) == Verdict(tr, s, k, n)
           T(s, k) == TrueAtEnd(tr, s, TRUE, k, n)
<1>3. /\ op = "And" =>
           /\ V(r, i) = IF V(r.left, i) <= V(r.right, i) THEN V(r.left, i)
                                                         ELSE V(r.right, i)
           /\ T(r, i) <=> T(r.left, i) /\ T(r.right, i)
      /\ op = "Or" =>
           /\ V(r, i) = IF V(r.left, i) >= V(r.right, i) THEN V(r.left, i)
                                                         ELSE V(r.right, i)
           /\ T(r, i) <=> T(r.left, i) \/ T(r.right, i)
  <2>1. MeansConnective(tr, r, r.left, r.right, i, n)
    BY <1>1, MeaningOfConnective
  <2> QED
    BY <1>1, <2>1 DEF MeansConnective
<1>4. CASE i = n
  <2>1. /\ V(l, i) = 0 /\ V(r.left, i) = 0 /\ V(r.right, i) = 0
        /\ T(l, i) /\ T(r.left, i) /\ T(r.right, i)
    BY <1>1, <1>2, <1>4, MeaningOfNext
  <2> HIDE DEF V, T
  <2>2. V(l, i) = V(r, i) /\ (T(l, i) <=> T(r, i))
    BY <1>2, <1>3, <2>1
  <2> QED
    BY <2>2 DEF MeanTheSame, V, T
<1>5. CASE i # n
  <2>1. /\ i + 1 \in 1..n
        /\ V(l, i) = V(l.sub, i + 1) /\ (T(l, i) <=> T(l.sub, i + 1))
    BY <1>1, <1>5, MeaningOfNext
  <2>2. V(r.left, i) = V(f, i + 1) /\ (T(r.left, i) <=> T(f, i + 1))
    BY <1>1, <1>2, <1>5, MeaningOfNext
  <2>3. V(r.right, i) = V(g, i + 1) /\ (T(r.right, i) <=> T(g, i + 1))
    BY <1>1, <1>2, <1>5, MeaningOfNext
  <2> DEFINE j == i + 1
  <2>4. /\ op = "And" =>
             /\ V(l.sub, j) = IF V(f, j) <= V(g, j) THEN V(f, j) ELSE V(g, j)
             /\ T(l.sub, j) <=> T(f, j) /\ T(g, j)
        /\ op = "Or" =>
             /\ V(l.sub, j) = IF V(f, j) >= V(g, j) THEN V(f, j) ELSE V(g, j)
             /\ T(l.sub, j) <=> T(f, j) \/ T(g, j)
    <3> HIDE DEF j
    <3>1. j \in 1..n
      BY <2>1 DEF j
    <3>2. MeansConnective(tr, l.sub, f, g, j, n)
      BY <1>1, <1>2, <3>1, MeaningOfConnective
    <3> QED
      BY <1>1, <3>2 DEF MeansConnective
  <2> HIDE DEF V, T
  <2>5. V(l, i) = V(r, i)
    BY <1>2, <1>3, <2>1, <2>2, <2>3, <2>4
  <2>6. T(l, i) <=> T(r, i)
    BY <1>2, <1>3, <2>1, <2>2, <2>3, <2>4
  <2> QED
    BY <2>5, <2>6 DEF MeanTheSame, V, T
<1> QED
  BY <1>4, <1>5

LEMMA NextDuality ==
    ASSUME Recursive, NEW tr \in Traces, NEW n \in 1..Len(tr), NEW i \in 1..n,
           NEW l \in Syntaxes, NEW r \in Syntaxes, NextIsSelfDual(l, r)
    PROVE  MeanTheSame(tr, l, r, i, n)
<1>0. PICK f : f = l.sub.sub
  OBVIOUS
<1>1. /\ l.op = "Next" /\ l.sub.op = "Not" /\ l.sub.sub = f
      /\ r.op = "Not" /\ r.sub.op = "Next" /\ r.sub.sub = f
  BY <1>0 DEF NextIsSelfDual, Next1, Not
<1>2. l.sub \in Syntaxes /\ r.sub \in Syntaxes
  BY <1>1, SyntaxForms
<1>3. /\ Verdict(tr, r, i, n) = -Verdict(tr, r.sub, i, n)
      /\ TrueAtEnd(tr, r, TRUE, i, n) <=> TrueAtEnd(tr, r.sub, FALSE, i, n)
  BY <1>1, MeaningOfNot
<1>4. CASE i = n
  <2>1. Verdict(tr, l, i, n) = 0 /\ TrueAtEnd(tr, l, TRUE, i, n)
    BY <1>1, <1>4, MeaningOfNext
  <2>2. Verdict(tr, r.sub, i, n) = 0 /\ TrueAtEnd(tr, r.sub, FALSE, i, n)
    BY <1>1, <1>2, <1>4, MeaningOfNext
  <2>3. Verdict(tr, l, i, n) = Verdict(tr, r, i, n)
    <3>1. \A z \in Int : -z = 0 - z
      OBVIOUS
    <3>2. Verdict(tr, r.sub, i, n) \in Int
      BY <2>2
    <3>3. Verdict(tr, r, i, n) = 0 - Verdict(tr, r.sub, i, n)
      BY <1>3, <3>1, <3>2
    <3> QED
      BY <2>1, <2>2, <3>3
  <2>4. TrueAtEnd(tr, r, TRUE, i, n)
    BY <1>3, <2>2
  <2> QED
    BY <2>1, <2>3, <2>4 DEF MeanTheSame
<1>5. CASE i # n
  <2>1. /\ i + 1 \in 1..n
        /\ Verdict(tr, l, i, n) = Verdict(tr, l.sub, i + 1, n)
        /\ TrueAtEnd(tr, l, TRUE, i, n) <=> TrueAtEnd(tr, l.sub, TRUE, i + 1, n)
    BY <1>1, <1>5, MeaningOfNext
  <2>2. /\ Verdict(tr, r.sub, i, n) = Verdict(tr, f, i + 1, n)
        /\ TrueAtEnd(tr, r.sub, FALSE, i, n) <=> TrueAtEnd(tr, f, FALSE, i + 1, n)
    BY <1>1, <1>2, <1>5, MeaningOfNext
  <2>3. /\ Verdict(tr, l.sub, i + 1, n) = -Verdict(tr, f, i + 1, n)
        /\ TrueAtEnd(tr, l.sub, TRUE, i + 1, n) <=> TrueAtEnd(tr, f, FALSE, i + 1, n)
    BY <1>1, <1>2, <2>1, MeaningOfNot
  <2> QED
    BY <1>3, <2>1, <2>2, <2>3 DEF MeanTheSame
<1> QED
  BY <1>4, <1>5

LEMMA AlwaysLaw ==
    ASSUME Recursive, NEW tr \in Traces, NEW n \in 1..Len(tr), NEW i \in 1..n,
           NEW l \in Syntaxes, NEW r \in Syntaxes, AlwaysDistributes(l, r)
    PROVE  MeanTheSame(tr, l, r, i, n)
<1>0. PICK f, g, b : f = l.sub.left /\ g = l.sub.right /\ b = l.bound
  OBVIOUS
<1>1. /\ l.op = "Always" /\ l.sub.op = "And" /\ l.sub.left = f /\ l.sub.right = g
      /\ l.bound = b
      /\ r.op = "And" /\ r.left.op = "Always" /\ r.right.op = "Always"
      /\ r.left.sub = f /\ r.right.sub = g /\ r.left.bound = b /\ r.right.bound = b
  BY <1>0 DEF AlwaysDistributes, Always, Binary
<1>2. l.sub \in Syntaxes /\ r.left \in Syntaxes /\ r.right \in Syntaxes
  BY <1>1, SyntaxForms
<1> DEFINE last == LastWithin(tr, l, i, n)
           V(s) == Verdict(tr, s, i, n)
           T(s) == TrueAtEnd(tr, s, TRUE, i, n)
           FailsFor(s) == \E j \in i..last : Verdict(tr, s, j, last) = -1
           Ends(s) == \A j \in i..n : TrueAtEnd(tr, s, TRUE, j, n)
<1>3. last = LastWithin(tr, r.left, i, n) /\ last = LastWithin(tr, r.right, i, n)
  BY <1>1, BoundAlike
<1>a. /\ MeansOverTime(tr, l, l.sub, last, i, n)
      /\ MeansOverTime(tr, r.left, f, last, i, n)
      /\ MeansOverTime(tr, r.right, g, last, i, n)
  <2> HIDE DEF last
  <2>1. last = LastWithin(tr, l, i, n)
    BY DEF last
  <2> QED
    BY <1>1, <1>2, <1>3, <2>1, MeaningOverTime
<1>4. /\ last \in i..n /\ last \in 1..Len(tr)
      /\ V(l) = IF FailsFor(l.sub) THEN -1 ELSE IF last < n THEN 1 ELSE 0
      /\ T(l) <=> IF last < n THEN V(l) = 1 ELSE Ends(l.sub)
  BY <1>1, <1>a DEF MeansOverTime
<1>5. /\ V(r.left) = IF FailsFor(f) THEN -1 ELSE IF last < n THEN 1 ELSE 0
      /\ T(r.left) <=> IF last < n THEN V(r.left) = 1 ELSE Ends(f)
  BY <1>1, <1>a DEF MeansOverTime
<1>6. /\ V(r.right) = IF FailsFor(g) THEN -1 ELSE IF last < n THEN 1 ELSE 0
      /\ T(r.right) <=> IF last < n THEN V(r.right) = 1 ELSE Ends(g)
  BY <1>1, <1>a DEF MeansOverTime
<1>7. /\ V(r) = IF V(r.left) <= V(r.right) THEN V(r.left) ELSE V(r.right)
      /\ T(r) <=> T(r.left) /\ T(r.right)
  <2>1. MeansConnective(tr, r, r.left, r.right, i, n)
    BY <1>1, MeaningOfConnective
  <2> QED
    BY <1>1, <2>1 DEF MeansConnective
<1>8. FailsFor(l.sub) <=> FailsFor(f) \/ FailsFor(g)
  <2>1. \A j \in i..last : j \in 1..last
    BY <1>4
  <2> HIDE DEF last
  <2>2. \A j \in i..last :
          /\ Verdict(tr, f, j, last) \in {-1, 0, 1}
          /\ Verdict(tr, g, j, last) \in {-1, 0, 1}
          /\ Verdict(tr, l.sub, j, last) =
               IF Verdict(tr, f, j, last) <= Verdict(tr, g, j, last)
               THEN Verdict(tr, f, j, last) ELSE Verdict(tr, g, j, last)
    <3> SUFFICES ASSUME NEW j \in i..last
                 PROVE  /\ Verdict(tr, f, j, last) \in {-1, 0, 1}
                        /\ Verdict(tr, g, j, last) \in {-1, 0, 1}
                        /\ Verdict(tr, l.sub, j, last) =
                             IF Verdict(tr, f, j, last) <= Verdict(tr, g, j, last)
                             THEN Verdict(tr, f, j, last) ELSE Verdict(tr, g, j, last)
      OBVIOUS
    <3>1. MeansConnective(tr, l.sub, f, g, j, last)
      BY <1>1, <1>2, <1>4, <2>1, MeaningOfConnective
    <3> QED
      BY <1>1, <3>1 DEF MeansConnective
  <2>3. \A j \in i..last :
          Verdict(tr, l.sub, j, last) = -1 <=>
             Verdict(tr, f, j, last) = -1 \/ Verdict(tr, g, j, last) = -1
    BY <2>2
  <2> QED
    BY <2>3
<1>9. Ends(l.sub) <=> Ends(f) /\ Ends(g)
  <2>1. \A j \in i..n : j \in 1..n
    BY Entries
  <2>2. \A j \in i..n : TrueAtEnd(tr, l.sub, TRUE, j, n) <=>
            TrueAtEnd(tr, f, TRUE, j, n) /\ TrueAtEnd(tr, g, TRUE, j, n)
    <3> SUFFICES ASSUME NEW j \in i..n
                 PROVE  TrueAtEnd(tr, l.sub, TRUE, j, n) <=>
                            TrueAtEnd(tr, f, TRUE, j, n) /\ TrueAtEnd(tr, g, TRUE, j, n)
      OBVIOUS
    <3>1. MeansConnective(tr, l.sub, f, g, j, n)
      BY <1>1, <1>2, <2>1, MeaningOfConnective
    <3> QED
      BY <1>1, <3>1 DEF MeansConnective
  <2> QED
    BY <2>2
<1> HIDE DEF last, V, T, FailsFor, Ends
<1>10. V(l) = V(r)
  BY <1>4, <1>5, <1>6, <1>7, <1>8
<1>11. T(l) <=> T(r)
  BY <1>4, <1>5, <1>6, <1>7, <1>8, <1>9
<1> QED
  BY <1>10, <1>11 DEF MeanTheSame, V, T

LEMMA EventuallyLaw ==
    ASSUME Recursive, NEW tr \in Traces, NEW n \in 1..Len(tr), NEW i \in 1..n,
           NEW l \in Syntaxes, NEW r \in Syntaxes, EventuallyDistributes(l, r)
    PROVE  MeanTheSame(tr, l, r, i, n)
<1>0. PICK f, g, b : f = l.sub.left /\ g = l.sub.right /\ b = l.bound
  OBVIOUS
<1>1. /\ l.op = "Eventually" /\ l.sub.op = "Or" /\ l.sub.left = f /\ l.sub.right = g
      /\ l.bound = b
      /\ r.op = "Or" /\ r.left.op = "Eventually" /\ r.right.op = "Eventually"
      /\ r.left.sub = f /\ r.right.sub = g /\ r.left.bound = b /\ r.right.bound = b
  BY <1>0 DEF EventuallyDistributes, Eventually, Binary
<1>2. l.sub \in Syntaxes /\ r.left \in Syntaxes /\ r.right \in Syntaxes
  BY <1>1, SyntaxForms
<1> DEFINE last == LastWithin(tr, l, i, n)
           V(s) == Verdict(tr, s, i, n)
           T(s) == TrueAtEnd(tr, s, TRUE, i, n)
           ComesFor(s) == \E j \in i..last : Verdict(tr, s, j, last) = 1
           Ends(s) == \E j \in i..n : TrueAtEnd(tr, s, TRUE, j, n)
<1>3. last = LastWithin(tr, r.left, i, n) /\ last = LastWithin(tr, r.right, i, n)
  BY <1>1, BoundAlike
<1>a. /\ MeansOverTime(tr, l, l.sub, last, i, n)
      /\ MeansOverTime(tr, r.left, f, last, i, n)
      /\ MeansOverTime(tr, r.right, g, last, i, n)
  <2> HIDE DEF last
  <2>1. last = LastWithin(tr, l, i, n)
    BY DEF last
  <2> QED
    BY <1>1, <1>2, <1>3, <2>1, MeaningOverTime
<1>4. /\ last \in i..n /\ last \in 1..Len(tr)
      /\ V(l) = IF ComesFor(l.sub) THEN 1 ELSE IF last < n THEN -1 ELSE 0
      /\ T(l) <=> IF last < n THEN V(l) = 1 ELSE Ends(l.sub)
  BY <1>1, <1>a DEF MeansOverTime
<1>5. /\ V(r.left) = IF ComesFor(f) THEN 1 ELSE IF last < n THEN -1 ELSE 0
      /\ T(r.left) <=> IF last < n THEN V(r.left) = 1 ELSE Ends(f)
  BY <1>1, <1>a DEF MeansOverTime
<1>6. /\ V(r.right) = IF ComesFor(g) THEN 1 ELSE IF last < n THEN -1 ELSE 0
      /\ T(r.right) <=> IF last < n THEN V(r.right) = 1 ELSE Ends(g)
  BY <1>1, <1>a DEF MeansOverTime
<1>7. /\ V(r) = IF V(r.left) >= V(r.right) THEN V(r.left) ELSE V(r.right)
      /\ T(r) <=> T(r.left) \/ T(r.right)
  <2>1. MeansConnective(tr, r, r.left, r.right, i, n)
    BY <1>1, MeaningOfConnective
  <2> QED
    BY <1>1, <2>1 DEF MeansConnective
<1>8. ComesFor(l.sub) <=> ComesFor(f) \/ ComesFor(g)
  <2>1. \A j \in i..last : j \in 1..last
    BY <1>4
  <2> HIDE DEF last
  <2>2. \A j \in i..last :
          /\ Verdict(tr, f, j, last) \in {-1, 0, 1}
          /\ Verdict(tr, g, j, last) \in {-1, 0, 1}
          /\ Verdict(tr, l.sub, j, last) =
               IF Verdict(tr, f, j, last) >= Verdict(tr, g, j, last)
               THEN Verdict(tr, f, j, last) ELSE Verdict(tr, g, j, last)
    <3> SUFFICES ASSUME NEW j \in i..last
                 PROVE  /\ Verdict(tr, f, j, last) \in {-1, 0, 1}
                        /\ Verdict(tr, g, j, last) \in {-1, 0, 1}
                        /\ Verdict(tr, l.sub, j, last) =
                             IF Verdict(tr, f, j, last) >= Verdict(tr, g, j, last)
                             THEN Verdict(tr, f, j, last) ELSE Verdict(tr, g, j, last)
      OBVIOUS
    <3>1. MeansConnective(tr, l.sub, f, g, j, last)
      BY <1>1, <1>2, <1>4, <2>1, MeaningOfConnective
    <3> QED
      BY <1>1, <3>1 DEF MeansConnective
  <2>3. \A j \in i..last :
          Verdict(tr, l.sub, j, last) = 1 <=>
             Verdict(tr, f, j, last) = 1 \/ Verdict(tr, g, j, last) = 1
    BY <2>2
  <2> QED
    BY <2>3
<1>9. Ends(l.sub) <=> Ends(f) \/ Ends(g)
  <2>1. \A j \in i..n : j \in 1..n
    BY Entries
  <2>2. \A j \in i..n : TrueAtEnd(tr, l.sub, TRUE, j, n) <=>
            TrueAtEnd(tr, f, TRUE, j, n) \/ TrueAtEnd(tr, g, TRUE, j, n)
    <3> SUFFICES ASSUME NEW j \in i..n
                 PROVE  TrueAtEnd(tr, l.sub, TRUE, j, n) <=>
                            TrueAtEnd(tr, f, TRUE, j, n) \/ TrueAtEnd(tr, g, TRUE, j, n)
      OBVIOUS
    <3>1. MeansConnective(tr, l.sub, f, g, j, n)
      BY <1>1, <1>2, <2>1, MeaningOfConnective
    <3> QED
      BY <1>1, <3>1 DEF MeansConnective
  <2> QED
    BY <2>2
<1> HIDE DEF last, V, T, ComesFor, Ends
<1>10. V(l) = V(r)
  BY <1>4, <1>5, <1>6, <1>7, <1>8
<1>11. T(l) <=> T(r)
  BY <1>4, <1>5, <1>6, <1>7, <1>8, <1>9
<1> QED
  BY <1>10, <1>11 DEF MeanTheSame, V, T

LEMMA AlwaysDuality ==
    ASSUME Recursive, NEW tr \in Traces, NEW n \in 1..Len(tr), NEW i \in 1..n,
           NEW l \in Syntaxes, NEW r \in Syntaxes, AlwaysIsDual(l, r)
    PROVE  MeanTheSame(tr, l, r, i, n)
<1>0. PICK f, b : f = l.sub.sub /\ b = l.bound
  OBVIOUS
<1>1. /\ l.op = "Always" /\ l.sub.op = "Not" /\ l.sub.sub = f /\ l.bound = b
      /\ r.op = "Not" /\ r.sub.op = "Eventually" /\ r.sub.sub = f /\ r.sub.bound = b
  BY <1>0 DEF AlwaysIsDual, Always, Eventually, Not
<1>2. l.sub \in Syntaxes /\ r.sub \in Syntaxes /\ f \in Syntaxes
  BY <1>1, SyntaxForms
<1> DEFINE last == LastWithin(tr, l, i, n)
<1>3. last = LastWithin(tr, r.sub, i, n)
  BY <1>1, BoundAlike
<1>4. /\ MeansOverTime(tr, l, l.sub, last, i, n)
      /\ MeansOverTime(tr, r.sub, f, last, i, n)
  <2> HIDE DEF last
  <2>1. last = LastWithin(tr, l, i, n)
    BY DEF last
  <2> QED
    BY <1>1, <1>2, <1>3, <2>1, MeaningOverTime
<1>5. /\ Verdict(tr, r, i, n) = -Verdict(tr, r.sub, i, n)
      /\ TrueAtEnd(tr, r, TRUE, i, n) <=> TrueAtEnd(tr, r.sub, FALSE, i, n)
  BY <1>1, MeaningOfNot
<1> HIDE DEF last
<1> DEFINE Broken == \E j \in i..last : Verdict(tr, l.sub, j, last) = -1
           Reached == \E j \in i..last : Verdict(tr, f, j, last) = 1
           AllEnded == \A j \in i..n : TrueAtEnd(tr, l.sub, TRUE, j, n)
           NoneEnded == \A j \in i..n : TrueAtEnd(tr, f, FALSE, j, n)
           a == Verdict(tr, l, i, n)
           c == Verdict(tr, r.sub, i, n)
<1>6. /\ last \in i..n /\ last \in 1..Len(tr) /\ Len(tr) \in Nat
      /\ a = IF Broken THEN -1 ELSE IF last < n THEN 1 ELSE 0
      /\ TrueAtEnd(tr, l, TRUE, i, n) <=> IF last < n THEN a = 1 ELSE AllEnded
  BY <1>1, <1>4, Entries DEF MeansOverTime
<1>7. /\ c = IF Reached THEN 1 ELSE IF last < n THEN -1 ELSE 0
      /\ TrueAtEnd(tr, r.sub, FALSE, i, n) <=> IF last < n THEN c = -1 ELSE NoneEnded
  BY <1>1, <1>4 DEF MeansOverTime
<1>8. Broken <=> Reached
  <2>1. \A j \in i..last : /\ Verdict(tr, l.sub, j, last) = -Verdict(tr, f, j, last)
                           /\ Verdict(tr, f, j, last) \in {-1, 0, 1}
    <3> SUFFICES ASSUME NEW j \in i..last
                 PROVE  /\ Verdict(tr, l.sub, j, last) = -Verdict(tr, f, j, last)
                        /\ Verdict(tr, f, j, last) \in {-1, 0, 1}
      OBVIOUS
    <3>1. j \in 1..last /\ j \in 1..Len(tr) /\ last \in j..Len(tr)
      BY <1>6
    <3>2. Verdict(tr, l.sub, j, last) = -Verdict(tr, f, j, last)
      BY <1>1, <1>2, <1>6, <3>1, MeaningOfNot
    <3>3. Verdict(tr, f, j, last) \in {-1, 0, 1}
      BY <1>2, <3>1, ReferenceValues
    <3> QED
      BY <3>2, <3>3
  <2>2. \A j \in i..last :
          Verdict(tr, l.sub, j, last) = -1 <=> Verdict(tr, f, j, last) = 1
    BY <2>1
  <2> QED
    BY <2>2
<1>9. AllEnded <=> NoneEnded
  <2>1. \A j \in i..n : TrueAtEnd(tr, l.sub, TRUE, j, n) <=> TrueAtEnd(tr, f, FALSE, j, n)
    <3> SUFFICES ASSUME NEW j \in i..n
                 PROVE  TrueAtEnd(tr, l.sub, TRUE, j, n) <=> TrueAtEnd(tr, f, FALSE, j, n)
      OBVIOUS
    <3>1. j \in 1..n
      BY <1>6
    <3> QED
      BY <1>1, <1>2, <3>1, MeaningOfNot
  <2> QED
    BY <2>1
<1> HIDE DEF Broken, Reached, AllEnded, NoneEnded, a, c
<1>10. a = -c
  BY <1>6, <1>7, <1>8
<1>11. a = 1 <=> c = -1
  BY <1>6, <1>7, <1>8
<1>12. TrueAtEnd(tr, l, TRUE, i, n) <=> TrueAtEnd(tr, r.sub, FALSE, i, n)
  BY <1>6, <1>7, <1>9, <1>11
<1>13. Verdict(tr, l, i, n) = Verdict(tr, r, i, n)
  BY <1>5, <1>10 DEF a, c
<1> QED
  BY <1>5, <1>12, <1>13 DEF MeanTheSame

LEMMA AlwaysIdempotency ==
    ASSUME Recursive, NEW tr \in Traces, NEW n \in 1..Len(tr), NEW i \in 1..n,
           NEW l \in Syntaxes, NEW r \in Syntaxes, AlwaysIsIdempotent(l, r)
    PROVE  MeanTheSame(tr, l, r, i, n)
<1>0. PICK f : f = l.sub
  OBVIOUS
<1>1. /\ l.op = "Always" /\ l.sub = f /\ l.bound = NoEnd
      /\ r.op = "Always" /\ r.sub = l /\ r.bound = NoEnd
  BY <1>0 DEF AlwaysIsIdempotent, Always
<1>2. \A j \in 1..n : /\ LastWithin(tr, l, j, n) = n
                      /\ MeansOverTime(tr, l, f, n, j, n)
                      /\ LastWithin(tr, r, j, n) = n
                      /\ MeansOverTime(tr, r, l, n, j, n)
  <2> SUFFICES ASSUME NEW j \in 1..n
               PROVE  /\ LastWithin(tr, l, j, n) = n
                      /\ MeansOverTime(tr, l, f, n, j, n)
                      /\ LastWithin(tr, r, j, n) = n
                      /\ MeansOverTime(tr, r, l, n, j, n)
    OBVIOUS
  <2>1. /\ MeansOverTime(tr, l, f, LastWithin(tr, l, j, n), j, n)
        /\ MeansOverTime(tr, r, l, LastWithin(tr, r, j, n), j, n)
    BY <1>1, MeaningOverTime
  <2>2. LastWithin(tr, l, j, n) = n /\ LastWithin(tr, r, j, n) = n
    BY <1>1, <2>1 DEF MeansOverTime
  <2> QED
    BY <2>1, <2>2
<1>3. n \in Nat /\ i \in Nat /\ ~(n < n) /\ i \in i..n
  BY Entries
<1> DEFINE V(s, j) == Verdict(tr, s, j, n)
           T(s, j) == TrueAtEnd(tr, s, TRUE, j, n)
<1>4. \A j \in 1..n :
        /\ V(l, j) = IF \E k \in j..n : V(f, k) = -1 THEN -1 ELSE 0
        /\ T(l, j) <=> \A k \in j..n : T(f, k)
        /\ V(r, j) = IF \E k \in j..n : V(l, k) = -1 THEN -1 ELSE 0
        /\ T(r, j) <=> \A k \in j..n : T(l, k)
  BY <1>1, <1>2, <1>3 DEF MeansOverTime
<1> HIDE DEF V, T
<1>5. \A j \in i..n : j \in 1..n /\ j \in j..n /\ \A k \in j..n : k \in i..n
  BY <1>3
<1>6. (\E j \in i..n : V(l, j) = -1) <=> (\E k \in i..n : V(f, k) = -1)
  <2>1. \A j \in i..n : V(l, j) = -1 <=> \E k \in j..n : V(f, k) = -1
    BY <1>4, <1>5
  <2> QED
    BY <1>3, <1>5, <2>1
<1>7. (\A j \in i..n : T(l, j)) <=> (\A k \in i..n : T(f, k))
  <2>1. \A j \in i..n : T(l, j) <=> \A k \in j..n : T(f, k)
    BY <1>4, <1>5
  <2> QED
    BY <1>3, <1>5, <2>1
<1>8. V(l, i) = V(r, i)
  BY <1>4, <1>6
<1>9. T(l, i) <=> T(r, i)
  BY <1>4, <1>7
<1> QED
  BY <1>8, <1>9 DEF MeanTheSame, V, T

LEMMA EventuallyIdempotency ==
    ASSUME Recursive, NEW tr \in Traces, NEW n \in 1..Len(tr), NEW i \in 1..n,
           NEW l \in Syntaxes, NEW r \in Syntaxes, EventuallyIsIdempotent(l, r)
    PROVE  MeanTheSame(tr, l, r, i, n)
<1>0. PICK f : f = l.sub
  OBVIOUS
<1>1. /\ l.op = "Eventually" /\ l.sub = f /\ l.bound = NoEnd
      /\ r.op = "Eventually" /\ r.sub = l /\ r.bound = NoEnd
  BY <1>0 DEF EventuallyIsIdempotent, Eventually
<1>2. \A j \in 1..n : /\ LastWithin(tr, l, j, n) = n
                      /\ MeansOverTime(tr, l, f, n, j, n)
                      /\ LastWithin(tr, r, j, n) = n
                      /\ MeansOverTime(tr, r, l, n, j, n)
  <2> SUFFICES ASSUME NEW j \in 1..n
               PROVE  /\ LastWithin(tr, l, j, n) = n
                      /\ MeansOverTime(tr, l, f, n, j, n)
                      /\ LastWithin(tr, r, j, n) = n
                      /\ MeansOverTime(tr, r, l, n, j, n)
    OBVIOUS
  <2>1. /\ MeansOverTime(tr, l, f, LastWithin(tr, l, j, n), j, n)
        /\ MeansOverTime(tr, r, l, LastWithin(tr, r, j, n), j, n)
    BY <1>1, MeaningOverTime
  <2>2. LastWithin(tr, l, j, n) = n /\ LastWithin(tr, r, j, n) = n
    BY <1>1, <2>1 DEF MeansOverTime
  <2> QED
    BY <2>1, <2>2
<1>3. n \in Nat /\ i \in Nat /\ ~(n < n) /\ i \in i..n
  BY Entries
<1> DEFINE V(s, j) == Verdict(tr, s, j, n)
           T(s, j) == TrueAtEnd(tr, s, TRUE, j, n)
<1>4. \A j \in 1..n :
        /\ V(l, j) = IF \E k \in j..n : V(f, k) = 1 THEN 1 ELSE 0
        /\ T(l, j) <=> \E k \in j..n : T(f, k)
        /\ V(r, j) = IF \E k \in j..n : V(l, k) = 1 THEN 1 ELSE 0
        /\ T(r, j) <=> \E k \in j..n : T(l, k)
  BY <1>1, <1>2, <1>3 DEF MeansOverTime
<1> HIDE DEF V, T
<1>5. \A j \in i..n : j \in 1..n /\ j \in j..n /\ \A k \in j..n : k \in i..n
  BY <1>3
<1>6. (\E j \in i..n : V(l, j) = 1) <=> (\E k \in i..n : V(f, k) = 1)
  <2>1. \A j \in i..n : V(l, j) = 1 <=> \E k \in j..n : V(f, k) = 1
    BY <1>4, <1>5
  <2> QED
    BY <1>3, <1>5, <2>1
<1>7. (\E j \in i..n : T(l, j)) <=> (\E k \in i..n : T(f, k))
  <2>1. \A j \in i..n : T(l, j) <=> \E k \in j..n : T(f, k)
    BY <1>4, <1>5
  <2> QED
    BY <1>3, <1>5, <2>1
<1>8. V(l, i) = V(r, i)
  BY <1>4, <1>6
<1>9. T(l, i) <=> T(r, i)
  BY <1>4, <1>7
<1> QED
  BY <1>8, <1>9 DEF MeanTheSame, V, T

LEMMA EachLawHolds ==
    ASSUME Recursive, NEW tr \in Traces, NEW n \in 1..Len(tr), NEW i \in 1..n,
           NEW l \in Syntaxes, NEW r \in Syntaxes, Equates(l, r)
    PROVE  MeanTheSame(tr, l, r, i, n)
<1>1. CASE NextDistributes(l, r)
  BY <1>1, NextLaw
<1>2. CASE AlwaysDistributes(l, r)
  BY <1>2, AlwaysLaw
<1>3. CASE EventuallyDistributes(l, r)
  BY <1>3, EventuallyLaw
<1>4. CASE NextIsSelfDual(l, r)
  BY <1>4, NextDuality
<1>5. CASE AlwaysIsDual(l, r)
  BY <1>5, AlwaysDuality
<1>6. CASE AlwaysIsIdempotent(l, r)
  BY <1>6, AlwaysIdempotency
<1>7. CASE EventuallyIsIdempotent(l, r)
  BY <1>7, EventuallyIdempotency
<1> QED
  BY <1>1, <1>2, <1>3, <1>4, <1>5, <1>6, <1>7 DEF Equates

-----------------------------------------------------------------------------
(***************************************************************************)
(* Two exports in the same state, or first violated by the same state.     *)
(***************************************************************************)
AnswerAlike(m, n) ==
    /\ Unreported(m) <=> Unreported(n)
    /\ ~Unreported(m) => reports[m][1].at = reports[n][1].at
    /\ Unreported(m) =>
         /\ properties[m].is = properties[n].is
         /\ properties[m].is = "Residual" =>
              (StopDefault(properties[m].residual)
                  <=> StopDefault(properties[n].residual))

(***************************************************************************)
(* Until they are violated the two sides of a law are in the same state,   *)
(* with the same default should the test stop, and the same state violates *)
(* both first, whatever else the specification exports (check_equivalence).*)
(***************************************************************************)
LawsHold ==
    Now > 0 => \A m, n \in Names :
        Equates(specification[m], specification[n]) => AnswerAlike(m, n)

(***************************************************************************)
(* Two exports that mean the same answer alike until they are violated.    *)
(***************************************************************************)
LEMMA SameMeaningSameAnswers ==
    ASSUME Recursive, VerifierInv, Now > 0, NEW m \in Names, NEW n \in Names,
           \A k \in 1..Now : MeanTheSame(trace, specification[m], specification[n], 1, k)
    PROVE  AnswerAlike(m, n)
<1> DEFINE V(e, k) == Verdict(trace, specification[e], 1, k)
<1>1. /\ trace \in Traces /\ Now \in Nat /\ Now = Len(trace) /\ Now \in 1..Now
      /\ 1 \in 1..Len(trace)
  BY StatesSeen DEF VerifierInv
<1>2. \A k \in 1..Now : V(m, k) = V(n, k)
  BY DEF MeanTheSame
<1>3. \A e \in {m, n} : \A j, k \in 1..Now :
        j <= k /\ V(e, j) # 0 => V(e, k) = V(e, j)
  <2>1. specification[m] \in Syntaxes /\ specification[n] \in Syntaxes
    BY NamedSyntaxes DEF VerifierInv, Names
  <2> QED
    BY <1>1, <2>1, ReferenceValues
<1>4. \A e \in {m, n} : Unreported(e) => V(e, Now) \in {0, 1}
  BY WhileUnreported DEF Whole
<1>5. \A e \in {m, n} : ~Unreported(e) =>
        /\ reports[e][1].at \in 1..Now
        /\ V(e, reports[e][1].at) = -1
        /\ reports[e][1].at > 1 => V(e, reports[e][1].at - 1) = 0
  BY FirstViolation
<1> HIDE DEF V
<1>6. \A e \in {m, n} : ~Unreported(e) => V(e, Now) = -1
  BY <1>1, <1>3, <1>5
<1>7. Unreported(m) <=> Unreported(n)
  BY <1>1, <1>2, <1>4, <1>6
<1>8. ASSUME ~Unreported(m) PROVE reports[m][1].at = reports[n][1].at
  <2> DEFINE a == reports[m][1].at
             c == reports[n][1].at
  <2> SUFFICES a = c
    OBVIOUS
  <2>1. /\ a \in 1..Now /\ V(m, a) = -1 /\ (a > 1 => V(m, a - 1) = 0)
        /\ c \in 1..Now /\ V(n, c) = -1 /\ (c > 1 => V(n, c - 1) = 0)
    BY <1>5, <1>7, <1>8
  <2> HIDE DEF a, c
  <2>2. CASE a < c
    <3>1. c - 1 \in 1..Now /\ a <= c - 1 /\ c > 1
      BY <1>1, <2>1, <2>2
    <3> QED
      BY <1>2, <1>3, <2>1, <3>1
  <2>3. CASE c < a
    <3>1. a - 1 \in 1..Now /\ c <= a - 1 /\ a > 1
      BY <1>1, <2>1, <2>3
    <3> QED
      BY <1>2, <1>3, <2>1, <3>1
  <2> QED
    BY <1>1, <2>1, <2>2, <2>3
<1>9. ASSUME Unreported(m)
      PROVE  /\ properties[m].is = properties[n].is
             /\ properties[m].is = "Residual" =>
                  (StopDefault(properties[m].residual)
                      <=> StopDefault(properties[n].residual))
  <2>1. \A e \in {m, n} :
          /\ properties[e].is \in {"DefinitelyTrue", "Residual"}
          /\ properties[e].is = "DefinitelyTrue" => V(e, Now) = 1
          /\ properties[e].is = "Residual" =>
               /\ V(e, Now) = 0
               /\ StopDefault(properties[e].residual)
                      <=> TrueAtEnd(trace, specification[e], TRUE, 1, Now)
    BY <1>7, <1>9, WhileUnreported DEF Whole, V
  <2>2. TrueAtEnd(trace, specification[m], TRUE, 1, Now)
            <=> TrueAtEnd(trace, specification[n], TRUE, 1, Now)
    BY <1>1 DEF MeanTheSame
  <2>3. V(m, Now) = V(n, Now)
    BY <1>1, <1>2
  <2>4. properties[m].is = properties[n].is
    <3>1. \A e \in {m, n} :
            /\ properties[e].is \in {"DefinitelyTrue", "Residual"}
            /\ properties[e].is = "DefinitelyTrue" => V(e, Now) = 1
            /\ properties[e].is = "Residual" => V(e, Now) = 0
      BY <2>1
    <3> QED
      BY <2>3, <3>1
  <2> QED
    BY <2>1, <2>2, <2>4
<1> QED
  BY <1>7, <1>8, <1>9 DEF AnswerAlike

(***************************************************************************)
(* The laws of ltl_equivalences.rs hold for every formula and bound and    *)
(* every sequence of states: the two sides are in the same state, with the *)
(* same default, until the same state violates both                        *)
(* (Evaluator::evaluate, Evaluator::step, stop_default).                   *)
(***************************************************************************)
THEOREM EquivalencesHold ==
    Recursive => (Spec => []LawsHold)
<1>1. ASSUME Recursive, VerifierInv PROVE LawsHold
  <2> SUFFICES ASSUME Now > 0, NEW m \in Names, NEW n \in Names,
                      Equates(specification[m], specification[n])
               PROVE  AnswerAlike(m, n)
    BY DEF LawsHold
  <2>1. specification[m] \in Syntaxes /\ specification[n] \in Syntaxes
    BY <1>1, NamedSyntaxes DEF VerifierInv, Names
  <2>2. trace \in Traces /\ Now \in Nat /\ Now = Len(trace)
    BY <1>1, StatesSeen DEF VerifierInv
  <2>3. ASSUME NEW k \in 1..Now
        PROVE  MeanTheSame(trace, specification[m], specification[n], 1, k)
    <3>1. k \in 1..Len(trace) /\ 1 \in 1..k
      BY <2>2
    <3> QED
      BY <1>1, <2>1, <2>2, <3>1, EachLawHolds
  <2> QED
    BY <1>1, <2>3, SameMeaningSameAnswers
<1>2. Recursive /\ VerifierInv => LawsHold
  BY <1>1
<1>3. SUFFICES ASSUME Recursive PROVE Spec => []LawsHold
  OBVIOUS
<1> QED
  BY <1>2, <1>3, VerifierInvariant, PTL

-----------------------------------------------------------------------------
(***************************************************************************)
(* What an Always watches.  A residual guards another when that one is a   *)
(* conjunct of it, however deep below conjunctions and waiting Always of   *)
(* the same end: if it is violated so is the whole, and what is left of it *)
(* is guarded by what is left of the whole, violated or not.               *)
(***************************************************************************)
IsConjunct(q, r, end) ==
    \E other : /\ WellBuilt(other)
               /\ \/ r = Combined("And", q, other)
                  \/ r = Combined("And", other, q)
                  \/ \E f \in Formulas : \E onset :
                        \/ r = AndAlways(f, end, onset, q, other)
                        \/ r = AndAlways(f, end, onset, other, q)
Path(links, m, q, r, end) ==
    /\ links[0] = q /\ links[m] = r
    /\ \A k \in 0..m : WellBuilt(links[k])
    /\ \A k \in 1..m : IsConjunct(links[k - 1], links[k], end)
Guards(r, q, end) == \E m \in Nat : \E links : Path(links, m, q, r, end)

\* A value that still guards q, and one that passes on what happens to another.
Retains(v, q, end) ==
    \/ IsPending(v) /\ Guards(v.residual, q, end)
    \/ IsFalse(v) /\ v.next # <<>> /\ Guards(v.next[1], q, end)
Passes(w, v, end) ==
    /\ IsFalse(w) => IsFalse(v)
    /\ \A q : Retains(w, q, end) => Retains(v, q, end)

LEMMA ConjunctBuilt ==
    ASSUME NEW q, NEW r, NEW end, IsConjunct(q, r, end), WellBuilt(q)
    PROVE  WellBuilt(r)
<1>1. PICK other : /\ WellBuilt(other)
                   /\ \/ r = Combined("And", q, other)
                      \/ r = Combined("And", other, q)
                      \/ \E f \in Formulas : \E onset :
                            \/ r = AndAlways(f, end, onset, q, other)
                            \/ r = AndAlways(f, end, onset, other, q)
  BY DEF IsConjunct
<1>2. CASE r = Combined("And", q, other) \/ r = Combined("And", other, q)
  BY <1>1, <1>2, BuiltForms
<1>3. CASE \E f \in Formulas : \E onset :
               \/ r = AndAlways(f, end, onset, q, other)
               \/ r = AndAlways(f, end, onset, other, q)
  BY <1>1, <1>3, BuiltForms
<1> QED
  BY <1>1, <1>2, <1>3

LEMMA GuardForms ==
    ASSUME NEW end
    PROVE  /\ \A q : WellBuilt(q) => Guards(q, q, end)
           /\ \A big, r, q : Guards(r, q, end) /\ IsConjunct(r, big, end) =>
                  Guards(big, q, end)
<1>1. ASSUME NEW q, WellBuilt(q) PROVE Guards(q, q, end)
  <2> DEFINE links == [k \in {0} |-> q]
  <2>1. links[0] = q /\ 1..0 = {} /\ \A k \in 0..0 : k = 0
    OBVIOUS
  <2> HIDE DEF links
  <2>2. Path(links, 0, q, q, end)
    BY <1>1, <2>1 DEF Path
  <2> QED
    BY <2>2 DEF Guards
<1>2. ASSUME NEW big, NEW r, NEW q, Guards(r, q, end), IsConjunct(r, big, end)
      PROVE  Guards(big, q, end)
  <2>0. PICK m \in Nat : \E links : Path(links, m, q, r, end)
    BY <1>2 DEF Guards
  <2>1. PICK links : Path(links, m, q, r, end)
    BY <2>0
  <2> DEFINE more == [k \in 0..(m + 1) |-> IF k = m + 1 THEN big ELSE links[k]]
  <2>2. /\ more[m + 1] = big
        /\ \A k \in 0..m : more[k] = links[k]
    <3>1. m + 1 \in 0..(m + 1) /\ \A k \in 0..m : k \in 0..(m + 1) /\ k # m + 1
      OBVIOUS
    <3> QED
      BY <3>1
  <2> HIDE DEF more
  <2>3. links[m] = r /\ links[0] = q /\ 0 \in 0..m /\ m \in 0..m
    BY <2>1 DEF Path
  <2>4. WellBuilt(big)
    <3>1. WellBuilt(r)
      BY <2>1, <2>3 DEF Path
    <3> QED
      BY <1>2, <3>1, ConjunctBuilt
  <2>5. ASSUME NEW k \in 0..(m + 1) PROVE WellBuilt(more[k])
    <3>1. CASE k = m + 1
      BY <2>2, <2>4, <3>1
    <3>2. CASE k # m + 1
      <4>1. k \in 0..m
        BY <3>2
      <4> QED
        BY <2>1, <2>2, <4>1 DEF Path
    <3> QED
      BY <3>1, <3>2
  <2>6. ASSUME NEW k \in 1..(m + 1) PROVE IsConjunct(more[k - 1], more[k], end)
    <3>1. CASE k = m + 1
      <4>1. k - 1 = m
        BY <3>1
      <4>2. more[k - 1] = r /\ more[k] = big
        BY <2>2, <2>3, <3>1, <4>1
      <4> QED
        BY <1>2, <4>2
    <3>2. CASE k # m + 1
      <4>1. k \in 1..m /\ k \in 0..m /\ k - 1 \in 0..m
        BY <3>2
      <4> QED
        BY <2>1, <2>2, <4>1 DEF Path
    <3> QED
      BY <3>1, <3>2
  <2>7. Path(more, m + 1, q, big, end)
    BY <2>2, <2>3, <2>5, <2>6 DEF Path
  <2>8. m + 1 \in Nat
    OBVIOUS
  <2> QED
    BY <2>7, <2>8 DEF Guards
<1> QED
  BY <1>1, <1>2

LEMMA ConjunctsGuard ==
    ASSUME NEW end, NEW r, NEW q, Guards(r, q, end), NEW other, WellBuilt(other)
    PROVE  /\ Guards(Combined("And", r, other), q, end)
           /\ Guards(Combined("And", other, r), q, end)
           /\ \A f \in Formulas : \A onset :
                /\ Guards(AndAlways(f, end, onset, r, other), q, end)
                /\ Guards(AndAlways(f, end, onset, other, r), q, end)
<1>1. Guards(Combined("And", r, other), q, end)
  <2>1. IsConjunct(r, Combined("And", r, other), end)
    BY DEF IsConjunct
  <2> QED
    BY <2>1, GuardForms
<1>2. Guards(Combined("And", other, r), q, end)
  <2>1. IsConjunct(r, Combined("And", other, r), end)
    BY DEF IsConjunct
  <2> QED
    BY <2>1, GuardForms
<1>3. ASSUME NEW f \in Formulas, NEW onset
      PROVE  /\ Guards(AndAlways(f, end, onset, r, other), q, end)
             /\ Guards(AndAlways(f, end, onset, other, r), q, end)
  <2>1. /\ IsConjunct(r, AndAlways(f, end, onset, r, other), end)
        /\ IsConjunct(r, AndAlways(f, end, onset, other, r), end)
    BY DEF IsConjunct
  <2> QED
    BY <2>1, GuardForms
<1> QED
  BY <1>1, <1>2, <1>3

\* At most one residual, that guards q.
NextGuards(next, q, end) == next # <<>> /\ Guards(next[1], q, end)

LEMMA CombinedGuards ==
    ASSUME NEW a, NEW b, GoodNext(a), GoodNext(b), NEW q, NEW end,
           NextGuards(a, q, end) \/ NextGuards(b, q, end)
    PROVE  NextGuards(CombineOptions(a, b, "And"), q, end)
<1> DEFINE c == CombineOptions(a, b, "And")
<1>1. CASE a # <<>> /\ b # <<>>
  <2>1. WellBuilt(a[1]) /\ WellBuilt(b[1])
    BY <1>1, NextsGood
  <2>2. Guards(Combined("And", a[1], b[1]), q, end)
    BY <2>1, ConjunctsGuard DEF NextGuards
  <2>3. c = <<Combined("And", a[1], b[1])>>
    BY <1>1 DEF CombineOptions
  <2> HIDE DEF c
  <2>4. c # <<>> /\ c[1] = Combined("And", a[1], b[1])
    BY <2>3
  <2>5. NextGuards(c, q, end)
    BY <2>2, <2>4 DEF NextGuards
  <2> QED
    BY <2>5 DEF c
<1>2. CASE a = <<>>
  <2>1. PICK r : b = <<r>>
    BY <1>2 DEF NextGuards, GoodNext
  <2>2. b \in Seq({r})
    BY <2>1
  <2>3. <<>> \o b = b
    BY <2>2, ConcatEmptySeq
  <2>4. c = b
    BY <1>2, <2>3 DEF CombineOptions
  <2> QED
    BY <1>2, <2>4 DEF NextGuards
<1>3. CASE b = <<>>
  <2>1. PICK r : a = <<r>>
    BY <1>3 DEF NextGuards, GoodNext
  <2>2. a \in Seq({r})
    BY <2>1
  <2>3. a \o <<>> = a
    BY <2>2, ConcatEmptySeq
  <2>4. c = a
    BY <1>3, <2>3 DEF CombineOptions
  <2> QED
    BY <1>3, <2>4 DEF NextGuards
<1> QED
  BY <1>1, <1>2, <1>3

LEMMA ContinuationGuards ==
    ASSUME NEW f \in Formulas, NEW end, NEW onset, NEW inner, GoodNext(inner), NEW q,
           NextGuards(inner, q, end) \/ q = DerivedAlways(f, end)
    PROVE  NextGuards(Continuation(f, end, onset, inner, DerivedAlways(f, end)), q, end)
<1> DEFINE rest == DerivedAlways(f, end)
           beside == AndAlways(f, end, onset, inner[1], rest)
           c == Continuation(f, end, onset, inner, rest)
<1>1. WellBuilt(rest)
  BY BuiltForms
<1>2. CASE inner = <<>>
  <2>1. c = <<rest>> /\ q = rest
    BY <1>2 DEF Continuation, NextGuards
  <2>2. Guards(rest, rest, end)
    BY <1>1, GuardForms
  <2> HIDE DEF c, rest
  <2>3. NextGuards(c, q, end)
    BY <2>1, <2>2 DEF NextGuards
  <2> QED
    BY <2>3 DEF c, rest
<1>3. CASE inner # <<>>
  <2>1. WellBuilt(inner[1])
    BY <1>3, NextsGood
  <2>2. Guards(inner[1], q, end) \/ q = rest
    BY DEF NextGuards
  <2>3. Guards(rest, rest, end)
    BY <1>1, GuardForms
  <2>4. c = <<beside>>
    BY <1>3 DEF Continuation
  <2> HIDE DEF rest
  <2>5. Guards(beside, q, end)
    BY <1>1, <2>1, <2>2, <2>3, ConjunctsGuard
  <2> HIDE DEF c, beside
  <2>6. NextGuards(c, q, end)
    BY <2>4, <2>5 DEF NextGuards
  <2> QED
    BY <2>6 DEF c, rest
<1> QED
  BY <1>2, <1>3


\* A good value guards q through what it leaves to step.
LEMMA RetainsForms ==
    ASSUME NEW v, GoodValue(v), NEW end
    PROVE  /\ \A q : Retains(v, q, end) <=> NextGuards(PendingResidual(v), q, end)
           /\ \A r, q : Guards(r, q, end) => Retains(Pending(r), q, end)
           /\ \A violation, next, q : NextGuards(next, q, end) =>
                  Retains(FalseValue(violation, next), q, end)
<1>1. ASSUME NEW q
      PROVE  Retains(v, q, end) <=> NextGuards(PendingResidual(v), q, end)
  <2>1. CASE IsPending(v)
    <3>1. PendingResidual(v) = <<v.residual>> /\ ~IsFalse(v)
      BY <2>1 DEF PendingResidual, IsPending, IsFalse
    <3>2. <<v.residual>> # <<>> /\ <<v.residual>>[1] = v.residual
      OBVIOUS
    <3>3. NextGuards(<<v.residual>>, q, end) <=> Guards(v.residual, q, end)
      BY <3>2 DEF NextGuards
    <3> QED
      BY <2>1, <3>1, <3>3 DEF Retains
  <2>2. CASE IsFalse(v)
    <3>1. PendingResidual(v) = v.next /\ ~IsPending(v)
      BY <2>2 DEF PendingResidual, IsPending, IsFalse
    <3> QED
      BY <2>2, <3>1 DEF Retains, NextGuards
  <2>3. CASE ~IsPending(v) /\ ~IsFalse(v)
    BY <2>3 DEF Retains, NextGuards, PendingResidual
  <2> QED
    BY <2>1, <2>2, <2>3
<1>2. ASSUME NEW r, NEW q, Guards(r, q, end) PROVE Retains(Pending(r), q, end)
  BY <1>2 DEF Retains, Pending, IsPending
<1>3. ASSUME NEW violation, NEW next, NEW q, NextGuards(next, q, end)
      PROVE  Retains(FalseValue(violation, next), q, end)
  BY <1>3 DEF Retains, FalseValue, IsFalse, NextGuards
<1> QED
  BY <1>1, <1>2, <1>3

LEMMA AndPasses ==
    ASSUME NEW v, NEW w, GoodValue(v), GoodValue(w), NEW end
    PROVE  /\ Passes(v, EvaluateAnd(v, w), end)
           /\ Passes(w, EvaluateAnd(v, w), end)
<1> DEFINE x == EvaluateAnd(v, w)
           a == PendingResidual(v)
           b == PendingResidual(w)
<1>1. /\ IsTrue(v) \/ IsFalse(v) \/ IsPending(v)
      /\ IsTrue(w) \/ IsFalse(w) \/ IsPending(w)
      /\ ~(IsTrue(v) /\ IsFalse(v)) /\ ~(IsTrue(v) /\ IsPending(v))
      /\ ~(IsFalse(v) /\ IsPending(v))
      /\ ~(IsTrue(w) /\ IsFalse(w)) /\ ~(IsTrue(w) /\ IsPending(w))
      /\ ~(IsFalse(w) /\ IsPending(w))
  BY DEF GoodValue, IsValue, IsTrue, IsFalse, IsPending
<1>2. IsFalse(v) \/ IsFalse(w) => IsFalse(x)
  BY <1>1 DEF EvaluateAnd, FalseValue, IsFalse
<1>3. /\ IsPending(v) => WellBuilt(v.residual)
      /\ IsPending(w) => WellBuilt(w.residual)
      /\ GoodNext(a) /\ GoodNext(b)
  BY NextsGood DEF GoodValue
<1>4. ASSUME NEW q, Retains(v, q, end) \/ Retains(w, q, end)
      PROVE  Retains(x, q, end)
  <2>0. /\ NextGuards(a, q, end) \/ NextGuards(b, q, end)
        /\ ~IsTrue(v) \/ ~IsTrue(w)
    <3>1. NextGuards(a, q, end) \/ NextGuards(b, q, end)
      BY <1>4, RetainsForms
    <3> QED
      BY <1>1, <1>4, <3>1 DEF Retains
  <2>1. CASE IsTrue(v) /\ IsPending(w)
    <3>1. Guards(w.residual, q, end)
      BY <1>1, <1>4, <2>1 DEF Retains
    <3>2. Guards(Combined("And", TrueResidual, w.residual), q, end)
      BY <3>1, BuiltForms, ConjunctsGuard
    <3>3. x = Pending(Combined("And", TrueResidual, w.residual))
      BY <2>1 DEF EvaluateAnd
    <3> HIDE DEF x
    <3> QED
      BY <3>2, <3>3, RetainsForms
  <2>2. CASE IsPending(v) /\ IsTrue(w)
    <3>1. Guards(v.residual, q, end)
      BY <1>1, <1>4, <2>2 DEF Retains
    <3>2. Guards(Combined("And", v.residual, TrueResidual), q, end)
      BY <3>1, BuiltForms, ConjunctsGuard
    <3>3. x = Pending(Combined("And", v.residual, TrueResidual))
      BY <1>1, <2>2 DEF EvaluateAnd
    <3> HIDE DEF x
    <3> QED
      BY <3>2, <3>3, RetainsForms
  <2>3. CASE IsTrue(v) /\ IsFalse(w)
    <3>1. x = w /\ ~Retains(v, q, end)
      BY <1>1, <2>3 DEF EvaluateAnd, Retains
    <3> QED
      BY <1>4, <3>1
  <2>4. CASE IsFalse(v) /\ IsTrue(w)
    <3>1. x = v /\ ~Retains(w, q, end)
      BY <1>1, <2>4 DEF EvaluateAnd, Retains
    <3> QED
      BY <1>4, <3>1
  <2>5. CASE IsPending(v) /\ IsPending(w)
    <3>1. Guards(v.residual, q, end) \/ Guards(w.residual, q, end)
      BY <1>1, <1>4, <2>5 DEF Retains
    <3>2. Guards(Combined("And", v.residual, w.residual), q, end)
      BY <1>3, <2>5, <3>1, ConjunctsGuard
    <3>3. x = Pending(Combined("And", v.residual, w.residual))
      BY <1>1, <2>5 DEF EvaluateAnd
    <3> HIDE DEF x
    <3> QED
      BY <3>2, <3>3, RetainsForms
  <2>6. CASE (IsFalse(v) \/ IsPending(v)) /\ IsFalse(w)
    <3>1. \E violation : x = FalseValue(violation, CombineOptions(a, b, "And"))
      <4>1. CASE IsFalse(v)
        <5>1. a = v.next /\ b = w.next
          BY <1>1, <2>6, <4>1 DEF PendingResidual
        <5>2. x = FalseValue(BothViolated("And", v.violation, w.violation),
                             CombineOptions(v.next, w.next, "And"))
          BY <1>1, <2>6, <4>1 DEF EvaluateAnd
        <5> QED
          BY <5>1, <5>2
      <4>2. CASE IsPending(v)
        <5>1. a = <<v.residual>> /\ b = w.next
          BY <1>1, <2>6, <4>2 DEF PendingResidual
        <5>2. x = FalseValue(w.violation,
                             CombineOptions(<<v.residual>>, w.next, "And"))
          BY <1>1, <2>6, <4>2 DEF EvaluateAnd
        <5> QED
          BY <5>1, <5>2
      <4> QED
        BY <2>6, <4>1, <4>2
    <3> HIDE DEF a, b, x
    <3>2. NextGuards(CombineOptions(a, b, "And"), q, end)
      BY <1>3, <2>0, CombinedGuards
    <3> QED
      BY <3>1, <3>2, RetainsForms
  <2>7. CASE IsFalse(v) /\ IsPending(w)
    <3>1. \E violation : x = FalseValue(violation, CombineOptions(b, a, "And"))
      <4>1. a = v.next /\ b = <<w.residual>>
        BY <1>1, <2>7 DEF PendingResidual
      <4>2. x = FalseValue(v.violation,
                           CombineOptions(<<w.residual>>, v.next, "And"))
        BY <1>1, <2>7 DEF EvaluateAnd
      <4> QED
        BY <4>1, <4>2
    <3> HIDE DEF a, b, x
    <3>2. NextGuards(CombineOptions(b, a, "And"), q, end)
      BY <1>3, <2>0, CombinedGuards
    <3> QED
      BY <3>1, <3>2, RetainsForms
  <2> QED
    BY <1>1, <2>0, <2>1, <2>2, <2>3, <2>4, <2>5, <2>6, <2>7
<1> QED
  BY <1>2, <1>4 DEF Passes

LEMMA AndAlwaysPasses ==
    ASSUME NEW v, NEW w, GoodValue(v), GoodValue(w), NEW end, NEW time,
           ~Past(end, time), NEW f \in Formulas, NEW onset,
           NEW x, x = EvaluateAndAlways(f, end, onset, time, v, w)
    PROVE  Passes(v, x, end) /\ Passes(w, x, end)
<1> DEFINE a == PendingResidual(v)
           b == PendingResidual(w)
           rest == DerivedAlways(f, end)
           inner == CombineOptions(a, b, "And")
<1>1. /\ IsTrue(v) \/ IsFalse(v) \/ IsPending(v)
      /\ IsTrue(w) \/ IsFalse(w) \/ IsPending(w)
      /\ ~(IsTrue(v) /\ IsFalse(v)) /\ ~(IsTrue(v) /\ IsPending(v))
      /\ ~(IsFalse(v) /\ IsPending(v))
      /\ ~(IsTrue(w) /\ IsFalse(w)) /\ ~(IsTrue(w) /\ IsPending(w))
      /\ ~(IsFalse(w) /\ IsPending(w))
  BY DEF GoodValue, IsValue, IsTrue, IsFalse, IsPending
<1>2. IsFalse(v) \/ IsFalse(w) =>
          \E violation : x = FalseValue(violation,
                                 Continuation(f, end, onset, inner, rest))
  BY <1>1 DEF EvaluateAndAlways
<1>3. /\ IsPending(v) => WellBuilt(v.residual)
      /\ IsPending(w) => WellBuilt(w.residual)
      /\ GoodNext(a) /\ GoodNext(b)
  BY NextsGood DEF GoodValue
<1>4. ASSUME NEW q, Retains(v, q, end) \/ Retains(w, q, end)
      PROVE  Retains(x, q, end)
  <2>0. /\ NextGuards(a, q, end) \/ NextGuards(b, q, end)
        /\ ~IsTrue(v) \/ ~IsTrue(w)
    <3>1. NextGuards(a, q, end) \/ NextGuards(b, q, end)
      BY <1>4, RetainsForms
    <3> QED
      BY <1>1, <1>4, <3>1 DEF Retains
  <2>1. CASE IsTrue(v) /\ IsPending(w)
    <3>1. Guards(w.residual, q, end)
      BY <1>1, <1>4, <2>1 DEF Retains
    <3>2. Guards(AndAlways(f, end, time, TrueResidual, w.residual), q, end)
      BY <3>1, BuiltForms, ConjunctsGuard
    <3>3. x = Pending(AndAlways(f, end, time, TrueResidual, w.residual))
      BY <1>1, <2>1 DEF EvaluateAndAlways
    <3> QED
      BY <3>2, <3>3, RetainsForms
  <2>2. CASE IsPending(v) /\ IsTrue(w)
    <3>1. Guards(v.residual, q, end)
      BY <1>1, <1>4, <2>2 DEF Retains
    <3>2. Guards(AndAlways(f, end, onset, v.residual, TrueResidual), q, end)
      BY <3>1, BuiltForms, ConjunctsGuard
    <3>3. x = Pending(AndAlways(f, end, onset, v.residual, TrueResidual))
      BY <1>1, <2>2 DEF EvaluateAndAlways
    <3> QED
      BY <3>2, <3>3, RetainsForms
  <2>3. CASE IsPending(v) /\ IsPending(w)
    <3>1. Guards(v.residual, q, end) \/ Guards(w.residual, q, end)
      BY <1>1, <1>4, <2>3 DEF Retains
    <3>2. Guards(AndAlways(f, end, onset, v.residual, w.residual), q, end)
      BY <1>3, <2>3, <3>1, ConjunctsGuard
    <3>3. x = Pending(AndAlways(f, end, onset, v.residual, w.residual))
      BY <1>1, <2>3 DEF EvaluateAndAlways
    <3> QED
      BY <3>2, <3>3, RetainsForms
  <2>4. CASE IsFalse(v) \/ IsFalse(w)
    <3> HIDE DEF a, b
    <3>1. GoodNext(inner) /\ NextGuards(inner, q, end)
      BY <1>3, <2>0, CombinedGuards, NextsGood
    <3> HIDE DEF inner
    <3>2. NextGuards(Continuation(f, end, onset, inner, rest), q, end)
      BY <3>1, ContinuationGuards
    <3> HIDE DEF rest
    <3> QED
      BY <1>2, <2>4, <3>2, RetainsForms
  <2> QED
    BY <1>1, <2>0, <2>1, <2>2, <2>3, <2>4
<1>5. IsFalse(v) \/ IsFalse(w) => IsFalse(x)
  BY <1>2 DEF FalseValue, IsFalse
<1> QED
  BY <1>4, <1>5 DEF Passes

\* An Always goes on watching, and guards what its subformula leaves open.
LEMMA AlwaysRetains ==
    ASSUME NEW f \in Formulas, NEW end, NEW time, ~Past(end, time),
           NEW inner, GoodValue(inner),
           NEW x, x = AlwaysValue(f, end, time, inner)
    PROVE  /\ IsFalse(inner) => IsFalse(x)
           /\ Retains(x, DerivedAlways(f, end), end)
           /\ IsPending(inner) => Retains(x, inner.residual, end)
<1> DEFINE rest == DerivedAlways(f, end)
<1>1. /\ IsTrue(inner) \/ IsFalse(inner) \/ IsPending(inner)
      /\ ~(IsTrue(inner) /\ IsFalse(inner)) /\ ~(IsTrue(inner) /\ IsPending(inner))
      /\ ~(IsFalse(inner) /\ IsPending(inner))
      /\ IsPending(inner) => WellBuilt(inner.residual)
      /\ IsFalse(inner) => GoodNext(inner.next)
  BY DEF GoodValue, IsValue, IsTrue, IsFalse, IsPending
<1>2. WellBuilt(rest) /\ Guards(rest, rest, end)
  BY BuiltForms, GuardForms
<1>3. CASE IsTrue(inner)
  <2>1. x = Pending(rest)
    BY <1>3 DEF AlwaysValue
  <2> HIDE DEF rest
  <2>2. Retains(x, rest, end)
    BY <1>2, <2>1, RetainsForms
  <2> QED
    BY <1>1, <1>3, <2>2 DEF rest
<1>4. CASE IsPending(inner)
  <2>1. x = Pending(AndAlways(f, end, time, inner.residual, rest))
    BY <1>1, <1>4 DEF AlwaysValue
  <2>2. Guards(inner.residual, inner.residual, end)
    BY <1>1, <1>4, GuardForms
  <2> HIDE DEF rest
  <2>3. /\ Guards(AndAlways(f, end, time, inner.residual, rest), rest, end)
        /\ Guards(AndAlways(f, end, time, inner.residual, rest),
                  inner.residual, end)
    BY <1>1, <1>2, <1>4, <2>2, ConjunctsGuard
  <2>4. Retains(x, rest, end) /\ Retains(x, inner.residual, end)
    BY <2>1, <2>3, RetainsForms
  <2> QED
    BY <1>1, <1>4, <2>4 DEF rest
<1>5. CASE IsFalse(inner)
  <2>1. x = FalseValue(AlwaysViolation(time, inner.violation),
                       Continuation(f, end, time, inner.next, rest))
    BY <1>1, <1>5 DEF AlwaysValue
  <2>2. NextGuards(Continuation(f, end, time, inner.next, rest), rest, end)
    BY <1>1, <1>5, ContinuationGuards
  <2> HIDE DEF rest
  <2>3. Retains(x, rest, end)
    BY <2>1, <2>2, RetainsForms
  <2>4. IsFalse(x)
    BY <2>1 DEF FalseValue, IsFalse
  <2> QED
    BY <1>1, <1>5, <2>3, <2>4 DEF rest
<1> QED
  BY <1>1, <1>3, <1>4, <1>5

LEMMA ConjunctPasses ==
    ASSUME Recursive, NEW state \in States, NEW time \in Nat,
           NEW end, ~Past(end, time), NEW q, NEW r, IsConjunct(q, r, end), WellBuilt(q)
    PROVE  Passes(Step(q, state, time), Step(r, state, time), end)
<1>1. PICK other : /\ WellBuilt(other)
                   /\ \/ r = Combined("And", q, other)
                      \/ r = Combined("And", other, q)
                      \/ \E f \in Formulas : \E onset :
                            \/ r = AndAlways(f, end, onset, q, other)
                            \/ r = AndAlways(f, end, onset, other, q)
  BY DEF IsConjunct
<1>2. GoodValue(Step(q, state, time)) /\ GoodValue(Step(other, state, time))
  BY <1>1, StepGood
<1>3. ResidualRecursion
  BY DEF Recursive
<1>4. CASE r = Combined("And", q, other)
  <2>1. Step(r, state, time)
            = EvaluateAnd(Step(q, state, time), Step(other, state, time))
    BY <1>3, <1>4, StepOfForms
  <2> QED
    BY <1>2, <2>1, AndPasses
<1>5. CASE r = Combined("And", other, q)
  <2>1. Step(r, state, time)
            = EvaluateAnd(Step(other, state, time), Step(q, state, time))
    BY <1>3, <1>5, StepOfForms
  <2> QED
    BY <1>2, <2>1, AndPasses
<1>6. ASSUME NEW f \in Formulas, NEW onset, r = AndAlways(f, end, onset, q, other)
      PROVE  Passes(Step(q, state, time), Step(r, state, time), end)
  <2>1. Step(r, state, time) = EvaluateAndAlways(f, end, onset, time,
            Step(q, state, time), Step(other, state, time))
    BY <1>3, <1>6, StepOfForms
  <2> QED
    BY <1>2, <2>1, AndAlwaysPasses
<1>7. ASSUME NEW f \in Formulas, NEW onset, r = AndAlways(f, end, onset, other, q)
      PROVE  Passes(Step(q, state, time), Step(r, state, time), end)
  <2>1. Step(r, state, time) = EvaluateAndAlways(f, end, onset, time,
            Step(other, state, time), Step(q, state, time))
    BY <1>3, <1>7, StepOfForms
  <2> QED
    BY <1>2, <2>1, AndAlwaysPasses
<1> QED
  BY <1>1, <1>4, <1>5, <1>6, <1>7

LEMMA GuardedPasses ==
    ASSUME Recursive, NEW state \in States, NEW time \in Nat,
           NEW end, ~Past(end, time), NEW q, NEW r, Guards(r, q, end)
    PROVE  Passes(Step(q, state, time), Step(r, state, time), end)
<1>0. PICK m \in Nat : \E links : Path(links, m, q, r, end)
  BY DEF Guards
<1>1. PICK links : Path(links, m, q, r, end)
  BY <1>0
<1> DEFINE T == {k \in 0..m : ~Passes(Step(q, state, time),
                                      Step(links[k], state, time), end)}
<1>2. T = {}
  <2> SUFFICES ASSUME T # {} PROVE FALSE
    OBVIOUS
  <2>0. T \subseteq Nat
    OBVIOUS
  <2>1. PICK k \in T : \A j \in T : k <= j
    BY <2>0, LeastNumber
  <2>2. k \in 0..m /\ ~Passes(Step(q, state, time), Step(links[k], state, time), end)
    BY <2>1
  <2>3. CASE k = 0
    <3>1. links[k] = q
      BY <1>1, <2>3 DEF Path
    <3> QED
      BY <2>2, <3>1 DEF Passes
  <2>4. CASE k # 0
    <3>1. k \in 1..m /\ k - 1 \in 0..m /\ ~(k <= k - 1)
      BY <2>2, <2>4
    <3>2. Passes(Step(q, state, time), Step(links[k - 1], state, time), end)
      BY <2>1, <3>1
    <3>3. IsConjunct(links[k - 1], links[k], end) /\ WellBuilt(links[k - 1])
      BY <1>1, <3>1 DEF Path
    <3>4. Passes(Step(links[k - 1], state, time), Step(links[k], state, time), end)
      BY <3>3, ConjunctPasses
    <3> QED
      BY <2>2, <3>2, <3>4 DEF Passes
  <2> QED
    BY <2>3, <2>4
<1>3. m \in 0..m /\ links[m] = r
  BY <1>1 DEF Path
<1> QED
  BY <1>2, <1>3

(***************************************************************************)
(* An exported Always, until its end: what is left of it guards the Always *)
(* itself and its subformula at every position where it is undecided, and  *)
(* a subformula just refuted has been reported.                            *)
(***************************************************************************)
EndFor(s, seen) == EndOf(s.bound, seen[1].time)
Still(s, seen) == ~Past(EndFor(s, seen), seen[Len(seen)].time)
Guarded(r, s, seen) ==
    /\ Guards(r, DerivedAlways(Formula(s.sub, TRUE), EndFor(s, seen)), EndFor(s, seen))
    /\ \A tr \in Extensions(seen) : \A i \in 1..Len(seen) :
          Signal(tr, s.sub, TRUE, i).known[Len(seen)] = 0 =>
              \E q : /\ Guards(r, q, EndFor(s, seen))
                     /\ Stands(q, Signal(tr, s.sub, TRUE, i), Len(seen), tr)
Refuting(x, i, n) == x.known[n] = -1 /\ (i < n => x.known[n - 1] # -1)
ListedAt(list, n) == \E k \in DOMAIN list : list[k].at = n
Alerted(list, s, seen) ==
    \A tr \in Extensions(seen) : \A i \in 1..Len(seen) :
        Refuting(Signal(tr, s.sub, TRUE, i), i, Len(seen)) =>
            ListedAt(list, Len(seen))
Kept(property, s, list, seen) ==
    s.op = "Always" =>
        IF Len(seen) = 0 THEN Unmet(property, s)
        ELSE Still(s, seen) => /\ IsStepping(property)
                               /\ Guarded(property.residual, s, seen)
                               /\ Alerted(list, s, seen)

SameEnd(s, seen, more, time) ==
    /\ Len(seen) = 0 => EndFor(s, more) = EndOf(s.bound, time)
    /\ Len(seen) # 0 => EndFor(s, more) = EndFor(s, seen)
    /\ Len(seen) # 0 /\ Still(s, more) => Still(s, seen)
    /\ Still(s, more) <=> ~Past(EndFor(s, more), time)

LEMMA EndStays ==
    ASSUME NEW seen \in Traces, NEW entry \in [time : Nat, state : States],
           NEW more, more = Append(seen, entry),
           seen # <<>> => seen[Len(seen)].time <= entry.time,
           NEW s, s.bound \in Nat \cup {NoEnd}
    PROVE  SameEnd(s, seen, more, entry.time)
<1> DEFINE E == [time : Nat, state : States]
<1>1. seen \in Seq(E) /\ Len(seen) \in Nat
  BY Entries
<1>2. /\ Len(more) = Len(seen) + 1
      /\ \A k \in 1..Len(seen) : more[k] = seen[k]
      /\ more[Len(seen) + 1] = entry
  <2> HIDE DEF E
  <2> QED
    BY <1>1, AppendProperties DEF E
<1>3. Still(s, more) <=> ~Past(EndFor(s, more), entry.time)
  BY <1>1, <1>2 DEF Still
<1>4. CASE Len(seen) = 0
  BY <1>2, <1>3, <1>4 DEF EndFor, SameEnd
<1>5. CASE Len(seen) # 0
  <2>1. 1 \in 1..Len(seen) /\ Len(seen) \in 1..Len(seen) /\ seen # <<>>
    BY <1>1, <1>5
  <2>2. more[1] = seen[1]
    BY <1>2, <2>1
  <2>3. EndFor(s, more) = EndFor(s, seen)
    BY <2>2 DEF EndFor
  <2>4. PICK a, b, c : a = seen[1].time /\ b = seen[Len(seen)].time /\ c = entry.time
    OBVIOUS
  <2>5. a \in Nat /\ b \in Nat /\ c \in Nat /\ b <= c
    BY <2>1, <2>4, Entries
  <2>6. PICK end : end = EndFor(s, seen)
    OBVIOUS
  <2>7. end = NoEnd \/ end \in Nat
    BY <2>4, <2>5, <2>6 DEF EndFor, EndOf
  <2>8. ~Past(end, c) => ~Past(end, b)
    BY <2>5, <2>7 DEF Past, NoEnd
  <2> QED
    BY <1>3, <1>5, <2>3, <2>4, <2>6, <2>8 DEF Still, SameEnd
<1> QED
  BY <1>4, <1>5

\* What the value of an exported Always in the next state says of the values
\* of its subformula.
Accounts(v, s, more) ==
    /\ Retains(v, DerivedAlways(Formula(s.sub, TRUE), EndFor(s, more)),
               EndFor(s, more))
    /\ \A tr \in Extensions(more) : \A i \in 1..Len(more) :
         /\ Signal(tr, s.sub, TRUE, i).known[Len(more)] = 0 =>
              \E q : /\ Retains(v, q, EndFor(s, more))
                     /\ Stands(q, Signal(tr, s.sub, TRUE, i), Len(more), tr)
         /\ Refuting(Signal(tr, s.sub, TRUE, i), i, Len(more)) => IsFalse(v)

LEMMA ValueAccounts ==
    ASSUME Recursive, NEW seen \in Traces, NEW state \in States, NEW time \in Nat,
           NEW entry, entry = [time |-> time, state |-> state],
           NEW more, more = Append(seen, entry),
           seen # <<>> => seen[Len(seen)].time <= time,
           NEW s \in Syntaxes, s.op = "Always", NEW property, NEW list,
           Kept(property, s, list, seen), Still(s, more),
           NEW v, v = ValueOf(property, state, time)
    PROVE  Accounts(v, s, more)
<1> DEFINE n == Len(more)
           end == EndFor(s, more)
           f == Formula(s.sub, TRUE)
           rest == DerivedAlways(f, end)
           w == ValueIn(s.sub, TRUE, state, time)
           always == AlwaysValue(f, end, time, w)
<1>1. entry \in [time : Nat, state : States] /\ entry.time = time /\ entry.state = state
  OBVIOUS
<1>2. /\ Len(seen) \in Nat /\ n = Len(seen) + 1 /\ more \in Traces
      /\ Extensions(more) \subseteq Extensions(seen)
      /\ \A tr \in Extensions(more) : /\ tr \in Traces /\ n \in 1..Len(tr)
                                      /\ tr[n] = entry
  <2>1. Len(seen) \in Nat
    BY Entries
  <2>2. seen # <<>> => seen[Len(seen)].time <= entry.time
    BY <1>1
  <2>3. more \in Traces /\ Len(more) = Len(seen) + 1
    BY ONLY <1>1, <2>2, seen \in Traces, more = Append(seen, entry),
            ExtensionsShrink
  <2>4. Extensions(more) \subseteq Extensions(seen)
    BY ONLY <1>1, <2>2, seen \in Traces, more = Append(seen, entry),
            ExtensionsShrink
  <2>5. more[Len(more)] = entry
    BY ONLY <1>1, <2>2, seen \in Traces, more = Append(seen, entry),
            ExtensionsShrink
  <2>6. ASSUME NEW tr \in Extensions(more)
        PROVE  tr \in Traces /\ Len(more) \in 1..Len(tr) /\ tr[Len(more)] = entry
    <3>1. /\ tr \in Traces /\ Len(more) <= Len(tr)
          /\ \A k \in 1..Len(more) : tr[k] = more[k]
      BY DEF Extensions
    <3>2. Len(tr) \in Nat
      BY <3>1, Entries
    <3> QED
      BY <2>1, <2>3, <2>5, <3>1, <3>2
  <2> QED
    BY <2>1, <2>3, <2>4, <2>6
<1>3. s.sub \in Syntaxes /\ s.bound \in Nat \cup {NoEnd}
  BY SyntaxForms
<1>4. /\ Len(seen) = 0 => end = EndOf(s.bound, time)
      /\ Len(seen) # 0 => end = EndFor(s, seen) /\ Still(s, seen)
      /\ ~Past(end, time)
  <2>1. seen # <<>> => seen[Len(seen)].time <= entry.time
    BY <1>1
  <2>2. SameEnd(s, seen, more, entry.time)
    BY ONLY <1>1, <1>3, <2>1, seen \in Traces, more = Append(seen, entry), EndStays
  <2>3. SameEnd(s, seen, more, time)
    BY <1>1, <2>2
  <2> QED
    BY <2>3 DEF SameEnd
<1>5. PICK yes \in BOOLEAN : yes = TRUE
  OBVIOUS
<1>6. f \in Formulas
  <2>1. Formula(s.sub, yes) \in Formulas
    BY <1>3 DEF Formulas
  <2> QED
    BY <1>5, <2>1
<1>7. GoodValue(w)
  BY <1>6, EvaluateGood DEF ValueIn, Recursive
<1>8. ResidualRecursion /\ SyntaxRecursion
  BY DEF Recursive
<1>9. Len(seen) # 0 =>
        /\ IsStepping(property) /\ Guarded(property.residual, s, seen)
        /\ v = Step(property.residual, state, time)
  <2> HAVE Len(seen) # 0
  <2>1. IsStepping(property) /\ Guarded(property.residual, s, seen)
    BY <1>4 DEF Kept
  <2> QED
    BY <2>1 DEF IsStepping, ValueOf
<1>10. Passes(always, v, end)
  <2>1. CASE Len(seen) = 0
    <3>1. Unmet(property, s)
      BY <2>1 DEF Kept
    <3>2. v = ValueIn(s, TRUE, state, time)
      BY <3>1, StatesOfProperties DEF Unmet, ValueOf, ValueIn
    <3>3. Universal(s, yes)
      BY <1>5 DEF Universal
    <3>4. ValueIn(s, yes, state, time)
              = AlwaysValue(Formula(s.sub, yes), EndOf(s.bound, time), time,
                            ValueIn(s.sub, yes, state, time))
      BY <1>8, <3>3, ValueOfForms
    <3>5. v = always
      BY <1>4, <1>5, <2>1, <3>2, <3>4
    <3> HIDE DEF always
    <3> QED
      BY <3>5 DEF Passes
  <2>2. CASE Len(seen) # 0
    <3>1. Guards(property.residual, rest, end)
      BY <1>4, <1>9, <2>2 DEF Guarded
    <3>2. Step(rest, state, time) = always
      BY <1>8, StepOfForms DEF ValueIn
    <3> HIDE DEF rest, always, end
    <3>3. Passes(Step(rest, state, time), Step(property.residual, state, time), end)
      BY <1>4, <3>1, GuardedPasses
    <3> QED
      BY <1>9, <2>2, <3>2, <3>3
  <2> QED
    BY <2>1, <2>2
<1>11. /\ Retains(v, rest, end)
       /\ IsFalse(w) => IsFalse(v)
       /\ IsPending(w) => Retains(v, w.residual, end)
  <2> HIDE DEF f, w, end
  <2>1. /\ IsFalse(w) => IsFalse(always)
        /\ Retains(always, rest, end)
        /\ IsPending(w) => Retains(always, w.residual, end)
    BY <1>4, <1>6, <1>7, AlwaysRetains
  <2> HIDE DEF always, rest
  <2> QED
    BY <1>10, <2>1 DEF Passes
<1>12. ASSUME NEW tr \in Extensions(more), NEW i \in 1..n,
              NEW x, x = Signal(tr, s.sub, TRUE, i)
       PROVE  /\ x.known[n] = 0 =>
                   \E q : Retains(v, q, end) /\ Stands(q, x, n, tr)
              /\ Refuting(x, i, n) => IsFalse(v)
  <2>1. /\ tr \in Traces /\ tr \in Extensions(seen) /\ n \in 1..Len(tr)
        /\ tr[n].state = state /\ tr[n].time = time /\ Len(tr) \in Nat
    <3>1. tr \in Traces /\ tr \in Extensions(seen) /\ n \in 1..Len(tr) /\ tr[n] = entry
      BY <1>2
    <3>2. Len(tr) \in Nat
      BY <3>1, Entries
    <3> QED
      BY <1>1, <3>1, <3>2
  <2>2. i \in 1..Len(tr) /\ i \in Nat /\ i <= n /\ n \in i..Len(tr) /\ n \in Nat
    BY <1>2, <2>1
  <2>3. /\ IsSignal(x, i, Len(tr))
        /\ Follows(ValueIn(s.sub, TRUE, tr[i].state, tr[i].time), x, i, tr)
    <3>1. Faithful(tr, s.sub, yes, i)
      BY <1>3, <2>1, <2>2, EvaluatorIsFaithful
    <3> QED
      BY <1>5, <1>12, <3>1 DEF Faithful
  <2>4. CASE i = n
    <3>1. Follows(w, x, n, tr) /\ IsSignal(x, n, Len(tr))
      BY <2>1, <2>3, <2>4
    <3> HIDE DEF n, w
    <3>2. Says(w, x, n, tr)
      BY <1>8, <2>1, <3>1, WhatFollows
    <3>3. ~(0 = -1) /\ ~(0 = 1) /\ ~(-1 = 1)
      OBVIOUS
    <3>4. x.known[n] = 0 => IsPending(w) /\ Stands(w.residual, x, n, tr)
      BY <3>2, <3>3 DEF Says
    <3>5. x.known[n] = -1 => IsFalse(w)
      BY <3>2, <3>3 DEF Says
    <3> QED
      BY <1>11, <3>4, <3>5 DEF Refuting
  <2>5. CASE i # n
    <3>1. /\ Len(seen) # 0 /\ n - 1 = Len(seen) /\ i \in 1..Len(seen)
          /\ n - 1 \in i..Len(tr) /\ n - 1 <= n /\ i < n
          /\ Len(seen) \in 0..Len(tr) /\ Len(seen) < Len(tr)
      BY <1>2, <2>1, <2>2, <2>5
    <3>2. x.known[n] = 0 \/ Refuting(x, i, n) => x.known[Len(seen)] = 0
      <4>1. /\ x.known[n - 1] \in {-1, 0, 1}
            /\ x.known[n - 1] # 0 => x.known[n] = x.known[n - 1]
        BY <2>2, <2>3, <3>1 DEF IsSignal
      <4> HIDE DEF n
      <4> QED
        BY <3>1, <4>1 DEF Refuting
    <3>3. SUFFICES ASSUME x.known[Len(seen)] = 0
                   PROVE  /\ x.known[n] = 0 =>
                               \E q : Retains(v, q, end) /\ Stands(q, x, n, tr)
                          /\ x.known[n] = -1 => IsFalse(v)
      BY <3>2 DEF Refuting
    <3>4. PICK q : /\ Guards(property.residual, q, end)
                   /\ Stands(q, x, Len(seen), tr)
      BY <1>4, <1>9, <1>12, <2>1, <3>1, <3>3 DEF Guarded
    <3> DEFINE u == Step(q, state, time)
    <3>5. u = StepAt(q, tr, n)
      BY <2>1 DEF StepAt
    <3>6. Says(u, x, n, tr)
      <4>1. tr \in Seq([time : Nat, state : States])
        BY <2>1, Entries
      <4>2. Behaves(q, x, Len(seen), tr)
        BY <3>4 DEF Stands
      <4>3. Follows(StepAt(q, tr, Len(seen) + 1), x, Len(seen) + 1, tr)
        BY <3>1, <4>1, <4>2, Unrolled
      <4>4. Follows(u, x, n, tr) /\ IsSignal(x, n, Len(tr))
        <5>1. Follows(u, x, n, tr)
          BY <1>2, <3>5, <4>3
        <5>2. IsSignal(x, n, Len(tr))
          BY <2>2, <2>3, <2>1 DEF IsSignal
        <5> QED
          BY <5>1, <5>2
      <4> HIDE DEF n, u
      <4> QED
        BY <1>8, <2>1, <4>4, WhatFollows
    <3>7. Passes(u, v, end)
      <4> HIDE DEF end
      <4>1. Passes(Step(q, state, time), Step(property.residual, state, time), end)
        BY <1>4, <3>4, GuardedPasses
      <4> QED
        BY <1>9, <3>1, <4>1
    <3>8. GoodValue(u)
      <4>1. PICK m \in Nat : \E links : Path(links, m, q, property.residual, end)
        BY <3>4 DEF Guards
      <4>2. WellBuilt(q)
        BY <4>1 DEF Path
      <4> QED
        BY <4>2, StepGood
    <3> HIDE DEF n, u, end
    <3>9. ~(0 = -1) /\ ~(0 = 1) /\ ~(-1 = 1)
      OBVIOUS
    <3>10. ASSUME x.known[n] = 0
           PROVE  Retains(v, u.residual, end) /\ Stands(u.residual, x, n, tr)
      <4>1. IsPending(u) /\ Stands(u.residual, x, n, tr)
        BY <3>6, <3>9, <3>10 DEF Says
      <4>2. Guards(u.residual, u.residual, end)
        BY <3>8, <4>1, GuardForms DEF GoodValue
      <4>3. Retains(u, u.residual, end)
        BY <4>1, <4>2 DEF Retains
      <4> QED
        BY <3>7, <4>1, <4>3 DEF Passes
    <3>11. x.known[n] = -1 => IsFalse(v)
      <4>1. x.known[n] = -1 => IsFalse(u)
        BY <3>6, <3>9 DEF Says
      <4> QED
        BY <3>7, <4>1 DEF Passes
    <3> QED
      BY <3>10, <3>11
  <2> QED
    BY <2>4, <2>5
<1> HIDE DEF n, end, rest
<1> QED
  BY <1>11, <1>12 DEF Accounts, n, end, rest

LEMMA KeptStep ==
    ASSUME Recursive, NEW seen \in Traces, NEW state \in States, NEW time \in Nat,
           NEW more, more = Append(seen, [time |-> time, state |-> state]),
           seen # <<>> => seen[Len(seen)].time <= time,
           NEW s \in Syntaxes, NEW property, NEW list, Listed(list, seen),
           Kept(property, s, list, seen),
           NEW v, v = ValueOf(property, state, time), GoodValue(v)
    PROVE  Kept(AfterValue(v), s, Reported(list, v, Len(more)), more)
<1> SUFFICES ASSUME s.op = "Always", Len(more) # 0 => Still(s, more)
             PROVE  /\ Len(more) # 0
                    /\ IsStepping(AfterValue(v))
                    /\ Guarded(AfterValue(v).residual, s, more)
                    /\ Alerted(Reported(list, v, Len(more)), s, more)
  <2>1. Len(more) # 0
    <3> DEFINE entry == [time |-> time, state |-> state]
    <3>1. entry \in [time : Nat, state : States] /\ more = Append(seen, entry)
      OBVIOUS
    <3>2. seen \in Seq([time : Nat, state : States]) /\ Len(seen) \in Nat
      BY Entries
    <3> HIDE DEF entry
    <3> QED
      BY <3>1, <3>2, AppendProperties
  <2> QED
    BY <2>1 DEF Kept
<1> DEFINE entry == [time |-> time, state |-> state]
           n == Len(more)
           end == EndFor(s, more)
           rest == DerivedAlways(Formula(s.sub, TRUE), end)
<1>1. n # 0
  <2>1. entry \in [time : Nat, state : States] /\ more = Append(seen, entry)
    OBVIOUS
  <2>2. seen \in Seq([time : Nat, state : States]) /\ Len(seen) \in Nat
    BY Entries
  <2> HIDE DEF entry
  <2> QED
    BY <2>1, <2>2, AppendProperties
<1>2. Accounts(v, s, more)
  <2>1. more = Append(seen, entry) /\ entry = [time |-> time, state |-> state]
    OBVIOUS
  <2> HIDE DEF entry
  <2> QED
    BY <1>1, <2>1, ValueAccounts
<1>3. /\ Retains(v, rest, end)
      /\ \A tr \in Extensions(more) : \A i \in 1..n :
           /\ Signal(tr, s.sub, TRUE, i).known[n] = 0 =>
                \E q : /\ Retains(v, q, end)
                       /\ Stands(q, Signal(tr, s.sub, TRUE, i), n, tr)
           /\ Refuting(Signal(tr, s.sub, TRUE, i), i, n) => IsFalse(v)
  BY <1>2 DEF Accounts
<1> HIDE DEF n, end, rest
<1>4. /\ IsStepping(AfterValue(v))
      /\ \A q : Retains(v, q, end) => Guards(AfterValue(v).residual, q, end)
  <2>1. CASE IsPending(v)
    <3>1. AfterValue(v) = Stepping(v.residual) /\ ~IsFalse(v)
      BY <2>1 DEF AfterValue, IsTrue, IsPending, IsFalse
    <3>2. IsStepping(AfterValue(v)) /\ AfterValue(v).residual = v.residual
      BY <3>1, StatesOfProperties DEF IsStepping
    <3> QED
      BY <3>1, <3>2 DEF Retains
  <2>2. CASE ~IsPending(v)
    <3>1. IsFalse(v) /\ v.next # <<>>
      BY <1>3, <2>2 DEF Retains
    <3>2. AfterValue(v) = Stepping(v.next[1])
      BY <2>2, <3>1 DEF AfterValue, IsTrue, IsFalse
    <3>3. IsStepping(AfterValue(v)) /\ AfterValue(v).residual = v.next[1]
      BY <3>2, StatesOfProperties DEF IsStepping
    <3> QED
      BY <2>2, <3>3 DEF Retains
  <2> QED
    BY <2>1, <2>2
<1>5. Guarded(AfterValue(v).residual, s, more)
  BY <1>3, <1>4 DEF Guarded, n, end, rest
<1>6. IsFalse(v) => ListedAt(Reported(list, v, n), n)
  <2> HAVE IsFalse(v)
  <2>1. PICK S : list \in Seq(S)
    BY DEF Listed
  <2>2. PICK e : e = [at |-> n, violation |-> v.violation]
    OBVIOUS
  <2>3. e.at = n /\ Reported(list, v, n) = Append(list, e)
    BY <2>2 DEF Reported
  <2>4. list \in Seq(S \cup {e}) /\ e \in S \cup {e} /\ Len(list) \in Nat
    BY <2>1
  <2>5. PICK longer : longer = Append(list, e)
    OBVIOUS
  <2>6. /\ longer \in Seq(S \cup {e}) /\ Len(longer) = Len(list) + 1
        /\ longer[Len(list) + 1] = e
    BY <2>4, <2>5, AppendProperties
  <2>7. DOMAIN longer = 1..Len(longer)
    BY <2>6
  <2>8. Len(list) + 1 \in DOMAIN longer /\ longer[Len(list) + 1].at = n
    BY <2>3, <2>4, <2>6, <2>7
  <2> QED
    BY <2>3, <2>5, <2>8 DEF ListedAt
<1>7. Alerted(Reported(list, v, n), s, more)
  BY <1>3, <1>6 DEF Alerted, n
<1> QED
  BY <1>1, <1>4, <1>5, <1>7 DEF n

LEMMA KeptRest ==
    ASSUME Recursive, NEW seen \in Traces, NEW entry \in [time : Nat, state : States],
           NEW more, more = Append(seen, entry),
           seen # <<>> => seen[Len(seen)].time <= entry.time,
           NEW s \in Syntaxes, NEW property, NEW list,
           Kept(property, s, list, seen), IsSettled(property)
    PROVE  Kept(property, s, list, more)
<1> SUFFICES ASSUME s.op = "Always" PROVE Len(more) # 0 /\ ~Still(s, more)
  BY DEF Kept
<1>1. ~Unmet(property, s) /\ ~IsStepping(property)
  BY StatesOfProperties DEF IsSettled, Unmet, IsStepping
<1>2. Len(seen) # 0 /\ ~Still(s, seen)
  BY <1>1 DEF Kept
<1>3. s.bound \in Nat \cup {NoEnd}
  BY SyntaxForms
<1>4. SameEnd(s, seen, more, entry.time)
  BY <1>3, EndStays
<1>5. Len(more) = Len(seen) + 1 /\ Len(seen) \in Nat
  <2>1. seen \in Seq([time : Nat, state : States]) /\ Len(seen) \in Nat
    BY Entries
  <2> QED
    BY <2>1, AppendProperties
<1> QED
  BY <1>2, <1>4, <1>5 DEF SameEnd

(***************************************************************************)
(* What a step of the verifier does to each property.                      *)
(***************************************************************************)
LEMMA StepOnEach ==
    ASSUME VerifierInv, NEW state \in States, NEW wait \in Waits,
           StateChanged(state, wait)
    PROVE  \E time \in Nat :
              /\ trace' = Append(trace, [time |-> time, state |-> state])
              /\ trace # <<>> => trace[Len(trace)].time <= time
              /\ specification' = specification
              /\ \A n \in Names :
                   /\ ~IsSettled(properties[n]) =>
                        /\ properties'[n]
                               = AfterValue(ValueOf(properties[n], state, time))
                        /\ reports'[n]
                               = Reported(reports[n],
                                          ValueOf(properties[n], state, time),
                                          Len(trace'))
                   /\ IsSettled(properties[n]) =>
                        properties'[n] = properties[n] /\ reports'[n] = reports[n]
<1> DEFINE time == wait + IF trace = <<>> THEN 0 ELSE trace[Len(trace)].time
           stepped == {m \in Names : ~IsSettled(properties[m])}
           values == [n \in stepped |-> ValueOf(properties[n], state, time)]
<1>1. /\ trace' = Append(trace, [time |-> time, state |-> state])
      /\ properties' = [n \in Names |->
             IF n \in DOMAIN values THEN AfterValue(values[n]) ELSE properties[n]]
      /\ reports' = [n \in Names |->
             IF n \in DOMAIN values
             THEN Reported(reports[n], values[n], Len(trace')) ELSE reports[n]]
      /\ specification' = specification
  BY DEF StateChanged
<1>2. DOMAIN values = stepped
  OBVIOUS
<1>3. trace \in Traces
  BY DEF VerifierInv
<1>4. time \in Nat /\ (trace # <<>> => trace[Len(trace)].time <= time)
  <2>1. wait \in Nat
    BY VerifierAssumption
  <2>2. CASE trace = <<>>
    BY <2>1, <2>2
  <2>3. CASE trace # <<>>
    <3>1. Len(trace) \in 1..Len(trace)
      <4>1. trace \in Seq([time : Nat, state : States])
        BY <1>3, Entries
      <4>2. Len(trace) \in Nat \ {0}
        BY <2>3, <4>1, EmptySeq
      <4> QED
        BY <4>2
    <3>2. trace[Len(trace)].time \in Nat
      BY <1>3, <3>1, Entries
    <3> QED
      BY <2>1, <2>3, <3>2
  <2> QED
    BY <2>2, <2>3
<1> HIDE DEF time
<1>5. \A n \in stepped : values[n] = ValueOf(properties[n], state, time)
  OBVIOUS
<1> HIDE DEF values
<1>6. ASSUME NEW n \in Names
      PROVE  /\ ~IsSettled(properties[n]) =>
                  /\ properties'[n]
                         = AfterValue(ValueOf(properties[n], state, time))
                  /\ reports'[n]
                         = Reported(reports[n], ValueOf(properties[n], state, time),
                                    Len(trace'))
             /\ IsSettled(properties[n]) =>
                  properties'[n] = properties[n] /\ reports'[n] = reports[n]
  BY <1>1, <1>2, <1>5
<1> QED
  BY <1>1, <1>4, <1>6

(***************************************************************************)
(* The invariant that keeps an exported Always watching.                   *)
(***************************************************************************)
AlwaysInv ==
    \A n \in Names : Kept(properties[n], specification[n], reports[n], trace)

LEMMA AlwaysStep ==
    ASSUME Recursive, VerifierInv, AlwaysInv, NEW state \in States, NEW wait \in Waits,
           StateChanged(state, wait)
    PROVE  AlwaysInv'
<1>1. PICK time \in Nat :
          /\ trace' = Append(trace, [time |-> time, state |-> state])
          /\ trace # <<>> => trace[Len(trace)].time <= time
          /\ specification' = specification
          /\ \A n \in Names :
               /\ ~IsSettled(properties[n]) =>
                    /\ properties'[n]
                           = AfterValue(ValueOf(properties[n], state, time))
                    /\ reports'[n]
                           = Reported(reports[n],
                                      ValueOf(properties[n], state, time),
                                      Len(trace'))
               /\ IsSettled(properties[n]) =>
                    properties'[n] = properties[n] /\ reports'[n] = reports[n]
  BY StepOnEach
<1>2. trace \in Traces /\ specification \in Specifications
  BY DEF VerifierInv
<1>3. Names' = Names
  BY <1>1 DEF Names
<1>4. ASSUME NEW n \in Names
      PROVE  Kept(properties'[n], specification[n], reports'[n], trace')
  <2>0. /\ specification[n] \in Syntaxes
        /\ Kept(properties[n], specification[n], reports[n], trace)
        /\ Sound(properties[n], specification[n], reports[n], trace)
    BY <1>2, NamedSyntaxes DEF Names, AlwaysInv, VerifierInv
  <2>1. CASE ~IsSettled(properties[n])
    <3>1. PICK v : v = ValueOf(properties[n], state, time)
      OBVIOUS
    <3>2. GoodValue(v) /\ Listed(reports[n], trace)
      BY <2>0, <2>1, <3>1, NextValueGood DEF Sound
    <3>3. Kept(AfterValue(v), specification[n],
               Reported(reports[n], v, Len(trace')), trace')
      BY <1>1, <1>2, <2>0, <3>1, <3>2, KeptStep
    <3> QED
      BY <1>1, <2>1, <3>1, <3>3
  <2>2. CASE IsSettled(properties[n])
    <3> DEFINE entry == [time |-> time, state |-> state]
    <3>1. /\ entry \in [time : Nat, state : States] /\ trace' = Append(trace, entry)
          /\ trace # <<>> => trace[Len(trace)].time <= entry.time
      BY <1>1
    <3> HIDE DEF entry
    <3>2. Kept(properties[n], specification[n], reports[n], trace')
      BY <1>2, <2>0, <2>2, <3>1, KeptRest
    <3> QED
      BY <1>1, <2>2, <3>2
  <2> QED
    BY <2>1, <2>2
<1> QED
  BY <1>1, <1>3, <1>4 DEF AlwaysInv

LEMMA AlwaysInit ==
    Init => AlwaysInv
<1> SUFFICES ASSUME Init, NEW n \in Names
             PROVE  Kept(properties[n], specification[n], reports[n], trace)
  BY DEF AlwaysInv
<1>1. properties[n] = Initial(Nnf(specification[n])) /\ Len(trace) = 0
  BY DEF Init
<1>2. Unmet(properties[n], specification[n])
  BY <1>1 DEF Unmet, Nnf, Formula
<1> QED
  BY <1>1, <1>2 DEF Kept

THEOREM AlwaysInvariant ==
    Recursive => (Spec => []AlwaysInv)
<1>1. ASSUME Recursive, VerifierInv, AlwaysInv, [Next]_vars PROVE AlwaysInv'
  <2>1. CASE Next
    <3>1. PICK state \in States, wait \in Waits : StateChanged(state, wait)
      BY <2>1 DEF Next
    <3> QED
      BY <1>1, <3>1, AlwaysStep
  <2>2. CASE UNCHANGED vars
    BY <1>1, <2>2 DEF AlwaysInv, vars, Names
  <2> QED
    BY <1>1, <2>1, <2>2
<1>2. Recursive /\ VerifierInv /\ AlwaysInv /\ [Next]_vars => AlwaysInv'
  BY <1>1
<1>3. SUFFICES ASSUME Recursive PROVE Spec => []AlwaysInv
  OBVIOUS
<1> QED
  BY <1>2, <1>3, AlwaysInit, VerifierInvariant, PTL DEF Spec

(***************************************************************************)
(* An exported Always that has been violated is still watched: until its   *)
(* end, every state that refutes its subformula at one more position is    *)
(* reported, however many violations came before (evaluate_always,         *)
(* evaluate_and_always, and the continuation kept by Verifier::step).      *)
(***************************************************************************)
THEOREM EveryFailureIsReported ==
    Recursive => (Spec => []EveryFailureReported)
<1>1. ASSUME Recursive, VerifierInv, AlwaysInv PROVE EveryFailureReported
  <2> SUFFICES ASSUME Now > 0, NEW n \in Names, IsAlways(n),
                      Within(trace, specification[n], 1, Now),
                      NEW i \in NewlyFailing(specification[n], Now)
               PROVE  ReportedNow(n)
    BY DEF EveryFailureReported
  <2> DEFINE s == specification[n]
             x == Signal(trace, s.sub, TRUE, i)
  <2>1. /\ trace \in Extensions(trace) /\ Now \in 1..Len(trace)
        /\ Now = Len(trace) /\ Len(trace) # 0 /\ Now \in Nat
    BY <1>1, StatesSeen
  <2>2. trace \in Traces /\ s \in Syntaxes
    BY <1>1, NamedSyntaxes DEF VerifierInv, Names
  <2>3. s.op = "Always" /\ s.bound \in Nat \cup {NoEnd}
    BY <2>2, SyntaxForms DEF IsAlways
  <2>4. 1 \in 1..Len(trace) /\ Now \in 1..Len(trace)
    BY <2>1
  <2>5. LastWithin(trace, s, 1, Now) = Now /\ Still(s, trace)
    <3>1. /\ Within(trace, s, 1, Now) <=> LastWithin(trace, s, 1, Now) = Now
          /\ Past(EndOf(s.bound, trace[1].time), trace[Now].time)
                 <=> LastWithin(trace, s, 1, Now) < Now
      BY <2>2, <2>3, <2>4, LastFacts
    <3> QED
      BY <2>1, <3>1 DEF Still, EndFor
  <2>6. /\ i \in 1..Now /\ Verdict(trace, s.sub, i, Now) = -1
        /\ i < Now => Verdict(trace, s.sub, i, Now - 1) # -1
    BY <2>5 DEF NewlyFailing
  <2>7. /\ x.known[Now] = Verdict(trace, s.sub, i, Now)
        /\ i < Now => x.known[Now - 1] = Verdict(trace, s.sub, i, Now - 1)
    <3>1. PICK yes \in BOOLEAN : yes = TRUE
      OBVIOUS
    <3>2. Now \in i..Len(trace) /\ (i < Now => Now - 1 \in i..Len(trace))
      BY <2>1, <2>6
    <3>3. PICK sub, g : sub = s.sub /\ g = Signal(trace, sub, yes, i)
      OBVIOUS
    <3>4. \A m \in i..Len(trace) : g.known[m] = Verdict(trace, sub, i, m)
      BY <3>1, <3>3 DEF Signal
    <3>5. g = x
      BY <3>1, <3>3
    <3> HIDE DEF x
    <3> QED
      BY <3>1, <3>2, <3>3, <3>4, <3>5
  <2>8. Refuting(x, i, Now)
    BY <2>6, <2>7 DEF Refuting
  <2>9. Alerted(reports[n], s, trace)
    BY <1>1, <2>1, <2>3, <2>5 DEF AlwaysInv, Kept
  <2> HIDE DEF s
  <2>10. ListedAt(reports[n], Now)
    BY <2>1, <2>6, <2>8, <2>9 DEF Alerted
  <2> QED
    BY <2>10 DEF ListedAt, ReportedNow
<1>2. Recursive /\ VerifierInv /\ AlwaysInv => EveryFailureReported
  BY <1>1
<1>3. SUFFICES ASSUME Recursive PROVE Spec => []EveryFailureReported
  OBVIOUS
<1> QED
  BY <1>2, <1>3, VerifierInvariant, AlwaysInvariant, PTL

-----------------------------------------------------------------------------
(***************************************************************************)
(* What one more state does to the states seen and to the traces that go   *)
(* on from them.                                                           *)
(***************************************************************************)
OneMore(seen, entry, more) ==
    /\ Len(seen) \in Nat /\ Len(more) = Len(seen) + 1
    /\ more \in Traces /\ more[Len(more)] = entry
    /\ \A k \in 1..Len(seen) : more[k] = seen[k]
    /\ \A tr \in Extensions(more) :
         /\ tr \in Traces /\ tr \in Extensions(seen)
         /\ Len(tr) \in Nat /\ Len(more) \in 1..Len(tr)
         /\ tr[Len(more)] = entry

LEMMA NextStates ==
    ASSUME NEW seen \in Traces, NEW entry \in [time : Nat, state : States],
           NEW more, more = Append(seen, entry),
           seen # <<>> => seen[Len(seen)].time <= entry.time
    PROVE  OneMore(seen, entry, more)
<1> DEFINE E == [time : Nat, state : States]
<1>1. seen \in Seq(E) /\ Len(seen) \in Nat /\ entry \in E
  BY Entries
<1>2. \A k \in 1..Len(seen) : more[k] = seen[k]
  <2> HIDE DEF E
  <2> QED
    BY <1>1, AppendProperties
<1> HIDE DEF E
<1>3. more \in Traces /\ Len(more) = Len(seen) + 1
  BY ExtensionsShrink
<1>4. Extensions(more) \subseteq Extensions(seen)
  BY ExtensionsShrink
<1>5. more[Len(more)] = entry
  BY ExtensionsShrink
<1>6. ASSUME NEW tr \in Extensions(more)
      PROVE  /\ tr \in Traces /\ tr \in Extensions(seen)
             /\ Len(tr) \in Nat /\ Len(more) \in 1..Len(tr)
             /\ tr[Len(more)] = entry
  <2>1. tr \in Traces /\ Len(more) <= Len(tr) /\ \A k \in 1..Len(more) : tr[k] = more[k]
    BY DEF Extensions
  <2>2. Len(tr) \in Nat
    BY <2>1, Entries
  <2> QED
    BY <1>1, <1>3, <1>4, <1>5, <2>1, <2>2
<1> QED
  BY <1>1, <1>2, <1>3, <1>4, <1>5, <1>6 DEF OneMore

(***************************************************************************)
(* In the last state seen, `w` is the value of the subformula of s at      *)
(* position i, where it was open until then: what is left of it is made of *)
(* formulas beneath the subformula.                                        *)
(***************************************************************************)
BeneathSub(s) == Beneath(Formula(s.sub, TRUE))
Speaks(w, i, s, seen) ==
    /\ ValueMadeOf(BeneathSub(s), w)
    /\ \A tr \in Extensions(seen) :
         /\ Says(w, Signal(tr, s.sub, TRUE, i), Len(seen), tr)
         /\ i < Len(seen) => Signal(tr, s.sub, TRUE, i).known[Len(seen) - 1] = 0

\* What waits for the subformula at the position of time `onset`, if anything.
Awaits(left, onset, s, seen) ==
    \/ left = TrueResidual
    \/ /\ MadeOf(BeneathSub(s), left)
       /\ \E i \in 1..Len(seen) :
            /\ onset = seen[i].time
            /\ \A tr \in Extensions(seen) :
                 /\ Signal(tr, s.sub, TRUE, i).known[Len(seen)] = 0
                 /\ Stands(left, Signal(tr, s.sub, TRUE, i), Len(seen), tr)

\* A violation dated by a position that the last state seen has just refuted.
Blamed(violation, s, seen) ==
    /\ violation.op = "Always" /\ Flat(violation)
    /\ violation.last = violation.time
    /\ \E i \in 1..Len(seen) :
         /\ violation.time = seen[i].time
         /\ \A tr \in Extensions(seen) :
              Refuting(Signal(tr, s.sub, TRUE, i), i, Len(seen))

LEMMA SpeaksOf ==
    ASSUME NEW w, NEW s, NEW seen, NEW i \in 1..Len(seen), Speaks(w, i, s, seen)
    PROVE  /\ IsTrue(w) \/ IsFalse(w) \/ IsPending(w)
           /\ IsPending(w) => Awaits(w.residual, seen[i].time, s, seen)
           /\ IsFalse(w) =>
                /\ Flat(w.violation)
                /\ \A tr \in Extensions(seen) :
                     Refuting(Signal(tr, s.sub, TRUE, i), i, Len(seen))
<1>1. IsTrue(w) \/ IsFalse(w) \/ IsPending(w)
  BY DEF Speaks, ValueMadeOf, IsValue, IsTrue, IsFalse, IsPending
<1>2. ASSUME IsPending(w) PROVE Awaits(w.residual, seen[i].time, s, seen)
  <2>1. MadeOf(BeneathSub(s), w.residual)
    BY <1>2 DEF Speaks, ValueMadeOf
  <2>2. \A tr \in Extensions(seen) :
           /\ Signal(tr, s.sub, TRUE, i).known[Len(seen)] = 0
           /\ Stands(w.residual, Signal(tr, s.sub, TRUE, i), Len(seen), tr)
    BY <1>2 DEF Speaks, Says
  <2> QED
    BY <2>1, <2>2 DEF Awaits
<1>3. ASSUME IsFalse(w)
      PROVE  /\ Flat(w.violation)
             /\ \A tr \in Extensions(seen) :
                  Refuting(Signal(tr, s.sub, TRUE, i), i, Len(seen))
  <2>1. Flat(w.violation)
    BY <1>3 DEF Speaks, ValueMadeOf
  <2>2. ASSUME NEW tr \in Extensions(seen)
        PROVE  Refuting(Signal(tr, s.sub, TRUE, i), i, Len(seen))
    <3>1. Signal(tr, s.sub, TRUE, i).known[Len(seen)] = -1
      BY <1>3 DEF Speaks, Says
    <3>2. i < Len(seen) => Signal(tr, s.sub, TRUE, i).known[Len(seen) - 1] = 0
      BY DEF Speaks
    <3>3. ~(0 = -1)
      OBVIOUS
    <3> QED
      BY <3>1, <3>2, <3>3 DEF Refuting
  <2> QED
    BY <2>1, <2>2
<1> QED
  BY <1>1, <1>2, <1>3

LEMMA FirstSpeaks ==
    ASSUME Recursive, NEW state \in States, NEW time \in Nat,
           NEW entry, entry.time = time, entry.state = state,
           NEW seen, NEW more, OneMore(seen, entry, more),
           NEW s \in Syntaxes, s.sub \in Syntaxes
    PROVE  Speaks(ValueIn(s.sub, TRUE, state, time), Len(more), s, more)
<1> DEFINE n == Len(more)
           w == ValueIn(s.sub, TRUE, state, time)
<1>1. PICK yes \in BOOLEAN : yes = TRUE
  OBVIOUS
<1>2. Formula(s.sub, yes) \in Formulas
  BY DEF Formulas
<1>3. ValueMadeOf(BeneathSub(s), w)
  BY <1>1, <1>2, EvaluateGood DEF ValueIn, Recursive, BeneathSub
<1>4. n \in Nat
  BY DEF OneMore
<1>5. ASSUME NEW tr \in Extensions(more), NEW x, x = Signal(tr, s.sub, TRUE, n)
      PROVE  Says(w, x, n, tr)
  <2>1. /\ tr \in Traces /\ n \in 1..Len(tr)
        /\ tr[n].state = state /\ tr[n].time = time
    BY DEF OneMore
  <2>2. Faithful(tr, s.sub, yes, n)
    BY <2>1, EvaluatorIsFaithful
  <2>3. IsSignal(x, n, Len(tr)) /\ Follows(w, x, n, tr)
    BY <1>1, <1>5, <2>1, <2>2 DEF Faithful
  <2> HIDE DEF n, w
  <2> QED
    BY <2>1, <2>3, WhatFollows DEF Recursive
<1>6. ~(n < n)
  BY <1>4
<1> QED
  BY <1>3, <1>5, <1>6 DEF Speaks

LEMMA AwaitedSpeaks ==
    ASSUME Recursive, NEW state \in States, NEW time \in Nat,
           NEW entry, entry.time = time, entry.state = state,
           NEW seen, NEW more, OneMore(seen, entry, more),
           NEW s \in Syntaxes, s.sub \in Syntaxes,
           NEW left, NEW onset, Awaits(left, onset, s, seen), left # TrueResidual
    PROVE  \E i \in 1..Len(more) : /\ onset = more[i].time
                                   /\ Speaks(Step(left, state, time), i, s, more)
<1> DEFINE n == Len(more)
           u == Step(left, state, time)
<1>1. PICK i \in 1..Len(seen) :
         /\ onset = seen[i].time
         /\ \A tr \in Extensions(seen) :
              /\ Signal(tr, s.sub, TRUE, i).known[Len(seen)] = 0
              /\ Stands(left, Signal(tr, s.sub, TRUE, i), Len(seen), tr)
  BY DEF Awaits
<1>2. ValueMadeOf(BeneathSub(s), u)
  <2>1. /\ BeneathSub(s) \subseteq Formulas
        /\ \A f \in BeneathSub(s) : Beneath(f) \subseteq BeneathSub(s)
    BY BeneathForms DEF BeneathSub
  <2>2. MadeOf(BeneathSub(s), left)
    BY DEF Awaits
  <2> QED
    BY <2>1, <2>2, StepMade
<1>3. /\ Len(seen) \in Nat /\ n = Len(seen) + 1 /\ n - 1 = Len(seen)
      /\ i \in 1..n /\ i \in Nat /\ i <= n
      /\ onset = more[i].time
  BY <1>1 DEF OneMore
<1>4. PICK yes \in BOOLEAN : yes = TRUE
  OBVIOUS
<1>5. ASSUME NEW tr \in Extensions(more), NEW x, x = Signal(tr, s.sub, TRUE, i)
      PROVE  Says(u, x, n, tr) /\ x.known[Len(seen)] = 0
  <2>1. /\ tr \in Traces /\ tr \in Extensions(seen) /\ n \in 1..Len(tr)
        /\ tr[n].state = state /\ tr[n].time = time /\ Len(tr) \in Nat
    BY DEF OneMore
  <2>2. /\ i \in 1..Len(tr) /\ Len(seen) \in 0..Len(tr) /\ Len(seen) < Len(tr)
        /\ n \in Nat
    BY <1>3, <2>1
  <2>3. IsSignal(x, n, Len(tr))
    <3>1. Faithful(tr, s.sub, yes, i)
      BY <2>1, <2>2, EvaluatorIsFaithful
    <3>2. IsSignal(x, i, Len(tr))
      BY <1>4, <1>5, <3>1 DEF Faithful
    <3> QED
      BY <1>3, <2>1, <2>2, <3>2 DEF IsSignal
  <2>4. Stands(left, x, Len(seen), tr) /\ x.known[Len(seen)] = 0
    BY <1>1, <1>5, <2>1
  <2>5. u = StepAt(left, tr, n)
    BY <2>1 DEF StepAt
  <2>6. Follows(u, x, n, tr)
    <3>1. tr \in Seq([time : Nat, state : States])
      BY <2>1, Entries
    <3>2. Behaves(left, x, Len(seen), tr)
      BY <2>4 DEF Stands
    <3>3. Follows(StepAt(left, tr, Len(seen) + 1), x, Len(seen) + 1, tr)
      BY <2>2, <3>1, <3>2, Unrolled
    <3> QED
      BY <1>3, <2>5, <3>3
  <2> HIDE DEF n, u
  <2>7. Says(u, x, n, tr)
    BY <2>1, <2>3, <2>6, WhatFollows DEF Recursive
  <2> QED
    BY <2>4, <2>7
<1>6. \A tr \in Extensions(more) :
         /\ Says(u, Signal(tr, s.sub, TRUE, i), n, tr)
         /\ Signal(tr, s.sub, TRUE, i).known[n - 1] = 0
  BY <1>3, <1>5
<1>7. Speaks(u, i, s, more)
  BY <1>2, <1>6 DEF Speaks
<1> QED
  BY <1>3, <1>7

(***************************************************************************)
(* Until the first violation of an exported Always: what is left of it is  *)
(* a chain of waiting ones, each with the time of the position it waits    *)
(* for, that ends in the Always itself.                                    *)
(***************************************************************************)
Remaining(s, seen) == DerivedAlways(Formula(s.sub, TRUE), EndFor(s, seen))
IsLink(link, before, s, seen) ==
    \E onset, left :
        /\ link = AndAlways(Formula(s.sub, TRUE), EndFor(s, seen), onset, left, before)
        /\ Awaits(left, onset, s, seen)
Linked(links, m, r, s, seen) ==
    /\ links[m] = r /\ links[0] = Remaining(s, seen)
    /\ \A k \in 1..m : IsLink(links[k], links[k - 1], s, seen)
Dated(r, s, seen) == \E m \in Nat : \E links : Linked(links, m, r, s, seen)

LEMMA DatedForms ==
    ASSUME NEW s, NEW seen
    PROVE  /\ Dated(Remaining(s, seen), s, seen)
           /\ \A r, link : Dated(r, s, seen) /\ IsLink(link, r, s, seen) =>
                  Dated(link, s, seen)
<1>1. Dated(Remaining(s, seen), s, seen)
  <2> DEFINE links == [k \in {0} |-> Remaining(s, seen)]
  <2>1. links[0] = Remaining(s, seen) /\ 1..0 = {}
    OBVIOUS
  <2> HIDE DEF links
  <2>2. Linked(links, 0, Remaining(s, seen), s, seen)
    BY <2>1 DEF Linked
  <2> QED
    BY <2>2 DEF Dated
<1>2. ASSUME NEW r, NEW link, Dated(r, s, seen), IsLink(link, r, s, seen)
      PROVE  Dated(link, s, seen)
  <2>1. PICK m \in Nat : \E links : Linked(links, m, r, s, seen)
    BY <1>2 DEF Dated
  <2>2. PICK links : Linked(links, m, r, s, seen)
    BY <2>1
  <2> DEFINE more == [k \in 0..(m + 1) |-> IF k = m + 1 THEN link ELSE links[k]]
  <2>3. /\ more[m + 1] = link
        /\ \A k \in 0..m : more[k] = links[k]
    <3>1. m + 1 \in 0..(m + 1) /\ \A k \in 0..m : k \in 0..(m + 1) /\ k # m + 1
      OBVIOUS
    <3> QED
      BY <3>1
  <2> HIDE DEF more
  <2>4. more[0] = Remaining(s, seen)
    <3>1. 0 \in 0..m
      OBVIOUS
    <3> QED
      BY <2>2, <2>3, <3>1 DEF Linked
  <2>5. ASSUME NEW k \in 1..(m + 1) PROVE IsLink(more[k], more[k - 1], s, seen)
    <3>1. CASE k = m + 1
      <4>1. k - 1 = m /\ m \in 0..m
        BY <3>1
      <4>2. more[k - 1] = r
        BY <2>2, <2>3, <4>1 DEF Linked
      <4> QED
        BY <1>2, <2>3, <3>1, <4>2
    <3>2. CASE k # m + 1
      <4>1. k \in 1..m /\ k \in 0..m /\ k - 1 \in 0..m
        BY <3>2
      <4> QED
        BY <2>2, <2>3, <4>1 DEF Linked
    <3> QED
      BY <3>1, <3>2
  <2>6. Linked(more, m + 1, link, s, seen)
    BY <2>3, <2>4, <2>5 DEF Linked
  <2>7. m + 1 \in Nat
    OBVIOUS
  <2> QED
    BY <2>6, <2>7 DEF Dated
<1> QED
  BY <1>1, <1>2

\* A value of such a chain, before its end.
Traced(v, s, seen) ==
    \/ IsPending(v) /\ Dated(v.residual, s, seen)
    \/ IsFalse(v) /\ Blamed(v.violation, s, seen)

LEMMA TracedForms ==
    ASSUME NEW s, NEW seen
    PROVE  /\ \A r : Dated(r, s, seen) => Traced(Pending(r), s, seen)
           /\ \A violation, next : Blamed(violation, s, seen) =>
                  Traced(FalseValue(violation, next), s, seen)
<1>1. \A r : IsPending(Pending(r)) /\ Pending(r).residual = r
  BY DEF IsPending, Pending
<1>2. \A violation, next : /\ IsFalse(FalseValue(violation, next))
                           /\ FalseValue(violation, next).violation = violation
  BY DEF IsFalse, FalseValue
<1> QED
  BY <1>1, <1>2 DEF Traced

LEMMA BlamedForms ==
    ASSUME NEW s, NEW seen, NEW i \in 1..Len(seen), NEW violation,
           Flat(violation),
           \A tr \in Extensions(seen) :
               Refuting(Signal(tr, s.sub, TRUE, i), i, Len(seen)),
           NEW time, time = seen[i].time
    PROVE  /\ Dates(violation, time) => Blamed(AlwaysViolation(time, violation), s, seen)
           /\ Blamed(AlwaysViolation(time, Core(violation)), s, seen)
<1>1. /\ AlwaysViolation(time, violation).op = "Always"
      /\ AlwaysViolation(time, violation).time = time
      /\ AlwaysViolation(time, violation).last = CoreTime(violation, time)
      /\ AlwaysViolation(time, Core(violation)).op = "Always"
      /\ AlwaysViolation(time, Core(violation)).time = time
      /\ AlwaysViolation(time, Core(violation)).last = CoreTime(Core(violation), time)
  BY DEF AlwaysViolation
<1>2. Dates(violation, time) => CoreTime(violation, time) = time
  BY DEF Dates, CoreTime
<1>3. CoreTime(Core(violation), time) = time
  BY FlatForms DEF CoreTime
<1>4. /\ Flat(AlwaysViolation(time, violation))
      /\ Flat(AlwaysViolation(time, Core(violation)))
  BY FlatForms
<1> QED
  BY <1>1, <1>2, <1>3, <1>4 DEF Blamed

LEMMA AlwaysTraced ==
    ASSUME NEW s, NEW seen, Len(seen) \in 1..Len(seen),
           NEW time, time = seen[Len(seen)].time,
           NEW w, Speaks(w, Len(seen), s, seen), Recent(w, time),
           NEW f, f = Formula(s.sub, TRUE), NEW end, end = EndFor(s, seen),
           ~Past(end, time)
    PROVE  Traced(AlwaysValue(f, end, time, w), s, seen)
<1> DEFINE rest == DerivedAlways(f, end)
           value == AlwaysValue(f, end, time, w)
<1>1. rest = Remaining(s, seen) /\ Dated(rest, s, seen)
  <2>1. rest = Remaining(s, seen)
    BY DEF Remaining
  <2> QED
    BY <2>1, DatedForms
<1>2. /\ IsTrue(w) \/ IsFalse(w) \/ IsPending(w)
      /\ IsPending(w) => Awaits(w.residual, time, s, seen)
      /\ IsFalse(w) =>
           /\ Flat(w.violation)
           /\ \A tr \in Extensions(seen) :
                Refuting(Signal(tr, s.sub, TRUE, Len(seen)), Len(seen), Len(seen))
  BY SpeaksOf
<1>3. CASE IsTrue(w)
  <2>1. value = Pending(rest)
    BY <1>3 DEF AlwaysValue
  <2> QED
    BY <1>1, <2>1, TracedForms
<1>4. CASE ~IsTrue(w) /\ IsPending(w)
  <2> DEFINE link == AndAlways(f, end, time, w.residual, rest)
  <2>1. value = Pending(link)
    BY <1>4 DEF AlwaysValue
  <2>2. IsLink(link, rest, s, seen)
    BY <1>2, <1>4 DEF IsLink
  <2> HIDE DEF link, rest
  <2> QED
    BY <1>1, <2>1, <2>2, DatedForms, TracedForms
<1>5. CASE ~IsTrue(w) /\ ~IsPending(w)
  <2>1. \E next : value = FalseValue(AlwaysViolation(time, w.violation), next)
    BY <1>5 DEF AlwaysValue
  <2>2. Blamed(AlwaysViolation(time, w.violation), s, seen)
    BY <1>2, <1>5, BlamedForms DEF Recent
  <2> HIDE DEF value
  <2>3. Traced(value, s, seen)
    BY <2>1, <2>2, TracedForms
  <2> QED
    BY <2>3 DEF value
<1> QED
  BY <1>3, <1>4, <1>5

LEMMA AndAlwaysTraced ==
    ASSUME NEW s, NEW seen, NEW time, NEW onset,
           NEW left, NEW right, Traced(right, s, seen),
           IsTrue(left) \/ \E i \in 1..Len(seen) : /\ onset = seen[i].time
                                                   /\ Speaks(left, i, s, seen),
           NEW f, f = Formula(s.sub, TRUE), NEW end, end = EndFor(s, seen),
           ~Past(end, time)
    PROVE  Traced(EvaluateAndAlways(f, end, onset, time, left, right), s, seen)
<1> DEFINE value == EvaluateAndAlways(f, end, onset, time, left, right)
<1>1. /\ ~IsTrue(right) /\ (IsPending(right) => ~IsFalse(right))
      /\ IsPending(left) => ~IsTrue(left) /\ ~IsFalse(left)
      /\ IsTrue(left) => ~IsFalse(left)
  BY DEF Traced, IsTrue, IsPending, IsFalse
<1>2. /\ IsPending(right) => Dated(right.residual, s, seen)
      /\ ~IsPending(right) => IsFalse(right) /\ Blamed(right.violation, s, seen)
  BY DEF Traced, IsTrue, IsPending, IsFalse
<1>3. IsTrue(left) \/ IsFalse(left) \/ IsPending(left)
  BY SpeaksOf
<1>4. CASE IsTrue(left) /\ IsPending(right)
  <2> DEFINE link == AndAlways(f, end, time, TrueResidual, right.residual)
  <2>1. value = Pending(link)
    BY <1>1, <1>4 DEF EvaluateAndAlways
  <2>2. IsLink(link, right.residual, s, seen)
    BY DEF IsLink, Awaits
  <2> HIDE DEF link
  <2> QED
    BY <1>2, <1>4, <2>1, <2>2, DatedForms, TracedForms
<1>5. CASE IsPending(left) /\ IsPending(right)
  <2> DEFINE link == AndAlways(f, end, onset, left.residual, right.residual)
  <2>1. value = Pending(link)
    BY <1>1, <1>5 DEF EvaluateAndAlways
  <2>2. Awaits(left.residual, onset, s, seen)
    BY <1>1, <1>5, SpeaksOf
  <2>3. IsLink(link, right.residual, s, seen)
    BY <2>2 DEF IsLink
  <2> HIDE DEF link
  <2> QED
    BY <1>2, <1>5, <2>1, <2>3, DatedForms, TracedForms
<1>6. CASE IsFalse(left)
  <2>1. \E next : value = FalseValue(AlwaysViolation(onset, Core(left.violation)), next)
    BY <1>1, <1>6 DEF EvaluateAndAlways
  <2>2. PICK i \in 1..Len(seen) : onset = seen[i].time /\ Speaks(left, i, s, seen)
    BY <1>1, <1>6
  <2>3. /\ Flat(left.violation)
        /\ \A tr \in Extensions(seen) :
             Refuting(Signal(tr, s.sub, TRUE, i), i, Len(seen))
    BY <1>6, <2>2, SpeaksOf
  <2>4. Blamed(AlwaysViolation(onset, Core(left.violation)), s, seen)
    BY <2>2, <2>3, BlamedForms
  <2> HIDE DEF value
  <2>5. Traced(value, s, seen)
    BY <2>1, <2>4, TracedForms
  <2> QED
    BY <2>5 DEF value
<1>7. CASE ~IsFalse(left) /\ ~IsPending(right)
  <2> DEFINE since == CoreTime(right.violation, time)
  <2>1. \E next : value = FalseValue(AlwaysViolation(since, Core(right.violation)), next)
    BY <1>1, <1>7 DEF EvaluateAndAlways
  <2>2. Blamed(right.violation, s, seen)
    BY <1>2, <1>7
  <2>3. since = right.violation.time /\ Flat(right.violation)
    BY <2>2 DEF Blamed, CoreTime
  <2>4. PICK i \in 1..Len(seen) :
           /\ right.violation.time = seen[i].time
           /\ \A tr \in Extensions(seen) :
                Refuting(Signal(tr, s.sub, TRUE, i), i, Len(seen))
    BY <2>2 DEF Blamed
  <2> HIDE DEF since, value
  <2>5. Blamed(AlwaysViolation(since, Core(right.violation)), s, seen)
    BY <2>3, <2>4, BlamedForms
  <2>6. Traced(value, s, seen)
    BY <2>1, <2>5, TracedForms
  <2> QED
    BY <2>6 DEF value
<1> QED
  BY <1>1, <1>3, <1>4, <1>5, <1>6, <1>7

LEMMA DatedStep ==
    ASSUME Recursive, NEW state \in States, NEW time \in Nat,
           NEW entry, entry.time = time, entry.state = state,
           NEW seen, NEW more, OneMore(seen, entry, more),
           NEW s \in Syntaxes, s.op = "Always",
           NEW f, f = Formula(s.sub, TRUE),
           NEW end, end = EndFor(s, seen), end = EndFor(s, more),
           NEW r, Dated(r, s, seen)
    PROVE  /\ Past(end, time) => IsTrue(Step(r, state, time))
           /\ ~Past(end, time) => Traced(Step(r, state, time), s, more)
<1> DEFINE w == ValueIn(s.sub, TRUE, state, time)
           Claim(v) == /\ Past(end, time) => IsTrue(v)
                       /\ ~Past(end, time) => Traced(v, s, more)
           T == {m \in Nat : \E links, x : /\ Linked(links, m, x, s, seen)
                                           /\ ~Claim(Step(x, state, time))}
<1>1. ResidualRecursion /\ SyntaxRecursion /\ s.sub \in Syntaxes
  BY SyntaxForms DEF Recursive
<1>2. IsTrue(TrueValue)
  BY DEF IsTrue, TrueValue
<1>3. /\ Speaks(w, Len(more), s, more) /\ Recent(w, time)
      /\ Len(more) \in 1..Len(more) /\ time = more[Len(more)].time
  <2>1. Speaks(w, Len(more), s, more)
    BY <1>1, FirstSpeaks
  <2>2. PICK yes \in BOOLEAN : yes = TRUE
    OBVIOUS
  <2>3. Formula(s.sub, yes) \in Formulas
    BY <1>1 DEF Formulas
  <2>4. Recent(w, time)
    BY <1>1, <2>2, <2>3, EvaluateGood DEF ValueIn
  <2>5. Len(more) \in 1..Len(more) /\ time = more[Len(more)].time
    BY DEF OneMore
  <2> QED
    BY <2>1, <2>4, <2>5
<1>4. /\ Step(TrueResidual, state, time) = TrueValue
      /\ \A g, e : Step(DerivedAlways(g, e), state, time)
                      = AlwaysValue(g, e, time, Evaluate(g, state, time))
      /\ \A g, e, onset, left, right :
           Step(AndAlways(g, e, onset, left, right), state, time)
               = EvaluateAndAlways(g, e, onset, time, Step(left, state, time),
                                   Step(right, state, time))
  BY <1>1, StepOfForms
<1>5. T = {}
  <2> SUFFICES ASSUME T # {} PROVE FALSE
    OBVIOUS
  <2>1. PICK m \in T : \A k \in T : m <= k
    BY LeastNumber
  <2>2. PICK links, x : /\ Linked(links, m, x, s, seen)
                        /\ ~Claim(Step(x, state, time))
    BY <2>1
  <2>3. m \in Nat
    OBVIOUS
  <2>4. CASE m = 0
    <3>1. x = DerivedAlways(f, end)
      BY <2>2, <2>4 DEF Linked, Remaining
    <3>2. Step(x, state, time) = AlwaysValue(f, end, time, w)
      <4>1. Step(x, state, time) = AlwaysValue(f, end, time, Evaluate(f, state, time))
        BY <1>4, <3>1
      <4> QED
        BY <4>1 DEF ValueIn
    <3>3. CASE Past(end, time)
      BY <1>2, <2>2, <3>2, <3>3 DEF AlwaysValue
    <3>4. CASE ~Past(end, time)
      <4> HIDE DEF w
      <4>1. Traced(AlwaysValue(f, end, time, w), s, more)
        BY <1>3, <3>4, AlwaysTraced
      <4> QED
        BY <2>2, <3>2, <3>4, <4>1
    <3> QED
      BY <3>3, <3>4
  <2>5. CASE m # 0
    <3>1. m \in 1..m /\ m - 1 \in Nat /\ 1..(m - 1) \subseteq 1..m /\ ~(m <= m - 1)
      BY <2>3, <2>5
    <3>2. PICK onset, left : /\ x = AndAlways(f, end, onset, left, links[m - 1])
                             /\ Awaits(left, onset, s, seen)
      BY <2>2, <3>1 DEF Linked, IsLink
    <3>3. Linked(links, m - 1, links[m - 1], s, seen)
      BY <2>2, <3>1 DEF Linked
    <3>4. PICK before : before = links[m - 1]
      OBVIOUS
    <3> DEFINE l == Step(left, state, time)
               u == Step(before, state, time)
    <3>5. Claim(u)
      BY <2>1, <3>1, <3>3, <3>4
    <3>6. Step(x, state, time) = EvaluateAndAlways(f, end, onset, time, l, u)
      <4>1. x = AndAlways(f, end, onset, left, before)
        BY <3>2, <3>4
      <4> QED
        BY ONLY <1>4, <4>1
    <3>7. CASE Past(end, time)
      BY <1>2, <2>2, <3>6, <3>7 DEF EvaluateAndAlways
    <3>8. CASE ~Past(end, time)
      <4>1. IsTrue(l) \/ \E i \in 1..Len(more) : /\ onset = more[i].time
                                                 /\ Speaks(l, i, s, more)
        <5>1. CASE left = TrueResidual
          BY <1>2, <1>4, <5>1
        <5>2. CASE left # TrueResidual
          BY <1>1, <3>2, <5>2, AwaitedSpeaks
        <5> QED
          BY <5>1, <5>2
      <4>2. Traced(u, s, more)
        BY <3>5, <3>8
      <4> HIDE DEF l, u
      <4>3. Traced(EvaluateAndAlways(f, end, onset, time, l, u), s, more)
        BY <3>8, <4>1, <4>2, AndAlwaysTraced
      <4> QED
        BY <2>2, <3>6, <3>8, <4>3
    <3> QED
      BY <3>7, <3>8
  <2> QED
    BY <2>4, <2>5
<1> QED
  BY <1>5 DEF Dated

(***************************************************************************)
(* An exported Always and the time of its first violation: before it, the  *)
(* residual is dated, or the Always has ended; after it, its time is that  *)
(* of a position within the Always which the state of the violation has    *)
(* just refuted.                                                           *)
(***************************************************************************)
DatedReport(report, s, seen) ==
    /\ report.at \in 1..Len(seen)
    /\ ~Past(EndFor(s, seen), seen[report.at].time)
    /\ \E i \in 1..report.at :
         /\ report.violation.time = seen[i].time
         /\ \A tr \in Extensions(seen) :
              Refuting(Signal(tr, s.sub, TRUE, i), i, report.at)
Dating(property, s, list, seen) ==
    s.op = "Always" =>
        IF list # <<>> THEN DatedReport(list[1], s, seen)
        ELSE IF Len(seen) = 0 THEN Unmet(property, s)
        ELSE IF Still(s, seen)
        THEN IsStepping(property) /\ Dated(property.residual, s, seen)
        ELSE IsSettled(property)

LEMMA DatedReportStays ==
    ASSUME NEW seen, NEW entry, NEW more, OneMore(seen, entry, more),
           NEW s, NEW report, DatedReport(report, s, seen)
    PROVE  DatedReport(report, s, more)
<1>1. /\ Len(seen) \in Nat /\ Len(more) = Len(seen) + 1
      /\ \A k \in 1..Len(seen) : more[k] = seen[k]
      /\ \A tr \in Extensions(more) : tr \in Extensions(seen)
  BY DEF OneMore
<1>2. PICK i \in 1..report.at :
         /\ report.violation.time = seen[i].time
         /\ \A tr \in Extensions(seen) :
              Refuting(Signal(tr, s.sub, TRUE, i), i, report.at)
  BY DEF DatedReport
<1>3. /\ report.at \in 1..Len(seen) /\ report.at \in 1..Len(more)
      /\ i \in 1..Len(seen) /\ 1 \in 1..Len(seen)
  BY <1>1, <1>2 DEF DatedReport
<1>4. EndFor(s, more) = EndFor(s, seen)
  BY <1>1, <1>3 DEF EndFor
<1>5. ~Past(EndFor(s, more), more[report.at].time)
  BY <1>1, <1>3, <1>4 DEF DatedReport
<1> QED
  BY <1>1, <1>2, <1>3, <1>5 DEF DatedReport

\* The first violation of a property and the later ones.
LEMMA FirstReported ==
    ASSUME NEW list, NEW S, list \in Seq(S), NEW v, NEW at
    PROVE  /\ ~IsFalse(v) => Reported(list, v, at) = list
           /\ list # <<>> => /\ Reported(list, v, at) # <<>>
                             /\ Reported(list, v, at)[1] = list[1]
           /\ list = <<>> /\ IsFalse(v) =>
                /\ Reported(list, v, at) # <<>>
                /\ Reported(list, v, at)[1].at = at
                /\ Reported(list, v, at)[1].violation = v.violation
<1> DEFINE e == [at |-> at, violation |-> v.violation]
           longer == Append(list, e)
<1>1. Reported(list, v, at) = IF IsFalse(v) THEN longer ELSE list
  BY DEF Reported
<1>2. e.at = at /\ e.violation = v.violation
  OBVIOUS
<1> HIDE DEF e
<1>3. list \in Seq(S \cup {e}) /\ e \in S \cup {e} /\ Len(list) \in Nat
  OBVIOUS
<1>4. /\ longer \in Seq(S \cup {e}) /\ Len(longer) = Len(list) + 1
      /\ \A k \in 1..Len(list) : longer[k] = list[k]
      /\ longer[Len(list) + 1] = e
  BY <1>3, AppendProperties
<1> HIDE DEF longer
<1>5. longer # <<>>
  BY <1>3, <1>4, EmptySeq
<1>6. list # <<>> => longer[1] = list[1]
  <2> HAVE list # <<>>
  <2>1. Len(list) # 0
    BY <1>3, EmptySeq
  <2>2. 1 \in 1..Len(list)
    BY <1>3, <2>1
  <2> QED
    BY <1>4, <2>2
<1>7. list = <<>> => longer[1] = e
  <2> HAVE list = <<>>
  <2>1. Len(list) = 0
    OBVIOUS
  <2> QED
    BY <1>4, <2>1
<1> QED
  BY <1>1, <1>2, <1>5, <1>6, <1>7

LEMMA ValueTraced ==
    ASSUME Recursive, NEW seen \in Traces, NEW state \in States, NEW time \in Nat,
           NEW entry, entry.time = time, entry.state = state,
           NEW more, OneMore(seen, entry, more),
           NEW s \in Syntaxes, s.op = "Always", SameEnd(s, seen, more, time),
           NEW property, ~IsSettled(property),
           Dating(property, s, <<>>, seen),
           NEW v, v = ValueOf(property, state, time)
    PROVE  /\ Past(EndFor(s, more), time) => IsTrue(v)
           /\ ~Past(EndFor(s, more), time) => Traced(v, s, more)
<1> DEFINE f == Formula(s.sub, TRUE)
           w == ValueIn(s.sub, TRUE, state, time)
<1>1. ResidualRecursion /\ SyntaxRecursion /\ s.sub \in Syntaxes
  BY SyntaxForms DEF Recursive
<1>2. PICK end : end = EndFor(s, more)
  OBVIOUS
<1>3. CASE Len(seen) = 0
  <2>1. Unmet(property, s) /\ end = EndOf(s.bound, time)
    BY <1>2, <1>3 DEF Dating, SameEnd
  <2>2. v = ValueIn(s, TRUE, state, time)
    BY <2>1, StatesOfProperties DEF Unmet, ValueOf, ValueIn
  <2>3. PICK yes \in BOOLEAN : yes = TRUE
    OBVIOUS
  <2>4. Universal(s, yes) /\ Formula(s.sub, yes) \in Formulas
    <3>1. Universal(s, yes)
      BY <2>3 DEF Universal
    <3>2. Formula(s.sub, yes) \in Formulas
      BY <1>1 DEF Formulas
    <3> QED
      BY <3>1, <3>2
  <2>5. ValueIn(s, yes, state, time)
            = AlwaysValue(Formula(s.sub, yes), EndOf(s.bound, time), time,
                          ValueIn(s.sub, yes, state, time))
    BY <1>1, <2>4, ValueOfForms
  <2>6. v = AlwaysValue(f, end, time, w)
    BY <2>1, <2>2, <2>3, <2>5
  <2>7. Speaks(w, Len(more), s, more)
    BY <1>1, FirstSpeaks
  <2>8. Recent(w, time)
    BY <1>1, <2>3, <2>4, EvaluateGood DEF ValueIn
  <2>9. Len(more) \in 1..Len(more) /\ time = more[Len(more)].time
    BY DEF OneMore
  <2>10. IsTrue(TrueValue)
    BY DEF IsTrue, TrueValue
  <2>11. Past(end, time) => IsTrue(v)
    BY <2>6, <2>10 DEF AlwaysValue
  <2> HIDE DEF w
  <2>12. ~Past(end, time) => Traced(v, s, more)
    BY <1>2, <2>6, <2>7, <2>8, <2>9, AlwaysTraced
  <2> QED
    BY <1>2, <2>11, <2>12
<1>4. CASE Len(seen) # 0
  <2>1. end = EndFor(s, seen)
    BY <1>2, <1>4 DEF SameEnd
  <2>2. IsStepping(property) /\ Dated(property.residual, s, seen)
    BY <1>4 DEF Dating
  <2>3. v = Step(property.residual, state, time)
    BY <2>2 DEF IsStepping, ValueOf
  <2> HIDE DEF f
  <2> QED
    BY <1>2, <2>1, <2>2, <2>3, DatedStep DEF f
<1> QED
  BY <1>3, <1>4

LEMMA DatingStep ==
    ASSUME Recursive, NEW seen \in Traces, NEW state \in States, NEW time \in Nat,
           NEW entry, entry = [time |-> time, state |-> state],
           NEW more, more = Append(seen, entry),
           seen # <<>> => seen[Len(seen)].time <= time,
           NEW s \in Syntaxes, NEW property, NEW list, Listed(list, seen),
           Dating(property, s, list, seen), ~IsSettled(property),
           NEW v, v = ValueOf(property, state, time)
    PROVE  Dating(AfterValue(v), s, Reported(list, v, Len(more)), more)
<1> SUFFICES ASSUME s.op = "Always"
             PROVE  Dating(AfterValue(v), s, Reported(list, v, Len(more)), more)
  BY DEF Dating
<1> DEFINE longer == Reported(list, v, Len(more))
<1>1. entry \in [time : Nat, state : States] /\ entry.time = time /\ entry.state = state
  OBVIOUS
<1>2. OneMore(seen, entry, more)
  BY <1>1, NextStates
<1>3. SameEnd(s, seen, more, time)
  <2>1. s.bound \in Nat \cup {NoEnd}
    BY SyntaxForms
  <2>2. SameEnd(s, seen, more, entry.time)
    BY <1>1, <2>1, EndStays
  <2> QED
    BY <1>1, <2>2
<1>4. PICK S : list \in Seq(S)
  BY DEF Listed
<1>5. /\ ~IsFalse(v) => longer = list
      /\ list # <<>> => longer # <<>> /\ longer[1] = list[1]
      /\ list = <<>> /\ IsFalse(v) =>
           /\ longer # <<>> /\ longer[1].at = Len(more)
           /\ longer[1].violation = v.violation
  BY <1>4, FirstReported
<1> HIDE DEF longer
<1>6. CASE list # <<>>
  <2>1. DatedReport(list[1], s, seen)
    BY <1>6 DEF Dating
  <2>2. DatedReport(longer[1], s, more)
    BY <1>2, <1>5, <1>6, <2>1, DatedReportStays
  <2> QED
    BY <1>5, <1>6, <2>2 DEF Dating, longer
<1>7. CASE list = <<>>
  <2>1. /\ Past(EndFor(s, more), time) => IsTrue(v)
        /\ ~Past(EndFor(s, more), time) => Traced(v, s, more)
    BY <1>1, <1>2, <1>3, <1>7, ValueTraced
  <2>2. Len(more) # 0 /\ (Still(s, more) <=> ~Past(EndFor(s, more), time))
    BY <1>2, <1>3 DEF OneMore, SameEnd
  <2>3. CASE IsTrue(v) /\ Past(EndFor(s, more), time)
    <3>1. AfterValue(v) = DefinitelyTrue /\ ~IsFalse(v)
      BY <2>3 DEF AfterValue, IsTrue, IsFalse
    <3>2. IsSettled(AfterValue(v))
      BY <3>1, StatesOfProperties DEF IsSettled
    <3> QED
      BY <1>5, <1>7, <2>2, <2>3, <3>1, <3>2 DEF Dating, longer
  <2>4. CASE IsPending(v) /\ Dated(v.residual, s, more) /\ ~Past(EndFor(s, more), time)
    <3>1. AfterValue(v) = Stepping(v.residual) /\ ~IsFalse(v)
      BY <2>4 DEF AfterValue, IsTrue, IsPending, IsFalse
    <3>2. IsStepping(AfterValue(v)) /\ AfterValue(v).residual = v.residual
      BY <3>1, StatesOfProperties DEF IsStepping
    <3> QED
      BY <1>5, <1>7, <2>2, <2>4, <3>1, <3>2 DEF Dating, longer
  <2>5. CASE IsFalse(v) /\ Blamed(v.violation, s, more) /\ ~Past(EndFor(s, more), time)
    <3>1. /\ Len(more) \in 1..Len(more) /\ more[Len(more)].time = time
      BY <1>1, <1>2 DEF OneMore
    <3>2. PICK report : report = longer[1]
      OBVIOUS
    <3>3. report.at = Len(more) /\ report.violation = v.violation
      BY <1>5, <1>7, <2>5, <3>2
    <3>4. DatedReport(report, s, more)
      BY <2>5, <3>1, <3>3 DEF DatedReport, Blamed
    <3> QED
      BY <1>5, <1>7, <2>5, <3>2, <3>4 DEF Dating, longer
  <2> QED
    BY <2>1, <2>3, <2>4, <2>5 DEF Traced
<1> QED
  BY <1>6, <1>7

LEMMA DatingRest ==
    ASSUME NEW seen \in Traces, NEW entry \in [time : Nat, state : States],
           NEW more, more = Append(seen, entry),
           seen # <<>> => seen[Len(seen)].time <= entry.time,
           NEW s \in Syntaxes, NEW property, NEW list,
           Dating(property, s, list, seen), IsSettled(property)
    PROVE  Dating(property, s, list, more)
<1> SUFFICES ASSUME s.op = "Always" PROVE Dating(property, s, list, more)
  BY DEF Dating
<1>1. OneMore(seen, entry, more)
  BY NextStates
<1>2. CASE list # <<>>
  BY <1>1, <1>2, DatedReportStays DEF Dating
<1>3. CASE list = <<>>
  <2>1. ~Unmet(property, s) /\ ~IsStepping(property)
    BY StatesOfProperties DEF IsSettled, Unmet, IsStepping
  <2>2. Len(seen) # 0 /\ ~Still(s, seen)
    BY <1>3, <2>1 DEF Dating
  <2>3. SameEnd(s, seen, more, entry.time)
    BY SyntaxForms, EndStays
  <2>4. ~Still(s, more) /\ Len(more) # 0
    BY <1>1, <2>2, <2>3 DEF SameEnd, OneMore
  <2> QED
    BY <1>3, <2>4 DEF Dating
<1> QED
  BY <1>2, <1>3

(***************************************************************************)
(* The invariant that dates the first violation of an exported Always.     *)
(***************************************************************************)
OnsetInv ==
    \A n \in Names : Dating(properties[n], specification[n], reports[n], trace)

LEMMA OnsetStep ==
    ASSUME Recursive, VerifierInv, OnsetInv, NEW state \in States, NEW wait \in Waits,
           StateChanged(state, wait)
    PROVE  OnsetInv'
<1>1. PICK time \in Nat :
          /\ trace' = Append(trace, [time |-> time, state |-> state])
          /\ trace # <<>> => trace[Len(trace)].time <= time
          /\ specification' = specification
          /\ \A n \in Names :
               /\ ~IsSettled(properties[n]) =>
                    /\ properties'[n]
                           = AfterValue(ValueOf(properties[n], state, time))
                    /\ reports'[n]
                           = Reported(reports[n],
                                      ValueOf(properties[n], state, time),
                                      Len(trace'))
               /\ IsSettled(properties[n]) =>
                    properties'[n] = properties[n] /\ reports'[n] = reports[n]
  BY StepOnEach
<1>2. trace \in Traces /\ specification \in Specifications
  BY DEF VerifierInv
<1>3. Names' = Names
  BY <1>1 DEF Names
<1>4. ASSUME NEW n \in Names
      PROVE  Dating(properties'[n], specification[n], reports'[n], trace')
  <2>0. /\ specification[n] \in Syntaxes
        /\ Dating(properties[n], specification[n], reports[n], trace)
        /\ Sound(properties[n], specification[n], reports[n], trace)
    BY <1>2, NamedSyntaxes DEF Names, OnsetInv, VerifierInv
  <2>1. CASE ~IsSettled(properties[n])
    <3>1. PICK v : v = ValueOf(properties[n], state, time)
      OBVIOUS
    <3> DEFINE entry == [time |-> time, state |-> state]
    <3>2. /\ trace' = Append(trace, entry) /\ entry = [time |-> time, state |-> state]
          /\ Listed(reports[n], trace)
      BY <1>1, <2>0 DEF Sound
    <3> HIDE DEF entry
    <3>3. Dating(AfterValue(v), specification[n],
               Reported(reports[n], v, Len(trace')), trace')
      BY <1>1, <1>2, <2>0, <2>1, <3>1, <3>2, DatingStep
    <3> QED
      BY <1>1, <2>1, <3>1, <3>3
  <2>2. CASE IsSettled(properties[n])
    <3> DEFINE entry == [time |-> time, state |-> state]
    <3>1. /\ entry \in [time : Nat, state : States] /\ trace' = Append(trace, entry)
          /\ trace # <<>> => trace[Len(trace)].time <= entry.time
      BY <1>1
    <3> HIDE DEF entry
    <3>2. Dating(properties[n], specification[n], reports[n], trace')
      BY <1>2, <2>0, <2>2, <3>1, DatingRest
    <3> QED
      BY <1>1, <2>2, <3>2
  <2> QED
    BY <2>1, <2>2
<1> QED
  BY <1>1, <1>3, <1>4 DEF OnsetInv

LEMMA OnsetInit ==
    Init => OnsetInv
<1> SUFFICES ASSUME Init, NEW n \in Names
             PROVE  Dating(properties[n], specification[n], reports[n], trace)
  BY DEF OnsetInv
<1>1. /\ properties[n] = Initial(Nnf(specification[n])) /\ Len(trace) = 0
      /\ reports[n] = <<>>
  BY DEF Init
<1>2. Unmet(properties[n], specification[n])
  BY <1>1 DEF Unmet, Nnf, Formula
<1> QED
  BY <1>1, <1>2 DEF Dating

THEOREM OnsetInvariant ==
    Recursive => (Spec => []OnsetInv)
<1>1. ASSUME Recursive, VerifierInv, OnsetInv, [Next]_vars PROVE OnsetInv'
  <2>1. CASE Next
    <3>1. PICK state \in States, wait \in Waits : StateChanged(state, wait)
      BY <2>1 DEF Next
    <3> QED
      BY <1>1, <3>1, OnsetStep
  <2>2. CASE UNCHANGED vars
    BY <1>1, <2>2 DEF OnsetInv, vars, Names
  <2> QED
    BY <1>1, <2>1, <2>2
<1>2. Recursive /\ VerifierInv /\ OnsetInv /\ [Next]_vars => OnsetInv'
  BY <1>1
<1>3. SUFFICES ASSUME Recursive PROVE Spec => []OnsetInv
  OBVIOUS
<1> QED
  BY <1>2, <1>3, OnsetInit, VerifierInvariant, PTL DEF Spec


(***************************************************************************)
(* The time shown with the first violation of an exported Always is that   *)
(* of a position at which its subformula has just been refuted (the onset  *)
(* of AndAlways, and the time of the innermost Always of its right side).  *)
(***************************************************************************)
THEOREM FirstOnsetIsAFailure ==
    Recursive => (Spec => []FirstOnsetFails)
<1>1. ASSUME Recursive, VerifierInv, OnsetInv PROVE FirstOnsetFails
  <2> SUFFICES ASSUME NEW n \in Names, IsAlways(n), ~Unreported(n)
               PROVE  OnsetFails(n, 1)
    BY DEF FirstOnsetFails
  <2> DEFINE s == specification[n]
             report == reports[n][1]
             at == report.at
  <2>1. trace \in Extensions(trace) /\ trace \in Traces /\ Len(trace) \in Nat
    BY <1>1, StatesSeen DEF VerifierInv
  <2>2. s \in Syntaxes /\ s.op = "Always" /\ s.bound \in Nat \cup {NoEnd}
    BY <1>1, NamedSyntaxes, SyntaxForms DEF VerifierInv, Names, IsAlways
  <2>3. DatedReport(report, s, trace)
    BY <1>1, <2>2 DEF OnsetInv, Dating, Unreported
  <2>4. /\ at \in 1..Len(trace) /\ 1 \in 1..Len(trace)
        /\ ~Past(EndOf(s.bound, trace[1].time), trace[at].time)
    BY <2>1, <2>3 DEF DatedReport, EndFor
  <2>5. PICK i \in 1..at : /\ report.violation.time = trace[i].time
                           /\ Refuting(Signal(trace, s.sub, TRUE, i), i, at)
    BY <2>1, <2>3 DEF DatedReport
  <2>6. LastWithin(trace, s, 1, at) = at
    <3>1. /\ LastWithin(trace, s, 1, at) \in 1..at
          /\ Past(EndOf(s.bound, trace[1].time), trace[at].time)
                 <=> LastWithin(trace, s, 1, at) < at
      BY <2>1, <2>2, <2>4, LastFacts
    <3> HIDE DEF at, s
    <3> QED
      BY <2>4, <3>1
  <2>7. /\ Verdict(trace, s.sub, i, at) = -1
        /\ i < at => Verdict(trace, s.sub, i, at - 1) # -1
    <3>1. PICK yes \in BOOLEAN : yes = TRUE
      OBVIOUS
    <3>2. at \in i..Len(trace) /\ (i < at => at - 1 \in i..Len(trace))
      BY <2>1, <2>4
    <3>3. PICK sub, g : sub = s.sub /\ g = Signal(trace, sub, yes, i)
      OBVIOUS
    <3>4. \A m \in i..Len(trace) : g.known[m] = Verdict(trace, sub, i, m)
      BY <3>1, <3>3 DEF Signal
    <3>5. Refuting(g, i, at)
      BY <2>5, <3>1, <3>3
    <3> HIDE DEF at, s
    <3> QED
      BY <3>2, <3>3, <3>4, <3>5 DEF Refuting
  <2>8. i \in NewlyFailing(s, at)
    BY <2>5, <2>6, <2>7 DEF NewlyFailing
  <2> QED
    BY <2>5, <2>8 DEF OnsetFails
<1>2. Recursive /\ VerifierInv /\ OnsetInv => FirstOnsetFails
  BY <1>1
<1>3. SUFFICES ASSUME Recursive PROVE Spec => []FirstOnsetFails
  OBVIOUS
<1> QED
  BY <1>2, <1>3, VerifierInvariant, OnsetInvariant, PTL

-----------------------------------------------------------------------------
(***************************************************************************)
(* Trees of residuals, as the least set with the leaves L that has a node  *)
(* of N with both its sides, and a node of M with its right side.          *)
(***************************************************************************)
Closed(H, L, M, N) ==
    /\ L \subseteq H
    /\ \A q \in M : q.right \in H => q \in H
    /\ \A q \in N : q.left \in H /\ q.right \in H => q \in H
Spans(r, L, M, N) ==
    \A H \in SUBSET (L \cup M \cup N) : Closed(H, L, M, N) => r \in H

LEMMA SpanMore ==
    ASSUME NEW r, NEW L, NEW M, NEW N, Spans(r, L, M, N),
           NEW K, NEW O, NEW P, L \subseteq K, M \subseteq O, N \subseteq P
    PROVE  Spans(r, K, O, P)
<1> SUFFICES ASSUME NEW H \in SUBSET (K \cup O \cup P), Closed(H, K, O, P)
             PROVE  r \in H
  BY DEF Spans
<1> DEFINE G == H \cap (L \cup M \cup N)
<1>1. G \in SUBSET (L \cup M \cup N) /\ Closed(G, L, M, N)
  BY DEF Closed
<1> HIDE DEF G
<1>2. r \in G
  BY <1>1 DEF Spans
<1> QED
  BY <1>2 DEF G

LEMMA SpanLeaf ==
    ASSUME NEW r PROVE Spans(r, {r}, {}, {})
BY DEF Spans, Closed

LEMMA SpanLink ==
    ASSUME NEW r, NEW L, NEW M, NEW N, Spans(r.right, L, M, N)
    PROVE  Spans(r, L, M \cup {r}, N)
<1> DEFINE O == M \cup {r}
<1>1. M \subseteq O /\ r \in O
  OBVIOUS
<1> HIDE DEF O
<1>2. Spans(r.right, L, O, N)
  BY <1>1, SpanMore
<1>3. Spans(r, L, O, N)
  BY <1>1, <1>2 DEF Spans, Closed
<1> QED
  BY <1>3 DEF O

LEMMA SpanJoin ==
    ASSUME NEW r, NEW L, NEW M, NEW N, Spans(r.left, L, M, N),
           NEW K, NEW O, NEW P, Spans(r.right, K, O, P)
    PROVE  Spans(r, L \cup K, M \cup O, N \cup P \cup {r})
<1> DEFINE A == L \cup K
           B == M \cup O
           C == N \cup P \cup {r}
<1>1. /\ L \subseteq A /\ K \subseteq A /\ M \subseteq B /\ O \subseteq B
      /\ N \subseteq C /\ P \subseteq C /\ r \in C
  OBVIOUS
<1> HIDE DEF A, B, C
<1>2. Spans(r.left, A, B, C) /\ Spans(r.right, A, B, C)
  <2>1. Spans(r.left, A, B, C)
    BY <1>1, SpanMore
  <2>2. Spans(r.right, A, B, C)
    BY <1>1, SpanMore
  <2> QED
    BY <2>1, <2>2
<1>3. Spans(r, A, B, C)
  BY <1>1, <1>2 DEF Spans, Closed
<1> QED
  BY <1>3 DEF A, B, C

(***************************************************************************)
(* The residual of a formula that fails in one way only: once it is        *)
(* violated, nothing of it is left.                                        *)
(***************************************************************************)
Hopes(r, f, end) ==
    \/ r = DerivedEventually(f, end)
    \/ \E left, right : r = OrEventually(f, end, left, right)
SingleLeaf(r) ==
    \/ r = TrueResidual
    \/ \E violation : r = FalseResidual(violation)
    \/ \E f \in Formulas : FailsOnce(f) /\ r = Once(f)
    \/ \E f \in Formulas : \E end : r = DerivedEventually(f, end)
SingleLink(r) ==
    \E f \in Formulas : \E end, left, right :
        /\ r = OrEventually(f, end, left, right)
        /\ WellBuilt(left) /\ Hopes(right, f, end)
SingleNode(r) ==
    \E left, right : \/ r = Combined("Or", left, right)
                     \/ r = Combined("Implies", left, right)
Single(r) ==
    \E L, M, N : /\ Spans(r, L, M, N)
                 /\ \A q \in L : SingleLeaf(q)
                 /\ \A q \in M : SingleLink(q)
                 /\ \A q \in N : SingleNode(q)

LEMMA SingleForms ==
    /\ \A r : SingleLeaf(r) => Single(r)
    /\ \A r : SingleLink(r) /\ Single(r.right) => Single(r)
    /\ \A left, right : Single(left) /\ Single(right) =>
         Single(Combined("Or", left, right)) /\ Single(Combined("Implies", left, right))
<1>1. ASSUME NEW r, SingleLeaf(r) PROVE Single(r)
  <2>1. Spans(r, {r}, {}, {})
    BY SpanLeaf
  <2>2. \E L, M, N : /\ L = {r} /\ M = {} /\ N = {} /\ Spans(r, L, M, N)
    BY <2>1
  <2> QED
    BY <1>1, <2>2 DEF Single
<1>2. ASSUME NEW r, SingleLink(r), Single(r.right) PROVE Single(r)
  <2>1. PICK L, M, N : /\ Spans(r.right, L, M, N)
                       /\ \A q \in L : SingleLeaf(q)
                       /\ \A q \in M : SingleLink(q)
                       /\ \A q \in N : SingleNode(q)
    BY <1>2 DEF Single
  <2>2. Spans(r, L, M \cup {r}, N)
    BY <2>1, SpanLink
  <2>3. \A q \in M \cup {r} : SingleLink(q)
    BY <1>2, <2>1
  <2> QED
    BY <2>1, <2>2, <2>3 DEF Single
<1>3. ASSUME NEW left, NEW right, Single(left), Single(right),
             NEW op \in {"Or", "Implies"}
      PROVE  Single(Combined(op, left, right))
  <2>1. PICK L, M, N : /\ Spans(left, L, M, N)
                       /\ \A q \in L : SingleLeaf(q)
                       /\ \A q \in M : SingleLink(q)
                       /\ \A q \in N : SingleNode(q)
    BY <1>3 DEF Single
  <2>2. PICK K, O, P : /\ Spans(right, K, O, P)
                       /\ \A q \in K : SingleLeaf(q)
                       /\ \A q \in O : SingleLink(q)
                       /\ \A q \in P : SingleNode(q)
    BY <1>3 DEF Single
  <2>3. PICK r : r = Combined(op, left, right)
    OBVIOUS
  <2>4. r.left = left /\ r.right = right /\ SingleNode(r)
    BY <2>3 DEF Combined, SingleNode
  <2>5. Spans(r, L \cup K, M \cup O, N \cup P \cup {r})
    <3>1. Spans(r.left, L, M, N) /\ Spans(r.right, K, O, P)
      BY <2>1, <2>2, <2>4
    <3> QED
      BY <3>1, SpanJoin
  <2>6. /\ \A q \in L \cup K : SingleLeaf(q)
        /\ \A q \in M \cup O : SingleLink(q)
        /\ \A q \in N \cup P \cup {r} : SingleNode(q)
    BY <2>1, <2>2, <2>4
  <2>7. Single(r)
    BY <2>5, <2>6 DEF Single
  <2> QED
    BY <2>3, <2>7
<1> QED
  BY <1>1, <1>2, <1>3

\* A value of such a residual, and one of what an Eventually leaves.
SingleValue(v) ==
    \/ IsTrue(v)
    \/ IsFalse(v) /\ v.next = <<>>
    \/ IsPending(v) /\ Single(v.residual)
HopesOn(v, f, end, time) ==
    IF Past(end, time) THEN IsFalse(v) /\ v.next = <<>>
    ELSE \/ IsTrue(v)
         \/ IsPending(v) /\ Single(v.residual) /\ Hopes(v.residual, f, end)

LEMMA SingleValues ==
    /\ SingleValue(TrueValue)
    /\ \A violation : SingleValue(FalseValue(violation, <<>>))
    /\ \A r : Single(r) => SingleValue(Pending(r))
<1>1. SingleValue(TrueValue)
  BY DEF SingleValue, TrueValue, IsTrue
<1>2. ASSUME NEW violation PROVE SingleValue(FalseValue(violation, <<>>))
  BY DEF SingleValue, FalseValue, IsFalse
<1>3. ASSUME NEW r, Single(r) PROVE SingleValue(Pending(r))
  BY <1>3 DEF SingleValue, Pending, IsPending
<1> QED
  BY <1>1, <1>2, <1>3

LEMMA HopeForms ==
    ASSUME NEW f \in Formulas, NEW end
    PROVE  /\ Single(DerivedEventually(f, end))
           /\ Hopes(DerivedEventually(f, end), f, end)
           /\ \A left, right : WellBuilt(left) /\ Single(right) /\ Hopes(right, f, end) =>
                /\ Single(OrEventually(f, end, left, right))
                /\ Hopes(OrEventually(f, end, left, right), f, end)
<1>1. /\ SingleLeaf(DerivedEventually(f, end))
      /\ Hopes(DerivedEventually(f, end), f, end)
  BY DEF SingleLeaf, Hopes
<1>2. ASSUME NEW left, NEW right, WellBuilt(left), Single(right), Hopes(right, f, end)
      PROVE  /\ Single(OrEventually(f, end, left, right))
             /\ Hopes(OrEventually(f, end, left, right), f, end)
  <2>1. PICK r : r = OrEventually(f, end, left, right)
    OBVIOUS
  <2>2. r.right = right
    BY <2>1 DEF OrEventually
  <2>3. SingleLink(r) /\ Hopes(r, f, end)
    BY <1>2, <2>1 DEF SingleLink, Hopes
  <2>4. Single(r)
    BY <1>2, <2>2, <2>3, SingleForms
  <2> QED
    BY <2>1, <2>3, <2>4
<1> QED
  BY <1>1, <1>2, SingleForms

LEMMA SingleCombined ==
    ASSUME NEW v, NEW w, SingleValue(v), SingleValue(w)
    PROVE  /\ SingleValue(EvaluateOr(v, w))
           /\ SingleValue(EvaluateImplies(v, w))
<1>1. /\ IsTrue(v) \/ IsFalse(v) \/ IsPending(v)
      /\ IsTrue(w) \/ IsFalse(w) \/ IsPending(w)
      /\ ~(IsTrue(v) /\ IsFalse(v)) /\ ~(IsTrue(v) /\ IsPending(v))
      /\ ~(IsFalse(v) /\ IsPending(v))
      /\ ~(IsTrue(w) /\ IsFalse(w)) /\ ~(IsTrue(w) /\ IsPending(w))
      /\ ~(IsFalse(w) /\ IsPending(w))
  BY DEF SingleValue, IsTrue, IsFalse, IsPending
<1>2. /\ IsFalse(v) => v.next = <<>>
      /\ IsFalse(w) => w.next = <<>>
      /\ IsPending(v) => Single(v.residual)
      /\ IsPending(w) => Single(w.residual)
  BY DEF SingleValue, IsTrue, IsFalse, IsPending
<1>3. SingleValue(EvaluateOr(v, w))
  <2>1. CASE IsFalse(v) /\ IsFalse(w)
    <3>1. CombineOptions(v.next, w.next, "Or") = <<>>
      <4>1. v.next = <<>> /\ w.next = <<>>
        BY <1>2, <2>1
      <4> QED
        BY <4>1 DEF CombineOptions
    <3> QED
      BY <2>1, <3>1, SingleValues DEF EvaluateOr
  <2>2. CASE IsTrue(v) \/ IsTrue(w)
    BY <1>1, <2>2, SingleValues DEF EvaluateOr
  <2>3. CASE IsPending(v) /\ IsPending(w)
    <3>1. Single(Combined("Or", v.residual, w.residual))
      BY <1>2, <2>3, SingleForms
    <3> QED
      BY <1>1, <2>3, <3>1, SingleValues DEF EvaluateOr
  <2>4. CASE (IsPending(v) /\ IsFalse(w)) \/ (IsFalse(v) /\ IsPending(w))
    BY <1>1, <2>4 DEF EvaluateOr
  <2> QED
    BY <1>1, <2>1, <2>2, <2>3, <2>4
<1>4. SingleValue(EvaluateImplies(v, w))
  <2>1. CASE IsFalse(v) \/ IsTrue(w)
    BY <1>1, <2>1, SingleValues DEF EvaluateImplies
  <2>2. CASE IsTrue(v) /\ IsFalse(w)
    BY <1>1, <1>2, <2>2, SingleValues DEF EvaluateImplies
  <2>3. CASE (IsTrue(v) /\ IsPending(w)) \/ (IsPending(v) /\ ~IsTrue(w))
    <3> DEFINE left == IF IsTrue(v) THEN TrueResidual ELSE v.residual
               right == IF IsFalse(w) THEN FalseResidual(w.violation) ELSE w.residual
    <3>1. Single(left) /\ Single(right)
      <4>1. SingleLeaf(TrueResidual) /\ SingleLeaf(FalseResidual(w.violation))
        BY DEF SingleLeaf
      <4> QED
        BY <1>1, <1>2, <2>3, <4>1, SingleForms
    <3>2. EvaluateImplies(v, w) = Pending(Combined("Implies", left, right))
      BY <1>1, <2>3 DEF EvaluateImplies
    <3> HIDE DEF left, right
    <3>3. Single(Combined("Implies", left, right))
      BY <3>1, SingleForms
    <3> QED
      BY <3>2, <3>3, SingleValues
  <2> QED
    BY <1>1, <2>1, <2>2, <2>3
<1> QED
  BY <1>3, <1>4

LEMMA EventuallyHopes ==
    ASSUME NEW f \in Formulas, NEW end, NEW time, NEW inner, GoodValue(inner)
    PROVE  HopesOn(EventuallyValue(f, end, time, inner), f, end, time)
<1> DEFINE rest == DerivedEventually(f, end)
<1>1. /\ Single(rest) /\ Hopes(rest, f, end)
      /\ \A left : WellBuilt(left) =>
           /\ Single(OrEventually(f, end, left, rest))
           /\ Hopes(OrEventually(f, end, left, rest), f, end)
  BY HopeForms
<1>2. /\ IsTrue(inner) \/ IsFalse(inner) \/ IsPending(inner)
      /\ IsPending(inner) => WellBuilt(inner.residual) /\ ~IsFalse(inner) /\ ~IsTrue(inner)
      /\ IsFalse(inner) => ~IsTrue(inner)
  BY DEF GoodValue, IsValue, IsTrue, IsFalse, IsPending
<1>3. CASE Past(end, time)
  BY <1>3 DEF EventuallyValue, HopesOn, FalseValue, IsFalse
<1>4. CASE ~Past(end, time) /\ IsTrue(inner)
  BY <1>4 DEF EventuallyValue, HopesOn, TrueValue, IsTrue
<1>5. CASE ~Past(end, time) /\ IsFalse(inner)
  BY <1>1, <1>2, <1>5 DEF EventuallyValue, HopesOn, Pending, IsPending
<1>6. CASE ~Past(end, time) /\ IsPending(inner)
  BY <1>1, <1>2, <1>6 DEF EventuallyValue, HopesOn, Pending, IsPending
<1> QED
  BY <1>2, <1>3, <1>4, <1>5, <1>6

LEMMA OrEventuallyHopes ==
    ASSUME NEW f \in Formulas, NEW end, NEW time,
           NEW v, GoodValue(v), NEW w, HopesOn(w, f, end, time)
    PROVE  HopesOn(EvaluateOrEventually(f, end, time, v, w), f, end, time)
<1>1. /\ IsTrue(v) \/ IsFalse(v) \/ IsPending(v)
      /\ IsPending(v) => WellBuilt(v.residual) /\ ~IsFalse(v) /\ ~IsTrue(v)
      /\ IsFalse(v) => ~IsTrue(v)
  BY DEF GoodValue, IsValue, IsTrue, IsFalse, IsPending
<1>2. CASE Past(end, time)
  BY <1>2 DEF EvaluateOrEventually, HopesOn, FalseValue, IsFalse
<1>3. CASE ~Past(end, time) /\ (IsTrue(v) \/ IsTrue(w))
  BY <1>3 DEF EvaluateOrEventually, HopesOn, TrueValue, IsTrue
<1>4. CASE ~Past(end, time) /\ ~IsTrue(w) /\ ~IsTrue(v)
  <2>1. /\ IsPending(w) /\ Single(w.residual) /\ Hopes(w.residual, f, end)
        /\ ~IsFalse(w)
    BY <1>4 DEF HopesOn, IsPending, IsFalse
  <2>2. CASE IsFalse(v)
    BY <1>4, <2>1, <2>2 DEF EvaluateOrEventually
  <2>3. CASE IsPending(v)
    <3>1. PICK r : r = OrEventually(f, end, v.residual, w.residual)
      OBVIOUS
    <3>2. Single(r) /\ Hopes(r, f, end)
      BY <1>1, <2>1, <2>3, <3>1, HopeForms
    <3>3. EvaluateOrEventually(f, end, time, v, w) = Pending(r)
      BY <1>1, <1>4, <2>1, <2>3, <3>1 DEF EvaluateOrEventually
    <3> QED
      BY <1>4, <3>2, <3>3 DEF HopesOn, Pending, IsPending
  <2> QED
    BY <1>1, <1>4, <2>2, <2>3
<1> QED
  BY <1>2, <1>3, <1>4

LEMMA HopesAreSingle ==
    ASSUME NEW v, NEW f, NEW end, NEW time, HopesOn(v, f, end, time)
    PROVE  SingleValue(v)
BY DEF HopesOn, SingleValue

(***************************************************************************)
(* What is measured of formulas and residuals, one level at a time.        *)
(***************************************************************************)
Measured ==
    /\ \A s \in Syntaxes : \A negated \in BOOLEAN :
          FailsOnce(Go(s, negated)) <=> FailsOnceCase(Go(s, negated))
    /\ \A r : IsResidual(r) => \A f : Watches(r, f) = WatchesCase(r, f)

LEMMA FailsOnceCases ==
    ASSUME NEW left, NEW right, NEW sub, NEW bound, NEW function, NEW negated
    PROVE  /\ ~FailsOnceCase(Binary("And", left, right))
           /\ ~FailsOnceCase(Always(sub, bound))
           /\ FailsOnceCase(Binary("Or", left, right)) =>
                FailsOnce(left) /\ FailsOnce(right)
           /\ FailsOnceCase(Binary("Implies", left, right)) =>
                FailsOnce(left) /\ FailsOnce(right)
           /\ FailsOnceCase(Next1(sub)) => FailsOnce(sub)
           /\ LET g == [op |-> "Thunk", function |-> function, negated |-> negated]
              IN  FailsOnceCase(g) =>
                    \A state \in States : FailsOnce(EvaluateThunk(g, state))
<1>1. ~FailsOnceCase(Binary("And", left, right))
  <2>1. PICK f : f = Binary("And", left, right)
    OBVIOUS
  <2>2. f.op = "And"
    BY <2>1 DEF Binary
  <2>3. ~FailsOnceCase(f)
    BY <2>2, Zenon DEF FailsOnceCase
  <2> QED
    BY <2>1, <2>3
<1>2. ~FailsOnceCase(Always(sub, bound))
  <2>1. PICK f : f = Always(sub, bound)
    OBVIOUS
  <2>2. f.op = "Always"
    BY <2>1 DEF Always
  <2>3. ~FailsOnceCase(f)
    BY <2>2, Zenon DEF FailsOnceCase
  <2> QED
    BY <2>1, <2>3
<1>3. ASSUME NEW op \in {"Or", "Implies"}, FailsOnceCase(Binary(op, left, right))
      PROVE  FailsOnce(left) /\ FailsOnce(right)
  <2>1. PICK f : f = Binary(op, left, right)
    OBVIOUS
  <2>2. f.op \in {"Or", "Implies"} /\ f.left = left /\ f.right = right
    BY <2>1 DEF Binary
  <2>3. FailsOnceCase(f)
    BY <1>3, <2>1
  <2>4. FailsOnce(f.left) /\ FailsOnce(f.right)
    BY <2>2, <2>3, Zenon DEF FailsOnceCase
  <2> QED
    BY <2>2, <2>4
<1>4. ASSUME FailsOnceCase(Next1(sub)) PROVE FailsOnce(sub)
  <2>1. PICK f : f = Next1(sub)
    OBVIOUS
  <2>2. f.op = "Next" /\ f.sub = sub
    BY <2>1 DEF Next1
  <2>3. FailsOnceCase(f)
    BY <1>4, <2>1
  <2>4. FailsOnce(f.sub)
    BY <2>2, <2>3, Zenon DEF FailsOnceCase
  <2> QED
    BY <2>2, <2>4
<1>5. ASSUME NEW g, g = [op |-> "Thunk", function |-> function, negated |-> negated],
             FailsOnceCase(g)
      PROVE  \A state \in States : FailsOnce(EvaluateThunk(g, state))
  <2>1. g.op = "Thunk"
    BY <1>5
  <2> QED
    BY <1>5, <2>1, Zenon DEF FailsOnceCase
<1> QED
  BY <1>1, <1>2, <1>3, <1>4, <1>5

LEMMA FailsOnceForms ==
    ASSUME SyntaxRecursion, Measured, NEW s \in Syntaxes, NEW sign \in BOOLEAN,
           FailsOnce(Formula(s, sign))
    PROVE  /\ s.op = "Thunk" => \A state \in States :
                FailsOnce(Formula(Call(s.function, state), sign))
           /\ s.op = "Not" => FailsOnce(Formula(s.sub, ~sign))
           /\ s.op \in {"And", "Or"} =>
                /\ ~Universal(s, sign)
                /\ FailsOnce(Formula(s.left, sign)) /\ FailsOnce(Formula(s.right, sign))
           /\ s.op = "Implies" =>
                /\ sign
                /\ FailsOnce(Formula(s.left, sign)) /\ FailsOnce(Formula(s.right, sign))
           /\ s.op = "Next" => FailsOnce(Formula(s.sub, sign))
           /\ s.op \in {"Always", "Eventually"} => ~Universal(s, sign)
<1> DEFINE g == Go(s, ~sign)
<1>1. g = GoCase(s, ~sign)
  BY DEF SyntaxRecursion
<1>2. PICK not \in BOOLEAN : not = ~sign
  OBVIOUS
<1>3. FailsOnceCase(g)
  <2>1. FailsOnce(Go(s, not)) <=> FailsOnceCase(Go(s, not))
    BY DEF Measured
  <2> QED
    BY <1>2, <2>1 DEF Formula
<1>4. ASSUME s.op = "Thunk", NEW state \in States
      PROVE  FailsOnce(Formula(Call(s.function, state), sign))
  <2>1. g = [op |-> "Thunk", function |-> s.function, negated |-> ~sign]
    BY <1>1, <1>4 DEF GoCase
  <2>2. FailsOnce(EvaluateThunk(g, state))
    BY <1>3, <2>1, FailsOnceCases
  <2>3. EvaluateThunk(g, state) = Go(Call(s.function, state), ~sign)
    BY <2>1 DEF EvaluateThunk
  <2> QED
    BY <2>2, <2>3 DEF Formula
<1>5. ASSUME s.op = "Not" PROVE FailsOnce(Formula(s.sub, ~sign))
  <2>1. g = Go(s.sub, ~~sign)
    BY <1>1, <1>5 DEF GoCase
  <2> QED
    BY <2>1 DEF Formula
<1>6. ASSUME s.op \in {"And", "Or"}
      PROVE  /\ ~Universal(s, sign)
             /\ FailsOnce(Formula(s.left, sign)) /\ FailsOnce(Formula(s.right, sign))
  <2>1. g = Binary(IF ~sign THEN Dual(s.op) ELSE s.op,
                   Go(s.left, ~sign), Go(s.right, ~sign))
    BY <1>1, <1>6 DEF GoCase
  <2>2. (IF ~sign THEN Dual(s.op) ELSE s.op) =
            IF Universal(s, sign) THEN "And" ELSE "Or"
    BY <1>6 DEF Dual, Universal
  <2>3. ~Universal(s, sign)
    <3> SUFFICES ASSUME Universal(s, sign) PROVE FALSE
      OBVIOUS
    <3>1. g = Binary("And", Go(s.left, ~sign), Go(s.right, ~sign))
      BY <2>1, <2>2
    <3> QED
      BY <1>3, <3>1, FailsOnceCases
  <2>4. g = Binary("Or", Go(s.left, ~sign), Go(s.right, ~sign))
    BY <2>1, <2>2, <2>3
  <2>5. FailsOnce(Go(s.left, ~sign)) /\ FailsOnce(Go(s.right, ~sign))
    BY <1>3, <2>4, FailsOnceCases
  <2> QED
    BY <2>3, <2>5 DEF Formula
<1>7. ASSUME s.op = "Implies"
      PROVE  /\ sign
             /\ FailsOnce(Formula(s.left, sign)) /\ FailsOnce(Formula(s.right, sign))
  <2>1. sign
    <3> SUFFICES ASSUME ~sign PROVE FALSE
      OBVIOUS
    <3>1. PICK l, r : l = Go(s.left, FALSE) /\ r = Go(s.right, TRUE)
      OBVIOUS
    <3>2. g = Binary("And", l, r)
      BY <1>1, <1>7, <3>1 DEF GoCase
    <3> QED
      BY <1>3, <3>2, FailsOnceCases
  <2>2. PICK l, r : l = Go(s.left, FALSE) /\ r = Go(s.right, FALSE)
    OBVIOUS
  <2>3. g = Binary("Implies", l, r)
    BY <1>1, <1>7, <2>1, <2>2 DEF GoCase
  <2>4. FailsOnce(l) /\ FailsOnce(r)
    BY <1>3, <2>3, FailsOnceCases
  <2>5. l = Formula(s.left, sign) /\ r = Formula(s.right, sign)
    <3>1. ~sign = FALSE
      BY <2>1
    <3> QED
      BY <2>2, <3>1 DEF Formula
  <2> QED
    BY <2>1, <2>4, <2>5
<1>8. ASSUME s.op = "Next" PROVE FailsOnce(Formula(s.sub, sign))
  <2>1. g = Next1(Go(s.sub, ~sign))
    BY <1>1, <1>8 DEF GoCase
  <2> QED
    BY <1>3, <2>1, FailsOnceCases DEF Formula
<1>9. ASSUME s.op \in {"Always", "Eventually"} PROVE ~Universal(s, sign)
  <2>1. g = [op |-> IF ~sign THEN Dual(s.op) ELSE s.op,
             sub |-> Go(s.sub, ~sign), bound |-> s.bound]
    BY <1>1, <1>9 DEF GoCase
  <2>2. (IF ~sign THEN Dual(s.op) ELSE s.op) =
            IF Universal(s, sign) THEN "Always" ELSE "Eventually"
    BY <1>9 DEF Dual, Universal
  <2> SUFFICES ASSUME Universal(s, sign) PROVE FALSE
    OBVIOUS
  <2>3. g = Always(Go(s.sub, ~sign), s.bound)
    BY <2>1, <2>2 DEF Always
  <2> QED
    BY <1>3, <2>3, FailsOnceCases
<1> QED
  BY <1>4, <1>5, <1>6, <1>7, <1>8, <1>9

(***************************************************************************)
(* The value of such a formula, and of what is left of it.                 *)
(***************************************************************************)
LEMMA EvaluateSingle ==
    ASSUME SyntaxRecursion, Measured, NEW state \in States, NEW time \in Nat
    PROVE  \A f \in Formulas : FailsOnce(f) => SingleValue(Evaluate(f, state, time))
<1> DEFINE holds == {s \in Syntaxes : \A sign \in BOOLEAN :
                        FailsOnce(Formula(s, sign)) =>
                            SingleValue(ValueIn(s, sign, state, time))}
<1>1. ASSUME NEW s \in Syntaxes,
             \A t \in Syntaxes : Depth(t) < Depth(s) => t \in holds
      PROVE  s \in holds
  <2> SUFFICES ASSUME NEW sign \in BOOLEAN, FailsOnce(Formula(s, sign))
               PROVE  SingleValue(ValueIn(s, sign, state, time))
    OBVIOUS
  <2>1. \A t \in Syntaxes : Depth(t) < Depth(s) =>
            \A either \in BOOLEAN : FailsOnce(Formula(t, either)) =>
                SingleValue(ValueIn(t, either, state, time))
    BY <1>1
  <2> HIDE DEF holds
  <2>2. CASE s.op = "Pure"
    <3>1. SingleValue(TrueValue)
      BY SingleValues
    <3>2. ASSUME NEW violation PROVE SingleValue(FalseValue(violation, <<>>))
      BY SingleValues
    <3>3. \/ ValueIn(s, sign, state, time) = TrueValue
          \/ \E violation : ValueIn(s, sign, state, time) = FalseValue(violation, <<>>)
      BY <2>2, ValueOfForms
    <3> QED
      BY <3>1, <3>2, <3>3
  <2>3. CASE s.op = "Thunk"
    <3>1. SingleValue(ValueIn(Call(s.function, state), sign, state, time))
      BY <2>1, <2>3, SyntaxForms, FailsOnceForms
    <3> QED
      BY <2>3, <3>1, ValueOfForms
  <2>4. CASE s.op = "Not"
    <3>1. PICK other \in BOOLEAN : other = ~sign
      OBVIOUS
    <3>2. FailsOnce(Formula(s.sub, ~sign))
      BY <2>4, FailsOnceForms
    <3>3. SingleValue(ValueIn(s.sub, other, state, time))
      BY <2>1, <2>4, <3>1, <3>2, SyntaxForms
    <3>4. ValueIn(s, sign, state, time) = ValueIn(s.sub, ~sign, state, time)
      BY <2>4, ValueOfForms
    <3> QED
      BY <3>1, <3>3, <3>4
  <2>5. CASE s.op \in {"And", "Or"}
    <3>1. ~Universal(s, sign)
      BY <2>5, FailsOnceForms
    <3>2. /\ SingleValue(ValueIn(s.left, sign, state, time))
          /\ SingleValue(ValueIn(s.right, sign, state, time))
      BY <2>1, <2>5, SyntaxForms, FailsOnceForms
    <3>3. ValueIn(s, sign, state, time) =
              EvaluateOr(ValueIn(s.left, sign, state, time),
                         ValueIn(s.right, sign, state, time))
      BY <2>5, <3>1, ValueOfForms
    <3> QED
      BY <3>2, <3>3, SingleCombined
  <2>6. CASE s.op = "Implies"
    <3>1. sign
      BY <2>6, FailsOnceForms
    <3>2. /\ SingleValue(ValueIn(s.left, sign, state, time))
          /\ SingleValue(ValueIn(s.right, sign, state, time))
      BY <2>1, <2>6, SyntaxForms, FailsOnceForms
    <3>3. PICK yes \in BOOLEAN : yes = TRUE
      OBVIOUS
    <3>4. ValueIn(s, sign, state, time) =
              EvaluateImplies(ValueIn(s.left, yes, state, time),
                              ValueIn(s.right, yes, state, time))
      BY <2>6, <3>1, <3>3, ValueOfForms
    <3>5. ValueIn(s, sign, state, time) =
              EvaluateImplies(ValueIn(s.left, sign, state, time),
                              ValueIn(s.right, sign, state, time))
      BY <3>1, <3>3, <3>4
    <3> QED
      BY <3>2, <3>5, SingleCombined
  <2>7. CASE s.op = "Next"
    <3>1. PICK f \in Formulas : f = Formula(s.sub, sign)
      BY <2>7, SyntaxForms DEF Formulas
    <3>2. FailsOnce(f)
      BY <2>7, <3>1, FailsOnceForms
    <3>3. Single(Once(f))
      BY <3>2, SingleForms DEF SingleLeaf
    <3>4. ValueIn(s, sign, state, time) = Pending(Once(f))
      BY <2>7, <3>1, ValueOfForms
    <3> QED
      BY <3>3, <3>4, SingleValues
  <2>8. CASE s.op \in {"Always", "Eventually"}
    <3> DEFINE f == Formula(s.sub, sign)
               inner == ValueIn(s.sub, sign, state, time)
               end == EndOf(s.bound, time)
    <3>1. f \in Formulas
      BY <2>8, SyntaxForms DEF Formulas
    <3>2. GoodValue(inner)
      BY <3>1, EvaluateGood DEF ValueIn
    <3>3. ~Universal(s, sign)
      BY <2>8, FailsOnceForms
    <3>4. ValueIn(s, sign, state, time) = EventuallyValue(f, end, time, inner)
      BY <2>8, <3>3, ValueOfForms
    <3> HIDE DEF f, inner, end
    <3>5. HopesOn(EventuallyValue(f, end, time, inner), f, end, time)
      BY <3>1, <3>2, EventuallyHopes
    <3> QED
      BY <3>4, <3>5, HopesAreSingle
  <2> QED
    BY <2>2, <2>3, <2>4, <2>5, <2>6, <2>7, <2>8, SyntaxForms DEF Operators
<1>2. Syntaxes \subseteq holds
  <2> HIDE DEF holds
  <2> QED
    BY <1>1, ByDepth
<1>3. ASSUME NEW f \in Formulas, FailsOnce(f)
      PROVE  SingleValue(Evaluate(f, state, time))
  <2>1. PICK s \in Syntaxes, sign \in BOOLEAN : f = Formula(s, sign)
    BY DEF Formulas
  <2>2. SingleValue(ValueIn(s, sign, state, time))
    BY <1>2, <1>3, <2>1
  <2> QED
    BY <2>1, <2>2 DEF ValueIn
<1> QED
  BY <1>3

LEMMA HopesDiffer ==
    /\ \A f, end : ~Hopes(TrueResidual, f, end)
    /\ \A violation, f, end : ~Hopes(FalseResidual(violation), f, end)
    /\ \A g, f, end : ~Hopes(Once(g), f, end)
    /\ \A op \in {"Or", "Implies"} : \A left, right, f, end :
         ~Hopes(Combined(op, left, right), f, end)
    /\ \A g, stop, f, end :
         Hopes(DerivedEventually(g, stop), f, end) => g = f /\ stop = end
    /\ \A g, stop, left, right, f, end :
         Hopes(OrEventually(g, stop, left, right), f, end) => g = f /\ stop = end
<1>1. ASSUME NEW r, NEW f, NEW end, Hopes(r, f, end)
      PROVE  /\ r.op \in {"Eventually", "OrEventually"}
             /\ r.subformula = f /\ r.end = end
  BY <1>1 DEF Hopes, DerivedEventually, OrEventually
<1>2. \A f, end : ~Hopes(TrueResidual, f, end)
  <2>1. TrueResidual.op = "True"
    BY DEF TrueResidual
  <2> QED
    BY <1>1, <2>1
<1>3. \A violation, f, end : ~Hopes(FalseResidual(violation), f, end)
  <2>1. \A violation : FalseResidual(violation).op = "False"
    BY DEF FalseResidual
  <2> QED
    BY <1>1, <2>1
<1>4. \A g, f, end : ~Hopes(Once(g), f, end)
  <2>1. \A g : Once(g).op = "Once"
    BY DEF Once
  <2> QED
    BY <1>1, <2>1
<1>5. \A op \in {"Or", "Implies"} : \A left, right, f, end :
         ~Hopes(Combined(op, left, right), f, end)
  <2>1. \A op, left, right : Combined(op, left, right).op = op
    BY DEF Combined
  <2> QED
    BY <1>1, <2>1
<1>6. \A g, stop, f, end :
         Hopes(DerivedEventually(g, stop), f, end) => g = f /\ stop = end
  <2>1. \A g, stop : /\ DerivedEventually(g, stop).subformula = g
                     /\ DerivedEventually(g, stop).end = stop
    BY DEF DerivedEventually
  <2> QED
    BY <1>1, <2>1
<1>7. \A g, stop, left, right, f, end :
         Hopes(OrEventually(g, stop, left, right), f, end) => g = f /\ stop = end
  <2>1. \A g, stop, left, right :
           /\ OrEventually(g, stop, left, right).subformula = g
           /\ OrEventually(g, stop, left, right).end = stop
    BY DEF OrEventually
  <2> QED
    BY <1>1, <2>1
<1> QED
  BY <1>2, <1>3, <1>4, <1>5, <1>6, <1>7

LEMMA StepSingle ==
    ASSUME Recursive, Measured, NEW state \in States, NEW time \in Nat,
           NEW r, Single(r)
    PROVE  SingleValue(Step(r, state, time))
<1>1. PICK L, M, N : /\ Spans(r, L, M, N)
                     /\ \A q \in L : SingleLeaf(q)
                     /\ \A q \in M : SingleLink(q)
                     /\ \A q \in N : SingleNode(q)
  BY DEF Single
<1>2. ResidualRecursion /\ SyntaxRecursion
  BY DEF Recursive
<1>3. /\ Step(TrueResidual, state, time) = TrueValue
      /\ \A violation : Step(FalseResidual(violation), state, time)
                            = FalseValue(violation, <<>>)
      /\ \A left, right :
           /\ Step(Combined("Or", left, right), state, time)
                  = EvaluateOr(Step(left, state, time), Step(right, state, time))
           /\ Step(Combined("Implies", left, right), state, time)
                  = EvaluateImplies(Step(left, state, time), Step(right, state, time))
      /\ \A f : Step(Once(f), state, time) = Evaluate(f, state, time)
      /\ \A f, end : Step(DerivedEventually(f, end), state, time)
                         = EventuallyValue(f, end, time, Evaluate(f, state, time))
      /\ \A f, end, left, right :
           Step(OrEventually(f, end, left, right), state, time)
               = EvaluateOrEventually(f, end, time, Step(left, state, time),
                                      Step(right, state, time))
  BY <1>2, StepOfForms
<1> DEFINE Claim(q) ==
               /\ SingleValue(Step(q, state, time))
               /\ \A f \in Formulas : \A end :
                    Hopes(q, f, end) => HopesOn(Step(q, state, time), f, end, time)
           H == {q \in L \cup M \cup N : Claim(q)}
<1>4. ASSUME NEW q \in L PROVE Claim(q)
  <2>1. CASE q = TrueResidual
    BY <1>3, <2>1, HopesDiffer, SingleValues
  <2>2. CASE \E violation : q = FalseResidual(violation)
    <3>1. PICK violation : q = FalseResidual(violation)
      BY <2>2
    <3>2. SingleValue(Step(q, state, time))
      BY <1>3, <3>1, SingleValues
    <3>3. \A f, end : ~Hopes(q, f, end)
      BY <3>1, HopesDiffer
    <3> QED
      BY <3>2, <3>3
  <2>3. CASE \E f \in Formulas : FailsOnce(f) /\ q = Once(f)
    <3>1. PICK f \in Formulas : FailsOnce(f) /\ q = Once(f)
      BY <2>3
    <3>2. SingleValue(Step(q, state, time))
      BY <1>2, <1>3, <3>1, EvaluateSingle
    <3>3. \A g, end : ~Hopes(q, g, end)
      BY <3>1, HopesDiffer
    <3> QED
      BY <3>2, <3>3
  <2>4. CASE \E f \in Formulas : \E end : q = DerivedEventually(f, end)
    <3>1. PICK f \in Formulas : \E end : q = DerivedEventually(f, end)
      BY <2>4
    <3>2. PICK end : q = DerivedEventually(f, end)
      BY <3>1
    <3>3. PICK inner : inner = Evaluate(f, state, time)
      OBVIOUS
    <3>4. GoodValue(inner)
      BY <1>2, <3>3, EvaluateGood
    <3>5. Step(q, state, time) = EventuallyValue(f, end, time, inner)
      BY <1>3, <3>2, <3>3
    <3>6. HopesOn(Step(q, state, time), f, end, time)
      BY <3>4, <3>5, EventuallyHopes
    <3>7. \A g, stop : Hopes(q, g, stop) => f = g /\ end = stop
      BY <3>2, HopesDiffer
    <3> QED
      BY <3>6, <3>7, HopesAreSingle
  <2> QED
    BY <1>1, <2>1, <2>2, <2>3, <2>4 DEF SingleLeaf
<1>5. ASSUME NEW q \in M, q.right \in H PROVE Claim(q)
  <2>1. PICK f \in Formulas : \E end, left, right :
            /\ q = OrEventually(f, end, left, right)
            /\ WellBuilt(left) /\ Hopes(right, f, end)
    BY <1>1 DEF SingleLink
  <2>2. PICK end, left, right : /\ q = OrEventually(f, end, left, right)
                                /\ WellBuilt(left) /\ Hopes(right, f, end)
    BY <2>1
  <2>3. q.right = right
    BY <2>2 DEF OrEventually
  <2>4. PICK v, w : v = Step(left, state, time) /\ w = Step(right, state, time)
    OBVIOUS
  <2>5. HopesOn(w, f, end, time)
    BY <1>5, <2>2, <2>3, <2>4
  <2>6. GoodValue(v)
    BY <2>2, <2>4, StepGood
  <2>7. Step(q, state, time) = EvaluateOrEventually(f, end, time, v, w)
    BY <1>3, <2>2, <2>4
  <2>8. HopesOn(Step(q, state, time), f, end, time)
    BY <2>5, <2>6, <2>7, OrEventuallyHopes
  <2>9. \A g, stop : Hopes(q, g, stop) => f = g /\ end = stop
    BY <2>2, HopesDiffer
  <2> QED
    BY <2>8, <2>9, HopesAreSingle
<1>6. ASSUME NEW q \in N, q.left \in H, q.right \in H PROVE Claim(q)
  <2>1. PICK left, right : \/ q = Combined("Or", left, right)
                           \/ q = Combined("Implies", left, right)
    BY <1>1 DEF SingleNode
  <2>2. q.left = left /\ q.right = right
    BY <2>1 DEF Combined
  <2>3. PICK v, w : v = Step(left, state, time) /\ w = Step(right, state, time)
    OBVIOUS
  <2>4. SingleValue(v) /\ SingleValue(w)
    BY <1>6, <2>2, <2>3
  <2>5. SingleValue(EvaluateOr(v, w)) /\ SingleValue(EvaluateImplies(v, w))
    BY <2>4, SingleCombined
  <2>6. \/ Step(q, state, time) = EvaluateOr(v, w)
        \/ Step(q, state, time) = EvaluateImplies(v, w)
    BY <1>3, <2>1, <2>3
  <2>7. \A f, end : ~Hopes(q, f, end)
    BY <2>1, HopesDiffer
  <2> QED
    BY <2>5, <2>6, <2>7
<1>7. H \in SUBSET (L \cup M \cup N) /\ Closed(H, L, M, N)
  BY <1>4, <1>5, <1>6 DEF Closed
<1>8. r \in H
  <2> HIDE DEF H
  <2> QED
    BY <1>1, <1>7 DEF Spans
<1> QED
  BY <1>8

(***************************************************************************)
(* An exported Always whose subformula fails in one way only, after any    *)
(* number of violations: what is left of it is put together from the       *)
(* Always itself and from what is left of its subformula at positions      *)
(* where it is open, by conjunctions and waiting Always.                   *)
(***************************************************************************)
SomeRefuted(s, seen) ==
    \E i \in 1..Len(seen) : \A tr \in Extensions(seen) :
        Refuting(Signal(tr, s.sub, TRUE, i), i, Len(seen))

WaitsFor(r, s, seen, left, right) ==
    \E onset : r = AndAlways(Formula(s.sub, TRUE), EndFor(s, seen), onset, left, right)
CrewLeaf(r, s, seen) ==
    \/ r = Remaining(s, seen)
    \/ Single(r) /\ \E onset : Awaits(r, onset, s, seen)
CrewNode(r, s, seen) ==
    \E left, right : r = Combined("And", left, right) \/ WaitsFor(r, s, seen, left, right)
Crew(r, s, seen) ==
    \E L, N : /\ Spans(r, L, {}, N)
              /\ \A q \in L : CrewLeaf(q, s, seen)
              /\ \A q \in N : CrewNode(q, s, seen)
Leads(r, s, seen) ==
    r = Remaining(s, seen) \/ \E left, right : WaitsFor(r, s, seen, left, right)
Manned(r, s, seen) == Crew(r, s, seen) /\ Leads(r, s, seen)

LEMMA CrewForms ==
    ASSUME NEW s, NEW seen
    PROVE  /\ \A r : CrewLeaf(r, s, seen) => Crew(r, s, seen)
           /\ \A left, right : Crew(left, s, seen) /\ Crew(right, s, seen) =>
                  Crew(Combined("And", left, right), s, seen)
           /\ \A r, left, right :
                  Crew(left, s, seen) /\ Crew(right, s, seen) /\ WaitsFor(r, s, seen, left, right)
                      => Manned(r, s, seen)
           /\ Manned(Remaining(s, seen), s, seen)
<1>1. ASSUME NEW r, CrewLeaf(r, s, seen) PROVE Crew(r, s, seen)
  <2>1. \E L, N : /\ L = {r} /\ N = {} /\ Spans(r, L, {}, N)
    BY SpanLeaf
  <2> QED
    BY <1>1, <2>1 DEF Crew
<1>2. ASSUME NEW r, NEW left, NEW right, Crew(left, s, seen), Crew(right, s, seen),
             CrewNode(r, s, seen), r.left = left, r.right = right
      PROVE  Crew(r, s, seen)
  <2>1. PICK L, N : /\ Spans(left, L, {}, N)
                    /\ \A q \in L : CrewLeaf(q, s, seen)
                    /\ \A q \in N : CrewNode(q, s, seen)
    BY <1>2 DEF Crew
  <2>2. PICK K, P : /\ Spans(right, K, {}, P)
                    /\ \A q \in K : CrewLeaf(q, s, seen)
                    /\ \A q \in P : CrewNode(q, s, seen)
    BY <1>2 DEF Crew
  <2>3. Spans(r, L \cup K, {} \cup {}, N \cup P \cup {r})
    <3>1. Spans(r.left, L, {}, N) /\ Spans(r.right, K, {}, P)
      BY <1>2, <2>1, <2>2
    <3> QED
      BY <3>1, SpanJoin
  <2>4. /\ \A q \in L \cup K : CrewLeaf(q, s, seen)
        /\ \A q \in N \cup P \cup {r} : CrewNode(q, s, seen)
        /\ {} \cup {} = {}
    BY <1>2, <2>1, <2>2
  <2> QED
    BY <2>3, <2>4 DEF Crew
<1>3. ASSUME NEW left, NEW right, Crew(left, s, seen), Crew(right, s, seen)
      PROVE  Crew(Combined("And", left, right), s, seen)
  <2>1. PICK r : r = Combined("And", left, right)
    OBVIOUS
  <2>2. CrewNode(r, s, seen) /\ r.left = left /\ r.right = right
    BY <2>1 DEF CrewNode, Combined
  <2> QED
    BY <1>2, <1>3, <2>1, <2>2
<1>4. ASSUME NEW r, NEW left, NEW right, Crew(left, s, seen), Crew(right, s, seen),
             WaitsFor(r, s, seen, left, right)
      PROVE  Manned(r, s, seen)
  <2>1. CrewNode(r, s, seen) /\ Leads(r, s, seen)
    BY <1>4 DEF CrewNode, Leads
  <2>2. r.left = left /\ r.right = right
    BY <1>4 DEF WaitsFor, AndAlways
  <2> QED
    BY <1>2, <1>4, <2>1, <2>2 DEF Manned
<1>5. Manned(Remaining(s, seen), s, seen)
  BY <1>1 DEF Manned, Leads, CrewLeaf
<1> QED
  BY <1>1, <1>3, <1>4, <1>5

\* A value of such a residual, and one of the whole Always.
CrewNext(next, s, seen) == next = <<>> \/ \E r : next = <<r>> /\ Crew(r, s, seen)
Crewed(v, s, seen) ==
    \/ IsTrue(v)
    \/ IsPending(v) /\ Crew(v.residual, s, seen)
    \/ IsFalse(v) /\ SomeRefuted(s, seen) /\ CrewNext(v.next, s, seen)
Led(v, s, seen) ==
    \/ IsTrue(v)
    \/ IsPending(v) /\ Manned(v.residual, s, seen)
    \/ /\ IsFalse(v) /\ SomeRefuted(s, seen)
       /\ \E r : v.next = <<r>> /\ Manned(r, s, seen)

LEMMA CrewedForms ==
    ASSUME NEW s, NEW seen
    PROVE  /\ Led(TrueValue, s, seen)
           /\ \A r : Crew(r, s, seen) => Crewed(Pending(r), s, seen)
           /\ \A r : Manned(r, s, seen) => Led(Pending(r), s, seen)
           /\ \A violation, next :
                SomeRefuted(s, seen) /\ CrewNext(next, s, seen) =>
                    Crewed(FalseValue(violation, next), s, seen)
           /\ \A violation, r :
                SomeRefuted(s, seen) /\ Manned(r, s, seen) =>
                    Led(FalseValue(violation, <<r>>), s, seen)
           /\ \A v : Led(v, s, seen) => Crewed(v, s, seen)
<1>1. Led(TrueValue, s, seen)
  BY DEF Led, TrueValue, IsTrue
<1>2. \A r : IsPending(Pending(r)) /\ Pending(r).residual = r
  BY DEF IsPending, Pending
<1>3. \A violation, next : /\ IsFalse(FalseValue(violation, next))
                           /\ FalseValue(violation, next).next = next
  BY DEF IsFalse, FalseValue
<1>4. \A r : Crew(r, s, seen) => Crewed(Pending(r), s, seen)
  BY <1>2 DEF Crewed
<1>5. \A r : Manned(r, s, seen) => Led(Pending(r), s, seen)
  BY <1>2 DEF Led
<1>6. \A violation, next :
         SomeRefuted(s, seen) /\ CrewNext(next, s, seen) =>
             Crewed(FalseValue(violation, next), s, seen)
  BY <1>3 DEF Crewed
<1>7. ASSUME NEW violation, NEW r, SomeRefuted(s, seen), Manned(r, s, seen)
      PROVE  Led(FalseValue(violation, <<r>>), s, seen)
  <2>1. PICK next : next = <<r>>
    OBVIOUS
  <2>2. Led(FalseValue(violation, next), s, seen)
    BY <1>3, <1>7, <2>1 DEF Led
  <2> QED
    BY <2>1, <2>2
<1>8. \A v : Led(v, s, seen) => Crewed(v, s, seen)
  BY DEF Led, Crewed, CrewNext, Manned
<1> QED
  BY <1>1, <1>4, <1>5, <1>6, <1>7, <1>8

LEMMA CrewedKinds ==
    ASSUME NEW s, NEW seen, NEW v, Crewed(v, s, seen)
    PROVE  /\ IsTrue(v) \/ IsFalse(v) \/ IsPending(v)
           /\ ~(IsTrue(v) /\ IsFalse(v)) /\ ~(IsTrue(v) /\ IsPending(v))
           /\ ~(IsFalse(v) /\ IsPending(v))
           /\ IsPending(v) => Crew(v.residual, s, seen)
           /\ IsFalse(v) => SomeRefuted(s, seen) /\ CrewNext(v.next, s, seen)
           /\ CrewNext(PendingResidual(v), s, seen)
<1>1. /\ IsTrue(v) \/ IsFalse(v) \/ IsPending(v)
      /\ ~(IsTrue(v) /\ IsFalse(v)) /\ ~(IsTrue(v) /\ IsPending(v))
      /\ ~(IsFalse(v) /\ IsPending(v))
  BY DEF Crewed, IsTrue, IsFalse, IsPending
<1>2. /\ IsPending(v) => Crew(v.residual, s, seen)
      /\ IsFalse(v) => SomeRefuted(s, seen) /\ CrewNext(v.next, s, seen)
  BY <1>1 DEF Crewed
<1>3. CrewNext(PendingResidual(v), s, seen)
  BY <1>2 DEF PendingResidual, CrewNext
<1> QED
  BY <1>1, <1>2, <1>3

LEMMA CrewOptions ==
    ASSUME NEW s, NEW seen, NEW left, NEW right,
           CrewNext(left, s, seen), CrewNext(right, s, seen)
    PROVE  CrewNext(CombineOptions(left, right, "And"), s, seen)
<1>1. CASE left = <<>>
  <2>1. CombineOptions(left, right, "And") = right
    BY <1>1 DEF CombineOptions, CrewNext
  <2> QED
    BY <2>1
<1>2. CASE right = <<>>
  <2>1. CombineOptions(left, right, "And") = left
    BY <1>2 DEF CombineOptions, CrewNext
  <2> QED
    BY <2>1
<1>3. CASE left # <<>> /\ right # <<>>
  <2>1. PICK a, b : /\ left = <<a>> /\ Crew(a, s, seen)
                    /\ right = <<b>> /\ Crew(b, s, seen)
    BY <1>3 DEF CrewNext
  <2>2. CombineOptions(left, right, "And") = <<Combined("And", a, b)>>
    BY <1>3, <2>1 DEF CombineOptions
  <2>3. Crew(Combined("And", a, b), s, seen)
    BY <2>1, CrewForms
  <2> QED
    BY <2>2, <2>3 DEF CrewNext
<1> QED
  BY <1>1, <1>2, <1>3

LEMMA AndCrewed ==
    ASSUME NEW s, NEW seen, NEW v, Crewed(v, s, seen), NEW w, Crewed(w, s, seen)
    PROVE  Crewed(EvaluateAnd(v, w), s, seen)
<1> DEFINE value == EvaluateAnd(v, w)
<1>1. /\ IsTrue(v) \/ IsFalse(v) \/ IsPending(v)
      /\ ~(IsTrue(v) /\ IsFalse(v)) /\ ~(IsTrue(v) /\ IsPending(v))
      /\ ~(IsFalse(v) /\ IsPending(v))
      /\ IsPending(v) => Crew(v.residual, s, seen)
      /\ IsFalse(v) => SomeRefuted(s, seen) /\ CrewNext(v.next, s, seen)
  BY CrewedKinds
<1>2. /\ IsTrue(w) \/ IsFalse(w) \/ IsPending(w)
      /\ ~(IsTrue(w) /\ IsFalse(w)) /\ ~(IsTrue(w) /\ IsPending(w))
      /\ ~(IsFalse(w) /\ IsPending(w))
      /\ IsPending(w) => Crew(w.residual, s, seen)
      /\ IsFalse(w) => SomeRefuted(s, seen) /\ CrewNext(w.next, s, seen)
  BY CrewedKinds
<1>3. CASE (IsTrue(v) /\ ~IsPending(w)) \/ (IsTrue(w) /\ ~IsPending(v))
  BY <1>1, <1>2, <1>3 DEF EvaluateAnd
<1>4. ASSUME NEW left, NEW right, Crew(left, s, seen), Crew(right, s, seen),
             value = Pending(Combined("And", left, right))
      PROVE  Crewed(value, s, seen)
  <2>1. Crew(Combined("And", left, right), s, seen)
    BY <1>4, CrewForms
  <2> QED
    BY <1>4, <2>1, CrewedForms
<1>5. CASE ~IsFalse(v) /\ ~IsFalse(w) /\ (IsPending(v) \/ IsPending(w))
  <2>1. Crew(TrueResidual, s, seen)
    <3>1. SingleLeaf(TrueResidual) /\ Awaits(TrueResidual, 0, s, seen)
      BY DEF SingleLeaf, Awaits
    <3>2. CrewLeaf(TrueResidual, s, seen)
      BY <3>1, SingleForms DEF CrewLeaf
    <3> QED
      BY <3>2, CrewForms
  <2>2. \/ /\ IsTrue(v) /\ Crew(w.residual, s, seen)
           /\ value = Pending(Combined("And", TrueResidual, w.residual))
        \/ /\ IsTrue(w) /\ Crew(v.residual, s, seen)
           /\ value = Pending(Combined("And", v.residual, TrueResidual))
        \/ /\ Crew(v.residual, s, seen) /\ Crew(w.residual, s, seen)
           /\ value = Pending(Combined("And", v.residual, w.residual))
    BY <1>1, <1>2, <1>5 DEF EvaluateAnd
  <2> HIDE DEF value
  <2>3. Crewed(value, s, seen)
    BY <1>4, <2>1, <2>2
  <2> QED
    BY <2>3 DEF value
<1>6. ASSUME NEW left, NEW right, NEW violation, SomeRefuted(s, seen),
             CrewNext(left, s, seen), CrewNext(right, s, seen),
             value = FalseValue(violation, CombineOptions(left, right, "And"))
      PROVE  Crewed(value, s, seen)
  <2>1. PICK next : next = CombineOptions(left, right, "And")
    OBVIOUS
  <2>2. CrewNext(next, s, seen)
    BY <1>6, <2>1, CrewOptions
  <2>3. Crewed(FalseValue(violation, next), s, seen)
    BY <1>6, <2>2, CrewedForms
  <2> QED
    BY <1>6, <2>1, <2>3
<1>7. CASE ~IsTrue(v) /\ ~IsTrue(w) /\ (IsFalse(v) \/ IsFalse(w))
  <2>1. \A r : Crew(r, s, seen) => CrewNext(<<r>>, s, seen)
    BY DEF CrewNext
  <2>2. \/ /\ CrewNext(v.next, s, seen) /\ CrewNext(w.next, s, seen)
           /\ value = FalseValue(BothViolated("And", v.violation, w.violation),
                                 CombineOptions(v.next, w.next, "And"))
        \/ /\ CrewNext(<<v.residual>>, s, seen) /\ CrewNext(w.next, s, seen)
           /\ value = FalseValue(w.violation,
                                 CombineOptions(<<v.residual>>, w.next, "And"))
        \/ /\ CrewNext(<<w.residual>>, s, seen) /\ CrewNext(v.next, s, seen)
           /\ value = FalseValue(v.violation,
                                 CombineOptions(<<w.residual>>, v.next, "And"))
    BY <1>1, <1>2, <1>7, <2>1 DEF EvaluateAnd
  <2>3. SomeRefuted(s, seen)
    BY <1>1, <1>2, <1>7
  <2> HIDE DEF value
  <2>4. Crewed(value, s, seen)
    BY <1>6, <2>2, <2>3
  <2> QED
    BY <2>4 DEF value
<1> QED
  BY <1>1, <1>2, <1>3, <1>5, <1>7

LEMMA ContinuationLed ==
    ASSUME NEW s, NEW seen, NEW f, f = Formula(s.sub, TRUE),
           NEW end, end = EndFor(s, seen), NEW onset,
           NEW inner, CrewNext(inner, s, seen), SomeRefuted(s, seen), NEW violation
    PROVE  Led(FalseValue(violation,
                   Continuation(f, end, onset, inner, DerivedAlways(f, end))), s, seen)
<1> DEFINE rest == DerivedAlways(f, end)
<1>1. rest = Remaining(s, seen)
  BY DEF Remaining
<1> HIDE DEF rest
<1>2. Manned(rest, s, seen) /\ Crew(rest, s, seen)
  BY <1>1, CrewForms DEF Manned
<1>3. \E r : /\ Continuation(f, end, onset, inner, rest) = <<r>>
             /\ Manned(r, s, seen)
  <2>1. CASE inner = <<>>
    BY <1>2, <2>1 DEF Continuation
  <2>2. CASE inner # <<>>
    <3>1. PICK a : inner = <<a>> /\ Crew(a, s, seen)
      BY <2>2 DEF CrewNext
    <3>2. PICK r : r = AndAlways(f, end, onset, a, rest)
      OBVIOUS
    <3>3. WaitsFor(r, s, seen, a, rest)
      BY <3>2 DEF WaitsFor
    <3>4. Manned(r, s, seen)
      BY <1>2, <3>1, <3>3, CrewForms
    <3>5. Continuation(f, end, onset, inner, rest) = <<r>>
      BY <2>2, <3>1, <3>2 DEF Continuation
    <3> QED
      BY <3>4, <3>5
  <2> QED
    BY <2>1, <2>2
<1>4. PICK next, r : /\ next = Continuation(f, end, onset, inner, rest)
                     /\ next = <<r>> /\ Manned(r, s, seen)
  BY <1>3
<1>5. Led(FalseValue(violation, next), s, seen)
  BY <1>4, CrewedForms
<1> QED
  BY <1>4, <1>5 DEF rest

LEMMA AlwaysLed ==
    ASSUME NEW s, NEW seen, Len(seen) \in 1..Len(seen),
           NEW time, time = seen[Len(seen)].time,
           NEW w, Speaks(w, Len(seen), s, seen), SingleValue(w),
           NEW f, f = Formula(s.sub, TRUE), NEW end, end = EndFor(s, seen),
           ~Past(end, time)
    PROVE  Led(AlwaysValue(f, end, time, w), s, seen)
<1> DEFINE rest == DerivedAlways(f, end)
           value == AlwaysValue(f, end, time, w)
<1>1. rest = Remaining(s, seen)
  BY DEF Remaining
<1>2. Manned(rest, s, seen) /\ Crew(rest, s, seen)
  <2> HIDE DEF rest
  <2> QED
    BY <1>1, CrewForms DEF Manned
<1>3. /\ IsTrue(w) \/ IsFalse(w) \/ IsPending(w)
      /\ IsPending(w) => Awaits(w.residual, time, s, seen)
      /\ IsFalse(w) =>
           \A tr \in Extensions(seen) :
                Refuting(Signal(tr, s.sub, TRUE, Len(seen)), Len(seen), Len(seen))
  BY SpeaksOf
<1>4. CASE IsTrue(w)
  <2>1. value = Pending(rest)
    BY <1>4 DEF AlwaysValue
  <2> HIDE DEF rest
  <2> QED
    BY <1>2, <2>1, CrewedForms
<1>5. CASE ~IsTrue(w) /\ IsPending(w)
  <2> DEFINE link == AndAlways(f, end, time, w.residual, rest)
  <2>1. value = Pending(link)
    BY <1>5 DEF AlwaysValue
  <2>2. Crew(w.residual, s, seen)
    <3>1. Single(w.residual)
      BY <1>5 DEF SingleValue, IsTrue, IsPending, IsFalse
    <3>2. CrewLeaf(w.residual, s, seen)
      BY <1>3, <1>5, <3>1 DEF CrewLeaf
    <3> QED
      BY <3>2, CrewForms
  <2>3. WaitsFor(link, s, seen, w.residual, rest)
    BY DEF WaitsFor
  <2> HIDE DEF link, rest
  <2>4. Manned(link, s, seen)
    BY <1>2, <2>2, <2>3, CrewForms
  <2> QED
    BY <2>1, <2>4, CrewedForms
<1>6. CASE ~IsTrue(w) /\ ~IsPending(w)
  <2>1. w.next = <<>> /\ IsFalse(w)
    BY <1>6 DEF SingleValue
  <2>2. SomeRefuted(s, seen)
    BY <1>3, <2>1 DEF SomeRefuted
  <2>3. value = FalseValue(AlwaysViolation(time, w.violation),
                           Continuation(f, end, time, w.next, rest))
    BY <1>6 DEF AlwaysValue
  <2>4. CrewNext(w.next, s, seen)
    BY <2>1 DEF CrewNext
  <2>5. PICK violation, inner : violation = AlwaysViolation(time, w.violation)
                                /\ inner = w.next
    OBVIOUS
  <2>6. Led(FalseValue(violation,
                Continuation(f, end, time, inner, DerivedAlways(f, end))), s, seen)
    BY <2>2, <2>4, <2>5, ContinuationLed
  <2> QED
    BY <2>3, <2>5, <2>6
<1> QED
  BY <1>3, <1>4, <1>5, <1>6

LEMMA AndAlwaysLed ==
    ASSUME NEW s, NEW seen, NEW time, NEW onset,
           NEW v, Crewed(v, s, seen), NEW w, Crewed(w, s, seen),
           NEW f, f = Formula(s.sub, TRUE), NEW end, end = EndFor(s, seen),
           ~Past(end, time)
    PROVE  Led(EvaluateAndAlways(f, end, onset, time, v, w), s, seen)
<1> DEFINE value == EvaluateAndAlways(f, end, onset, time, v, w)
<1>1. /\ IsTrue(v) \/ IsFalse(v) \/ IsPending(v)
      /\ ~(IsTrue(v) /\ IsFalse(v)) /\ ~(IsTrue(v) /\ IsPending(v))
      /\ ~(IsFalse(v) /\ IsPending(v))
      /\ IsPending(v) => Crew(v.residual, s, seen)
      /\ IsFalse(v) => SomeRefuted(s, seen) /\ CrewNext(v.next, s, seen)
      /\ CrewNext(PendingResidual(v), s, seen)
  BY CrewedKinds
<1>2. /\ IsTrue(w) \/ IsFalse(w) \/ IsPending(w)
      /\ ~(IsTrue(w) /\ IsFalse(w)) /\ ~(IsTrue(w) /\ IsPending(w))
      /\ ~(IsFalse(w) /\ IsPending(w))
      /\ IsPending(w) => Crew(w.residual, s, seen)
      /\ IsFalse(w) => SomeRefuted(s, seen) /\ CrewNext(w.next, s, seen)
      /\ CrewNext(PendingResidual(w), s, seen)
  BY CrewedKinds
<1>3. CASE IsTrue(v) /\ IsTrue(w)
  <2>1. value = TrueValue
    BY <1>3 DEF EvaluateAndAlways
  <2> QED
    BY <2>1, CrewedForms
<1>4. CASE ~IsFalse(v) /\ ~IsFalse(w) /\ ~(IsTrue(v) /\ IsTrue(w))
  <2>1. Crew(TrueResidual, s, seen)
    <3>1. SingleLeaf(TrueResidual) /\ Awaits(TrueResidual, 0, s, seen)
      BY DEF SingleLeaf, Awaits
    <3>2. CrewLeaf(TrueResidual, s, seen)
      BY <3>1, SingleForms DEF CrewLeaf
    <3> QED
      BY <3>2, CrewForms
  <2>2. \E since, left, right :
           /\ Crew(left, s, seen) /\ Crew(right, s, seen)
           /\ value = Pending(AndAlways(f, end, since, left, right))
    BY <1>1, <1>2, <1>4, <2>1 DEF EvaluateAndAlways
  <2>3. PICK since, left, right :
           /\ Crew(left, s, seen) /\ Crew(right, s, seen)
           /\ value = Pending(AndAlways(f, end, since, left, right))
    BY <2>2
  <2>4. PICK r : r = AndAlways(f, end, since, left, right)
    OBVIOUS
  <2>5. WaitsFor(r, s, seen, left, right)
    BY <2>4 DEF WaitsFor
  <2>6. Manned(r, s, seen)
    BY <2>3, <2>5, CrewForms
  <2> HIDE DEF value
  <2>7. Led(value, s, seen)
    BY <2>3, <2>4, <2>6, CrewedForms
  <2> QED
    BY <2>7 DEF value
<1>5. CASE IsFalse(v) \/ IsFalse(w)
  <2>1. SomeRefuted(s, seen)
    BY <1>1, <1>2, <1>5
  <2>2. PICK inner : inner = CombineOptions(PendingResidual(v), PendingResidual(w), "And")
    OBVIOUS
  <2>3. CrewNext(inner, s, seen)
    BY <1>1, <1>2, <2>2, CrewOptions
  <2>4. \E violation :
           value = FalseValue(violation,
                       Continuation(f, end, onset, inner, DerivedAlways(f, end)))
    BY <1>1, <1>2, <1>5, <2>2 DEF EvaluateAndAlways
  <2> HIDE DEF value
  <2>5. Led(value, s, seen)
    BY <2>1, <2>3, <2>4, ContinuationLed
  <2> QED
    BY <2>5 DEF value
<1> QED
  BY <1>1, <1>2, <1>3, <1>4, <1>5

LEMMA SingleTop ==
    ASSUME NEW r, Single(r)
    PROVE  r.op \notin {"Always", "AndAlways"}
<1>1. PICK L, M, N : /\ Spans(r, L, M, N)
                     /\ \A q \in L : SingleLeaf(q)
                     /\ \A q \in M : SingleLink(q)
                     /\ \A q \in N : SingleNode(q)
  BY DEF Single
<1>2. r \in L \cup M \cup N
  <2>1. Closed(L \cup M \cup N, L, M, N)
    BY DEF Closed
  <2> QED
    BY <1>1, <2>1 DEF Spans
<1>3. \A q : SingleLeaf(q) => q.op \in {"True", "False", "Once", "Eventually"}
  BY DEF SingleLeaf, TrueResidual, FalseResidual, Once, DerivedEventually
<1>4. \A q : SingleLink(q) => q.op = "OrEventually"
  BY DEF SingleLink, OrEventually
<1>5. \A q : SingleNode(q) => q.op \in {"Or", "Implies"}
  BY DEF SingleNode, Combined
<1> QED
  BY <1>1, <1>2, <1>3, <1>4, <1>5

LEMMA CrewStep ==
    ASSUME Recursive, Measured, NEW state \in States, NEW time \in Nat,
           NEW entry, entry.time = time, entry.state = state,
           NEW seen, NEW more, OneMore(seen, entry, more),
           NEW s \in Syntaxes, s.op = "Always",
           NEW f, f = Formula(s.sub, TRUE), FailsOnce(f),
           NEW end, end = EndFor(s, seen), end = EndFor(s, more), ~Past(end, time),
           NEW r, Manned(r, s, seen)
    PROVE  Led(Step(r, state, time), s, more)
<1> DEFINE w == ValueIn(s.sub, TRUE, state, time)
           Claim(q) == /\ Crewed(Step(q, state, time), s, more)
                       /\ Leads(q, s, seen) => Led(Step(q, state, time), s, more)
<1>1. ResidualRecursion /\ SyntaxRecursion /\ s.sub \in Syntaxes
  BY SyntaxForms DEF Recursive
<1>2. /\ Speaks(w, Len(more), s, more) /\ SingleValue(w)
      /\ Len(more) \in 1..Len(more) /\ time = more[Len(more)].time
  <2>1. Speaks(w, Len(more), s, more)
    BY <1>1, FirstSpeaks
  <2>2. PICK yes \in BOOLEAN : yes = TRUE
    OBVIOUS
  <2>3. Formula(s.sub, yes) \in Formulas
    BY <1>1 DEF Formulas
  <2>4. SingleValue(w)
    BY <1>1, <2>2, <2>3, EvaluateSingle DEF ValueIn
  <2>5. Len(more) \in 1..Len(more) /\ time = more[Len(more)].time
    BY DEF OneMore
  <2> QED
    BY <2>1, <2>4, <2>5
<1>3. /\ Step(TrueResidual, state, time) = TrueValue
      /\ \A g, e : Step(DerivedAlways(g, e), state, time)
                      = AlwaysValue(g, e, time, Evaluate(g, state, time))
      /\ \A left, right :
           Step(Combined("And", left, right), state, time)
               = EvaluateAnd(Step(left, state, time), Step(right, state, time))
      /\ \A g, e, onset, left, right :
           Step(AndAlways(g, e, onset, left, right), state, time)
               = EvaluateAndAlways(g, e, onset, time, Step(left, state, time),
                                   Step(right, state, time))
  BY <1>1, StepOfForms
<1>4. PICK L, N : /\ Spans(r, L, {}, N)
                  /\ \A q \in L : CrewLeaf(q, s, seen)
                  /\ \A q \in N : CrewNode(q, s, seen)
  BY DEF Manned, Crew
<1>5. /\ Remaining(s, seen) = DerivedAlways(f, end)
      /\ \A g, e : DerivedAlways(g, e).op = "Always"
      /\ \A g, e, o, a, b : AndAlways(g, e, o, a, b).op = "AndAlways"
      /\ \A o, a, b : Combined(o, a, b).op = o
  BY DEF Remaining, DerivedAlways, AndAlways, Combined
<1>6. /\ \A q, left, right : WaitsFor(q, s, seen, left, right) =>
           \E onset : q = AndAlways(f, end, onset, left, right)
      /\ \A q : Leads(q, s, seen) => q.op \in {"Always", "AndAlways"}
  <2>1. \A q, left, right : WaitsFor(q, s, seen, left, right) =>
           \E onset : q = AndAlways(f, end, onset, left, right)
    BY Zenon DEF WaitsFor
  <2>2. ASSUME NEW q, Leads(q, s, seen) PROVE q.op \in {"Always", "AndAlways"}
    BY ONLY <1>5, <2>1, <2>2 DEF Leads
  <2> QED
    BY <2>1, <2>2
<1>7. ASSUME NEW q \in L PROVE Claim(q)
  <2>1. CASE q = Remaining(s, seen)
    <3>1. Step(q, state, time) = AlwaysValue(f, end, time, w)
      <4>1. Step(q, state, time) = AlwaysValue(f, end, time, Evaluate(f, state, time))
        BY <1>3, <1>5, <2>1
      <4> QED
        BY <4>1 DEF ValueIn
    <3> HIDE DEF w
    <3>2. Led(AlwaysValue(f, end, time, w), s, more)
      BY <1>2, AlwaysLed
    <3> QED
      BY <3>1, <3>2, CrewedForms
  <2>2. CASE Single(q) /\ \E onset : Awaits(q, onset, s, seen)
    <3>1. ~Leads(q, s, seen)
      BY <1>6, <2>2, SingleTop
    <3>2. PICK u : u = Step(q, state, time)
      OBVIOUS
    <3>3. CASE q = TrueResidual
      BY <1>3, <3>1, <3>3, CrewedForms
    <3>4. CASE q # TrueResidual
      <4>1. PICK onset : Awaits(q, onset, s, seen)
        BY <2>2
      <4>2. PICK i \in 1..Len(more) : Speaks(u, i, s, more)
        BY <1>1, <3>2, <3>4, <4>1, AwaitedSpeaks
      <4>3. SingleValue(u)
        BY <2>2, <3>2, StepSingle
      <4>4. /\ IsTrue(u) \/ IsFalse(u) \/ IsPending(u)
            /\ IsPending(u) => Awaits(u.residual, more[i].time, s, more)
            /\ IsFalse(u) =>
                 \A tr \in Extensions(more) :
                     Refuting(Signal(tr, s.sub, TRUE, i), i, Len(more))
        BY <4>2, SpeaksOf
      <4>5. CASE IsTrue(u)
        BY <3>1, <3>2, <4>5 DEF Crewed
      <4>6. CASE IsPending(u)
        <5>1. Single(u.residual)
          BY <4>3, <4>6 DEF SingleValue, IsTrue, IsFalse, IsPending
        <5>2. Crew(u.residual, s, more)
          BY <4>4, <4>6, <5>1, CrewForms DEF CrewLeaf
        <5> QED
          BY <3>1, <3>2, <4>6, <5>2 DEF Crewed
      <4>7. CASE IsFalse(u)
        <5>1. u.next = <<>>
          BY <4>3, <4>7 DEF SingleValue, IsTrue, IsFalse, IsPending
        <5>2. SomeRefuted(s, more)
          BY <4>4, <4>7 DEF SomeRefuted
        <5> QED
          BY <3>1, <3>2, <4>7, <5>1, <5>2 DEF Crewed, CrewNext
      <4> QED
        BY <4>4, <4>5, <4>6, <4>7
    <3> QED
      BY <3>3, <3>4
  <2> QED
    BY <1>4, <2>1, <2>2 DEF CrewLeaf
<1> DEFINE H == {q \in L \cup {} \cup N : Claim(q)}
<1>8. ASSUME NEW q \in N, q.left \in H, q.right \in H PROVE Claim(q)
  <2>1. PICK left, right :
            q = Combined("And", left, right) \/ WaitsFor(q, s, seen, left, right)
    BY <1>4 DEF CrewNode
  <2>2. q.left = left /\ q.right = right
    <3>1. q = Combined("And", left, right)
          \/ \E onset : q = AndAlways(f, end, onset, left, right)
      BY ONLY <1>6, <2>1
    <3> QED
      BY ONLY <3>1 DEF Combined, AndAlways
  <2>3. PICK u, v : u = Step(left, state, time) /\ v = Step(right, state, time)
    OBVIOUS
  <2>4. Crewed(u, s, more) /\ Crewed(v, s, more)
    BY <1>8, <2>2, <2>3
  <2>5. CASE q = Combined("And", left, right)
    <3>1. Step(q, state, time) = EvaluateAnd(u, v)
      BY <1>3, <2>3, <2>5
    <3>2. ~Leads(q, s, seen)
      BY <1>5, <1>6, <2>5
    <3> QED
      BY <2>4, <3>1, <3>2, AndCrewed
  <2>6. CASE WaitsFor(q, s, seen, left, right)
    <3>1. PICK onset : q = AndAlways(f, end, onset, left, right)
      BY ONLY <1>6, <2>6
    <3>2. Step(q, state, time) = EvaluateAndAlways(f, end, onset, time, u, v)
      BY ONLY <1>3, <2>3, <3>1
    <3>3. Led(EvaluateAndAlways(f, end, onset, time, u, v), s, more)
      BY <2>4, AndAlwaysLed
    <3> QED
      BY <3>2, <3>3, CrewedForms
  <2> QED
    BY <2>1, <2>5, <2>6
<1>9. H \in SUBSET (L \cup {} \cup N) /\ Closed(H, L, {}, N)
  BY <1>7, <1>8 DEF Closed
<1>10. r \in H
  <2> HIDE DEF H
  <2> QED
    BY <1>4, <1>9 DEF Spans
<1> QED
  BY <1>10 DEF Manned

(***************************************************************************)
(* The invariant of such an Always: it is settled or left to a crew, and a *)
(* violation reported now is one of its subformula at a position that the  *)
(* last state has refuted, within the Always.                              *)
(***************************************************************************)
Repeating(property, s, list, seen) ==
    s.op = "Always" /\ FailsOnce(Formula(s.sub, TRUE)) =>
        /\ IF Len(seen) = 0 THEN Unmet(property, s)
           ELSE \/ IsSettled(property)
                \/ IsStepping(property) /\ Manned(property.residual, s, seen)
        /\ ListedAt(list, Len(seen)) => Still(s, seen) /\ SomeRefuted(s, seen)
RepeatInv ==
    \A n \in Names :
        Repeating(properties[n], specification[n], reports[n], trace)

\* The value of the Always in the next state.
LEMMA ValueLed ==
    ASSUME Recursive, Measured,
           NEW seen \in Traces, NEW state \in States, NEW time \in Nat,
           NEW entry, entry.time = time, entry.state = state,
           NEW more, OneMore(seen, entry, more),
           NEW s \in Syntaxes, s.op = "Always", SameEnd(s, seen, more, time),
           FailsOnce(Formula(s.sub, TRUE)),
           NEW property, ~IsSettled(property),
           NEW list, Repeating(property, s, list, seen),
           NEW v, v = ValueOf(property, state, time)
    PROVE  /\ Past(EndFor(s, more), time) => IsTrue(v)
           /\ ~Past(EndFor(s, more), time) => Led(v, s, more)
<1> DEFINE f == Formula(s.sub, TRUE)
           w == ValueIn(s.sub, TRUE, state, time)
<1>1. ResidualRecursion /\ SyntaxRecursion /\ s.sub \in Syntaxes
  BY SyntaxForms DEF Recursive
<1>2. PICK end : end = EndFor(s, more)
  OBVIOUS
<1>3. CASE Len(seen) = 0
  <2>1. Unmet(property, s) /\ end = EndOf(s.bound, time)
    BY <1>2, <1>3 DEF Repeating, SameEnd
  <2>2. v = ValueIn(s, TRUE, state, time)
    BY <2>1, StatesOfProperties DEF Unmet, ValueOf, ValueIn
  <2>3. PICK yes \in BOOLEAN : yes = TRUE
    OBVIOUS
  <2>4. Universal(s, yes) /\ Formula(s.sub, yes) \in Formulas
    <3>1. Universal(s, yes)
      BY <2>3 DEF Universal
    <3>2. Formula(s.sub, yes) \in Formulas
      BY <1>1 DEF Formulas
    <3> QED
      BY <3>1, <3>2
  <2>5. ValueIn(s, yes, state, time)
            = AlwaysValue(Formula(s.sub, yes), EndOf(s.bound, time), time,
                          ValueIn(s.sub, yes, state, time))
    BY <1>1, <2>4, ValueOfForms
  <2>6. v = AlwaysValue(f, end, time, w)
    BY <2>1, <2>2, <2>3, <2>5
  <2>7. Speaks(w, Len(more), s, more)
    BY <1>1, FirstSpeaks
  <2>8. SingleValue(w)
    BY <1>1, <2>3, <2>4, EvaluateSingle DEF ValueIn
  <2>9. Len(more) \in 1..Len(more) /\ time = more[Len(more)].time
    BY DEF OneMore
  <2>10. IsTrue(TrueValue)
    BY DEF IsTrue, TrueValue
  <2>11. Past(end, time) => IsTrue(v)
    BY <2>6, <2>10 DEF AlwaysValue
  <2> HIDE DEF w
  <2>12. ~Past(end, time) => Led(v, s, more)
    BY <1>2, <2>6, <2>7, <2>8, <2>9, AlwaysLed
  <2> QED
    BY <1>2, <2>11, <2>12
<1>4. CASE Len(seen) # 0
  <2>1. end = EndFor(s, seen)
    BY <1>2, <1>4 DEF SameEnd
  <2>2. IsStepping(property) /\ Manned(property.residual, s, seen)
    BY <1>4 DEF Repeating
  <2>3. PICK r : r = property.residual
    OBVIOUS
  <2>4. v = Step(r, state, time)
    BY <2>2, <2>3 DEF IsStepping, ValueOf
  <2>5. FailsOnce(f)
    OBVIOUS
  <2> HIDE DEF f
  <2>6. ~Past(end, time) => Led(v, s, more)
    BY <1>2, <2>1, <2>2, <2>3, <2>4, <2>5, CrewStep DEF f
  <2>7. ASSUME Past(end, time) PROVE IsTrue(v)
    <3>1. /\ \A g, e : Step(DerivedAlways(g, e), state, time)
                           = AlwaysValue(g, e, time, Evaluate(g, state, time))
          /\ \A g, e, onset, left, right :
                Step(AndAlways(g, e, onset, left, right), state, time)
                    = EvaluateAndAlways(g, e, onset, time, Step(left, state, time),
                                        Step(right, state, time))
      BY <1>1, StepOfForms
    <3>2. \/ r = DerivedAlways(f, end)
          \/ \E onset, left, right : r = AndAlways(f, end, onset, left, right)
      BY <2>1, <2>2, <2>3, Zenon DEF Manned, Leads, WaitsFor, Remaining, f
    <3>3. v = TrueValue
      BY ONLY <2>4, <2>7, <3>1, <3>2 DEF AlwaysValue, EvaluateAndAlways
    <3> QED
      BY <3>3 DEF IsTrue, TrueValue
  <2> QED
    BY <1>2, <2>6, <2>7
<1> QED
  BY <1>3, <1>4

LEMMA ListedNow ==
    ASSUME NEW list, NEW S, list \in Seq(S), NEW v, NEW at, at \in Nat,
           \A k \in DOMAIN list : list[k].at < at
    PROVE  ListedAt(Reported(list, v, at), at) => IsFalse(v)
<1> SUFFICES ASSUME ~IsFalse(v) PROVE ~ListedAt(Reported(list, v, at), at)
  OBVIOUS
<1>1. Reported(list, v, at) = list
  BY DEF Reported
<1>2. ~ListedAt(list, at)
  <2> SUFFICES ASSUME NEW k \in DOMAIN list, list[k].at = at PROVE FALSE
    BY DEF ListedAt
  <2>1. list[k].at < at
    OBVIOUS
  <2>2. at < at
    BY <2>1
  <2> QED
    BY ONLY <2>2, at \in Nat
<1> QED
  BY <1>1, <1>2

LEMMA RepeatingStep ==
    ASSUME Recursive, Measured,
           NEW seen \in Traces, NEW state \in States, NEW time \in Nat,
           NEW entry, entry = [time |-> time, state |-> state],
           NEW more, more = Append(seen, entry),
           seen # <<>> => seen[Len(seen)].time <= time,
           NEW s \in Syntaxes, NEW property, NEW list, Listed(list, seen),
           Repeating(property, s, list, seen), ~IsSettled(property),
           NEW v, v = ValueOf(property, state, time)
    PROVE  Repeating(AfterValue(v), s, Reported(list, v, Len(more)), more)
<1> DEFINE longer == Reported(list, v, Len(more))
           after == AfterValue(v)
<1> SUFFICES ASSUME s.op = "Always", FailsOnce(Formula(s.sub, TRUE))
             PROVE  Repeating(after, s, longer, more)
  BY DEF Repeating
<1>1. entry \in [time : Nat, state : States] /\ entry.time = time /\ entry.state = state
  OBVIOUS
<1>2. OneMore(seen, entry, more)
  BY <1>1, NextStates
<1>3. SameEnd(s, seen, more, time)
  <2>1. s.bound \in Nat \cup {NoEnd}
    BY SyntaxForms
  <2>2. SameEnd(s, seen, more, entry.time)
    BY <1>1, <2>1, EndStays
  <2> QED
    BY <1>1, <2>2
<1>4. ListedAt(longer, Len(more)) => IsFalse(v)
  <2>1. PICK S : list \in Seq(S)
    BY DEF Listed
  <2>2. PICK at : at = Len(more)
    OBVIOUS
  <2>3. at \in Nat /\ \A k \in DOMAIN list : list[k].at < at
    BY <1>2, <2>2 DEF Listed, OneMore
  <2> QED
    BY <2>1, <2>2, <2>3, ListedNow
<1>5. /\ Past(EndFor(s, more), time) => IsTrue(v)
      /\ ~Past(EndFor(s, more), time) => Led(v, s, more)
  BY <1>1, <1>2, <1>3, ValueLed
<1>6. Len(more) # 0 /\ (Still(s, more) <=> ~Past(EndFor(s, more), time))
  BY <1>2, <1>3 DEF OneMore, SameEnd
<1> HIDE DEF longer
<1>7. CASE IsTrue(v)
  <2>1. after = DefinitelyTrue /\ ~IsFalse(v)
    BY <1>7 DEF AfterValue, IsTrue, IsFalse
  <2>2. IsSettled(after)
    BY <2>1, StatesOfProperties DEF IsSettled
  <2> QED
    BY <1>4, <1>6, <2>1, <2>2 DEF Repeating
<1>8. CASE ~IsTrue(v)
  <2>1. Still(s, more) /\ Led(v, s, more)
    BY <1>5, <1>6, <1>8
  <2>2. IsFalse(v) => SomeRefuted(s, more)
    BY <2>1 DEF Led, IsTrue, IsPending, IsFalse
  <2>3. \E r : after = Stepping(r) /\ Manned(r, s, more)
    <3>1. CASE IsPending(v)
      BY <1>8, <2>1, <3>1 DEF Led, AfterValue, IsTrue, IsPending, IsFalse
    <3>2. CASE IsFalse(v)
      <4>1. PICK r : v.next = <<r>> /\ Manned(r, s, more)
        BY <1>8, <2>1, <3>2 DEF Led, IsTrue, IsPending, IsFalse
      <4>2. after = Stepping(r)
        BY <3>2, <4>1 DEF AfterValue, IsTrue, IsPending, IsFalse
      <4> QED
        BY <4>1, <4>2
    <3> QED
      BY <1>8, <2>1, <3>1, <3>2 DEF Led
  <2>4. IsStepping(after) /\ Manned(after.residual, s, more)
    <3> HIDE DEF after
    <3> QED
      BY <2>3, StatesOfProperties DEF IsStepping
  <2> HIDE DEF after
  <2> QED
    BY <1>4, <1>6, <2>1, <2>2, <2>4 DEF Repeating
<1> QED
  BY <1>7, <1>8

LEMMA RepeatingRest ==
    ASSUME NEW seen \in Traces, NEW entry \in [time : Nat, state : States],
           NEW more, more = Append(seen, entry),
           seen # <<>> => seen[Len(seen)].time <= entry.time,
           NEW s \in Syntaxes, NEW property, NEW list, Listed(list, seen),
           Repeating(property, s, list, seen), IsSettled(property)
    PROVE  Repeating(property, s, list, more)
<1> SUFFICES ASSUME s.op = "Always" PROVE Repeating(property, s, list, more)
  BY DEF Repeating
<1>1. OneMore(seen, entry, more)
  BY NextStates
<1>2. Len(more) # 0 /\ Len(more) \in Nat /\ Len(seen) < Len(more) /\ Len(seen) \in Nat
  BY <1>1 DEF OneMore
<1>3. ~ListedAt(list, Len(more))
  <2> SUFFICES ASSUME NEW k \in DOMAIN list, list[k].at = Len(more) PROVE FALSE
    BY DEF ListedAt
  <2>1. list[k].at \in 1..Len(seen)
    BY DEF Listed
  <2>2. list[k].at <= Len(seen)
    BY <1>2, <2>1
  <2> QED
    BY <1>2, <2>2
<1> QED
  BY <1>2, <1>3 DEF Repeating

LEMMA RepeatStep ==
    ASSUME Recursive, Measured, VerifierInv, RepeatInv,
           NEW state \in States, NEW wait \in Waits, StateChanged(state, wait)
    PROVE  RepeatInv'
<1>1. PICK time \in Nat :
          /\ trace' = Append(trace, [time |-> time, state |-> state])
          /\ trace # <<>> => trace[Len(trace)].time <= time
          /\ specification' = specification
          /\ \A n \in Names :
               /\ ~IsSettled(properties[n]) =>
                    /\ properties'[n]
                           = AfterValue(ValueOf(properties[n], state, time))
                    /\ reports'[n]
                           = Reported(reports[n],
                                      ValueOf(properties[n], state, time),
                                      Len(trace'))
               /\ IsSettled(properties[n]) =>
                    properties'[n] = properties[n] /\ reports'[n] = reports[n]
  BY StepOnEach
<1>2. trace \in Traces /\ specification \in Specifications
  BY DEF VerifierInv
<1>3. Names' = Names
  BY <1>1 DEF Names
<1>4. ASSUME NEW n \in Names
      PROVE  Repeating(properties'[n], specification[n], reports'[n], trace')
  <2>0. /\ specification[n] \in Syntaxes
        /\ Repeating(properties[n], specification[n], reports[n], trace)
        /\ Listed(reports[n], trace)
    BY <1>2, NamedSyntaxes DEF Names, RepeatInv, VerifierInv, Sound
  <2> DEFINE entry == [time |-> time, state |-> state]
  <2>1. CASE ~IsSettled(properties[n])
    <3>1. PICK v : v = ValueOf(properties[n], state, time)
      OBVIOUS
    <3>2. trace' = Append(trace, entry) /\ entry = [time |-> time, state |-> state]
      BY <1>1
    <3> HIDE DEF entry
    <3>3. Repeating(AfterValue(v), specification[n],
                    Reported(reports[n], v, Len(trace')), trace')
      BY <1>1, <1>2, <2>0, <2>1, <3>1, <3>2, RepeatingStep
    <3> QED
      BY <1>1, <2>1, <3>1, <3>3
  <2>2. CASE IsSettled(properties[n])
    <3>1. /\ entry \in [time : Nat, state : States] /\ trace' = Append(trace, entry)
          /\ trace # <<>> => trace[Len(trace)].time <= entry.time
      BY <1>1
    <3> HIDE DEF entry
    <3>2. Repeating(properties[n], specification[n], reports[n], trace')
      BY <1>2, <2>0, <2>2, <3>1, RepeatingRest
    <3> QED
      BY <1>1, <2>2, <3>2
  <2> QED
    BY <2>1, <2>2
<1> QED
  BY <1>1, <1>3, <1>4 DEF RepeatInv

LEMMA RepeatInit ==
    Init => RepeatInv
<1> SUFFICES ASSUME Init, NEW n \in Names
             PROVE  Repeating(properties[n], specification[n], reports[n], trace)
  BY DEF RepeatInv
<1>1. /\ properties[n] = Initial(Nnf(specification[n])) /\ Len(trace) = 0
      /\ reports[n] = <<>>
  BY DEF Init
<1>2. Unmet(properties[n], specification[n])
  BY <1>1 DEF Unmet, Nnf, Formula
<1>3. ~ListedAt(reports[n], Len(trace))
  BY <1>1 DEF ListedAt
<1> QED
  BY <1>1, <1>2, <1>3 DEF Repeating

THEOREM RepeatInvariant ==
    Recursive /\ Measured => (Spec => []RepeatInv)
<1>1. ASSUME Recursive, Measured, VerifierInv, RepeatInv, [Next]_vars PROVE RepeatInv'
  <2>1. CASE Next
    <3>1. PICK state \in States, wait \in Waits : StateChanged(state, wait)
      BY <2>1 DEF Next
    <3> QED
      BY <1>1, <3>1, RepeatStep
  <2>2. CASE UNCHANGED vars
    BY <1>1, <2>2 DEF RepeatInv, vars, Names
  <2> QED
    BY <1>1, <2>1, <2>2
<1>2. Recursive /\ Measured /\ VerifierInv /\ RepeatInv /\ [Next]_vars => RepeatInv'
  BY <1>1
<1>3. SUFFICES ASSUME Recursive, Measured PROVE Spec => []RepeatInv
  OBVIOUS
<1> QED
  BY <1>2, <1>3, RepeatInit, VerifierInvariant, PTL DEF Spec

\* A position that the last state refuted, in the words of the reference.
LEMMA RefutedNow ==
    ASSUME VerifierInv, NEW n \in Names, IsAlways(n),
           Len(trace) # 0, Still(specification[n], trace),
           SomeRefuted(specification[n], trace)
    PROVE  NewlyFailing(specification[n], Now) # {}
<1> DEFINE s == specification[n]
<1>1. trace \in Extensions(trace) /\ trace \in Traces /\ Len(trace) \in Nat
  BY StatesSeen DEF VerifierInv
<1>2. s \in Syntaxes /\ s.op = "Always" /\ s.bound \in Nat \cup {NoEnd}
  BY NamedSyntaxes, SyntaxForms DEF VerifierInv, Names, IsAlways
<1>3. PICK at : at = Len(trace)
  OBVIOUS
<1>4. /\ at \in 1..Len(trace) /\ 1 \in 1..Len(trace) /\ at \in Nat
      /\ ~Past(EndOf(s.bound, trace[1].time), trace[at].time)
  BY <1>1, <1>3 DEF Still, EndFor
<1>5. PICK i \in 1..at : Refuting(Signal(trace, s.sub, TRUE, i), i, at)
  BY <1>1, <1>3 DEF SomeRefuted
<1>6. LastWithin(trace, s, 1, at) = at
  <2>1. /\ LastWithin(trace, s, 1, at) \in 1..at
        /\ Past(EndOf(s.bound, trace[1].time), trace[at].time)
               <=> LastWithin(trace, s, 1, at) < at
    BY <1>1, <1>2, <1>4, LastFacts
  <2> HIDE DEF s
  <2> QED
    BY <1>4, <2>1
<1>7. /\ Verdict(trace, s.sub, i, at) = -1
      /\ i < at => Verdict(trace, s.sub, i, at - 1) # -1
  <2>1. PICK yes \in BOOLEAN : yes = TRUE
    OBVIOUS
  <2>2. at \in i..Len(trace) /\ (i < at => at - 1 \in i..Len(trace))
    BY <1>1, <1>4
  <2>3. PICK sub, g : sub = s.sub /\ g = Signal(trace, sub, yes, i)
    OBVIOUS
  <2>4. \A m \in i..Len(trace) : g.known[m] = Verdict(trace, sub, i, m)
    BY <2>1, <2>3 DEF Signal
  <2>5. Refuting(g, i, at)
    BY <1>5, <2>1, <2>3
  <2> HIDE DEF s
  <2> QED
    BY <2>2, <2>3, <2>4, <2>5 DEF Refuting
<1>8. i \in NewlyFailing(s, at)
  BY <1>5, <1>6, <1>7 DEF NewlyFailing
<1> QED
  BY <1>3, <1>8 DEF Now

(***************************************************************************)
(* An exported Always whose subformula fails in one way only reports       *)
(* nothing twice: every report comes with a state that refutes the         *)
(* subformula at one more position, however many violations came before    *)
(* (evaluate_and_always and the continuations it combines).                *)
(***************************************************************************)
THEOREM NoFailureIsRepeated ==
    Recursive /\ Measured => (Spec => []NoFailureRepeated)
<1>1. ASSUME VerifierInv, RepeatInv PROVE NoFailureRepeated
  <2> SUFFICES ASSUME Now > 0, NEW n \in Names, IsAlways(n), SubFailsOnce(n),
                      ReportedNow(n)
               PROVE  NewlyFailing(specification[n], Now) # {}
    BY DEF NoFailureRepeated
  <2>1. FailsOnce(Formula(specification[n].sub, TRUE))
    BY DEF SubFailsOnce, Nnf, Formula
  <2>2. ListedAt(reports[n], Len(trace))
    BY DEF ReportedNow, ListedAt, Now
  <2>3. Still(specification[n], trace) /\ SomeRefuted(specification[n], trace)
    BY <1>1, <2>1, <2>2 DEF RepeatInv, Repeating, IsAlways
  <2>4. Len(trace) # 0
    BY DEF Now
  <2> QED
    BY <1>1, <2>3, <2>4, RefutedNow
<1>2. VerifierInv /\ RepeatInv => NoFailureRepeated
  BY <1>1
<1>3. SUFFICES ASSUME Recursive, Measured PROVE Spec => []NoFailureRepeated
  OBVIOUS
<1> QED
  BY <1>2, <1>3, VerifierInvariant, RepeatInvariant, PTL

-----------------------------------------------------------------------------
(***************************************************************************)
(* How often a residual watches a formula: not at all, if the formula is   *)
(* none of those it is made of.                                            *)
(***************************************************************************)
LEMMA WatchesCases ==
    ASSUME NEW q, NEW f
    PROVE  /\ q.op \in {"True", "False", "Once", "Eventually"} => WatchesCase(q, f) = 0
           /\ q.op = "Always" =>
                WatchesCase(q, f) = IF q.subformula = f THEN 1 ELSE 0
           /\ q.op \in {"And", "Or", "Implies", "AndAlways", "OrEventually"} =>
                WatchesCase(q, f) = Watches(q.left, f) + Watches(q.right, f)
<1>1. q.op \in {"True", "False", "Once", "Eventually"} => WatchesCase(q, f) = 0
  BY Zenon DEF WatchesCase
<1>2. q.op = "Always" => WatchesCase(q, f) = IF q.subformula = f THEN 1 ELSE 0
  BY Zenon DEF WatchesCase
<1>3. q.op \in {"And", "Or", "Implies", "AndAlways", "OrEventually"} =>
          WatchesCase(q, f) = Watches(q.left, f) + Watches(q.right, f)
  BY Zenon DEF WatchesCase
<1> QED
  BY <1>1, <1>2, <1>3

LEMMA WatchesForms ==
    ASSUME Measured, NEW f
    PROVE  /\ Watches(TrueResidual, f) = 0
           /\ \A violation : Watches(FalseResidual(violation), f) = 0
           /\ \A g : Watches(Once(g), f) = 0
           /\ \A g, end : Watches(DerivedEventually(g, end), f) = 0
           /\ \A g, end : Watches(DerivedAlways(g, end), f) = IF g = f THEN 1 ELSE 0
           /\ \A op \in {"And", "Or", "Implies"} : \A left, right :
                Watches(Combined(op, left, right), f)
                    = Watches(left, f) + Watches(right, f)
           /\ \A g, end, onset, left, right :
                Watches(AndAlways(g, end, onset, left, right), f)
                    = Watches(left, f) + Watches(right, f)
           /\ \A g, end, left, right :
                Watches(OrEventually(g, end, left, right), f)
                    = Watches(left, f) + Watches(right, f)
<1>1. ASSUME NEW q, IsResidual(q) PROVE Watches(q, f) = WatchesCase(q, f)
  BY <1>1 DEF Measured
<1>2. Watches(TrueResidual, f) = 0
  <2>1. IsResidual(TrueResidual) /\ TrueResidual.op = "True"
    BY DEF IsResidual, TrueResidual
  <2> QED
    BY <1>1, <2>1, WatchesCases
<1>3. ASSUME NEW violation PROVE Watches(FalseResidual(violation), f) = 0
  <2>1. /\ IsResidual(FalseResidual(violation))
        /\ FalseResidual(violation).op = "False"
    BY DEF IsResidual, FalseResidual
  <2> QED
    BY <1>1, <2>1, WatchesCases
<1>4. ASSUME NEW g PROVE Watches(Once(g), f) = 0
  <2>1. IsResidual(Once(g)) /\ Once(g).op = "Once"
    BY DEF IsResidual, Once
  <2> QED
    BY <1>1, <2>1, WatchesCases
<1>5. ASSUME NEW g, NEW end PROVE Watches(DerivedEventually(g, end), f) = 0
  <2>1. /\ IsResidual(DerivedEventually(g, end))
        /\ DerivedEventually(g, end).op = "Eventually"
    BY DEF IsResidual, DerivedEventually
  <2> QED
    BY <1>1, <2>1, WatchesCases
<1>6. ASSUME NEW g, NEW end
      PROVE  Watches(DerivedAlways(g, end), f) = IF g = f THEN 1 ELSE 0
  <2>1. /\ IsResidual(DerivedAlways(g, end))
        /\ DerivedAlways(g, end).op = "Always"
        /\ DerivedAlways(g, end).subformula = g
    BY DEF IsResidual, DerivedAlways
  <2> QED
    BY <1>1, <2>1, WatchesCases
<1>7. ASSUME NEW op \in {"And", "Or", "Implies"}, NEW left, NEW right
      PROVE  Watches(Combined(op, left, right), f) = Watches(left, f) + Watches(right, f)
  <2>1. /\ IsResidual(Combined(op, left, right))
        /\ Combined(op, left, right).op \in {"And", "Or", "Implies"}
        /\ Combined(op, left, right).left = left
        /\ Combined(op, left, right).right = right
    BY DEF IsResidual, Combined
  <2> QED
    BY <1>1, <2>1, WatchesCases
<1>8. ASSUME NEW g, NEW end, NEW onset, NEW left, NEW right
      PROVE  Watches(AndAlways(g, end, onset, left, right), f)
                 = Watches(left, f) + Watches(right, f)
  <2>1. PICK q : q = AndAlways(g, end, onset, left, right)
    OBVIOUS
  <2>2. /\ IsResidual(q) /\ q.op = "AndAlways" /\ q.left = left /\ q.right = right
    BY <2>1 DEF IsResidual, AndAlways
  <2> QED
    BY <1>1, <2>1, <2>2, WatchesCases
<1>9. ASSUME NEW g, NEW end, NEW left, NEW right
      PROVE  Watches(OrEventually(g, end, left, right), f)
                 = Watches(left, f) + Watches(right, f)
  <2>1. PICK q : q = OrEventually(g, end, left, right)
    OBVIOUS
  <2>2. /\ IsResidual(q) /\ q.op = "OrEventually" /\ q.left = left /\ q.right = right
    BY <2>1 DEF IsResidual, OrEventually
  <2> QED
    BY <1>1, <2>1, <2>2, WatchesCases
<1> QED
  BY <1>2, <1>3, <1>4, <1>5, <1>6, <1>7, <1>8, <1>9

LEMMA Unwatched ==
    ASSUME Measured, NEW K, NEW f, f \notin K, NEW r, MadeOf(K, r)
    PROVE  Watches(r, f) = 0
<1>1. PICK R, h : IsTree(K, R, h) /\ r \in R
  BY DEF MadeOf
<1> DEFINE T == {m \in Nat : \E q \in R : h[q] = m /\ Watches(q, f) # 0}
<1>2. T = {}
  <2> SUFFICES ASSUME T # {} PROVE FALSE
    OBVIOUS
  <2>1. PICK m \in T : \A k \in T : m <= k
    BY LeastNumber
  <2>2. PICK q \in R : h[q] = m /\ Watches(q, f) # 0
    BY <2>1
  <2>3. ASSUME NEW p \in R, h[p] < h[q] PROVE Watches(p, f) = 0
    <3>1. h[p] \in Nat /\ h[q] \in Nat /\ ~(m <= h[p])
      BY <1>1, <2>2, <2>3 DEF IsTree
    <3> QED
      BY <2>1, <3>1
  <2> HIDE DEF T
  <2>4. CASE IsLeaf(K, q)
    <3>1. Watches(q, f) = 0
      BY <2>4, WatchesForms DEF IsLeaf
    <3> QED
      BY <2>2, <3>1
  <2>5. CASE ~IsLeaf(K, q)
    <3>1. PICK left \in R, right \in R :
              IsNode(K, q, left, right) /\ h[left] < h[q] /\ h[right] < h[q]
      BY <1>1, <2>5 DEF IsTree
    <3>2. Watches(left, f) = 0 /\ Watches(right, f) = 0
      BY <2>3, <3>1
    <3>3. /\ \A op \in {"And", "Or", "Implies"} :
                Watches(Combined(op, left, right), f) = Watches(left, f) + Watches(right, f)
          /\ \A g, end, onset : Watches(AndAlways(g, end, onset, left, right), f)
                                   = Watches(left, f) + Watches(right, f)
          /\ \A g, end : Watches(OrEventually(g, end, left, right), f)
                            = Watches(left, f) + Watches(right, f)
      BY WatchesForms
    <3>4. Watches(q, f) = Watches(left, f) + Watches(right, f)
      BY ONLY <3>1, <3>3 DEF IsNode
    <3> QED
      BY <2>2, <3>2, <3>4
  <2> QED
    BY <2>4, <2>5
<1>3. h[r] \in Nat
  BY <1>1 DEF IsTree
<1> QED
  BY <1>1, <1>2, <1>3

(***************************************************************************)
(* Until its first violation an exported Always watches its subformula     *)
(* once: at the end of the chain, as what the links wait for is made of    *)
(* formulas beneath the subformula.                                        *)
(***************************************************************************)
LEMMA WatchedByChain ==
    ASSUME Measured, NEW s, NEW seen, NEW r, Dated(r, s, seen)
    PROVE  Watches(r, Formula(s.sub, TRUE)) = 1
<1>1. PICK f : f = Formula(s.sub, TRUE)
  OBVIOUS
<1>2. PICK m \in Nat : \E links : Linked(links, m, r, s, seen)
  BY DEF Dated
<1>3. PICK links : Linked(links, m, r, s, seen)
  BY <1>2
<1>4. Watches(links[0], f) = 1
  <2>1. links[0] = DerivedAlways(f, EndFor(s, seen))
    BY <1>1, <1>3 DEF Linked, Remaining
  <2>2. \A end : Watches(DerivedAlways(f, end), f) = 1
    BY WatchesForms
  <2> QED
    BY <2>1, <2>2
<1>5. ASSUME NEW k \in 1..m, Watches(links[k - 1], f) = 1 PROVE Watches(links[k], f) = 1
  <2>1. PICK onset, left :
            /\ links[k] = AndAlways(f, EndFor(s, seen), onset, left, links[k - 1])
            /\ Awaits(left, onset, s, seen)
    BY <1>1, <1>3 DEF Linked, IsLink
  <2>2. Watches(left, f) = 0
    <3>1. CASE left = TrueResidual
      BY <3>1, WatchesForms
    <3>2. CASE left # TrueResidual
      <4>1. MadeOf(Beneath(f), left)
        BY <1>1, <2>1, <3>2 DEF Awaits, BeneathSub
      <4> QED
        BY <4>1, BeneathForms, Unwatched
    <3> QED
      BY <3>1, <3>2
  <2>3. \A g, end, since, l, right :
            Watches(AndAlways(g, end, since, l, right), f)
                = Watches(l, f) + Watches(right, f)
    BY ONLY Measured, WatchesForms
  <2>4. Watches(links[k], f) = Watches(left, f) + Watches(links[k - 1], f)
    BY <2>1, <2>3
  <2> QED
    BY <1>5, <2>2, <2>4
<1> DEFINE T == {k \in Nat : k <= m /\ Watches(links[k], f) # 1}
<1>6. T = {}
  <2> SUFFICES ASSUME T # {} PROVE FALSE
    OBVIOUS
  <2>1. PICK k \in T : \A j \in T : k <= j
    BY LeastNumber
  <2>2. k \in Nat /\ k <= m /\ Watches(links[k], f) # 1
    BY <2>1
  <2>3. k # 0
    BY <1>4, <2>2
  <2>4. k \in 1..m /\ k - 1 \in Nat /\ k - 1 <= m /\ ~(k <= k - 1)
    BY <2>2, <2>3
  <2>5. k - 1 \notin T
    BY <2>1, <2>4
  <2>6. Watches(links[k - 1], f) = 1
    BY <2>4, <2>5
  <2> QED
    BY <1>5, <2>2, <2>4, <2>6
<1>7. Watches(links[m], f) = 1
  BY <1>6
<1> QED
  BY <1>1, <1>3, <1>7 DEF Linked

(***************************************************************************)
(* An exported Always whose subformula fails in one way only, and was      *)
(* decided at every position by the state there: what is left of it is the *)
(* Always itself, after any number of violations.                          *)
(***************************************************************************)
Opened(s, seen) ==
    \E i \in 1..Len(seen) :
        \A tr \in Extensions(seen) : Signal(tr, s.sub, TRUE, i).known[i] = 0
Alone(property, s, seen) ==
    s.op = "Always" /\ FailsOnce(Formula(s.sub, TRUE)) =>
        IF Len(seen) = 0 THEN Unmet(property, s)
        ELSE \/ IsSettled(property) \/ Opened(s, seen)
             \/ IsStepping(property) /\ property.residual = Remaining(s, seen)
AloneInv == \A n \in Names : Alone(properties[n], specification[n], trace)

LEMMA OpenedStays ==
    ASSUME NEW seen, NEW entry, NEW more, OneMore(seen, entry, more),
           NEW s, Opened(s, seen)
    PROVE  Opened(s, more)
<1>1. PICK i \in 1..Len(seen) :
          \A tr \in Extensions(seen) : Signal(tr, s.sub, TRUE, i).known[i] = 0
  BY DEF Opened
<1>2. /\ Len(seen) \in Nat /\ Len(more) = Len(seen) + 1
      /\ \A tr \in Extensions(more) : tr \in Extensions(seen)
  BY DEF OneMore
<1>3. i \in 1..Len(more)
  BY <1>1, <1>2
<1> QED
  BY <1>1, <1>2, <1>3 DEF Opened

\* The value of the Always in a state, from that of its subformula there.
LEMMA AloneValue ==
    ASSUME NEW s, NEW seen, Len(seen) \in 1..Len(seen),
           NEW w, Speaks(w, Len(seen), s, seen), SingleValue(w),
           NEW time, NEW f, f = Formula(s.sub, TRUE), NEW end, end = EndFor(s, seen),
           NEW v, v = AlwaysValue(f, end, time, w)
    PROVE  \/ IsSettled(AfterValue(v)) \/ Opened(s, seen)
           \/ /\ IsStepping(AfterValue(v))
              /\ AfterValue(v).residual = Remaining(s, seen)
<1> DEFINE rest == DerivedAlways(f, end)
           after == AfterValue(v)
<1>1. rest = Remaining(s, seen)
  BY DEF Remaining
<1>2. ASSUME v = Pending(rest) \/ \E violation : v = FalseValue(violation, <<rest>>)
      PROVE  IsStepping(after) /\ after.residual = rest
  <2>1. CASE v = Pending(rest)
    <3>1. ~IsTrue(v) /\ IsPending(v) /\ v.residual = rest
      BY ONLY <2>1 DEF Pending, IsTrue, IsPending
    <3>2. after = Stepping(rest)
      BY ONLY <3>1 DEF AfterValue
    <3> QED
      BY <3>2, StatesOfProperties DEF IsStepping
  <2>2. CASE \E violation : v = FalseValue(violation, <<rest>>)
    <3>1. ~IsTrue(v) /\ ~IsPending(v) /\ v.next = <<rest>>
      BY ONLY <2>2 DEF FalseValue, IsTrue, IsPending
    <3>2. after = Stepping(rest)
      BY ONLY <3>1 DEF AfterValue
    <3> QED
      BY <3>2, StatesOfProperties DEF IsStepping
  <2> QED
    BY <1>2, <2>1, <2>2
<1>3. CASE Past(end, time)
  <2>1. v = TrueValue
    BY <1>3 DEF AlwaysValue
  <2>2. IsTrue(v)
    BY ONLY <2>1 DEF TrueValue, IsTrue
  <2>3. after = DefinitelyTrue
    BY ONLY <2>2 DEF AfterValue
  <2> QED
    BY <2>3, StatesOfProperties DEF IsSettled
<1>4. CASE ~Past(end, time) /\ IsTrue(w)
  <2>1. v = Pending(rest)
    BY <1>4 DEF AlwaysValue
  <2> QED
    BY <1>1, <1>2, <2>1
<1>5. CASE IsPending(w)
  <2>1. \A tr \in Extensions(seen) : Signal(tr, s.sub, TRUE, Len(seen)).known[Len(seen)] = 0
    BY <1>5 DEF Speaks, Says
  <2> QED
    BY <2>1 DEF Opened
<1>6. CASE ~Past(end, time) /\ ~IsTrue(w) /\ ~IsPending(w)
  <2>1. w.next = <<>>
    BY <1>6 DEF SingleValue
  <2>2. v = FalseValue(AlwaysViolation(time, w.violation), <<rest>>)
    BY <1>6, <2>1 DEF AlwaysValue, Continuation
  <2> QED
    BY <1>1, <1>2, <2>2
<1> QED
  BY <1>3, <1>4, <1>5, <1>6

LEMMA AloneStep ==
    ASSUME Recursive, Measured,
           NEW seen \in Traces, NEW state \in States, NEW time \in Nat,
           NEW entry, entry = [time |-> time, state |-> state],
           NEW more, more = Append(seen, entry),
           seen # <<>> => seen[Len(seen)].time <= time,
           NEW s \in Syntaxes, NEW property,
           Alone(property, s, seen), ~IsSettled(property),
           NEW v, v = ValueOf(property, state, time)
    PROVE  Alone(AfterValue(v), s, more)
<1> DEFINE after == AfterValue(v)
           w == ValueIn(s.sub, TRUE, state, time)
<1> SUFFICES ASSUME s.op = "Always", FailsOnce(Formula(s.sub, TRUE))
             PROVE  Alone(after, s, more)
  BY DEF Alone
<1>1. entry \in [time : Nat, state : States] /\ entry.time = time /\ entry.state = state
  OBVIOUS
<1>2. OneMore(seen, entry, more)
  BY <1>1, NextStates
<1>3. SameEnd(s, seen, more, time)
  <2>1. s.bound \in Nat \cup {NoEnd}
    BY SyntaxForms
  <2>2. SameEnd(s, seen, more, entry.time)
    BY <1>1, <2>1, EndStays
  <2> QED
    BY <1>1, <2>2
<1>4. ResidualRecursion /\ SyntaxRecursion /\ s.sub \in Syntaxes
  BY SyntaxForms DEF Recursive
<1>5. Speaks(w, Len(more), s, more)
  BY <1>1, <1>2, <1>4, FirstSpeaks
<1>6. PICK yes \in BOOLEAN : yes = TRUE
  OBVIOUS
<1>7. PICK f : f = Formula(s.sub, yes)
  OBVIOUS
<1>8. f \in Formulas /\ f = Formula(s.sub, TRUE) /\ w = Evaluate(f, state, time)
  <2>1. f \in Formulas
    BY <1>4, <1>7 DEF Formulas
  <2>2. f = Formula(s.sub, TRUE)
    BY <1>6, <1>7
  <2>3. w = Evaluate(f, state, time)
    BY <2>2 DEF ValueIn
  <2> QED
    BY <2>1, <2>2, <2>3
<1>9. SingleValue(w)
  BY <1>4, <1>8, EvaluateSingle
<1>10. PICK end : end = EndFor(s, more)
  OBVIOUS
<1>11. Len(more) \in 1..Len(more) /\ Len(more) # 0
  BY <1>2 DEF OneMore
<1> HIDE DEF w
<1>12. ASSUME v = AlwaysValue(f, end, time, w) PROVE Alone(after, s, more)
  <2>1. \/ IsSettled(after) \/ Opened(s, more)
        \/ IsStepping(after) /\ after.residual = Remaining(s, more)
    BY <1>5, <1>8, <1>9, <1>10, <1>11, <1>12, AloneValue
  <2> QED
    BY <1>11, <2>1 DEF Alone
<1>13. CASE Len(seen) = 0
  <2>1. Unmet(property, s) /\ end = EndOf(s.bound, time)
    BY <1>3, <1>10, <1>13 DEF Alone, SameEnd
  <2>2. v = ValueIn(s, TRUE, state, time)
    BY <2>1, StatesOfProperties DEF Unmet, ValueOf, ValueIn
  <2>3. Universal(s, yes)
    BY <1>6 DEF Universal
  <2>4. ValueIn(s, yes, state, time)
            = AlwaysValue(Formula(s.sub, yes), EndOf(s.bound, time), time,
                          ValueIn(s.sub, yes, state, time))
    BY <1>4, <2>3, ValueOfForms
  <2>5. v = AlwaysValue(f, end, time, w)
    BY <1>6, <1>7, <2>1, <2>2, <2>4 DEF w
  <2> QED
    BY <1>12, <2>5
<1>14. CASE Len(seen) # 0
  <2>1. CASE Opened(s, seen)
    <3>1. Opened(s, more)
      BY <1>2, <2>1, OpenedStays
    <3> QED
      BY <1>11, <3>1 DEF Alone
  <2>2. CASE ~Opened(s, seen)
    <3>1. IsStepping(property) /\ property.residual = Remaining(s, seen)
      BY <1>14, <2>2 DEF Alone
    <3>2. end = EndFor(s, seen)
      BY <1>3, <1>10, <1>14 DEF SameEnd
    <3>3. property.residual = DerivedAlways(f, end)
      BY <1>8, <3>1, <3>2 DEF Remaining
    <3>4. v = Step(DerivedAlways(f, end), state, time)
      BY <3>1, <3>3 DEF IsStepping, ValueOf
    <3>5. v = AlwaysValue(f, end, time, w)
      BY <1>4, <1>8, <3>4, StepOfForms
    <3> QED
      BY <1>12, <3>5
  <2> QED
    BY <2>1, <2>2
<1> QED
  BY <1>13, <1>14

LEMMA AloneRest ==
    ASSUME NEW seen \in Traces, NEW entry \in [time : Nat, state : States],
           NEW more, more = Append(seen, entry),
           seen # <<>> => seen[Len(seen)].time <= entry.time,
           NEW s, NEW property, IsSettled(property)
    PROVE  Alone(property, s, more)
<1>1. OneMore(seen, entry, more)
  BY NextStates
<1> QED
  BY <1>1 DEF Alone, OneMore

LEMMA AloneNext ==
    ASSUME Recursive, Measured, VerifierInv, AloneInv,
           NEW state \in States, NEW wait \in Waits, StateChanged(state, wait)
    PROVE  AloneInv'
<1>1. PICK time \in Nat :
          /\ trace' = Append(trace, [time |-> time, state |-> state])
          /\ trace # <<>> => trace[Len(trace)].time <= time
          /\ specification' = specification
          /\ \A n \in Names :
               /\ ~IsSettled(properties[n]) =>
                    /\ properties'[n]
                           = AfterValue(ValueOf(properties[n], state, time))
                    /\ reports'[n]
                           = Reported(reports[n],
                                      ValueOf(properties[n], state, time),
                                      Len(trace'))
               /\ IsSettled(properties[n]) =>
                    properties'[n] = properties[n] /\ reports'[n] = reports[n]
  BY StepOnEach
<1>2. trace \in Traces /\ specification \in Specifications
  BY DEF VerifierInv
<1>3. Names' = Names
  BY <1>1 DEF Names
<1>4. ASSUME NEW n \in Names PROVE Alone(properties'[n], specification[n], trace')
  <2>0. /\ specification[n] \in Syntaxes
        /\ Alone(properties[n], specification[n], trace)
    BY <1>2, NamedSyntaxes DEF Names, AloneInv
  <2> DEFINE entry == [time |-> time, state |-> state]
  <2>1. CASE ~IsSettled(properties[n])
    <3>1. PICK v : v = ValueOf(properties[n], state, time)
      OBVIOUS
    <3>2. trace' = Append(trace, entry) /\ entry = [time |-> time, state |-> state]
      BY <1>1
    <3> HIDE DEF entry
    <3>3. Alone(AfterValue(v), specification[n], trace')
      BY <1>1, <1>2, <2>0, <2>1, <3>1, <3>2, AloneStep
    <3> QED
      BY <1>1, <2>1, <3>1, <3>3
  <2>2. CASE IsSettled(properties[n])
    <3>1. /\ entry \in [time : Nat, state : States] /\ trace' = Append(trace, entry)
          /\ trace # <<>> => trace[Len(trace)].time <= entry.time
      BY <1>1
    <3> HIDE DEF entry
    <3>2. Alone(properties[n], specification[n], trace')
      BY <1>2, <2>2, <3>1, AloneRest
    <3> QED
      BY <1>1, <2>2, <3>2
  <2> QED
    BY <2>1, <2>2
<1> QED
  BY <1>1, <1>3, <1>4 DEF AloneInv

LEMMA AloneInit ==
    Init => AloneInv
<1> SUFFICES ASSUME Init, NEW n \in Names
             PROVE  Alone(properties[n], specification[n], trace)
  BY DEF AloneInv
<1>1. properties[n] = Initial(Nnf(specification[n])) /\ Len(trace) = 0
  BY DEF Init
<1>2. Unmet(properties[n], specification[n])
  BY <1>1 DEF Unmet, Nnf, Formula
<1> QED
  BY <1>1, <1>2 DEF Alone

(***************************************************************************)
(* What is left of an exported Always that was never open is the Always    *)
(* itself, however often it was violated (evaluate_always).                *)
(***************************************************************************)
THEOREM AloneInvariant ==
    Recursive /\ Measured => (Spec => []AloneInv)
<1>1. ASSUME Recursive, Measured, VerifierInv, AloneInv, [Next]_vars PROVE AloneInv'
  <2>1. CASE Next
    <3>1. PICK state \in States, wait \in Waits : StateChanged(state, wait)
      BY <2>1 DEF Next
    <3> QED
      BY <1>1, <3>1, AloneNext
  <2>2. CASE UNCHANGED vars
    BY <1>1, <2>2 DEF AloneInv, vars, Names
  <2> QED
    BY <1>1, <2>1, <2>2
<1>2. Recursive /\ Measured /\ VerifierInv /\ AloneInv /\ [Next]_vars => AloneInv'
  BY <1>1
<1>3. SUFFICES ASSUME Recursive, Measured PROVE Spec => []AloneInv
  OBVIOUS
<1> QED
  BY <1>2, <1>3, AloneInit, VerifierInvariant, PTL DEF Spec

(***************************************************************************)
(* An exported Always watches its subformula once until its first          *)
(* violation and, if the subformula fails in one way only and was decided  *)
(* at every position by the state there, after any number of them          *)
(* (evaluate_always, evaluate_and_always).                                 *)
(***************************************************************************)
THEOREM AlwaysIsWatchedOnce ==
    Recursive /\ Measured => (Spec => []WatchedOnce)
<1>1. ASSUME Measured, VerifierInv, OnsetInv, AloneInv PROVE WatchedOnce
  <2> SUFFICES ASSUME NEW n \in Names, IsAlways(n), properties[n].is = "Residual",
                      Unreported(n) \/ NeverOpen(n)
               PROVE  Watches(properties[n].residual, Nnf(specification[n].sub)) = 1
    BY DEF WatchedOnce
  <2>1. PICK s, property : s = specification[n] /\ property = properties[n]
    OBVIOUS
  <2>2. Nnf(s.sub) = Formula(s.sub, TRUE) /\ s.op = "Always"
    BY <2>1 DEF Nnf, Formula, IsAlways
  <2>3. IsStepping(property) /\ ~IsSettled(property) /\ ~Unmet(property, s)
    BY <2>1, StatesOfProperties DEF IsStepping, IsSettled, Unmet
  <2>4. ASSUME NEW r, r = Remaining(s, trace) PROVE Watches(r, Formula(s.sub, TRUE)) = 1
    BY <1>1, <2>4, DatedForms, WatchedByChain
  <2>5. CASE Unreported(n)
    <3>1. Dating(property, s, <<>>, trace)
      BY <1>1, <2>1, <2>5 DEF OnsetInv, Unreported
    <3>2. Dated(property.residual, s, trace)
      BY <2>2, <2>3, <3>1 DEF Dating
    <3>3. Watches(property.residual, Formula(s.sub, TRUE)) = 1
      BY <1>1, <3>2, WatchedByChain
    <3> QED
      BY <2>1, <2>2, <3>3
  <2>6. CASE NeverOpen(n)
    <3>1. Alone(property, s, trace) /\ FailsOnce(Formula(s.sub, TRUE))
      BY <1>1, <2>1, <2>2, <2>6 DEF AloneInv, NeverOpen, SubFailsOnce
    <3>2. ~Opened(s, trace)
      <4> SUFFICES ASSUME Opened(s, trace) PROVE FALSE
        OBVIOUS
      <4>1. trace \in Extensions(trace) /\ Len(trace) \in Nat
        BY <1>1, StatesSeen DEF VerifierInv
      <4>2. PICK i \in 1..Len(trace) : Signal(trace, s.sub, TRUE, i).known[i] = 0
        BY <4>1 DEF Opened
      <4>3. i \in i..Len(trace)
        BY <4>1, <4>2
      <4>4. PICK yes \in BOOLEAN : yes = TRUE
        OBVIOUS
      <4>5. PICK g : g = Signal(trace, s.sub, yes, i)
        OBVIOUS
      <4>6. g.known[i] = Verdict(trace, s.sub, i, i)
        BY <4>3, <4>4, <4>5 DEF Signal
      <4>7. Verdict(trace, s.sub, i, i) # 0
        BY <2>1, <2>6 DEF NeverOpen, Now
      <4> QED
        BY <4>2, <4>4, <4>5, <4>6, <4>7
    <3>3. property.residual = Remaining(s, trace)
      BY <2>2, <2>3, <3>1, <3>2 DEF Alone
    <3> QED
      BY <2>1, <2>2, <2>4, <3>3
  <2> QED
    BY <2>5, <2>6
<1>2. Measured /\ VerifierInv /\ OnsetInv /\ AloneInv => WatchedOnce
  BY <1>1
<1>3. SUFFICES ASSUME Recursive, Measured PROVE Spec => []WatchedOnce
  OBVIOUS
<1> QED
  BY <1>2, <1>3, VerifierInvariant, OnsetInvariant, AloneInvariant, PTL
==============================================================================
