------------------------------- MODULE EdgeMap -------------------------------
(* The hooks that instrumentation puts into a script (instrumentation/js.rs), *)
(* the index of an edge they compute when they run, on signed integers of     *)
(* IntWidth bits, and the bucket of its count (browser/state.rs).             *)
EXTENDS Integers, Sequences, SequencesExt, Bitwise

CONSTANTS
    IntWidth,         \* bits of an integer (32)
    Mantissa,         \* bits of precision of a number (53)
    MapSize,          \* EDGE_MAP_SIZE
    Hash(_, _)        \* of a source and the number of a block in it

-----------------------------------------------------------------------------
(* Statements, as far as hooks go: what has branches, and sequences of them   *)
If(then, else) == [kind |-> "if", then |-> then, else |-> else]
For(body) == [kind |-> "for", body |-> body]
Switch(cases) == [kind |-> "switch", cases |-> cases]
Block(statements) == [kind |-> "block", statements |-> statements]
Plain == Block(<<>>)

(* exit_if_statement, exit_conditional_expression, exit_for_statement (and in *)
(* and of) and exit_switch_case take their numbers after everything inside.   *)
RECURSIVE HookCount(_)
HooksBefore(parts, i) ==
    LET sum[j \in 0..(i - 1)] ==
            IF j = 0 THEN 0 ELSE sum[j - 1] + HookCount(parts[j])
    IN sum[i - 1]
HookCount(s) ==
    CASE s.kind = "if" -> HookCount(s.then) + HookCount(s.else) + 2
      [] s.kind = "for" -> HookCount(s.body) + 1
      [] s.kind = "switch" ->
            HooksBefore(s.cases, Len(s.cases) + 1) + Len(s.cases)
      [] s.kind = "block" ->
            HooksBefore(s.statements, Len(s.statements) + 1)

(* The hooks a run of the statement can visit, each sequence in the order of  *)
(* execution, when the numbers given out before it are those below first; a   *)
(* loop goes round a number of times out of Rounds.                           *)
Concatenations(A, B) == {a \o b : a \in A, b \in B}

RECURSIVE Visits(_, _, _)
Visits(s, first, Rounds) ==
    CASE s.kind = "if" ->
            LET hook == first + HookCount(s.then) + HookCount(s.else)
            IN Concatenations({<<hook>>}, Visits(s.then, first, Rounds))
               \cup Concatenations({<<hook + 1>>},
                        Visits(s.else, first + HookCount(s.then), Rounds))
      [] s.kind = "for" ->
            LET hook == first + HookCount(s.body)
            IN UNION {{FlattenSeq([i \in 1..n |-> <<hook>> \o visit]) :
                           visit \in Visits(s.body, first, Rounds)} :
                      n \in Rounds}
      [] s.kind = "switch" ->
            LET start(i) == first + HooksBefore(s.cases, i) + (i - 1)
                visits(i) == Concatenations(
                    {<<start(i) + HookCount(s.cases[i])>>},
                    Visits(s.cases[i], start(i), Rounds))
                through[j \in DOMAIN s.cases, i \in DOMAIN s.cases] ==
                    IF i = j THEN visits(j)
                    ELSE IF i < j THEN Concatenations(visits(i), through[j, i + 1])
                    ELSE {}
            IN {<<>>} \cup UNION {through[j, i] : i, j \in DOMAIN s.cases}
      [] s.kind = "block" ->
            LET after[i \in 0..Len(s.statements)] ==
                    IF i = 0 THEN {<<>>}
                    ELSE Concatenations(after[i - 1],
                            Visits(s.statements[i],
                                   first + HooksBefore(s.statements, i), Rounds))
            IN after[Len(s.statements)]

(* What these hooks are in a source                                           *)
HooksVisited(source, s, Rounds) ==
    {[i \in DOMAIN visit |-> Hash(source, visit[i])] :
        visit \in Visits(s, 0, Rounds)}

-----------------------------------------------------------------------------
(* edges_current[(id ^ previous) % 65536] += 1; previous = id >> 1            *)
RECURSIVE BitLength(_)
BitLength(n) == IF n = 0 THEN 0 ELSE 1 + BitLength(n \div 2)

(* An id has more bits than a number keeps: its last ones are rounded away    *)
(* (to even, on a tie), in the literal already.                               *)
AsNumber(n) ==
    IF BitLength(n) <= Mantissa THEN n
    ELSE LET unit == 2^(BitLength(n) - Mantissa)
             down == n \div unit
             rest == 2 * (n % unit)
             up == rest > unit \/ (rest = unit /\ down % 2 = 1)
         IN unit * (IF up THEN down + 1 ELSE down)

Unsigned(n) == n % 2^IntWidth
Signed(n) == IF n < 2^(IntWidth - 1) THEN n ELSE n - 2^IntWidth
ToInt(n) == Signed(Unsigned(n))

Remainder(a, n) == IF a >= 0 THEN a % n ELSE -((-a) % n)

EdgeIndex(id, previous) ==
    Remainder(Signed(Unsigned(AsNumber(id)) ^^ Unsigned(previous)), MapSize)
Previous(id) == ToInt(AsNumber(id)) \div 2

-----------------------------------------------------------------------------
(* bucket *)
Bucket(hits) ==
    IF hits <= 3 THEN hits
    ELSE IF BitLength(hits) + 1 < 8 THEN BitLength(hits) + 1 ELSE 8
=============================================================================
