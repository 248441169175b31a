----------------------------- MODULE MCVerifier -----------------------------
(***************************************************************************)
(* Small specifications for the verifier.  A state is the set of the       *)
(* observations that hold in it; "p" and "q" return whether theirs does,   *)
(* "later" returns a formula: if p, then q within one unit of time, and    *)
(* "either" q in the next state if p, and else what is false at once.      *)
(***************************************************************************)
EXTENDS Verifier

P == Thunk("p")
Q == Thunk("q")
Later == Thunk("later")
Either == Thunk("either")

MCCall(function, state) ==
    IF function = "later"
    THEN IF "p" \in state THEN Eventually(Q, 1) ELSE Pure(TRUE)
    ELSE IF function = "either"
    THEN IF "p" \in state THEN Next1(Q) ELSE Pure(FALSE)
    ELSE Pure(function \in state)

Temporal(subs, bounds) ==
    {Next1(f) : f \in subs}
        \cup {Always(f, b) : f \in subs, b \in bounds}
        \cup {Eventually(f, b) : f \in subs, b \in bounds}
Connected(lefts, rights) ==
    {Binary(op, f, g) : op \in {"And", "Or", "Implies"}, f \in lefts, g \in rights}

Atoms == {P, Q, Later}
Depth1 == Temporal({P, Later}, {NoEnd, 1})
Depth2 == Temporal(Temporal({P}, {NoEnd, 1})
                       \cup Connected({P}, Temporal({Q}, {NoEnd, 1})), {NoEnd, 1})
Mixed == Connected(Temporal({P}, {1}), Temporal({Q}, {1}))

Single(f) == [n \in {"property"} |-> f]
MCStates == SUBSET {"p", "q"}

\* The subformulas of the exported Always whose reports are followed.
Watched == {P, Later, Either} \cup Temporal({P}, {NoEnd, 1}) \cup {Eventually(P, 2)}
               \cup Connected({P}, Temporal({Q}, {NoEnd, 1}))

\* The equivalences of ltl_equivalences.rs, on a few subformulas.
Pair(f, g) == [n \in {"left", "right"} |-> IF n = "left" THEN f ELSE g]
Subs == {P, Eventually(P, 1), Always(P, 1), Next1(P)}
Equivalences ==
    UNION {
        {Pair(Next1(Binary(op, f, g)), Binary(op, Next1(f), Next1(g))) :
            op \in {"And", "Or"}, f \in Subs, g \in {Q, Eventually(Q, NoEnd)}},
        {Pair(Always(Binary("And", f, g), b),
              Binary("And", Always(f, b), Always(g, b))) :
            f \in Subs, g \in {Q, Eventually(Q, 1)}, b \in {NoEnd, 1}},
        {Pair(Eventually(Binary("Or", f, g), b),
              Binary("Or", Eventually(f, b), Eventually(g, b))) :
            f \in Subs, g \in {Q, Always(Q, 1)}, b \in {NoEnd, 1}},
        {Pair(Next1(Not(f)), Not(Next1(f))) : f \in Subs},
        {Pair(Always(Not(f), b), Not(Eventually(f, b))) :
            f \in Subs, b \in {NoEnd, 1}},
        {Pair(Always(f, NoEnd), Always(Always(f, NoEnd), NoEnd)) : f \in Subs},
        {Pair(Eventually(f, NoEnd), Eventually(Eventually(f, NoEnd), NoEnd)) :
            f \in Subs}}

\* Two properties that settle at different times.
Exports == {[n \in {"first", "second"} |-> IF n = "first" THEN f ELSE g] :
                f \in {P, Always(P, 1)}, g \in {Eventually(Q, 1), Always(Q, NoEnd)}}

MCSpecifications ==
    {Single(f) : f \in Atoms \cup Depth1 \cup Depth2 \cup Mixed}
        \cup {Single(Not(f)) : f \in Depth1 \cup Mixed}
        \cup {Single(Always(f, b)) : f \in Watched, b \in {NoEnd, 3}}
        \cup Equivalences \cup Exports

RECURSIVE WithParts(_)
WithParts(s) == {s} \cup UNION {WithParts(part) : part \in Parts(s)}

RECURSIVE Height(_)
Height(s) == 1 + Max({0} \cup {Height(part) : part \in Parts(s)})

MCSyntaxes ==
    UNION {UNION {WithParts(exports[n]) : n \in DOMAIN exports} :
              exports \in MCSpecifications}
=============================================================================
