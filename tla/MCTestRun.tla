----------------------------- MODULE MCTestRun -----------------------------
(* A test with the trees of module ActionTree: small trees with every shape   *)
(* that pruning and picking tell apart.                                       *)
EXTENDS TestRun, ActionTree

Click == Action("Click", 0)
Typing == Action("TypeText", 100)
Backspace == Action("PressKey", 256)          \* no such key code

MCUrls == {[host |-> "origin", port |-> "8080"], [host |-> "other", port |-> "no"]}
MCOrigin == [host |-> "origin", port |-> "8080"]

Even(trees) == Branch([i \in DOMAIN trees |-> <<1, trees[i]>>])

MCGenerated ==
    {Even(<<Even(<<Leaf(Click), Leaf(Back)>>), Even(<<>>)>>),
     Even(<<Branch(<<<<2, Leaf(Typing)>>, <<0, Leaf(Back)>>>>)>>),
     Even(<<Even(<<Leaf(Click)>>), Even(<<Even(<<Leaf(Typing)>>)>>)>>),
     Even(<<Leaf(Back), Leaf(Backspace)>>)}

RECURSIVE HasZero(_)
HasZero(t) ==
    /\ ~IsLeaf(t)
    /\ \E i \in DOMAIN t.branches :
        Weight(t.branches[i]) = 0 \/ HasZero(Subtree(t.branches[i]))
=============================================================================
