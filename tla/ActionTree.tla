----------------------------- MODULE ActionTree -----------------------------
(* The tree of weighted actions a specification generates for a state         *)
(* (lib/bombadil/src/tree.rs) and the conversion of its leaves to browser     *)
(* actions (specification/js.rs).  A tree is a leaf with a value or a branch  *)
(* with a sequence of weights and trees.                                      *)
EXTENDS Integers, Sequences

Leaf(value) == [value |-> value]
Branch(branches) == [branches |-> branches]
IsLeaf(tree) == "value" \in DOMAIN tree
Weight(branch) == branch[1]
Subtree(branch) == branch[2]

NoTree == [none |-> TRUE]

(* Actions: their type and the number that conversion checks, a delay in      *)
(* milliseconds or a key code, 0 for those that have none.                    *)
Action(type, number) == [type |-> type, number |-> number]
Back == Action("Back", 0)

(* JsAction::to_browser_action: the numbers it lets through *)
ToBrowserAction(action) ==
    CASE action.type = "DoubleClick" -> action.number \in 0..1000
      [] action.type = "TypeText" -> action.number >= 0
      [] action.type = "PressKey" -> action.number \in 0..255
      [] OTHER -> TRUE

RECURSIVE Leaves(_)
Leaves(tree) ==
    IF IsLeaf(tree) THEN {tree.value}
    ELSE UNION {Leaves(Subtree(tree.branches[i])) : i \in DOMAIN tree.branches}

(* Tree::try_map with that conversion: one bad leaf fails the whole tree.     *)
(* Valid actions keep what they had.                                          *)
TryMap(tree) ==
    IF \A action \in Leaves(tree) : ToBrowserAction(action) THEN tree ELSE NoTree

(* Tree::filter leaves an empty branch in the place of a leaf it drops *)
RECURSIVE Filter(_, _)
Filter(tree, kept) ==
    IF ~IsLeaf(tree)
    THEN Branch([i \in DOMAIN tree.branches |->
                    <<Weight(tree.branches[i]),
                      Filter(Subtree(tree.branches[i]), kept)>>])
    ELSE IF tree.value \in kept THEN tree
    ELSE Branch(<<>>)

OnlyBack(tree) == Filter(tree, {Back})

(* prune_to_size: the tree it leaves behind, and the size it returns *)
Size(tree) == IF IsLeaf(tree) THEN 1 ELSE Len(tree.branches)

RECURSIVE Pruned(_)
Pruned(tree) ==
    IF IsLeaf(tree) THEN tree
    ELSE LET all == [i \in DOMAIN tree.branches |->
                        <<Weight(tree.branches[i]),
                          Pruned(Subtree(tree.branches[i]))>>]
         IN Branch(SelectSeq(all, LAMBDA b : Size(Subtree(b)) > 0))

Prune(tree) == IF Size(Pruned(tree)) = 0 THEN NoTree ELSE Pruned(tree)

(* Tree::pick: a number below the sum of the weights selects the branch whose *)
(* share it falls into, and the choice goes on below it.  The result is the   *)
(* set of leaves some sequence of numbers leads to, and NoTree for the error  *)
(* of a branch without weight.                                                *)
WeightUpTo(branches, i) ==
    LET sum[j \in 0..i] ==
            IF j = 0 THEN 0 ELSE sum[j - 1] + Weight(branches[j])
    IN sum[i]

Selected(branches, choice) ==
    CHOOSE i \in DOMAIN branches :
        WeightUpTo(branches, i - 1) <= choice /\ choice < WeightUpTo(branches, i)

RECURSIVE Picks(_)
Picks(tree) ==
    IF IsLeaf(tree) THEN {tree.value}
    ELSE LET total == WeightUpTo(tree.branches, Len(tree.branches))
             selected == {Selected(tree.branches, choice) :
                             choice \in 0..(total - 1)}
         IN IF total = 0 THEN {NoTree}
            ELSE UNION {Picks(Subtree(tree.branches[i])) : i \in selected}
=============================================================================
