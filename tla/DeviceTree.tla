----------------------------- MODULE DeviceTree -----------------------------
(***************************************************************************)
(* What editing a device tree means: one empty node is added below one     *)
(* that is there, or one property of one node is set, and nothing else     *)
(* changes.                                                                *)
(***************************************************************************)
EXTENDS Integers, Sequences

VARIABLE tree   \* properties of every node, by the names on the way to it

EmptyNode == [name \in {} |-> name]

Parent(p) == SubSeq(p, 1, Len(p) - 1)

\* Every node but the root is below a node.
Init ==
  /\ <<>> \in DOMAIN tree
  /\ \A p \in DOMAIN tree : p # <<>> => Parent(p) \in DOMAIN tree

AddNode(p) ==
  /\ p # <<>> /\ p \notin DOMAIN tree
  /\ Parent(p) \in DOMAIN tree
  /\ tree' = [q \in DOMAIN tree \cup {p} |-> IF q = p THEN EmptyNode ELSE tree[q]]

SetProperty(p, name, value) ==
  /\ p \in DOMAIN tree
  /\ tree' = [tree EXCEPT ![p] = [n \in DOMAIN @ \cup {name} |->
                                    IF n = name THEN value ELSE @[n]]]

Next ==
  \/ \E p \in DOMAIN tree' : AddNode(p)
  \/ \E p \in DOMAIN tree \cap DOMAIN tree' :
       \E name \in DOMAIN tree'[p] : SetProperty(p, name, tree'[p][name])

Spec == Init /\ [][Next]_tree
=============================================================================
