------------------------------ MODULE Agreement ------------------------------
(***************************************************************************)
(* What a HotStuff core promises about its tree of nodes: leaders hang     *)
(* nodes with fresh hashes under certified ones, and the nodes that are    *)
(* decided, one after the other, never leave one branch of the tree.       *)
(***************************************************************************)
EXTENDS Integers

CONSTANT Root   \* the parent of a node that extends no other

VARIABLES
    tree,      \* the nodes proposed so far, each with its hash and its parent's
    decided    \* the nodes that can no longer be given up

vars == <<tree, decided>>

Hashes == {n.cur : n \in tree}

\* With a node, H holds all its ancestors in the tree
Closed(H) ==
    \A n \in tree : n.cur \in H /\ n.parent \in Hashes => n.parent \in H

\* a lies on the branch from b to the root: no set closed under parents has b
\* without a
OnBranch(a, b) ==
    \A H \in SUBSET Hashes : b.cur \in H /\ Closed(H) => a.cur \in H

OneBranch == \A a, b \in decided : OnBranch(a, b) \/ OnBranch(b, a)

Init ==
    /\ tree = {}
    /\ decided = {}

\* A leader hangs a node under one of the tree, or under none
Propose ==
    /\ \E n \in tree' :
          /\ n.cur \notin Hashes
          /\ n.parent \in Hashes \cup {Root}
          /\ tree' = tree \cup {n}
    /\ UNCHANGED decided

\* A quorum makes one more node of the tree final
Decide ==
    /\ \E n \in tree \ decided : decided' = decided \cup {n}
    /\ UNCHANGED tree
    /\ OneBranch'

Next == Propose \/ Decide

Spec == Init /\ [][Next]_vars
=============================================================================
