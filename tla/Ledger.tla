------------------------------- MODULE Ledger -------------------------------
(***************************************************************************)
(* What the consensus cores promise their users: blocks are proposed, and  *)
(* every node appends proposed blocks to its ledger so that at any time    *)
(* the ledger of a node is a prefix of that of any other, each block names *)
(* the hash of the one before it, and nothing is ever taken back.          *)
(***************************************************************************)
EXTENDS Integers, Sequences, SequencesExt

CONSTANTS
    Server,   \* the nodes
    FirstPre  \* the PreBlkHash of the first block

VARIABLES
    proposed,  \* blocks that a leader has proposed
    ledger     \* ledger[r]: the blocks r has stored, in order

vars == <<proposed, ledger>>

\* One byte each of the view, the height and the time of a block go into its hash
Hash(b) == [view |-> b.view % 256, height |-> b.height % 256, time |-> b.time % 256,
            cmd |-> b.cmd]

\* Heights count from 0 and every block carries the hash of its predecessor
IsChain(l) ==
    \A i \in DOMAIN l :
        /\ l[i].height = i - 1
        /\ l[i].pre = IF i = 1 THEN FirstPre ELSE Hash(l[i - 1])

Comparable(l, k) == IsPrefix(l, k) \/ IsPrefix(k, l)

Init ==
    /\ proposed = {}
    /\ ledger = [r \in Server |-> <<>>]

Propose ==
    /\ proposed \subseteq proposed'
    /\ UNCHANGED ledger

\* r appends one or more blocks
Commit(r) ==
    /\ proposed \subseteq proposed'
    /\ IsPrefix(ledger[r], ledger'[r])
    /\ ToSet(ledger'[r]) \subseteq proposed'
    /\ IsChain(ledger'[r])
    /\ \A s \in Server \ {r} : /\ ledger'[s] = ledger[s]
                               /\ Comparable(ledger'[r], ledger[s])

Next == Propose \/ \E r \in Server : Commit(r)

Spec == Init /\ [][Next]_vars
=============================================================================
