--------------------------- MODULE MCBasicHotStuff ---------------------------
(* Model-checking definitions for BasicHotStuff: schedules that reach many   *)
(* views, the fairness of a system with a stopped node, and the properties   *)
(* that only TLC checks.                                                     *)
EXTENDS BasicHotStuff, TLC

CONSTANT Slow   \* the node that Prompt leaves alone, or that has stopped

Symmetry == Permutations(ClientCmds)

HasMail(r) == \E s \in Server : Pending(r, s) # {}

Quiet == \A q \in Server \ {Slow} : ~HasMail(q)

\* Action constraint: message delays are short against the timers of all nodes
\* but Slow. The others empty their channels, the lowest number first; when they
\* are quiet, Slow takes a message or times out. The other timers expire in turn
\* when no message is left.
Prompt ==
    /\ rcvd'[Slow] # rcvd[Slow] => Quiet
    /\ \A r \in Server \ {Slow} : rcvd'[r] # rcvd[r] =>
          \A q \in Server \ {Slow} : q < r => ~HasMail(q)
    /\ timeouts' # timeouts => Quiet
    /\ \A r \in Server \ {Slow} : timeouts' # timeouts /\ view'[r] # view[r] =>
          /\ ~HasMail(Slow)
          /\ \A q \in Server : view[r] < view[q] \/ (view[r] = view[q] /\ r <= q)

----------------------------------------------------------------------------

\* Server.HandleReq: "a commit must be made ... when a commit request message is
\* received", so a batch the server holds still has its flag.
PendingRequestFlagged == \A r \in Server : requests[r] # NoCmd => reqFlag[r]

\* StartViewChange: the timer is there "to ensure to enter the new view": when
\* all nodes have moved to view v and its leader has consumed their new-view
\* messages, it has a quorum of them.
NewViewEntered ==
    \A v \in 1 .. MaxView :
        LET l == Leader(v) IN
        /\ \A r \in Server : /\ view[r] = v /\ phase[r] = "NEW_VIEW"
                             /\ Pending(l, r) = {}
        => Cardinality(newViewMsgs[l]) >= QuorumSize

\* Every node but Slow, which has stopped, keeps running and its timer expires
\* when it is left alone.
CrashFairness ==
    \A r \in Server \ {Slow} :
        /\ \A s \in Server : WF_vars(Receive(r, s))
        /\ WF_vars(HandleReq(r))
        /\ WF_vars(StartViewChange(r))

\* Slow never takes a step
Stopped ==
    /\ rcvd'[Slow] = rcvd[Slow]
    /\ view'[Slow] = view[Slow]

CrashSpec == Init /\ [][Next /\ Stopped]_vars /\ CrashFairness

\* README: n = 3f+1 nodes tolerate f faulty ones, so the genesis block is decided
\* by the others when one replica has stopped.
DecidedWithoutSlow ==
    <>(\A r \in Server \ {Slow} : DOMAIN store[r] # {})
=============================================================================
