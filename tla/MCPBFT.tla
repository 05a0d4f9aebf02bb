------------------------------- MODULE MCPBFT -------------------------------
(* Model-checking definitions for PBFT: schedules that reach many views, and *)
(* the properties that only TLC checks.                                      *)
EXTENDS PBFT

\* A schedule. The nodes that are not slow empty their channels before anything else
\* happens, the lowest number first. With inOrder all messages are taken in the order
\* in which they were sent, and slow nodes may fall behind by any number of them;
\* without it slow nodes take the messages of different senders in any order. The
\* client submits at most the given number of batches, and timers expire at most that
\* often.
Lags(slow, batches, expiries) ==
    [inOrder |-> TRUE, slow |-> slow, batches |-> batches, expiries |-> expiries]

Reorders(slow, batches, expiries) ==
    [inOrder |-> FALSE, slow |-> slow, batches |-> batches, expiries |-> expiries]

CONSTANT Schedules  \* the schedules of a run

\* A replica that reorders up to a checkpoint; two of them in the first round; a
\* replica that lags across a checkpoint; and view changes at any time
Everyday ==
    {Reorders({3}, 1, 0), Reorders({2, 3}, 0, 0), Lags({3}, 2, 0), Lags({}, 2, 3)}

\* The leader of view 1 lags during a view change
LaggingLeader == {Lags({1}, 1, 3)}

ViewChanges == {Lags({}, 2, 3)}

\* A replica that reorders, the last of four or of five nodes
ReorderingReplica == {Reorders({N - 1}, 1, 0)}

Requests == {Lags({}, 5, 0)}

VARIABLES
    sched,  \* the schedule, chosen at the start
    order   \* the senders of all messages, in the order of sending

mcVars == <<vars, sched, order>>

Mail(r) == {s \in Server : rcvd[r][s] < Len(sent[s])}

Busy == {r \in Server \ sched.slow : Mail(r) # {} /\ ~panicked[r]}

\* The sender of the message r takes next when it takes them in the order of sending
NextSender(r) == order[FoldFunction(+, 1, rcvd[r])]

Sender == CHOOSE s \in Server : sent'[s] # sent[s]

\* Steps other than those of the message loops. The batches of the client are
\* interchangeable, so it submits any one of them.
Others ==
    \/ \E r \in Server : /\ pool # {} /\ Cardinality(ClientCmds \ pool) < sched.batches
                         /\ GenNewReq(r, CHOOSE c \in pool : TRUE)
    \/ \E r \in Server : HandleReq(r)
    \/ \E r \in Server : ProposeRequest(r)
    \/ \E r \in Server : PreprepareAfterReply(r)
    \/ \E r \in Server : timeouts < sched.expiries /\ StartViewChange(r)

ScheduledNext ==
    /\ \/ /\ Busy # {}
          /\ LET r == Min(Busy)
             IN  Receive(r, IF sched.inOrder THEN NextSender(r) ELSE Min(Mail(r)))
       \/ /\ Busy = {}
          /\ \E r \in sched.slow : \E s \in Mail(r) :
                 (sched.inOrder => s = NextSender(r)) /\ Receive(r, s)
       \/ Busy = {} /\ Others
    /\ order' = IF sched.inOrder /\ sent' # sent THEN Append(order, Sender) ELSE order
    /\ UNCHANGED sched

MCInit == Init /\ sched \in Schedules /\ order = <<>>

Scheduled == MCInit /\ [][ScheduledNext]_mcVars

\* Every goroutine of a running server keeps going, and a timer that is left alone
\* with nothing else to happen expires.
FairScheduled == Scheduled /\ WF_mcVars(ScheduledNext)

\* The round of GenFirstRound gives every node the genesis block, in whatever order
\* the messages reach the slow nodes, also when they overtake the pre-prepare: if no
\* timer expires, the system comes to rest with it only.
GenesisDecided ==
    Quiescent /\ timeouts = 0 =>
        \A r \in Server : 0 \in DOMAIN store[r] /\ store[r][0].cmd = Genesis

\* Server.HandleReq: "a commit must be made to maintain the viability of the system
\* when a commit request message is received". A request that HandleReq has taken
\* up is proposed or dropped, it does not hang.
RequestHandled ==
    \A r \in Server : reqPc[r] = "locking" ~> reqPc[r] = "idle"
=============================================================================
