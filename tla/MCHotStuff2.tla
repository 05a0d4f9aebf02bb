----------------------------- MODULE MCHotStuff2 -----------------------------
(* Model-checking definitions for HotStuff2: schedules that reach many views, *)
(* the fairness of a system with a stopped node, and the properties that only *)
(* TLC checks.                                                                *)
EXTENDS HotStuff2

\* A schedule. The nodes that are not slow, and all nodes below view from, empty their
\* channels before anything else happens, the lowest number first. With inOrder all
\* messages are taken in the order in which they were sent, and slow nodes may fall
\* behind by any number of them; without it slow nodes take the messages of different
\* senders in any order. The client submits at most the given number of batches, and
\* the view timers of the hasty nodes expire at most the given number of times.
Lags(slow, from, batches, hasty, expiries) ==
    [inOrder |-> TRUE, slow |-> slow, from |-> from, batches |-> batches,
     hasty |-> hasty, expiries |-> expiries]

Reorders(slow, from, batches, hasty, expiries) ==
    [Lags(slow, from, batches, hasty, expiries) EXCEPT !.inOrder = FALSE]

CONSTANT Schedules  \* the schedules of a run

\* One and two replicas that lag; two nodes, the next leader among them, that reorder in the
\* first round; and view changes while a node reorders
Everyday ==
    {Lags({3}, 0, 2, {}, 0), Lags({2, 3}, 0, 1, {}, 0), Reorders({1, 3}, 0, 0, {}, 0),
     Reorders({2}, 1, 2, {0, 1, 3}, 3)}

ReorderingReplica == {Reorders({3}, 0, 1, {}, 0)}

PromptNodes == {Reorders({}, 0, 2, {}, 0)}

\* The last node, or the leader of view 2, lags from view 1 on
LaggingReplica == {Lags({3}, 1, 2, Server, 3)}

LaggingLeader == {Lags({2}, 1, 2, Server, 3)}

\* The leader of view 1 has stopped
StoppedLeader == {Lags({1}, 0, 0, Server, 3)}

VARIABLES
    sched,  \* the schedule, chosen at the start
    order   \* sender and number of all messages, in the order of sending

mcVars == <<vars, sched, order>>

Mail(r) == {s \in Server : Pending(r, s) # {}}

Busy == {r \in Server : (r \notin sched.slow \/ view[r] < sched.from) /\ Mail(r) # {}}

\* The sender of the message r takes next when it takes them in the order of sending
NextSender(r) ==
    order[Min({k \in DOMAIN order : order[k][2] \in Pending(r, order[k][1])})][1]

Sender == CHOOSE s \in Server : sent'[s] # sent[s]

\* Steps other than those of the message loops. The batches of the client are
\* interchangeable, so it submits any one of them.
Others ==
    \/ \E r \in Server : /\ pool # {} /\ Cardinality(ClientCmds \ pool) < sched.batches
                         /\ GenNewReq(r, CHOOSE c \in pool : TRUE)
    \/ \E r \in Server : HandleReq(r)
    \/ \E r \in sched.hasty : timeouts < sched.expiries /\ StartViewChange(r)
    \/ \E r \in Server : EnterTimerExpires(r)

ScheduledNext ==
    /\ \/ /\ Busy # {}
          /\ LET r == Min(Busy)
             IN  Receive(r, IF sched.inOrder THEN NextSender(r) ELSE Min(Mail(r)))
       \/ /\ Busy = {}
          /\ \E r \in sched.slow : \E s \in Mail(r) :
                 (sched.inOrder => s = NextSender(r)) /\ Receive(r, s)
       \/ Busy = {} /\ Others
    /\ order' = IF sched.inOrder /\ sent' # sent
                THEN Append(order, <<Sender, Len(sent'[Sender])>>) ELSE order
    /\ UNCHANGED sched

MCInit == Init /\ sched \in Schedules /\ order = <<>>

Scheduled == MCInit /\ [][ScheduledNext]_mcVars

\* The round of GenFirstRound ends on every node with the entry of view 1, in
\* whatever order the votes and certificates reach the slow nodes, the leader of
\* view 1 among them, which may get the second votes before the certificate they
\* are for: if no timer expires, the system comes to rest in no other state.
FirstViewEntered == Quiescent /\ timeouts = 0 => \A r \in Server : view[r] >= 1

\* The slow nodes have stopped. The others keep running, and their timers expire.
CrashNext ==
    /\ \E r \in Server \ sched.slow :
           \/ \E s \in Server : Receive(r, s)
           \/ HandleReq(r) \/ StartViewChange(r) \/ EnterTimerExpires(r)
    /\ UNCHANGED <<sched, order>>

CrashSpec ==
    /\ MCInit /\ [][CrashNext]_mcVars
    /\ \A r \in Server :
          /\ \A s \in Server : WF_vars(r \notin sched.slow /\ Receive(r, s))
          /\ WF_vars(r \notin sched.slow /\ HandleReq(r))
          /\ WF_vars(r \notin sched.slow /\ StartViewChange(r))
          /\ WF_vars(r \notin sched.slow /\ EnterTimerExpires(r))

\* README: n = 3f+1 nodes tolerate f faulty ones, so the others leave view 0 when
\* one replica has stopped.
EnteredWithoutSlow == <>(\A r \in Server \ sched.slow : view[r] >= 1)
=============================================================================
