-------------------------- MODULE MCChainedHotStuff --------------------------
(* Model-checking definitions for ChainedHotStuff: schedules that reach many   *)
(* views, and the properties that only TLC checks.                             *)
EXTENDS ChainedHotStuff

\* A schedule. The nodes that are not slow, and all nodes below view from, empty their
\* channels before anything else happens, the lowest number first. With inOrder all
\* messages are taken in the order in which they were sent, and slow nodes may fall
\* behind by any number of them; without it slow nodes take their messages, also those
\* of one sender, in any order. The client submits at most the given number of batches, and
\* the view timers expire at most the given number of times; with together, while one
\* of the prompt nodes is behind another, only its timer expires.
Lags(slow, from, batches, expiries) ==
    [inOrder |-> TRUE, together |-> FALSE, slow |-> slow, from |-> from,
     batches |-> batches, expiries |-> expiries]

Reorders(slow, from, batches, expiries) ==
    [Lags(slow, from, batches, expiries) EXCEPT !.inOrder = FALSE]

LagsTogether(slow, from, batches, expiries) ==
    [Lags(slow, from, batches, expiries) EXCEPT !.together = TRUE]

CONSTANT Schedules  \* the schedules of a run

\* Two leaders that lag until the first block is stored, two replicas that lag, a node
\* that lags while timers expire, and a leader and a replica whose messages overtake
\* each other
Everyday == {Lags({0, 1}, 0, 3, 0), Lags({2, 3}, 0, 4, 0), Lags({3}, 0, 5, 2),
             Reorders({1}, 0, 3, 0), Reorders({3}, 0, 4, 0)}

\* The leader of view 1 lags from view 2 on, and the others change views together
LaggingLeader == {LagsTogether({1}, 2, 4, 7)}

LaggingReplica == {Lags({3}, 0, 4, 2)}

PromptNodes == {Lags({}, 0, 5, 4)}

ReorderingLeader == {Reorders({1}, 0, 1, 0)}

VARIABLES
    sched,  \* the schedule, chosen at the start
    order   \* sender and number of all messages, in the order of sending

mcVars == <<vars, sched, order>>

Mail(r) == {s \in Server : Pending(r, s) # {}}

Prompt == {r \in Server : r \notin sched.slow \/ view[r] < sched.from}

Busy == {r \in Prompt : Mail(r) # {}}

Behind == {r \in Prompt : viewTimer[r] /\ \E s \in Prompt : view[s] > view[r]}

\* Sender and number of the message r takes next when it takes them in the order of
\* sending, and of the first one of the lowest sender
NextInOrder(r) ==
    order[Min({k \in DOMAIN order : order[k][2] \in Pending(r, order[k][1])})]

NextOfLowest(r) == <<Min(Mail(r)), Min(Pending(r, Min(Mail(r))))>>

Sender == CHOOSE s \in Server : sent'[s] # sent[s]

\* Steps other than those of the message loops. The batches of the client are
\* interchangeable, so it submits any one of them.
Others ==
    \/ \E r \in Server : /\ pool # {} /\ Cardinality(ClientCmds \ pool) < sched.batches
                         /\ GenNewReq(r, CHOOSE c \in pool : TRUE)
    \/ \E r \in Server : HandleReq(r)
    \/ \E r \in Server : timeouts < sched.expiries /\ StartViewChange(r)

ScheduledNext ==
    /\ \/ /\ Busy # {}
          /\ LET r    == Min(Busy)
                 next == IF sched.inOrder THEN NextInOrder(r) ELSE NextOfLowest(r)
             IN  Take(r, next[1], next[2])
       \/ /\ Busy = {}
          /\ \E r \in sched.slow : \E s \in Mail(r) : \E i \in Pending(r, s) :
                 (sched.inOrder => <<s, i>> = NextInOrder(r)) /\ Take(r, s, i)
       \/ Busy = {} /\ Others
    /\ sched.together /\ Busy = {} /\ Behind # {} => \E r \in Behind : StartViewChange(r)
    /\ order' = IF sched.inOrder /\ sent' # sent
                THEN order \o [k \in 1 .. Len(sent'[Sender]) - Len(sent[Sender]) |->
                                   <<Sender, Len(sent[Sender]) + k>>]
                ELSE order
    /\ UNCHANGED sched

MCInit == Init /\ sched \in Schedules /\ order = <<>>

Scheduled == MCInit /\ [][ScheduledNext]_mcVars

\* While no timer expires and no message overtakes an earlier one the pipeline runs:
\* whenever the system comes to rest, a leader waits for the next batch, because it has
\* waited for the message of the last leader and so has the certificate, or the nodes
\* have all stored the first block, three proposals after GenFirstRound.
GenesisStored ==
    Quiescent /\ timeouts = 0 /\ sched.inOrder =>
        \/ \E r \in Server : IsLeader(r) /\ IsWaitingReq(r)
                             /\ Cardinality(ClientCmds \ pool) < 3
        \/ \A r \in Server : 0 \in DOMAIN store[r]

\* CHotstuff: LockedQC is "a locked quorum certificate storing the highest QC for
\* which a replica voted commit".
LockNeverFalls == [][\A r \in Server : lockedQC'[r].view >= lockedQC[r].view]_vars

\* CHotstuff: ViewTimer is "the timer responsible for liveness". A leader whose
\* proposal does not get its votes leaves the view when the timer expires.
StalledLeaderTimesOut ==
    Quiescent => \A r \in Server : phase[r] = "HALF_GENERIC" => viewTimer[r]

\* StartViewChange: "set the view timer to ensure to enter the new view correctly for
\* liveness". When all nodes have entered a view, the proposal of its leader is voted
\* for once everything is delivered.
ProposalOfNewViewVoted ==
    Quiescent => \A m \in Said("GENERIC") :
        (\A r \in Server : view[r] = m.view) =>
            Cardinality(Voters(m.view, m.nodes[1])) >= QuorumSize

\* README: all honest nodes have the same data. Nodes that have reached the same view
\* have stored blocks of the same heights.
SameViewSameData ==
    Quiescent => \A r, s \in Server : view[r] = view[s] => DOMAIN store[r] = DOMAIN store[s]

\* CHandleNewView: the leader does "wait for (n − f) new-view messages". When all nodes
\* have entered view 1 and told its leader, the leader has got them and goes on.
NextLeaderWaits == Quiescent /\ (\A r \in Server : view[r] = 1) => phase[1] = "WAITING"
=============================================================================
