---------------------------- MODULE MCNodeManager ----------------------------
(***************************************************************************)
(* NodeManager for TLC. The free interleaving of a consensus round with a  *)
(* join is out of reach, so the runs schedule it: a slow node takes       *)
(* each message at any time, the others take theirs in a fixed order as    *)
(* soon as they can; commands, goroutines and waiting servers are free.    *)
(* Each schedule is a subset of the behaviours of NodeManager.             *)
(***************************************************************************)
EXTENDS NodeManager

\* A schedule between two rounds: at most the given number of joins, exits of the
\* leavers, and rounds up to view views. Other schedules change some of its fields.
Quiet(j, leavers, views) ==
    [joins     |-> j,
     leavers   |-> leavers,
     views     |-> views,
     slow      |-> {},     \* nodes that may take their messages late
     deaf      |-> {},     \* nodes that take no message of the consensus
     timely    |-> TRUE,   \* State is set before the first answer is there
     lockstep  |-> TRUE,   \* all nodes have read the map before one deletes from it
     calm      |-> TRUE,   \* requests and commands wait until the last ones are done
     spaced    |-> TRUE,   \* a command waits until the last one is done
     firstView |-> 0]      \* no command before r_0 is in this view

CONSTANT Schedules  \* the schedules of a run

\* A join whose messages come at any time; an exit between rounds; a join and the exit
\* of the new node between rounds; and a join in the middle of rounds
Everyday ==
    {[Quiet(1, {}, 0) EXCEPT !.slow = Node],
     Quiet(0, {3}, 5),
     [Quiet(1, {4}, 5) EXCEPT !.firstView = 1],
     [Quiet(1, {}, 1) EXCEPT !.slow = {3}, !.calm = FALSE]}

JoinInRound == {[Quiet(1, {}, 1) EXCEPT !.slow = {3}, !.calm = FALSE]}

JoinTwice == {[Quiet(2, {}, 2) EXCEPT !.firstView = 1]}

JoinWithDeaf ==
    {[Quiet(1, {}, 2) EXCEPT !.slow = {5}, !.deaf = {3}, !.calm = FALSE, !.firstView = 1]}

LeaderLeaves == {Quiet(0, {1}, 2)}

EarlySync == {[Quiet(1, {}, 0) EXCEPT !.slow = Node, !.timely = FALSE]}

SharedMap == {[Quiet(0, {3}, 0) EXCEPT !.slow = Node, !.lockstep = FALSE]}

TwoJoins == {[Quiet(2, {}, 0) EXCEPT !.calm = FALSE, !.spaced = FALSE]}

JoinAndLeave == {[Quiet(1, {4}, 0) EXCEPT !.slow = {0, 1}]}

VARIABLE sched  \* the schedule, chosen at the start

mcVars == <<vars, sched>>

\* Whatever goroutines do, an APPLY sent long before a RESTART is first
InOrder(m) ==
    m.type \in {"JOIN_RESTART", "EXIT_RESTART"} =>
        \A n \in net : n.src = m.src /\ n.dst = m.dst =>
                           n.type \notin {"JOIN_APPLY", "EXIT_APPLY"}

InTime(m) == sched.timely /\ m.type \in {"JOIN_SYNC", "EXIT_AGREE"} => m.dst \notin starting

\* What prompt servers take next: messages of the node manager before those of
\* the consensus, and these phase by phase, each in the order of the nodes
FirstOf(S) ==
    CHOOSE m \in S : \A n \in S : m.dst < n.dst \/ (m.dst = n.dst /\ m.src <= n.src)

Phases == <<"PREPARE", "PREPARE_VOTE", "PRE_COMMIT", "PRE_COMMIT_VOTE", "DECIDE", "NEW_VIEW">>

Rank(m) == CHOOSE i \in DOMAIN Phases : Phases[i] = m.type

NoLater(m, n) ==
    \/ Rank(m) < Rank(n)
    \/ Rank(m) = Rank(n) /\ (m.dst < n.dst \/ (m.dst = n.dst /\ m.src <= n.src))

Takes(m) == busy[m.dst] = Idle /\ InOrder(m) /\ InTime(m)

PromptMgmt == {m \in net : m.dst \notin sched.slow /\ Takes(m)}

PromptCons ==
    {Head(link[p[1]][p[2]]) : p \in {q \in Node \X (Node \ (sched.slow \cup sched.deaf)) :
                                        link[q[1]][q[2]] # <<>> /\ busy[q[2]] = Idle}}

Server(d) ==
    \/ \E m \in net : /\ m.dst = d /\ Takes(m)
                      /\ d \notin sched.slow => m = FirstOf(PromptMgmt)
                      /\ Manage(m)
    \/ \E s \in Node :
           /\ d \notin sched.deaf /\ link[s][d] # <<>>
           /\ d \notin sched.slow => /\ PromptMgmt = {}
                               /\ \A n \in PromptCons : NoLater(Head(link[s][d]), n)
           /\ Receive(d, s)
    \/ /\ sched.lockstep => \A m \in net : m.type # "EXIT_APPLY"
       /\ AgreeAndUpdate(d)
    \/ Restart(d)

Commands ==
    \/ joins < sched.joins /\ NewServerJoin
    \/ \E s \in sched.leavers : OriServerExit(s)

ScheduledNext ==
    /\ \/ /\ sched.calm => AtRest
          /\ sched.spaced => Settled
          /\ view[0].num >= sched.firstView
          /\ Commands
       \/ /\ sched.calm => AtRest
          /\ \E s \in Node : view[s].num < sched.views /\ HandleReq(s)
       \/ UpdateSigners
       \/ \E s \in Node : SetStateApply(s) \/ Server(s)
    /\ UNCHANGED sched

MCInit == Init /\ sched \in Schedules

Scheduled == MCInit /\ [][ScheduledNext]_mcVars

\* Every goroutine that can take a step takes one: the loops of the servers,
\* the sleepers, and the goroutines that start a join
Fairness ==
    /\ WF_vars(UpdateSigners)
    /\ \A s \in Node : WF_vars(SetStateApply(s)) /\ WF_vars(Server(s))

FairScheduled == Scheduled /\ Fairness

----------------------------------------------------------------------------

\* Nodes that join or leave between rounds: HandleSync and HandleExit keep all
\* nodes in one view with one leader that is there.
CalmSameView == sched.calm => SameView

\* A node that joins between rounds, right after one that was decided: SyncInfo gives
\* it the height of the others from the block of that round, and all nodes number
\* their next blocks alike, also when it has left again.
CalmSameHeight == sched.calm /\ sched.firstView > 0 => SameHeight

\* When all nodes take their messages promptly, the system comes back from every join
\* and exit between rounds to a leader that waits for a request: FixLeader and
\* InitLeader have given it what GenProposal asks for.
CalmLeaderWaits == sched.calm /\ sched.slow = {} => LeaderWaits
=============================================================================
