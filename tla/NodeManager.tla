----------------------------- MODULE NodeManager -----------------------------
(***************************************************************************)
(* Joining and leaving a running system: the basic node manager of         *)
(* mps/basic and mps/mgmt, the server handlers that drive it (core/server: *)
(* join.go, exit.go, sync.go, handler.go), the operations of the orderer   *)
(* they call (Stop, IsReady, ResetState, RestartCons, FixLeader, ...), and *)
(* the commands j and e of core/test that start a join or an exit.         *)
(*                                                                         *)
(* Abstractions.                                                           *)
(*  - The consensus is basic HotStuff, reduced to what a join or an exit   *)
(*    reads or disturbs: the View record, the view of PrepareQC, phase,    *)
(*    votes and new-view messages, and of the blocks their heights. The    *)
(*    COMMIT phase, which none of them tells from PRE_COMMIT, is folded    *)
(*    into it. Hashes, signatures, timers and view changes are in          *)
(*    BasicHotStuff: a join takes milliseconds and a view timer five       *)
(*    seconds.                                                             *)
(*  - Nodes are named by their number, and a channel by its reader.        *)
(*  - The loop of a server sends the messages of its consensus one after   *)
(*    the other: link[s][d] is a queue. NODEMGMT messages are sent by      *)
(*    goroutines of their own, so net is a set: they come in any order.    *)
(*  - Mode is set at the head of every handler that reads it and reset at  *)
(*    its end, so it is not kept.                                          *)
(***************************************************************************)
EXTENDS Integers, Sequences, FiniteSets

CONSTANTS
    N,         \* nodes at the start, r_0 .. r_(N-1)
    Leavers,   \* nodes the command e may name
    MaxJoins,  \* bound: commands j
    MaxExits,  \* bound: commands e
    MaxView    \* bound: requests are made in views below this one

ASSUME NAssumption == N \in Nat /\ N > 0

ASSUME BoundAssumption == MaxJoins \in Nat /\ MaxExits \in Nat /\ MaxView \in Nat

Node == 0 .. N + MaxJoins - 1

None == -1

\* The one NodesChannel map of all nodes of GenServers
Shared == -1

VARIABLES
    servers,     \* simulateServers
    joins,       \* commands j so far
    exited,      \* nodes named by a command e
    signersDue,  \* UpdateSigners goroutines that still sleep
    handle,      \* Orderer.HandleState, and ReqState: they change together
    view,        \* View: num, leader, nodes
    qc,          \* PrepareQC.ViewNumber
    phase,       \* CurPhase
    curProposal, \* CurProposal is not empty
    ignoreCheckQC,
    newViews,    \* len(NewViewMsgs)
    votes,       \* senders of PrepareVotes or PreCommitVotes
    height,      \* BlkStore.Height
    blk,         \* height of BlkStore.CurProposalBlk, 0 when it is empty
    signNum,     \* ThresholdSigner.SignNum
    table,       \* keys of NodesTable
    mapOf,       \* the map NodesChannel refers to
    chans,       \* the maps: reader of the channel a name maps to, or None
    newNode,     \* NewNode: Name and Chan
    state,       \* NodeManager.State
    syncMsgs,    \* SyncMsgs
    starting,    \* the goroutine of Start..Join or Start..Exit has yet to set State
    busy,        \* what the server loop is in the middle of
    link,        \* link[s][d]: consensus messages from s on the way to d
    net          \* node manager messages on their way

driverVars == <<servers, joins, exited, signersDue>>
blkVars    == <<height, blk>>
consVars   == <<view, qc, phase, curProposal, ignoreCheckQC, newViews, votes, blkVars>>
nmVars     == <<table, mapOf, chans, newNode, state, syncMsgs, starting>>
vars == <<driverVars, handle, consVars, signNum, nmVars, busy, link, net>>

----------------------------------------------------------------------------
(* Data *)

View == [num : Nat, leader : Node \cup {None}, nodes : Nat]

ConsMsg == {"PREPARE", "PREPARE_VOTE", "PRE_COMMIT", "PRE_COMMIT_VOTE", "DECIDE", "NEW_VIEW"}
MgmtMsg == {"JOIN_APPLY", "JOIN_SYNC", "JOIN_RESTART", "EXIT_APPLY", "EXIT_AGREE", "EXIT_RESTART"}

Msg == [type : ConsMsg \cup MgmtMsg, src : Node, dst : Node,
        view : Nat, leader : Node \cup {None}, qc : Int, blk : Nat]

MkMsg(t, s, d, v) ==
    [type |-> t, src |-> s, dst |-> d, view |-> v, leader |-> None, qc |-> -1,
     blk |-> 0]

State == {"INACTIVE", "APPLY", "SYNC", "AGREE"}

Phase == {"NEW_VIEW", "WAITING", "PREPARE", "PRE_COMMIT"}

NoNode == [name |-> None, chan |-> None]

Idle == [kind |-> "IDLE", node |-> None]

Blocked == [kind |-> "BLOCKED", node |-> None]

----------------------------------------------------------------------------
(* Helpers *)

\* The servers of the simulateServers slice
Running == {servers[i] : i \in 1 .. Len(servers)}

\* Mutant: two thirds of the nodes, rounded
ThresholdTwoThirds(n) == (2 * n) \div 3 + 1

\* The senders, votes or messages that n nodes ask for: one more than this
Threshold(n) == ((n - 1) \div 3) * 2

IsLeader(s) == view[s].leader = s

\* Reader of the channel that s has for name x. A channel that is missing or
\* nil blocks its sender for ever.
ChanOf(s, x) ==
    LET m == chans[mapOf[s]] IN IF x \in DOMAIN m THEN m[x] ELSE None

\* The channels s has, for Gossip and Broadcast
Channels(s) == {x \in DOMAIN chans[mapOf[s]] : ChanOf(s, x) # None}

Gossip(s, t, v) ==
    {MkMsg(t, s, ChanOf(s, x), v) : x \in Channels(s) \ {s}}

Broadcast(s, t, v) == {MkMsg(t, s, ChanOf(s, x), v) : x \in Channels(s)}

\* PREPARE, which carries the new block of the leader
Prepare(s) == {[m EXCEPT !.blk = height[s]] : m \in Broadcast(s, "PREPARE", view[s].num)}

Put(m, x, c) == [y \in DOMAIN m \cup {x} |-> IF y = x THEN c ELSE m[y]]

\* Mutant: the channel stays
DeleteNothing(m, x) == m

Delete(m, x) == [y \in DOMAIN m \ {x} |-> m[y]]

\* Mutant: the leader is not wrapped around
NextViewNoWrap(v) == [num |-> v.num + 1, leader |-> v.leader + 1, nodes |-> v.nodes]

NextView(v) ==
    [num |-> v.num + 1, leader |-> (v.leader + 1) % v.nodes, nodes |-> v.nodes]

\* The links after the consensus messages ms are sent, at most one on each
Sent(l, ms) ==
    [s \in Node |-> [d \in Node |->
        l[s][d] \o (IF \E m \in ms : m.src = s /\ m.dst = d
                    THEN <<CHOOSE m \in ms : m.src = s /\ m.dst = d>> ELSE <<>>)]]

\* The links after m, which is the first on its link, is taken
Taken(m) == [link EXCEPT ![m.src][m.dst] = Tail(@)]

\* A message of the consensus from the loop of s to the node it takes for the
\* leader: the loop blocks if there is no channel
SendToLeader(s, t, v, rest) ==
    LET d == ChanOf(s, v.leader)
    IN  IF d = None
        THEN /\ busy' = [busy EXCEPT ![s] = Blocked]
             /\ link' = rest
        ELSE /\ link' = Sent(rest, {MkMsg(t, s, d, v.num)})
             /\ UNCHANGED busy

----------------------------------------------------------------------------
(* The consensus *)

\* GenNewReq and HandleReq: a leader that waits proposes
HandleReq(s) ==
    /\ s \in Running /\ handle[s] /\ busy[s] = Idle
    /\ IsLeader(s) /\ phase[s] = "WAITING" /\ view[s].num < MaxView
    /\ ~curProposal[s]
    /\ curProposal' = [curProposal EXCEPT ![s] = TRUE]
    /\ IF newViews[s] > Threshold(view[s].nodes) \/ ignoreCheckQC[s]
       THEN /\ phase' = [phase EXCEPT ![s] = "PREPARE"]
            /\ ignoreCheckQC' = [ignoreCheckQC EXCEPT ![s] = FALSE]
            /\ blk' = [blk EXCEPT ![s] = height[s]]
            /\ link' = Sent(link, Prepare(s))
       ELSE UNCHANGED <<phase, ignoreCheckQC, blk, link>>
    /\ UNCHANGED <<driverVars, handle, view, qc, newViews, votes, height, signNum, nmVars,
                   busy, net>>

\* The proposal is taken before the view is compared.
HandlePrepare(s, m) ==
    LET expected == handle[s] /\ phase[s] = "NEW_VIEW" /\ ~IsLeader(s) IN
    /\ m.type = "PREPARE"
    /\ curProposal' = [curProposal EXCEPT ![s] = @ \/ expected]
    /\ IF expected /\ m.view = view[s].num
       THEN /\ phase' = [phase EXCEPT ![s] = "PREPARE"]
            /\ blk' = [blk EXCEPT ![s] = m.blk]
            /\ SendToLeader(s, "PREPARE_VOTE", view[s], Taken(m))
       ELSE /\ link' = Taken(m)
            /\ UNCHANGED <<phase, blk, busy>>
    /\ UNCHANGED <<driverVars, handle, view, qc, ignoreCheckQC, newViews, votes, height,
                   signNum, nmVars, net>>

HandlePreCommit(s, m) ==
    /\ m.type = "PRE_COMMIT"
    /\ IF /\ handle[s] /\ phase[s] \in {"NEW_VIEW", "PREPARE"}
          /\ ~IsLeader(s) /\ m.view = view[s].num
       THEN /\ phase' = [phase EXCEPT ![s] = "PRE_COMMIT"]
            /\ qc' = [qc EXCEPT ![s] = m.view]
            /\ SendToLeader(s, "PRE_COMMIT_VOTE", view[s], Taken(m))
       ELSE /\ link' = Taken(m)
            /\ UNCHANGED <<phase, qc, busy>>
    /\ UNCHANGED <<driverVars, handle, view, curProposal, ignoreCheckQC, newViews,
                   votes, blkVars, signNum, nmVars, net>>

\* A vote of the leader's own phase and view. The threshold signature needs
\* as many shares as the leader's View says nodes there are.
HandleVote(s, m) ==
    LET more == votes[s] \cup {m.src}
        full == Cardinality(more) > Threshold(view[s].nodes)
    IN
    /\ m.type \in {"PREPARE_VOTE", "PRE_COMMIT_VOTE"}
    /\ IF /\ handle[s] /\ IsLeader(s) /\ m.view = view[s].num
          /\ phase[s] = (IF m.type = "PREPARE_VOTE" THEN "PREPARE" ELSE "PRE_COMMIT")
       THEN \/ /\ ~full
               /\ votes' = [votes EXCEPT ![s] = more]
               /\ link' = Taken(m)
               /\ UNCHANGED <<phase, qc>>
            \/ /\ full /\ m.type = "PREPARE_VOTE"
               /\ votes' = [votes EXCEPT ![s] = {}]
               /\ phase' = [phase EXCEPT ![s] = "PRE_COMMIT"]
               /\ qc' = [qc EXCEPT ![s] = view[s].num]
               /\ link' = Sent(Taken(m), Broadcast(s, "PRE_COMMIT", view[s].num))
            \/ /\ full /\ m.type = "PRE_COMMIT_VOTE"
               /\ votes' = [votes EXCEPT ![s] = more]
               /\ link' = Sent(Taken(m), Broadcast(s, "DECIDE", view[s].num))
               /\ UNCHANGED <<phase, qc>>
       ELSE /\ link' = Taken(m)
            /\ UNCHANGED <<votes, phase, qc>>
    /\ UNCHANGED <<driverVars, handle, view, curProposal, ignoreCheckQC, newViews,
                   blkVars, signNum, nmVars, busy, net>>

HandleDecide(s, m) ==
    /\ m.type = "DECIDE"
    /\ IF handle[s] /\ phase[s] = "PRE_COMMIT" /\ m.view = view[s].num
       THEN /\ view' = [view EXCEPT ![s] = NextView(@)]
            /\ phase' = [phase EXCEPT ![s] = "NEW_VIEW"]
            /\ curProposal' = [curProposal EXCEPT ![s] = FALSE]
            /\ newViews' = [newViews EXCEPT ![s] = 0]
            /\ votes' = [votes EXCEPT ![s] = {}]
            /\ height' = [height EXCEPT ![s] = @ + 1]
            /\ SendToLeader(s, "NEW_VIEW", NextView(view[s]), Taken(m))
       ELSE /\ link' = Taken(m)
            /\ UNCHANGED <<view, phase, curProposal, newViews, votes, height, busy>>
    /\ UNCHANGED <<driverVars, handle, qc, ignoreCheckQC, blk, signNum, nmVars, net>>

HandleNewView(s, m) ==
    LET more == newViews[s] + 1
        full == more > Threshold(view[s].nodes)
    IN
    /\ m.type = "NEW_VIEW"
    /\ IF /\ handle[s] /\ phase[s] \in {"NEW_VIEW", "WAITING"}
          /\ IsLeader(s) /\ m.view = view[s].num
       THEN /\ newViews' = [newViews EXCEPT ![s] = more]
            /\ \/ /\ ~full
                  /\ link' = Taken(m)
                  /\ UNCHANGED <<phase, blk>>
               \/ /\ full /\ ~curProposal[s]
                  /\ phase' = [phase EXCEPT ![s] = "WAITING"]
                  /\ link' = Taken(m)
                  /\ UNCHANGED blk
               \/ /\ full /\ curProposal[s]
                  /\ phase' = [phase EXCEPT ![s] = "PREPARE"]
                  /\ blk' = [blk EXCEPT ![s] = height[s]]
                  /\ link' = Sent(Taken(m), Prepare(s))
       ELSE /\ link' = Taken(m)
            /\ UNCHANGED <<newViews, phase, blk>>
    /\ UNCHANGED <<driverVars, handle, view, qc, curProposal, ignoreCheckQC, votes, height,
                   signNum, nmVars, busy, net>>

----------------------------------------------------------------------------
(* Join *)

\* NewServerJoin: a server named after the length of the slice, with its own
\* map of channels, and the goroutine of StartBCNodeJoin up to its last line
NewServerJoin ==
    LET id  == Len(servers)
        old == Running
    IN
    /\ joins < MaxJoins
    /\ id \notin old \cup exited     \* bound: no name is used twice
    /\ joins' = joins + 1
    /\ servers' = Append(servers, id)
    /\ signersDue' = signersDue + 1
    /\ handle' = [handle EXCEPT ![id] = TRUE]
    /\ view' = [view EXCEPT ![id] = [num |-> 0, leader |-> 0, nodes |-> Len(servers)]]
    /\ signNum' = [signNum EXCEPT ![id] = 1]
    /\ table' = [table EXCEPT ![id] = old \cup {id}]
    /\ mapOf' = [mapOf EXCEPT ![id] = id]
    /\ chans' = [chans EXCEPT ![id] = [x \in old \cup {id} |-> x]]
    /\ newNode' = [s \in Node |->
                      IF s = id THEN [name |-> id, chan |-> id]
                      ELSE IF s \in old THEN [newNode[s] EXCEPT !.chan = id]
                      ELSE newNode[s]]
    /\ starting' = starting \cup {id}
    /\ net' = net \cup {MkMsg("JOIN_APPLY", id, d, 0) : d \in old \ {id}}
    /\ UNCHANGED <<exited, qc, phase, curProposal, ignoreCheckQC, newViews, votes, blkVars,
                   state, syncMsgs, busy, link>>

\* The last line of StartBCNodeJoin and of StartBCNodeExit
SetStateApply(s) ==
    /\ s \in starting
    /\ starting' = starting \ {s}
    /\ state' = [state EXCEPT ![s] = "APPLY"]
    /\ UNCHANGED <<driverVars, handle, consVars, signNum, table, mapOf, chans, newNode,
                   syncMsgs, busy, net, link>>

\* UpdateSigners, 100 ms after a command j or e
UpdateSigners ==
    /\ signersDue > 0
    /\ signersDue' = signersDue - 1
    /\ signNum' = [s \in Node |-> IF s \in Running THEN Len(servers) ELSE signNum[s]]
    /\ UNCHANGED <<servers, joins, exited, handle, consVars, nmVars, busy, net, link>>

\* AddSyncInfo on the answer of HandleJoin
SyncMsg(s, d) ==
    [type |-> "JOIN_SYNC", src |-> s, dst |-> d, view |-> view[s].num,
     leader |-> view[s].leader, qc |-> qc[s], blk |-> blk[s]]

\* An old node stops, enters the new node in its tables and answers with what
\* the new node has to know. The channel it enters is the one StartBCNodeJoin
\* left in NewNode; the answer goes through that channel.
HandleJoin(s, m) ==
    LET new  == m.src
        chan == newNode[s].chan
    IN
    /\ m.type = "JOIN_APPLY"
    /\ handle' = [handle EXCEPT ![s] = FALSE]
    /\ chans' = [chans EXCEPT ![mapOf[s]] = Put(@, new, chan)]
    /\ table' = [table EXCEPT ![s] = @ \cup {new}]
    /\ view' = [view EXCEPT ![s].nodes = Cardinality(table[s] \cup {new})]
    /\ newNode' = [newNode EXCEPT ![s] = NoNode]
    /\ state' = [state EXCEPT ![s] = "INACTIVE"]
    /\ net' = (net \ {m}) \cup
              (IF chan = None THEN {} ELSE {SyncMsg(s, chan)})
    /\ UNCHANGED <<driverVars, qc, phase, curProposal, ignoreCheckQC, newViews, votes, blkVars,
                   signNum, mapOf, syncMsgs, starting, busy, link>>

\* Mutant: the message that came last, whatever its certificate
GetHighQCIndexLast(msgs) == Len(msgs)

\* The scan of GetHighQCIndex: once a message is chosen, the next one has to
\* beat the view its sender was in, not the view of its certificate.
GetHighQCIndex(msgs) ==
    LET max[i \in 1 .. Len(msgs)] ==
            IF i = 1 THEN [idx |-> 1, view |-> msgs[1].qc]
            ELSE IF msgs[i].qc > max[i - 1].view
                 THEN [idx |-> i, view |-> msgs[i].view]
                 ELSE max[i - 1]
    IN  max[Len(msgs)].idx

\* Mutant: all known nodes have to name the same leader
GetLeaderFromAll(s, msgs) ==
    LET same == {l \in Node : \A x \in table[s] : \E i \in DOMAIN msgs :
                                  msgs[i].src = x /\ msgs[i].leader = l}
    IN  IF same = {} THEN None ELSE CHOOSE l \in same : TRUE

\* The leader that more than Threshold messages name, or -1
GetLeaderFromSyncMsgs(s, msgs) ==
    LET named(l) == {i \in 1 .. Len(msgs) : msgs[i].leader = l}
        most == {l \in Node : Cardinality(named(l)) > Threshold(Cardinality(table[s]))}
    IN  IF most = {} THEN None ELSE CHOOSE l \in most : TRUE

\* Mutant: the number of nodes is not updated
SyncInfoOldNodes(s, high, l) == [num |-> high.view, leader |-> l, nodes |-> view[s].nodes]

\* The View of a node that has synchronised: UpdateNodesNum and SyncInfo
SyncInfo(s, high, l) ==
    [num |-> high.view, leader |-> l, nodes |-> Cardinality(table[s])]

\* Mutant: the block is not counted
SyncedHeightNotStored(high) == high.blk

\* BlkStore.Height after SyncInfo: the height of the block of the message, which
\* is then stored
SyncedHeight(high) == high.blk + 1

\* HandleSync and, on the message that makes the threshold while the node
\* applies, UpdateNodeInfo and the RESTART. The NewRound of SyncInfo finds
\* nothing to clear. A node whose NewNode was reset meanwhile takes the branch
\* of the old nodes.
HandleSync(s, m) ==
    LET msgs == Append(syncMsgs[s], m)
        high == msgs[GetHighQCIndex(msgs)]
    IN
    /\ m.type = "JOIN_SYNC"
    /\ syncMsgs' = [syncMsgs EXCEPT ![s] = msgs]
    /\ IF /\ Len(msgs) > Threshold(Cardinality(table[s]))
          /\ state[s] \notin {"SYNC", "INACTIVE"}
       THEN /\ view' = [view EXCEPT ![s] =
                            IF newNode[s].name = s
                            THEN SyncInfo(s, high, GetLeaderFromSyncMsgs(s, msgs))
                            ELSE [@ EXCEPT !.nodes = Cardinality(table[s])]]
            /\ qc' = [qc EXCEPT ![s] = IF newNode[s].name = s THEN high.qc ELSE @]
            /\ height' = [height EXCEPT ![s] = IF newNode[s].name = s THEN SyncedHeight(high)
                                                                   ELSE @]
            /\ blk' = [blk EXCEPT ![s] = IF newNode[s].name = s THEN high.blk ELSE @]
            /\ newNode' = [newNode EXCEPT ![s] = NoNode]
            /\ state' = [state EXCEPT ![s] = "INACTIVE"]
            /\ net' = (net \ {m}) \cup Gossip(s, "JOIN_RESTART", 0)
       ELSE /\ net' = net \ {m}
            /\ UNCHANGED <<view, qc, blkVars, newNode, state>>
    /\ UNCHANGED <<driverVars, handle, phase, curProposal, ignoreCheckQC, newViews,
                   votes, signNum, table, mapOf, chans, starting, busy, link>>

----------------------------------------------------------------------------
(* Exit *)

\* Mutant: the leaving node is not skipped
ExitApplyToAll(s) ==
    {MkMsg("EXIT_APPLY", s, ChanOf(s, d), 0) : d \in {x \in table[s] : ChanOf(s, x) # None}}

\* The messages of StartBCNodeExit, to every other node of the table
ExitApply(s) ==
    {MkMsg("EXIT_APPLY", s, ChanOf(s, d), 0) :
        d \in {x \in table[s] \ {s} : ChanOf(s, x) # None}}

\* OriServerExit and StartBCNodeExit up to its last line
OriServerExit(s) ==
    /\ s \in (Leavers \cap Running) \ exited
    /\ Cardinality(exited) < MaxExits
    /\ exited' = exited \cup {s}
    /\ servers' = LET i == CHOOSE i \in DOMAIN servers : servers[i] = s
                  IN  SubSeq(servers, 1, i - 1) \o SubSeq(servers, i + 1, Len(servers))
    /\ signersDue' = signersDue + 1
    /\ handle' = [handle EXCEPT ![s] = FALSE]
    /\ starting' = starting \cup {s}
    /\ net' = net \cup ExitApply(s)
    /\ UNCHANGED <<joins, consVars, signNum, table, mapOf, chans, newNode, state,
                   syncMsgs, busy, link>>

\* The first half of the handler of EXIT APPLY: stop, and read the channel of
\* the leaving node from the map, which other nodes may be deleting it from
HandleExit(s, m) ==
    /\ m.type = "EXIT_APPLY"
    /\ handle' = [handle EXCEPT ![s] = FALSE]
    /\ newNode' = [newNode EXCEPT ![s] = [name |-> m.src, chan |-> ChanOf(s, m.src)]]
    /\ busy' = [busy EXCEPT ![s] = [kind |-> "EXIT", node |-> m.src]]
    /\ net' = net \ {m}
    /\ UNCHANGED <<driverVars, consVars, signNum, table, mapOf, chans, state, syncMsgs,
                   starting, link>>

\* The second half: AGREE is sent by the loop itself, on the channel read
\* before; then the leaving node is deleted
AgreeAndUpdate(s) ==
    LET left == newNode[s] IN
    /\ busy[s].kind = "EXIT"
    /\ IF left.chan = None
       THEN /\ busy' = [busy EXCEPT ![s] = Blocked]
            /\ UNCHANGED <<net, chans, table, view, newNode, state>>
       ELSE /\ busy' = [busy EXCEPT ![s] = Idle]
            /\ net' = net \cup {MkMsg("EXIT_AGREE", s, left.chan, 0)}
            /\ chans' = [chans EXCEPT ![mapOf[s]] = Delete(@, left.name)]
            /\ table' = [table EXCEPT ![s] = @ \ {left.name}]
            /\ view' = [view EXCEPT ![s].nodes = Cardinality(table[s] \ {left.name})]
            /\ newNode' = [newNode EXCEPT ![s] = NoNode]
            /\ state' = [state EXCEPT ![s] = "INACTIVE"]
    /\ UNCHANGED <<driverVars, handle, qc, phase, curProposal, ignoreCheckQC, newViews,
                   votes, blkVars, signNum, mapOf, syncMsgs, starting, link>>

HandleAgree(s, m) ==
    LET msgs == Append(syncMsgs[s], m) IN
    /\ m.type = "EXIT_AGREE"
    /\ syncMsgs' = [syncMsgs EXCEPT ![s] = msgs]
    /\ IF /\ Len(msgs) > Threshold(Cardinality(table[s]))
          /\ state[s] \notin {"AGREE", "INACTIVE"}
       THEN /\ state' = [state EXCEPT ![s] = "AGREE"]
            /\ net' = (net \ {m}) \cup Gossip(s, "EXIT_RESTART", 0)
       ELSE /\ net' = net \ {m}
            /\ UNCHANGED state
    /\ UNCHANGED <<driverVars, handle, consVars, signNum, table, mapOf, chans, newNode,
                   starting, busy, link>>

----------------------------------------------------------------------------
(* Restart *)

\* The handler of RESTART begins: the loop waits for the new signers
AwaitSigners(s, m) ==
    /\ m.type \in {"JOIN_RESTART", "EXIT_RESTART"}
    /\ busy' = [busy EXCEPT ![s] = [kind |-> m.type, node |-> m.src]]
    /\ net' = net \ {m}
    /\ UNCHANGED <<driverVars, handle, consVars, signNum, nmVars, link>>

IsReady(s) == view[s].nodes = signNum[s]

\* ClearCurrentRound: only the leader keeps its proposal and new-view messages
Cleared(s) ==
    [proposal |-> IsLeader(s) /\ curProposal[s],
     newViews |-> IF IsLeader(s) THEN newViews[s] ELSE 0]

\* GenProposal in RestartBasicHotstuff finds enough new-view messages
Reproposes(s) ==
    /\ IsLeader(s) /\ curProposal[s]
    /\ newViews[s] > Threshold(view[s].nodes) \/ ignoreCheckQC[s]

\* Mutant: the leader before RefreshLeader is asked
InitsLeaderBefore(s) ==
    /\ busy[s].kind = "EXIT_RESTART" /\ view[s].leader = busy[s].node
    /\ view[s].leader = s

\* InitLeader in the handler of EXIT RESTART
InitsLeader(s) ==
    /\ busy[s].kind = "EXIT_RESTART" /\ view[s].leader = busy[s].node
    /\ view[s].leader % view[s].nodes = s

\* RestartOrderer; then FixLeader after a join, and after the exit of the
\* leader RefreshLeader and InitLeader
Restart(s) ==
    LET refresh == busy[s].kind = "EXIT_RESTART" /\ view[s].leader = busy[s].node
        fix     == busy[s].kind = "JOIN_RESTART" /\ IsLeader(s)
        kept    == Cleared(s).newViews
    IN
    /\ busy[s].kind \in {"JOIN_RESTART", "EXIT_RESTART"}
    /\ IsReady(s)
    /\ handle' = [handle EXCEPT ![s] = TRUE]
    /\ curProposal' = [curProposal EXCEPT ![s] = Cleared(s).proposal]
    /\ votes' = [votes EXCEPT ![s] = {}]
    /\ phase' = [phase EXCEPT ![s] =
                     IF Reproposes(s) THEN "PREPARE"
                     ELSE IF (IsLeader(s) /\ ~curProposal[s]) \/ InitsLeader(s)
                          THEN "WAITING" ELSE "NEW_VIEW"]
    /\ blk' = [blk EXCEPT ![s] = IF Reproposes(s) THEN height[s] ELSE 0]
    /\ link' = IF Reproposes(s) THEN Sent(link, Prepare(s)) ELSE link
    /\ newViews' = [newViews EXCEPT ![s] =
                        IF InitsLeader(s) THEN kept + 1
                        ELSE IF fix /\ kept <= Threshold(view[s].nodes)
                             THEN Threshold(view[s].nodes) + 1
                             ELSE kept]
    /\ ignoreCheckQC' = [ignoreCheckQC EXCEPT ![s] = @ \/ InitsLeader(s)]
    /\ view' = [view EXCEPT ![s].leader = IF refresh THEN @ % view[s].nodes ELSE @]
    /\ busy' = [busy EXCEPT ![s] = Idle]
    /\ UNCHANGED <<driverVars, qc, height, signNum, nmVars, net>>

----------------------------------------------------------------------------
(* The specification *)

Init ==
    /\ servers = [i \in 1 .. N |-> i - 1]
    /\ joins = 0 /\ exited = {} /\ signersDue = 0
    /\ handle = [s \in Node |-> s < N]
    /\ view = [s \in Node |-> [num |-> 0, leader |-> 0, nodes |-> N]]
    /\ qc = [s \in Node |-> -1]
    /\ phase = [s \in Node |-> IF s = 0 THEN "WAITING" ELSE "NEW_VIEW"]
    /\ curProposal = [s \in Node |-> FALSE]
    /\ ignoreCheckQC = [s \in Node |-> s = 0]
    /\ newViews = [s \in Node |-> IF s = 0 THEN 1 ELSE 0]
    /\ votes = [s \in Node |-> {}]
    /\ height = [s \in Node |-> 0]
    /\ blk = [s \in Node |-> 0]
    /\ signNum = [s \in Node |-> IF s < N THEN N ELSE 1]
    /\ table = [s \in Node |-> IF s < N THEN 0 .. N - 1 ELSE {}]
    /\ mapOf = [s \in Node |-> Shared]
    /\ chans = [x \in Node \cup {Shared} |-> IF x = Shared THEN [y \in 0 .. N - 1 |-> y] ELSE <<>>]
    /\ newNode = [s \in Node |-> NoNode]
    /\ state = [s \in Node |-> "INACTIVE"]
    /\ syncMsgs = [s \in Node |-> <<>>]
    /\ starting = {}
    /\ busy = [s \in Node |-> Idle]
    /\ link = [s \in Node |-> [d \in Node |-> <<>>]]
    /\ net = {}

\* RouteServerMsg takes a message of the node manager from the channel
Manage(m) ==
    /\ busy[m.dst] = Idle
    /\ \/ HandleJoin(m.dst, m)
       \/ HandleSync(m.dst, m)
       \/ HandleExit(m.dst, m)
       \/ HandleAgree(m.dst, m)
       \/ AwaitSigners(m.dst, m)

\* RouteServerMsg takes the next message of the consensus of s
Receive(d, s) ==
    /\ busy[d] = Idle /\ link[s][d] # <<>>
    /\ LET m == Head(link[s][d])
       IN  \/ HandlePrepare(d, m)
           \/ HandlePreCommit(d, m)
           \/ HandleVote(d, m)
           \/ HandleDecide(d, m)
           \/ HandleNewView(d, m)

\* A step of the server loop of s that is in the middle of a handler
Resume(s) == AgreeAndUpdate(s) \/ Restart(s)

Command == NewServerJoin \/ \E s \in Node : OriServerExit(s)

Next ==
    \/ Command
    \/ UpdateSigners
    \/ \E s \in Node : HandleReq(s) \/ SetStateApply(s) \/ Resume(s)
    \/ \E m \in net : Manage(m)
    \/ \E d, s \in Node : Receive(d, s)

Spec == Init /\ [][Next]_vars

----------------------------------------------------------------------------
(* Properties *)

\* The ranges of the variables: in particular a leader is always the number
\* of a node, or the -1 of GetLeaderFromSyncMsgs.
TypeOK ==
    /\ servers \in Seq(Node) /\ joins \in 0 .. MaxJoins /\ exited \subseteq Node
    /\ signersDue \in Nat
    /\ handle \in [Node -> BOOLEAN] /\ view \in [Node -> View] /\ qc \in [Node -> Int]
    /\ phase \in [Node -> Phase] /\ curProposal \in [Node -> BOOLEAN]
    /\ ignoreCheckQC \in [Node -> BOOLEAN] /\ newViews \in [Node -> Nat]
    /\ height \in [Node -> Nat] /\ blk \in [Node -> Nat]
    /\ votes \in [Node -> SUBSET Node] /\ signNum \in [Node -> Nat]
    /\ table \in [Node -> SUBSET Node] /\ mapOf \in [Node -> Node \cup {Shared}]
    /\ DOMAIN chans = Node \cup {Shared}
    /\ \A k \in DOMAIN chans : /\ DOMAIN chans[k] \subseteq Node
                              /\ \A x \in DOMAIN chans[k] : chans[k][x] \in Node \cup {None}
    /\ newNode \in [Node -> [name : Node \cup {None}, chan : Node \cup {None}]]
    /\ state \in [Node -> State] /\ starting \subseteq Node
    /\ busy \in [Node -> [kind : {"IDLE", "BLOCKED", "EXIT"} \cup MgmtMsg, node : Node \cup {None}]]
    /\ syncMsgs \in [Node -> Seq(Msg)]
    /\ link \in [Node -> [Node -> Seq(Msg)]]
    /\ net \subseteq Msg

\* Every node that has run so far
Started == Running \cup exited

\* The map a node gets at its start: those of GenServers share one
HomeMap(s) == IF s < N THEN Shared ELSE s

\* Whatever joins and exits overlap, a view never counts no nodes or more than there
\* are names, and a node never deletes itself.
TableInv ==
    /\ 0 .. N - 1 \subseteq Started /\ Len(servers) <= N + joins
    /\ \A s \in Node : view[s].nodes \in 1 .. N + MaxJoins
    /\ \A s \in Started : s \in table[s] /\ mapOf[s] = HomeMap(s)

\* A join that overlaps another one may enter a channel under the wrong name, but no
\* map has the channel of a node it belongs to under another name than that node's.
ChannelInv ==
    /\ \A k \in DOMAIN chans : \A x \in DOMAIN chans[k] : chans[k][x] \in Started \cup {None}
    /\ \A s \in Node : \A x \in DOMAIN chans[HomeMap(s)] :
           chans[HomeMap(s)][x] = s => x = s

\* NewNode holds the channel of a node that joined, or of the one that leaves while
\* its exit is handled, and that is another node.
NewNodeInv ==
    \A s \in Node :
        /\ newNode[s].chan \in Started \cup {None}
        /\ newNode[s].chan = None \/ newNode[s].chan >= N \/ busy[s].kind = "EXIT"
        /\ busy[s].kind = "EXIT" => s \in Started /\ newNode[s].name # s

\* A message is for a node that has run; no node tells itself that it leaves, or finds
\* its own channel in NewNode when another node applies.
NetInv ==
    /\ \A m \in net :
          /\ m.dst \in Started
          /\ m.type = "JOIN_APPLY" => newNode[m.dst].chan # m.dst
          /\ m.type = "EXIT_APPLY" => m.src # m.dst
    /\ \A s, d \in Node : \A i \in DOMAIN link[s][d] :
          link[s][d][i].src = s /\ link[s][d][i].dst = d

\* The inductive invariant behind TypeOK
Inv == TableInv /\ ChannelInv /\ NewNodeInv /\ NetInv

\* No message of a join or an exit is on its way and no node is handling one
Settled ==
    /\ net = {} /\ starting = {} /\ signersDue = 0
    /\ \A s \in Running : busy[s] = Idle

\* No message at all
AtRest == Settled /\ \A s, d \in Node : link[s][d] = <<>>

\* Whenever joins and exits have settled, every node has started again, the
\* node tables and the node numbers of the views name the nodes there are,
\* and every node has a channel to each of them and to no other.
MembersAgree ==
    Settled => \A s \in Running :
                   /\ handle[s]
                   /\ table[s] = Running
                   /\ view[s].nodes = Len(servers) /\ IsReady(s)
                   /\ Channels(s) = Running /\ \A x \in Running : ChanOf(s, x) = x

\* HandleSync brings the new node "to reach the state which is the same as
\* other nodes in system": at rest all nodes are in one view with one leader,
\* and that leader is one of them.
SameView ==
    AtRest => \A s, t \in Running :
                  /\ view[s].num = view[t].num
                  /\ view[s].leader = view[t].leader /\ view[s].leader \in Running

\* HandleSync brings the new node "to reach the state which is the same as
\* other nodes in system", SyncInfo its Height with it: at rest all nodes number
\* their next block alike.
SameHeight == AtRest => \A s, t \in Running : height[s] = height[t]

\* The loop of a server never waits on a channel nobody reads: no message is
\* addressed to a leader that has left or was never there.
NoneBlocked == \A s \in Running : busy[s] # Blocked

\* Every join and every exit comes to an end: the system is at work again,
\* with the members it has then.
MembershipSettles == []<>(Settled /\ \A s \in Running : handle[s])

\* GetHighQCIndex picks the message with the highest certificate: no SYNC
\* message the new node has when it synchronises carries a higher one than it
\* takes over.
HighestQCTaken ==
    [][\A s \in Node :
           (newNode[s].name = s /\ newNode'[s].name # s /\ syncMsgs'[s] # syncMsgs[s])
               => \A i \in DOMAIN syncMsgs'[s] : syncMsgs'[s][i].qc <= qc'[s]]_vars

\* The leaving node lets the others start again only when as many of them as
\* HandleAgree asks for have stopped and deleted it.
RestartedAfterAgreement ==
    \A s \in exited :
        state[s] = "AGREE" =>
            Cardinality({syncMsgs[s][i].src : i \in {j \in DOMAIN syncMsgs[s] :
                             syncMsgs[s][j].type = "EXIT_AGREE"}})
                > Threshold(Cardinality(table[s]))

\* After every join and exit the system comes back to a leader that all nodes
\* name, that waits for a request, and that has left none undecided: FixLeader
\* and InitLeader have given it what GenProposal asks for.
LeaderWaits ==
    []<>(\E s \in Running :
             /\ handle[s] /\ phase[s] = "WAITING"
             /\ \A t \in Running : view[t].leader = s /\ ~curProposal[t])

=============================================================================
