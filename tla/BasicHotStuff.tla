---------------------------- MODULE BasicHotStuff ----------------------------
(***************************************************************************)
(* Basic HotStuff as orderer/consensus/hotstuff/core runs it inside a      *)
(* server: the four phases of a view, the view change of the timer, the    *)
(* request hand-off of core/server and core/factory, and the block store.  *)
(*                                                                         *)
(* Abstractions.                                                           *)
(*  - A request batch is one value of Cmd (BatchSize is one batch, as      *)
(*    AutoGenNewReq sets it).                                              *)
(*  - SHA-256 does not collide, so a hash is the content that is hashed:   *)
(*    HashOf keeps, as Block.Hash does, one byte of the height, the view   *)
(*    and the time. It leaves out PreBlkHash, itself a hash, so it tells   *)
(*    no more blocks apart than the code. The TimeStamp of a block is the  *)
(*    number of messages its maker has sent.                               *)
(*  - Past view 255 the bytes of a view repeat, in hashes and under        *)
(*    signatures. MaxView stays below that (ViewAssumption); of longer     *)
(*    behaviours nothing is claimed.                                       *)
(*  - A threshold signature is the content it signs, or NoSign; it can be  *)
(*    made only from shares of QuorumSize nodes on that very content.      *)
(*  - The channels between two nodes are FIFO, deliver exactly once and    *)
(*    may delay: sent[s] is the log of everything s put on its SendChan,   *)
(*    rcvd[r][s] how far r has consumed it.                                *)
(*  - A handler is one atomic step, and so is the timer's callback.        *)
(***************************************************************************)
EXTENDS Integers, Sequences, FiniteSets

CONSTANTS
    N,            \* number of nodes, r_0 .. r_(N-1)
    Genesis,      \* the request of GenFirstRound
    ClientCmds,   \* request batches the client submits, each once
    NoCmd,        \* the empty Proposal / empty request list
    MaxView,      \* bound: no node goes beyond this view
    MaxTimeouts   \* bound: expiries of view timers in a behaviour

Server == 0 .. N - 1

Cmd == {Genesis} \cup ClientCmds

\* len(votes) > (NodesNum-1)/3*2, and the tss threshold of GenSigners
QuorumSize == ((N - 1) \div 3) * 2 + 1

\* Two quorums share a node. True of every N = 3f+1, false of 2, 3 and 6.
ASSUME NAssumption == N \in Nat /\ N > 0 /\ 2 * QuorumSize > N

ASSUME CmdAssumption == NoCmd \notin Cmd

ASSUME BoundAssumption == MaxView \in Nat /\ MaxTimeouts \in Nat

\* One byte tells the views of a behaviour apart
ASSUME ViewAssumption == MaxView < 256

VARIABLES
    phase,          \* CurPhase
    view,           \* View.ViewNumber; View.Leader is Leader(view)
    hsNode,         \* HsNode
    prepareQC,      \* PrepareQC
    lockedQC,       \* LockedQC
    curProposal,    \* CurProposal
    ignoreCheckQC,  \* IgnoreCheckQC
    curRound,       \* view of the last message in CurRoundMsg, NoRound if none
    lastRound,      \* the same for LastRoundMsg
    newViewMsgs,    \* NewViewMsgs
    prepareVotes,   \* PrepareVotes
    preCommitVotes, \* PreCommitVotes
    commitVotes,    \* CommitVotes
    bs,             \* BlkStore: Height, PreBlkHash, CurBlkHash, CurProposalBlk
    store,          \* the block files of a node, by height
    timer,          \* the view timer is running
    timeouts,       \* expiries so far
    requests,       \* Server.Requests
    reqFlag,        \* Orderer.ReqFlagChan holds a flag
    pool,           \* batches the client has not submitted yet
    sent,           \* messages a node sent, in order
    rcvd            \* rcvd[r][s]: index in sent[s] of the last one r consumed

qcVars    == <<prepareQC, lockedQC>>
voteVars  == <<prepareVotes, preCommitVotes, commitVotes>>
roundVars == <<curRound, lastRound>>
blkVars   == <<bs, store>>
timerVars == <<timer, timeouts>>
reqVars   == <<requests, reqFlag, pool>>
netVars   == <<sent, rcvd>>
vars == <<phase, view, hsNode, qcVars, curProposal, ignoreCheckQC, roundVars,
          newViewMsgs, voteVars, blkVars, timerVars, reqVars, netVars>>

----------------------------------------------------------------------------
(* Data *)

Phase    == {"NEW_VIEW", "WAITING", "PREPARE", "PRE_COMMIT", "COMMIT", "DECIDE"}
VoteType == {"PREPARE_VOTE", "PRE_COMMIT_VOTE", "COMMIT_VOTE"}
MsgType  == {"NEW_VIEW", "PREPARE", "PRE_COMMIT", "COMMIT", "DECIDE"} \cup VoteType
SignType == {"NONE", "NEW_VIEW", "PREPARE", "PRE_COMMIT", "COMMIT"}

NoRound == -2

Hash == [view : Int, height : Int, time : Int, cmd : Cmd \cup {NoCmd}]

EmptyHash == [view |-> -1, height |-> 0, time |-> 0, cmd |-> NoCmd]

NilHash == [view |-> -2, height |-> 0, time |-> 0, cmd |-> NoCmd]

Block == [view : Int, height : Int, time : Int, cmd : Cmd \cup {NoCmd}, pre : Hash]

EmptyBlock ==
    [view |-> 0, height |-> 0, time |-> 0, cmd |-> NoCmd, pre |-> NilHash]

\* Block.Hash: of the height, the view and the time it keeps one byte each
HashOf(b) ==
    [view |-> b.view % 256, height |-> b.height % 256, time |-> b.time % 256,
     cmd |-> b.cmd]

HsNode == [cur : Hash, parent : Hash]

NilNode == [cur |-> NilHash, parent |-> NilHash]

\* What Message2Byte and QC2SignMsgByte put under a signature: of the view
\* number they keep one byte
SignedContent(t, v, n) == [type |-> t, view |-> v % 256, node |-> n]

Sign == [type : SignType, view : 0 .. 255, node : HsNode]

NoSign == [type |-> "NONE", view |-> 0, node |-> NilNode]

QC == [type : SignType, view : Int, node : HsNode, sign : Sign]

MkQC(t, v, n, sg) == [type |-> t, view |-> v, node |-> n, sign |-> sg]

\* hstypes.QC{}, the zero value
NilQC == MkQC("NEW_VIEW", 0, NilNode, NoSign)

InitQC(t) == MkQC(t, -1, [cur |-> EmptyHash, parent |-> NilHash], NoSign)

Msg == [type : MsgType, view : Int, src : Server, dst : SUBSET Server,
        node : HsNode, justify : QC, cmd : Cmd \cup {NoCmd}, block : Block]

\* A message that carries a node and a certificate but no proposal
MkMsg(t, v, s, d, n, qc) ==
    [type |-> t, view |-> v, src |-> s, dst |-> d, node |-> n, justify |-> qc,
     cmd |-> NoCmd, block |-> EmptyBlock]

\* The new-view message InitLeader gives r_0 in view 0
DummyNewView ==
    MkMsg("NEW_VIEW", 0, 0, {0}, [cur |-> EmptyHash, parent |-> EmptyHash], NilQC)

BlkStore == [height : Nat, pre : Hash, cur : Hash, blk : Block]

----------------------------------------------------------------------------
(* Helpers of the handlers *)

Leader(v) == v % N

IsLeader(r) == r = Leader(view[r])

IsWaitingReq(r) == phase[r] = "WAITING"

ThresholdSignVerify(qc) ==
    qc.sign = SignedContent(qc.type, qc.view, qc.node)

CheckQC(qc, t, v) == qc.type = t /\ qc.view = v /\ ThresholdSignVerify(qc)

\* Mutant: the lock is not looked at
SafeNodeAlways(r, n, qc) == TRUE

SafeNode(r, n, qc) == lockedQC[r].node.cur = n.parent \/ qc.view > lockedQC[r].view

CheckNewHsNode(r, m) ==
    /\ m.node.parent # NilHash
    /\ m.justify.node.cur # NilHash
    /\ m.node.parent = m.justify.node.cur
    /\ SafeNode(r, m.node, m.justify)

\* Mutant: the type of the vote is signed, not that of the phase
CombineSignVote(r) ==
    SignedContent(IF phase[r] = "PREPARE" THEN "PREPARE_VOTE" ELSE phase[r],
                  view[r], hsNode[r])

\* What the leader takes the collected shares to have signed
CombineSign(r) == SignedContent(phase[r], view[r], hsNode[r])

\* tbls.Recover: every share is on what the leader signs now, from enough nodes
CanCombine(r, votes) ==
    /\ \A v \in votes : v.view % 256 = view[r] % 256 /\ v.node = hsNode[r]
    /\ Cardinality({v.src : v \in votes}) >= QuorumSize

\* The list of votes after m, which is appended only if it is of this view
AddVote(r, votes, m) == IF m.view = view[r] THEN votes \cup {m} ELSE votes

\* Mutant: one vote too many is asked for
QuorumOfMore(r, votes) == Cardinality(votes) > QuorumSize /\ CanCombine(r, votes)

\* The threshold is met and the shares combine
QuorumOf(r, votes) == Cardinality(votes) >= QuorumSize /\ CanCombine(r, votes)

\* The view whose prepareQC a new-view message must carry
LastRoundView(r) == IF lastRound[r] = NoRound THEN view[r] - 1 ELSE lastRound[r]

\* h is the message GetHighQCIndex picks: the first with the highest justify.
\* Certificates of one view are equal; only the dummy differs, and it is first.
IsHighQC(h, msgs) ==
    /\ h \in msgs
    /\ \A m \in msgs : /\ m.justify.view <= h.justify.view
                       /\ m = DummyNewView /\ h.justify.view = 0 => h = m

Send(r, m) ==
    /\ sent' = [sent EXCEPT ![r] = Append(@, m)]
    /\ curRound' = [curRound EXCEPT ![r] = m.view]

NewBlock(r, c) ==
    [view |-> view[r], height |-> bs[r].height, time |-> Len(sent[r]), cmd |-> c,
     pre |-> bs[r].pre]

\* Mutant: only the hash of the block is kept, not the block
AdoptHashOnly(r, b) == bs' = [bs EXCEPT ![r] = [@ EXCEPT !.cur = HashOf(b)]]

\* CurProposalBlk and CurBlkHash of a block made or received
AdoptBlock(r, b) == bs' = [bs EXCEPT ![r] = [@ EXCEPT !.blk = b, !.cur = HashOf(b)]]

CreateLeaf(r, c, qc) == [cur |-> HashOf(NewBlock(r, c)), parent |-> qc.node.cur]

\* The common tail of HandleNewView and GenProposal: make the block and the
\* node on the highest certificate, restart the timer, broadcast PREPARE.
Propose(r, c, msgs) ==
    \E h \in msgs :
        /\ IsHighQC(h, msgs)
        /\ phase' = [phase EXCEPT ![r] = "PREPARE"]
        /\ AdoptBlock(r, NewBlock(r, c))
        /\ hsNode' = [hsNode EXCEPT ![r] = CreateLeaf(r, c, h.justify)]
        /\ timer' = [timer EXCEPT ![r] = TRUE]
        /\ Send(r, [type |-> "PREPARE", view |-> view[r], src |-> r,
                    dst |-> Server, node |-> CreateLeaf(r, c, h.justify),
                    justify |-> h.justify, cmd |-> c, block |-> NewBlock(r, c)])

\* Mutant: the first round waits for new-view messages too
CanGenProposalStrict(r) == IsWaitingReq(r) /\ Cardinality(newViewMsgs[r]) >= QuorumSize

CanGenProposal(r) ==
    /\ IsWaitingReq(r)
    /\ Cardinality(newViewMsgs[r]) >= QuorumSize \/ ignoreCheckQC[r]

\* WriteBlock: the file named by the block's own height is written
WriteBlock(files, b) ==
    [h \in DOMAIN files \cup {b.height} |-> IF h = b.height THEN b ELSE files[h]]

\* Mutant: the height of the store does not follow the written block
StoreBlockSameHeight(r) ==
    /\ store' = [store EXCEPT ![r] = WriteBlock(@, bs[r].blk)]
    /\ bs' = [bs EXCEPT ![r] = [@ EXCEPT !.pre = bs[r].cur, !.cur = NilHash]]

\* Height is the number of blocks written, whatever height the block has
StoreBlock(r) ==
    /\ store' = [store EXCEPT ![r] = WriteBlock(@, bs[r].blk)]
    /\ bs' = [bs EXCEPT ![r] = [height |-> @.height + 1, pre |-> @.cur,
                                cur |-> NilHash, blk |-> @.blk]]

\* NewRound without the view, and UpdateBasicHotstuff: the round leaves nothing
NewRound(r) ==
    /\ newViewMsgs' = [newViewMsgs EXCEPT ![r] = {}]
    /\ prepareVotes' = [prepareVotes EXCEPT ![r] = {}]
    /\ preCommitVotes' = [preCommitVotes EXCEPT ![r] = {}]
    /\ commitVotes' = [commitVotes EXCEPT ![r] = {}]
    /\ lastRound' = [lastRound EXCEPT ![r] = curRound[r]]
    /\ curProposal' = [curProposal EXCEPT ![r] = NoCmd]

----------------------------------------------------------------------------
(* The client and the request path *)

\* GenNewReq finds a leader that waits and has room, and raises its flag.
GenNewReq(r, c) ==
    /\ c \in pool
    /\ IsLeader(r) /\ IsWaitingReq(r)
    /\ requests[r] = NoCmd /\ ~reqFlag[r]
    /\ requests' = [requests EXCEPT ![r] = c]
    /\ reqFlag' = [reqFlag EXCEPT ![r] = TRUE]
    /\ pool' = pool \ {c}
    /\ UNCHANGED <<phase, view, hsNode, qcVars, curProposal, ignoreCheckQC,
                   roundVars, newViewMsgs, voteVars, blkVars, timerVars, netVars>>

\* The goroutine of Server.HandleReq takes a flag. A node that does not lead
\* when the flag is taken keeps the requests.
HandleReq(r) ==
    /\ reqFlag[r]
    /\ reqFlag' = [reqFlag EXCEPT ![r] = FALSE]
    /\ IF requests[r] # NoCmd /\ IsLeader(r)
       THEN /\ requests' = [requests EXCEPT ![r] = NoCmd]
            /\ curProposal' = [curProposal EXCEPT ![r] = requests[r]]
            /\ IF CanGenProposal(r)
               THEN /\ Propose(r, requests[r], newViewMsgs[r])
                    /\ ignoreCheckQC' = [ignoreCheckQC EXCEPT ![r] = FALSE]
               ELSE UNCHANGED <<phase, bs, hsNode, timer, sent, curRound, ignoreCheckQC>>
       ELSE UNCHANGED <<requests, curProposal, phase, bs, hsNode, timer, sent,
                        curRound, ignoreCheckQC>>
    /\ UNCHANGED <<view, qcVars, lastRound, newViewMsgs, voteVars, store,
                   timeouts, pool, rcvd>>

----------------------------------------------------------------------------
(* Message handlers. r is the node, m the message it takes from its channel. *)

\* Mutant: a leader that has proposed takes the next new-view message as well
AwaitsNewViewAlways(r) == TRUE

AwaitsNewView(r) == phase[r] \in {"NEW_VIEW", "WAITING"}

\* The checks at the head of each handler. A message that fails them is lost.
Expects(r, m) ==
    \/ /\ m.type = "NEW_VIEW"
       /\ AwaitsNewView(r) /\ IsLeader(r)
    \/ /\ m.type = "PREPARE"
       /\ phase[r] = "NEW_VIEW" /\ ~IsLeader(r)
    \/ /\ m.type = "PREPARE_VOTE"
       /\ phase[r] = "PREPARE" /\ IsLeader(r)
    \/ /\ m.type = "PRE_COMMIT"
       /\ phase[r] \in {"PREPARE", "NEW_VIEW"} /\ ~IsLeader(r)
       /\ m.view = view[r] /\ CheckQC(m.justify, "PREPARE", view[r])
    \/ /\ m.type = "PRE_COMMIT_VOTE"
       /\ phase[r] = "PRE_COMMIT" /\ IsLeader(r)
    \/ /\ m.type = "COMMIT"
       /\ phase[r] = "PRE_COMMIT" /\ ~IsLeader(r)
       /\ m.view = view[r] /\ CheckQC(m.justify, "PRE_COMMIT", view[r])
    \/ /\ m.type = "COMMIT_VOTE"
       /\ phase[r] = "COMMIT" /\ IsLeader(r)
    \/ /\ m.type = "DECIDE"
       /\ phase[r] = "COMMIT"
       /\ m.view = view[r] /\ CheckQC(m.justify, "COMMIT", view[r])

Discard(r, m) ==
    /\ ~Expects(r, m)
    /\ UNCHANGED <<phase, view, hsNode, qcVars, curProposal, ignoreCheckQC,
                   roundVars, newViewMsgs, voteVars, blkVars, timerVars, reqVars, sent>>

HandleNewView(r, m) ==
    LET valid == m.view = view[r] /\ CheckQC(m.justify, "PREPARE", LastRoundView(r))
        msgs  == IF valid THEN newViewMsgs[r] \cup {m} ELSE newViewMsgs[r]
    IN
    /\ m.type = "NEW_VIEW" /\ Expects(r, m)
    /\ newViewMsgs' = [newViewMsgs EXCEPT ![r] = msgs]
    /\ \/ /\ Cardinality(msgs) < QuorumSize
          /\ UNCHANGED <<phase, bs, hsNode, timer, sent, curRound>>
       \/ /\ Cardinality(msgs) >= QuorumSize
          /\ curProposal[r] = NoCmd
          /\ phase' = [phase EXCEPT ![r] = "WAITING"]
          /\ UNCHANGED <<bs, hsNode, timer, sent, curRound>>
       \/ /\ Cardinality(msgs) >= QuorumSize
          /\ curProposal[r] # NoCmd
          /\ Propose(r, curProposal[r], msgs)
    /\ UNCHANGED <<view, qcVars, curProposal, ignoreCheckQC, lastRound, voteVars,
                   store, timeouts, reqVars>>

\* The conditions of HandlePrepare after it has adopted the proposal
AcceptsPrepare(r, m) ==
    /\ m.view = view[r]
    /\ view[r] # 0 => CheckNewHsNode(r, m)
    /\ m.cmd # NoCmd

HandlePrepare(r, m) ==
    /\ m.type = "PREPARE" /\ Expects(r, m)
    /\ curProposal' = [curProposal EXCEPT ![r] = IF @ = NoCmd THEN m.cmd ELSE @]
    /\ \/ /\ ~AcceptsPrepare(r, m)
          /\ UNCHANGED <<phase, bs, timer, sent, curRound>>
       \/ /\ AcceptsPrepare(r, m)
          /\ phase' = [phase EXCEPT ![r] = "PREPARE"]
          /\ AdoptBlock(r, m.block)
          /\ timer' = [timer EXCEPT ![r] = TRUE]
          /\ Send(r, MkMsg("PREPARE_VOTE", m.view, r, {Leader(view[r])}, m.node, NilQC))
    /\ UNCHANGED <<view, hsNode, qcVars, ignoreCheckQC, lastRound, newViewMsgs,
                   voteVars, store, timeouts, reqVars>>

HandlePrepareVote(r, m) ==
    LET votes == AddVote(r, prepareVotes[r], m)
        qc    == MkQC("PREPARE", m.view, m.node, CombineSign(r))
    IN
    /\ m.type = "PREPARE_VOTE" /\ Expects(r, m)
    /\ prepareVotes' = [prepareVotes EXCEPT ![r] = votes]
    /\ \/ /\ ~QuorumOf(r, votes)
          /\ UNCHANGED <<phase, prepareQC, sent, curRound>>
       \/ /\ QuorumOf(r, votes)
          /\ prepareQC' = [prepareQC EXCEPT ![r] = qc]
          /\ phase' = [phase EXCEPT ![r] = "PRE_COMMIT"]
          /\ Send(r, MkMsg("PRE_COMMIT", view[r], r, Server, NilNode, qc))
    /\ UNCHANGED <<view, hsNode, lockedQC, curProposal, ignoreCheckQC, lastRound,
                   newViewMsgs, preCommitVotes, commitVotes, blkVars, timerVars, reqVars>>

\* A replica that missed PREPARE is still in NEW_VIEW and is let in here.
HandlePreCommit(r, m) ==
    /\ m.type = "PRE_COMMIT" /\ Expects(r, m)
    /\ hsNode' = [hsNode EXCEPT ![r] = m.justify.node]
    /\ prepareQC' = [prepareQC EXCEPT ![r] = m.justify]
    /\ phase' = [phase EXCEPT ![r] = "PRE_COMMIT"]
    /\ Send(r, MkMsg("PRE_COMMIT_VOTE", m.justify.view, r, {Leader(view[r])},
                     m.justify.node, NilQC))
    /\ UNCHANGED <<view, lockedQC, curProposal, ignoreCheckQC, lastRound, newViewMsgs,
                   voteVars, blkVars, timerVars, reqVars>>

HandlePreCommitVote(r, m) ==
    LET votes == AddVote(r, preCommitVotes[r], m)
        qc    == MkQC("PRE_COMMIT", m.view, m.node, CombineSign(r))
    IN
    /\ m.type = "PRE_COMMIT_VOTE" /\ Expects(r, m)
    /\ preCommitVotes' = [preCommitVotes EXCEPT ![r] = votes]
    /\ \/ /\ ~QuorumOf(r, votes)
          /\ UNCHANGED <<phase, lockedQC, sent, curRound>>
       \/ /\ QuorumOf(r, votes)
          /\ lockedQC' = [lockedQC EXCEPT ![r] = qc]
          /\ phase' = [phase EXCEPT ![r] = "COMMIT"]
          /\ Send(r, MkMsg("COMMIT", view[r], r, Server, NilNode, qc))
    /\ UNCHANGED <<view, hsNode, prepareQC, curProposal, ignoreCheckQC, lastRound,
                   newViewMsgs, prepareVotes, commitVotes, blkVars, timerVars, reqVars>>

\* Mutant: the vote is sent without locking
HandleCommitNoLock(r, m) ==
    /\ m.type = "COMMIT" /\ Expects(r, m)
    /\ phase' = [phase EXCEPT ![r] = "COMMIT"]
    /\ Send(r, MkMsg("COMMIT_VOTE", m.view, r, {Leader(view[r])}, m.justify.node, NilQC))
    /\ UNCHANGED <<view, hsNode, qcVars, curProposal, ignoreCheckQC, lastRound,
                   newViewMsgs, voteVars, blkVars, timerVars, reqVars>>

HandleCommit(r, m) ==
    /\ m.type = "COMMIT" /\ Expects(r, m)
    /\ lockedQC' = [lockedQC EXCEPT ![r] = m.justify]
    /\ phase' = [phase EXCEPT ![r] = "COMMIT"]
    /\ Send(r, MkMsg("COMMIT_VOTE", m.view, r, {Leader(view[r])}, m.justify.node, NilQC))
    /\ UNCHANGED <<view, hsNode, prepareQC, curProposal, ignoreCheckQC, lastRound,
                   newViewMsgs, voteVars, blkVars, timerVars, reqVars>>

\* The leader's own state does not change: it decides on its own broadcast,
\* and broadcasts once more for every further vote.
HandleCommitVote(r, m) ==
    LET votes == AddVote(r, commitVotes[r], m)
        qc    == MkQC("COMMIT", m.view, m.node, CombineSign(r))
    IN
    /\ m.type = "COMMIT_VOTE" /\ Expects(r, m)
    /\ commitVotes' = [commitVotes EXCEPT ![r] = votes]
    /\ \/ /\ ~QuorumOf(r, votes)
          /\ UNCHANGED <<sent, curRound>>
       \/ /\ QuorumOf(r, votes)
          /\ Send(r, MkMsg("DECIDE", view[r], r, Server, NilNode, qc))
    /\ UNCHANGED <<phase, view, hsNode, qcVars, curProposal, ignoreCheckQC, lastRound,
                   newViewMsgs, prepareVotes, preCommitVotes, blkVars, timerVars, reqVars>>

\* HandleDecide, NewRound and the tail of HandleBMsg: store the block, enter the
\* next view, report to its leader; a node without a proposal stays in DECIDE.
HandleDecide(r, m) ==
    /\ m.type = "DECIDE" /\ Expects(r, m)
    /\ view[r] < MaxView
    /\ StoreBlock(r)
    /\ NewRound(r)
    /\ view' = [view EXCEPT ![r] = @ + 1]
    /\ timer' = [timer EXCEPT ![r] = TRUE]
    /\ phase' = [phase EXCEPT ![r] =
                    IF curProposal[r] = NoCmd THEN "DECIDE" ELSE "NEW_VIEW"]
    /\ Send(r, MkMsg("NEW_VIEW", view[r] + 1, r, {Leader(view[r] + 1)}, NilNode,
                     prepareQC[r]))
    /\ UNCHANGED <<hsNode, qcVars, ignoreCheckQC, timeouts, reqVars>>

----------------------------------------------------------------------------
(* The view timer expires. The vote lists, the collected new-view messages,  *)
(* the proposal and LastRoundMsg are kept.                                   *)

\* Mutant: the view change starts from a fresh certificate
StartViewChangeReset(r) ==
    /\ timer[r]
    /\ timeouts < MaxTimeouts /\ view[r] < MaxView
    /\ timeouts' = timeouts + 1
    /\ view' = [view EXCEPT ![r] = @ + 1]
    /\ phase' = [phase EXCEPT ![r] = "NEW_VIEW"]
    /\ prepareQC' = [prepareQC EXCEPT ![r] = InitQC("COMMIT")]
    /\ Send(r, MkMsg("NEW_VIEW", view[r] + 1, r, {Leader(view[r] + 1)}, NilNode,
                     prepareQC[r]))
    /\ UNCHANGED <<hsNode, lockedQC, curProposal, ignoreCheckQC, lastRound, newViewMsgs,
                   voteVars, blkVars, timer, reqVars, rcvd>>

StartViewChange(r) ==
    /\ timer[r]
    /\ timeouts < MaxTimeouts /\ view[r] < MaxView
    /\ timeouts' = timeouts + 1
    /\ view' = [view EXCEPT ![r] = @ + 1]
    /\ phase' = [phase EXCEPT ![r] = "NEW_VIEW"]
    /\ Send(r, MkMsg("NEW_VIEW", view[r] + 1, r, {Leader(view[r] + 1)}, NilNode,
                     prepareQC[r]))
    /\ UNCHANGED <<hsNode, qcVars, curProposal, ignoreCheckQC, lastRound, newViewMsgs,
                   voteVars, blkVars, timer, reqVars, rcvd>>

----------------------------------------------------------------------------
(* Delivery and the specification *)

Pending(r, s) == {i \in rcvd[r][s] + 1 .. Len(sent[s]) : r \in sent[s][i].dst}

HandleBMsg(r, m) ==
    \/ Discard(r, m)
    \/ HandleNewView(r, m)
    \/ HandlePrepare(r, m)
    \/ HandlePrepareVote(r, m)
    \/ HandlePreCommit(r, m)
    \/ HandlePreCommitVote(r, m)
    \/ HandleCommit(r, m)
    \/ HandleCommitVote(r, m)
    \/ HandleDecide(r, m)

\* RouteServerMsg: r takes the next message that s sent to it
Receive(r, s) ==
    \E i \in Pending(r, s) :
        /\ \A j \in Pending(r, s) : i <= j
        /\ rcvd' = [rcvd EXCEPT ![r] = [@ EXCEPT ![s] = i]]
        /\ HandleBMsg(r, sent[s][i])

\* NewBCHotstuff on every node, InitLeader on r_0, then GenFirstRound
Init ==
    /\ phase = [r \in Server |-> IF r = 0 THEN "WAITING" ELSE "NEW_VIEW"]
    /\ view = [r \in Server |-> 0]
    /\ hsNode = [r \in Server |-> [cur |-> EmptyHash, parent |-> EmptyHash]]
    /\ prepareQC = [r \in Server |-> InitQC("COMMIT")]
    /\ lockedQC = [r \in Server |-> InitQC("PREPARE")]
    /\ curProposal = [r \in Server |-> NoCmd]
    /\ ignoreCheckQC = [r \in Server |-> r = 0]
    /\ curRound = [r \in Server |-> NoRound]
    /\ lastRound = [r \in Server |-> -1]
    /\ newViewMsgs = [r \in Server |-> IF r = 0 THEN {DummyNewView} ELSE {}]
    /\ prepareVotes = [r \in Server |-> {}]
    /\ preCommitVotes = [r \in Server |-> {}]
    /\ commitVotes = [r \in Server |-> {}]
    /\ bs = [r \in Server |-> [height |-> 0, pre |-> EmptyHash, cur |-> EmptyHash,
                               blk |-> EmptyBlock]]
    /\ store = [r \in Server |-> <<>>]
    /\ timer = [r \in Server |-> FALSE]
    /\ timeouts = 0
    /\ requests = [r \in Server |-> IF r = 0 THEN Genesis ELSE NoCmd]
    /\ reqFlag = [r \in Server |-> r = 0]
    /\ pool = ClientCmds
    /\ sent = [r \in Server |-> <<>>]
    /\ rcvd = [r \in Server |-> [s \in Server |-> 0]]

Next ==
    \/ \E r \in Server, c \in ClientCmds : GenNewReq(r, c)
    \/ \E r \in Server : HandleReq(r)
    \/ \E r, s \in Server : Receive(r, s)
    \/ \E r \in Server : StartViewChange(r)

Spec == Init /\ [][Next]_vars
----------------------------------------------------------------------------
(* Safety. Certificates are read off the votes that were really sent. *)

\* Everything s ever sent
Sent(s) == {sent[s][i] : i \in DOMAIN sent[s]}

Messages == UNION {Sent(s) : s \in Server}

\* The messages of type t
Said(t) == {m \in Messages : m.type = t}

VoteFor(t) == CASE t = "PREPARE"    -> "PREPARE_VOTE"
                [] t = "PRE_COMMIT" -> "PRE_COMMIT_VOTE"
                [] t = "COMMIT"     -> "COMMIT_VOTE"
                [] OTHER            -> "NONE"

Voters(t, v, n) ==
    {s \in Server : \E m \in Sent(s) :
        m.type = VoteFor(t) /\ m.view = v /\ m.node = n}

\* n has a certificate of type t in view v, whether or not a leader combined it
Certified(t, v, n) == Cardinality(Voters(t, v, n)) >= QuorumSize

\* Every variable keeps the type its field has in BCHotstuff and BlockStore.
TypeOK ==
    /\ phase \in [Server -> Phase]
    /\ view \in [Server -> 0 .. MaxView]
    /\ hsNode \in [Server -> HsNode]
    /\ prepareQC \in [Server -> QC]
    /\ lockedQC \in [Server -> QC]
    /\ curProposal \in [Server -> Cmd \cup {NoCmd}]
    /\ ignoreCheckQC \in [Server -> BOOLEAN]
    /\ curRound \in [Server -> Int]
    /\ lastRound \in [Server -> Int]
    /\ newViewMsgs \in [Server -> SUBSET Msg]
    /\ prepareVotes \in [Server -> SUBSET Msg]
    /\ preCommitVotes \in [Server -> SUBSET Msg]
    /\ commitVotes \in [Server -> SUBSET Msg]
    /\ bs \in [Server -> BlkStore]
    /\ store = [r \in Server |-> store[r]]
    /\ \A r \in Server : /\ DOMAIN store[r] \subseteq Int
                         /\ \A h \in DOMAIN store[r] : store[r][h] \in Block
    /\ timer \in [Server -> BOOLEAN]
    /\ timeouts \in Nat
    /\ requests \in [Server -> Cmd \cup {NoCmd}]
    /\ reqFlag \in [Server -> BOOLEAN]
    /\ pool \subseteq ClientCmds
    /\ sent \in [Server -> Seq(Msg)]
    /\ rcvd \in [Server -> [Server -> Nat]]

\* Whatever a node votes for in a view, in any of the three phases, is the one
\* node the leader of that view proposed: a leader never proposes twice in a
\* view, not even after a view change took it back to NEW_VIEW or WAITING.
OneNodePerView ==
    \A p \in Said("PREPARE"), m \in Messages :
        m.type \in VoteType /\ m.view = p.view => m.node = p.node

\* The lock: once a node n has a commit certificate in view v, every node that
\* gets a prepare certificate in a later view w was proposed on a certificate
\* of a view u with v <= u < w, and on n itself when u = v (SafeNode, HandleCommit).
LockSafety ==
    \A c, p \in Said("PREPARE") :
        /\ c.view < p.view
        /\ Certified("COMMIT", c.view, c.node)
        /\ Certified("PREPARE", p.view, p.node)
        => /\ c.view <= p.justify.view /\ p.justify.view < p.view
           /\ p.justify.view = c.view => p.node.parent = c.node.cur

\* The proposals whose nodes have a commit certificate
Decided == {p \in Said("PREPARE") : Certified("COMMIT", p.view, p.node)}

\* The nodes that leaders proposed, by their Cur and Parent hashes
Tree == INSTANCE Agreement WITH
            Root    <- NilHash,
            tree    <- {p.node : p \in Said("PREPARE")},
            decided <- {p.node : p \in Decided}

\* Nodes with a commit certificate lie on one branch: the one of the lower view
\* is an ancestor of the other through the parents of the nodes, whatever locks
\* and stale certificates the leaders in between used (SafeNode, GetHighQCIndex).
DecidedOnOneChain ==
    \A c, d \in Decided : c.view <= d.view => Tree!OnBranch(c.node, d.node)

\* The core implements the abstract tree: CreateLeaf gives every node a new hash
\* and hangs it under a certified one, and each commit certificate makes one more
\* node of a single branch final.
ImplementsAgreement == Tree!Spec

\* A node that told a leader it would commit never forgets it: the lock is at
\* least as high as every commit vote it sent, and the prepared certificate,
\* which its next new-view message carries, as high as the lock.
LockCoversVotes ==
    \A r \in Server :
        /\ \A m \in Said("COMMIT_VOTE") : m.src = r => lockedQC[r].view >= m.view
        /\ lockedQC[r].view <= prepareQC[r].view

\* The block a node writes when it decides a view is the one that the commit
\* certificate of that view names, not one left over from an earlier view.
StoresCertifiedBlock ==
    [][\A r \in Server : bs'[r].height # bs[r].height =>
          \E m \in Said("DECIDE") :
              /\ m.view = view[r]
              /\ ThresholdSignVerify(m.justify)
              /\ m.justify.node.cur = HashOf(bs[r].blk)]_vars

\* README: all honest nodes have the same data.
DataConsistence ==
    \A r, s \in Server : \A h \in DOMAIN store[r] \cap DOMAIN store[s] :
        store[r][h] = store[s][h]

\* A block file is never replaced by another block.
BlocksDurable ==
    [][\A r \in Server : \A h \in DOMAIN store[r] : store'[r][h] = store[r][h]]_vars

\* A lock and a prepared certificate only ever move to later views.
LocksMonotonic ==
    [][\A r \in Server : /\ lockedQC'[r].view >= lockedQC[r].view
                         /\ prepareQC'[r].view >= prepareQC[r].view]_vars
----------------------------------------------------------------------------
(* The inductive invariant behind OneNodePerView, LockCoversVotes and         *)
(* LockSafety, in parts. BasicHotStuffSafety proves that every step keeps it. *)

\* A certificate whose signature verifies was voted for by a quorum
Backed(qc) == ThresholdSignVerify(qc) => Certified(qc.type, qc.view, qc.node)

\* Nothing is sent for a view the sender has not reached, and a new-view message
\* carries a certificate of an earlier view.
SentInv(s) ==
    \A m \in Sent(s) :
        /\ m.src = s
        /\ 0 <= m.view /\ m.view <= view[s]
        /\ m.type = "NEW_VIEW" => m.justify.view < m.view

\* A proposal extends a valid certificate of an earlier view, or the nil
\* certificate of the dummy new-view message.
WellFormed(p) ==
    /\ p.node.cur.view = p.view
    /\ p.node.parent = p.justify.node.cur
    /\ p.view > 0 => p.justify.view < p.view
    /\ p.justify = NilQC \/ (p.justify.type = "PREPARE" /\ ThresholdSignVerify(p.justify))

\* A proposal is the only one of its view, made by the leader, who has left
\* NEW_VIEW and WAITING for good in that view.
ProposalInv(s) ==
    \A p \in Sent(s) : p.type = "PREPARE" =>
        /\ s = Leader(p.view)
        /\ WellFormed(p)
        /\ p.view = view[s] => phase[s] \notin {"NEW_VIEW", "WAITING"} /\ hsNode[s] = p.node
        /\ \A q \in Sent(s) : q.type = "PREPARE" /\ q.view = p.view => q = p

\* p is what s voted for with m; the certificate it carries is not older than
\* any commit vote s had sent before.
Justifies(s, m, p) ==
    /\ p.view = m.view /\ p.node = m.node
    /\ m.type = "PREPARE_VOTE" /\ m.view > 0 =>
          /\ p.justify # NilQC
          /\ \A c \in Sent(s) :
                c.type = "COMMIT_VOTE" /\ c.view < m.view => c.view <= p.justify.view

VoteInv(s) ==
    \A m \in Sent(s) : m.type \in VoteType =>
        \E p \in Said("PREPARE") : Justifies(s, m, p)

QCInv(s) ==
    /\ \A m \in Sent(s) : Backed(m.justify)
    /\ Backed(prepareQC[s]) /\ Backed(lockedQC[s])

\* A new-view message that HandleNewView has taken, or the one of InitLeader
Collected(r, m) ==
    \/ m = DummyNewView
    \/ /\ m \in Said("NEW_VIEW") /\ m.view <= view[r]
       /\ m.justify.type = "PREPARE" /\ ThresholdSignVerify(m.justify)

\* What a leader has collected was sent. Votes left over from an earlier view
\* stay in the lists, but a leader that has not reached PRE_COMMIT in its view
\* holds no pre-commit vote of that view.
ListInv(r) ==
    /\ \A m \in newViewMsgs[r] : Collected(r, m)
    /\ prepareVotes[r] \subseteq Said("PREPARE_VOTE")
    /\ commitVotes[r] \subseteq Said("COMMIT_VOTE")
    /\ \A m \in preCommitVotes[r] :
          /\ m \in Said("PRE_COMMIT_VOTE") /\ m.view <= view[r]
          /\ phase[r] \in {"NEW_VIEW", "WAITING", "PREPARE"} => m.view < view[r]

\* A leader past WAITING has proposed hsNode, and the votes it has collected for
\* the phase it is in are not a quorum yet.
LeaderInv(r) ==
    IsLeader(r) =>
        /\ phase[r] \in {"PREPARE", "PRE_COMMIT", "COMMIT"} =>
              \E p \in Sent(r) :
                  p.type = "PREPARE" /\ p.view = view[r] /\ p.node = hsNode[r]
        /\ phase[r] = "PREPARE" => ~QuorumOf(r, prepareVotes[r])
        /\ phase[r] = "PRE_COMMIT" => ~QuorumOf(r, preCommitVotes[r])

\* The order of the views of lock, prepared certificate and node
LockInv(r) ==
    /\ lockedQC[r].view <= prepareQC[r].view /\ prepareQC[r].view <= view[r]
    /\ phase[r] \in {"PRE_COMMIT", "COMMIT"} => prepareQC[r].view = view[r]
    /\ lockedQC[r] = InitQC("PREPARE") \/ ThresholdSignVerify(lockedQC[r])
    /\ \A m \in Sent(r) : m.type = "COMMIT_VOTE" => m.view <= lockedQC[r].view

\* CurProposalBlk of r is the block of the proposal that m makes or votes for
KeepsBlock(r, m) ==
    \E p \in Said("PREPARE") :
        p.view = m.view /\ p.node = m.node /\ bs[r].blk = p.block

\* As long as a node is in the view it has proposed or voted in, CurProposalBlk is
\* the block of that proposal; the leader of a view sends no prepare vote in it.
BlockInv(r) ==
    /\ \A p \in Sent(r) : p.type = "PREPARE" =>
          /\ p.node.cur = HashOf(p.block)
          /\ p.view = view[r] => KeepsBlock(r, p)
    /\ \A m \in Sent(r) : m.type = "PREPARE_VOTE" =>
          /\ r # Leader(m.view)
          /\ m.view = view[r] => phase[r] # "NEW_VIEW" /\ KeepsBlock(r, m)

BlocksInv == \A r \in Server : BlockInv(r)

\* HandlePreCommit and HandleCommit vote only on a certificate of the phase before.
PhaseInv ==
    /\ \A m \in Said("PRE_COMMIT_VOTE") : Certified("PREPARE", m.view, m.node)
    /\ \A m \in Said("COMMIT_VOTE") : Certified("PRE_COMMIT", m.view, m.node)

Inv ==
    \A r \in Server :
        /\ SentInv(r) /\ ProposalInv(r) /\ VoteInv(r) /\ QCInv(r)
        /\ ListInv(r) /\ LeaderInv(r) /\ LockInv(r)
----------------------------------------------------------------------------
(* Liveness *)

\* Every goroutine of a running server keeps going: the message loop, the
\* request loop, and the client's retry loop. Nothing makes a timer expire.
Fairness ==
    /\ \A r, s \in Server : WF_vars(Receive(r, s))
    /\ \A r \in Server : WF_vars(HandleReq(r))
    /\ WF_vars(\E r \in Server, c \in ClientCmds : GenNewReq(r, c))

FairSpec == Spec /\ Fairness

\* All nodes are in view v, its leader has just proposed, and the proposal is
\* still on its way to every replica.
InStep(v) ==
    LET l == Leader(v) IN
    \A r \in Server :
        /\ view[r] = v
        /\ IF r = l THEN phase[r] = "PREPARE"
           ELSE /\ phase[r] = "NEW_VIEW"
                /\ \E i \in Pending(r, l) : /\ sent[l][i].type = "PREPARE"
                                            /\ sent[l][i].view = v

\* A view in which the nodes are in step when the leader proposes runs through
\* all four phases on every node, however the messages are delayed, if no timer
\* expires.
RoundCompletes ==
    \A v \in 0 .. MaxView - 1 : InStep(v) ~> \A r \in Server : view[r] > v

\* The round of GenFirstRound gives every node the genesis block.
GenesisDecided ==
    <>(\A r \in Server : 0 \in DOMAIN store[r] /\ store[r][0].cmd = Genesis)
=============================================================================
