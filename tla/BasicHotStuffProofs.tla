------------------------- MODULE BasicHotStuffProofs -------------------------
(***************************************************************************)
(* Theorems about BasicHotStuff for every number of nodes that satisfies   *)
(* NAssumption, every set of commands, all bounds on expiries and all      *)
(* bounds on views below 256 (ViewAssumption).                             *)
(***************************************************************************)
EXTENDS BasicHotStuff, FiniteSetTheorems, TLAPS

----------------------------------------------------------------------------
(* Types *)

\* The leader of a view, NextView's Leader modulo NodesNum, is a node.
LEMMA LeaderType == ASSUME NEW v \in Nat PROVE Leader(v) \in Server
  BY NAssumption DEF Leader, Server

\* The constant values of the data structures have their types: the empty hash,
\* block and certificates NewBCHotstuff and InitLeader start from.
LEMMA ConstantTypes ==
    /\ EmptyHash \in Hash /\ NilHash \in Hash /\ EmptyBlock \in Block
    /\ NilNode \in HsNode /\ NoSign \in Sign /\ NilQC \in QC
    /\ InitQC("COMMIT") \in QC /\ InitQC("PREPARE") \in QC
    /\ DummyNewView \in Msg
<1>1. EmptyHash \in Hash /\ NilHash \in Hash /\ EmptyBlock \in Block
  BY DEF EmptyHash, NilHash, Hash, EmptyBlock, Block
<1>2. NilNode \in HsNode
  BY <1>1 DEF NilNode, HsNode
<1>3. NoSign \in Sign
  BY <1>2 DEF NoSign, Sign, SignType
<1>4. NilQC \in QC /\ InitQC("COMMIT") \in QC /\ InitQC("PREPARE") \in QC
  <2>1. [cur |-> EmptyHash, parent |-> NilHash] \in HsNode
    BY <1>1 DEF HsNode
  <2> QED  BY <2>1, <1>2, <1>3 DEF NilQC, InitQC, MkQC, QC, SignType
<1>5. DummyNewView \in Msg
  <2>1. [cur |-> EmptyHash, parent |-> EmptyHash] \in HsNode
    BY <1>1 DEF HsNode
  <2>2. {0} \in SUBSET Server /\ 0 \in Server
    BY NAssumption DEF Server
  <2> QED  BY <2>1, <2>2, <1>1, <1>4 DEF DummyNewView, MkMsg, Msg, MsgType
<1> QED  BY <1>1, <1>2, <1>3, <1>4, <1>5

\* A message without a proposal is a message (the votes and certificates).
LEMMA MkMsgType ==
    ASSUME NEW t \in MsgType, NEW v \in Int, NEW s \in Server, NEW d \in SUBSET Server,
           NEW n \in HsNode, NEW qc \in QC
    PROVE  MkMsg(t, v, s, d, n, qc) \in Msg
  BY ConstantTypes DEF MkMsg, Msg

\* The new-view message of HandleDecide and StartViewChange.
LEMMA NewViewMsgType ==
    ASSUME TypeOK, NEW r \in Server
    PROVE  MkMsg("NEW_VIEW", view[r] + 1, r, {Leader(view[r] + 1)}, NilNode,
                 prepareQC[r]) \in Msg
<1>1. view[r] + 1 \in Nat /\ prepareQC[r] \in QC
  BY DEF TypeOK
<1>2. {Leader(view[r] + 1)} \in SUBSET Server
  BY <1>1, LeaderType
<1>3. "NEW_VIEW" \in MsgType /\ view[r] + 1 \in Int /\ NilNode \in HsNode
  BY <1>1, ConstantTypes DEF MsgType
<1> QED  BY <1>1, <1>2, <1>3, MkMsgType

\* What a node sends is appended to its log (SendSerMsg).
LEMMA SendType ==
    ASSUME TypeOK, NEW r \in Server, NEW m \in Msg, Send(r, m)
    PROVE  sent' \in [Server -> Seq(Msg)] /\ curRound' \in [Server -> Int]
<1>1. m.view \in Int
  BY DEF Msg
<1> QED  BY <1>1 DEF TypeOK, Send

\* Block.Hash gives a hash.
LEMMA HashOfType == ASSUME NEW b \in Block PROVE HashOf(b) \in Hash
  BY DEF HashOf, Block, Hash

\* A new block and the node made of it have their types (GenNewBlock, CreateLeaf).
LEMMA NewBlockType ==
    ASSUME TypeOK, NEW r \in Server, NEW c \in Cmd \cup {NoCmd}, NEW qc \in QC
    PROVE  /\ NewBlock(r, c) \in Block
           /\ CreateLeaf(r, c, qc) \in HsNode
<1>1. NewBlock(r, c) \in Block
  <2>1. Len(sent[r]) \in Int /\ view[r] \in Int
    BY DEF TypeOK
  <2>2. bs[r].height \in Int /\ bs[r].pre \in Hash
    BY DEF TypeOK, BlkStore
  <2> QED  BY <2>1, <2>2 DEF NewBlock, Block
<1>2. CreateLeaf(r, c, qc) \in HsNode
  BY <1>1, HashOfType DEF CreateLeaf, HsNode, QC
<1> QED  BY <1>1, <1>2

\* Propose keeps the types of what it changes.
LEMMA ProposeType ==
    ASSUME TypeOK, NEW r \in Server, NEW c \in Cmd, NEW msgs \in SUBSET Msg,
           Propose(r, c, msgs)
    PROVE  /\ phase' \in [Server -> Phase]
           /\ bs' \in [Server -> BlkStore]
           /\ hsNode' \in [Server -> HsNode]
           /\ timer' \in [Server -> BOOLEAN]
           /\ sent' \in [Server -> Seq(Msg)]
           /\ curRound' \in [Server -> Int]
<1>1. PICK h \in msgs :
        /\ phase' = [phase EXCEPT ![r] = "PREPARE"]
        /\ AdoptBlock(r, NewBlock(r, c))
        /\ hsNode' = [hsNode EXCEPT ![r] = CreateLeaf(r, c, h.justify)]
        /\ timer' = [timer EXCEPT ![r] = TRUE]
        /\ Send(r, [type |-> "PREPARE", view |-> view[r], src |-> r,
                    dst |-> Server, node |-> CreateLeaf(r, c, h.justify),
                    justify |-> h.justify, cmd |-> c, block |-> NewBlock(r, c)])
  BY DEF Propose
<1>2. h.justify \in QC
  BY DEF Msg
<1>3. NewBlock(r, c) \in Block /\ CreateLeaf(r, c, h.justify) \in HsNode
  BY <1>2, NewBlockType
<1>4. phase' \in [Server -> Phase] /\ hsNode' \in [Server -> HsNode]
      /\ timer' \in [Server -> BOOLEAN]
  BY <1>1, <1>3 DEF TypeOK, Phase
<1>5. bs' \in [Server -> BlkStore]
  <2>1. HashOf(NewBlock(r, c)) \in Hash /\ bs[r] \in BlkStore
    BY <1>3, HashOfType DEF TypeOK
  <2>2. [bs[r] EXCEPT !.blk = NewBlock(r, c), !.cur = HashOf(NewBlock(r, c))] \in BlkStore
    BY <1>3, <2>1 DEF BlkStore
  <2> QED  BY <1>1, <2>2 DEF TypeOK, AdoptBlock
<1>6. [type |-> "PREPARE", view |-> view[r], src |-> r,
       dst |-> Server, node |-> CreateLeaf(r, c, h.justify),
       justify |-> h.justify, cmd |-> c, block |-> NewBlock(r, c)] \in Msg
  BY <1>2, <1>3 DEF Msg, MsgType, TypeOK
<1>7. sent' \in [Server -> Seq(Msg)] /\ curRound' \in [Server -> Int]
  BY <1>1, <1>6, SendType
<1> QED  BY <1>4, <1>5, <1>7

\* The client and the request loop keep the types.
LEMMA RequestType ==
    ASSUME TypeOK, NEW r \in Server,
           HandleReq(r) \/ \E c \in ClientCmds : GenNewReq(r, c)
    PROVE  TypeOK'
<1>1. CASE \E c \in ClientCmds : GenNewReq(r, c)
  <2>1. PICK c \in ClientCmds : GenNewReq(r, c)
    BY <1>1
  <2>2. c \in Cmd \cup {NoCmd}
    BY DEF Cmd
  <2>3. requests' \in [Server -> Cmd \cup {NoCmd}] /\ reqFlag' \in [Server -> BOOLEAN]
        /\ pool' \subseteq ClientCmds
    BY <2>1, <2>2 DEF GenNewReq, TypeOK
  <2> QED
    BY <2>1, <2>3 DEF TypeOK, GenNewReq, qcVars, roundVars, voteVars, blkVars,
                      timerVars, netVars
<1>2. CASE HandleReq(r)
  <2>1. requests' \in [Server -> Cmd \cup {NoCmd}] /\ reqFlag' \in [Server -> BOOLEAN]
        /\ curProposal' \in [Server -> Cmd \cup {NoCmd}]
    BY <1>2 DEF TypeOK, HandleReq
  <2>2. /\ phase' \in [Server -> Phase] /\ bs' \in [Server -> BlkStore]
        /\ hsNode' \in [Server -> HsNode] /\ timer' \in [Server -> BOOLEAN]
        /\ sent' \in [Server -> Seq(Msg)] /\ curRound' \in [Server -> Int]
        /\ ignoreCheckQC' \in [Server -> BOOLEAN]
    <3>1. CASE requests[r] # NoCmd /\ IsLeader(r) /\ CanGenProposal(r)
      <4>1. Propose(r, requests[r], newViewMsgs[r])
            /\ ignoreCheckQC' = [ignoreCheckQC EXCEPT ![r] = FALSE]
        BY <1>2, <3>1 DEF HandleReq
      <4>2. requests[r] \in Cmd /\ newViewMsgs[r] \in SUBSET Msg
        BY <3>1 DEF TypeOK
      <4>3. ignoreCheckQC' \in [Server -> BOOLEAN]
        BY <4>1 DEF TypeOK
      <4> QED  BY <4>1, <4>2, <4>3, ProposeType
    <3>2. CASE ~(requests[r] # NoCmd /\ IsLeader(r) /\ CanGenProposal(r))
      BY <1>2, <3>2 DEF HandleReq, TypeOK
    <3> QED  BY <3>1, <3>2
  <2> QED  BY <1>2, <2>1, <2>2 DEF TypeOK, HandleReq, qcVars, voteVars
<1> QED  BY <1>1, <1>2

\* A view is a number that one byte holds.
LEMMA ViewByte ==
    ASSUME TypeOK, NEW r \in Server
    PROVE  view[r] \in Nat /\ view[r] <= MaxView /\ view[r] % 256 = view[r]
<1>1. view[r] \in 0 .. MaxView
  BY DEF TypeOK
<1> QED  BY <1>1, BoundAssumption, ViewAssumption

\* The view change keeps the types.
LEMMA ViewChangeType ==
    ASSUME TypeOK, NEW r \in Server, StartViewChange(r)
    PROVE  TypeOK'
<1>1. sent' \in [Server -> Seq(Msg)] /\ curRound' \in [Server -> Int]
  BY NewViewMsgType, SendType DEF StartViewChange
<1>2. /\ view' \in [Server -> 0 .. MaxView] /\ phase' \in [Server -> Phase]
      /\ timeouts' \in Nat
  BY BoundAssumption DEF StartViewChange, TypeOK, Phase
<1> QED  BY <1>1, <1>2 DEF TypeOK, StartViewChange, qcVars, voteVars, blkVars, reqVars

\* A certificate the leader combines has its type.
LEMMA CombineType ==
    ASSUME TypeOK, NEW r \in Server, NEW m \in Msg,
           NEW t \in {"PREPARE", "PRE_COMMIT", "COMMIT"}, phase[r] = t
    PROVE  MkQC(t, m.view, m.node, CombineSign(r)) \in QC
<1>1. CombineSign(r) \in Sign
  <2>1. view[r] \in Nat /\ hsNode[r] \in HsNode
    BY DEF TypeOK
  <2>2. view[r] % 256 \in 0 .. 255
    BY <2>1
  <2> QED  BY <2>1, <2>2 DEF CombineSign, SignedContent, Sign, SignType
<1> QED  BY <1>1 DEF MkQC, QC, SignType, Msg

\* A vote list keeps its type.
LEMMA AddVoteType ==
    ASSUME TypeOK, NEW r \in Server, NEW m \in Msg, NEW votes \in SUBSET Msg
    PROVE  AddVote(r, votes, m) \in SUBSET Msg
  BY DEF AddVote

\* The handlers of the messages a leader takes keep the types.
LEMMA LeaderHandlerType ==
    ASSUME TypeOK, NEW r \in Server, NEW m \in Msg,
           rcvd' \in [Server -> [Server -> Nat]],
           \/ HandleNewView(r, m) \/ HandlePrepareVote(r, m)
           \/ HandlePreCommitVote(r, m) \/ HandleCommitVote(r, m)
    PROVE  TypeOK'
<1>0. view[r] \in Int /\ Server \in SUBSET Server /\ NilNode \in HsNode
  BY ConstantTypes DEF TypeOK
<1>1. CASE HandleNewView(r, m)
  <2> DEFINE msgs == IF m.view = view[r] /\ CheckQC(m.justify, "PREPARE", LastRoundView(r))
                     THEN newViewMsgs[r] \cup {m} ELSE newViewMsgs[r]
  <2>1. msgs \in SUBSET Msg
    BY DEF TypeOK
  <2>2. newViewMsgs' \in [Server -> SUBSET Msg]
    <3>1. newViewMsgs' = [newViewMsgs EXCEPT ![r] = msgs]
      BY <1>1 DEF HandleNewView
    <3> HIDE DEF msgs
    <3> QED  BY <3>1, <2>1 DEF TypeOK
  <2>3. /\ phase' \in [Server -> Phase] /\ bs' \in [Server -> BlkStore]
        /\ hsNode' \in [Server -> HsNode] /\ timer' \in [Server -> BOOLEAN]
        /\ sent' \in [Server -> Seq(Msg)] /\ curRound' \in [Server -> Int]
    <3>1. CASE UNCHANGED <<phase, bs, hsNode, timer, sent, curRound>>
      BY <3>1 DEF TypeOK
    <3>2. CASE /\ phase' = [phase EXCEPT ![r] = "WAITING"]
               /\ UNCHANGED <<bs, hsNode, timer, sent, curRound>>
      BY <3>2 DEF TypeOK, Phase
    <3>3. CASE curProposal[r] # NoCmd /\ Propose(r, curProposal[r], msgs)
      <4>1. curProposal[r] \in Cmd
        BY <3>3 DEF TypeOK
      <4> HIDE DEF msgs
      <4> QED  BY <3>3, <4>1, <2>1, ProposeType
    <3> QED  BY <1>1, <3>1, <3>2, <3>3 DEF HandleNewView
  <2> QED
    BY <1>1, <2>2, <2>3 DEF HandleNewView, TypeOK, qcVars, voteVars, reqVars
<1>2. CASE HandlePrepareVote(r, m)
  <2> DEFINE qc == MkQC("PREPARE", m.view, m.node, CombineSign(r))
  <2>1. qc \in QC
    BY <1>2, CombineType DEF HandlePrepareVote, Expects
  <2>2. prepareVotes' \in [Server -> SUBSET Msg]
    BY <1>2, AddVoteType DEF HandlePrepareVote, TypeOK
  <2>3. /\ phase' \in [Server -> Phase] /\ prepareQC' \in [Server -> QC]
        /\ sent' \in [Server -> Seq(Msg)] /\ curRound' \in [Server -> Int]
    <3>1. CASE UNCHANGED <<phase, prepareQC, sent, curRound>>
      BY <3>1 DEF TypeOK
    <3>2. CASE /\ prepareQC' = [prepareQC EXCEPT ![r] = qc]
               /\ phase' = [phase EXCEPT ![r] = "PRE_COMMIT"]
               /\ Send(r, MkMsg("PRE_COMMIT", view[r], r, Server, NilNode, qc))
      <4> HIDE DEF qc
      <4>1. MkMsg("PRE_COMMIT", view[r], r, Server, NilNode, qc) \in Msg
        BY <1>0, <2>1, MkMsgType DEF MsgType
      <4> QED  BY <3>2, <4>1, <2>1, SendType DEF TypeOK, Phase
    <3> QED  BY <1>2, <3>1, <3>2 DEF HandlePrepareVote
  <2> QED
    BY <1>2, <2>2, <2>3 DEF HandlePrepareVote, TypeOK, blkVars, timerVars, reqVars
<1>3. CASE HandlePreCommitVote(r, m)
  <2> DEFINE qc == MkQC("PRE_COMMIT", m.view, m.node, CombineSign(r))
  <2>1. qc \in QC
    BY <1>3, CombineType DEF HandlePreCommitVote, Expects
  <2>2. preCommitVotes' \in [Server -> SUBSET Msg]
    BY <1>3, AddVoteType DEF HandlePreCommitVote, TypeOK
  <2>3. /\ phase' \in [Server -> Phase] /\ lockedQC' \in [Server -> QC]
        /\ sent' \in [Server -> Seq(Msg)] /\ curRound' \in [Server -> Int]
    <3>1. CASE UNCHANGED <<phase, lockedQC, sent, curRound>>
      BY <3>1 DEF TypeOK
    <3>2. CASE /\ lockedQC' = [lockedQC EXCEPT ![r] = qc]
               /\ phase' = [phase EXCEPT ![r] = "COMMIT"]
               /\ Send(r, MkMsg("COMMIT", view[r], r, Server, NilNode, qc))
      <4> HIDE DEF qc
      <4>1. MkMsg("COMMIT", view[r], r, Server, NilNode, qc) \in Msg
        BY <1>0, <2>1, MkMsgType DEF MsgType
      <4> QED  BY <3>2, <4>1, <2>1, SendType DEF TypeOK, Phase
    <3> QED  BY <1>3, <3>1, <3>2 DEF HandlePreCommitVote
  <2> QED
    BY <1>3, <2>2, <2>3 DEF HandlePreCommitVote, TypeOK, blkVars, timerVars, reqVars
<1>4. CASE HandleCommitVote(r, m)
  <2> DEFINE qc == MkQC("COMMIT", m.view, m.node, CombineSign(r))
  <2>1. qc \in QC
    BY <1>4, CombineType DEF HandleCommitVote, Expects
  <2>2. commitVotes' \in [Server -> SUBSET Msg]
    BY <1>4, AddVoteType DEF HandleCommitVote, TypeOK
  <2>3. sent' \in [Server -> Seq(Msg)] /\ curRound' \in [Server -> Int]
    <3>1. CASE UNCHANGED <<sent, curRound>>
      BY <3>1 DEF TypeOK
    <3>2. CASE Send(r, MkMsg("DECIDE", view[r], r, Server, NilNode, qc))
      <4> HIDE DEF qc
      <4>1. MkMsg("DECIDE", view[r], r, Server, NilNode, qc) \in Msg
        BY <1>0, <2>1, MkMsgType DEF MsgType
      <4> QED  BY <3>2, <4>1, SendType
    <3> QED  BY <1>4, <3>1, <3>2 DEF HandleCommitVote
  <2> QED
    BY <1>4, <2>2, <2>3 DEF HandleCommitVote, TypeOK, qcVars, blkVars, timerVars, reqVars
<1> QED  BY <1>1, <1>2, <1>3, <1>4

\* The handlers of the messages a replica takes keep the types.
LEMMA ReplicaHandlerType ==
    ASSUME TypeOK, NEW r \in Server, NEW m \in Msg,
           rcvd' \in [Server -> [Server -> Nat]],
           HandlePrepare(r, m) \/ HandlePreCommit(r, m) \/ HandleCommit(r, m)
    PROVE  TypeOK'
<1>0. /\ view[r] \in Nat /\ {Leader(view[r])} \in SUBSET Server
      /\ m.view \in Int /\ m.node \in HsNode /\ m.cmd \in Cmd \cup {NoCmd}
      /\ m.block \in Block /\ m.justify \in QC
      /\ m.justify.view \in Int /\ m.justify.node \in HsNode /\ NilQC \in QC
  <2>1. view[r] \in Nat /\ {Leader(view[r])} \in SUBSET Server
    BY LeaderType DEF TypeOK
  <2>2. m.view \in Int /\ m.node \in HsNode /\ m.cmd \in Cmd \cup {NoCmd}
        /\ m.block \in Block /\ m.justify \in QC
    BY DEF Msg
  <2>3. m.justify.view \in Int /\ m.justify.node \in HsNode
    BY <2>2 DEF QC
  <2> QED  BY <2>1, <2>2, <2>3, ConstantTypes
<1>1. CASE HandlePrepare(r, m)
  <2>1. curProposal' \in [Server -> Cmd \cup {NoCmd}]
    BY <1>0, <1>1 DEF HandlePrepare, TypeOK
  <2>2. /\ phase' \in [Server -> Phase] /\ bs' \in [Server -> BlkStore]
        /\ timer' \in [Server -> BOOLEAN]
        /\ sent' \in [Server -> Seq(Msg)] /\ curRound' \in [Server -> Int]
    <3>1. CASE UNCHANGED <<phase, bs, timer, sent, curRound>>
      BY <3>1 DEF TypeOK
    <3>2. CASE /\ phase' = [phase EXCEPT ![r] = "PREPARE"]
               /\ AdoptBlock(r, m.block)
               /\ timer' = [timer EXCEPT ![r] = TRUE]
               /\ Send(r, MkMsg("PREPARE_VOTE", m.view, r, {Leader(view[r])}, m.node, NilQC))
      <4>1. MkMsg("PREPARE_VOTE", m.view, r, {Leader(view[r])}, m.node, NilQC) \in Msg
        BY <1>0, MkMsgType DEF MsgType, VoteType
      <4>2. bs' \in [Server -> BlkStore]
        <5>1. HashOf(m.block) \in Hash /\ bs[r] \in BlkStore
          BY <1>0, HashOfType DEF TypeOK
        <5>2. [bs[r] EXCEPT !.blk = m.block, !.cur = HashOf(m.block)] \in BlkStore
          BY <1>0, <5>1 DEF BlkStore
        <5> QED  BY <3>2, <5>2 DEF TypeOK, AdoptBlock
      <4> QED  BY <3>2, <4>1, <4>2, SendType DEF TypeOK, Phase
    <3> QED  BY <1>1, <3>1, <3>2 DEF HandlePrepare
  <2> QED
    BY <1>1, <2>1, <2>2 DEF HandlePrepare, TypeOK, qcVars, voteVars, reqVars
<1>2. CASE HandlePreCommit(r, m)
  <2>1. MkMsg("PRE_COMMIT_VOTE", m.justify.view, r, {Leader(view[r])},
              m.justify.node, NilQC) \in Msg
    BY <1>0, MkMsgType DEF MsgType, VoteType
  <2>2. sent' \in [Server -> Seq(Msg)] /\ curRound' \in [Server -> Int]
    BY <1>2, <2>1, SendType DEF HandlePreCommit
  <2>3. hsNode' \in [Server -> HsNode] /\ prepareQC' \in [Server -> QC]
        /\ phase' \in [Server -> Phase]
    BY <1>0, <1>2 DEF HandlePreCommit, TypeOK, Phase
  <2> QED
    BY <1>2, <2>2, <2>3 DEF HandlePreCommit, TypeOK, voteVars, blkVars, timerVars, reqVars
<1>3. CASE HandleCommit(r, m)
  <2>1. MkMsg("COMMIT_VOTE", m.view, r, {Leader(view[r])}, m.justify.node, NilQC) \in Msg
    BY <1>0, MkMsgType DEF MsgType, VoteType
  <2>2. sent' \in [Server -> Seq(Msg)] /\ curRound' \in [Server -> Int]
    BY <1>3, <2>1, SendType DEF HandleCommit
  <2>3. lockedQC' \in [Server -> QC] /\ phase' \in [Server -> Phase]
    BY <1>0, <1>3 DEF HandleCommit, TypeOK, Phase
  <2> QED
    BY <1>3, <2>2, <2>3 DEF HandleCommit, TypeOK, voteVars, blkVars, timerVars, reqVars
<1> QED  BY <1>1, <1>2, <1>3

\* Deciding keeps the types: the block is filed under its own height.
LEMMA DecideType ==
    ASSUME TypeOK, NEW r \in Server, NEW m \in Msg,
           rcvd' \in [Server -> [Server -> Nat]], HandleDecide(r, m)
    PROVE  TypeOK'
<1>1. sent' \in [Server -> Seq(Msg)] /\ curRound' \in [Server -> Int]
  BY NewViewMsgType, SendType DEF HandleDecide
<1>2. bs' \in [Server -> BlkStore]
  <2>1. bs[r] \in BlkStore /\ NilHash \in Hash
    BY ConstantTypes DEF TypeOK
  <2>2. [height |-> bs[r].height + 1, pre |-> bs[r].cur, cur |-> NilHash,
         blk |-> bs[r].blk] \in BlkStore
    BY <2>1 DEF BlkStore
  <2> QED  BY <2>2 DEF HandleDecide, StoreBlock, TypeOK
<1>3. /\ store' = [q \in Server |-> store'[q]]
      /\ \A q \in Server : /\ DOMAIN store'[q] \subseteq Int
                           /\ \A h \in DOMAIN store'[q] : store'[q][h] \in Block
  <2> DEFINE files == WriteBlock(store[r], bs[r].blk)
  <2>1. bs[r].blk \in Block /\ bs[r].blk.height \in Int
    BY DEF TypeOK, BlkStore, Block
  <2>2. DOMAIN files \subseteq Int /\ \A h \in DOMAIN files : files[h] \in Block
    BY <2>1 DEF WriteBlock, TypeOK
  <2>3. store' = [store EXCEPT ![r] = files]
    BY DEF HandleDecide, StoreBlock
  <2>4. store = [q \in Server |-> store[q]]
    BY DEF TypeOK
  <2>5. \A q \in Server : /\ DOMAIN store[q] \subseteq Int
                          /\ \A h \in DOMAIN store[q] : store[q][h] \in Block
    BY DEF TypeOK
  <2> HIDE DEF files
  <2>6. DOMAIN store = Server
    BY <2>4
  <2>7. store' = [q \in Server |-> IF q = r THEN files ELSE store[q]]
    BY <2>3, <2>6
  <2> QED  BY <2>2, <2>5, <2>7
<1>4. /\ view' \in [Server -> 0 .. MaxView] /\ phase' \in [Server -> Phase]
      /\ timer' \in [Server -> BOOLEAN]
  BY BoundAssumption DEF HandleDecide, TypeOK, Phase
<1>5. /\ newViewMsgs' \in [Server -> SUBSET Msg] /\ prepareVotes' \in [Server -> SUBSET Msg]
      /\ preCommitVotes' \in [Server -> SUBSET Msg] /\ commitVotes' \in [Server -> SUBSET Msg]
      /\ lastRound' \in [Server -> Int] /\ curProposal' \in [Server -> Cmd \cup {NoCmd}]
  BY DEF HandleDecide, NewRound, TypeOK
<1> QED
  BY <1>1, <1>2, <1>3, <1>4, <1>5 DEF HandleDecide, TypeOK, qcVars, reqVars

\* Every step keeps the types.
LEMMA TypeStep == TypeOK /\ [Next]_vars => TypeOK'
<1> SUFFICES ASSUME TypeOK, [Next]_vars PROVE TypeOK'
  OBVIOUS
<1>1. CASE \E r \in Server, c \in ClientCmds : GenNewReq(r, c)
  BY <1>1, RequestType
<1>2. CASE \E r \in Server : HandleReq(r)
  BY <1>2, RequestType
<1>3. CASE \E r, s \in Server : Receive(r, s)
  <2>1. PICK r \in Server, s \in Server : Receive(r, s)
    BY <1>3
  <2>2. PICK i \in Pending(r, s) :
          rcvd' = [rcvd EXCEPT ![r] = [@ EXCEPT ![s] = i]] /\ HandleBMsg(r, sent[s][i])
    BY <2>1 DEF Receive
  <2> DEFINE m == sent[s][i]
  <2>3. i \in Nat /\ m \in Msg
    <3>1. i \in rcvd[r][s] + 1 .. Len(sent[s]) /\ rcvd[r][s] \in Nat /\ sent[s] \in Seq(Msg)
      BY DEF Pending, TypeOK
    <3>2. i \in 1 .. Len(sent[s])
      BY <3>1
    <3> QED  BY <3>1, <3>2
  <2>4. rcvd' \in [Server -> [Server -> Nat]]
    BY <2>2, <2>3 DEF TypeOK
  <2>5. CASE Discard(r, m)
    BY <2>4, <2>5 DEF Discard, TypeOK, qcVars, roundVars, voteVars, blkVars, timerVars, reqVars
  <2>6. HandleBMsg(r, m)
    BY <2>2
  <2> HIDE DEF m
  <2> QED
    BY <2>3, <2>4, <2>5, <2>6, LeaderHandlerType, ReplicaHandlerType, DecideType DEF HandleBMsg
<1>4. CASE \E r \in Server : StartViewChange(r)
  BY <1>4, ViewChangeType
<1>5. CASE UNCHANGED vars
  BY <1>5 DEF vars, TypeOK, qcVars, roundVars, voteVars, blkVars, timerVars, reqVars, netVars
<1> QED  BY <1>1, <1>2, <1>3, <1>4, <1>5 DEF Next

\* The first round starts well typed.
LEMMA TypeInit == Init => TypeOK
<1> SUFFICES ASSUME Init PROVE TypeOK
  OBVIOUS
<1>1. 0 \in Server /\ Genesis \in Cmd
  BY NAssumption DEF Server, Cmd
<1>2. [cur |-> EmptyHash, parent |-> EmptyHash] \in HsNode
      /\ [height |-> 0, pre |-> EmptyHash, cur |-> EmptyHash, blk |-> EmptyBlock] \in BlkStore
  BY ConstantTypes DEF HsNode, BlkStore
<1>3. /\ store = [q \in Server |-> store[q]]
      /\ \A q \in Server : /\ DOMAIN store[q] \subseteq Int
                           /\ \A h \in DOMAIN store[q] : store[q][h] \in Block
  BY DEF Init
<1>4. /\ hsNode \in [Server -> HsNode] /\ bs \in [Server -> BlkStore]
      /\ prepareQC \in [Server -> QC] /\ lockedQC \in [Server -> QC]
  BY <1>2, ConstantTypes DEF Init
<1>5. /\ newViewMsgs \in [Server -> SUBSET Msg] /\ prepareVotes \in [Server -> SUBSET Msg]
      /\ preCommitVotes \in [Server -> SUBSET Msg] /\ commitVotes \in [Server -> SUBSET Msg]
  BY ConstantTypes DEF Init
<1>6. /\ phase \in [Server -> Phase] /\ view \in [Server -> 0 .. MaxView]
      /\ curProposal \in [Server -> Cmd \cup {NoCmd}] /\ ignoreCheckQC \in [Server -> BOOLEAN]
      /\ curRound \in [Server -> Int] /\ lastRound \in [Server -> Int]
  BY BoundAssumption DEF Init, Phase, NoRound
<1>7. /\ timer \in [Server -> BOOLEAN] /\ timeouts \in Nat
      /\ requests \in [Server -> Cmd \cup {NoCmd}] /\ reqFlag \in [Server -> BOOLEAN]
      /\ pool \subseteq ClientCmds /\ rcvd \in [Server -> [Server -> Nat]]
  BY <1>1 DEF Init
<1>8. sent \in [Server -> Seq(Msg)]
  BY DEF Init
<1> QED  BY <1>3, <1>4, <1>5, <1>6, <1>7, <1>8 DEF TypeOK

\* The fields of every node, its store and its channels keep their types.
THEOREM TypeCorrect == Spec => []TypeOK
  BY TypeInit, TypeStep, PTL DEF Spec
=============================================================================
