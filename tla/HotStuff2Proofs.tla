---------------------------- MODULE HotStuff2Proofs ----------------------------
(***************************************************************************)
(* HotStuff-2 keeps its types, and every certificate that verifies has a   *)
(* quorum of votes behind it on what it signs, for every number of nodes,  *)
(* every set of batches and every number of views and expiries.            *)
(***************************************************************************)
EXTENDS HotStuff2, FiniteSetTheorems, SequenceTheorems, WellFoundedInduction, TLAPS

----------------------------------------------------------------------------
(* Numbers and sequences *)

\* A non-empty set of numbers has a least one.
LEMMA LeastNumber ==
    ASSUME NEW T \in SUBSET Nat, T # {}
    PROVE  Min(T) \in T /\ \A y \in T : Min(T) <= y
<1>1. PICK x \in T : \A y \in T : ~ (<<y, x>> \in OpToRel(<, Nat))
  BY NatLessThanWellFounded, WFMin, Zenon
<1>2. \A y \in T : ~ (y < x)
  BY <1>1 DEF OpToRel
<1>3. \A y \in T : x <= y
  BY <1>2
<1> QED  BY <1>3 DEF Min

\* A non-empty set of positions in a list has a last one: the least of those that
\* bound the set.
LEMMA LastNumber ==
    ASSUME NEW n \in Nat, NEW T \in SUBSET (1 .. n), T # {}
    PROVE  Max(T) \in T
<1> DEFINE U == {k \in Nat : \A y \in T : y <= k}
           x == Min(U)
<1>1. U \in SUBSET Nat /\ n \in U
  OBVIOUS
<1>2. x \in U /\ \A y \in U : x <= y
  <2> HIDE DEF U
  <2> QED  BY <1>1, LeastNumber
<1> HIDE DEF x
<1>3. x \in Nat /\ \A y \in T : y <= x
  BY <1>2
<1>4. x \in T
  <2> SUFFICES ASSUME x \notin T PROVE FALSE
    OBVIOUS
  <2>0. PICK z \in T : z \in 1 .. n
    OBVIOUS
  <2>1. x > 0
    BY <1>3, <2>0
  <2>2. x - 1 \in Nat /\ \A y \in T : y <= x - 1
    BY <1>3, <2>1
  <2>3. x - 1 \in U
    BY <2>2
  <2> QED  BY <1>2, <1>3, <2>3
<1> QED  BY <1>3, <1>4 DEF Max

\* A list of things has a length, and its items are the things.
LEMMA ItemType ==
    ASSUME NEW S, NEW s \in Seq(S)
    PROVE  /\ Len(s) \in Nat /\ DOMAIN s = 1 .. Len(s)
           /\ \A i \in DOMAIN s : s[i] \in S
  OBVIOUS

\* A piece of a list is a list of the same things.
LEMMA PieceType ==
    ASSUME NEW S, NEW s \in Seq(S), NEW a \in 1 .. Len(s) + 1, NEW b \in 0 .. Len(s)
    PROVE  /\ SubSeq(s, a, b) \in Seq(S)
           /\ Len(SubSeq(s, a, b)) \in Nat
<1>1. \A i \in a .. b : s[i] \in S
  OBVIOUS
<1>2. a \in Int /\ b \in Int
  OBVIOUS
<1>3. SubSeq(s, a, b) \in Seq(S)
  BY <1>1, <1>2, SubSeqProperties
<1> QED  BY <1>3

----------------------------------------------------------------------------
(* Types *)

LockedList == Seq([blk : Block, node : HsNode])

\* The files of a node hold blocks.
Files(files) == \A h \in DOMAIN files : files[h] \in Block

\* The leader of a view is a node, and a quorum is not empty.
LEMMA LeaderType == ASSUME NEW v \in Nat PROVE Leader(v) \in Server
  BY NAssumption DEF Leader, Server

LEMMA QuorumType == QuorumSize \in Nat /\ QuorumSize > 0
<1>1. (N - 1) \div 3 \in Nat
  BY NAssumption
<1> QED  BY <1>1 DEF QuorumSize

\* What a node starts with is of the types.
LEMMA ConstantTypes ==
    /\ EmptyHash \in Hash /\ NilHash \in Hash /\ EmptyBlock \in Block
    /\ NilNode \in HsNode /\ NoSign \in Sign /\ NilQC \in QuromCert
<1>1. EmptyHash \in Hash /\ NilHash \in Hash /\ EmptyBlock \in Block
  BY DEF EmptyHash, NilHash, Hash, EmptyBlock, Block
<1>2. NilNode \in HsNode
  BY <1>1 DEF NilNode, HsNode
<1>3. NoSign \in Sign
  BY <1>2 DEF NoSign, Sign
<1>4. NilQC \in QuromCert
  BY <1>2, <1>3 DEF NilQC, QuromCert
<1> QED  BY <1>1, <1>2, <1>3, <1>4

\* A hash is made of a block, and signed content of a view and a node.
LEMMA HashOfType == ASSUME NEW b \in Block PROVE HashOf(b) \in Hash
  BY DEF HashOf, Block, Hash

LEMMA SignedType ==
    ASSUME NEW t \in {"PROPOSE", "PREPARE", "WISH"}, NEW v \in Int, NEW n \in HsNode
    PROVE  SignedContent(t, v, n) \in Sign
<1>1. v % 256 \in 0 .. 255
  OBVIOUS
<1> QED  BY <1>1 DEF SignedContent, Sign

\* A combination is a signature, and certificates of it are certificates.
LEMMA CombineType ==
    ASSUME NEW votes, NEW content \in Sign
    PROVE  CombineSign(votes, content) \in Sign
  BY ConstantTypes DEF CombineSign

\* A message that carries nothing is a message.
LEMMA MkMsgType ==
    ASSUME NEW t \in MsgType, NEW v \in Int, NEW s \in Server, NEW d \in SUBSET Server,
           NEW n \in HsNode
    PROVE  MkMsg(t, v, s, d, n) \in H2Msg
  BY ConstantTypes DEF MkMsg, H2Msg

\* SendSerMsg appends to what the node has sent.
LEMMA SendType ==
    ASSUME TypeOK, NEW r \in Server, NEW m \in H2Msg, Send(r, m)
    PROVE  sent' \in [Server -> Seq(H2Msg)]
<1>1. sent \in [Server -> Seq(H2Msg)]
  BY DEF TypeOK
<1>2. Append(sent[r], m) \in Seq(H2Msg)
  BY <1>1
<1> QED  BY <1>1, <1>2 DEF Send

\* The blocks to commit are a piece of the list of locked blocks.
LEMMA CommitRange ==
    ASSUME NEW list \in LockedList, NEW qc, NEW range, range = GenCommitBlkIndex(list, qc)
    PROVE  /\ range[1] \in 1 .. Len(list) + 1 /\ range[2] \in 0 .. Len(list)
           /\ range[2] > 0 => range[1] \in 1 .. range[2]
<1> DEFINE found == {i \in DOMAIN list : list[i].blk.view = qc.view}
           end == Min(found)
           starts == {i \in 1 .. end : \A j \in i .. end - 1 :
                         list[j].node.cur = list[j + 1].node.parent}
<1>1. Len(list) \in Nat /\ DOMAIN list = 1 .. Len(list)
  BY DEF LockedList
<1>2. CASE found = {}
  <2>1. range = <<1, 0>>
    BY <1>2 DEF GenCommitBlkIndex
  <2> QED  BY <1>1, <2>1
<1>3. CASE found # {}
  <2>1. range = <<Min(starts), end>>
    BY <1>3 DEF GenCommitBlkIndex
  <2>2. end \in 1 .. Len(list)
    <3>1. found \in SUBSET Nat /\ found \subseteq 1 .. Len(list)
      BY <1>1
    <3> HIDE DEF found
    <3> QED  BY <1>3, <3>1, LeastNumber
  <2> HIDE DEF end
  <2>3. starts \in SUBSET Nat /\ end \in starts
    BY <2>2
  <2>4. Min(starts) \in starts
    <3> HIDE DEF starts
    <3> QED  BY <2>3, LeastNumber
  <2>5. Min(starts) \in 1 .. end
    BY <2>4
  <2> HIDE DEF starts
  <2> QED  BY <1>1, <2>1, <2>2, <2>5
<1> QED  BY <1>2, <1>3

\* WriteNewH2Block leaves a list, a block store and files.
LEMMA WriteType ==
    ASSUME TypeOK, NEW r \in Server, NEW w, w = WriteNewH2Block(r)
    PROVE  /\ w.locked \in LockedList /\ w.bs \in BlkStore /\ Files(w.files)
           /\ w.bs.height \in Nat /\ w.bs.pre \in Hash
<1> DEFINE range == GenCommitBlkIndex(locked[r], prepareQC[r])
           blks == SubSeq(locked[r], range[1], range[2])
<1>1. locked[r] \in LockedList /\ Len(locked[r]) \in Nat /\ bs[r] \in BlkStore /\ Files(store[r])
  <2>1. locked \in [Server -> LockedList] /\ bs \in [Server -> BlkStore]
    BY DEF TypeOK, LockedList
  <2>2. Files(store[r])
    BY DEF TypeOK, Files
  <2>3. locked[r] \in LockedList /\ bs[r] \in BlkStore
    BY <2>1
  <2> QED  BY <2>2, <2>3, ItemType DEF LockedList
<1>2. /\ range[1] \in 1 .. Len(locked[r]) + 1 /\ range[2] \in 0 .. Len(locked[r])
      /\ range[2] > 0 => range[1] \in 1 .. range[2]
  <2> HIDE DEF range
  <2> QED  BY <1>1, CommitRange DEF range
<1> HIDE DEF range
<1>3. blks \in LockedList /\ Len(blks) \in Nat
  BY <1>1, <1>2, PieceType DEF LockedList
<1>4. /\ w.locked = IF blks = <<>> THEN locked[r]
                    ELSE UpdateAfterCommit(locked[r], range[1], range[2])
      /\ w.bs = Stored(bs[r], Len(blks)) /\ w.files = WriteBlocks(store[r], blks)
  BY DEF WriteNewH2Block, range
<1> HIDE DEF blks
<1>5. UpdateAfterCommit(locked[r], range[1], range[2]) \in LockedList
  <2>1. range[1] - 1 \in 0 .. Len(locked[r]) /\ range[2] + 1 \in 1 .. Len(locked[r]) + 1
    BY <1>1, <1>2
  <2>2. SubSeq(locked[r], 1, range[1] - 1) \in LockedList
    <3>1. 1 \in 1 .. Len(locked[r]) + 1
      BY <1>1
    <3> QED  BY <1>1, <2>1, <3>1, PieceType DEF LockedList
  <2>3. SubSeq(locked[r], range[2] + 1, Len(locked[r])) \in LockedList
    <3>1. Len(locked[r]) \in 0 .. Len(locked[r])
      BY <1>1
    <3> QED  BY <1>1, <2>1, <3>1, PieceType DEF LockedList
  <2>4. SubSeq(locked[r], 1, range[1] - 1) \o SubSeq(locked[r], range[2] + 1, Len(locked[r]))
           \in LockedList
    BY <2>2, <2>3 DEF LockedList
  <2> QED  BY <1>1, <2>4 DEF UpdateAfterCommit
<1>6. w.bs \in BlkStore
  <2>1. NilHash \in Hash /\ bs[r].cur \in Hash /\ bs[r].height + Len(blks) \in Nat
    BY <1>1, <1>3, ConstantTypes DEF BlkStore
  <2> QED  BY <1>1, <1>4, <2>1 DEF Stored, BlkStore
<1>7. Files(w.files)
  <2> SUFFICES ASSUME NEW h \in DOMAIN w.files PROVE w.files[h] \in Block
    BY DEF Files
  <2> DEFINE at == {i \in DOMAIN blks : blks[i].blk.height = h}
  <2>1. /\ w.files[h] = IF at = {} THEN store[r][h] ELSE blks[Max(at)].blk
        /\ h \in DOMAIN store[r] \/ at # {}
    BY <1>4 DEF WriteBlocks
  <2>2. CASE at = {}
    BY <1>1, <2>1, <2>2 DEF Files
  <2>3. CASE at # {}
    <3>1. at \in SUBSET (1 .. Len(blks))
      BY <1>3 DEF LockedList
    <3>2. Max(at) \in at
      <4> HIDE DEF at
      <4> QED  BY <1>3, <2>3, <3>1, LastNumber
    <3>3. blks[Max(at)] \in [blk : Block, node : HsNode]
      <4>1. Max(at) \in DOMAIN blks
        BY <3>2
      <4> HIDE DEF at
      <4> QED  BY <1>3, <4>1, ItemType DEF LockedList
    <3> QED  BY <2>1, <2>3, <3>3
  <2> QED  BY <2>2, <2>3
<1>8. w.locked \in LockedList
  BY <1>1, <1>4, <1>5
<1> QED  BY <1>6, <1>7, <1>8 DEF BlkStore

StoreType == /\ store = [r \in Server |-> store[r]]
             /\ \A r \in Server : Files(store[r])

WishType == /\ wishMsgs = [r \in Server |-> wishMsgs[r]]
            /\ \A r \in Server : \A v \in DOMAIN wishMsgs[r] : wishMsgs[r][v] \in Seq(H2Msg)

\* What GenProposal makes
Proposal(r, c) ==
    LET w == WriteNewH2Block(r)
        b == NewBlock(r, w.bs, c)
        n == [cur |-> HashOf(b), parent |-> proposalQC[r].node.cur]
    IN  [MkMsg("PROPOSE", view[r], r, Server, n) EXCEPT
            !.block = b, !.justify1 = proposalQC[r], !.justify2 = prepareQC[r]]

Proposes(r, c) == phase[r] = "NEW_PROPOSE" /\ c # NoCmd

\* A node writes files of blocks.
LEMMA StoreSet ==
    ASSUME StoreType, NEW r \in Server, NEW f, Files(f), store' = [store EXCEPT ![r] = f]
    PROVE  StoreType'
<1>1. store' = [q \in Server |-> IF q = r THEN f ELSE store[q]]
  BY DEF StoreType
<1>2. store' = [q \in Server |-> store'[q]]
  BY <1>1
<1>3. ASSUME NEW q \in Server PROVE Files(store'[q])
  BY <1>1 DEF StoreType
<1> QED  BY <1>2, <1>3 DEF StoreType, Files

\* The proposal is a message.
LEMMA ProposalType ==
    ASSUME TypeOK, NEW r \in Server, NEW c \in Cmd, NEW p, p = Proposal(r, c)
    PROVE  /\ p \in H2Msg /\ p.type = "PROPOSE"
           /\ p.justify1 = proposalQC[r] /\ p.justify2 = prepareQC[r]
           /\ p.block = NewBlock(r, WriteNewH2Block(r).bs, c)
           /\ p.node = [cur |-> HashOf(p.block), parent |-> proposalQC[r].node.cur]
<1> DEFINE w == WriteNewH2Block(r)
           b == NewBlock(r, w.bs, c)
           n == [cur |-> HashOf(b), parent |-> proposalQC[r].node.cur]
<1>1. w.bs.height \in Nat /\ w.bs.pre \in Hash
  <2> HIDE DEF w
  <2> QED  BY WriteType DEF w
<1>2. view[r] \in Nat /\ proposalQC[r] \in QuromCert /\ prepareQC[r] \in QuromCert
      /\ sent[r] \in Seq(H2Msg)
  BY DEF TypeOK
<1>3. Len(sent[r]) \in Nat
  BY <1>2
<1>4. b \in Block
  <2> HIDE DEF w
  <2> QED  BY <1>1, <1>2, <1>3 DEF NewBlock, Block
<1>5. p = [type |-> "PROPOSE", view |-> view[r], src |-> r, dst |-> Server, node |-> n,
           block |-> b, sign |-> NoSign, justify1 |-> proposalQC[r],
           justify2 |-> prepareQC[r]]
  BY DEF Proposal, MkMsg
<1>6. n \in HsNode
  <2>1. HashOf(b) \in Hash
    BY <1>4, HashOfType
  <2>2. proposalQC[r].node.cur \in Hash
    BY <1>2 DEF QuromCert, HsNode
  <2> HIDE DEF b
  <2> QED  BY <2>1, <2>2 DEF HsNode
<1> HIDE DEF b, w
<1>7. p \in H2Msg
  <2> HIDE DEF n
  <2> QED  BY <1>2, <1>4, <1>5, <1>6, ConstantTypes DEF H2Msg, MsgType
<1> QED  BY <1>5, <1>7 DEF b, w

\* GenProposal keeps the types of what it changes.
LEMMA GenProposalType ==
    ASSUME TypeOK, NEW r \in Server, NEW c \in Cmd \cup {NoCmd}, GenProposal(r, c)
    PROVE  /\ phase' \in [Server -> Phase] /\ locked' \in [Server -> LockedList]
           /\ StoreType' /\ bs' \in [Server -> BlkStore] /\ hs2Node' \in [Server -> HsNode]
           /\ sent' \in [Server -> Seq(H2Msg)]
<1>0. /\ phase \in [Server -> Phase] /\ locked \in [Server -> LockedList] /\ StoreType
      /\ bs \in [Server -> BlkStore] /\ hs2Node \in [Server -> HsNode]
      /\ sent \in [Server -> Seq(H2Msg)]
  BY DEF TypeOK, StoreType, Files, LockedList
<1>1. CASE Proposes(r, c)
  <2> DEFINE p == Proposal(r, c)
             w == WriteNewH2Block(r)
  <2>1. c \in Cmd
    BY <1>1 DEF Proposes
  <2>2. /\ phase' = [phase EXCEPT ![r] = "PROPOSE"]
        /\ locked' = [locked EXCEPT ![r] = w.locked]
        /\ store' = [store EXCEPT ![r] = w.files]
        /\ bs' = [bs EXCEPT ![r] = [w.bs EXCEPT !.blk = NewBlock(r, w.bs, c),
                                                !.cur = HashOf(NewBlock(r, w.bs, c))]]
        /\ hs2Node' = [hs2Node EXCEPT ![r] = [cur |-> HashOf(NewBlock(r, w.bs, c)),
                                              parent |-> proposalQC[r].node.cur]]
        /\ Send(r, p)
    BY <1>1 DEF GenProposal, Proposes, Proposal
  <2>3. /\ p \in H2Msg /\ p.block = NewBlock(r, w.bs, c)
        /\ p.node = [cur |-> HashOf(p.block), parent |-> proposalQC[r].node.cur]
    <3> HIDE DEF p
    <3> QED  BY <2>1, ProposalType DEF p
  <2>4. w.locked \in LockedList /\ w.bs \in BlkStore /\ Files(w.files)
    <3> HIDE DEF w
    <3> QED  BY WriteType DEF w
  <2> HIDE DEF p, w
  <2>5. p.block \in Block /\ p.node \in HsNode /\ HashOf(p.block) \in Hash
    BY <2>3, HashOfType DEF H2Msg
  <2>6. [w.bs EXCEPT !.blk = p.block, !.cur = HashOf(p.block)] \in BlkStore
    BY <2>4, <2>5 DEF BlkStore
  <2>7. bs' \in [Server -> BlkStore] /\ hs2Node' \in [Server -> HsNode]
    BY <1>0, <2>2, <2>3, <2>5, <2>6
  <2>8. StoreType'
    BY <1>0, <2>2, <2>4, StoreSet
  <2>9. sent' \in [Server -> Seq(H2Msg)]
    BY <2>2, <2>3, SendType
  <2>10. phase' \in [Server -> Phase] /\ locked' \in [Server -> LockedList]
    BY <1>0, <2>2, <2>4 DEF Phase
  <2> QED  BY <2>7, <2>8, <2>9, <2>10
<1>2. CASE ~ Proposes(r, c)
  <2>1. UNCHANGED <<phase, locked, blkVars, hs2Node, sent>>
    BY <1>2 DEF GenProposal, Proposes
  <2> QED  BY <1>0, <2>1 DEF blkVars, StoreType
<1> QED  BY <1>1, <1>2

\* The client, the request loop and the message of the enter timer
LEMMA RequestType ==
    ASSUME TypeOK, NEW r \in Server, HandleReq(r) \/ \E c \in ClientCmds : GenNewReq(r, c)
    PROVE  TypeOK'
<1>1. CASE \E c \in ClientCmds : GenNewReq(r, c)
  <2>1. PICK c \in ClientCmds : GenNewReq(r, c)
    BY <1>1
  <2>2. c \in Cmd \cup {NoCmd}
    BY DEF Cmd
  <2>3. requests' \in [Server -> Cmd \cup {NoCmd}] /\ reqFlag' \in [Server -> BOOLEAN]
        /\ pool' \subseteq ClientCmds
    BY <2>1, <2>2 DEF GenNewReq, TypeOK
  <2> QED  BY <2>1, <2>3 DEF TypeOK, GenNewReq, qcVars, voteVars, blkVars, timerVars
<1>2. CASE HandleReq(r)
  <2> DEFINE takes == requests[r] # NoCmd /\ IsLeader(r)
  <2>1. requests' \in [Server -> Cmd \cup {NoCmd}] /\ reqFlag' \in [Server -> BOOLEAN]
        /\ curProposal' \in [Server -> Cmd \cup {NoCmd}]
    BY <1>2 DEF TypeOK, HandleReq
  <2>2. /\ phase' \in [Server -> Phase] /\ locked' \in [Server -> LockedList]
        /\ StoreType' /\ bs' \in [Server -> BlkStore] /\ hs2Node' \in [Server -> HsNode]
        /\ sent' \in [Server -> Seq(H2Msg)]
    <3>1. CASE takes
      <4>1. GenProposal(r, requests[r]) /\ requests[r] \in Cmd \cup {NoCmd}
        BY <1>2, <3>1 DEF HandleReq, TypeOK
      <4> QED  BY <4>1, GenProposalType
    <3>2. CASE ~ takes
      BY <1>2, <3>2 DEF HandleReq, TypeOK, StoreType, Files, LockedList, blkVars
    <3> QED  BY <3>1, <3>2
  <2>3. StoreType' => /\ store' = [q \in Server |-> store'[q]]
                      /\ \A q \in Server : \A h \in DOMAIN store'[q] : store'[q][h] \in Block
    BY DEF StoreType, Files
  <2> QED
    BY <1>2, <2>1, <2>2, <2>3
       DEF TypeOK, HandleReq, qcVars, voteVars, timerVars, LockedList
<1> QED  BY <1>1, <1>2

LEMMA NewProposeType ==
    ASSUME TypeOK, NEW r \in Server, NEW m \in H2Msg,
           rcvd' \in [Server -> [Server -> Nat]], HandleNewPropose(r, m)
    PROVE  TypeOK'
<1>1. GenProposal(r, curProposal[r]) /\ curProposal[r] \in Cmd \cup {NoCmd}
  BY DEF HandleNewPropose, TypeOK
<1>2. /\ phase' \in [Server -> Phase] /\ locked' \in [Server -> LockedList]
      /\ StoreType' /\ bs' \in [Server -> BlkStore] /\ hs2Node' \in [Server -> HsNode]
      /\ sent' \in [Server -> Seq(H2Msg)]
  BY <1>1, GenProposalType
<1>3. StoreType' => /\ store' = [q \in Server |-> store'[q]]
                    /\ \A q \in Server : \A h \in DOMAIN store'[q] : store'[q][h] \in Block
  BY DEF StoreType, Files
<1> QED
  BY <1>2, <1>3
     DEF TypeOK, HandleNewPropose, qcVars, voteVars, timerVars, reqVars, LockedList

\* The certificates and the node of a message
LEMMA MessageParts ==
    ASSUME NEW m \in H2Msg
    PROVE  /\ m.justify1 \in QuromCert /\ m.justify2 \in QuromCert
           /\ m.node \in HsNode /\ m.block \in Block /\ m.sign \in Sign
           /\ m.view \in Int /\ m.src \in Server
  BY DEF H2Msg

\* A vote, a wish or a timeout certificate: it signs content.
Signed(t, v, s, d, n, sg) ==
    [type |-> t, view |-> v, src |-> s, dst |-> d, node |-> n, block |-> EmptyBlock,
     sign |-> sg, justify1 |-> NilQC, justify2 |-> NilQC]

\* A message that carries certificates
Carrier(t, v, s, d, n, q1, q2) ==
    [type |-> t, view |-> v, src |-> s, dst |-> d, node |-> n, block |-> EmptyBlock,
     sign |-> NoSign, justify1 |-> q1, justify2 |-> q2]

LEMMA CarrierIs ==
    ASSUME NEW t, NEW v, NEW s, NEW d, NEW n, NEW q1, NEW q2
    PROVE  [MkMsg(t, v, s, d, n) EXCEPT !.justify1 = q1, !.justify2 = q2]
              = Carrier(t, v, s, d, n, q1, q2)
<1>1. [MkMsg(t, v, s, d, n) EXCEPT !.justify1 = q1] = Carrier(t, v, s, d, n, q1, NilQC)
  BY DEF MkMsg, Carrier
<1>2. [Carrier(t, v, s, d, n, q1, NilQC) EXCEPT !.justify2 = q2]
         = Carrier(t, v, s, d, n, q1, q2)
  BY DEF Carrier
<1> QED  BY <1>1, <1>2

LEMMA SignedMsgType ==
    ASSUME NEW t \in MsgType, NEW v \in Int, NEW s \in Server,
           NEW d \in SUBSET Server, NEW n \in HsNode, NEW sg \in Sign
    PROVE  Signed(t, v, s, d, n, sg) \in H2Msg
  BY ConstantTypes DEF H2Msg, Signed

LEMMA CarrierType ==
    ASSUME NEW t \in MsgType, NEW v \in Int, NEW s \in Server,
           NEW d \in SUBSET Server, NEW n \in HsNode, NEW q1 \in QuromCert, NEW q2 \in QuromCert
    PROVE  Carrier(t, v, s, d, n, q1, q2) \in H2Msg
  BY ConstantTypes DEF H2Msg, Carrier

\* The first vote
LEMMA ProposeType ==
    ASSUME TypeOK, NEW r \in Server, NEW m \in H2Msg,
           rcvd' \in [Server -> [Server -> Nat]], HandlePropose(r, m)
    PROVE  TypeOK'
<1>0. /\ phase \in [Server -> Phase] /\ locked \in [Server -> LockedList] /\ StoreType
      /\ bs \in [Server -> BlkStore] /\ hs2Node \in [Server -> HsNode]
      /\ sent \in [Server -> Seq(H2Msg)] /\ proposalQC \in [Server -> QuromCert]
  BY DEF TypeOK, StoreType, Files, LockedList
<1>1. proposalQC' \in [Server -> QuromCert]
  BY <1>0, MessageParts DEF HandlePropose
<1>2. /\ phase' \in [Server -> Phase] /\ locked' \in [Server -> LockedList]
      /\ StoreType' /\ bs' \in [Server -> BlkStore] /\ hs2Node' \in [Server -> HsNode]
      /\ sent' \in [Server -> Seq(H2Msg)]
  <2>1. CASE UNCHANGED <<phase, locked, blkVars, hs2Node, sent>>
    BY <1>0, <2>1 DEF blkVars, StoreType
  <2>2. CASE TakesPropose(r, m) /\ ChecksJustify1(r, m) /\ ChecksJustify2(r, m)
    <3> DEFINE w == IF IsLeader(r)
                    THEN [locked |-> locked[r], bs |-> bs[r], files |-> store[r]]
                    ELSE WriteNewH2Block(r)
               vote == [MkMsg("VOTE1", m.view, r, {m.src}, m.node) EXCEPT
                           !.sign = SignedContent("PROPOSE", m.view, m.node)]
    <3>1. /\ phase' = [phase EXCEPT ![r] = "PROPOSE"]
          /\ locked' = [locked EXCEPT ![r] = w.locked]
          /\ store' = [store EXCEPT ![r] = w.files]
          /\ bs' = [bs EXCEPT ![r] = [w.bs EXCEPT !.blk = m.block, !.cur = HashOf(m.block)]]
          /\ hs2Node' = [hs2Node EXCEPT ![r] = m.node]
          /\ Send(r, vote)
      BY <2>2 DEF HandlePropose
    <3>2. w.locked \in LockedList /\ w.bs \in BlkStore /\ Files(w.files)
      <4>1. CASE IsLeader(r)
        BY <1>0, <4>1 DEF StoreType
      <4>2. CASE ~ IsLeader(r)
        <5>1. w = WriteNewH2Block(r)
          BY <4>2
        <5> HIDE DEF w
        <5> QED  BY <5>1, WriteType
      <4> QED  BY <4>1, <4>2
    <3>3. m.block \in Block /\ m.node \in HsNode /\ HashOf(m.block) \in Hash
      BY MessageParts, HashOfType
    <3>4. vote \in H2Msg
      <4>1. SignedContent("PROPOSE", m.view, m.node) \in Sign
        BY MessageParts, SignedType
      <4>2. vote = Signed("VOTE1", m.view, r, {m.src}, m.node,
                          SignedContent("PROPOSE", m.view, m.node))
        <5> DEFINE sg == SignedContent("PROPOSE", m.view, m.node)
        <5>1. vote = [MkMsg("VOTE1", m.view, r, {m.src}, m.node) EXCEPT !.sign = sg]
          OBVIOUS
        <5> HIDE DEF sg, vote
        <5>2. vote = Signed("VOTE1", m.view, r, {m.src}, m.node, sg)
          BY <5>1 DEF MkMsg, Signed
        <5> QED  BY <5>2 DEF sg
      <4>3. m.view \in Int /\ m.node \in HsNode /\ {m.src} \in SUBSET Server
            /\ "VOTE1" \in MsgType
        BY MessageParts DEF MsgType
      <4> HIDE DEF vote
      <4> QED  BY <4>1, <4>2, <4>3, SignedMsgType
    <3> HIDE DEF w, vote
    <3>5. [w.bs EXCEPT !.blk = m.block, !.cur = HashOf(m.block)] \in BlkStore
      BY <3>2, <3>3 DEF BlkStore
    <3>6. bs' \in [Server -> BlkStore] /\ hs2Node' \in [Server -> HsNode]
      BY <1>0, <3>1, <3>3, <3>5
    <3>7. StoreType'
      BY <1>0, <3>1, <3>2, StoreSet
    <3>8. sent' \in [Server -> Seq(H2Msg)]
      BY <3>1, <3>4, SendType
    <3>9. phase' \in [Server -> Phase] /\ locked' \in [Server -> LockedList]
      BY <1>0, <3>1, <3>2 DEF Phase
    <3> QED  BY <3>6, <3>7, <3>8, <3>9
  <2> QED  BY <2>1, <2>2 DEF HandlePropose
<1>3. StoreType' => /\ store' = [q \in Server |-> store'[q]]
                    /\ \A q \in Server : \A h \in DOMAIN store'[q] : store'[q][h] \in Block
  BY DEF StoreType, Files
<1> QED
  BY <1>1, <1>2, <1>3
     DEF TypeOK, HandlePropose, voteVars, timerVars, reqVars, LockedList

\* The single certificate HandleVote1 makes
SingleQC(r, votes) ==
    [type |-> "PROPOSE", view |-> view[r], height |-> bs[r].blk.height, node |-> hs2Node[r],
     sign |-> CombineSign(votes, SignedContent("PROPOSE", view[r], hs2Node[r]))]

LEMMA SingleQCType ==
    ASSUME TypeOK, NEW r \in Server, NEW votes
    PROVE  SingleQC(r, votes) \in QuromCert
<1>1. view[r] \in Nat /\ hs2Node[r] \in HsNode /\ bs[r].blk.height \in Nat
  BY DEF TypeOK, BlkStore, Block
<1>2. SignedContent("PROPOSE", view[r], hs2Node[r]) \in Sign
  BY <1>1, SignedType
<1>3. CombineSign(votes, SignedContent("PROPOSE", view[r], hs2Node[r])) \in Sign
  BY <1>2, CombineType
<1> QED  BY <1>1, <1>3 DEF SingleQC, QuromCert

LEMMA Vote1Type ==
    ASSUME TypeOK, NEW r \in Server, NEW m \in H2Msg,
           rcvd' \in [Server -> [Server -> Nat]], HandleVote1(r, m)
    PROVE  TypeOK'
<1> DEFINE votes == Append(vote1[r], m)
           qc == SingleQC(r, votes)
           p == [MkMsg("PREPARE", view[r], r, Server, hs2Node[r]) EXCEPT !.justify1 = qc]
<1>1. vote1' \in [Server -> Seq(H2Msg)]
  BY DEF TypeOK, HandleVote1
<1>2. /\ phase' \in [Server -> Phase] /\ proposalQC' \in [Server -> QuromCert]
      /\ sent' \in [Server -> Seq(H2Msg)]
  <2>1. CASE UNCHANGED <<phase, proposalQC, sent>>
    BY <2>1 DEF TypeOK
  <2>2. CASE /\ phase' = [phase EXCEPT ![r] = "PREPARE"]
             /\ proposalQC' = [proposalQC EXCEPT ![r] = qc]
             /\ Send(r, p)
    <3>1. qc \in QuromCert
      BY SingleQCType
    <3> HIDE DEF qc
    <3>2. p = Carrier("PREPARE", view[r], r, Server, hs2Node[r], qc, NilQC)
      BY DEF MkMsg, Carrier
    <3> HIDE DEF p
    <3>3. view[r] \in Int /\ hs2Node[r] \in HsNode /\ "PREPARE" \in MsgType
      BY DEF TypeOK, MsgType
    <3>4. p \in H2Msg
      BY <3>1, <3>2, <3>3, ConstantTypes, CarrierType
    <3>5. sent' \in [Server -> Seq(H2Msg)]
      BY <2>2, <3>4, SendType
    <3> QED  BY <2>2, <3>1, <3>5 DEF TypeOK, Phase
  <2> QED  BY <2>1, <2>2 DEF HandleVote1, SingleQC
<1> QED
  BY <1>1, <1>2 DEF TypeOK, HandleVote1, blkVars, timerVars, reqVars

\* The second vote
LEMMA PrepareType ==
    ASSUME TypeOK, NEW r \in Server, NEW m \in H2Msg,
           rcvd' \in [Server -> [Server -> Nat]], HandlePrepare(r, m)
    PROVE  TypeOK'
<1> DEFINE vote == [MkMsg("VOTE2", m.view, r, {Leader(view[r] + 1)}, m.node) EXCEPT
                       !.sign = SignedContent("PREPARE", m.view, m.node)]
<1>1. vote \in H2Msg
  <2>1. SignedContent("PREPARE", m.view, m.node) \in Sign
    BY MessageParts, SignedType
  <2>2. vote = Signed("VOTE2", m.view, r, {Leader(view[r] + 1)}, m.node,
                      SignedContent("PREPARE", m.view, m.node))
    <3> DEFINE sg == SignedContent("PREPARE", m.view, m.node)
    <3>1. vote = [MkMsg("VOTE2", m.view, r, {Leader(view[r] + 1)}, m.node) EXCEPT !.sign = sg]
      OBVIOUS
    <3> HIDE DEF sg, vote
    <3>2. vote = Signed("VOTE2", m.view, r, {Leader(view[r] + 1)}, m.node, sg)
      BY <3>1 DEF MkMsg, Signed
    <3> QED  BY <3>2 DEF sg
  <2>3. view[r] + 1 \in Nat
    BY DEF TypeOK
  <2>4. m.view \in Int /\ m.node \in HsNode /\ {Leader(view[r] + 1)} \in SUBSET Server
        /\ "VOTE2" \in MsgType
    BY <2>3, MessageParts, LeaderType DEF MsgType
  <2> HIDE DEF vote
  <2> QED  BY <2>1, <2>2, <2>4, SignedMsgType
<1>2. /\ phase' \in [Server -> Phase] /\ proposalQC' \in [Server -> QuromCert]
      /\ viewTimer' \in [Server -> BOOLEAN] /\ sent' \in [Server -> Seq(H2Msg)]
  <2>1. CASE UNCHANGED <<phase, proposalQC, viewTimer, sent>>
    BY <2>1 DEF TypeOK
  <2>2. CASE /\ phase' = [phase EXCEPT ![r] = "PREPARE"]
             /\ proposalQC' = [proposalQC EXCEPT ![r] = m.justify1]
             /\ viewTimer' = [viewTimer EXCEPT ![r] = FALSE]
             /\ Send(r, vote)
    <3>1. sent' \in [Server -> Seq(H2Msg)]
      <4> HIDE DEF vote
      <4> QED  BY <1>1, <2>2, SendType
    <3> QED  BY <2>2, <3>1, MessageParts DEF TypeOK, Phase
  <2> QED  BY <2>1, <2>2 DEF HandlePrepare
<1> QED
  BY <1>2 DEF TypeOK, HandlePrepare, voteVars, blkVars, reqVars

\* The double certificate HandleVote2 makes
DoubleQC(r, votes) ==
    [type |-> "PREPARE", view |-> view[r], height |-> bs[r].blk.height, node |-> hs2Node[r],
     sign |-> CombineSign(votes, SignedContent("PREPARE", view[r], hs2Node[r]))]

LEMMA DoubleQCType ==
    ASSUME TypeOK, NEW r \in Server, NEW votes
    PROVE  DoubleQC(r, votes) \in QuromCert
<1>1. view[r] \in Nat /\ hs2Node[r] \in HsNode /\ bs[r].blk.height \in Nat
  BY DEF TypeOK, BlkStore, Block
<1>2. SignedContent("PREPARE", view[r], hs2Node[r]) \in Sign
  BY <1>1, SignedType
<1>3. CombineSign(votes, SignedContent("PREPARE", view[r], hs2Node[r])) \in Sign
  BY <1>2, CombineType
<1> QED  BY <1>1, <1>3 DEF DoubleQC, QuromCert

LEMMA Vote2Type ==
    ASSUME TypeOK, NEW r \in Server, NEW m \in H2Msg,
           rcvd' \in [Server -> [Server -> Nat]], HandleVote2(r, m)
    PROVE  TypeOK'
<1> DEFINE votes == Vote2List(r, m)
           qc == DoubleQC(r, votes)
           p == [MkMsg("ENTER", view[r], r, Server, NilNode) EXCEPT !.justify2 = qc]
<1>1. vote2' \in [Server -> Seq(H2Msg)]
  BY DEF TypeOK, HandleVote2, Vote2List
<1>2. /\ phase' \in [Server -> Phase] /\ prepareQC' \in [Server -> QuromCert]
      /\ sent' \in [Server -> Seq(H2Msg)]
  <2>1. CASE UNCHANGED <<phase, prepareQC, sent>>
    BY <2>1 DEF TypeOK
  <2>2. CASE /\ phase' = [phase EXCEPT ![r] = "NEW_VIEW"]
             /\ prepareQC' = [prepareQC EXCEPT ![r] = qc]
             /\ Send(r, p)
    <3>1. qc \in QuromCert
      BY DoubleQCType
    <3> HIDE DEF qc
    <3>2. p = Carrier("ENTER", view[r], r, Server, NilNode, NilQC, qc)
      BY DEF MkMsg, Carrier
    <3> HIDE DEF p
    <3>3. view[r] \in Int /\ "ENTER" \in MsgType
      BY DEF TypeOK, MsgType
    <3>4. p \in H2Msg
      BY <3>1, <3>2, <3>3, ConstantTypes, CarrierType
    <3>5. sent' \in [Server -> Seq(H2Msg)]
      BY <2>2, <3>4, SendType
    <3> QED  BY <2>2, <3>1, <3>5 DEF TypeOK, Phase
  <2> QED  BY <2>1, <2>2 DEF HandleVote2, DoubleQC
<1> QED
  BY <1>1, <1>2 DEF TypeOK, HandleVote2, blkVars, timerVars, reqVars

\* The next view
LEMMA EnterType ==
    ASSUME TypeOK, NEW r \in Server, NEW m \in H2Msg,
           rcvd' \in [Server -> [Server -> Nat]], HandleOptimisticEnter(r, m)
    PROVE  TypeOK'
<1> DEFINE item == [blk |-> bs[r].blk, node |-> hs2Node[r]]
           leads == r = Leader(view[r] + 1)
<1>0. /\ locked \in [Server -> LockedList] /\ bs \in [Server -> BlkStore]
      /\ bs[r].blk \in Block /\ hs2Node[r] \in HsNode
  BY DEF TypeOK, LockedList, BlkStore
<1>1. item \in [blk : Block, node : HsNode]
  BY <1>0
<1>2. locked[r] \in LockedList
  BY <1>0
<1> HIDE DEF item
<1>3. Append(locked[r], item) \in LockedList
  BY <1>1, <1>2 DEF LockedList
<1>4. [bs[r] EXCEPT !.blk = EmptyBlock, !.cur = EmptyHash] \in BlkStore
  BY <1>0, ConstantTypes DEF BlkStore
<1>5. /\ locked' \in [Server -> LockedList] /\ bs' \in [Server -> BlkStore]
      /\ curProposal' \in [Server -> Cmd \cup {NoCmd}] /\ hs2Node' \in [Server -> HsNode]
      /\ vote1' \in [Server -> Seq(H2Msg)] /\ vote2' \in [Server -> Seq(H2Msg)]
      /\ view' \in [Server -> Nat] /\ viewTimer' \in [Server -> BOOLEAN]
      /\ phase' \in [Server -> Phase] /\ prepareQC' \in [Server -> QuromCert]
  <2>1. CASE UNCHANGED <<phase, view, curProposal, hs2Node, prepareQC, locked, vote1, vote2,
                         bs, viewTimer>>
    BY <1>0, <2>1 DEF TypeOK
  <2>2. CASE /\ locked' = [locked EXCEPT ![r] = Append(@, item)]
             /\ bs' = [bs EXCEPT ![r] = [@ EXCEPT !.blk = EmptyBlock, !.cur = EmptyHash]]
             /\ curProposal' = [curProposal EXCEPT ![r] = NoCmd]
             /\ hs2Node' = [hs2Node EXCEPT ![r] = NilNode]
             /\ vote1' = [vote1 EXCEPT ![r] = <<>>]
             /\ vote2' = [vote2 EXCEPT ![r] = <<>>]
             /\ view' = [view EXCEPT ![r] = @ + 1]
             /\ viewTimer' = [viewTimer EXCEPT ![r] = TRUE]
             /\ phase' = [phase EXCEPT ![r] = IF leads THEN "NEW_PROPOSE" ELSE "NEW_VIEW"]
             /\ prepareQC' = [prepareQC EXCEPT ![r] = IF leads THEN @ ELSE m.justify2]
    <3>1. locked' \in [Server -> LockedList] /\ bs' \in [Server -> BlkStore]
      BY <1>0, <1>3, <1>4, <2>2
    <3>2. /\ curProposal' \in [Server -> Cmd \cup {NoCmd}] /\ hs2Node' \in [Server -> HsNode]
          /\ vote1' \in [Server -> Seq(H2Msg)] /\ vote2' \in [Server -> Seq(H2Msg)]
      BY <2>2, ConstantTypes DEF TypeOK
    <3>3. /\ view' \in [Server -> Nat] /\ viewTimer' \in [Server -> BOOLEAN]
          /\ phase' \in [Server -> Phase] /\ prepareQC' \in [Server -> QuromCert]
      BY <2>2, MessageParts DEF TypeOK, Phase
    <3> QED  BY <3>1, <3>2, <3>3
  <2> QED  BY <2>1, <2>2 DEF HandleOptimisticEnter, item
<1> QED
  BY <1>5 DEF TypeOK, HandleOptimisticEnter, reqVars, LockedList

\* The view timer
LEMMA ViewChangeType ==
    ASSUME TypeOK, NEW r \in Server, StartViewChange(r)
    PROVE  TypeOK'
<1> DEFINE d == {Leader(view[r] + 1)}
           sg == SignedContent("WISH", view[r] + 1, NilNode)
           m == [MkMsg("WISH", view[r] + 1, r, d, NilNode) EXCEPT !.sign = sg]
<1>1. view[r] + 1 \in Nat /\ "WISH" \in MsgType
  BY DEF TypeOK, MsgType
<1>2. d \in SUBSET Server /\ sg \in Sign
  BY <1>1, LeaderType, SignedType, ConstantTypes
<1>3. Send(r, m)
  BY DEF StartViewChange
<1> HIDE DEF d, sg
<1>4. m = Signed("WISH", view[r] + 1, r, d, NilNode, sg)
  BY DEF MkMsg, Signed
<1> HIDE DEF m
<1>5. m \in H2Msg
  BY <1>1, <1>2, <1>4, ConstantTypes, SignedMsgType
<1>6. sent' \in [Server -> Seq(H2Msg)]
  BY <1>3, <1>5, SendType
<1>7. viewTimer' \in [Server -> BOOLEAN] /\ timeouts' \in Nat
  BY DEF StartViewChange, TypeOK
<1> QED  BY <1>6, <1>7 DEF TypeOK, StartViewChange, qcVars, voteVars, blkVars, reqVars

Wishlists(f) == \A v \in DOMAIN f : f[v] \in Seq(H2Msg)

\* A node keeps lists of wishes.
LEMMA WishesSet ==
    ASSUME WishType, NEW r \in Server, NEW f, Wishlists(f),
           wishMsgs' = [wishMsgs EXCEPT ![r] = f]
    PROVE  WishType'
<1>1. wishMsgs' = [q \in Server |-> IF q = r THEN f ELSE wishMsgs[q]]
  BY DEF WishType
<1>2. wishMsgs' = [q \in Server |-> wishMsgs'[q]]
  BY <1>1
<1>3. ASSUME NEW q \in Server, NEW k \in DOMAIN wishMsgs'[q]
      PROVE  wishMsgs'[q][k] \in Seq(H2Msg)
  BY <1>1 DEF WishType, Wishlists
<1> QED  BY <1>2, <1>3 DEF WishType

\* The list of wishes HandleWish extends, and the wishes for other views
Wishes(r, m) ==
    Append(IF m.view \in DOMAIN wishMsgs[r] THEN wishMsgs[r][m.view] ELSE <<>>, m)

OtherWishes(r, m) == DOMAIN wishMsgs[r] \ {m.view}

LEMMA WishHandled ==
    ASSUME TypeOK, NEW r \in Server, NEW m \in H2Msg,
           rcvd' \in [Server -> [Server -> Nat]], HandleWish(r, m)
    PROVE  TypeOK'
<1> DEFINE wishes == Wishes(r, m)
           others == OtherWishes(r, m)
           sg == CombineSign(wishes, SignedContent("WISH", m.view, NilNode))
           p == [MkMsg("TCMSG", m.view, r, Server, NilNode) EXCEPT !.sign = sg]
           f == [v \in others \cup {m.view} |-> IF v = m.view THEN wishes ELSE wishMsgs[r][v]]
           g == [v \in others |-> wishMsgs[r][v]]
<1>1. WishType /\ m.view \in Int
  BY MessageParts DEF TypeOK, WishType
<1>2. wishes \in Seq(H2Msg)
  BY <1>1 DEF WishType, Wishes
<1>3. SignedContent("WISH", m.view, NilNode) \in Sign
  BY <1>1, SignedType, ConstantTypes
<1>4. sg \in Sign
  BY <1>3, CombineType
<1>5. \/ wishMsgs' = [wishMsgs EXCEPT ![r] = f] /\ sent' = sent
      \/ wishMsgs' = [wishMsgs EXCEPT ![r] = g] /\ Send(r, p)
  <2>1. wishMsgs = [q \in Server |-> wishMsgs[q]]
    BY <1>1 DEF WishType
  <2> QED  BY <2>1 DEF HandleWish, Wishes, OtherWishes
<1> HIDE DEF sg
<1>6. p = Signed("TCMSG", m.view, r, Server, NilNode, sg)
  BY DEF MkMsg, Signed
<1> HIDE DEF p
<1>7. p \in H2Msg
  BY <1>1, <1>4, <1>6, SignedMsgType, ConstantTypes DEF MsgType
<1>8. sent' \in [Server -> Seq(H2Msg)]
  BY <1>5, <1>7, SendType DEF TypeOK
<1>9. WishType'
  <2> HIDE DEF wishes
  <2>1. CASE wishMsgs' = [wishMsgs EXCEPT ![r] = f]
    <3>1. Wishlists(f)
      BY <1>1, <1>2 DEF OtherWishes, Wishlists, WishType
    <3> HIDE DEF f
    <3> QED  BY <1>1, <2>1, <3>1, WishesSet
  <2>2. CASE wishMsgs' = [wishMsgs EXCEPT ![r] = g]
    <3>1. Wishlists(g)
      BY <1>1 DEF OtherWishes, Wishlists, WishType
    <3> HIDE DEF g
    <3> QED  BY <1>1, <2>2, <3>1, WishesSet
  <2> QED  BY <1>5, <2>1, <2>2
<1> QED
  BY <1>8, <1>9 DEF TypeOK, HandleWish, qcVars, blkVars, timerVars, reqVars, WishType

\* The timeout certificate
LEMMA TCType ==
    ASSUME TypeOK, NEW r \in Server, NEW m \in H2Msg,
           rcvd' \in [Server -> [Server -> Nat]], HandleTC(r, m)
    PROVE  TypeOK'
<1> DEFINE v == IF m.view > view[r] THEN m.view ELSE view[r]
           leads == r = Leader(v)
           d == {Leader(v)}
           q1 == proposalQC[r]
           q2 == prepareQC[r]
           u == v - 1
           p == [MkMsg("NEW_VIEW", u, r, d, NilNode) EXCEPT !.justify1 = q1, !.justify2 = q2]
<1>1. view[r] \in Nat /\ m.view \in Int
  BY MessageParts DEF TypeOK
<1>2. v \in Nat
  BY <1>1
<1>3. \/ UNCHANGED <<view, phase, viewTimer, enterTimer, sent>>
      \/ /\ view' = [view EXCEPT ![r] = v]
         /\ phase' = [phase EXCEPT ![r] = IF leads THEN "NEW_VIEW" ELSE "NEW_PROPOSE"]
         /\ viewTimer' = [viewTimer EXCEPT ![r] = TRUE]
         /\ \/ enterTimer' = [enterTimer EXCEPT ![r] = TRUE] /\ sent' = sent
            \/ enterTimer' = enterTimer /\ Send(r, p)
  BY DEF HandleTC
<1> HIDE DEF v
<1>5. /\ u \in Int /\ d \in SUBSET Server /\ "NEW_VIEW" \in MsgType
      /\ q1 \in QuromCert /\ q2 \in QuromCert
  BY <1>2, LeaderType DEF MsgType, TypeOK
<1> HIDE DEF d, q1, q2, u
<1>4. p = Carrier("NEW_VIEW", u, r, d, NilNode, q1, q2)
  BY CarrierIs
<1> HIDE DEF p
<1>6. p \in H2Msg
  BY <1>4, <1>5, ConstantTypes, CarrierType
<1>7. Send(r, p) => sent' \in [Server -> Seq(H2Msg)]
  BY <1>6, SendType
<1>8. sent' \in [Server -> Seq(H2Msg)] /\ enterTimer' \in [Server -> BOOLEAN]
  BY <1>3, <1>7 DEF TypeOK
<1>9. /\ view' \in [Server -> Nat] /\ phase' \in [Server -> Phase]
      /\ viewTimer' \in [Server -> BOOLEAN]
  <2>1. CASE UNCHANGED <<view, phase, viewTimer>>
    BY <2>1 DEF TypeOK
  <2>2. CASE /\ view' = [view EXCEPT ![r] = v]
             /\ phase' = [phase EXCEPT ![r] = IF leads THEN "NEW_VIEW" ELSE "NEW_PROPOSE"]
             /\ viewTimer' = [viewTimer EXCEPT ![r] = TRUE]
    BY <1>2, <2>2 DEF TypeOK, Phase
  <2> QED  BY <1>3, <2>1, <2>2
<1> QED
  BY <1>8, <1>9 DEF TypeOK, HandleTC, qcVars, voteVars, blkVars, reqVars

\* The enter timer
LEMMA EnterTimerType ==
    ASSUME TypeOK, NEW r \in Server, EnterTimerExpires(r)
    PROVE  TypeOK'
<1> DEFINE m == MkMsg("NEW_PROPOSE", 0, r, {r}, NilNode)
<1>1. m \in H2Msg
  BY MkMsgType, ConstantTypes DEF MsgType
<1>2. Send(r, m)
  BY DEF EnterTimerExpires
<1> HIDE DEF m
<1>3. sent' \in [Server -> Seq(H2Msg)]
  BY <1>1, <1>2, SendType
<1>4. enterTimer' \in [Server -> BOOLEAN] /\ phase' \in [Server -> Phase]
  BY DEF EnterTimerExpires, TypeOK, Phase
<1> QED
  BY <1>3, <1>4 DEF TypeOK, EnterTimerExpires, qcVars, voteVars, blkVars, reqVars

LEMMA NewViewType ==
    ASSUME TypeOK, NEW r \in Server, NEW m \in H2Msg,
           rcvd' \in [Server -> [Server -> Nat]], HandleNewView(r, m)
    PROVE  TypeOK'
  BY DEF TypeOK, HandleNewView, qcVars, voteVars, blkVars, timerVars, reqVars

\* Receive takes a message that its sender has sent.
LEMMA Receives ==
    ASSUME TypeOK, NEW r \in Server, NEW s \in Server, Receive(r, s)
    PROVE  \E i \in DOMAIN sent[s] :
              /\ sent[s][i] \in H2Msg /\ RouteH2Msg(r, sent[s][i])
              /\ rcvd' \in [Server -> [Server -> Nat]]
<1> DEFINE i == Min(Pending(r, s))
<1>1. rcvd[r][s] \in Nat /\ sent[s] \in Seq(H2Msg) /\ rcvd \in [Server -> [Server -> Nat]]
  BY DEF TypeOK
<1>2. Pending(r, s) \in SUBSET Nat /\ Pending(r, s) # {}
  BY <1>1 DEF Pending, Receive
<1>3. i \in Pending(r, s)
  BY <1>2, LeastNumber
<1>4. i \in DOMAIN sent[s] /\ i \in Nat
  BY <1>1, <1>3 DEF Pending
<1>5. rcvd' = [rcvd EXCEPT ![r] = [rcvd[r] EXCEPT ![s] = i]] /\ RouteH2Msg(r, sent[s][i])
  BY DEF Receive
<1>6. sent[s][i] \in H2Msg
  BY <1>1, <1>4
<1>7. rcvd' \in [Server -> [Server -> Nat]]
  BY <1>1, <1>4, <1>5
<1> HIDE DEF i
<1> QED  BY <1>4, <1>5, <1>6, <1>7

\* The types hold at the start, and every step keeps them.
LEMMA TypeInit == Init => TypeOK
<1> SUFFICES ASSUME Init PROVE TypeOK
  OBVIOUS
<1>1. 0 \in Server /\ Genesis \in Cmd
  BY NAssumption DEF Server, Cmd
<1>2. /\ store = [q \in Server |-> store[q]]
      /\ wishMsgs = [q \in Server |-> wishMsgs[q]]
      /\ \A q \in Server : \A h \in DOMAIN store[q] : store[q][h] \in Block
      /\ \A q \in Server : \A v \in DOMAIN wishMsgs[q] : wishMsgs[q][v] \in Seq(H2Msg)
  BY DEF Init
<1>3. /\ hs2Node \in [Server -> HsNode] /\ proposalQC \in [Server -> QuromCert]
      /\ prepareQC \in [Server -> QuromCert] /\ bs \in [Server -> BlkStore]
  BY ConstantTypes DEF Init, BlkStore
<1>4. /\ vote1 \in [Server -> Seq(H2Msg)] /\ vote2 \in [Server -> Seq(H2Msg)]
      /\ sent \in [Server -> Seq(H2Msg)] /\ locked \in [Server -> LockedList]
  BY DEF Init, LockedList
<1>5. /\ phase \in [Server -> Phase] /\ view \in [Server -> Nat]
      /\ curProposal \in [Server -> Cmd \cup {NoCmd}]
      /\ requests \in [Server -> Cmd \cup {NoCmd}] /\ reqFlag \in [Server -> BOOLEAN]
      /\ pool \subseteq ClientCmds /\ rcvd \in [Server -> [Server -> Nat]]
  BY <1>1 DEF Init, Phase
<1>6. /\ enterTimer \in [Server -> BOOLEAN] /\ viewTimer \in [Server -> BOOLEAN]
      /\ timeouts \in Nat
  BY DEF Init
<1> QED  BY <1>2, <1>3, <1>4, <1>5, <1>6 DEF TypeOK, LockedList

LEMMA TypeStep == TypeOK /\ [Next]_vars => TypeOK'
<1> SUFFICES ASSUME TypeOK, [Next]_vars PROVE TypeOK'
  OBVIOUS
<1>1. CASE \E r \in Server, c \in ClientCmds : GenNewReq(r, c)
  BY <1>1, RequestType
<1>2. CASE \E r \in Server : HandleReq(r)
  BY <1>2, RequestType
<1>3. CASE \E r, s \in Server : Receive(r, s)
  <2>1. PICK r \in Server, s \in Server : Receive(r, s)
    BY <1>3
  <2>2. PICK i \in DOMAIN sent[s] : /\ sent[s][i] \in H2Msg /\ RouteH2Msg(r, sent[s][i])
                                    /\ rcvd' \in [Server -> [Server -> Nat]]
    BY <2>1, Receives
  <2> QED
    BY <2>2, NewViewType, NewProposeType, ProposeType, Vote1Type, PrepareType, Vote2Type,
       WishHandled, TCType, EnterType DEF RouteH2Msg
<1>4. CASE \E r \in Server : StartViewChange(r)
  BY <1>4, ViewChangeType
<1>5. CASE \E r \in Server : EnterTimerExpires(r)
  BY <1>5, EnterTimerType
<1>6. CASE UNCHANGED vars
  BY <1>6 DEF vars, TypeOK, qcVars, voteVars, blkVars, timerVars, reqVars
<1> QED  BY <1>1, <1>2, <1>3, <1>4, <1>5, <1>6 DEF Next

----------------------------------------------------------------------------
(* What is said stays said *)

\* Nothing that was sent is taken back.
Grows ==
    \A s \in Server : \A i \in DOMAIN sent[s] :
        i \in DOMAIN sent'[s] /\ sent'[s][i] = sent[s][i]

Sources(msgs) == {m.src : m \in msgs}

\* The first votes for a node, and the wishes for a view
VotesFor(t, v, n) == {k \in Said(t) : k.node = n /\ k.view % 256 = v % 256}

WishesFor(v) == {k \in Said("WISH") : k.view = v}

\* The sources of messages are nodes, of which there are finitely many, so a quorum of
\* messages stays one when there are more.
LEMMA SourcesFinite ==
    ASSUME NEW msgs \in SUBSET H2Msg
    PROVE  IsFiniteSet(Sources(msgs)) /\ Cardinality(Sources(msgs)) \in Nat
<1>1. Sources(msgs) \in SUBSET Server
  BY DEF Sources, H2Msg
<1>2. IsFiniteSet(Server)
  BY FS_Interval, NAssumption DEF Server
<1> QED  BY <1>1, <1>2, FS_Subset, FS_CardinalityType

LEMMA SourcesGrow ==
    ASSUME NEW msgs \in SUBSET H2Msg, NEW more \in SUBSET H2Msg, msgs \subseteq more,
           Cardinality(Sources(msgs)) >= QuorumSize
    PROVE  Cardinality(Sources(more)) >= QuorumSize
<1>1. Sources(msgs) \subseteq Sources(more)
  BY DEF Sources
<1>2. Cardinality(Sources(msgs)) <= Cardinality(Sources(more))
  BY <1>1, SourcesFinite, FS_Subset
<1> QED  BY <1>2, SourcesFinite, QuorumType

\* tbls.Recover has taken as many shares, of different nodes, all on the content.
LEMMA CombineSays ==
    ASSUME NEW votes, NEW content, content # NoSign, CombineSign(votes, content) = content,
           NEW msgs \in SUBSET H2Msg,
           \A i \in 1 .. QuorumSize : votes[i].sign = content => votes[i] \in msgs
    PROVE  Cardinality(Sources(msgs)) >= QuorumSize
<1>1. /\ \A i \in 1 .. QuorumSize : votes[i].sign = content
      /\ Cardinality({votes[i].src : i \in 1 .. QuorumSize}) = QuorumSize
  BY DEF CombineSign
<1>2. {votes[i].src : i \in 1 .. QuorumSize} \subseteq Sources(msgs)
  BY <1>1 DEF Sources
<1>3. Cardinality({votes[i].src : i \in 1 .. QuorumSize}) <= Cardinality(Sources(msgs))
  BY <1>2, SourcesFinite, FS_Subset
<1> QED  BY <1>1, <1>3, SourcesFinite, QuorumType

LEMMA SaidType ==
    ASSUME TypeOK
    PROVE  \A t : Said(t) \in SUBSET H2Msg
<1> SUFFICES ASSUME NEW t, NEW s \in Server, NEW i \in DOMAIN sent[s]
             PROVE  sent[s][i] \in H2Msg
  BY DEF Said
<1>1. sent[s] \in Seq(H2Msg)
  BY DEF TypeOK
<1> QED  BY <1>1, ItemType

LEMMA SaidTypeNext ==
    ASSUME TypeOK'
    PROVE  \A t : Said(t)' \in SUBSET H2Msg
<1> SUFFICES ASSUME NEW t, NEW s \in Server, NEW i \in DOMAIN sent'[s]
             PROVE  sent'[s][i] \in H2Msg
  BY DEF Said
<1>1. sent'[s] \in Seq(H2Msg)
  BY DEF TypeOK
<1> QED  BY <1>1, ItemType

\* What is backed stays backed.
LEMMA Growth ==
    ASSUME TypeOK, TypeOK', Grows
    PROVE  /\ \A t : Said(t) \subseteq Said(t)'
           /\ \A qc : BackedQC(qc) => BackedQC(qc)'
           /\ \A m : MessageInv(m) => MessageInv(m)'
<1>1. ASSUME NEW t PROVE Said(t) \subseteq Said(t)'
  <2> SUFFICES ASSUME NEW m \in Said(t) PROVE m \in Said(t)'
    OBVIOUS
  <2>1. PICK s \in Server : \E j \in DOMAIN sent[s] : sent[s][j].type = t /\ m = sent[s][j]
    BY DEF Said
  <2>2. PICK j \in DOMAIN sent[s] : sent[s][j].type = t /\ m = sent[s][j]
    BY <2>1
  <2>3. j \in DOMAIN sent'[s] /\ sent'[s][j] = sent[s][j]
    BY DEF Grows
  <2> QED  BY <2>2, <2>3 DEF Said
<1>2. ASSUME NEW t, NEW v, NEW n, Backed(t, v, n) PROVE Backed(t, v, n)'
  <2>1. Said(t) \in SUBSET H2Msg /\ Said(t)' \in SUBSET H2Msg
    BY SaidType, SaidTypeNext
  <2>2. /\ VotesFor(t, v, n) \subseteq VotesFor(t, v, n)'
        /\ VotesFor(t, v, n) \in SUBSET H2Msg /\ VotesFor(t, v, n)' \in SUBSET H2Msg
    BY <1>1, <2>1 DEF VotesFor
  <2>3. Cardinality(Sources(VotesFor(t, v, n))) >= QuorumSize
    BY <1>2 DEF Backed, VotesFor, Sources
  <2>4. Cardinality(Sources(VotesFor(t, v, n)')) >= QuorumSize
    BY <2>2, <2>3, SourcesGrow
  <2> QED  BY <2>4 DEF Backed, VotesFor, Sources
<1>3. ASSUME NEW v, Wished(v) PROVE Wished(v)'
  <2>1. Said("WISH") \in SUBSET H2Msg /\ Said("WISH")' \in SUBSET H2Msg
    BY SaidType, SaidTypeNext
  <2>2. /\ WishesFor(v) \subseteq WishesFor(v)'
        /\ WishesFor(v) \in SUBSET H2Msg /\ WishesFor(v)' \in SUBSET H2Msg
    BY <1>1, <2>1 DEF WishesFor
  <2>3. Cardinality(Sources(WishesFor(v))) >= QuorumSize
    BY <1>3 DEF Wished, WishesFor, Sources
  <2>4. Cardinality(Sources(WishesFor(v)')) >= QuorumSize
    BY <2>2, <2>3, SourcesGrow
  <2> QED  BY <2>4 DEF Wished, WishesFor, Sources
<1>4. ASSUME NEW qc, BackedQC(qc) PROVE BackedQC(qc)'
  BY <1>2, <1>4 DEF BackedQC
<1>5. ASSUME NEW m, MessageInv(m) PROVE MessageInv(m)'
  <2>1. BackedQC(m.justify1)' /\ BackedQC(m.justify2)'
    BY <1>4, <1>5 DEF MessageInv
  <2> QED  BY <1>2, <1>3, <1>5, <2>1 DEF MessageInv
<1> QED  BY <1>1, <1>4, <1>5

\* A node sends nothing, or one message that is as it should be.
Sends(r, p) == sent' = sent \/ (p \in H2Msg /\ MessageInv(p) /\ Send(r, p))

\* What a node keeps is as it should be, by what has been said before the step.
ListAfter(q) ==
    /\ BackedQC(proposalQC'[q]) /\ BackedQC(prepareQC'[q])
    /\ \A i \in DOMAIN vote1'[q] : vote1'[q][i] \in Said("VOTE1")
    /\ \A i \in DOMAIN vote2'[q] : vote2'[q][i] \in Said("VOTE2")
    /\ \A v \in DOMAIN wishMsgs'[q] : \A i \in DOMAIN wishMsgs'[q][v] :
          wishMsgs'[q][v][i] \in Said("WISH") /\ wishMsgs'[q][v][i].view = v

LEMMA SendsGrow ==
    ASSUME TypeOK, NEW r \in Server, NEW p, Sends(r, p)
    PROVE  /\ Grows
           /\ \A s \in Server : \A i \in DOMAIN sent'[s] :
                 \/ i \in DOMAIN sent[s]
                 \/ sent'[s][i] = p /\ MessageInv(p)
<1>1. CASE sent' = sent
  BY <1>1 DEF Grows
<1>2. CASE p \in H2Msg /\ MessageInv(p) /\ Send(r, p)
  <2>1. sent \in [Server -> Seq(H2Msg)] /\ sent[r] \in Seq(H2Msg)
    BY DEF TypeOK
  <2>2. sent'[r] = Append(sent[r], p) /\ \A s \in Server : s # r => sent'[s] = sent[s]
    BY <1>2, <2>1 DEF Send
  <2>3. /\ \A i \in DOMAIN sent[r] : i \in DOMAIN sent'[r] /\ sent'[r][i] = sent[r][i]
        /\ \A i \in DOMAIN sent'[r] : i \in DOMAIN sent[r] \/ sent'[r][i] = p
    BY <1>2, <2>1, <2>2
  <2> QED  BY <1>2, <2>2, <2>3 DEF Grows
<1> QED  BY <1>1, <1>2 DEF Sends

LEMMA Keeps ==
    ASSUME TypeOK, TypeOK', Inv, NEW r \in Server, NEW p, Sends(r, p),
           \A q \in Server : ListAfter(q)
    PROVE  Inv'
<1>1. /\ Grows
      /\ \A s \in Server : \A i \in DOMAIN sent'[s] :
            \/ i \in DOMAIN sent[s]
            \/ sent'[s][i] = p /\ MessageInv(p)
  BY SendsGrow
<1>2. /\ \A t : Said(t) \subseteq Said(t)'
      /\ \A qc : BackedQC(qc) => BackedQC(qc)'
      /\ \A m : MessageInv(m) => MessageInv(m)'
  BY <1>1, Growth
<1>3. SentInv'
  <2> SUFFICES ASSUME NEW s \in Server, NEW i \in DOMAIN sent'[s]
               PROVE  MessageInv(sent[s][i])'
    BY DEF SentInv
  <2>1. CASE i \in DOMAIN sent[s]
    <3>1. MessageInv(sent[s][i]) /\ sent'[s][i] = sent[s][i]
      BY <1>1, <2>1 DEF Inv, SentInv, Grows
    <3> QED  BY <1>2, <3>1
  <2>2. CASE sent'[s][i] = p /\ MessageInv(p)
    BY <1>2, <2>2
  <2> QED  BY <1>1, <2>1, <2>2
<1>4. ASSUME NEW q \in Server PROVE ListInv(q)'
  <2>1. ListAfter(q)
    OBVIOUS
  <2>2. BackedQC(proposalQC[q])' /\ BackedQC(prepareQC[q])'
    BY <1>2, <2>1 DEF ListAfter
  <2> QED  BY <1>2, <2>1, <2>2 DEF ListAfter, ListInv
<1> QED  BY <1>3, <1>4 DEF Inv

\* What is sent is as it should be, and a node that changes none of its lists keeps them so.
LEMMA SaidInv ==
    ASSUME Inv, NEW t, NEW m \in Said(t)
    PROVE  MessageInv(m) /\ m.type = t
  BY DEF Said, Inv, SentInv

LEMMA ListSame ==
    ASSUME Inv, NEW q \in Server, proposalQC'[q] = proposalQC[q],
           prepareQC'[q] = prepareQC[q], vote1'[q] = vote1[q], vote2'[q] = vote2[q],
           wishMsgs'[q] = wishMsgs[q]
    PROVE  ListAfter(q)
<1>1. ListInv(q)
  BY DEF Inv
<1> QED  BY <1>1 DEF ListInv, ListAfter

\* QuromCert{} does not verify, and neither do messages of other kinds sign anything.
LEMMA NilBacked == BackedQC(NilQC)
  BY DEF BackedQC, NilQC, NoSign, SignedContent

\* The leader's proposal, and a proposal or nothing is what GenProposal sends.
LEMMA GenProposalSends ==
    ASSUME TypeOK, Inv, NEW r \in Server, NEW c \in Cmd \cup {NoCmd}, GenProposal(r, c)
    PROVE  \E p : Sends(r, p)
<1>1. CASE Proposes(r, c)
  <2> DEFINE p == Proposal(r, c)
  <2>1. c \in Cmd
    BY <1>1 DEF Proposes
  <2>2. Send(r, p)
    BY <1>1 DEF GenProposal, Proposes, Proposal
  <2>3. p \in H2Msg /\ p.type = "PROPOSE" /\ p.justify1 = proposalQC[r]
        /\ p.justify2 = prepareQC[r]
    <3> HIDE DEF p
    <3> QED  BY <2>1, ProposalType, ZenonT(60) DEF p
  <2> HIDE DEF p
  <2>4. MessageInv(p)
    BY <2>3 DEF MessageInv, Inv, ListInv
  <2> QED  BY <2>2, <2>3, <2>4 DEF Sends
<1>2. CASE ~ Proposes(r, c)
  BY <1>2 DEF GenProposal, Proposes, Sends
<1> QED  BY <1>1, <1>2

LEMMA RequestKeeps ==
    ASSUME TypeOK, TypeOK', Inv, NEW r \in Server,
           HandleReq(r) \/ (\E c \in ClientCmds : GenNewReq(r, c))
             \/ (\E m \in H2Msg : HandleNewPropose(r, m))
    PROVE  Inv'
<1>1. PICK p : Sends(r, p)
  <2>1. CASE \E c \in ClientCmds : GenNewReq(r, c)
    BY <2>1 DEF GenNewReq, Sends
  <2>2. CASE HandleReq(r)
    <3>1. CASE requests[r] # NoCmd /\ IsLeader(r)
      <4>1. GenProposal(r, requests[r]) /\ requests[r] \in Cmd \cup {NoCmd}
        BY <2>2, <3>1 DEF HandleReq, TypeOK
      <4> QED  BY <4>1, GenProposalSends
    <3>2. CASE ~ (requests[r] # NoCmd /\ IsLeader(r))
      BY <2>2, <3>2 DEF HandleReq, Sends
    <3> QED  BY <3>1, <3>2
  <2>3. CASE \E m \in H2Msg : HandleNewPropose(r, m)
    <3>1. GenProposal(r, curProposal[r]) /\ curProposal[r] \in Cmd \cup {NoCmd}
      BY <2>3 DEF HandleNewPropose, TypeOK
    <3> QED  BY <3>1, GenProposalSends
  <2> QED  BY <2>1, <2>2, <2>3
<1>2. UNCHANGED <<qcVars, voteVars>>
  BY DEF GenNewReq, HandleReq, HandleNewPropose
<1>3. \A q \in Server : ListAfter(q)
  BY <1>2, ListSame DEF qcVars, voteVars
<1> QED  BY <1>1, <1>3, Keeps

\* The first vote: it signs what it is for, and the certificate kept is one that was sent.
LEMMA ProposeKeeps ==
    ASSUME TypeOK, TypeOK', Inv, NEW r \in Server, NEW m \in H2Msg, MessageInv(m),
           HandlePropose(r, m)
    PROVE  Inv'
<1> DEFINE sg == SignedContent("PROPOSE", m.view, m.node)
           vote == [MkMsg("VOTE1", m.view, r, {m.src}, m.node) EXCEPT !.sign = sg]
<1>1. sent' = sent \/ Send(r, vote)
  BY DEF HandlePropose
<1>2. sg \in Sign
  BY MessageParts, SignedType
<1> HIDE DEF sg
<1>3. vote = Signed("VOTE1", m.view, r, {m.src}, m.node, sg)
  BY DEF MkMsg, Signed
<1> HIDE DEF vote
<1>4. vote \in H2Msg
  <2>1. m.view \in Int /\ m.node \in HsNode /\ {m.src} \in SUBSET Server
        /\ "VOTE1" \in MsgType
    BY MessageParts DEF MsgType
  <2> QED  BY <1>2, <1>3, <2>1, SignedMsgType
<1>5. MessageInv(vote)
  <2>1. /\ vote.type = "VOTE1" /\ vote.view = m.view /\ vote.node = m.node /\ vote.sign = sg
        /\ vote.justify1 = NilQC /\ vote.justify2 = NilQC
    BY <1>3 DEF Signed
  <2> QED  BY <2>1, NilBacked DEF MessageInv, sg
<1>6. Sends(r, vote)
  BY <1>1, <1>4, <1>5 DEF Sends
<1>7. ASSUME NEW q \in Server PROVE ListAfter(q)
  <2>1. /\ prepareQC'[q] = prepareQC[q] /\ vote1'[q] = vote1[q] /\ vote2'[q] = vote2[q]
        /\ wishMsgs'[q] = wishMsgs[q]
    BY DEF HandlePropose, voteVars
  <2>2. proposalQC'[q] = proposalQC[q] \/ proposalQC'[q] = m.justify1
    <3>1. \/ proposalQC' = proposalQC
          \/ proposalQC' = [proposalQC EXCEPT ![r] = m.justify1]
      BY DEF HandlePropose
    <3>2. proposalQC \in [Server -> QuromCert]
      BY DEF TypeOK
    <3> QED  BY <3>1, <3>2
  <2>3. BackedQC(m.justify1)
    BY DEF MessageInv
  <2>4. ListInv(q)
    BY DEF Inv
  <2> QED  BY <2>1, <2>2, <2>3, <2>4 DEF ListAfter, ListInv
<1> QED  BY <1>6, <1>7, Keeps

\* A single certificate that verifies was combined from first votes for its node.
LEMMA SingleQCBacked ==
    ASSUME TypeOK, Inv, NEW r \in Server, NEW votes,
           \A i \in 1 .. QuorumSize : votes[i] \in Said("VOTE1"),
           NEW qc, qc = SingleQC(r, votes)
    PROVE  BackedQC(qc) /\ qc.view = view[r] /\ qc.node = hs2Node[r]
<1> DEFINE content == SignedContent("PROPOSE", view[r], hs2Node[r])
<1>1. /\ qc.type = "PROPOSE" /\ qc.view = view[r] /\ qc.node = hs2Node[r]
      /\ qc.sign = CombineSign(votes, content)
  BY DEF SingleQC
<1>2. ASSUME qc.sign = content PROVE Backed("VOTE1", view[r], hs2Node[r])
  <2> DEFINE msgs == VotesFor("VOTE1", view[r], hs2Node[r])
  <2>1. msgs \in SUBSET H2Msg
    BY SaidType DEF VotesFor
  <2>2. content # NoSign
    BY DEF SignedContent, NoSign
  <2>3. ASSUME NEW i \in 1 .. QuorumSize, votes[i].sign = content
        PROVE  votes[i] \in msgs
    <3>1. votes[i] \in Said("VOTE1")
      OBVIOUS
    <3>2. votes[i].sign = SignedContent("PROPOSE", votes[i].view, votes[i].node)
      BY <3>1, SaidInv DEF MessageInv
    <3>3. votes[i].node = hs2Node[r] /\ votes[i].view % 256 = view[r] % 256
      BY <2>3, <3>2 DEF SignedContent
    <3> QED  BY <3>1, <3>3 DEF VotesFor
  <2>4. CombineSign(votes, content) = content
    BY <1>1, <1>2
  <2> HIDE DEF msgs, content
  <2>5. Cardinality(Sources(msgs)) >= QuorumSize
    BY <2>1, <2>2, <2>3, <2>4, CombineSays
  <2> QED  BY <2>5 DEF msgs, Backed, VotesFor, Sources
<1> QED  BY <1>1, <1>2 DEF BackedQC

LEMMA Vote1Keeps ==
    ASSUME TypeOK, TypeOK', Inv, NEW r \in Server, NEW m \in Said("VOTE1"), m \in H2Msg,
           HandleVote1(r, m)
    PROVE  Inv'
<1> DEFINE votes == Append(vote1[r], m)
           qc == SingleQC(r, votes)
           p == [MkMsg("PREPARE", view[r], r, Server, hs2Node[r]) EXCEPT !.justify1 = qc]
<1>1. vote1 \in [Server -> Seq(H2Msg)] /\ vote1[r] \in Seq(H2Msg) /\ votes \in Seq(H2Msg)
  BY DEF TypeOK
<1>2. \A i \in DOMAIN votes : votes[i] \in Said("VOTE1")
  <2>1. \A i \in DOMAIN vote1[r] : vote1[r][i] \in Said("VOTE1")
    BY DEF Inv, ListInv
  <2> QED  BY <1>1, <2>1
<1>3. /\ vote1' = [vote1 EXCEPT ![r] = IF m.view = view[r] THEN votes ELSE @]
      /\ UNCHANGED <<prepareQC, vote2, wishMsgs>>
      /\ \/ proposalQC' = proposalQC /\ sent' = sent
         \/ /\ Len(votes) >= QuorumSize
            /\ proposalQC' = [proposalQC EXCEPT ![r] = qc]
            /\ Send(r, p)
  BY DEF HandleVote1, SingleQC
<1>4. Len(votes) >= QuorumSize => \A i \in 1 .. QuorumSize : votes[i] \in Said("VOTE1")
  <2>1. Len(votes) \in Nat /\ DOMAIN votes = 1 .. Len(votes)
    BY <1>1, ItemType
  <2> QED  BY <1>2, <2>1, QuorumType
<1>5. qc = SingleQC(r, votes)
  OBVIOUS
<1>6. qc \in QuromCert
  BY SingleQCType
<1> HIDE DEF qc, votes
<1>7. Len(votes) >= QuorumSize => BackedQC(qc) /\ qc.view = view[r] /\ qc.node = hs2Node[r]
  BY <1>4, <1>5, SingleQCBacked
<1>8. p = Carrier("PREPARE", view[r], r, Server, hs2Node[r], qc, NilQC)
  BY DEF MkMsg, Carrier
<1> HIDE DEF p
<1>9. p \in H2Msg
  <2>1. view[r] \in Int /\ hs2Node[r] \in HsNode /\ "PREPARE" \in MsgType
    BY DEF TypeOK, MsgType
  <2> QED  BY <1>6, <1>8, <2>1, ConstantTypes, CarrierType
<1>10. Len(votes) >= QuorumSize => MessageInv(p)
  <2>1. /\ p.type = "PREPARE" /\ p.view = view[r] /\ p.node = hs2Node[r]
        /\ p.justify1 = qc /\ p.justify2 = NilQC
    BY <1>8 DEF Carrier
  <2> QED  BY <1>7, <2>1, NilBacked DEF MessageInv
<1>11. Sends(r, p)
  BY <1>3, <1>9, <1>10 DEF Sends
<1>12. ASSUME NEW q \in Server PROVE ListAfter(q)
  <2>1. ListInv(q)
    BY DEF Inv
  <2>2. vote1'[q] = vote1[q] \/ vote1'[q] = votes
    BY <1>1, <1>3
  <2>3. \A i \in DOMAIN vote1'[q] : vote1'[q][i] \in Said("VOTE1")
    BY <1>2, <2>1, <2>2 DEF ListInv
  <2>4. BackedQC(proposalQC'[q])
    <3>1. proposalQC'[q] = proposalQC[q] \/ (Len(votes) >= QuorumSize /\ proposalQC'[q] = qc)
      BY <1>3 DEF TypeOK
    <3> QED  BY <1>7, <2>1, <3>1 DEF ListInv
  <2> QED  BY <1>3, <2>1, <2>3, <2>4 DEF ListInv, ListAfter
<1> QED  BY <1>11, <1>12, Keeps

\* The second vote is given on a certificate that verifies for the node it names.
LEMMA PrepareKeeps ==
    ASSUME TypeOK, TypeOK', Inv, NEW r \in Server, NEW m \in Said("PREPARE"), m \in H2Msg,
           HandlePrepare(r, m)
    PROVE  Inv'
<1> DEFINE d == {Leader(view[r] + 1)}
           sg == SignedContent("PREPARE", m.view, m.node)
           vote == [MkMsg("VOTE2", m.view, r, d, m.node) EXCEPT !.sign = sg]
           takes == CheckQC(m.justify1, "PROPOSE", view[r], bs[r].blk.height)
<1>1. \/ proposalQC' = proposalQC /\ sent' = sent
      \/ /\ takes
         /\ proposalQC' = [proposalQC EXCEPT ![r] = m.justify1]
         /\ Send(r, vote)
  BY DEF HandlePrepare
<1>2. /\ BackedQC(m.justify1) /\ m.justify1.view = m.view /\ m.justify1.node = m.node
  BY SaidInv DEF MessageInv
<1>3. takes => Backed("VOTE1", m.view, m.node)
  BY <1>2 DEF CheckQC, BackedQC
<1>4. sg \in Sign /\ d \in SUBSET Server /\ m.view \in Int /\ m.node \in HsNode
      /\ "VOTE2" \in MsgType
  <2>1. view[r] + 1 \in Nat
    BY DEF TypeOK
  <2> QED  BY <2>1, MessageParts, SignedType, LeaderType DEF MsgType
<1> HIDE DEF sg, d, takes
<1>5. vote = Signed("VOTE2", m.view, r, d, m.node, sg)
  BY DEF MkMsg, Signed
<1> HIDE DEF vote
<1>6. vote \in H2Msg
  BY <1>4, <1>5, SignedMsgType
<1>7. takes => MessageInv(vote)
  <2>1. /\ vote.type = "VOTE2" /\ vote.view = m.view /\ vote.node = m.node /\ vote.sign = sg
        /\ vote.justify1 = NilQC /\ vote.justify2 = NilQC
    BY <1>5 DEF Signed
  <2> QED  BY <1>3, <2>1, NilBacked DEF MessageInv, sg
<1>8. Sends(r, vote)
  BY <1>1, <1>6, <1>7 DEF Sends
<1>9. ASSUME NEW q \in Server PROVE ListAfter(q)
  <2>1. /\ prepareQC'[q] = prepareQC[q] /\ vote1'[q] = vote1[q] /\ vote2'[q] = vote2[q]
        /\ wishMsgs'[q] = wishMsgs[q]
    BY DEF HandlePrepare, voteVars
  <2>2. proposalQC'[q] = proposalQC[q] \/ proposalQC'[q] = m.justify1
    <3>1. proposalQC \in [Server -> QuromCert]
      BY DEF TypeOK
    <3> QED  BY <1>1, <3>1
  <2>3. ListInv(q)
    BY DEF Inv
  <2> QED  BY <1>2, <2>1, <2>2, <2>3 DEF ListAfter, ListInv
<1> QED  BY <1>8, <1>9, Keeps

\* A double certificate that verifies was combined from second votes for its node, and
\* each of those was given on a quorum of first votes.
LEMMA DoubleQCBacked ==
    ASSUME TypeOK, Inv, NEW r \in Server, NEW votes,
           \A i \in 1 .. QuorumSize : votes[i] \in Said("VOTE2"),
           NEW qc, qc = DoubleQC(r, votes)
    PROVE  BackedQC(qc)
<1> DEFINE content == SignedContent("PREPARE", view[r], hs2Node[r])
<1>1. /\ qc.type = "PREPARE" /\ qc.view = view[r] /\ qc.node = hs2Node[r]
      /\ qc.sign = CombineSign(votes, content)
  BY DEF DoubleQC
<1>2. ASSUME qc.sign = content
      PROVE  Backed("VOTE2", view[r], hs2Node[r]) /\ Backed("VOTE1", view[r], hs2Node[r])
  <2> DEFINE msgs == VotesFor("VOTE2", view[r], hs2Node[r])
  <2>1. msgs \in SUBSET H2Msg
    BY SaidType DEF VotesFor
  <2>2. content # NoSign
    BY DEF SignedContent, NoSign
  <2>3. ASSUME NEW i \in 1 .. QuorumSize, votes[i].sign = content
        PROVE  votes[i] \in msgs /\ Backed("VOTE1", view[r], hs2Node[r])
    <3>1. votes[i] \in Said("VOTE2")
      OBVIOUS
    <3>2. /\ votes[i].sign = SignedContent("PREPARE", votes[i].view, votes[i].node)
          /\ Backed("VOTE1", votes[i].view, votes[i].node)
      BY <3>1, SaidInv DEF MessageInv
    <3>3. votes[i].node = hs2Node[r] /\ votes[i].view % 256 = view[r] % 256
      BY <2>3, <3>2 DEF SignedContent
    <3> QED  BY <3>1, <3>2, <3>3 DEF VotesFor, Backed
  <2>4. CombineSign(votes, content) = content
    BY <1>1, <1>2
  <2>5. 1 \in 1 .. QuorumSize
    BY QuorumType
  <2> HIDE DEF msgs, content
  <2>6. Cardinality(Sources(msgs)) >= QuorumSize
    BY <2>1, <2>2, <2>3, <2>4, CombineSays
  <2>7. votes[1].sign = content
    BY <2>2, <2>4, <2>5 DEF CombineSign
  <2>8. Backed("VOTE1", view[r], hs2Node[r])
    BY <2>3, <2>5, <2>7
  <2> QED  BY <2>6, <2>8 DEF msgs, Backed, VotesFor, Sources
<1> QED  BY <1>1, <1>2 DEF BackedQC

LEMMA Vote2Keeps ==
    ASSUME TypeOK, TypeOK', Inv, NEW r \in Server, NEW m \in Said("VOTE2"), m \in H2Msg,
           HandleVote2(r, m)
    PROVE  Inv'
<1> DEFINE votes == Vote2List(r, m)
           qc == DoubleQC(r, votes)
           p == [MkMsg("ENTER", view[r], r, Server, NilNode) EXCEPT !.justify2 = qc]
<1>1. vote2 \in [Server -> Seq(H2Msg)] /\ vote2[r] \in Seq(H2Msg) /\ votes \in Seq(H2Msg)
  BY DEF TypeOK, Vote2List
<1>2. \A i \in DOMAIN votes : votes[i] \in Said("VOTE2")
  <2>1. \A i \in DOMAIN vote2[r] : vote2[r][i] \in Said("VOTE2")
    BY DEF Inv, ListInv
  <2> QED  BY <1>1, <2>1 DEF Vote2List
<1>3. /\ vote2' = [vote2 EXCEPT ![r] = votes]
      /\ UNCHANGED <<proposalQC, vote1, wishMsgs>>
      /\ \/ prepareQC' = prepareQC /\ sent' = sent
         \/ /\ Len(votes) >= QuorumSize
            /\ prepareQC' = [prepareQC EXCEPT ![r] = qc]
            /\ Send(r, p)
  BY DEF HandleVote2, DoubleQC
<1>4. Len(votes) >= QuorumSize => \A i \in 1 .. QuorumSize : votes[i] \in Said("VOTE2")
  <2>1. Len(votes) \in Nat /\ DOMAIN votes = 1 .. Len(votes)
    BY <1>1, ItemType
  <2> QED  BY <1>2, <2>1, QuorumType
<1>5. qc = DoubleQC(r, votes)
  OBVIOUS
<1>6. qc \in QuromCert
  BY DoubleQCType
<1> HIDE DEF qc, votes
<1>7. Len(votes) >= QuorumSize => BackedQC(qc)
  BY <1>4, <1>5, DoubleQCBacked
<1>8. p = Carrier("ENTER", view[r], r, Server, NilNode, NilQC, qc)
  BY DEF MkMsg, Carrier
<1> HIDE DEF p
<1>9. p \in H2Msg
  <2>1. view[r] \in Int /\ "ENTER" \in MsgType
    BY DEF TypeOK, MsgType
  <2> QED  BY <1>6, <1>8, <2>1, ConstantTypes, CarrierType
<1>10. Len(votes) >= QuorumSize => MessageInv(p)
  <2>1. p.type = "ENTER" /\ p.justify1 = NilQC /\ p.justify2 = qc
    BY <1>8 DEF Carrier
  <2> QED  BY <1>7, <2>1, NilBacked DEF MessageInv
<1>11. Sends(r, p)
  BY <1>3, <1>9, <1>10 DEF Sends
<1>12. ASSUME NEW q \in Server PROVE ListAfter(q)
  <2>1. ListInv(q)
    BY DEF Inv
  <2>2. vote2'[q] = vote2[q] \/ vote2'[q] = votes
    BY <1>1, <1>3
  <2>3. \A i \in DOMAIN vote2'[q] : vote2'[q][i] \in Said("VOTE2")
    BY <1>2, <2>1, <2>2 DEF ListInv
  <2>4. BackedQC(prepareQC'[q])
    <3>1. prepareQC'[q] = prepareQC[q] \/ (Len(votes) >= QuorumSize /\ prepareQC'[q] = qc)
      BY <1>3 DEF TypeOK
    <3> QED  BY <1>7, <2>1, <3>1 DEF ListInv
  <2> QED  BY <1>3, <2>1, <2>3, <2>4 DEF ListInv, ListAfter
<1> QED  BY <1>11, <1>12, Keeps

\* The next view: the votes are dropped and a double certificate that was sent is kept.
LEMMA EnterKeeps ==
    ASSUME TypeOK, TypeOK', Inv, NEW r \in Server, NEW m \in H2Msg, MessageInv(m),
           HandleOptimisticEnter(r, m)
    PROVE  Inv'
<1>1. Sends(r, m)
  BY DEF HandleOptimisticEnter, Sends
<1>2. ASSUME NEW q \in Server PROVE ListAfter(q)
  <2>1. ListInv(q) /\ BackedQC(m.justify2)
    BY DEF Inv, MessageInv
  <2>2. proposalQC'[q] = proposalQC[q] /\ wishMsgs'[q] = wishMsgs[q]
    BY DEF HandleOptimisticEnter
  <2>3. \/ UNCHANGED <<vote1, vote2>>
        \/ vote1' = [vote1 EXCEPT ![r] = <<>>] /\ vote2' = [vote2 EXCEPT ![r] = <<>>]
    BY DEF HandleOptimisticEnter
  <2>4. /\ vote1'[q] = vote1[q] \/ vote1'[q] = <<>>
        /\ vote2'[q] = vote2[q] \/ vote2'[q] = <<>>
    <3>1. vote1 \in [Server -> Seq(H2Msg)] /\ vote2 \in [Server -> Seq(H2Msg)]
      BY DEF TypeOK
    <3> QED  BY <2>3, <3>1
  <2>5. \/ prepareQC' = prepareQC
        \/ prepareQC' = [prepareQC EXCEPT ![r] =
                            IF r = Leader(view[r] + 1) THEN @ ELSE m.justify2]
    BY DEF HandleOptimisticEnter
  <2>6. prepareQC'[q] = prepareQC[q] \/ prepareQC'[q] = m.justify2
    <3>1. prepareQC \in [Server -> QuromCert]
      BY DEF TypeOK
    <3> QED  BY <2>5, <3>1
  <2> QED  BY <2>1, <2>2, <2>4, <2>6 DEF ListInv, ListAfter
<1> QED  BY <1>1, <1>2, Keeps

\* The view timer: a wish signs the view it names.
LEMMA ViewChangeKeeps ==
    ASSUME TypeOK, TypeOK', Inv, NEW r \in Server, StartViewChange(r)
    PROVE  Inv'
<1> DEFINE d == {Leader(view[r] + 1)}
           v == view[r] + 1
           sg == SignedContent("WISH", v, NilNode)
           m == [MkMsg("WISH", v, r, d, NilNode) EXCEPT !.sign = sg]
<1>1. v \in Nat /\ "WISH" \in MsgType
  BY DEF TypeOK, MsgType
<1>2. d \in SUBSET Server /\ sg \in Sign
  BY <1>1, LeaderType, SignedType, ConstantTypes
<1>3. Send(r, m)
  BY DEF StartViewChange
<1> HIDE DEF d, sg, v
<1>4. m = Signed("WISH", v, r, d, NilNode, sg)
  BY DEF MkMsg, Signed
<1> HIDE DEF m
<1>5. m \in H2Msg
  BY <1>1, <1>2, <1>4, ConstantTypes, SignedMsgType
<1>6. MessageInv(m)
  <2>1. /\ m.type = "WISH" /\ m.view = v /\ m.sign = sg
        /\ m.justify1 = NilQC /\ m.justify2 = NilQC
    BY <1>4 DEF Signed
  <2> QED  BY <2>1, NilBacked DEF MessageInv, sg
<1>7. Sends(r, m)
  BY <1>3, <1>5, <1>6 DEF Sends
<1>8. \A q \in Server : ListAfter(q)
  BY ListSame DEF StartViewChange, qcVars, voteVars
<1> QED  BY <1>7, <1>8, Keeps

\* The wishes of one node for a view
WishesSaid(f) ==
    \A v \in DOMAIN f : \A i \in DOMAIN f[v] : f[v][i] \in Said("WISH") /\ f[v][i].view = v

\* A timeout certificate that verifies was combined from wishes for its view.
LEMMA WishKeeps ==
    ASSUME TypeOK, TypeOK', Inv, NEW r \in Server, NEW m \in Said("WISH"), m \in H2Msg,
           HandleWish(r, m)
    PROVE  Inv'
<1> DEFINE wishes == Wishes(r, m)
           others == OtherWishes(r, m)
           content == SignedContent("WISH", m.view, NilNode)
           sg == CombineSign(wishes, content)
           p == [MkMsg("TCMSG", m.view, r, Server, NilNode) EXCEPT !.sign = sg]
           f == [v \in others \cup {m.view} |-> IF v = m.view THEN wishes ELSE wishMsgs[r][v]]
           g == [v \in others |-> wishMsgs[r][v]]
<1>1. WishType /\ m.view \in Int /\ WishesSaid(wishMsgs[r])
  BY MessageParts DEF TypeOK, WishType, Inv, ListInv, WishesSaid
<1>2. wishes \in Seq(H2Msg)
  BY <1>1 DEF WishType, Wishes
<1>3. \A i \in DOMAIN wishes : wishes[i] \in Said("WISH") /\ wishes[i].view = m.view
  <2> DEFINE old == IF m.view \in DOMAIN wishMsgs[r] THEN wishMsgs[r][m.view] ELSE <<>>
  <2>1. old \in Seq(H2Msg)
    BY <1>1 DEF WishType
  <2>2. \A i \in DOMAIN old : old[i] \in Said("WISH") /\ old[i].view = m.view
    BY <1>1 DEF WishesSaid
  <2>3. wishes = Append(old, m)
    BY DEF Wishes
  <2> HIDE DEF old, wishes
  <2> QED  BY <2>1, <2>2, <2>3
<1>4. \/ wishMsgs' = [wishMsgs EXCEPT ![r] = f] /\ sent' = sent
      \/ /\ wishMsgs' = [wishMsgs EXCEPT ![r] = g] /\ Send(r, p)
         /\ Len(wishes) = QuorumSize
  <2>1. wishMsgs = [q \in Server |-> wishMsgs[q]]
    BY <1>1 DEF WishType
  <2> QED  BY <2>1 DEF HandleWish, Wishes, OtherWishes
<1>5. content \in Sign
  BY <1>1, SignedType, ConstantTypes
<1>6. sg \in Sign
  BY <1>5, CombineType
<1> HIDE DEF wishes
<1>7. Len(wishes) = QuorumSize /\ sg = content => Wished(m.view)
  <2> SUFFICES ASSUME Len(wishes) = QuorumSize, sg = content PROVE Wished(m.view)
    OBVIOUS
  <2> DEFINE msgs == WishesFor(m.view)
  <2>1. msgs \in SUBSET H2Msg
    BY SaidType DEF WishesFor
  <2>2. content # NoSign
    BY DEF SignedContent, NoSign
  <2>3. DOMAIN wishes = 1 .. QuorumSize
    BY <1>2, ItemType
  <2>4. \A i \in 1 .. QuorumSize : wishes[i].sign = content => wishes[i] \in msgs
    BY <1>3, <2>3 DEF WishesFor
  <2>5. CombineSign(wishes, content) = content
    OBVIOUS
  <2> HIDE DEF msgs, content
  <2>6. Cardinality(Sources(msgs)) >= QuorumSize
    BY <2>1, <2>2, <2>4, <2>5, CombineSays
  <2> QED  BY <2>6 DEF msgs, Wished, WishesFor, Sources
<1> HIDE DEF sg
<1>8. p = Signed("TCMSG", m.view, r, Server, NilNode, sg)
  BY DEF MkMsg, Signed
<1> HIDE DEF p
<1>9. p \in H2Msg
  BY <1>1, <1>6, <1>8, SignedMsgType, ConstantTypes DEF MsgType
<1>10. Len(wishes) = QuorumSize => MessageInv(p)
  <2>1. /\ p.type = "TCMSG" /\ p.view = m.view /\ p.sign = sg
        /\ p.justify1 = NilQC /\ p.justify2 = NilQC
    BY <1>8 DEF Signed
  <2> QED  BY <1>7, <2>1, NilBacked DEF MessageInv
<1>11. Sends(r, p)
  BY <1>4, <1>9, <1>10 DEF Sends
<1>12. WishesSaid(f) /\ WishesSaid(g)
  BY <1>1, <1>3 DEF WishesSaid, OtherWishes
<1> HIDE DEF f, g
<1>13. ASSUME NEW q \in Server PROVE ListAfter(q)
  <2>1. ListInv(q) /\ WishesSaid(wishMsgs[q])
    BY DEF Inv, ListInv, WishesSaid
  <2>2. wishMsgs'[q] = wishMsgs[q] \/ wishMsgs'[q] = f \/ wishMsgs'[q] = g
    <3>1. wishMsgs = [s \in Server |-> wishMsgs[s]]
      BY <1>1 DEF WishType
    <3> QED  BY <1>4, <3>1
  <2>3. WishesSaid(wishMsgs'[q])
    BY <1>12, <2>1, <2>2
  <2>4. UNCHANGED <<proposalQC, prepareQC, vote1, vote2>>
    BY DEF HandleWish, qcVars
  <2> QED  BY <2>1, <2>3, <2>4 DEF ListInv, ListAfter, WishesSaid
<1> QED  BY <1>11, <1>13, Keeps

\* A replica sends the certificates it keeps to the leader.
LEMMA TCKeeps ==
    ASSUME TypeOK, TypeOK', Inv, NEW r \in Server, NEW m \in H2Msg, HandleTC(r, m)
    PROVE  Inv'
<1> DEFINE v == IF m.view > view[r] THEN m.view ELSE view[r]
           u == v - 1
           d == {Leader(v)}
           q1 == proposalQC[r]
           q2 == prepareQC[r]
           p == [MkMsg("NEW_VIEW", u, r, d, NilNode) EXCEPT !.justify1 = q1, !.justify2 = q2]
<1>1. view[r] \in Nat /\ m.view \in Int
  BY MessageParts DEF TypeOK
<1>2. v \in Nat
  BY <1>1
<1>3. sent' = sent \/ Send(r, p)
  BY DEF HandleTC
<1> HIDE DEF v
<1>4. /\ u \in Int /\ d \in SUBSET Server /\ "NEW_VIEW" \in MsgType
      /\ q1 \in QuromCert /\ q2 \in QuromCert
  BY <1>2, LeaderType DEF MsgType, TypeOK
<1>5. BackedQC(q1) /\ BackedQC(q2)
  BY DEF Inv, ListInv
<1> HIDE DEF d, q1, q2, u
<1>6. p = Carrier("NEW_VIEW", u, r, d, NilNode, q1, q2)
  BY CarrierIs
<1> HIDE DEF p
<1>7. p \in H2Msg
  BY <1>4, <1>6, ConstantTypes, CarrierType
<1>8. MessageInv(p)
  <2>1. p.type = "NEW_VIEW" /\ p.justify1 = q1 /\ p.justify2 = q2
    BY <1>6 DEF Carrier
  <2> QED  BY <1>5, <2>1 DEF MessageInv
<1>9. Sends(r, p)
  BY <1>3, <1>7, <1>8 DEF Sends
<1>10. \A q \in Server : ListAfter(q)
  BY ListSame DEF HandleTC, qcVars, voteVars
<1> QED  BY <1>9, <1>10, Keeps

\* The enter timer, and the new-view messages
LEMMA EnterTimerKeeps ==
    ASSUME TypeOK, TypeOK', Inv, NEW r \in Server,
           EnterTimerExpires(r) \/ \E m \in H2Msg : HandleNewView(r, m)
    PROVE  Inv'
<1> DEFINE m == MkMsg("NEW_PROPOSE", 0, r, {r}, NilNode)
<1>1. m \in H2Msg
  BY MkMsgType, ConstantTypes DEF MsgType
<1>2. m.type = "NEW_PROPOSE" /\ m.justify1 = NilQC /\ m.justify2 = NilQC
  BY DEF MkMsg
<1>3. sent' = sent \/ Send(r, m)
  BY DEF EnterTimerExpires, HandleNewView
<1> HIDE DEF m
<1>4. MessageInv(m)
  BY <1>2, NilBacked DEF MessageInv
<1>5. Sends(r, m)
  BY <1>1, <1>3, <1>4 DEF Sends
<1>6. UNCHANGED <<qcVars, voteVars>>
  BY DEF EnterTimerExpires, HandleNewView
<1>7. \A q \in Server : ListAfter(q)
  BY <1>6, ListSame DEF qcVars, voteVars
<1> QED  BY <1>5, <1>7, Keeps

\* The invariant holds at the start, and every step keeps it.
LEMMA InvInit == Init => Inv
<1> SUFFICES ASSUME Init PROVE Inv
  OBVIOUS
<1>1. SentInv
  BY DEF Init, SentInv
<1>2. ASSUME NEW r \in Server PROVE ListInv(r)
  <2>1. /\ proposalQC[r] = NilQC /\ prepareQC[r] = NilQC
        /\ vote1[r] = <<>> /\ vote2[r] = <<>> /\ wishMsgs[r] = <<>>
    BY DEF Init
  <2> QED  BY <2>1, NilBacked DEF ListInv
<1> QED  BY <1>1, <1>2 DEF Inv

LEMMA InvStep == TypeOK /\ TypeOK' /\ Inv /\ [Next]_vars => Inv'
<1> SUFFICES ASSUME TypeOK, TypeOK', Inv, [Next]_vars PROVE Inv'
  OBVIOUS
<1>1. CASE \E r \in Server, c \in ClientCmds : GenNewReq(r, c)
  BY <1>1, RequestKeeps
<1>2. CASE \E r \in Server : HandleReq(r)
  BY <1>2, RequestKeeps
<1>3. CASE \E r, s \in Server : Receive(r, s)
  <2>1. PICK r \in Server, s \in Server : Receive(r, s)
    BY <1>3
  <2>2. PICK i \in DOMAIN sent[s] : sent[s][i] \in H2Msg /\ RouteH2Msg(r, sent[s][i])
    BY <2>1, Receives
  <2> DEFINE m == sent[s][i]
  <2>3. MessageInv(m) /\ m \in Said(m.type) /\ m \in H2Msg
    BY <2>2 DEF Inv, SentInv, Said
  <2>4. RouteH2Msg(r, m)
    BY <2>2
  <2> HIDE DEF m
  <2>5. CASE HandleNewView(r, m)
    BY <2>3, <2>5, EnterTimerKeeps
  <2>6. CASE HandleNewPropose(r, m)
    BY <2>3, <2>6, RequestKeeps
  <2>7. CASE HandlePropose(r, m)
    BY <2>3, <2>7, ProposeKeeps
  <2>8. CASE HandleVote1(r, m)
    <3>1. m.type = "VOTE1"
      BY <2>8 DEF HandleVote1
    <3> QED  BY <2>3, <2>8, <3>1, Vote1Keeps
  <2>9. CASE HandlePrepare(r, m)
    <3>1. m.type = "PREPARE"
      BY <2>9 DEF HandlePrepare
    <3> QED  BY <2>3, <2>9, <3>1, PrepareKeeps
  <2>10. CASE HandleVote2(r, m)
    <3>1. m.type = "VOTE2"
      BY <2>10 DEF HandleVote2
    <3> QED  BY <2>3, <2>10, <3>1, Vote2Keeps
  <2>11. CASE HandleWish(r, m)
    <3>1. m.type = "WISH"
      BY <2>11 DEF HandleWish
    <3> QED  BY <2>3, <2>11, <3>1, WishKeeps
  <2>12. CASE HandleTC(r, m)
    BY <2>3, <2>12, TCKeeps
  <2>13. CASE HandleOptimisticEnter(r, m)
    BY <2>3, <2>13, EnterKeeps
  <2> QED
    BY <2>4, <2>5, <2>6, <2>7, <2>8, <2>9, <2>10, <2>11, <2>12, <2>13 DEF RouteH2Msg
<1>4. CASE \E r \in Server : StartViewChange(r)
  BY <1>4, ViewChangeKeeps
<1>5. CASE \E r \in Server : EnterTimerExpires(r)
  BY <1>5, EnterTimerKeeps
<1>6. CASE UNCHANGED vars
  <2>1. /\ sent' = sent /\ UNCHANGED <<qcVars, voteVars>>
    BY <1>6 DEF vars
  <2>2. \A q \in Server : ListAfter(q)
    BY <2>1, ListSame DEF qcVars, voteVars
  <2>3. 0 \in Server /\ Sends(0, NilNode)
    BY <2>1, NAssumption DEF Server, Sends
  <2> QED  BY <2>2, <2>3, Keeps
<1> QED  BY <1>1, <1>2, <1>3, <1>4, <1>5, <1>6 DEF Next

LEMMA TypeAndInv == Spec => [](TypeOK /\ Inv)
<1>1. Init => TypeOK /\ Inv
  BY TypeInit, InvInit
<1>2. TypeOK /\ Inv /\ [Next]_vars => TypeOK' /\ Inv'
  BY TypeStep, InvStep
<1> QED  BY <1>1, <1>2, PTL DEF Spec

----------------------------------------------------------------------------
(* Theorems *)

\* Every variable keeps the type its field has in Hotstuff2, Pacemaker and BlockStore,
\* through every handler: the node a view belongs to is always one of the servers, and
\* GenCommitBlkIndex never reaches beyond the list of locked blocks.
THEOREM H2TypeCorrect == Spec => []TypeOK
  BY TypeAndInv, PTL

\* Every vote signs the view and node it names, every list holds votes that were sent, and
\* a second vote is given only to a node that has a quorum of first votes (HandlePropose,
\* HandlePrepare, HandleVote1, HandleVote2, HandleWish).
THEOREM H2InvCorrect == Spec => []Inv
  BY TypeAndInv, PTL

\* A certificate that CheckQC accepts, wherever a node holds or sends it, has a quorum of
\* first votes behind it (for its node, in a view of the same byte), a double certificate
\* also one of second votes, and a timeout certificate that verifies a quorum of wishes:
\* though vote lists survive view changes and combinations that failed are broadcast
\* (HandleVote1, HandleTC).
THEOREM CertificatesBackedCorrect == Spec => []CertificatesBacked
<1>1. TypeOK /\ Inv => CertificatesBacked
  <2> SUFFICES ASSUME TypeOK, Inv PROVE CertificatesBacked
    OBVIOUS
  <2>1. ASSUME NEW qc \in Certificates
        PROVE  BackedQC(qc) /\ qc.sign = SignedContent(qc.type, qc.view, qc.node)
    BY DEF Certificates, Inv, ListInv, SentInv, MessageInv
  <2>2. ASSUME NEW m \in Said("TCMSG"), m.sign = SignedContent("WISH", m.view, NilNode)
        PROVE  Wished(m.view)
    BY <2>2, SaidInv DEF MessageInv
  <2> QED  BY <2>1, <2>2 DEF CertificatesBacked, BackedQC
<1> QED  BY <1>1, TypeAndInv, PTL
=============================================================================
