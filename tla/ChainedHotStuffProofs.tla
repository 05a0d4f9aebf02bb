------------------------ MODULE ChainedHotStuffProofs ------------------------
(***************************************************************************)
(* Chained HotStuff keeps its types, and every block it stores was voted   *)
(* for by a quorum, for every number of nodes, every set of batches, all   *)
(* expiries, every order of delivery and every view below 256.             *)
(***************************************************************************)
EXTENDS ChainedHotStuff, FiniteSetTheorems, WellFoundedInduction, TLAPS

----------------------------------------------------------------------------
(* Numbers and sequences *)

\* A non-empty set of numbers has a least one.
LEMMA LeastNumber ==
    ASSUME NEW T \in SUBSET Nat, T # {}
    PROVE  Min(T) \in T /\ \A y \in T : Min(T) <= y
<1>1. PICK x \in T : \A y \in T : ~ (<<y, x>> \in OpToRel(<, Nat))
  BY NatLessThanWellFounded, WFMin, Zenon
<1>2. \A y \in T : ~ (y < x)
  BY <1>1 DEF OpToRel
<1>3. \A y \in T : x <= y
  BY <1>2
<1> QED  BY <1>3 DEF Min

\* There are n numbers from 1 to n.
LEMMA CountTo == ASSUME NEW n \in Nat PROVE Cardinality(1 .. n) = n
<1>1. 1 \in Int /\ n \in Int
  OBVIOUS
<1>2. Cardinality(1 .. n) = IF 1 > n THEN 0 ELSE n - 1 + 1
  BY <1>1, FS_Interval
<1> QED  BY <1>2

\* A list of numbers has a highest one.
LEMMA HighestOf ==
    ASSUME NEW n \in Nat, n > 0, NEW f \in [1 .. n -> Int]
    PROVE  \E j \in 1 .. n : \A i \in 1 .. n : f[i] <= f[j]
<1> DEFINE Tops(k) == {j \in 1 .. k : \A i \in 1 .. k : f[i] <= f[j]}
           T == {k \in 1 .. n : Tops(k) = {}}
<1>1. T = {}
  <2> SUFFICES ASSUME T # {} PROVE FALSE
    OBVIOUS
  <2>1. T \in SUBSET Nat
    OBVIOUS
  <2>2. PICK k \in T : \A y \in T : k <= y
    <3> HIDE DEF T
    <3> QED  BY <2>1, LeastNumber
  <2>3. k \in 1 .. n /\ Tops(k) = {}
    BY <2>2
  <2>4. k # 1
    <3> SUFFICES ASSUME k = 1 PROVE FALSE
      OBVIOUS
    <3>1. 1 \in Tops(1)
      OBVIOUS
    <3> QED  BY <2>3, <3>1
  <2>5. k - 1 \in 1 .. n /\ k - 1 \notin T
    <3>1. k - 1 \in 1 .. n /\ ~ (k <= k - 1)
      BY <2>3, <2>4
    <3> HIDE DEF T
    <3> QED  BY <2>2, <3>1
  <2>6. PICK j \in 1 .. k - 1 : \A i \in 1 .. k - 1 : f[i] <= f[j]
    BY <2>5
  <2>7. CASE f[k] <= f[j]
    <3>1. j \in Tops(k)
      BY <2>3, <2>6, <2>7, SMTT(30)
    <3> QED  BY <2>3, <3>1
  <2>8. CASE f[k] > f[j]
    <3>1. \A i \in 1 .. k : f[i] <= f[k]
      BY <2>3, <2>6, <2>8
    <3>2. k \in Tops(k)
      BY <2>3, <3>1
    <3> QED  BY <2>3, <3>2
  <2>9. f[k] \in Int /\ f[j] \in Int
    BY <2>3, <2>6
  <2> QED  BY <2>7, <2>8, <2>9
<1>2. n \notin T
  BY <1>1
<1>3. Tops(n) # {}
  BY <1>2
<1> QED  BY <1>3

\* A product between -n and n is 0.
LEMMA SmallProduct ==
    ASSUME NEW n \in Nat, n > 0, NEW k \in Int, n * k < n, n * k > 0 - n
    PROVE  k = 0
<1>1. CASE k >= 1
  <2>1. n * k >= n * 1
    BY <1>1
  <2> QED  BY <2>1
<1>2. CASE k <= -1
  <2>1. n * k <= n * (-1)
    BY <1>2
  <2> QED  BY <2>1
<1> QED  BY <1>1, <1>2

\* A remainder is determined by any quotient.
LEMMA Remainder ==
    ASSUME NEW n \in Nat, n > 0, NEW v \in Int, NEW q \in Int, NEW t \in 0 .. n - 1, v = n * q + t
    PROVE  v % n = t
<1> DEFINE d == v \div n
           m == v % n
<1>1. d \in Int /\ m \in 0 .. n - 1 /\ v = n * d + m
  OBVIOUS
<1> HIDE DEF d, m
<1>2. n * (d - q) = t - m
  BY <1>1
<1>3. d - q \in Int /\ n * (d - q) < n /\ n * (d - q) > 0 - n
  BY <1>1, <1>2
<1>4. d - q = 0
  BY <1>3, SmallProduct
<1>5. t = m
  BY <1>1, <1>2, <1>4
<1> QED  BY <1>5 DEF m

\* Adding the divisor leaves the remainder.
LEMMA ModN ==
    ASSUME NEW v \in Nat, NEW n \in Nat, n > 0
    PROVE  (v + n) % n = v % n
<1> DEFINE d == v \div n
           m == v % n
<1>1. d \in Int /\ m \in 0 .. n - 1 /\ v = n * d + m
  OBVIOUS
<1> HIDE DEF d, m
<1>2. v + n = n * (d + 1) + m /\ v + n \in Int /\ d + 1 \in Int
  BY <1>1
<1>3. (v + n) % n = m
  BY <1>1, <1>2, Remainder
<1> QED  BY <1>3 DEF m

\* GetHighChainedQC returns the highest certificate of the messages, if there is one.
LEMMA HighChained ==
    ASSUME NEW msgs \in Seq(CMsg), msgs # <<>>
    PROVE  \E i \in DOMAIN msgs :
              /\ GetHighChainedQC(msgs) = msgs[i].justify
              /\ \A j \in DOMAIN msgs : msgs[j].justify.view <= msgs[i].justify.view
<1> DEFINE f == [i \in 1 .. Len(msgs) |-> msgs[i].justify.view]
           V == {msgs[i].justify.view : i \in DOMAIN msgs}
           I == {i \in DOMAIN msgs : msgs[i].justify.view = Max(V)}
<1>1. Len(msgs) \in Nat /\ Len(msgs) > 0 /\ DOMAIN msgs = 1 .. Len(msgs)
  OBVIOUS
<1>2. \A i \in 1 .. Len(msgs) : msgs[i].justify.view \in Int
  <2> SUFFICES ASSUME NEW i \in 1 .. Len(msgs) PROVE msgs[i].justify.view \in Int
    OBVIOUS
  <2>1. msgs[i] \in CMsg
    OBVIOUS
  <2>2. msgs[i].justify \in ChainedQC
    BY <2>1 DEF CMsg
  <2> QED  BY <2>2 DEF ChainedQC
<1>3. f \in [1 .. Len(msgs) -> Int]
  BY <1>2
<1>4. PICK j \in 1 .. Len(msgs) : \A i \in 1 .. Len(msgs) : f[i] <= f[j]
  BY <1>1, <1>3, HighestOf
<1>5. Max(V) \in V /\ \A y \in V : Max(V) >= y
  <2>1. f[j] \in V
    BY <1>1
  <2>2. ASSUME NEW y \in V PROVE f[j] >= y
    <3>1. PICK i \in 1 .. Len(msgs) : y = f[i]
      BY <1>1
    <3>2. f[i] \in Int /\ f[j] \in Int
      BY <1>3
    <3> HIDE DEF f
    <3> QED  BY <3>1, <3>2, <1>4
  <2> HIDE DEF V, f
  <2> QED  BY <2>1, <2>2 DEF Max
<1>6. I \in SUBSET Nat /\ I # {}
  <2>1. I \in SUBSET Nat
    BY <1>1
  <2>2. PICK i \in DOMAIN msgs : Max(V) = msgs[i].justify.view
    BY <1>5
  <2> QED  BY <2>1, <2>2
<1>7. Min(I) \in I
  <2> HIDE DEF I
  <2> QED  BY <1>6, LeastNumber
<1>8. GetHighChainedQC(msgs) = msgs[Min(I)].justify
  BY DEF GetHighChainedQC
<1>9. Min(I) \in DOMAIN msgs /\ msgs[Min(I)].justify.view = Max(V)
  BY <1>7
<1>10. \A k \in DOMAIN msgs : msgs[k].justify.view <= Max(V)
  <2> SUFFICES ASSUME NEW k \in DOMAIN msgs PROVE msgs[k].justify.view <= Max(V)
    OBVIOUS
  <2>1. msgs[k].justify.view \in V
    OBVIOUS
  <2>2. Max(V) >= msgs[k].justify.view
    BY <1>5, <2>1
  <2>3. \A x \in V : x \in Int
    BY <1>1, <1>2
  <2> QED  BY <1>5, <2>1, <2>2, <2>3
<1> HIDE DEF I, V
<1> QED  BY <1>8, <1>9, <1>10

\* The pipelines stay pipelines of four.
LEMMA ShiftType ==
    ASSUME NEW S, NEW first \in S, NEW four \in Four(S)
    PROVE  /\ Shift(first, four) \in Four(S)
           /\ Shift(first, four)[1] = first
           /\ \A k \in 1 .. 3 : Shift(first, four)[k + 1] = four[k]
<1>1. \A k \in 1 .. 4 : four[k] \in S
  BY DEF Four
<1>2. Shift(first, four) \in Four(S)
  <2>1. <<first, four[1], four[2], four[3]>> \in S \X S \X S \X S
    BY <1>1
  <2> QED  BY <2>1, <1>1 DEF Shift, Four
<1> QED  BY <1>2, <1>1 DEF Shift

----------------------------------------------------------------------------
(* Types *)

\* The leader of a view is a node.
LEMMA LeaderType == ASSUME NEW v \in Nat PROVE Leader(v) \in Server
  BY NAssumption DEF Leader, Server

\* A quorum is more than one node, so InitLeader has left a message.
LEMMA QuorumType == QuorumSize \in Nat /\ QuorumSize > 1
<1>1. (N - 1) \div 3 \in Nat /\ (N - 1) \div 3 > 0
  BY NAssumption
<1> QED  BY <1>1 DEF QuorumSize

\* What a node starts with (NewChainedHotstuff, InitLeader) is of the types.
LEMMA ConstantTypes ==
    /\ EmptyHash \in Hash /\ NilHash \in Hash /\ EmptyBlock \in Block
    /\ EmptyNode \in HsNode /\ NilNode \in HsNode
    /\ FirstQC \in ChainedQC /\ InitLeaderQC \in ChainedQC
    /\ FirstQC.nodes \in Four(HsNode) /\ InitLeaderQC.nodes \in Four(HsNode)
<1>1. EmptyHash \in Hash /\ NilHash \in Hash /\ EmptyBlock \in Block
  BY DEF EmptyHash, NilHash, Hash, EmptyBlock, Block
<1>2. EmptyNode \in HsNode /\ NilNode \in HsNode
  BY <1>1 DEF EmptyNode, NilNode, HsNode
<1>3. FirstQC.nodes \in Four(HsNode)
  BY <1>2 DEF FirstQC, Four
<1>4. InitLeaderQC.nodes \in Four(HsNode)
  <2>1. InitLeaderQC.nodes \in HsNode \X HsNode \X HsNode \X HsNode
    BY <1>2 DEF InitLeaderQC
  <2>2. InitLeaderQC.nodes = <<EmptyNode, NilNode, NilNode, NilNode>>
    BY DEF InitLeaderQC
  <2> QED  BY <2>2, <1>2 DEF Four
<1>5. FirstQC \in ChainedQC
  BY <1>3 DEF FirstQC, ChainedQC
<1>6. InitLeaderQC \in ChainedQC
  BY <1>4 DEF InitLeaderQC, ChainedQC
<1> QED  BY <1>1, <1>2, <1>3, <1>4, <1>5, <1>6

\* A message without a block is a message.
LEMMA MkMsgType ==
    ASSUME NEW t \in MsgType, NEW v \in Nat, NEW s \in Server, NEW d \in SUBSET Server,
           NEW n \in Four(HsNode), NEW qc \in ChainedQC
    PROVE  MkMsg(t, v, s, d, n, qc) \in CMsg
  BY ConstantTypes DEF MkMsg, CMsg

\* SendSerMsg appends to what the node has sent.
LEMMA SendType ==
    ASSUME TypeOK, NEW r \in Server, NEW ms \in Seq(CMsg), Send(r, ms)
    PROVE  sent' \in [Server -> Seq(CMsg)]
  BY DEF TypeOK, Send

\* A hash is made of a block, and signed content of a view and nodes.
LEMMA HashOfType == ASSUME NEW b \in Block PROVE HashOf(b) \in Hash
  BY DEF HashOf, Block, Hash

LEMMA SignedType ==
    ASSUME NEW v \in Nat, NEW n \in Four(HsNode)
    PROVE  SignedContent(v, n) \in [view : 0 .. 255, nodes : Four(HsNode)]
<1>1. v % 256 \in 0 .. 255
  OBVIOUS
<1> QED  BY <1>1 DEF SignedContent

\* The proposal of GenProposal and CHandleNewView.
Proposal(r, c, msgs) ==
    LET high == GetHighChainedQC(msgs)
        b    == NewBlock(r, c)
        n    == Shift([cur |-> HashOf(b), parent |-> high.nodes[1].cur], hsNodes[r])
    IN  [MkMsg("GENERIC", view[r], r, Server, n, high) EXCEPT !.block = b]

\* Propose sends one proposal made of well-typed parts.
LEMMA ProposalType ==
    ASSUME TypeOK, NEW r \in Server, NEW c \in Cmd, NEW msgs \in Seq(CMsg), msgs # <<>>,
           NEW p, p = Proposal(r, c, msgs)
    PROVE  /\ p \in CMsg /\ p.type = "GENERIC" /\ p.view = view[r] /\ p.src = r
           /\ p.block = NewBlock(r, c) /\ p.justify = GetHighChainedQC(msgs)
           /\ p.nodes[1] = [cur |-> HashOf(p.block), parent |-> p.justify.nodes[1].cur]
           /\ \A k \in 1 .. 3 : p.nodes[k + 1] = hsNodes[r][k]
<1> DEFINE high == GetHighChainedQC(msgs)
           b    == NewBlock(r, c)
           head == [cur |-> HashOf(b), parent |-> high.nodes[1].cur]
           n    == Shift(head, hsNodes[r])
<1>1. high \in ChainedQC /\ high.nodes[1] \in HsNode
  <2>1. PICK i \in DOMAIN msgs : high = msgs[i].justify
    BY HighChained
  <2>2. msgs[i] \in CMsg
    OBVIOUS
  <2>3. high \in ChainedQC
    BY <2>1, <2>2 DEF CMsg
  <2> QED  BY <2>3 DEF ChainedQC, Four
<1>2. b \in Block
  <2>1. view[r] \in Int /\ bs[r] \in BlkStore /\ Len(sent[r]) \in Int
    BY DEF TypeOK
  <2>2. bs[r].gen \in Nat /\ bs[r].pre \in Hash
    BY <2>1 DEF BlkStore
  <2> QED  BY <2>1, <2>2 DEF NewBlock, Block
<1>3. head \in HsNode
  BY <1>1, <1>2, HashOfType DEF HsNode
<1>4. hsNodes[r] \in Four(HsNode) /\ view[r] \in Int
  BY DEF TypeOK
<1>5. n \in Four(HsNode) /\ n[1] = head /\ \A k \in 1 .. 3 : n[k + 1] = hsNodes[r][k]
  <2> HIDE DEF head
  <2> QED  BY <1>3, <1>4, ShiftType
<1>6. p = [type |-> "GENERIC", view |-> view[r], src |-> r, dst |-> Server, nodes |-> n,
           justify |-> high, block |-> b]
  BY DEF Proposal, MkMsg
<1> HIDE DEF n, high, b
<1>7. p \in CMsg
  <2>1. view[r] \in Nat /\ "GENERIC" \in MsgType /\ Server \in SUBSET Server
    BY DEF TypeOK, MsgType
  <2> QED  BY <1>1, <1>2, <1>4, <1>5, <1>6, <2>1 DEF CMsg
<1> QED  BY <1>5, <1>6, <1>7 DEF high, b

\* What Propose changes, with the proposal it sends.
LEMMA ProposeDoes ==
    ASSUME TypeOK, NEW r \in Server, NEW c \in Cmd, NEW msgs \in Seq(CMsg), msgs # <<>>,
           Propose(r, c, msgs), NEW p, p = Proposal(r, c, msgs)
    PROVE  /\ phase' = [phase EXCEPT ![r] = "HALF_GENERIC"]
           /\ genericQC' = [genericQC EXCEPT ![r] = p.justify]
           /\ blocks' = [blocks EXCEPT ![r] = Shift(p.block, blocks[r])]
           /\ bs' = [bs EXCEPT ![r].gen = GeneratedHeight(p.block)]
           /\ newViewMsgs' = [newViewMsgs EXCEPT ![r] = <<>>]
           /\ voteMsgs' = [voteMsgs EXCEPT ![r] = <<>>]
           /\ lastLeader' = [lastLeader EXCEPT ![r] = FALSE]
           /\ viewTimer' = [viewTimer EXCEPT ![r] = FALSE]
           /\ curRound' = [curRound EXCEPT ![r] = SignedContent(p.view, p.nodes)]
           /\ Send(r, <<p>>)
<1>1. /\ p.view = view[r] /\ p.block = NewBlock(r, c) /\ p.justify = GetHighChainedQC(msgs)
      /\ p.nodes = Shift([cur |-> HashOf(NewBlock(r, c)),
                          parent |-> GetHighChainedQC(msgs).nodes[1].cur], hsNodes[r])
  BY DEF Proposal, MkMsg
<1> QED  BY <1>1 DEF Propose, Proposal

\* Propose keeps the types of what it changes.
LEMMA ProposeType ==
    ASSUME TypeOK, NEW r \in Server, NEW c \in Cmd, NEW msgs \in Seq(CMsg), msgs # <<>>,
           Propose(r, c, msgs)
    PROVE  /\ phase' \in [Server -> Phase] /\ genericQC' \in [Server -> ChainedQC]
           /\ blocks' \in [Server -> Four(Block)] /\ bs' \in [Server -> BlkStore]
           /\ newViewMsgs' \in [Server -> Seq(CMsg)] /\ voteMsgs' \in [Server -> Seq(CMsg)]
           /\ lastLeader' \in [Server -> BOOLEAN] /\ viewTimer' \in [Server -> BOOLEAN]
           /\ curRound' \in [Server -> [view : 0 .. 255, nodes : Four(HsNode)]]
           /\ sent' \in [Server -> Seq(CMsg)]
<1> DEFINE p == Proposal(r, c, msgs)
<1>0. p = Proposal(r, c, msgs)
  OBVIOUS
<1> HIDE DEF p
<1>1. /\ p \in CMsg /\ p.view = view[r]
      /\ phase' = [phase EXCEPT ![r] = "HALF_GENERIC"]
      /\ genericQC' = [genericQC EXCEPT ![r] = p.justify]
      /\ blocks' = [blocks EXCEPT ![r] = Shift(p.block, blocks[r])]
      /\ bs' = [bs EXCEPT ![r].gen = GeneratedHeight(p.block)]
      /\ newViewMsgs' = [newViewMsgs EXCEPT ![r] = <<>>]
      /\ voteMsgs' = [voteMsgs EXCEPT ![r] = <<>>]
      /\ lastLeader' = [lastLeader EXCEPT ![r] = FALSE]
      /\ viewTimer' = [viewTimer EXCEPT ![r] = FALSE]
      /\ curRound' = [curRound EXCEPT ![r] = SignedContent(p.view, p.nodes)]
      /\ Send(r, <<p>>)
  <2>1. p \in CMsg /\ p.view = view[r]
    <3>1. p \in CMsg
      BY <1>0, ProposalType
    <3>2. p.view = view[r]
      BY <1>0 DEF Proposal, MkMsg
    <3> QED  BY <3>1, <3>2
  <2>2. /\ phase' = [phase EXCEPT ![r] = "HALF_GENERIC"]
        /\ genericQC' = [genericQC EXCEPT ![r] = p.justify]
        /\ blocks' = [blocks EXCEPT ![r] = Shift(p.block, blocks[r])]
        /\ bs' = [bs EXCEPT ![r].gen = GeneratedHeight(p.block)]
        /\ newViewMsgs' = [newViewMsgs EXCEPT ![r] = <<>>]
        /\ voteMsgs' = [voteMsgs EXCEPT ![r] = <<>>]
        /\ lastLeader' = [lastLeader EXCEPT ![r] = FALSE]
        /\ viewTimer' = [viewTimer EXCEPT ![r] = FALSE]
        /\ curRound' = [curRound EXCEPT ![r] = SignedContent(p.view, p.nodes)]
        /\ Send(r, <<p>>)
    BY <1>0, ProposeDoes
  <2> QED  BY <2>1, <2>2
<1>2. p.justify \in ChainedQC /\ p.block \in Block /\ p.nodes \in Four(HsNode)
  BY <1>1 DEF CMsg
<1>3. blocks' \in [Server -> Four(Block)]
  <2>1. Shift(p.block, blocks[r]) \in Four(Block)
    BY <1>2, ShiftType DEF TypeOK
  <2> QED  BY <1>1, <2>1 DEF TypeOK
<1>4. bs' \in [Server -> BlkStore]
  <2>1. p.block.height \in Nat /\ bs[r] \in BlkStore
    BY <1>2 DEF TypeOK, Block
  <2>2. GeneratedHeight(p.block) \in Nat
    BY <2>1 DEF GeneratedHeight
  <2>3. [bs[r] EXCEPT !.gen = GeneratedHeight(p.block)] \in BlkStore
    BY <2>1, <2>2 DEF BlkStore
  <2>4. bs' = [bs EXCEPT ![r] = [bs[r] EXCEPT !.gen = GeneratedHeight(p.block)]]
    BY <1>1
  <2> QED  BY <2>3, <2>4 DEF TypeOK
<1>5. curRound' \in [Server -> [view : 0 .. 255, nodes : Four(HsNode)]]
  <2>1. view[r] \in Nat
    BY DEF TypeOK
  <2>2. SignedContent(p.view, p.nodes) \in [view : 0 .. 255, nodes : Four(HsNode)]
    BY <1>1, <1>2, <2>1, SignedType
  <2> QED  BY <1>1, <2>2 DEF TypeOK
<1>6. sent' \in [Server -> Seq(CMsg)]
  <2>1. <<p>> \in Seq(CMsg)
    BY <1>1
  <2> QED  BY <1>1, <2>1, SendType
<1>7. phase' \in [Server -> Phase] /\ genericQC' \in [Server -> ChainedQC]
  BY <1>1, <1>2 DEF TypeOK, Phase
<1>8. /\ newViewMsgs' \in [Server -> Seq(CMsg)] /\ voteMsgs' \in [Server -> Seq(CMsg)]
      /\ lastLeader' \in [Server -> BOOLEAN] /\ viewTimer' \in [Server -> BOOLEAN]
  BY <1>1 DEF TypeOK
<1> QED  BY <1>3, <1>4, <1>5, <1>6, <1>7, <1>8

\* The client and the request loop. A leader that waits in view 0 has the messages of
\* InitLeader (LeaderInv).
LEMMA RequestType ==
    ASSUME TypeOK, NEW r \in Server, LeaderInv(r),
           HandleReq(r) \/ \E c \in ClientCmds : GenNewReq(r, c)
    PROVE  TypeOK'
<1>1. CASE \E c \in ClientCmds : GenNewReq(r, c)
  <2>1. PICK c \in ClientCmds : GenNewReq(r, c)
    BY <1>1
  <2>2. c \in Cmd \cup {NoCmd}
    BY DEF Cmd
  <2>3. requests' \in [Server -> Cmd \cup {NoCmd}] /\ reqFlag' \in [Server -> BOOLEAN]
        /\ pool' \subseteq ClientCmds
    BY <2>1, <2>2 DEF GenNewReq, TypeOK
  <2> QED
    BY <2>1, <2>3 DEF TypeOK, GenNewReq, chainVars, msgVars, blkVars
<1>2. CASE HandleReq(r)
  <2> DEFINE waits == requests[r] # NoCmd /\ IsLeader(r) /\ phase[r] = "WAITING"
             proposes == waits /\ (Len(newViewMsgs[r]) >= QuorumSize \/ view[r] = 0)
  <2>1. requests' \in [Server -> Cmd \cup {NoCmd}] /\ reqFlag' \in [Server -> BOOLEAN]
        /\ curProposal' \in [Server -> Cmd \cup {NoCmd}]
    BY <1>2 DEF TypeOK, HandleReq
  <2>2. /\ phase' \in [Server -> Phase] /\ genericQC' \in [Server -> ChainedQC]
        /\ blocks' \in [Server -> Four(Block)] /\ bs' \in [Server -> BlkStore]
        /\ newViewMsgs' \in [Server -> Seq(CMsg)] /\ voteMsgs' \in [Server -> Seq(CMsg)]
        /\ lastLeader' \in [Server -> BOOLEAN] /\ viewTimer' \in [Server -> BOOLEAN]
        /\ curRound' \in [Server -> [view : 0 .. 255, nodes : Four(HsNode)]]
        /\ sent' \in [Server -> Seq(CMsg)]
    <3>1. CASE proposes
      <4>1. Propose(r, requests[r], newViewMsgs[r])
        BY <1>2, <3>1 DEF HandleReq
      <4>2. requests[r] \in Cmd /\ newViewMsgs[r] \in Seq(CMsg)
        BY <3>1 DEF TypeOK
      <4>3. newViewMsgs[r] # <<>>
        BY <3>1, <4>2, QuorumType DEF LeaderInv
      <4> QED  BY <4>1, <4>2, <4>3, ProposeType
    <3>2. CASE ~proposes
      BY <1>2, <3>2 DEF HandleReq, proposeVars, TypeOK
    <3> QED  BY <3>1, <3>2
  <2> QED  BY <1>2, <2>1, <2>2 DEF TypeOK, HandleReq
<1> QED  BY <1>1, <1>2

\* The view change
LEMMA ViewChangeType ==
    ASSUME TypeOK, NEW r \in Server, StartViewChange(r)
    PROVE  TypeOK'
<1> DEFINE m == MkMsg("NEW_VIEW", view[r] + 1, r, {Leader(view[r] + 1)},
                      [i \in 1 .. 4 |-> NilNode], genericQC[r])
<1>1. m \in CMsg
  <2>1. view[r] + 1 \in Nat /\ genericQC[r] \in ChainedQC
    BY DEF TypeOK
  <2>2. {Leader(view[r] + 1)} \in SUBSET Server
    BY <2>1, LeaderType
  <2>3. [i \in 1 .. 4 |-> NilNode] \in Four(HsNode) /\ "NEW_VIEW" \in MsgType
    BY ConstantTypes DEF Four, MsgType
  <2> QED  BY <2>1, <2>2, <2>3, MkMsgType
<1>2. sent' \in [Server -> Seq(CMsg)]
  <2>1. <<m>> \in Seq(CMsg)
    BY <1>1
  <2>2. Send(r, <<m>>)
    BY DEF StartViewChange
  <2> HIDE DEF m
  <2> QED  BY <2>1, <2>2, SendType
<1>3. /\ view' \in [Server -> 0 .. MaxView] /\ phase' \in [Server -> Phase]
      /\ timeouts' \in Nat /\ viewChange' \in [Server -> BOOLEAN]
  BY BoundAssumption DEF StartViewChange, TypeOK, Phase
<1> QED  BY <1>2, <1>3 DEF TypeOK, StartViewChange, chainVars, blkVars, reqVars

\* The new-view messages
LEMMA NewViewType ==
    ASSUME TypeOK, NEW r \in Server, NEW m \in CMsg,
           rcvd' \in [Server -> [Server -> SUBSET Nat]], CHandleNewView(r, m)
    PROVE  TypeOK'
<1> DEFINE msgs == IF m.view = view[r] THEN Append(newViewMsgs[r], m) ELSE newViewMsgs[r]
<1>1. msgs \in Seq(CMsg)
  BY DEF TypeOK
<1>2. /\ phase' \in [Server -> Phase] /\ genericQC' \in [Server -> ChainedQC]
      /\ blocks' \in [Server -> Four(Block)] /\ bs' \in [Server -> BlkStore]
      /\ newViewMsgs' \in [Server -> Seq(CMsg)] /\ voteMsgs' \in [Server -> Seq(CMsg)]
      /\ lastLeader' \in [Server -> BOOLEAN] /\ viewTimer' \in [Server -> BOOLEAN]
      /\ curRound' \in [Server -> [view : 0 .. 255, nodes : Four(HsNode)]]
      /\ sent' \in [Server -> Seq(CMsg)]
  <2>1. CASE curProposal[r] # NoCmd /\ Len(msgs) >= QuorumSize
             /\ Propose(r, curProposal[r], msgs)
    <3>1. curProposal[r] \in Cmd
      BY <2>1 DEF TypeOK
    <3> HIDE DEF msgs
    <3>2. msgs # <<>>
      BY <1>1, <2>1, QuorumType
    <3> QED  BY <1>1, <2>1, <3>1, <3>2, ProposeType
  <2>2. CASE ~(curProposal[r] # NoCmd /\ Len(msgs) >= QuorumSize
               /\ Propose(r, curProposal[r], msgs))
    <3>1. /\ UNCHANGED <<genericQC, blocks, bs, voteMsgs, viewTimer, curRound, sent>>
          /\ \/ phase' = phase
             \/ phase' = [phase EXCEPT ![r] = "WAITING"]
          /\ \/ newViewMsgs' = newViewMsgs
             \/ newViewMsgs' = [newViewMsgs EXCEPT ![r] = msgs]
          /\ \/ lastLeader' = lastLeader
             \/ lastLeader' = [lastLeader EXCEPT ![r] = FALSE]
             \/ lastLeader' = [lastLeader EXCEPT ![r] =
                    lastLeader[r] \/ (m.view = view[r] /\ m.src = LastLeader(view[r]))]
      BY <2>2 DEF CHandleNewView, proposeVars
    <3> HIDE DEF msgs
    <3>2. phase' \in [Server -> Phase]
      BY <3>1 DEF TypeOK, Phase
    <3>3. newViewMsgs' \in [Server -> Seq(CMsg)]
      BY <1>1, <3>1, ZenonT(60) DEF TypeOK
    <3>4. lastLeader' \in [Server -> BOOLEAN]
      BY <3>1, ZenonT(60) DEF TypeOK
    <3> QED  BY <3>1, <3>2, <3>3, <3>4 DEF TypeOK
  <2> QED  BY <2>1, <2>2
<1>3. viewChange' \in [Server -> BOOLEAN]
  BY DEF CHandleNewView, TypeOK
<1> QED  BY <1>2, <1>3 DEF CHandleNewView, TypeOK, reqVars

\* The vote of CHandleGeneric, and the new-view message of a node that leaves its view
LEMMA VoteType ==
    ASSUME TypeOK, NEW r \in Server, NEW m \in CMsg
    PROVE  MkMsg("GENERIC_VOTE", m.view, r, {Leader(view[r])}, m.nodes, FirstQC) \in CMsg
<1>1. m.view \in Nat /\ m.nodes \in Four(HsNode) /\ "GENERIC_VOTE" \in MsgType
  BY DEF CMsg, MsgType
<1>2. {Leader(view[r])} \in SUBSET Server
  BY LeaderType DEF TypeOK
<1> QED  BY <1>1, <1>2, ConstantTypes, MkMsgType

LEMMA NextViewType ==
    ASSUME TypeOK, NEW r \in Server, NEW n \in Four(HsNode), NEW qc \in ChainedQC
    PROVE  MkMsg("NEW_VIEW", view[r] + 1, r, {Leader(view[r] + 1)}, n, qc) \in CMsg
<1>1. view[r] + 1 \in Nat /\ "NEW_VIEW" \in MsgType
  BY DEF TypeOK, MsgType
<1>2. {Leader(view[r] + 1)} \in SUBSET Server
  BY <1>1, LeaderType
<1> QED  BY <1>1, <1>2, MkMsgType

\* StoreBlock adds files of blocks.
LEMMA WriteType ==
    ASSUME NEW files, \A h \in DOMAIN files : files[h] \in Block, NEW blks \in SUBSET Block
    PROVE  \A h \in DOMAIN WriteBlocks(files, blks) :
              \/ WriteBlocks(files, blks)[h] \in blks
              \/ h \in DOMAIN files /\ WriteBlocks(files, blks)[h] = files[h]
<1> SUFFICES ASSUME NEW h \in DOMAIN WriteBlocks(files, blks)
             PROVE  \/ WriteBlocks(files, blks)[h] \in blks
                    \/ h \in DOMAIN files /\ WriteBlocks(files, blks)[h] = files[h]
  OBVIOUS
<1>1. h \in DOMAIN files \cup {b.height : b \in blks}
  BY DEF WriteBlocks
<1>2. CASE \E b \in blks : b.height = h
  BY <1>1, <1>2 DEF WriteBlocks
<1>3. CASE ~ \E b \in blks : b.height = h
  BY <1>1, <1>3 DEF WriteBlocks
<1> QED  BY <1>2, <1>3

\* The generic phase of all nodes
LEMMA GenericType ==
    ASSUME TypeOK, NEW r \in Server, NEW m \in CMsg,
           rcvd' \in [Server -> [Server -> SUBSET Nat]], CHandleGeneric(r, m)
    PROVE  TypeOK'
<1> DEFINE takes == m.view = view[r] /\ CheckNewCHsNode(r, m)
           blks  == IF IsLeader(r) THEN blocks[r] ELSE Shift(m.block, blocks[r])
           done  == StoredBlocks(blks, m.nodes)
           vote  == MkMsg("GENERIC_VOTE", m.view, r, {Leader(view[r])}, m.nodes, FirstQC)
           nv    == MkMsg("NEW_VIEW", view[r] + 1, r, {Leader(view[r] + 1)}, m.nodes, m.justify)
<1>1. CASE ~takes
  BY <1>1, ZenonT(60) DEF CHandleGeneric, TypeOK, chainVars, blkVars, reqVars
<1>2. CASE takes
  <2>1. /\ m.nodes \in Four(HsNode) /\ m.justify \in ChainedQC /\ m.block \in Block
        /\ view[r] \in Nat
    BY DEF CMsg, TypeOK
  <2>2. blks \in Four(Block)
    BY <2>1, ShiftType DEF TypeOK
  <2>3. done \in SUBSET Block
    BY <2>2 DEF StoredBlocks, Four
  <2>4. vote \in CMsg /\ nv \in CMsg
    BY <2>1, VoteType, NextViewType
  <2>5. /\ viewChange' = [viewChange EXCEPT ![r] = FALSE]
        /\ blocks' = [blocks EXCEPT ![r] = blks]
        /\ hsNodes' = [hsNodes EXCEPT ![r] = m.nodes]
        /\ genericQC' = [genericQC EXCEPT ![r] = m.justify]
        /\ lockedQC' = [lockedQC EXCEPT ![r] =
                           IF Linked(m.nodes, 3) THEN m.justify ELSE lockedQC[r]]
        /\ store' = [store EXCEPT ![r] = WriteBlocks(store[r], done)]
        /\ bs' = [bs EXCEPT ![r] =
                     [gen |-> IF IsLeader(r) THEN bs[r].gen ELSE GeneratedHeight(m.block),
                      pre |-> IF done = {} THEN bs[r].pre ELSE HashOf(blks[4])]]
        /\ newViewMsgs' = [newViewMsgs EXCEPT ![r] = <<>>]
        /\ \/ /\ Send(r, <<vote>>)
              /\ UNCHANGED <<view, lastLeader, viewTimer>>
           \/ /\ view[r] < MaxView
              /\ view' = [view EXCEPT ![r] = view[r] + 1]
              /\ lastLeader' = [lastLeader EXCEPT ![r] =
                                   lastLeader[r] /\ r # Leader(view[r] + 1)]
              /\ viewTimer' = [viewTimer EXCEPT ![r] = TRUE]
              /\ Send(r, <<vote, nv>>)
        /\ UNCHANGED <<phase, curProposal, curRound, voteMsgs, timeouts, reqVars>>
    BY <1>2 DEF CHandleGeneric
  <2> HIDE DEF takes, blks, done, vote, nv
  <2>6. sent' \in [Server -> Seq(CMsg)]
    <3>1. <<vote>> \in Seq(CMsg) /\ <<vote, nv>> \in Seq(CMsg)
      BY <2>4
    <3> QED  BY <2>5, <3>1, SendType
  <2>7. /\ hsNodes' \in [Server -> Four(HsNode)] /\ genericQC' \in [Server -> ChainedQC]
        /\ lockedQC' \in [Server -> ChainedQC] /\ blocks' \in [Server -> Four(Block)]
    BY <2>1, <2>2, <2>5 DEF TypeOK
  <2>8. bs' \in [Server -> BlkStore]
    <3>1. bs[r] \in BlkStore /\ HashOf(blks[4]) \in Hash
      BY <2>2, HashOfType DEF TypeOK, Four
    <3>2. GeneratedHeight(m.block) \in Nat
      BY <2>1 DEF GeneratedHeight, Block
    <3>3. [gen |-> IF IsLeader(r) THEN bs[r].gen ELSE GeneratedHeight(m.block),
           pre |-> IF done = {} THEN bs[r].pre ELSE HashOf(blks[4])] \in BlkStore
      BY <3>1, <3>2 DEF BlkStore
    <3> QED  BY <2>5, <3>3 DEF TypeOK
  <2>9. /\ store' = [q \in Server |-> store'[q]]
        /\ \A q \in Server : \A h \in DOMAIN store'[q] : store'[q][h] \in Block
    <3> DEFINE files == WriteBlocks(store[r], done)
    <3>1. \A h \in DOMAIN files : files[h] \in Block
      <4>1. \A h \in DOMAIN store[r] : store[r][h] \in Block
        BY DEF TypeOK
      <4> SUFFICES ASSUME NEW h \in DOMAIN files PROVE files[h] \in Block
        OBVIOUS
      <4>2. files[h] \in done \/ (h \in DOMAIN store[r] /\ files[h] = store[r][h])
        BY <2>3, <4>1, WriteType
      <4> HIDE DEF files
      <4> QED  BY <2>3, <4>1, <4>2
    <3>2. store = [q \in Server |-> store[q]]
          /\ \A q \in Server : \A h \in DOMAIN store[q] : store[q][h] \in Block
      BY DEF TypeOK
    <3>3. store' = [store EXCEPT ![r] = files]
      BY <2>5
    <3> HIDE DEF files
    <3>4. DOMAIN store = Server
      BY <3>2
    <3>5. store' = [q \in Server |-> IF q = r THEN files ELSE store[q]]
      BY <3>3, <3>4
    <3> QED  BY <3>1, <3>2, <3>5
  <2>10. /\ view' \in [Server -> 0 .. MaxView] /\ viewTimer' \in [Server -> BOOLEAN]
         /\ viewChange' \in [Server -> BOOLEAN] /\ newViewMsgs' \in [Server -> Seq(CMsg)]
    <3>1. \/ UNCHANGED <<view, viewTimer>>
          \/ /\ view[r] < MaxView
             /\ view' = [view EXCEPT ![r] = view[r] + 1]
             /\ viewTimer' = [viewTimer EXCEPT ![r] = TRUE]
      BY <2>5
    <3>2. view' \in [Server -> 0 .. MaxView] /\ viewTimer' \in [Server -> BOOLEAN]
      <4>1. CASE UNCHANGED <<view, viewTimer>>
        BY <4>1 DEF TypeOK
      <4>2. CASE /\ view[r] < MaxView
                 /\ view' = [view EXCEPT ![r] = view[r] + 1]
                 /\ viewTimer' = [viewTimer EXCEPT ![r] = TRUE]
        <5>1. view' \in [Server -> 0 .. MaxView]
          BY <2>1, <4>2, BoundAssumption DEF TypeOK
        <5>2. viewTimer' \in [Server -> BOOLEAN]
          BY <4>2, Zenon DEF TypeOK
        <5> QED  BY <5>1, <5>2
      <4> QED  BY <3>1, <4>1, <4>2
    <3>3. viewChange' \in [Server -> BOOLEAN] /\ newViewMsgs' \in [Server -> Seq(CMsg)]
      BY <2>5 DEF TypeOK
    <3> QED  BY <3>2, <3>3
  <2>11. lastLeader' \in [Server -> BOOLEAN]
    BY <2>5, Zenon DEF TypeOK
  <2> QED  BY <2>5, <2>6, <2>7, <2>8, <2>9, <2>10, <2>11 DEF TypeOK, reqVars
<1> QED  BY <1>1, <1>2

\* The leader collects votes.
LEMMA GenericVoteType ==
    ASSUME TypeOK, NEW r \in Server, NEW m \in CMsg,
           rcvd' \in [Server -> [Server -> SUBSET Nat]], CHandleGenericVote(r, m)
    PROVE  TypeOK'
<1> DEFINE qc == [view |-> m.view, nodes |-> m.nodes]
           nv == MkMsg("NEW_VIEW", view[r] + 1, r, {Leader(view[r] + 1)}, hsNodes[r], qc)
<1>1. qc \in ChainedQC /\ view[r] \in Nat /\ hsNodes[r] \in Four(HsNode)
  BY DEF CMsg, ChainedQC, TypeOK
<1>2. nv \in CMsg
  BY <1>1, NextViewType
<1>3. voteMsgs' \in [Server -> Seq(CMsg)]
  BY DEF CHandleGenericVote, TypeOK
<1>4. /\ phase' \in [Server -> Phase] /\ view' \in [Server -> 0 .. MaxView]
      /\ genericQC' \in [Server -> ChainedQC] /\ curProposal' \in [Server -> Cmd \cup {NoCmd}]
      /\ viewTimer' \in [Server -> BOOLEAN] /\ sent' \in [Server -> Seq(CMsg)]
  <2>1. CASE UNCHANGED <<phase, view, genericQC, curProposal, viewTimer, sent>>
    BY <2>1 DEF TypeOK
  <2>2. CASE /\ view[r] < MaxView
             /\ phase' = [phase EXCEPT ![r] = "NEW_VIEW"]
             /\ view' = [view EXCEPT ![r] = view[r] + 1]
             /\ genericQC' = [genericQC EXCEPT ![r] = qc]
             /\ curProposal' = [curProposal EXCEPT ![r] = NoCmd]
             /\ viewTimer' = [viewTimer EXCEPT ![r] = TRUE]
             /\ Send(r, <<nv>>)
    <3> HIDE DEF qc, nv
    <3>1. <<nv>> \in Seq(CMsg)
      BY <1>2
    <3>2. sent' \in [Server -> Seq(CMsg)]
      BY <2>2, <3>1, SendType
    <3>3. phase' \in [Server -> Phase] /\ view' \in [Server -> 0 .. MaxView]
      BY <1>1, <2>2, BoundAssumption DEF TypeOK, Phase
    <3>4. genericQC' \in [Server -> ChainedQC] /\ viewTimer' \in [Server -> BOOLEAN]
          /\ curProposal' \in [Server -> Cmd \cup {NoCmd}]
      BY <1>1, <2>2 DEF TypeOK
    <3> QED  BY <3>2, <3>3, <3>4
  <2> QED  BY <2>1, <2>2 DEF CHandleGenericVote
<1> QED  BY <1>3, <1>4 DEF CHandleGenericVote, TypeOK, blkVars, reqVars

\* The first round starts well typed.
LEMMA TypeInit == Init => TypeOK
<1> SUFFICES ASSUME Init PROVE TypeOK
  OBVIOUS
<1>1. 0 \in Server /\ Genesis \in Cmd /\ 0 \in Int
  BY NAssumption DEF Server, Cmd
<1>2. InitLeaderMsgs \in Seq(CMsg)
  <2> DEFINE m == MkMsg("NEW_VIEW", 0, 0, {0}, InitLeaderQC.nodes, InitLeaderQC)
  <2>1. {0} \in SUBSET Server /\ "NEW_VIEW" \in MsgType
    BY <1>1 DEF MsgType
  <2>2. m \in CMsg
    BY <1>1, <2>1, ConstantTypes, MkMsgType
  <2>3. QuorumSize - 1 \in Nat
    BY QuorumType
  <2>4. InitLeaderMsgs = [i \in 1 .. QuorumSize - 1 |-> m]
    BY DEF InitLeaderMsgs
  <2> HIDE DEF m
  <2> QED  BY <2>2, <2>3, <2>4
<1>3. /\ store = [q \in Server |-> store[q]]
      /\ \A q \in Server : \A h \in DOMAIN store[q] : store[q][h] \in Block
  BY DEF Init
<1>4. /\ hsNodes \in [Server -> Four(HsNode)] /\ genericQC \in [Server -> ChainedQC]
      /\ lockedQC \in [Server -> ChainedQC]
  BY ConstantTypes DEF Init
<1>5. /\ blocks \in [Server -> Four(Block)] /\ bs \in [Server -> BlkStore]
  BY ConstantTypes DEF Init, Four, BlkStore
<1>6. curRound \in [Server -> [view : 0 .. 255, nodes : Four(HsNode)]]
  <2>1. SignedContent(0, FirstQC.nodes) \in [view : 0 .. 255, nodes : Four(HsNode)]
    BY ConstantTypes, SignedType
  <2> QED  BY <2>1 DEF Init
<1>7. /\ newViewMsgs \in [Server -> Seq(CMsg)] /\ voteMsgs \in [Server -> Seq(CMsg)]
      /\ sent \in [Server -> Seq(CMsg)]
  BY <1>2 DEF Init
<1>8. /\ phase \in [Server -> Phase] /\ view \in [Server -> 0 .. MaxView]
      /\ curProposal \in [Server -> Cmd \cup {NoCmd}]
      /\ requests \in [Server -> Cmd \cup {NoCmd}] /\ reqFlag \in [Server -> BOOLEAN]
      /\ pool \subseteq ClientCmds /\ rcvd \in [Server -> [Server -> SUBSET Nat]]
  <2>1. view \in [Server -> 0 .. MaxView]
    BY BoundAssumption DEF Init
  <2> QED  BY <1>1, <2>1 DEF Init, Phase
<1>9. /\ lastLeader \in [Server -> BOOLEAN] /\ viewChange \in [Server -> BOOLEAN]
      /\ viewTimer \in [Server -> BOOLEAN] /\ timeouts \in Nat
  BY DEF Init
<1> QED  BY <1>3, <1>4, <1>5, <1>6, <1>7, <1>8, <1>9 DEF TypeOK

\* Receive takes a message that its sender has sent and that was not taken before.
LEMMA Receives ==
    ASSUME TypeOK, NEW r \in Server, NEW s \in Server, Receive(r, s)
    PROVE  \E i \in DOMAIN sent[s] :
              /\ i \notin rcvd[r][s] /\ r \in sent[s][i].dst
              /\ sent[s][i] \in CMsg /\ RouteCMsg(r, sent[s][i])
              /\ rcvd' = [rcvd EXCEPT ![r] = [rcvd[r] EXCEPT ![s] = @ \cup {i}]]
              /\ rcvd' \in [Server -> [Server -> SUBSET Nat]]
<1>1. PICK i \in Pending(r, s) : Take(r, s, i)
  BY DEF Receive
<1>2. sent[s] \in Seq(CMsg) /\ rcvd \in [Server -> [Server -> SUBSET Nat]]
  BY DEF TypeOK
<1>3. i \in DOMAIN sent[s] /\ i \notin rcvd[r][s] /\ r \in sent[s][i].dst /\ i \in Nat
  BY <1>2 DEF Pending, Unread
<1>4. /\ rcvd' = [rcvd EXCEPT ![r] = [rcvd[r] EXCEPT ![s] = @ \cup {i}]]
      /\ RouteCMsg(r, sent[s][i])
  BY <1>1, <1>2 DEF Take
<1>5. sent[s][i] \in CMsg
  BY <1>2, <1>3
<1>6. rcvd' \in [Server -> [Server -> SUBSET Nat]]
  <2>1. rcvd[r] \in [Server -> SUBSET Nat] /\ rcvd[r][s] \cup {i} \in SUBSET Nat
    BY <1>2, <1>3
  <2>2. [rcvd[r] EXCEPT ![s] = @ \cup {i}] \in [Server -> SUBSET Nat]
    BY <2>1
  <2> QED  BY <1>2, <1>4, <2>2
<1> QED  BY <1>3, <1>4, <1>5, <1>6

\* Every step keeps the types.
LEMMA TypeStep == TypeOK /\ (\A r \in Server : LeaderInv(r)) /\ [Next]_vars => TypeOK'
<1> SUFFICES ASSUME TypeOK, \A r \in Server : LeaderInv(r), [Next]_vars PROVE TypeOK'
  OBVIOUS
<1>1. CASE \E r \in Server, c \in ClientCmds : GenNewReq(r, c)
  BY <1>1, RequestType
<1>2. CASE \E r \in Server : HandleReq(r)
  BY <1>2, RequestType
<1>3. CASE \E r, s \in Server : Receive(r, s)
  <2>1. PICK r \in Server, s \in Server : Receive(r, s)
    BY <1>3
  <2>2. PICK i \in DOMAIN sent[s] : /\ sent[s][i] \in CMsg /\ RouteCMsg(r, sent[s][i])
                                    /\ rcvd' \in [Server -> [Server -> SUBSET Nat]]
    BY <2>1, Receives
  <2> QED  BY <2>2, NewViewType, GenericType, GenericVoteType DEF RouteCMsg
<1>4. CASE \E r \in Server : StartViewChange(r)
  BY <1>4, ViewChangeType
<1>5. CASE UNCHANGED vars
  BY <1>5 DEF vars, TypeOK, chainVars, msgVars, blkVars, reqVars
<1> QED  BY <1>1, <1>2, <1>3, <1>4, <1>5 DEF Next

----------------------------------------------------------------------------
(* What is said stays said *)

\* Nothing that was sent is taken back.
Grows ==
    \A s \in Server :
        /\ Len(sent[s]) <= Len(sent'[s])
        /\ \A i \in DOMAIN sent[s] : i \in DOMAIN sent'[s] /\ sent'[s][i] = sent[s][i]

\* The messages of a type that were sent are those that the nodes sent.
LEMMA SaidSent ==
    \A t, m : /\ m \in Said(t) <=> m.type = t /\ \E s \in Server : m \in Sent(s)
              /\ m \in Said(t)' <=> m.type = t /\ \E s \in Server : m \in Sent(s)'
  BY DEF Said, Sent

\* Voters are nodes, of which there are finitely many.
LEMMA VotersFinite ==
    ASSUME TypeOK, NEW v, NEW n
    PROVE  Voters(v, n) \in SUBSET Server /\ IsFiniteSet(Voters(v, n))
<1>1. Voters(v, n) \in SUBSET Server
  <2> SUFFICES ASSUME NEW s \in Server, NEW i \in DOMAIN sent[s]
               PROVE  sent[s][i].src \in Server
    BY DEF Voters, Said, Sent
  <2>1. sent[s][i] \in CMsg
    BY DEF TypeOK
  <2> QED  BY <2>1 DEF CMsg
<1>2. IsFiniteSet(Server)
  BY FS_Interval, NAssumption DEF Server
<1> QED  BY <1>1, <1>2, FS_Subset

LEMMA VotersFiniteNext ==
    ASSUME TypeOK', NEW v, NEW n
    PROVE  IsFiniteSet(Voters(v, n)')
<1>1. Voters(v, n)' \in SUBSET Server
  <2> SUFFICES ASSUME NEW s \in Server, NEW i \in DOMAIN sent'[s]
               PROVE  sent'[s][i].src \in Server
    BY DEF Voters, Said, Sent
  <2>1. sent'[s][i] \in CMsg
    BY DEF TypeOK
  <2> QED  BY <2>1 DEF CMsg
<1>2. IsFiniteSet(Server)
  BY FS_Interval, NAssumption DEF Server
<1> QED  BY <1>1, <1>2, FS_Subset

\* A certificate stays backed.
LEMMA Growth ==
    ASSUME TypeOK, TypeOK', Grows
    PROVE  /\ \A s \in Server : Sent(s) \subseteq Sent(s)'
           /\ \A t : Said(t) \subseteq Said(t)'
           /\ \A v, n : Certified(v, n) => Certified(v, n)'
           /\ \A qc : Backed(qc) => Backed(qc)'
<1>1. ASSUME NEW s \in Server PROVE Sent(s) \subseteq Sent(s)'
  BY DEF Sent, Grows
<1>2. ASSUME NEW t PROVE Said(t) \subseteq Said(t)'
  <2> SUFFICES ASSUME NEW m \in Said(t) PROVE m \in Said(t)'
    OBVIOUS
  <2>1. PICK s \in Server : m \in Sent(s)
    BY SaidSent
  <2>2. m \in Sent(s)' /\ m.type = t
    BY <1>1, <2>1 DEF Said
  <2> QED  BY <2>2, SaidSent
<1>3. ASSUME NEW v, NEW n, Certified(v, n) PROVE Certified(v, n)'
  <2>1. Voters(v, n) \subseteq Voters(v, n)'
    BY <1>2 DEF Voters
  <2>2. IsFiniteSet(Voters(v, n)')
    BY VotersFiniteNext
  <2>3. /\ Cardinality(Voters(v, n)) <= Cardinality(Voters(v, n)')
        /\ Cardinality(Voters(v, n)) \in Nat /\ Cardinality(Voters(v, n)') \in Nat
    BY <2>1, <2>2, FS_Subset, FS_CardinalityType
  <2> QED  BY <1>3, <2>3, QuorumType DEF Certified
<1>4. ASSUME NEW qc, Backed(qc) PROVE Backed(qc)'
  BY <1>3, <1>4 DEF Backed
<1> QED  BY <1>1, <1>2, <1>3, <1>4

\* Send appends.
LEMMA SendAdds ==
    ASSUME TypeOK, NEW r \in Server, NEW ms \in Seq(CMsg), Send(r, ms)
    PROVE  /\ Grows
           /\ \A q \in Server : q # r => sent'[q] = sent[q]
           /\ DOMAIN sent'[r] = 1 .. Len(sent[r]) + Len(ms)
           /\ Len(sent[r]) \in Nat /\ Len(ms) \in Nat /\ DOMAIN sent[r] = 1 .. Len(sent[r])
           /\ \A i \in DOMAIN sent'[r] \ DOMAIN sent[r] :
                 /\ i - Len(sent[r]) \in 1 .. Len(ms)
                 /\ sent'[r][i] = ms[i - Len(sent[r])]
<1>1. sent \in [Server -> Seq(CMsg)] /\ sent[r] \in Seq(CMsg)
  BY DEF TypeOK
<1>2. sent'[r] = sent[r] \o ms /\ \A q \in Server : q # r => sent'[q] = sent[q]
  BY <1>1 DEF Send
<1>3. /\ Len(sent[r] \o ms) = Len(sent[r]) + Len(ms) /\ sent[r] \o ms \in Seq(CMsg)
      /\ \A i \in 1 .. Len(sent[r]) + Len(ms) :
            (sent[r] \o ms)[i] = IF i <= Len(sent[r]) THEN sent[r][i] ELSE ms[i - Len(sent[r])]
  BY <1>1
<1>4. Len(sent[r]) \in Nat /\ Len(ms) \in Nat /\ DOMAIN sent[r] = 1 .. Len(sent[r])
      /\ DOMAIN sent'[r] = 1 .. Len(sent[r]) + Len(ms)
  BY <1>1, <1>2, <1>3
<1>5. Grows
  <2> SUFFICES ASSUME NEW q \in Server
               PROVE  /\ Len(sent[q]) <= Len(sent'[q])
                      /\ \A i \in DOMAIN sent[q] :
                            i \in DOMAIN sent'[q] /\ sent'[q][i] = sent[q][i]
    BY DEF Grows
  <2>1. CASE q = r
    <3>1. Len(sent'[r]) = Len(sent[r]) + Len(ms)
      BY <1>2, <1>3
    <3>2. \A i \in DOMAIN sent[r] : i \in DOMAIN sent'[r] /\ sent'[r][i] = sent[r][i]
      BY <1>2, <1>3, <1>4
    <3> QED  BY <1>4, <2>1, <3>1, <3>2
  <2>2. CASE q # r
    <3>1. sent'[q] = sent[q] /\ Len(sent[q]) \in Nat
      BY <1>1, <1>2, <2>2
    <3> QED  BY <3>1
  <2> QED  BY <2>1, <2>2
<1> QED  BY <1>2, <1>3, <1>4, <1>5

----------------------------------------------------------------------------
(* What keeps the parts of the invariant at a node *)

NewIndex(r) == DOMAIN sent'[r] \ DOMAIN sent[r]

StoredAt(r) ==
    \A h \in DOMAIN store[r] :
        \E m \in Said("GENERIC") : m.block = store[r][h] /\ Certified(m.view, m.nodes[1])

\* Messages sent before and messages sent now
LEMMA OldOrNew ==
    ASSUME Grows, NEW r \in Server, NEW m \in Sent(r)'
    PROVE  m \in Sent(r) \/ \E i \in NewIndex(r) : m = sent'[r][i]
  BY DEF Sent, Grows, NewIndex

\* A node that proposes nothing, and leaves HALF_GENERIC only for the next view
LEMMA ProposalsKept ==
    ASSUME TypeOK, TypeOK', Inv, NEW r \in Server, Grows,
           \A i \in NewIndex(r) : sent'[r][i].type # "GENERIC",
           view'[r] >= view[r],
           view'[r] = view[r] /\ phase[r] = "HALF_GENERIC" => phase'[r] = "HALF_GENERIC"
    PROVE  ProposalInv(r)'
<1>1. view[r] \in Nat /\ view'[r] \in Nat
  BY DEF TypeOK
<1>2. ProposalInv(r)
  BY DEF Inv
<1>3. ASSUME NEW m \in Sent(r)', m.type = "GENERIC"
      PROVE  /\ r = Leader(m.view) /\ m.view <= view'[r]
             /\ m.view = view'[r] => phase'[r] = "HALF_GENERIC"
             /\ m.block.view = m.view
             /\ m.nodes[1] = [cur |-> HashOf(m.block), parent |-> m.justify.nodes[1].cur]
  <2>1. m \in Sent(r)
    BY <1>3, OldOrNew
  <2>2. m.view \in Int
    <3>1. PICK i \in DOMAIN sent[r] : m = sent[r][i]
      BY <2>1 DEF Sent
    <3>2. sent[r][i] \in CMsg
      BY DEF TypeOK
    <3> QED  BY <3>1, <3>2 DEF CMsg
  <2>3. /\ r = Leader(m.view) /\ m.view <= view[r]
        /\ m.view = view[r] => phase[r] = "HALF_GENERIC"
        /\ m.block.view = m.view
        /\ m.nodes[1] = [cur |-> HashOf(m.block), parent |-> m.justify.nodes[1].cur]
    BY <1>2, <1>3, <2>1 DEF ProposalInv
  <2> QED  BY <1>1, <2>2, <2>3
<1>4. ASSUME NEW i \in DOMAIN sent'[r], NEW j \in DOMAIN sent'[r],
             sent'[r][i].type = "GENERIC", sent'[r][j].type = "GENERIC",
             sent'[r][i].view = sent'[r][j].view
      PROVE  i = j
  <2>1. i \in DOMAIN sent[r] /\ j \in DOMAIN sent[r]
    BY <1>4 DEF NewIndex
  <2>2. sent'[r][i] = sent[r][i] /\ sent'[r][j] = sent[r][j]
    BY <2>1 DEF Grows
  <2> QED  BY <1>2, <1>4, <2>1, <2>2 DEF ProposalInv
<1> QED  BY <1>3, <1>4 DEF ProposalInv

\* A node that votes, if it does, for a proposal of a view it has not voted in
LEMMA VotesAdded ==
    ASSUME TypeOK, TypeOK', Inv, NEW r \in Server, Grows,
           view'[r] >= view[r], rcvd[r][r] \subseteq rcvd'[r][r],
           \A k \in NewIndex(r) : sent'[r][k].type = "GENERIC_VOTE" =>
              /\ \E p \in Said("GENERIC")' :
                    p.view = sent'[r][k].view /\ p.nodes = sent'[r][k].nodes
              /\ \/ sent'[r][k].view < view'[r]
                 \/ /\ sent'[r][k].view = view'[r] /\ r = Leader(view'[r])
                    /\ \E i \in DOMAIN sent'[r] : /\ i \in rcvd'[r][r]
                                                  /\ sent'[r][i].type = "GENERIC"
                                                  /\ sent'[r][i].view = sent'[r][k].view
              /\ \A j \in DOMAIN sent'[r] :
                    /\ sent'[r][j].type = "GENERIC_VOTE"
                    /\ sent'[r][j].view = sent'[r][k].view
                    => j = k
    PROVE  VoteInv(r)'
<1>1. view[r] \in Nat /\ view'[r] \in Nat /\ rcvd[r][r] \in SUBSET Nat /\ rcvd'[r][r] \in SUBSET Nat
      /\ DOMAIN sent[r] \subseteq Nat
  BY DEF TypeOK
<1>2. VoteInv(r)
  BY DEF Inv
<1>3. ASSUME NEW m \in Sent(r), m.type = "GENERIC_VOTE"
      PROVE  /\ \E p \in Said("GENERIC")' : p.view = m.view /\ p.nodes = m.nodes
             /\ \/ m.view < view'[r]
                \/ /\ m.view = view'[r] /\ r = Leader(view'[r])
                   /\ \E i \in DOMAIN sent'[r] : /\ i \in rcvd'[r][r]
                                                 /\ sent'[r][i].type = "GENERIC"
                                                 /\ sent'[r][i].view = m.view
  <2>2. m.view \in Int
    <3>1. PICK i \in DOMAIN sent[r] : m = sent[r][i]
      BY DEF Sent
    <3>2. sent[r][i] \in CMsg
      BY DEF TypeOK
    <3> QED  BY <3>1, <3>2 DEF CMsg
  <2>3. /\ \E p \in Said("GENERIC") : p.view = m.view /\ p.nodes = m.nodes
        /\ \/ m.view < view[r]
           \/ /\ m.view = view[r] /\ r = Leader(view[r])
              /\ \E i \in DOMAIN sent[r] : /\ i \in rcvd[r][r]
                                           /\ sent[r][i].type = "GENERIC"
                                           /\ sent[r][i].view = m.view
    BY <1>2, <1>3 DEF VoteInv
  <2>4. \E p \in Said("GENERIC")' : p.view = m.view /\ p.nodes = m.nodes
    BY <2>3, Growth
  <2>5. CASE m.view < view'[r]
    BY <2>4, <2>5
  <2>6. CASE ~(m.view < view'[r])
    <3>1. view'[r] = view[r] /\ m.view = view[r] /\ r = Leader(view[r])
      BY <1>1, <2>2, <2>3, <2>6
    <3>2. PICK i \in DOMAIN sent[r] : /\ i \in rcvd[r][r]
                                      /\ sent[r][i].type = "GENERIC"
                                      /\ sent[r][i].view = m.view
      BY <1>1, <2>2, <2>3, <2>6
    <3>3. /\ i \in DOMAIN sent'[r] /\ sent'[r][i] = sent[r][i] /\ i \in rcvd'[r][r]
      BY <1>1, <3>2 DEF Grows
    <3> QED  BY <2>4, <3>1, <3>2, <3>3
  <2> QED  BY <2>5, <2>6
<1>4. ASSUME NEW m \in Sent(r)', m.type = "GENERIC_VOTE"
      PROVE  /\ \E p \in Said("GENERIC")' : p.view = m.view /\ p.nodes = m.nodes
             /\ \/ m.view < view'[r]
                \/ /\ m.view = view'[r] /\ r = Leader(view'[r])
                   /\ \E i \in DOMAIN sent'[r] : /\ i \in rcvd'[r][r]
                                                 /\ sent'[r][i].type = "GENERIC"
                                                 /\ sent'[r][i].view = m.view
  <2>1. CASE m \in Sent(r)
    BY <1>3, <1>4, <2>1
  <2>2. CASE m \notin Sent(r)
    <3>1. PICK k \in NewIndex(r) : m = sent'[r][k]
      BY <2>2, OldOrNew
    <3> QED  BY <1>4, <3>1
  <2> QED  BY <2>1, <2>2
<1>5. ASSUME NEW i \in DOMAIN sent'[r], NEW j \in DOMAIN sent'[r],
             sent'[r][i].type = "GENERIC_VOTE", sent'[r][j].type = "GENERIC_VOTE",
             sent'[r][i].view = sent'[r][j].view
      PROVE  i = j
  <2>1. CASE i \in NewIndex(r) \/ j \in NewIndex(r)
    BY <1>5, <2>1
  <2>2. CASE i \in DOMAIN sent[r] /\ j \in DOMAIN sent[r]
    <3>1. sent'[r][i] = sent[r][i] /\ sent'[r][j] = sent[r][j]
      BY <2>2 DEF Grows
    <3> QED  BY <1>2, <1>5, <2>2, <3>1 DEF VoteInv
  <2> QED  BY <2>1, <2>2 DEF NewIndex
<1> QED  BY <1>4, <1>5 DEF VoteInv

\* A node that does not vote
LEMMA VotesKept ==
    ASSUME TypeOK, TypeOK', Inv, NEW r \in Server, Grows,
           \A i \in NewIndex(r) : sent'[r][i].type # "GENERIC_VOTE",
           view'[r] >= view[r], rcvd[r][r] \subseteq rcvd'[r][r]
    PROVE  VoteInv(r)'
  BY VotesAdded

\* A node that adds backed certificates only
LEMMA CertsKept ==
    ASSUME TypeOK, TypeOK', Inv, NEW r \in Server, Grows,
           \A i \in NewIndex(r) : sent'[r][i].src = r /\ Backed(sent'[r][i].justify),
           Backed(genericQC'[r]),
           \A i \in DOMAIN newViewMsgs'[r] : Backed(newViewMsgs'[r][i].justify)
    PROVE  CertInv(r)'
<1>1. \A qc : Backed(qc) => Backed(qc)'
  BY Growth
<1>2. ASSUME NEW m \in Sent(r)' PROVE m.src = r /\ Backed(m.justify)
  BY <1>2, OldOrNew DEF Inv, CertInv
<1> QED  BY <1>1, <1>2 DEF CertInv

\* A node or a block of what was proposed so far, this step included
NodeSaid(n) == n = EmptyNode \/ \E p \in Said("GENERIC")' : p.nodes[1] = n

BlockSaid(b) == b = EmptyBlock \/ \E p \in Said("GENERIC")' : p.block = b

LEMMA PipelineSaid ==
    ASSUME TypeOK, TypeOK', Inv, Grows, NEW r \in Server, NEW k \in 1 .. 4
    PROVE  /\ NodeSaid(hsNodes[r][k]) /\ BlockSaid(blocks[r][k])
           /\ \A m \in Sent(r) : m.type = "GENERIC" => NodeSaid(m.nodes[k])
  BY Growth DEF Inv, PipelineInv, NodeSaid, BlockSaid

\* A node that moves nothing unknown into its pipelines
LEMMA PipelinesKept ==
    ASSUME TypeOK, TypeOK', Inv, NEW r \in Server, Grows,
           \A k \in 1 .. 4 : NodeSaid(hsNodes'[r][k]) /\ BlockSaid(blocks'[r][k]),
           \A i \in NewIndex(r) : sent'[r][i].type = "GENERIC" =>
              \A k \in 1 .. 4 : NodeSaid(sent'[r][i].nodes[k])
    PROVE  PipelineInv(r)'
<1>1. ASSUME NEW m \in Sent(r)', m.type = "GENERIC", NEW k \in 1 .. 4
      PROVE  NodeSaid(m.nodes[k])
  <2>1. CASE m \in Sent(r)
    BY <1>1, <2>1, PipelineSaid
  <2>2. CASE \E i \in NewIndex(r) : m = sent'[r][i]
    BY <1>1, <2>2
  <2> QED  BY <2>1, <2>2, OldOrNew
<1> QED  BY <1>1 DEF PipelineInv, NodeSaid, BlockSaid

\* A node that stores certified blocks only
LEMMA StoreKept ==
    ASSUME TypeOK, TypeOK', Inv, NEW r \in Server, Grows,
           \A h \in DOMAIN store'[r] :
              \/ h \in DOMAIN store[r] /\ store'[r][h] = store[r][h]
              \/ \E m \in Said("GENERIC") :
                    m.block = store'[r][h] /\ Certified(m.view, m.nodes[1])
    PROVE  StoredAt(r)'
<1> SUFFICES ASSUME NEW h \in DOMAIN store'[r]
             PROVE  \E m \in Said("GENERIC")' :
                       m.block = store'[r][h] /\ Certified(m.view, m.nodes[1])'
  BY DEF StoredAt
<1>1. \E m \in Said("GENERIC") :
         m.block = store'[r][h] /\ Certified(m.view, m.nodes[1])
  BY DEF Inv, StoredCertified
<1> QED  BY <1>1, Growth

\* A node that takes messages in order
RcvdGrows(r) ==
    \A s \in Server : rcvd[r][s] \subseteq rcvd'[r][s] /\ rcvd'[r][s] \subseteq DOMAIN sent'[s]

\* A node that collects no votes
LEMMA LeaderIdle ==
    ASSUME NEW r \in Server, RcvdGrows(r), phase'[r] # "HALF_GENERIC",
           phase'[r] = "WAITING" /\ view'[r] = 0 => newViewMsgs'[r] # <<>>
    PROVE  LeaderInv(r)'
  BY DEF LeaderInv, RcvdGrows

\* A node whose votes and view stay
LEMMA LeaderKept ==
    ASSUME TypeOK, TypeOK', Inv, NEW r \in Server, Grows, RcvdGrows(r),
           phase'[r] = phase[r], view'[r] = view[r], curRound'[r] = curRound[r],
           voteMsgs'[r] = voteMsgs[r],
           phase[r] = "WAITING" /\ view[r] = 0 => newViewMsgs'[r] # <<>>
    PROVE  LeaderInv(r)'
<1>1. LeaderInv(r)
  BY DEF Inv
<1>2. CASE phase[r] # "HALF_GENERIC"
  BY <1>2, LeaderIdle
<1>3. CASE phase[r] = "HALF_GENERIC"
  <2>1. \E p \in Sent(r)' : /\ p.type = "GENERIC" /\ p.view = view'[r]
                            /\ curRound'[r] = SignedContent(p.view, p.nodes)
    BY <1>1, <1>3, Growth DEF LeaderInv
  <2>2. ASSUME NEW j \in DOMAIN voteMsgs[r]
        PROVE  LET m == voteMsgs[r][j]
               IN  /\ m.type = "GENERIC_VOTE" /\ m.view = view'[r]
                   /\ \E i \in DOMAIN sent'[m.src] :
                         i \in rcvd'[r][m.src] /\ sent'[m.src][i] = m
    <3> DEFINE m == voteMsgs[r][j]
    <3>1. m \in CMsg
      BY DEF TypeOK
    <3>2. m.src \in Server
      BY <3>1 DEF CMsg
    <3>3. PICK i \in DOMAIN sent[m.src] : i \in rcvd[r][m.src] /\ sent[m.src][i] = m
      BY <1>1, <1>3 DEF LeaderInv
    <3>4. i \in DOMAIN sent'[m.src] /\ sent'[m.src][i] = m
      BY <3>2, <3>3 DEF Grows
    <3>5. i \in Nat /\ rcvd[r][m.src] \in SUBSET Nat /\ rcvd'[r][m.src] \in SUBSET Nat
      <4>1. sent[m.src] \in Seq(CMsg)
        BY <3>2 DEF TypeOK
      <4>2. i \in Nat
        BY <3>3, <4>1
      <4> HIDE DEF m
      <4>3. rcvd[r][m.src] \in SUBSET Nat /\ rcvd'[r][m.src] \in SUBSET Nat
        <5>1. /\ rcvd \in [Server -> [Server -> SUBSET Nat]]
              /\ rcvd' \in [Server -> [Server -> SUBSET Nat]]
          BY DEF TypeOK
        <5> QED  BY <3>2, <5>1
      <4> QED  BY <4>2, <4>3
    <3>6. i \in rcvd'[r][m.src]
      BY <3>2, <3>3, <3>5 DEF RcvdGrows
    <3>7. m.type = "GENERIC_VOTE" /\ m.view = view'[r]
      BY <1>1, <1>3 DEF LeaderInv
    <3> QED  BY <3>4, <3>6, <3>7
  <2>3. /\ r = Leader(view'[r]) /\ Len(voteMsgs'[r]) < QuorumSize
        /\ \A j, k \in DOMAIN voteMsgs'[r] :
              voteMsgs'[r][j].src = voteMsgs'[r][k].src => j = k
    BY <1>1, <1>3 DEF LeaderInv
  <2>4. \A s \in Server : rcvd'[r][s] \subseteq DOMAIN sent'[s]
    BY DEF RcvdGrows
  <2> QED  BY <1>3, <2>1, <2>2, <2>3, <2>4 DEF LeaderInv
<1> QED  BY <1>2, <1>3

NodeInv(r) ==
    /\ ProposalInv(r) /\ VoteInv(r) /\ CertInv(r) /\ PipelineInv(r) /\ LeaderInv(r)
    /\ StoredAt(r)

\* A node that is not touched keeps its part, whatever the others say.
LEMMA NodeKept ==
    ASSUME TypeOK, TypeOK', Inv, Grows, NEW q \in Server, RcvdGrows(q),
           sent'[q] = sent[q], view'[q] = view[q], phase'[q] = phase[q],
           hsNodes'[q] = hsNodes[q], blocks'[q] = blocks[q],
           genericQC'[q] = genericQC[q], curRound'[q] = curRound[q],
           newViewMsgs'[q] = newViewMsgs[q], voteMsgs'[q] = voteMsgs[q],
           store'[q] = store[q]
    PROVE  NodeInv(q)'
<1>0. NewIndex(q) = {}
  BY DEF NewIndex
<1>1. view[q] \in Nat /\ rcvd[q][q] \subseteq rcvd'[q][q]
  BY DEF TypeOK, RcvdGrows
<1>2. ProposalInv(q)'
  BY <1>0, <1>1, ProposalsKept
<1>3. VoteInv(q)'
  BY <1>0, <1>1, VotesKept
<1>4. CertInv(q)'
  BY <1>0, CertsKept DEF Inv, CertInv
<1>5. PipelineInv(q)'
  BY <1>0, PipelineSaid, PipelinesKept
<1>6. LeaderInv(q)'
  BY LeaderKept DEF Inv, LeaderInv
<1>7. StoredAt(q)'
  BY StoreKept
<1> QED  BY <1>2, <1>3, <1>4, <1>5, <1>6, <1>7 DEF NodeInv

\* A step of r keeps Inv if it keeps it at r.
Local(r) ==
    /\ Grows
    /\ \A q \in Server : q # r =>
          /\ RcvdGrows(q)
          /\ sent'[q] = sent[q] /\ view'[q] = view[q] /\ phase'[q] = phase[q]
          /\ hsNodes'[q] = hsNodes[q] /\ blocks'[q] = blocks[q]
          /\ genericQC'[q] = genericQC[q] /\ curRound'[q] = curRound[q]
          /\ newViewMsgs'[q] = newViewMsgs[q] /\ voteMsgs'[q] = voteMsgs[q]
          /\ store'[q] = store[q]

LEMMA LocalStep ==
    ASSUME TypeOK, TypeOK', Inv, NEW r \in Server, Local(r), NodeInv(r)'
    PROVE  Inv'
<1>1. ASSUME NEW q \in Server PROVE NodeInv(q)'
  BY NodeKept DEF Local
<1> QED  BY <1>1 DEF Inv, NodeInv, StoredAt, StoredCertified

\* What the nodes have taken stays within what was sent.
LEMMA RcvdSame ==
    ASSUME TypeOK, TypeOK', Inv, Grows, rcvd' = rcvd, NEW q \in Server
    PROVE  RcvdGrows(q)
<1> SUFFICES ASSUME NEW s \in Server
             PROVE  rcvd[q][s] \subseteq rcvd'[q][s] /\ rcvd'[q][s] \subseteq DOMAIN sent'[s]
  BY DEF RcvdGrows
<1>1. rcvd[q][s] \subseteq DOMAIN sent[s] /\ Len(sent[s]) <= Len(sent'[s])
  BY DEF Inv, LeaderInv, Grows
<1>2. rcvd[q][s] \in SUBSET Nat /\ Len(sent[s]) \in Nat /\ Len(sent'[s]) \in Nat
  <2>1. sent[s] \in Seq(CMsg) /\ sent'[s] \in Seq(CMsg) /\ rcvd[q] \in [Server -> SUBSET Nat]
    BY DEF TypeOK
  <2> QED  BY <2>1
<1> QED  BY <1>1, <1>2

LEMMA RcvdStep ==
    ASSUME TypeOK, TypeOK', Inv, Grows, NEW r \in Server, NEW s \in Server,
           NEW i \in DOMAIN sent[s], i \notin rcvd[r][s],
           rcvd' = [rcvd EXCEPT ![r] = [rcvd[r] EXCEPT ![s] = @ \cup {i}]], NEW q \in Server
    PROVE  RcvdGrows(q)
<1> SUFFICES ASSUME NEW x \in Server
             PROVE  rcvd[q][x] \subseteq rcvd'[q][x] /\ rcvd'[q][x] \subseteq DOMAIN sent'[x]
  BY DEF RcvdGrows
<1>1. rcvd[q][x] \subseteq DOMAIN sent[x] /\ Len(sent[x]) <= Len(sent'[x])
  BY DEF Inv, LeaderInv, Grows
<1>2. rcvd[q][x] \in SUBSET Nat /\ Len(sent[x]) \in Nat /\ Len(sent'[x]) \in Nat
  <2>1. sent[x] \in Seq(CMsg) /\ sent'[x] \in Seq(CMsg)
    BY DEF TypeOK
  <2>2. rcvd[q] \in [Server -> SUBSET Nat]
    BY DEF TypeOK
  <2> QED  BY <2>1, <2>2
<1>3. CASE q = r /\ x = s
  <2>1. rcvd'[q][x] = rcvd[q][x] \cup {i}
    <3>1. rcvd'[r] = [rcvd[r] EXCEPT ![s] = @ \cup {i}]
      BY DEF TypeOK
    <3>2. rcvd[r] \in [Server -> SUBSET Nat]
      BY DEF TypeOK
    <3> QED  BY <1>3, <3>1, <3>2
  <2>2. i \in Nat /\ i <= Len(sent[x])
    <3>1. sent[s] \in Seq(CMsg)
      BY DEF TypeOK
    <3> QED  BY <1>3, <3>1
  <2> QED  BY <1>1, <1>2, <2>1, <2>2
<1>4. CASE ~(q = r /\ x = s)
  <2>1. rcvd'[q][x] = rcvd[q][x]
    <3>1. CASE q = r
      <4>1. rcvd'[r] = [rcvd[r] EXCEPT ![s] = @ \cup {i}]
        BY DEF TypeOK
      <4>2. rcvd[r] \in [Server -> SUBSET Nat]
        BY DEF TypeOK
      <4> QED  BY <1>4, <3>1, <4>1, <4>2
    <3>2. CASE q # r
      BY <3>2 DEF TypeOK
    <3> QED  BY <3>1, <3>2
  <2> QED  BY <1>1, <1>2, <2>1
<1> QED  BY <1>3, <1>4

----------------------------------------------------------------------------
(* One step of each kind *)

\* Propose: the leader has made no proposal in its view (it waits, or collects
\* new-view messages), and takes the certificate of one of the messages.
LEMMA ProposeKeeps ==
    ASSUME TypeOK, TypeOK', Inv, NEW r \in Server, NEW c \in Cmd, NEW msgs \in Seq(CMsg),
           msgs # <<>>, Propose(r, c, msgs), IsLeader(r), phase[r] # "HALF_GENERIC",
           \A i \in DOMAIN msgs : Backed(msgs[i].justify),
           Grows => \A q \in Server : RcvdGrows(q),
           UNCHANGED <<view, hsNodes, store>>
    PROVE  Inv'
<1> DEFINE p == Proposal(r, c, msgs)
<1>0. p = Proposal(r, c, msgs)
  OBVIOUS
<1> HIDE DEF p
<1>1. /\ p \in CMsg /\ p.type = "GENERIC" /\ p.view = view[r] /\ p.src = r
      /\ p.block = NewBlock(r, c) /\ p.justify = GetHighChainedQC(msgs)
      /\ p.nodes[1] = [cur |-> HashOf(p.block), parent |-> p.justify.nodes[1].cur]
      /\ \A k \in 1 .. 3 : p.nodes[k + 1] = hsNodes[r][k]
  BY <1>0, ProposalType
<1>2. /\ phase' = [phase EXCEPT ![r] = "HALF_GENERIC"]
      /\ genericQC' = [genericQC EXCEPT ![r] = p.justify]
      /\ blocks' = [blocks EXCEPT ![r] = Shift(p.block, blocks[r])]
      /\ bs' = [bs EXCEPT ![r].gen = GeneratedHeight(p.block)]
      /\ newViewMsgs' = [newViewMsgs EXCEPT ![r] = <<>>]
      /\ voteMsgs' = [voteMsgs EXCEPT ![r] = <<>>]
      /\ lastLeader' = [lastLeader EXCEPT ![r] = FALSE]
      /\ viewTimer' = [viewTimer EXCEPT ![r] = FALSE]
      /\ curRound' = [curRound EXCEPT ![r] = SignedContent(p.view, p.nodes)]
      /\ Send(r, <<p>>)
  BY <1>0, ProposeDoes
<1>3. /\ phase'[r] = "HALF_GENERIC" /\ genericQC'[r] = p.justify
      /\ blocks'[r] = Shift(p.block, blocks[r]) /\ newViewMsgs'[r] = <<>>
      /\ voteMsgs'[r] = <<>> /\ curRound'[r] = SignedContent(p.view, p.nodes)
  BY <1>2, ZenonT(60) DEF TypeOK
<1>4. <<p>> \in Seq(CMsg) /\ Len(<<p>>) = 1 /\ <<p>>[1] = p
  BY <1>1
<1>5. /\ Grows /\ \A q \in Server : q # r => sent'[q] = sent[q]
      /\ DOMAIN sent'[r] = 1 .. Len(sent[r]) + 1
      /\ Len(sent[r]) \in Nat /\ DOMAIN sent[r] = 1 .. Len(sent[r])
      /\ \A i \in NewIndex(r) : i = Len(sent[r]) + 1 /\ sent'[r][i] = p
  <2>1. /\ Grows /\ \A q \in Server : q # r => sent'[q] = sent[q]
        /\ DOMAIN sent'[r] = 1 .. Len(sent[r]) + 1
        /\ Len(sent[r]) \in Nat /\ DOMAIN sent[r] = 1 .. Len(sent[r])
        /\ \A i \in DOMAIN sent'[r] \ DOMAIN sent[r] :
              i - Len(sent[r]) \in 1 .. 1 /\ sent'[r][i] = <<p>>[i - Len(sent[r])]
    BY <1>2, <1>4, SendAdds, ZenonT(60)
  <2>2. ASSUME NEW i \in NewIndex(r) PROVE i = Len(sent[r]) + 1 /\ sent'[r][i] = p
    <3>1. /\ i \in DOMAIN sent'[r] \ DOMAIN sent[r] /\ i \in Int
          /\ i - Len(sent[r]) \in 1 .. 1 /\ sent'[r][i] = <<p>>[i - Len(sent[r])]
      BY <2>1 DEF NewIndex
    <3>2. i - Len(sent[r]) = 1 /\ i = Len(sent[r]) + 1
      BY <2>1, <3>1
    <3> QED  BY <1>4, <3>1, <3>2
  <2> QED  BY <2>1, <2>2
<1>6. p \in Sent(r)' /\ p \in Said("GENERIC")'
  <2>1. Len(sent[r]) + 1 \in NewIndex(r)
    BY <1>5 DEF NewIndex
  <2>2. p \in Sent(r)'
    BY <1>5, <2>1 DEF Sent, NewIndex
  <2> QED  BY <1>1, <2>2, SaidSent
<1>7. \A q \in Server : RcvdGrows(q)
  BY <1>5
<1>8. view[r] \in Nat /\ view' = view /\ r = Leader(view[r])
  BY DEF TypeOK, IsLeader
<1>9. ProposalInv(r)'
  <2>1. ASSUME NEW m \in Sent(r)', m.type = "GENERIC"
        PROVE  /\ r = Leader(m.view) /\ m.view <= view'[r]
               /\ m.view = view'[r] => phase'[r] = "HALF_GENERIC"
               /\ m.block.view = m.view
               /\ m.nodes[1] = [cur |-> HashOf(m.block), parent |-> m.justify.nodes[1].cur]
    <3>1. CASE m \in Sent(r)
      BY <1>3, <1>8, <2>1, <3>1 DEF Inv, ProposalInv
    <3>2. CASE m = p
      BY <1>1, <1>3, <1>8, <3>2 DEF NewBlock
    <3> QED  BY <1>5, <3>1, <3>2, OldOrNew
  <2>2. ASSUME NEW i \in DOMAIN sent[r], sent[r][i].type = "GENERIC"
        PROVE  sent[r][i].view # view[r]
    <3>1. sent[r][i] \in Sent(r)
      BY DEF Sent
    <3> QED  BY <2>2, <3>1 DEF Inv, ProposalInv
  <2>3. ASSUME NEW i \in DOMAIN sent'[r], NEW j \in DOMAIN sent'[r],
               sent'[r][i].type = "GENERIC", sent'[r][j].type = "GENERIC",
               sent'[r][i].view = sent'[r][j].view
        PROVE  i = j
    <3>1. \A k \in DOMAIN sent'[r] :
             \/ k \in DOMAIN sent[r] /\ sent'[r][k] = sent[r][k]
             \/ k = Len(sent[r]) + 1 /\ sent'[r][k].view = view[r]
      BY <1>1, <1>5 DEF Grows, NewIndex
    <3>2. CASE i \in DOMAIN sent[r] /\ j \in DOMAIN sent[r]
      BY <2>3, <3>2, <1>5, SMTT(30) DEF Grows, Inv, ProposalInv
    <3>3. CASE ~(i \in DOMAIN sent[r] /\ j \in DOMAIN sent[r])
      BY <2>2, <2>3, <3>1, <3>3
    <3> QED  BY <3>2, <3>3
  <2> QED  BY <2>1, <2>3 DEF ProposalInv
<1>10. VoteInv(r)'
  <2>1. \A i \in NewIndex(r) : sent'[r][i].type # "GENERIC_VOTE"
    BY <1>1, <1>5
  <2>2. view'[r] >= view[r] /\ rcvd[r][r] \subseteq rcvd'[r][r]
    BY <1>7, <1>8 DEF RcvdGrows, TypeOK
  <2> QED  BY <1>5, <2>1, <2>2, VotesKept
<1>11. CertInv(r)'
  <2>1. Backed(p.justify)
    BY <1>1, HighChained
  <2>2. \A i \in NewIndex(r) : sent'[r][i].src = r /\ Backed(sent'[r][i].justify)
    BY <1>1, <1>5, <2>1
  <2>3. \A i \in DOMAIN newViewMsgs'[r] : Backed(newViewMsgs'[r][i].justify)
    BY <1>3
  <2> QED  BY <1>3, <1>5, <2>1, <2>2, <2>3, CertsKept
<1>12. PipelineInv(r)'
  <2>1. ASSUME NEW k \in 1 .. 4 PROVE NodeSaid(hsNodes'[r][k]) /\ NodeSaid(p.nodes[k])
    <3>1. \A j \in 1 .. 4 : NodeSaid(hsNodes[r][j])
      BY <1>5, PipelineSaid
    <3>2. NodeSaid(p.nodes[1])
      BY <1>6 DEF NodeSaid
    <3>3. k = 1 \/ (k - 1 \in 1 .. 3 /\ k = (k - 1) + 1)
      OBVIOUS
    <3>4. k = 1 \/ (k - 1 \in 1 .. 3 /\ p.nodes[k] = hsNodes[r][k - 1])
      BY <1>1, <3>3
    <3> QED  BY <3>1, <3>2, <3>4
  <2>2. ASSUME NEW k \in 1 .. 4 PROVE BlockSaid(blocks'[r][k])
    <3>1. BlockSaid(p.block)
      BY <1>6 DEF BlockSaid
    <3>2. \A j \in 1 .. 4 : BlockSaid(blocks[r][j])
      BY <1>5, PipelineSaid
    <3>3. k = 1 \/ k = 2 \/ k = 3 \/ k = 4
      OBVIOUS
    <3> QED  BY <1>3, <3>1, <3>2, <3>3 DEF Shift
  <2>3. \A i \in NewIndex(r) : sent'[r][i].type = "GENERIC" =>
           \A k \in 1 .. 4 : NodeSaid(sent'[r][i].nodes[k])
    BY <1>5, <2>1
  <2> QED  BY <1>5, <2>1, <2>2, <2>3, PipelinesKept
<1>13. LeaderInv(r)'
  BY <1>1, <1>3, <1>6, <1>7, <1>8, QuorumType DEF LeaderInv, RcvdGrows
<1>14. StoredAt(r)'
  BY <1>5, StoreKept
<1>15. Local(r)
  <2> SUFFICES ASSUME NEW q \in Server, q # r
               PROVE  /\ RcvdGrows(q)
                      /\ sent'[q] = sent[q] /\ view'[q] = view[q] /\ phase'[q] = phase[q]
                      /\ hsNodes'[q] = hsNodes[q] /\ blocks'[q] = blocks[q]
                      /\ genericQC'[q] = genericQC[q] /\ curRound'[q] = curRound[q]
                      /\ newViewMsgs'[q] = newViewMsgs[q] /\ voteMsgs'[q] = voteMsgs[q]
                      /\ store'[q] = store[q]
    BY <1>5 DEF Local
  <2>1. RcvdGrows(q) /\ sent'[q] = sent[q]
    BY <1>5, <1>7
  <2>2. /\ view'[q] = view[q] /\ phase'[q] = phase[q] /\ hsNodes'[q] = hsNodes[q]
        /\ blocks'[q] = blocks[q]
    BY <1>2 DEF TypeOK
  <2>3. genericQC'[q] = genericQC[q] /\ curRound'[q] = curRound[q]
    <3>1. DOMAIN genericQC = Server /\ DOMAIN curRound = Server
      BY DEF TypeOK
    <3> QED  BY <1>2, <3>1
  <2>4. newViewMsgs'[q] = newViewMsgs[q] /\ voteMsgs'[q] = voteMsgs[q]
    <3>1. DOMAIN newViewMsgs = Server /\ DOMAIN voteMsgs = Server
      BY DEF TypeOK
    <3> QED  BY <1>2, <3>1
  <2>5. store'[q] = store[q]
    BY <1>2
  <2> QED  BY <2>1, <2>2, <2>3, <2>4, <2>5
<1> QED  BY <1>9, <1>10, <1>11, <1>12, <1>13, <1>14, <1>15, LocalStep DEF NodeInv

\* The request loop: a request that is not proposed changes nothing but the queues.
LEMMA RequestKeeps ==
    ASSUME TypeOK, TypeOK', Inv, NEW r \in Server,
           HandleReq(r) \/ \E c \in ClientCmds : GenNewReq(r, c)
    PROVE  Inv'
<1>1. LeaderInv(r) /\ CertInv(r)
  BY DEF Inv
<1> DEFINE proposes == /\ requests[r] # NoCmd /\ IsLeader(r) /\ phase[r] = "WAITING"
                       /\ Len(newViewMsgs[r]) >= QuorumSize \/ view[r] = 0
<1>2. CASE HandleReq(r) /\ proposes
  <2>1. Propose(r, requests[r], newViewMsgs[r]) /\ UNCHANGED <<view, hsNodes, store, rcvd>>
    BY <1>2 DEF HandleReq
  <2>2. requests[r] \in Cmd /\ newViewMsgs[r] \in Seq(CMsg)
    BY <1>2 DEF TypeOK
  <2>3. newViewMsgs[r] # <<>>
    BY <1>1, <1>2, <2>2, QuorumType DEF LeaderInv
  <2>4. \A i \in DOMAIN newViewMsgs[r] : Backed(newViewMsgs[r][i].justify)
    BY <1>1 DEF CertInv
  <2>5. Grows => \A q \in Server : RcvdGrows(q)
    BY <2>1, RcvdSame
  <2>6. IsLeader(r) /\ phase[r] # "HALF_GENERIC"
    BY <1>2
  <2> QED  BY <2>1, <2>2, <2>3, <2>4, <2>5, <2>6, ProposeKeeps
<1>3. CASE ~(HandleReq(r) /\ proposes)
  <2>1. UNCHANGED <<phase, view, hsNodes, blocks, genericQC, curRound, newViewMsgs, voteMsgs,
                    store, sent, rcvd>>
    <3>1. CASE HandleReq(r)
      BY <1>3, <3>1 DEF HandleReq, proposeVars
    <3>2. CASE \E c \in ClientCmds : GenNewReq(r, c)
      BY <3>2 DEF GenNewReq, chainVars, msgVars, blkVars
    <3> QED  BY <3>1, <3>2
  <2>2. Grows
    BY <2>1 DEF Grows, TypeOK
  <2>3. \A q \in Server : RcvdGrows(q)
    BY <2>1, <2>2, RcvdSame
  <2>4. Local(r)
    BY <2>1, <2>2, <2>3 DEF Local
  <2>5. NodeInv(r)'
    BY <2>1, <2>2, <2>3, NodeKept
  <2> QED  BY <2>4, <2>5, LocalStep
<1> QED  BY <1>2, <1>3

\* The view change: the node tells the next leader the certificate it holds.
LEMMA ViewChangeKeeps ==
    ASSUME TypeOK, TypeOK', Inv, NEW r \in Server, StartViewChange(r)
    PROVE  Inv'
<1> DEFINE m == MkMsg("NEW_VIEW", view[r] + 1, r, {Leader(view[r] + 1)},
                      [i \in 1 .. 4 |-> NilNode], genericQC[r])
<1>1. m \in CMsg /\ m.type = "NEW_VIEW" /\ m.src = r /\ m.justify = genericQC[r]
  <2>1. view[r] + 1 \in Nat /\ genericQC[r] \in ChainedQC
    BY DEF TypeOK
  <2>2. {Leader(view[r] + 1)} \in SUBSET Server
    BY <2>1, LeaderType
  <2>3. [i \in 1 .. 4 |-> NilNode] \in Four(HsNode) /\ "NEW_VIEW" \in MsgType
    BY ConstantTypes DEF Four, MsgType
  <2>4. m \in CMsg
    BY <2>1, <2>2, <2>3, MkMsgType
  <2> QED  BY <2>4 DEF MkMsg
<1>2. Send(r, <<m>>)
  BY DEF StartViewChange
<1> HIDE DEF m
<1>3. <<m>> \in Seq(CMsg) /\ Len(<<m>>) = 1 /\ <<m>>[1] = m
  BY <1>1
<1>4. /\ Grows /\ \A q \in Server : q # r => sent'[q] = sent[q]
      /\ \A i \in NewIndex(r) : sent'[r][i] = m
  <2>1. /\ Grows /\ \A q \in Server : q # r => sent'[q] = sent[q]
        /\ \A i \in DOMAIN sent'[r] \ DOMAIN sent[r] :
              i - Len(sent[r]) \in 1 .. 1 /\ sent'[r][i] = <<m>>[i - Len(sent[r])]
    BY <1>2, <1>3, SendAdds
  <2> QED  BY <1>3, <2>1 DEF NewIndex
<1>5. /\ view' = [view EXCEPT ![r] = @ + 1] /\ phase' = [phase EXCEPT ![r] = "NEW_VIEW"]
      /\ UNCHANGED <<hsNodes, blocks, genericQC, curRound, newViewMsgs, voteMsgs, store, rcvd>>
  BY DEF StartViewChange, chainVars, blkVars
<1>6. view[r] \in Nat /\ view'[r] = view[r] + 1 /\ phase'[r] = "NEW_VIEW"
  BY <1>5 DEF TypeOK
<1>7. \A q \in Server : RcvdGrows(q)
  BY <1>4, <1>5, RcvdSame
<1>8. ProposalInv(r)'
  <2>1. \A i \in NewIndex(r) : sent'[r][i].type # "GENERIC"
    BY <1>1, <1>4
  <2>2. view'[r] >= view[r] /\ view'[r] # view[r]
    BY <1>6
  <2> QED  BY <1>4, <2>1, <2>2, ProposalsKept
<1>9. VoteInv(r)'
  <2>1. \A i \in NewIndex(r) : sent'[r][i].type # "GENERIC_VOTE"
    BY <1>1, <1>4
  <2>2. view'[r] >= view[r] /\ rcvd[r][r] \subseteq rcvd'[r][r]
    BY <1>5, <1>6 DEF TypeOK
  <2> QED  BY <1>4, <2>1, <2>2, VotesKept
<1>10. CertInv(r)'
  <2>1. Backed(genericQC[r]) /\ \A i \in DOMAIN newViewMsgs[r] : Backed(newViewMsgs[r][i].justify)
    BY DEF Inv, CertInv
  <2> QED  BY <1>1, <1>4, <1>5, <2>1, CertsKept
<1>11. PipelineInv(r)'
  <2>1. \A i \in NewIndex(r) : sent'[r][i].type # "GENERIC"
    BY <1>1, <1>4
  <2> QED  BY <1>4, <1>5, <2>1, PipelineSaid, PipelinesKept
<1>12. LeaderInv(r)'
  BY <1>6, <1>7, LeaderIdle
<1>13. StoredAt(r)'
  BY <1>4, <1>5, StoreKept
<1>14. Local(r)
  BY <1>4, <1>5, <1>7 DEF Local, TypeOK
<1> QED  BY <1>8, <1>9, <1>10, <1>11, <1>12, <1>13, <1>14, LocalStep DEF NodeInv

\* A new-view message: dropped, kept, or the last one that the leader waits for.
LEMMA NewViewKeeps ==
    ASSUME TypeOK, TypeOK', Inv, NEW r \in Server, NEW m \in CMsg,
           CHandleNewView(r, m), Backed(m.justify),
           Grows => \A q \in Server : RcvdGrows(q)
    PROVE  Inv'
<1> DEFINE msgs == IF m.view = view[r] THEN Append(newViewMsgs[r], m) ELSE newViewMsgs[r]
<1>1. msgs \in Seq(CMsg) /\ \A i \in DOMAIN msgs : Backed(msgs[i].justify)
  <2>1. newViewMsgs[r] \in Seq(CMsg)
    BY DEF TypeOK
  <2>2. \A i \in DOMAIN newViewMsgs[r] : Backed(newViewMsgs[r][i].justify)
    BY DEF Inv, CertInv
  <2>3. ASSUME NEW i \in DOMAIN Append(newViewMsgs[r], m)
        PROVE  Backed(Append(newViewMsgs[r], m)[i].justify)
    <3>1. \/ i \in DOMAIN newViewMsgs[r] /\ Append(newViewMsgs[r], m)[i] = newViewMsgs[r][i]
          \/ Append(newViewMsgs[r], m)[i] = m
      BY <2>1
    <3> QED  BY <2>2, <3>1
  <2> QED  BY <2>1, <2>2, <2>3
<1>2. UNCHANGED <<view, hsNodes, store>>
  BY DEF CHandleNewView
<1>3. CASE /\ phase[r] = "NEW_VIEW" /\ IsLeader(r) /\ Len(msgs) >= QuorumSize
           /\ curProposal[r] # NoCmd /\ Propose(r, curProposal[r], msgs)
  <2>1. curProposal[r] \in Cmd
    BY <1>3 DEF TypeOK
  <2> HIDE DEF msgs
  <2>2. msgs # <<>>
    BY <1>1, <1>3, QuorumType
  <2>3. phase[r] # "HALF_GENERIC" /\ IsLeader(r)
    BY <1>3
  <2> QED  BY <1>1, <1>2, <1>3, <2>1, <2>2, <2>3, ProposeKeeps
<1>4. CASE ~(/\ phase[r] = "NEW_VIEW" /\ IsLeader(r) /\ Len(msgs) >= QuorumSize
             /\ curProposal[r] # NoCmd /\ Propose(r, curProposal[r], msgs))
  <2>1. /\ UNCHANGED <<genericQC, blocks, voteMsgs, curRound, sent>>
        /\ \/ UNCHANGED <<phase, newViewMsgs>>
           \/ /\ phase[r] = "NEW_VIEW" /\ phase' = phase
              /\ newViewMsgs' = [newViewMsgs EXCEPT ![r] = msgs]
           \/ /\ phase[r] = "NEW_VIEW" /\ phase' = [phase EXCEPT ![r] = "WAITING"]
              /\ newViewMsgs' = [newViewMsgs EXCEPT ![r] = msgs] /\ Len(msgs) >= QuorumSize
    BY <1>4 DEF CHandleNewView, proposeVars
  <2> HIDE DEF msgs
  <2>2. Grows
    BY <2>1 DEF Grows, TypeOK
  <2>3. \A q \in Server : RcvdGrows(q)
    BY <2>2
  <2>4. Local(r)
    BY <1>2, <2>1, <2>2, <2>3 DEF Local, TypeOK
  <2>5. \/ phase'[r] = phase[r] /\ newViewMsgs'[r] = newViewMsgs[r]
        \/ /\ phase[r] = "NEW_VIEW" /\ phase'[r] # "HALF_GENERIC"
           /\ newViewMsgs'[r] = msgs
           /\ phase'[r] = "WAITING" => Len(msgs) >= QuorumSize
    BY <2>1 DEF TypeOK
  <2>6. NewIndex(r) = {}
    BY <2>1 DEF NewIndex
  <2>7. ProposalInv(r)'
    <3>1. view'[r] >= view[r]
      BY <1>2 DEF TypeOK
    <3>2. phase[r] = "HALF_GENERIC" => phase'[r] = "HALF_GENERIC"
      BY <2>5
    <3> QED  BY <2>2, <2>6, <3>1, <3>2, ProposalsKept
  <2>8. VoteInv(r)'
    <3>1. view'[r] >= view[r] /\ rcvd[r][r] \subseteq rcvd'[r][r]
      BY <1>2, <2>3 DEF TypeOK, RcvdGrows
    <3> QED  BY <2>2, <2>6, <3>1, VotesKept
  <2>9. CertInv(r)'
    <3>1. Backed(genericQC'[r])
      BY <2>1 DEF Inv, CertInv
    <3>2. \A i \in DOMAIN newViewMsgs'[r] : Backed(newViewMsgs'[r][i].justify)
      BY <1>1, <2>5 DEF Inv, CertInv
    <3> QED  BY <2>2, <2>6, <3>1, <3>2, CertsKept
  <2>10. PipelineInv(r)'
    BY <1>2, <2>1, <2>2, <2>6, PipelineSaid, PipelinesKept
  <2>11. LeaderInv(r)'
    <3>1. CASE phase'[r] = phase[r] /\ newViewMsgs'[r] = newViewMsgs[r]
      <4>1. phase[r] = "WAITING" /\ view[r] = 0 => newViewMsgs'[r] # <<>>
        BY <3>1 DEF Inv, LeaderInv
      <4> QED  BY <1>2, <2>1, <2>2, <2>3, <3>1, <4>1, LeaderKept
    <3>2. CASE /\ phase'[r] # "HALF_GENERIC" /\ newViewMsgs'[r] = msgs
               /\ phase'[r] = "WAITING" => Len(msgs) >= QuorumSize
      <4>1. phase'[r] = "WAITING" => newViewMsgs'[r] # <<>>
        BY <1>1, <3>2, QuorumType
      <4> QED  BY <2>3, <3>2, <4>1, LeaderIdle
    <3> QED  BY <2>5, <3>1, <3>2
  <2>12. StoredAt(r)'
    BY <1>2, <2>2, StoreKept
  <2> QED  BY <2>4, <2>7, <2>8, <2>9, <2>10, <2>11, <2>12, LocalStep DEF NodeInv
<1> QED  BY <1>3, <1>4

\* There is one proposal in a view.
LEMMA OneProposal ==
    ASSUME TypeOK, Inv, NEW p \in Said("GENERIC"), NEW g \in Said("GENERIC"), p.view = g.view
    PROVE  p = g
<1>1. PICK s \in Server : p \in Sent(s)
  BY SaidSent
<1>2. PICK q \in Server : g \in Sent(q)
  BY SaidSent
<1>3. p.type = "GENERIC" /\ g.type = "GENERIC"
  BY DEF Said
<1>4. s = Leader(p.view) /\ q = Leader(g.view)
  BY <1>1, <1>2, <1>3 DEF Inv, ProposalInv
<1>5. PICK i \in DOMAIN sent[s] : p = sent[s][i]
  BY <1>1 DEF Sent
<1>6. PICK j \in DOMAIN sent[s] : g = sent[s][j]
  BY <1>2, <1>4 DEF Sent
<1>7. i = j
  BY <1>3, <1>5, <1>6 DEF Inv, ProposalInv
<1> QED  BY <1>5, <1>6, <1>7

\* The view of a proposal is a number that one byte holds.
LEMMA ProposalByte ==
    ASSUME TypeOK, Inv, NEW p \in Said("GENERIC")
    PROVE  p.view % 256 = p.view
<1>1. PICK s \in Server : p \in Sent(s) /\ p.type = "GENERIC"
  BY SaidSent
<1>2. p \in CMsg
  <2>1. sent[s] \in Seq(CMsg)
    BY DEF TypeOK
  <2> QED  BY <1>1, <2>1 DEF Sent
<1>3. p.view \in Nat /\ p.view <= view[s] /\ view[s] \in 0 .. MaxView
  BY <1>1, <1>2 DEF Inv, ProposalInv, TypeOK, CMsg
<1> QED  BY <1>3, BoundAssumption, ViewAssumption

\* A backed certificate whose head is a proposed block certifies that proposal.
LEMMA HeadCertified ==
    ASSUME TypeOK, Inv, NEW g \in Said("GENERIC"), g.block.cmd # NoCmd,
           NEW qc, Backed(qc), qc.nodes[1].cur = HashOf(g.block)
    PROVE  Certified(g.view, g.nodes[1])
<1>1. HashOf(g.block) # EmptyHash
  BY DEF HashOf, EmptyHash
<1>2. Certified(qc.view, qc.nodes[1])
  BY <1>1 DEF Backed
<1>3. Voters(qc.view, qc.nodes[1]) # {}
  BY <1>2, QuorumType, FS_EmptySet DEF Certified
<1>4. PICK k \in Said("GENERIC_VOTE") : k.view = qc.view /\ k.nodes[1] = qc.nodes[1]
  BY <1>3 DEF Voters
<1>5. PICK s \in Server : k \in Sent(s) /\ k.type = "GENERIC_VOTE"
  BY <1>4, SaidSent
<1>6. PICK p \in Said("GENERIC") : p.view = k.view /\ p.nodes = k.nodes
  BY <1>5 DEF Inv, VoteInv
<1>7. \A x \in Said("GENERIC") : x.block.view = x.view /\ x.nodes[1].cur = HashOf(x.block)
  <2> SUFFICES ASSUME NEW x \in Said("GENERIC")
               PROVE  x.block.view = x.view /\ x.nodes[1].cur = HashOf(x.block)
    OBVIOUS
  <2>1. PICK q \in Server : x \in Sent(q) /\ x.type = "GENERIC"
    BY SaidSent
  <2>2. x.nodes[1] = [cur |-> HashOf(x.block), parent |-> x.justify.nodes[1].cur]
        /\ x.block.view = x.view
    BY <2>1 DEF Inv, ProposalInv
  <2> QED  BY <2>2
<1>8. HashOf(p.block) = HashOf(g.block)
  BY <1>4, <1>6, <1>7
<1>9. p.view = g.view
  <2>1. HashOf(p.block).view = p.block.view % 256 /\ HashOf(g.block).view = g.block.view % 256
    BY DEF HashOf
  <2>2. p.view % 256 = p.view /\ g.view % 256 = g.view
    BY ProposalByte
  <2> QED  BY <1>7, <1>8, <2>1, <2>2
<1>10. p = g
  BY <1>9, OneProposal
<1> QED  BY <1>2, <1>4, <1>6, <1>10

\* The block that CHandleGeneric stores is the parent of the node above it in the
\* message, and that node was proposed with a certificate for it.
LEMMA StoresCertified ==
    ASSUME TypeOK, Inv, NEW m \in Said("GENERIC"), NEW blks,
           blks[4] = EmptyBlock \/ \E g \in Said("GENERIC") : g.block = blks[4],
           NEW b \in StoredBlocks(blks, m.nodes)
    PROVE  \E g \in Said("GENERIC") : g.block = b /\ Certified(g.view, g.nodes[1])
<1>1. /\ Linked(m.nodes, 4) /\ blks[4].cmd # NoCmd /\ HashOf(blks[4]) = m.nodes[4].cur
      /\ b = blks[4]
  BY DEF StoredBlocks
<1>2. PICK g \in Said("GENERIC") : g.block = b
  BY <1>1 DEF EmptyBlock
<1>3. m.nodes[3].parent = HashOf(b)
  <2>1. m.nodes[3].parent = m.nodes[4].cur
    BY <1>1 DEF Linked
  <2> QED  BY <1>1, <2>1
<1>4. m.nodes[3] # EmptyNode
  BY <1>1, <1>3 DEF EmptyNode, EmptyHash, HashOf
<1>5. PICK s \in Server : m \in Sent(s) /\ m.type = "GENERIC"
  BY SaidSent
<1>6. PICK x \in Said("GENERIC") : x.nodes[1] = m.nodes[3]
  BY <1>4, <1>5 DEF Inv, PipelineInv
<1>7. PICK q \in Server : x \in Sent(q) /\ x.type = "GENERIC"
  BY <1>6, SaidSent
<1>8. x.nodes[1] = [cur |-> HashOf(x.block), parent |-> x.justify.nodes[1].cur]
      /\ Backed(x.justify)
  BY <1>7 DEF Inv, ProposalInv, CertInv
<1>9. x.justify.nodes[1].cur = HashOf(g.block)
  BY <1>2, <1>3, <1>6, <1>8
<1>10. g.block.cmd # NoCmd
  BY <1>1, <1>2
<1>11. Certified(g.view, g.nodes[1])
  BY <1>8, <1>9, <1>10, HeadCertified
<1> QED  BY <1>2, <1>11

\* A message that changes nothing at the node
LEMMA NothingKeeps ==
    ASSUME TypeOK, TypeOK', Inv, NEW r \in Server,
           UNCHANGED <<phase, view, hsNodes, blocks, genericQC, curRound, newViewMsgs,
                       voteMsgs, store, sent>>,
           Grows => \A q \in Server : RcvdGrows(q)
    PROVE  Inv'
<1>1. Grows
  BY DEF Grows, TypeOK
<1>2. \A q \in Server : RcvdGrows(q)
  BY <1>1
<1>3. Local(r)
  BY <1>1, <1>2 DEF Local
<1>4. NodeInv(r)'
  BY <1>1, <1>2, NodeKept
<1> QED  BY <1>3, <1>4, LocalStep

\* A proposal that the node takes: its one vote of this view goes to the proposal, and
\* the certificate and the nodes of the proposal become its own.
LEMMA GenericKeeps ==
    ASSUME TypeOK, TypeOK', Inv, NEW r \in Server, NEW s \in Server,
           NEW i \in DOMAIN sent[s], i \notin rcvd[r][s],
           rcvd' = [rcvd EXCEPT ![r] = [rcvd[r] EXCEPT ![s] = @ \cup {i}]],
           NEW m \in CMsg, m = sent[s][i], CHandleGeneric(r, m)
    PROVE  Inv'
<1> DEFINE takes == m.view = view[r] /\ CheckNewCHsNode(r, m)
           blks  == IF IsLeader(r) THEN blocks[r] ELSE Shift(m.block, blocks[r])
           done  == StoredBlocks(blks, m.nodes)
           vote  == MkMsg("GENERIC_VOTE", m.view, r, {Leader(view[r])}, m.nodes, FirstQC)
           nv    == MkMsg("NEW_VIEW", view[r] + 1, r, {Leader(view[r] + 1)}, m.nodes, m.justify)
<1>0. Grows => \A q \in Server : RcvdGrows(q)
  BY RcvdStep
<1>1. CASE ~takes
  <2>1. UNCHANGED <<phase, view, hsNodes, blocks, genericQC, curRound, newViewMsgs, voteMsgs,
                    store, sent>>
    BY <1>1 DEF CHandleGeneric, chainVars, blkVars
  <2> QED  BY <1>0, <2>1, NothingKeeps
<1>2. CASE takes
  <2>1. /\ blocks' = [blocks EXCEPT ![r] = blks]
        /\ hsNodes' = [hsNodes EXCEPT ![r] = m.nodes]
        /\ genericQC' = [genericQC EXCEPT ![r] = m.justify]
        /\ store' = [store EXCEPT ![r] = WriteBlocks(store[r], done)]
        /\ newViewMsgs' = [newViewMsgs EXCEPT ![r] = <<>>]
        /\ \/ /\ IsLeader(r) /\ Send(r, <<vote>>) /\ UNCHANGED view
           \/ /\ ~IsLeader(r) /\ view' = [view EXCEPT ![r] = view[r] + 1]
              /\ Send(r, <<vote, nv>>)
        /\ UNCHANGED <<phase, curRound, voteMsgs>>
        /\ m.type = "GENERIC" /\ m.view = view[r]
    BY <1>2 DEF CHandleGeneric
  <2>2. /\ m.nodes \in Four(HsNode) /\ m.justify \in ChainedQC /\ m.block \in Block
        /\ view[r] \in Nat
    BY DEF CMsg, TypeOK
  <2>3. blks \in Four(Block) /\ done \in SUBSET Block
    <3>1. blks \in Four(Block)
      BY <2>2, ShiftType DEF TypeOK
    <3> QED  BY <3>1 DEF StoredBlocks, Four
  <2>4. /\ vote \in CMsg /\ vote.type = "GENERIC_VOTE" /\ vote.view = m.view /\ vote.src = r
        /\ vote.nodes = m.nodes /\ vote.justify = FirstQC
        /\ nv \in CMsg /\ nv.type = "NEW_VIEW" /\ nv.src = r /\ nv.justify = m.justify
    <3>1. vote \in CMsg /\ nv \in CMsg
      BY <2>2, VoteType, NextViewType
    <3> QED  BY <3>1 DEF MkMsg
  <2>5. m \in Sent(s) /\ m \in Said("GENERIC")
    BY <2>1 DEF Sent, Said
  <2>6. /\ s = Leader(view[r]) /\ Backed(m.justify)
        /\ \A k \in 1 .. 4 : m.nodes[k] = EmptyNode
                             \/ \E p \in Said("GENERIC") : p.nodes[1] = m.nodes[k]
    <3>1. s = Leader(view[r])
      <4>1. m.type = "GENERIC" /\ m.view = view[r] /\ ProposalInv(s)
        BY <2>1 DEF Inv
      <4>2. s = Leader(m.view)
        BY <2>5, <4>1 DEF ProposalInv
      <4> QED  BY <4>1, <4>2
    <3>2. Backed(m.justify)
      BY <2>1, <2>5 DEF Inv, CertInv
    <3>3. \A k \in 1 .. 4 : m.nodes[k] = EmptyNode
                            \/ \E p \in Said("GENERIC") : p.nodes[1] = m.nodes[k]
      BY <2>1, <2>5 DEF Inv, PipelineInv
    <3> QED  BY <3>1, <3>2, <3>3
  <2>7. blks[4] = EmptyBlock \/ \E g \in Said("GENERIC") : g.block = blks[4]
    <3>1. blks[4] = blocks[r][4] \/ blks[4] = blocks[r][3]
      BY DEF Shift
    <3> HIDE DEF blks
    <3> QED  BY <3>1 DEF Inv, PipelineInv
  <2>8. \A b \in done : \E g \in Said("GENERIC") :
           g.block = b /\ Certified(g.view, g.nodes[1])
    <3> HIDE DEF blks
    <3> QED  BY <2>5, <2>7, StoresCertified
  <2>9. blks = blocks[r] \/ blks = Shift(m.block, blocks[r])
    OBVIOUS
  <2> HIDE DEF takes, blks, done, vote, nv
  <2>10. /\ Grows /\ \A q \in Server : q # r => sent'[q] = sent[q]
         /\ Len(sent[r]) \in Nat /\ DOMAIN sent[r] = 1 .. Len(sent[r])
         /\ \A k \in NewIndex(r) : /\ sent'[r][k] = vote => k = Len(sent[r]) + 1
                                   /\ sent'[r][k] = vote \/ sent'[r][k] = nv
    <3>1. vote # nv
      BY <2>4
    <3>2. CASE Send(r, <<vote>>)
      <4>1. <<vote>> \in Seq(CMsg) /\ Len(<<vote>>) = 1 /\ <<vote>>[1] = vote
        BY <2>4
      <4>2. /\ Grows /\ \A q \in Server : q # r => sent'[q] = sent[q]
            /\ Len(sent[r]) \in Nat /\ DOMAIN sent[r] = 1 .. Len(sent[r])
            /\ DOMAIN sent'[r] = 1 .. Len(sent[r]) + 1
            /\ \A k \in DOMAIN sent'[r] \ DOMAIN sent[r] :
                  k - Len(sent[r]) \in 1 .. 1 /\ sent'[r][k] = <<vote>>[k - Len(sent[r])]
        BY <3>2, <4>1, SendAdds, ZenonT(60)
      <4>3. ASSUME NEW k \in NewIndex(r) PROVE k = Len(sent[r]) + 1 /\ sent'[r][k] = vote
        <5>1. k \in DOMAIN sent'[r] \ DOMAIN sent[r] /\ k \in Int
          BY <4>2 DEF NewIndex
        <5>2. k = Len(sent[r]) + 1 /\ k - Len(sent[r]) = 1
          BY <4>2, <5>1
        <5> QED  BY <4>1, <4>2, <5>1, <5>2
      <4> QED  BY <4>2, <4>3
    <3>3. CASE Send(r, <<vote, nv>>)
      <4>1. /\ <<vote, nv>> \in Seq(CMsg) /\ Len(<<vote, nv>>) = 2 /\ <<vote, nv>>[1] = vote
            /\ <<vote, nv>>[2] = nv
        BY <2>4
      <4>2. /\ Grows /\ \A q \in Server : q # r => sent'[q] = sent[q]
            /\ Len(sent[r]) \in Nat /\ DOMAIN sent[r] = 1 .. Len(sent[r])
            /\ DOMAIN sent'[r] = 1 .. Len(sent[r]) + 2
            /\ \A k \in DOMAIN sent'[r] \ DOMAIN sent[r] :
                  k - Len(sent[r]) \in 1 .. 2 /\ sent'[r][k] = <<vote, nv>>[k - Len(sent[r])]
        BY <3>3, <4>1, SendAdds, ZenonT(60)
      <4>3. ASSUME NEW k \in NewIndex(r)
            PROVE  \/ k = Len(sent[r]) + 1 /\ sent'[r][k] = vote
                   \/ sent'[r][k] = nv
        <5>1. k \in DOMAIN sent'[r] \ DOMAIN sent[r] /\ k \in Int
          BY <4>2 DEF NewIndex
        <5>2. \/ k = Len(sent[r]) + 1 /\ k - Len(sent[r]) = 1
              \/ k - Len(sent[r]) = 2
          BY <4>2, <5>1
        <5> QED  BY <4>1, <4>2, <5>1, <5>2
      <4> QED  BY <3>1, <4>2, <4>3
    <3> QED  BY <2>1, <3>2, <3>3
  <2>11. /\ blocks'[r] = blks /\ hsNodes'[r] = m.nodes /\ genericQC'[r] = m.justify
         /\ store'[r] = WriteBlocks(store[r], done) /\ newViewMsgs'[r] = <<>>
         /\ phase'[r] = phase[r] /\ curRound'[r] = curRound[r] /\ voteMsgs'[r] = voteMsgs[r]
         /\ \/ IsLeader(r) /\ view'[r] = view[r]
            \/ ~IsLeader(r) /\ view'[r] = view[r] + 1
    <3>1. r \in DOMAIN store
      BY DEF TypeOK
    <3> QED  BY <2>1, <3>1 DEF TypeOK
  <2>12. \A q \in Server : RcvdGrows(q)
    BY <1>0, <2>10
  <2>13. i \in rcvd'[r][s]
    <3>1. rcvd[r] \in [Server -> SUBSET Nat]
      BY DEF TypeOK
    <3>2. rcvd'[r] = [rcvd[r] EXCEPT ![s] = @ \cup {i}]
      BY DEF TypeOK
    <3> QED  BY <3>1, <3>2
  <2>14. ProposalInv(r)'
    <3>1. \A k \in NewIndex(r) : sent'[r][k].type # "GENERIC"
      BY <2>4, <2>10
    <3>2. view'[r] >= view[r]
      BY <2>2, <2>11
    <3> QED  BY <2>10, <2>11, <3>1, <3>2, ProposalsKept
  <2>15. VoteInv(r)'
    <3>1. ASSUME NEW j \in DOMAIN sent[r], sent[r][j].type = "GENERIC_VOTE",
                 sent[r][j].view = view[r]
          PROVE  FALSE
      <4>1. sent[r][j] \in Sent(r)
        BY DEF Sent
      <4>2. PICK k \in DOMAIN sent[r] : /\ k \in rcvd[r][r] /\ r = Leader(view[r])
                                        /\ sent[r][k].type = "GENERIC"
                                        /\ sent[r][k].view = view[r]
        BY <2>2, <3>1, <4>1 DEF Inv, VoteInv
      <4>3. s = r
        BY <2>6, <4>2
      <4>4. k = i
        BY <2>1, <4>2, <4>3 DEF Inv, ProposalInv
      <4>5. rcvd[r][s] \in SUBSET Nat /\ i \in Nat
        <5>1. rcvd[r] \in [Server -> SUBSET Nat]
          BY DEF TypeOK
        <5> QED  BY <2>10, <4>3, <5>1
      <4> QED  BY <4>2, <4>3, <4>4, <4>5
    <3>2. view'[r] >= view[r] /\ rcvd[r][r] \subseteq rcvd'[r][r]
      <4>1. rcvd[r] \in [Server -> SUBSET Nat] /\ rcvd'[r] \in [Server -> SUBSET Nat]
        BY DEF TypeOK
      <4> QED  BY <2>2, <2>11, <2>12, <4>1 DEF RcvdGrows
    <3>3. ASSUME NEW k \in NewIndex(r), sent'[r][k].type = "GENERIC_VOTE"
          PROVE  /\ \E p \in Said("GENERIC")' :
                       p.view = sent'[r][k].view /\ p.nodes = sent'[r][k].nodes
                 /\ \/ sent'[r][k].view < view'[r]
                    \/ /\ sent'[r][k].view = view'[r] /\ r = Leader(view'[r])
                       /\ \E j \in DOMAIN sent'[r] : /\ j \in rcvd'[r][r]
                                                     /\ sent'[r][j].type = "GENERIC"
                                                     /\ sent'[r][j].view = sent'[r][k].view
                 /\ \A j \in DOMAIN sent'[r] :
                       /\ sent'[r][j].type = "GENERIC_VOTE"
                       /\ sent'[r][j].view = sent'[r][k].view
                       => j = k
      <4>1. sent'[r][k] = vote /\ k = Len(sent[r]) + 1
        BY <2>4, <2>10, <3>3
      <4>2. \E p \in Said("GENERIC")' :
               p.view = sent'[r][k].view /\ p.nodes = sent'[r][k].nodes
        BY <2>4, <2>5, <2>10, <4>1, Growth
      <4>5. ASSUME NEW j \in DOMAIN sent'[r], sent'[r][j].type = "GENERIC_VOTE",
                   sent'[r][j].view = sent'[r][k].view
            PROVE  j = k
        <5>1. CASE j \in DOMAIN sent[r]
          <6>1. sent'[r][j] = sent[r][j] /\ sent[r][j].view = view[r]
            BY <2>1, <2>4, <2>10, <4>1, <4>5, <5>1 DEF Grows
          <6> QED  BY <3>1, <4>5, <5>1, <6>1
        <5>2. CASE j \in NewIndex(r)
          BY <2>4, <2>10, <4>1, <4>5, <5>2
        <5> QED  BY <5>1, <5>2 DEF NewIndex
      <4>3. CASE ~IsLeader(r)
        <5>1. sent'[r][k].view < view'[r]
          BY <2>1, <2>2, <2>4, <2>11, <4>1, <4>3
        <5> QED  BY <4>2, <4>5, <5>1
      <4>4. CASE IsLeader(r)
        <5>1. s = r /\ view'[r] = view[r] /\ r = Leader(view'[r])
          BY <2>6, <2>11, <4>4 DEF IsLeader
        <5>2. /\ i \in DOMAIN sent'[r] /\ sent'[r][i] = m /\ i \in rcvd'[r][r] /\ i \in Nat
          BY <2>10, <2>13, <5>1 DEF Grows
        <5> QED  BY <2>1, <2>4, <4>1, <4>2, <4>5, <5>1, <5>2
      <4> QED  BY <4>3, <4>4
    <3> QED  BY <2>10, <3>2, <3>3, VotesAdded
  <2>16. CertInv(r)'
    <3>1. Backed(FirstQC)
      BY DEF Backed, FirstQC, EmptyNode
    <3>2. \A k \in NewIndex(r) : sent'[r][k].src = r /\ Backed(sent'[r][k].justify)
      BY <2>4, <2>6, <2>10, <3>1
    <3>3. genericQC'[r] = m.justify /\ DOMAIN newViewMsgs'[r] = {}
      BY <2>11
    <3> QED  BY <2>6, <2>10, <3>2, <3>3, CertsKept
  <2>17. PipelineInv(r)'
    <3>1. m \in Said("GENERIC")'
      BY <2>5, <2>10, Growth
    <3>2. \A k \in 1 .. 4 : NodeSaid(m.nodes[k])
      BY <2>5, <2>1, <2>10, PipelineSaid
    <3>3. ASSUME NEW k \in 1 .. 4 PROVE BlockSaid(blks[k])
      <4>1. \A j \in 1 .. 4 : BlockSaid(blocks[r][j])
        BY <2>10, PipelineSaid
      <4>2. BlockSaid(m.block)
        BY <3>1 DEF BlockSaid
      <4>3. k = 1 \/ k = 2 \/ k = 3 \/ k = 4
        OBVIOUS
      <4> QED  BY <2>9, <4>1, <4>2, <4>3 DEF Shift
    <3>4. \A k \in NewIndex(r) : sent'[r][k].type # "GENERIC"
      BY <2>4, <2>10
    <3> QED  BY <2>10, <2>11, <3>2, <3>3, <3>4, PipelinesKept
  <2>18. LeaderInv(r)'
    <3>1. CASE IsLeader(r)
      <4>1. phase[r] = "HALF_GENERIC"
        BY <2>1, <2>5, <2>6, <3>1 DEF IsLeader, Inv, ProposalInv
      <4>2. view'[r] = view[r]
        BY <2>11, <3>1
      <4> QED  BY <2>10, <2>11, <2>12, <4>1, <4>2, LeaderKept
    <3>2. CASE ~IsLeader(r)
      <4>1. phase[r] # "HALF_GENERIC"
        BY <3>2 DEF IsLeader, Inv, LeaderInv
      <4>2. view'[r] # 0
        BY <2>2, <2>11, <3>2
      <4> QED  BY <2>11, <2>12, <4>1, <4>2, LeaderIdle
    <3> QED  BY <3>1, <3>2
  <2>19. StoredAt(r)'
    <3>1. \A h \in DOMAIN store[r] : store[r][h] \in Block
      BY DEF TypeOK
    <3>2. \A h \in DOMAIN store'[r] :
             store'[r][h] \in done \/ (h \in DOMAIN store[r] /\ store'[r][h] = store[r][h])
      BY <2>3, <2>11, <3>1, WriteType
    <3> QED  BY <2>8, <2>10, <3>2, StoreKept
  <2>20. Local(r)
    <3>1. ASSUME NEW q \in Server, q # r PROVE store'[q] = store[q] /\ view'[q] = view[q]
      <4>1. q \in DOMAIN store /\ q \in DOMAIN view
        BY DEF TypeOK
      <4> QED  BY <2>1, <3>1, <4>1
    <3> QED  BY <2>1, <2>10, <2>12, <3>1 DEF Local, TypeOK
  <2> QED  BY <2>14, <2>15, <2>16, <2>17, <2>18, <2>19, <2>20, LocalStep DEF NodeInv
<1> QED  BY <1>1, <1>2

\* Votes of different nodes make as many voters.
LEMMA VotersOfList ==
    ASSUME TypeOK, NEW v, NEW n, NEW votes \in Seq(CMsg), Len(votes) >= QuorumSize,
           \A j \in DOMAIN votes :
              /\ votes[j] \in Said("GENERIC_VOTE") /\ votes[j].view = v
              /\ votes[j].nodes[1] = n,
           \A j, k \in DOMAIN votes : votes[j].src = votes[k].src => j = k
    PROVE  Certified(v, n)
<1> DEFINE f == [j \in 1 .. Len(votes) |-> votes[j].src]
<1>1. Len(votes) \in Nat /\ DOMAIN votes = 1 .. Len(votes)
  OBVIOUS
<1>2. f \in [1 .. Len(votes) -> Voters(v, n)]
  BY <1>1 DEF Voters
<1>3. f \in Injection(1 .. Len(votes), Voters(v, n))
  <2>1. \A j, k \in 1 .. Len(votes) : f[j] = f[k] => j = k
    BY <1>1
  <2> HIDE DEF f
  <2> QED  BY <1>2, <2>1 DEF Injection, IsInjective
<1>4. IsFiniteSet(Voters(v, n))
  BY VotersFinite
<1>5. Cardinality(1 .. Len(votes)) <= Cardinality(Voters(v, n))
  <2> HIDE DEF f
  <2> QED  BY <1>3, <1>4, FS_Injection
<1>6. Cardinality(1 .. Len(votes)) = Len(votes)
  BY <1>1, CountTo, Zenon
<1>7. Cardinality(Voters(v, n)) \in Nat
  BY <1>4, FS_CardinalityType
<1> QED  BY <1>1, <1>5, <1>6, <1>7, QuorumType DEF Certified

\* A list of votes of the leader's view, each of another node, that the leader has
\* taken or takes as message i of s
VoteList(r, s, i, votes) ==
    /\ votes \in Seq(CMsg)
    /\ \A j \in DOMAIN votes :
          /\ votes[j].type = "GENERIC_VOTE" /\ votes[j].view = view[r]
          /\ votes[j].src \in Server
          /\ \E k \in DOMAIN sent[votes[j].src] :
                /\ k \in rcvd[r][votes[j].src] \/ (votes[j].src = s /\ k = i)
                /\ sent[votes[j].src][k] = votes[j]
    /\ \A j, k \in DOMAIN votes : votes[j].src = votes[k].src => j = k

\* The list that a leader has when it takes one more vote of its view: of different
\* nodes, since a node votes once in a view.
LEMMA OneMoreVote ==
    ASSUME TypeOK, Inv, NEW r \in Server, NEW s \in Server, NEW i \in DOMAIN sent[s],
           i \notin rcvd[r][s], NEW m \in CMsg, m = sent[s][i], m.type = "GENERIC_VOTE",
           m.view = view[r], phase[r] = "HALF_GENERIC",
           NEW votes, votes = Append(voteMsgs[r], m)
    PROVE  VoteList(r, s, i, votes)
<1>1. voteMsgs[r] \in Seq(CMsg) /\ LeaderInv(r) /\ sent[s] \in Seq(CMsg)
  BY DEF TypeOK, Inv
<1>2. /\ votes \in Seq(CMsg) /\ Len(votes) = Len(voteMsgs[r]) + 1
      /\ DOMAIN votes = 1 .. Len(voteMsgs[r]) + 1 /\ DOMAIN voteMsgs[r] = 1 .. Len(voteMsgs[r])
      /\ Len(voteMsgs[r]) \in Nat
      /\ \A j \in DOMAIN voteMsgs[r] : votes[j] = voteMsgs[r][j]
      /\ votes[Len(voteMsgs[r]) + 1] = m
  BY <1>1
<1>3. m.src = s /\ m \in Sent(s)
  <2>1. m \in Sent(s)
    BY DEF Sent
  <2> QED  BY <2>1 DEF Inv, CertInv
<1>4. ASSUME NEW j \in DOMAIN voteMsgs[r]
      PROVE  /\ votes[j].type = "GENERIC_VOTE" /\ votes[j].view = view[r]
             /\ votes[j].src \in Server
             /\ \E k \in DOMAIN sent[votes[j].src] :
                   k \in rcvd[r][votes[j].src] /\ sent[votes[j].src][k] = votes[j]
  <2>1. votes[j] = voteMsgs[r][j] /\ voteMsgs[r][j] \in CMsg
    BY <1>1, <1>2
  <2>2. votes[j].src \in Server
    BY <2>1 DEF CMsg
  <2> QED  BY <1>1, <2>1, <2>2 DEF LeaderInv
<1>5. ASSUME NEW j \in DOMAIN voteMsgs[r] PROVE votes[j].src # s
  <2> SUFFICES ASSUME votes[j].src = s PROVE FALSE
    OBVIOUS
  <2>1. PICK k \in DOMAIN sent[s] : k \in rcvd[r][s] /\ sent[s][k] = votes[j]
    BY <1>4
  <2>2. sent[s][k].type = "GENERIC_VOTE" /\ sent[s][k].view = sent[s][i].view
    BY <1>4, <2>1
  <2>3. k = i
    BY <2>2 DEF Inv, VoteInv
  <2>4. i \in Nat /\ rcvd[r][s] \in SUBSET Nat
    <3>1. rcvd[r] \in [Server -> SUBSET Nat]
      BY DEF TypeOK
    <3> QED  BY <1>1, <3>1
  <2> QED  BY <2>1, <2>3, <2>4
<1>6. \A j \in DOMAIN votes : j \in DOMAIN voteMsgs[r] \/ votes[j] = m
  BY <1>2
<1>7. \A j \in DOMAIN votes :
         /\ votes[j].type = "GENERIC_VOTE" /\ votes[j].view = view[r]
         /\ votes[j].src \in Server
         /\ \E k \in DOMAIN sent[votes[j].src] :
               /\ k \in rcvd[r][votes[j].src] \/ (votes[j].src = s /\ k = i)
               /\ sent[votes[j].src][k] = votes[j]
  <2> SUFFICES ASSUME NEW j \in DOMAIN votes
               PROVE  /\ votes[j].type = "GENERIC_VOTE" /\ votes[j].view = view[r]
                      /\ votes[j].src \in Server
                      /\ \E k \in DOMAIN sent[votes[j].src] :
                            /\ k \in rcvd[r][votes[j].src] \/ (votes[j].src = s /\ k = i)
                            /\ sent[votes[j].src][k] = votes[j]
    OBVIOUS
  <2>1. CASE j \in DOMAIN voteMsgs[r]
    BY <1>4, <2>1
  <2>2. CASE votes[j] = m
    <3>1. i \in DOMAIN sent[votes[j].src] /\ sent[votes[j].src][i] = votes[j]
      BY <1>3, <2>2
    <3> QED  BY <1>3, <2>2, <3>1
  <2> QED  BY <1>6, <2>1, <2>2
<1>8. ASSUME NEW j \in DOMAIN votes, NEW k \in DOMAIN votes, votes[j].src = votes[k].src
      PROVE  j = k
  <2>1. CASE j \in DOMAIN voteMsgs[r] /\ k \in DOMAIN voteMsgs[r]
    <3>1. votes[j] = voteMsgs[r][j] /\ votes[k] = voteMsgs[r][k]
      BY <1>2, <2>1
    <3> QED  BY <1>1, <1>8, <2>1, <3>1 DEF LeaderInv
  <2>2. CASE ~(j \in DOMAIN voteMsgs[r] /\ k \in DOMAIN voteMsgs[r])
    <3>1. \A x \in DOMAIN votes : x \notin DOMAIN voteMsgs[r] =>
             x = Len(voteMsgs[r]) + 1 /\ votes[x].src = s
      BY <1>2, <1>3
    <3> QED  BY <1>5, <1>8, <2>2, <3>1
  <2> QED  BY <2>1, <2>2
<1> QED  BY <1>2, <1>7, <1>8 DEF VoteList

\* A vote: the leader keeps it, and with a quorum for its proposal it makes the
\* certificate and goes to the next view.
LEMMA GenericVoteKeeps ==
    ASSUME TypeOK, TypeOK', Inv, NEW r \in Server, NEW s \in Server,
           NEW i \in DOMAIN sent[s], i \notin rcvd[r][s],
           rcvd' = [rcvd EXCEPT ![r] = [rcvd[r] EXCEPT ![s] = @ \cup {i}]],
           NEW m \in CMsg, m = sent[s][i], CHandleGenericVote(r, m)
    PROVE  Inv'
<1> DEFINE votes  == IF m.view = view[r] THEN Append(voteMsgs[r], m) ELSE voteMsgs[r]
           enough == /\ phase[r] = "HALF_GENERIC" /\ Len(votes) >= QuorumSize
                     /\ CombineSign(r, votes)
           qc     == [view |-> m.view, nodes |-> m.nodes]
           nv     == MkMsg("NEW_VIEW", view[r] + 1, r, {Leader(view[r] + 1)}, hsNodes[r], qc)
<1>0. Grows => \A q \in Server : RcvdGrows(q)
  BY RcvdStep
<1>1. /\ m.type = "GENERIC_VOTE"
      /\ voteMsgs' = [voteMsgs EXCEPT ![r] =
                         IF phase[r] = "HALF_GENERIC" THEN votes ELSE voteMsgs[r]]
      /\ \/ ~enough /\ UNCHANGED <<phase, view, genericQC, sent>>
         \/ /\ enough /\ phase' = [phase EXCEPT ![r] = "NEW_VIEW"]
            /\ view' = [view EXCEPT ![r] = view[r] + 1]
            /\ genericQC' = [genericQC EXCEPT ![r] = qc]
            /\ Send(r, <<nv>>)
      /\ UNCHANGED <<hsNodes, blocks, curRound, newViewMsgs, store>>
  BY DEF CHandleGenericVote, blkVars
<1>2. CASE ~(phase[r] = "HALF_GENERIC" /\ m.view = view[r])
  <2>1. ~enough
    BY <1>2, QuorumType DEF Inv, LeaderInv, TypeOK
  <2>2. voteMsgs' = voteMsgs
    BY <1>1, <1>2 DEF TypeOK
  <2> QED  BY <1>0, <1>1, <2>1, <2>2, NothingKeeps
<1>3. CASE phase[r] = "HALF_GENERIC" /\ m.view = view[r]
  <2> DEFINE list == Append(voteMsgs[r], m)
  <2>0. votes = list /\ list = Append(voteMsgs[r], m)
    BY <1>3
  <2> HIDE DEF list
  <2>1. /\ list \in Seq(CMsg) /\ Len(list) = Len(voteMsgs[r]) + 1
        /\ \A j \in DOMAIN list :
              /\ list[j].type = "GENERIC_VOTE" /\ list[j].view = view[r]
              /\ list[j].src \in Server
              /\ \E k \in DOMAIN sent[list[j].src] :
                    /\ k \in rcvd[r][list[j].src] \/ (list[j].src = s /\ k = i)
                    /\ sent[list[j].src][k] = list[j]
        /\ \A j, k \in DOMAIN list : list[j].src = list[k].src => j = k
    <3>1. VoteList(r, s, i, list)
      BY <1>1, <1>3, <2>0, OneMoreVote
    <3>2. voteMsgs[r] \in Seq(CMsg)
      BY DEF TypeOK
    <3>3. Len(list) = Len(voteMsgs[r]) + 1
      BY <2>0, <3>2
    <3> QED  BY <3>1, <3>3 DEF VoteList
  <2>2. PICK p \in Sent(r) : /\ p.type = "GENERIC" /\ p.view = view[r]
                             /\ curRound[r] = SignedContent(p.view, p.nodes)
    BY <1>3 DEF Inv, LeaderInv
  <2>3. ASSUME NEW j \in DOMAIN list
        PROVE  list[j] \in Said("GENERIC_VOTE") /\ list[j].nodes = p.nodes
    <3>1. list[j] \in Sent(list[j].src) /\ list[j].src \in Server
      BY <2>1 DEF Sent
    <3>2. list[j] \in Said("GENERIC_VOTE")
      BY <2>1, <3>1 DEF Said
    <3>3. VoteInv(list[j].src)
      BY <3>1 DEF Inv
    <3>4. PICK g \in Said("GENERIC") : g.view = list[j].view /\ g.nodes = list[j].nodes
      BY <2>1, <3>1, <3>3 DEF VoteInv
    <3>5. p \in Said("GENERIC")
      BY <2>2, SaidSent
    <3>6. p = g
      BY <2>1, <2>2, <3>4, <3>5, OneProposal
    <3> QED  BY <3>2, <3>4, <3>6
  <2>4. Len(list) \in Nat /\ Len(voteMsgs[r]) \in Nat /\ Len(voteMsgs[r]) < QuorumSize
        /\ DOMAIN list = 1 .. Len(list) /\ view[r] \in Nat
    BY <1>3, <2>1 DEF Inv, LeaderInv, TypeOK
  <2>5. Len(list) >= QuorumSize => CombineSign(r, list)
    <3> SUFFICES ASSUME Len(list) >= QuorumSize, NEW j \in 1 .. QuorumSize
                 PROVE  SignedContent(list[j].view, list[j].nodes) = curRound[r]
      BY DEF CombineSign
    <3>1. j \in DOMAIN list
      BY <2>4, QuorumType
    <3>2. list[j].view = p.view /\ list[j].nodes = p.nodes
      BY <2>1, <2>2, <2>3, <3>1
    <3> QED  BY <2>2, <3>2
  <2>6. voteMsgs'[r] = list
    BY <1>1, <1>3, <2>0 DEF TypeOK
  <2>7. CASE Len(list) < QuorumSize
    <3>1. UNCHANGED <<phase, view, genericQC, sent>>
      BY <1>1, <2>0, <2>4, <2>7, QuorumType
    <3>2. Grows
      BY <3>1 DEF Grows, TypeOK
    <3>3. \A q \in Server : RcvdGrows(q)
      BY <1>0, <3>2
    <3>4. NewIndex(r) = {}
      BY <3>1 DEF NewIndex
    <3>5. Local(r)
      BY <1>1, <3>1, <3>2, <3>3 DEF Local, TypeOK
    <3>6. ProposalInv(r)'
      BY <2>4, <3>1, <3>2, <3>4, ProposalsKept
    <3>7. VoteInv(r)'
      <4>1. rcvd[r][r] \subseteq rcvd'[r][r]
        BY <3>3 DEF TypeOK, RcvdGrows
      <4>2. view'[r] >= view[r]
        BY <2>4, <3>1
      <4> QED  BY <3>2, <3>4, <4>1, <4>2, VotesKept
    <3>8. CertInv(r)'
      BY <1>1, <3>1, <3>2, <3>4, CertsKept DEF Inv, CertInv
    <3>9. PipelineInv(r)'
      BY <1>1, <3>2, <3>4, PipelineSaid, PipelinesKept
    <3>10. LeaderInv(r)'
      <4>1. \A x \in Server : rcvd'[r][x] \subseteq DOMAIN sent'[x]
        BY <3>3 DEF RcvdGrows
      <4>2. phase'[r] = "HALF_GENERIC" /\ r = Leader(view'[r]) /\ Len(voteMsgs'[r]) < QuorumSize
        BY <1>3, <2>6, <2>7, <3>1 DEF Inv, LeaderInv
      <4>3. \E g \in Sent(r)' : /\ g.type = "GENERIC" /\ g.view = view'[r]
                                /\ curRound'[r] = SignedContent(g.view, g.nodes)
        BY <1>1, <2>2, <3>1 DEF Sent
      <4>4. ASSUME NEW j \in DOMAIN list
            PROVE  /\ list[j].type = "GENERIC_VOTE" /\ list[j].view = view'[r]
                   /\ \E k \in DOMAIN sent'[list[j].src] :
                         k \in rcvd'[r][list[j].src] /\ sent'[list[j].src][k] = list[j]
        <5>1. list[j].type = "GENERIC_VOTE" /\ list[j].view = view[r] /\ list[j].src \in Server
          BY <2>1
        <5>2. PICK k \in DOMAIN sent[list[j].src] :
                 /\ k \in rcvd[r][list[j].src] \/ (list[j].src = s /\ k = i)
                 /\ sent[list[j].src][k] = list[j]
          BY <2>1
        <5>3. i \in rcvd'[r][s]
          <6>1. rcvd[r] \in [Server -> SUBSET Nat] /\ rcvd'[r] = [rcvd[r] EXCEPT ![s] = @ \cup {i}]
            BY DEF TypeOK
          <6> QED  BY <6>1
        <5>4. /\ k \in Nat
              /\ rcvd[r][list[j].src] \in SUBSET Nat /\ rcvd'[r][list[j].src] \in SUBSET Nat
          <6>1. sent[list[j].src] \in Seq(CMsg) /\ rcvd[r] \in [Server -> SUBSET Nat]
                /\ rcvd'[r] \in [Server -> SUBSET Nat]
            BY <5>1 DEF TypeOK
          <6> QED  BY <5>1, <5>2, <6>1
        <5>5. rcvd[r][list[j].src] \subseteq rcvd'[r][list[j].src]
          BY <3>3, <5>1 DEF RcvdGrows
        <5>6. k \in rcvd'[r][list[j].src]
          BY <5>2, <5>3, <5>4, <5>5
        <5> QED  BY <3>1, <5>1, <5>2, <5>6
      <4> QED  BY <2>1, <2>6, <4>1, <4>2, <4>3, <4>4 DEF LeaderInv
    <3>11. StoredAt(r)'
      BY <1>1, <3>2, StoreKept
    <3> QED  BY <3>5, <3>6, <3>7, <3>8, <3>9, <3>10, <3>11, LocalStep DEF NodeInv
  <2>8. CASE Len(list) >= QuorumSize
    <3>1. enough
      BY <1>3, <2>0, <2>5, <2>8
    <3>2. /\ phase' = [phase EXCEPT ![r] = "NEW_VIEW"]
          /\ view' = [view EXCEPT ![r] = view[r] + 1]
          /\ genericQC' = [genericQC EXCEPT ![r] = qc]
          /\ Send(r, <<nv>>)
      BY <1>1, <3>1
    <3>3. Certified(m.view, m.nodes[1])
      <4>1. Len(list) \in DOMAIN list /\ list[Len(list)] = m
        <5>1. voteMsgs[r] \in Seq(CMsg)
          BY DEF TypeOK
        <5>2. list[Len(voteMsgs[r]) + 1] = m
          BY <2>0, <5>1
        <5> QED  BY <2>1, <2>4, <2>8, <5>2, QuorumType
      <4>2. m.nodes = p.nodes
        BY <2>3, <4>1
      <4>3. \A j \in DOMAIN list : /\ list[j] \in Said("GENERIC_VOTE") /\ list[j].view = m.view
                                   /\ list[j].nodes[1] = m.nodes[1]
        BY <1>3, <2>1, <2>3, <4>2
      <4> QED  BY <2>1, <2>8, <4>3, VotersOfList
    <3>4. Backed(qc) /\ qc \in ChainedQC
      BY <3>3 DEF Backed, CMsg, ChainedQC
    <3>5. nv \in CMsg /\ nv.type = "NEW_VIEW" /\ nv.src = r /\ nv.justify = qc
      <4>1. hsNodes[r] \in Four(HsNode)
        BY DEF TypeOK
      <4>2. nv \in CMsg
        BY <3>4, <4>1, NextViewType
      <4> QED  BY <4>2 DEF MkMsg
    <3> HIDE DEF nv, qc, enough, votes
    <3>6. <<nv>> \in Seq(CMsg) /\ Len(<<nv>>) = 1 /\ <<nv>>[1] = nv
      BY <3>5
    <3>7. /\ Grows /\ \A q \in Server : q # r => sent'[q] = sent[q]
          /\ \A k \in NewIndex(r) : sent'[r][k] = nv
      <4>1. /\ Grows /\ \A q \in Server : q # r => sent'[q] = sent[q]
            /\ \A k \in DOMAIN sent'[r] \ DOMAIN sent[r] :
                  k - Len(sent[r]) \in 1 .. 1 /\ sent'[r][k] = <<nv>>[k - Len(sent[r])]
        BY <3>2, <3>6, SendAdds, ZenonT(60)
      <4> QED  BY <3>6, <4>1 DEF NewIndex
    <3>8. /\ phase'[r] = "NEW_VIEW" /\ view'[r] = view[r] + 1 /\ genericQC'[r] = qc
      BY <3>2 DEF TypeOK
    <3>9. \A q \in Server : RcvdGrows(q)
      BY <1>0, <3>7
    <3>10. ProposalInv(r)'
      <4>1. \A k \in NewIndex(r) : sent'[r][k].type # "GENERIC"
        BY <3>5, <3>7
      <4>2. view'[r] >= view[r] /\ view'[r] # view[r]
        BY <2>4, <3>8
      <4> QED  BY <3>7, <4>1, <4>2, ProposalsKept
    <3>11. VoteInv(r)'
      <4>1. \A k \in NewIndex(r) : sent'[r][k].type # "GENERIC_VOTE"
        BY <3>5, <3>7
      <4>2. rcvd[r][r] \subseteq rcvd'[r][r]
        BY <3>9 DEF TypeOK, RcvdGrows
      <4>3. view'[r] >= view[r]
        BY <2>4, <3>8
      <4> QED  BY <3>7, <4>1, <4>2, <4>3, VotesKept
    <3>12. CertInv(r)'
      <4>1. \A j \in DOMAIN newViewMsgs[r] : Backed(newViewMsgs[r][j].justify)
        BY DEF Inv, CertInv
      <4> QED  BY <1>1, <3>4, <3>5, <3>7, <3>8, <4>1, CertsKept
    <3>13. PipelineInv(r)'
      <4>1. \A k \in NewIndex(r) : sent'[r][k].type # "GENERIC"
        BY <3>5, <3>7
      <4> QED  BY <1>1, <3>7, <4>1, PipelineSaid, PipelinesKept
    <3>14. LeaderInv(r)'
      BY <3>8, <3>9, LeaderIdle
    <3>15. StoredAt(r)'
      BY <1>1, <3>7, StoreKept
    <3>16. Local(r)
      BY <1>1, <3>2, <3>7, <3>9 DEF Local, TypeOK
    <3> QED  BY <3>10, <3>11, <3>12, <3>13, <3>14, <3>15, <3>16, LocalStep DEF NodeInv
  <2> QED  BY <2>4, <2>7, <2>8, QuorumType
<1> QED  BY <1>2, <1>3

\* Every step keeps the invariant.
LEMMA InvStep == TypeOK /\ TypeOK' /\ Inv /\ [Next]_vars => Inv'
<1> SUFFICES ASSUME TypeOK, TypeOK', Inv, [Next]_vars PROVE Inv'
  OBVIOUS
<1>1. CASE \E r \in Server, c \in ClientCmds : GenNewReq(r, c)
  BY <1>1, RequestKeeps
<1>2. CASE \E r \in Server : HandleReq(r)
  BY <1>2, RequestKeeps
<1>3. CASE \E r, s \in Server : Receive(r, s)
  <2>1. PICK r \in Server, s \in Server : Receive(r, s)
    BY <1>3
  <2>2. PICK i \in DOMAIN sent[s] :
           /\ i \notin rcvd[r][s] /\ sent[s][i] \in CMsg /\ RouteCMsg(r, sent[s][i])
           /\ rcvd' = [rcvd EXCEPT ![r] = [rcvd[r] EXCEPT ![s] = @ \cup {i}]]
    BY <2>1, Receives
  <2>3. CASE CHandleNewView(r, sent[s][i])
    <3>1. sent[s][i] \in Sent(s)
      BY DEF Sent
    <3>2. Backed(sent[s][i].justify)
      BY <3>1 DEF Inv, CertInv
    <3>3. Grows => \A q \in Server : RcvdGrows(q)
      BY <2>2, RcvdStep
    <3> QED  BY <2>2, <2>3, <3>2, <3>3, NewViewKeeps
  <2>4. CASE CHandleGeneric(r, sent[s][i])
    BY <2>2, <2>4, GenericKeeps
  <2>5. CASE CHandleGenericVote(r, sent[s][i])
    BY <2>2, <2>5, GenericVoteKeeps
  <2> QED  BY <2>2, <2>3, <2>4, <2>5 DEF RouteCMsg
<1>4. CASE \E r \in Server : StartViewChange(r)
  BY <1>4, ViewChangeKeeps
<1>5. CASE UNCHANGED vars
  <2>1. UNCHANGED <<phase, view, hsNodes, blocks, genericQC, curRound, newViewMsgs, voteMsgs,
                    store, sent, rcvd>>
    BY <1>5 DEF vars, chainVars, msgVars, blkVars
  <2>2. Grows => \A q \in Server : RcvdGrows(q)
    BY <2>1, RcvdSame
  <2>3. \A r \in Server : Inv'
    BY <2>1, <2>2, NothingKeeps
  <2>4. 0 \in Server
    BY NAssumption DEF Server
  <2> QED  BY <2>3, <2>4
<1> QED  BY <1>1, <1>2, <1>3, <1>4, <1>5 DEF Next

\* The first round: nothing was sent, and InitLeader has left r_0 its messages.
LEMMA InvInit == Init => Inv
<1> SUFFICES ASSUME Init PROVE Inv
  OBVIOUS
<1>1. \A q \in Server : sent[q] = <<>> /\ Sent(q) = {}
  BY DEF Init, Sent
<1>2. StoredCertified
  BY DEF Init, StoredCertified
<1>3. ASSUME NEW r \in Server
      PROVE  ProposalInv(r) /\ VoteInv(r) /\ CertInv(r) /\ PipelineInv(r) /\ LeaderInv(r)
  <2>1. ProposalInv(r) /\ VoteInv(r)
    BY <1>1 DEF ProposalInv, VoteInv
  <2>2. CertInv(r)
    <3>1. Backed(FirstQC) /\ Backed(InitLeaderQC)
      BY DEF Backed, FirstQC, InitLeaderQC, EmptyNode
    <3>2. \A i \in DOMAIN newViewMsgs[r] : newViewMsgs[r][i].justify = InitLeaderQC
      BY DEF Init, InitLeaderMsgs, MkMsg
    <3>3. genericQC[r] = FirstQC
      BY DEF Init
    <3> QED  BY <1>1, <3>1, <3>2, <3>3 DEF CertInv
  <2>3. PipelineInv(r)
    <3>1. \A k \in 1 .. 4 : hsNodes[r][k] = EmptyNode /\ blocks[r][k] = EmptyBlock
      BY DEF Init, FirstQC
    <3> QED  BY <1>1, <3>1 DEF PipelineInv
  <2>4. LeaderInv(r)
    <3>1. r = 0 => newViewMsgs[r] # <<>>
      <4>1. QuorumSize - 1 \in Nat /\ QuorumSize - 1 > 0
        BY QuorumType
      <4>2. DOMAIN InitLeaderMsgs = 1 .. QuorumSize - 1
        BY DEF InitLeaderMsgs
      <4>3. 1 \in DOMAIN InitLeaderMsgs
        BY <4>1, <4>2
      <4>4. InitLeaderMsgs # <<>>
        BY <4>3
      <4> QED  BY <4>4 DEF Init
    <3>2. phase[r] = "WAITING" => r = 0
      BY DEF Init
    <3>3. phase[r] # "HALF_GENERIC"
      BY DEF Init
    <3>4. \A s \in Server : rcvd[r][s] \subseteq DOMAIN sent[s]
      BY <1>1 DEF Init
    <3> QED  BY <3>1, <3>2, <3>3, <3>4 DEF LeaderInv
  <2> QED  BY <2>1, <2>2, <2>3, <2>4
<1> QED  BY <1>2, <1>3 DEF Inv

----------------------------------------------------------------------------
(* The normal case: one proposal after the other *)

\* What LinearRound says of a node, and what the node has sent, stay.
LinearSame(q) ==
    /\ sent'[q] = sent[q] /\ bs'[q] = bs[q] /\ phase'[q] = phase[q] /\ view'[q] = view[q]
    /\ viewChange'[q] = viewChange[q] /\ newViewMsgs'[q] = newViewMsgs[q]
    /\ lastLeader'[q] = lastLeader[q]

Linear(q) == (\A m \in Sent(q) : LinearMessage(q, m)) /\ LinearRound(q)

LEMMA LinearKept ==
    ASSUME NEW q \in Server, Linear(q), LinearSame(q)
    PROVE  Linear(q)'
<1>1. Sent(q)' = Sent(q)
  BY DEF Sent, LinearSame
<1>2. LinearRound(q)'
  BY DEF Linear, LinearRound, LinearSame, IsLeader
<1> QED  BY <1>1, <1>2 DEF Linear

\* Of messages of which one tells the certificate of the last view, that one is the highest.
LEMMA HighLinear ==
    ASSUME NEW v \in Int, NEW msgs \in Seq(CMsg), LinearList(v, msgs), TellsLast(v, msgs)
    PROVE  /\ msgs # <<>> /\ Genuine(GetHighChainedQC(msgs))
           /\ GetHighChainedQC(msgs).view = v - 1
<1>1. PICK j \in DOMAIN msgs : msgs[j].justify.view = v - 1
  BY DEF TellsLast
<1>2. msgs # <<>>
  BY <1>1
<1>3. PICK i \in DOMAIN msgs :
         /\ GetHighChainedQC(msgs) = msgs[i].justify
         /\ \A k \in DOMAIN msgs : msgs[k].justify.view <= msgs[i].justify.view
  BY <1>2, HighChained
<1>4. Genuine(msgs[i].justify) /\ msgs[i].justify.view < v
  BY DEF LinearList
<1>5. msgs[i].justify.view \in Int
  <2>1. msgs[i] \in CMsg
    OBVIOUS
  <2>2. msgs[i].justify \in ChainedQC
    BY <2>1 DEF CMsg
  <2> QED  BY <2>2 DEF ChainedQC
<1>6. v - 1 <= msgs[i].justify.view
  BY <1>1, <1>3
<1> QED  BY <1>2, <1>3, <1>4, <1>5, <1>6

\* A proposal on such messages has the height of its view, and the certificate of the
\* view before.
LEMMA ProposeLinear ==
    ASSUME TypeOK, TypeOK', NEW r \in Server, NEW c \in Cmd, NEW msgs \in Seq(CMsg),
           Propose(r, c, msgs), phase[r] # "HALF_GENERIC", view' = view,
           viewChange' = [viewChange EXCEPT ![r] = FALSE] \/ viewChange' = viewChange,
           Linear(r), LinearList(view[r], msgs), TellsLast(view[r], msgs)
    PROVE  Grows /\ Linear(r)' /\ \A q \in Server \ {r} : LinearSame(q)
<1> DEFINE p == Proposal(r, c, msgs)
<1>14. p = Proposal(r, c, msgs)
  OBVIOUS
<1> HIDE DEF p
<1>0. view[r] \in Int /\ view[r] \in Nat
  BY DEF TypeOK
<1>1. /\ msgs # <<>> /\ Genuine(GetHighChainedQC(msgs))
      /\ GetHighChainedQC(msgs).view = view[r] - 1
  BY <1>0, HighLinear
<1>2. /\ p \in CMsg /\ p.type = "GENERIC" /\ p.view = view[r]
      /\ p.block = NewBlock(r, c) /\ p.justify = GetHighChainedQC(msgs)
  <2>1. msgs # <<>>
    BY <1>1
  <2>2. /\ p \in CMsg /\ p.type = "GENERIC" /\ p.view = view[r] /\ p.src = r
        /\ p.block = NewBlock(r, c) /\ p.justify = GetHighChainedQC(msgs)
        /\ p.nodes[1] = [cur |-> HashOf(p.block), parent |-> p.justify.nodes[1].cur]
        /\ \A k \in 1 .. 3 : p.nodes[k + 1] = hsNodes[r][k]
    BY <1>14, <2>1, ProposalType, SMTT(60)
  <2> QED  BY <2>2
<1>3. /\ phase' = [phase EXCEPT ![r] = "HALF_GENERIC"]
      /\ bs' = [bs EXCEPT ![r].gen = GeneratedHeight(p.block)]
      /\ newViewMsgs' = [newViewMsgs EXCEPT ![r] = <<>>]
      /\ lastLeader' = [lastLeader EXCEPT ![r] = FALSE]
      /\ Send(r, <<p>>)
  BY <1>1, <1>14, ProposeDoes
<1>4. <<p>> \in Seq(CMsg) /\ Len(<<p>>) = 1 /\ <<p>>[1] = p
  BY <1>2
<1>5. /\ Grows /\ \A q \in Server : q # r => sent'[q] = sent[q]
      /\ \A i \in NewIndex(r) : sent'[r][i] = p
  <2>1. /\ Grows /\ \A q \in Server : q # r => sent'[q] = sent[q]
        /\ \A i \in DOMAIN sent'[r] \ DOMAIN sent[r] :
              i - Len(sent[r]) \in 1 .. 1 /\ sent'[r][i] = <<p>>[i - Len(sent[r])]
    BY <1>3, <1>4, SendAdds
  <2>2. \A i \in NewIndex(r) : i - Len(sent[r]) = 1
    BY <2>1 DEF NewIndex
  <2> QED  BY <1>4, <2>1, <2>2 DEF NewIndex
<1>6. p.block.height = view[r]
  <2>1. bs[r].gen = view[r]
    BY DEF Linear, LinearRound
  <2> QED  BY <1>2, <2>1 DEF NewBlock
<1>7. LinearMessage(r, p)
  BY <1>1, <1>2, <1>6 DEF LinearMessage
<1>8. \A m \in Sent(r)' : LinearMessage(r, m)
  BY <1>5, <1>7, OldOrNew DEF Linear
<1>9. /\ phase'[r] = "HALF_GENERIC" /\ bs'[r].gen = view[r] + 1 /\ newViewMsgs'[r] = <<>>
      /\ lastLeader'[r] = FALSE
  BY <1>3, <1>6 DEF TypeOK, BlkStore, GeneratedHeight
<1>10. viewChange'[r] = FALSE
  BY DEF TypeOK, Linear, LinearRound
<1>11. LinearRound(r)'
  BY <1>0, <1>9, <1>10 DEF LinearRound, LinearList
<1>12. ASSUME NEW q \in Server \ {r} PROVE LinearSame(q)
  <2>1. phase'[q] = phase[q] /\ newViewMsgs'[q] = newViewMsgs[q] /\ lastLeader'[q] = lastLeader[q]
    BY <1>3 DEF TypeOK
  <2>2. bs'[q] = bs[q] /\ sent'[q] = sent[q]
    BY <1>3, <1>5 DEF TypeOK
  <2>3. viewChange'[q] = viewChange[q] /\ view'[q] = view[q]
    BY DEF TypeOK
  <2> QED  BY <2>1, <2>2, <2>3, SMTT(60) DEF LinearSame
<1> QED  BY <1>5, <1>8, <1>11, <1>12 DEF Linear

\* HandleReq proposes on the messages that the waiting leader has; GenNewReq changes none
\* of this.
LEMMA RequestLinear ==
    ASSUME TypeOK, TypeOK', NEW r \in Server, Linear(r),
           HandleReq(r) \/ \E c \in ClientCmds : GenNewReq(r, c)
    PROVE  Grows /\ Linear(r)' /\ \A q \in Server \ {r} : LinearSame(q)
<1> DEFINE proposes == /\ requests[r] # NoCmd /\ IsLeader(r) /\ phase[r] = "WAITING"
                       /\ Len(newViewMsgs[r]) >= QuorumSize \/ view[r] = 0
<1>1. CASE HandleReq(r) /\ proposes
  <2>1. Propose(r, requests[r], newViewMsgs[r]) /\ view' = view /\ viewChange' = viewChange
    BY <1>1 DEF HandleReq
  <2>2. requests[r] \in Cmd /\ newViewMsgs[r] \in Seq(CMsg)
    BY <1>1 DEF TypeOK
  <2>3. LinearList(view[r], newViewMsgs[r]) /\ TellsLast(view[r], newViewMsgs[r])
    BY <1>1 DEF Linear, LinearRound
  <2>4. phase[r] # "HALF_GENERIC"
    BY <1>1
  <2> QED  BY <2>1, <2>2, <2>3, <2>4, ProposeLinear
<1>2. CASE ~(HandleReq(r) /\ proposes)
  <2>1. UNCHANGED <<phase, view, bs, viewChange, newViewMsgs, lastLeader, sent>>
    <3>1. CASE HandleReq(r)
      BY <1>2, <3>1 DEF HandleReq, proposeVars
    <3>2. CASE \E c \in ClientCmds : GenNewReq(r, c)
      BY <3>2 DEF GenNewReq, chainVars, msgVars, blkVars
    <3> QED  BY <3>1, <3>2
  <2>2. \A q \in Server : LinearSame(q)
    BY <2>1 DEF LinearSame
  <2>3. Grows
    BY <2>1 DEF Grows, TypeOK
  <2> QED  BY <2>2, <2>3, LinearKept
<1> QED  BY <1>1, <1>2

\* A new-view message reaches the leader of its view only, and that of the last leader
\* brings the certificate of the last view.
LEMMA NewViewLinear ==
    ASSUME TypeOK, TypeOK', NEW r \in Server, NEW s \in Server, NEW m \in Sent(s), m \in CMsg,
           m.src = s, r \in m.dst, CHandleNewView(r, m), LinearMessage(s, m), Linear(r)
    PROVE  Grows /\ Linear(r)' /\ \A q \in Server \ {r} : LinearSame(q)
<1> DEFINE fits == m.view = view[r]
           msgs == IF fits THEN Append(newViewMsgs[r], m) ELSE newViewMsgs[r]
           last == lastLeader[r] \/ (fits /\ m.src = LastLeader(view[r]))
<1>0. view[r] \in Nat /\ newViewMsgs[r] \in Seq(CMsg) /\ m.type = "NEW_VIEW"
  BY DEF TypeOK, CHandleNewView
<1>1. m.view > 0 /\ m.dst = {Leader(m.view)} /\ Genuine(m.justify) /\ m.justify.view < m.view
      /\ (s = LastLeader(m.view) => m.justify.view = m.view - 1)
  BY <1>0 DEF LinearMessage
<1>2. msgs \in Seq(CMsg) /\ LinearList(view[r], msgs)
      /\ (msgs # newViewMsgs[r] => IsLeader(r))
  <2>1. LinearList(view[r], newViewMsgs[r])
    BY DEF Linear, LinearRound
  <2>2. CASE fits
    <3>1. IsLeader(r)
      BY <1>1, <2>2 DEF IsLeader
    <3>2. ASSUME NEW i \in DOMAIN Append(newViewMsgs[r], m)
          PROVE  LET k == Append(newViewMsgs[r], m)[i]
                 IN  Genuine(k.justify) /\ k.justify.view < view[r]
      <4>1. \/ i \in DOMAIN newViewMsgs[r] /\ Append(newViewMsgs[r], m)[i] = newViewMsgs[r][i]
            \/ Append(newViewMsgs[r], m)[i] = m
        BY <1>0
      <4> QED  BY <1>1, <2>1, <2>2, <4>1 DEF LinearList
    <3> QED  BY <1>0, <2>2, <3>1, <3>2 DEF LinearList
  <2>3. CASE ~fits
    BY <1>0, <2>1, <2>3
  <2> QED  BY <2>2, <2>3
<1>3. last => TellsLast(view[r], msgs)
  <2>1. CASE lastLeader[r]
    <3>1. PICK i \in DOMAIN newViewMsgs[r] : newViewMsgs[r][i].justify.view = view[r] - 1
      BY <2>1 DEF Linear, LinearRound, TellsLast
    <3>2. i \in DOMAIN msgs /\ msgs[i] = newViewMsgs[r][i]
      BY <1>0
    <3> QED  BY <3>1, <3>2 DEF TellsLast
  <2>2. CASE fits /\ m.src = LastLeader(view[r])
    <3>2. m.justify.view = view[r] - 1
      BY <1>1, <2>2
    <3>3. Len(msgs) \in DOMAIN msgs /\ msgs[Len(msgs)] = m
      BY <1>0, <2>2
    <3> QED  BY <3>2, <3>3 DEF TellsLast
  <2> QED  BY <2>1, <2>2
<1>4. ~viewChange[r]
  BY DEF Linear, LinearRound
<1>5. /\ UNCHANGED view
      /\ \/ UNCHANGED <<proposeVars, viewChange>>
         \/ /\ phase[r] = "NEW_VIEW"
            /\ newViewMsgs' = [newViewMsgs EXCEPT ![r] = msgs]
            /\ lastLeader' = [lastLeader EXCEPT ![r] = last]
            /\ UNCHANGED <<phase, bs, sent, viewChange>>
         \/ /\ phase[r] = "NEW_VIEW" /\ IsLeader(r) /\ last
            /\ viewChange' = [viewChange EXCEPT ![r] = FALSE]
            /\ curProposal[r] # NoCmd /\ Propose(r, curProposal[r], msgs)
         \/ /\ phase[r] = "NEW_VIEW" /\ IsLeader(r) /\ last
            /\ viewChange' = [viewChange EXCEPT ![r] = FALSE]
            /\ phase' = [phase EXCEPT ![r] = "WAITING"]
            /\ newViewMsgs' = [newViewMsgs EXCEPT ![r] = msgs]
            /\ lastLeader' = [lastLeader EXCEPT ![r] = FALSE]
            /\ UNCHANGED <<bs, sent>>
  BY <1>4 DEF CHandleNewView
<1> HIDE DEF msgs, last
<1>6. CASE UNCHANGED <<proposeVars, viewChange>>
  <2>1. \A q \in Server : LinearSame(q)
    BY <1>5, <1>6 DEF LinearSame, proposeVars
  <2>2. Grows
    BY <1>6 DEF Grows, TypeOK, proposeVars
  <2> QED  BY <2>1, <2>2, LinearKept
<1>7. CASE /\ phase[r] = "NEW_VIEW"
           /\ newViewMsgs' = [newViewMsgs EXCEPT ![r] = msgs]
           /\ lastLeader' = [lastLeader EXCEPT ![r] = last]
           /\ UNCHANGED <<phase, bs, sent, viewChange>>
  <2>1. newViewMsgs'[r] = msgs /\ lastLeader'[r] = last
    BY <1>7 DEF TypeOK
  <2>2. msgs # <<>> => IsLeader(r)
    BY <1>2 DEF Linear, LinearRound
  <2>3. LinearRound(r)'
    BY <1>2, <1>3, <1>5, <1>7, <2>1, <2>2 DEF Linear, LinearRound, IsLeader
  <2>4. Sent(r)' = Sent(r)
    BY <1>7 DEF Sent
  <2>5. \A q \in Server \ {r} : LinearSame(q)
    BY <1>5, <1>7 DEF LinearSame, TypeOK
  <2>6. Grows
    BY <1>7 DEF Grows, TypeOK
  <2> QED  BY <2>3, <2>4, <2>5, <2>6 DEF Linear
<1>8. CASE /\ phase[r] = "NEW_VIEW" /\ IsLeader(r) /\ last
           /\ viewChange' = [viewChange EXCEPT ![r] = FALSE]
           /\ curProposal[r] # NoCmd /\ Propose(r, curProposal[r], msgs)
  <2>1. curProposal[r] \in Cmd
    BY <1>8 DEF TypeOK
  <2>2. view' = view /\ phase[r] # "HALF_GENERIC"
    BY <1>5, <1>8
  <2> QED  BY <1>2, <1>3, <1>8, <2>1, <2>2, ProposeLinear
<1>9. CASE /\ phase[r] = "NEW_VIEW" /\ IsLeader(r) /\ last
           /\ viewChange' = [viewChange EXCEPT ![r] = FALSE]
           /\ phase' = [phase EXCEPT ![r] = "WAITING"]
           /\ newViewMsgs' = [newViewMsgs EXCEPT ![r] = msgs]
           /\ lastLeader' = [lastLeader EXCEPT ![r] = FALSE]
           /\ UNCHANGED <<bs, sent>>
  <2>1. /\ newViewMsgs'[r] = msgs /\ lastLeader'[r] = FALSE /\ phase'[r] = "WAITING"
        /\ viewChange'[r] = FALSE /\ bs' = bs /\ view' = view
    BY <1>5, <1>9 DEF TypeOK
  <2>2. LinearRound(r)'
    BY <1>2, <1>3, <1>9, <2>1 DEF Linear, LinearRound, IsLeader
  <2>3. Sent(r)' = Sent(r)
    BY <1>9 DEF Sent
  <2>4. \A q \in Server \ {r} : LinearSame(q)
    BY <1>5, <1>9 DEF LinearSame, TypeOK
  <2>5. Grows
    BY <1>9 DEF Grows, TypeOK
  <2> QED  BY <2>2, <2>3, <2>4, <2>5 DEF Linear
<1> QED  BY <1>5, <1>6, <1>7, <1>8, <1>9

\* A replica that takes a proposal is in the next view with one block more, and tells a
\* certificate that is older than that of the leader.
LEMMA GenericLinear ==
    ASSUME TypeOK, TypeOK', Inv, NEW r \in Server, NEW s \in Server, NEW m \in Sent(s), m \in CMsg,
           CHandleGeneric(r, m), LinearMessage(s, m), Linear(r)
    PROVE  Grows /\ Linear(r)' /\ \A q \in Server \ {r} : LinearSame(q)
<1> DEFINE takes == m.view = view[r] /\ CheckNewCHsNode(r, m)
           blks  == IF IsLeader(r) THEN blocks[r] ELSE Shift(m.block, blocks[r])
           done  == StoredBlocks(blks, m.nodes)
           vote  == MkMsg("GENERIC_VOTE", m.view, r, {Leader(view[r])}, m.nodes, FirstQC)
           nv    == MkMsg("NEW_VIEW", view[r] + 1, r, {Leader(view[r] + 1)}, m.nodes, m.justify)
<1>1. m.type = "GENERIC" /\ phase' = phase
  BY DEF CHandleGeneric
<1>2. CASE ~takes
  <2>1. UNCHANGED <<view, newViewMsgs, lastLeader, viewChange, bs, sent>>
    BY <1>2 DEF CHandleGeneric, blkVars
  <2>2. \A q \in Server : LinearSame(q)
    BY <1>1, <2>1 DEF LinearSame
  <2>3. Grows
    BY <2>1 DEF Grows, TypeOK
  <2> QED  BY <2>2, <2>3, LinearKept
<1>3. CASE takes
  <2>0. /\ view[r] \in Nat /\ view \in [Server -> 0 .. MaxView] /\ bs \in [Server -> BlkStore]
        /\ newViewMsgs \in [Server -> Seq(CMsg)] /\ lastLeader \in [Server -> BOOLEAN]
        /\ viewChange \in [Server -> BOOLEAN]
    <3>1. view \in [Server -> 0 .. MaxView]
      BY DEF TypeOK
    <3>2. view[r] \in Nat
      BY <3>1
    <3> QED  BY <3>1, <3>2 DEF TypeOK
  <2>1. /\ viewChange' = [viewChange EXCEPT ![r] = FALSE]
        /\ newViewMsgs' = [newViewMsgs EXCEPT ![r] = <<>>]
        /\ bs' = [bs EXCEPT ![r] =
                     [gen |-> IF IsLeader(r) THEN bs[r].gen ELSE GeneratedHeight(m.block),
                      pre |-> IF done = {} THEN bs[r].pre ELSE HashOf(blks[4])]]
    BY <1>3 DEF CHandleGeneric
  <2>2. \/ IsLeader(r) /\ Send(r, <<vote>>) /\ UNCHANGED <<view, lastLeader>>
        \/ /\ ~IsLeader(r) /\ Send(r, <<vote, nv>>)
           /\ view' = [view EXCEPT ![r] = view[r] + 1]
           /\ lastLeader' = [lastLeader EXCEPT ![r] = lastLeader[r] /\ r # Leader(view[r] + 1)]
    BY <1>3 DEF CHandleGeneric
  <2>3. /\ vote \in CMsg /\ vote.type = "GENERIC_VOTE" /\ Genuine(vote.justify)
        /\ nv \in CMsg /\ nv.type = "NEW_VIEW" /\ nv.view = view[r] + 1
        /\ nv.dst = {Leader(view[r] + 1)} /\ nv.justify = m.justify
    <3>1. /\ m.view \in Nat /\ m.nodes \in Four(HsNode) /\ m.justify \in ChainedQC
          /\ view[r] + 1 \in Nat
      BY <2>0 DEF CMsg
    <3>2. {Leader(view[r])} \in SUBSET Server /\ {Leader(view[r] + 1)} \in SUBSET Server
      BY <2>0, <3>1, LeaderType
    <3>3. vote \in CMsg /\ nv \in CMsg
      BY <3>1, <3>2, ConstantTypes, MkMsgType DEF MsgType
    <3>4. Genuine(FirstQC)
      BY DEF Genuine, FirstQC
    <3> QED  BY <3>3, <3>4 DEF MkMsg
  <2>4. LinearMessage(r, vote)
    BY <2>3 DEF LinearMessage
  <2>5. m.justify.view = view[r] - 1 /\ m.block.height = view[r] /\ Genuine(m.justify)
    BY <1>1, <1>3 DEF LinearMessage
  <2>6. ~IsLeader(r) => LinearMessage(r, nv)
    <3>1. Leader(view[r] + 1 + N - 1) = Leader(view[r])
      <4>1. N \in Nat /\ N > 0
        BY NAssumption
      <4>2. (view[r] + N) % N = view[r] % N
        BY <2>0, <4>1, ModN
      <4>3. view[r] + 1 + N - 1 = view[r] + N
        BY <2>0, <4>1
      <4> QED  BY <4>2, <4>3 DEF Leader
    <3>2. ~IsLeader(r) => r # LastLeader(nv.view)
      BY <2>3, <3>1 DEF IsLeader, LastLeader
    <3>3. nv.view > 0 /\ nv.justify.view < nv.view
      BY <2>0, <2>3, <2>5
    <3> QED  BY <2>3, <2>5, <3>2, <3>3 DEF LinearMessage
  <2> HIDE DEF vote, nv
  <2>7. Grows /\ \A q \in Server : q # r => sent'[q] = sent[q]
    <3>1. <<vote>> \in Seq(CMsg) /\ <<vote, nv>> \in Seq(CMsg)
      BY <2>3
    <3> QED  BY <2>2, <3>1, SendAdds
  <2>8. \A i \in NewIndex(r) : sent'[r][i] = vote \/ (~IsLeader(r) /\ sent'[r][i] = nv)
    <3>1. CASE IsLeader(r)
      <4>1. <<vote>> \in Seq(CMsg) /\ Len(<<vote>>) = 1 /\ <<vote>>[1] = vote
        BY <2>3
      <4>2. \A i \in NewIndex(r) : i - Len(sent[r]) \in 1 .. 1
                                   /\ sent'[r][i] = <<vote>>[i - Len(sent[r])]
        BY <2>2, <3>1, <4>1, SendAdds, ZenonT(60) DEF NewIndex
      <4> QED  BY <4>1, <4>2
    <3>2. CASE ~IsLeader(r)
      <4>1. /\ <<vote, nv>> \in Seq(CMsg) /\ Len(<<vote, nv>>) = 2
            /\ <<vote, nv>>[1] = vote /\ <<vote, nv>>[2] = nv
        BY <2>3
      <4>2. \A i \in NewIndex(r) : i - Len(sent[r]) \in 1 .. 2
                                   /\ sent'[r][i] = <<vote, nv>>[i - Len(sent[r])]
        <5>1. Send(r, <<vote, nv>>)
          BY <2>2, <3>2
        <5>2. \A i \in DOMAIN sent'[r] \ DOMAIN sent[r] :
                 /\ i - Len(sent[r]) \in 1 .. Len(<<vote, nv>>)
                 /\ sent'[r][i] = <<vote, nv>>[i - Len(sent[r])]
          BY <4>1, <5>1, SendAdds
        <5> QED  BY <4>1, <5>2 DEF NewIndex
      <4>3. \A k \in 1 .. 2 : k = 1 \/ k = 2
        OBVIOUS
      <4> QED  BY <3>2, <4>1, <4>2, <4>3
    <3> QED  BY <3>1, <3>2
  <2>9. \A k \in Sent(r)' : LinearMessage(r, k)
    BY <2>4, <2>6, <2>7, <2>8, OldOrNew DEF Linear
  <2>10. newViewMsgs'[r] = <<>> /\ viewChange'[r] = FALSE
    BY <2>0, <2>1
  <2>11. ~lastLeader'[r] /\ phase'[r] # "WAITING"
    <3>1. s = Leader(m.view) /\ (m.view = view[s] => phase[s] = "HALF_GENERIC")
      BY <1>1 DEF Inv, ProposalInv
    <3>2. IsLeader(r) => phase[r] = "HALF_GENERIC"
      BY <1>3, <3>1 DEF IsLeader
    <3>3. lastLeader[r] \/ phase[r] = "WAITING" => newViewMsgs[r] # <<>>
      BY DEF Linear, LinearRound, TellsLast
    <3>4. ~lastLeader[r] /\ phase[r] # "WAITING"
      BY <3>2, <3>3 DEF Linear, LinearRound
    <3> QED  BY <1>1, <2>0, <2>2, <3>4
  <2>12. bs'[r].gen = IF phase'[r] = "HALF_GENERIC" THEN view'[r] + 1 ELSE view'[r]
    <3>1. bs'[r].gen = IF IsLeader(r) THEN bs[r].gen ELSE GeneratedHeight(m.block)
      <4> HIDE DEF blks, done
      <4> QED  BY <2>0, <2>1
    <3>2. CASE IsLeader(r)
      BY <1>1, <2>2, <3>1, <3>2 DEF Linear, LinearRound
    <3>3. CASE ~IsLeader(r)
      <4>1. phase[r] # "HALF_GENERIC"
        BY <3>3 DEF Inv, LeaderInv, IsLeader
      <4>2. view'[r] = view[r] + 1
        BY <2>0, <2>2, <3>3
      <4> QED  BY <1>1, <2>5, <3>1, <3>3, <4>1, <4>2 DEF GeneratedHeight
    <3> QED  BY <3>2, <3>3
  <2>13. LinearRound(r)'
    BY <2>10, <2>11, <2>12 DEF LinearRound, LinearList
  <2>14. ASSUME NEW q \in Server \ {r} PROVE LinearSame(q)
    <3>1. newViewMsgs'[q] = newViewMsgs[q] /\ viewChange'[q] = viewChange[q]
      BY <2>0, <2>1
    <3>2. bs'[q] = bs[q]
      BY <2>0, <2>1
    <3>3. view'[q] = view[q] /\ lastLeader'[q] = lastLeader[q]
      BY <2>0, <2>2
    <3> QED  BY <1>1, <2>7, <3>1, <3>2, <3>3 DEF LinearSame
  <2> QED  BY <2>7, <2>9, <2>13, <2>14 DEF Linear
<1> QED  BY <1>2, <1>3

\* The leader that has its quorum tells the next one the certificate of its view.
LEMMA GenericVoteLinear ==
    ASSUME TypeOK, TypeOK', Inv, NEW r \in Server, NEW s \in Server, NEW m \in Sent(s), m \in CMsg,
           CHandleGenericVote(r, m), Linear(r)
    PROVE  Grows /\ Linear(r)' /\ \A q \in Server \ {r} : LinearSame(q)
<1> DEFINE votes  == IF m.view = view[r] THEN Append(voteMsgs[r], m) ELSE voteMsgs[r]
           enough == /\ phase[r] = "HALF_GENERIC" /\ Len(votes) >= QuorumSize
                     /\ CombineSign(r, votes)
           qc     == [view |-> m.view, nodes |-> m.nodes]
           nv     == MkMsg("NEW_VIEW", view[r] + 1, r, {Leader(view[r] + 1)}, hsNodes[r], qc)
<1>1. /\ m.type = "GENERIC_VOTE"
      /\ \/ ~enough /\ UNCHANGED <<phase, view, sent>>
         \/ /\ enough /\ phase' = [phase EXCEPT ![r] = "NEW_VIEW"]
            /\ view' = [view EXCEPT ![r] = view[r] + 1]
            /\ Send(r, <<nv>>)
      /\ UNCHANGED <<newViewMsgs, lastLeader, viewChange, bs>>
  BY DEF CHandleGenericVote, blkVars
<1>2. CASE ~enough /\ UNCHANGED <<phase, view, sent>>
  <2>1. \A q \in Server : LinearSame(q)
    BY <1>1, <1>2 DEF LinearSame
  <2>2. Grows
    BY <1>2 DEF Grows, TypeOK
  <2> QED  BY <2>1, <2>2, LinearKept
<1>3. CASE /\ enough /\ phase' = [phase EXCEPT ![r] = "NEW_VIEW"]
           /\ view' = [view EXCEPT ![r] = view[r] + 1]
           /\ Send(r, <<nv>>)
  <2>0. view[r] \in Nat /\ view \in [Server -> 0 .. MaxView] /\ phase \in [Server -> Phase]
        /\ hsNodes[r] \in Four(HsNode)
    <3>1. /\ view \in [Server -> 0 .. MaxView] /\ phase \in [Server -> Phase]
          /\ hsNodes \in [Server -> Four(HsNode)]
      BY ZenonT(60) DEF TypeOK
    <3>2. view[r] \in 0 .. MaxView /\ hsNodes[r] \in Four(HsNode)
      BY <3>1, ZenonT(60)
    <3> QED  BY <3>1, <3>2, SMTT(30)
  <2>1. m.view = view[r]
    BY <1>3, QuorumType DEF Inv, LeaderInv, TypeOK
  <2>2. Genuine(qc) /\ qc \in ChainedQC /\ qc.view = view[r]
    <3>1. PICK p \in Said("GENERIC") : p.view = m.view /\ p.nodes = m.nodes
      BY <1>1 DEF Inv, VoteInv
    <3>2. PICK q \in Server : p \in Sent(q) /\ p.type = "GENERIC"
      BY SaidSent
    <3>3. p.block.view = p.view /\ p.nodes[1].cur = HashOf(p.block)
      <4>1. /\ p.block.view = p.view
            /\ p.nodes[1] = [cur |-> HashOf(p.block), parent |-> p.justify.nodes[1].cur]
        BY <3>2 DEF Inv, ProposalInv
      <4> QED  BY <4>1
    <3>4. m.nodes[1].cur.view = view[r]
      <4>1. p.view % 256 = p.view
        BY <3>1, ProposalByte
      <4> QED  BY <2>1, <3>1, <3>3, <4>1 DEF HashOf
    <3>5. m.nodes[1].cur # EmptyHash
      BY <2>0, <3>4 DEF EmptyHash
    <3>6. qc \in ChainedQC
      BY DEF ChainedQC, CMsg
    <3> QED  BY <2>1, <3>5, <3>6 DEF Genuine
  <2> HIDE DEF qc
  <2>3. /\ nv \in CMsg /\ nv.type = "NEW_VIEW" /\ nv.view = view[r] + 1
        /\ nv.dst = {Leader(view[r] + 1)} /\ nv.justify = qc
    <3>1. view[r] + 1 \in Nat /\ {Leader(view[r] + 1)} \in SUBSET Server
      BY <2>0, LeaderType
    <3>2. nv \in CMsg
      BY <2>0, <2>2, <3>1, MkMsgType DEF MsgType
    <3> QED  BY <3>2 DEF MkMsg
  <2> HIDE DEF nv
  <2>4. LinearMessage(r, nv)
    BY <2>0, <2>2, <2>3 DEF LinearMessage
  <2>5. <<nv>> \in Seq(CMsg) /\ Len(<<nv>>) = 1 /\ <<nv>>[1] = nv
    BY <2>3
  <2>6. /\ Grows /\ \A q \in Server : q # r => sent'[q] = sent[q]
        /\ \A i \in NewIndex(r) : sent'[r][i] = nv
    <3>1. /\ Grows /\ \A q \in Server : q # r => sent'[q] = sent[q]
          /\ \A i \in DOMAIN sent'[r] \ DOMAIN sent[r] :
                i - Len(sent[r]) \in 1 .. 1 /\ sent'[r][i] = <<nv>>[i - Len(sent[r])]
      <4>1. Send(r, <<nv>>)
        BY <1>3, ZenonT(60)
      <4>2. Len(<<nv>>) = 1 /\ <<nv>> \in Seq(CMsg)
        BY <2>5, ZenonT(60)
      <4> QED  BY <4>1, <4>2, SendAdds, ZenonT(60)
    <3>2. \A i \in NewIndex(r) : i - Len(sent[r]) = 1
      BY <3>1 DEF NewIndex
    <3>3. ASSUME NEW i \in NewIndex(r)  PROVE sent'[r][i] = nv
      <4>1. sent'[r][i] = <<nv>>[i - Len(sent[r])] /\ i - Len(sent[r]) = 1
        BY <3>1, <3>2, ZenonT(60) DEF NewIndex
      <4> QED  BY <2>5, <4>1, ZenonT(60)
    <3> QED  BY <3>1, <3>3, ZenonT(60)
  <2>7. \A k \in Sent(r)' : LinearMessage(r, k)
    BY <2>4, <2>6, OldOrNew DEF Linear
  <2>8. view'[r] = view[r] + 1 /\ phase'[r] = "NEW_VIEW"
    BY <1>3, <2>0
  <2>9. newViewMsgs[r] = <<>> /\ ~lastLeader[r] /\ bs[r].gen = view[r] + 1 /\ ~viewChange[r]
    BY <1>3 DEF Linear, LinearRound, TellsLast
  <2>10. LinearRound(r)'
    BY <1>1, <2>8, <2>9 DEF LinearRound, LinearList
  <2>11. \A q \in Server \ {r} : LinearSame(q)
    BY <1>1, <1>3, <2>0, <2>6 DEF LinearSame
  <2> QED  BY <2>6, <2>7, <2>10, <2>11 DEF Linear
<1> QED  BY <1>1, <1>2, <1>3

LEMMA LinearInit == Init => LinearInv
<1> SUFFICES ASSUME Init, NEW r \in Server PROVE Linear(r)
  BY DEF LinearInv, Linear
<1>1. Sent(r) = {}
  BY DEF Init, Sent
<1>2. bs[r].gen = 0 /\ view[r] = 0 /\ viewChange[r] = FALSE /\ lastLeader[r] = FALSE
  BY DEF Init
<1>3. phase[r] # "HALF_GENERIC" /\ (phase[r] = "WAITING" => r = 0)
  BY DEF Init
<1>4. newViewMsgs[r] = IF r = 0 THEN InitLeaderMsgs ELSE <<>>
  BY DEF Init
<1>5. /\ QuorumSize - 1 \in Nat /\ QuorumSize - 1 > 0
      /\ DOMAIN InitLeaderMsgs = 1 .. QuorumSize - 1
      /\ \A i \in DOMAIN InitLeaderMsgs : InitLeaderMsgs[i].justify = InitLeaderQC
  BY QuorumType DEF InitLeaderMsgs, MkMsg
<1>6. Genuine(InitLeaderQC) /\ InitLeaderQC.view = -1
  BY DEF Genuine, InitLeaderQC
<1>7. LinearList(0, newViewMsgs[r])
  BY <1>4, <1>5, <1>6 DEF LinearList
<1>8. r = 0 => TellsLast(0, newViewMsgs[r])
  <2>1. 1 \in DOMAIN InitLeaderMsgs
    BY <1>5
  <2> QED  BY <1>4, <1>5, <1>6, <2>1 DEF TellsLast
<1>9. r = 0 => IsLeader(r)
  <2>1. 0 % N = 0
    BY NAssumption
  <2> QED  BY <1>2, <2>1 DEF IsLeader, Leader
<1>10. LinearRound(r)
  BY <1>2, <1>3, <1>4, <1>7, <1>8, <1>9 DEF LinearRound
<1> QED  BY <1>1, <1>10 DEF Linear

\* What a step of r does to the block files
Files(r) ==
    /\ \A q \in Server \ {r} : store'[q] = store[q]
    /\ \/ /\ DOMAIN store'[r] = DOMAIN store[r]
          /\ \A h \in DOMAIN store[r] : store'[r][h] = store[r][h]
       \/ \E b \in Block : store'[r] = WriteBlocks(store[r], {b})

\* WriteBlocks adds one file, named after the height of its block.
LEMMA WriteOne ==
    ASSUME NEW files, NEW b
    PROVE  /\ DOMAIN WriteBlocks(files, {b}) = DOMAIN files \cup {b.height}
           /\ \A h \in DOMAIN files \cup {b.height} :
                 WriteBlocks(files, {b})[h] = IF b.height = h THEN b ELSE files[h]
<1>1. \A h : (\E x \in {b} : x.height = h) <=> b.height = h
  OBVIOUS
<1>2. \A h : b.height = h => (CHOOSE x \in {b} : x.height = h) = b
  OBVIOUS
<1>3. {x.height : x \in {b}} = {b.height}
  OBVIOUS
<1> QED  BY <1>1, <1>2, <1>3 DEF WriteBlocks

LEMMA FilesStep ==
    ASSUME TypeOK, FilesNumbered, NEW r \in Server, Files(r)
    PROVE  FilesNumbered' /\ DOMAIN store[r] \subseteq DOMAIN store'[r]
<1>1. CASE /\ DOMAIN store'[r] = DOMAIN store[r]
           /\ \A h \in DOMAIN store[r] : store'[r][h] = store[r][h]
  BY <1>1 DEF FilesNumbered, Files
<1>2. CASE \E b \in Block : store'[r] = WriteBlocks(store[r], {b})
  <2>1. PICK b \in Block : store'[r] = WriteBlocks(store[r], {b})
    BY <1>2
  <2> DEFINE files == store[r]
  <2>a. /\ DOMAIN WriteBlocks(files, {b}) = DOMAIN files \cup {b.height}
        /\ \A h \in DOMAIN files \cup {b.height} :
              WriteBlocks(files, {b})[h] = IF b.height = h THEN b ELSE files[h]
    <3> HIDE DEF files
    <3> QED  BY WriteOne
  <2>2. /\ DOMAIN store'[r] = DOMAIN store[r] \cup {b.height}
        /\ \A h \in DOMAIN store[r] \cup {b.height} :
              store'[r][h] = IF b.height = h THEN b ELSE store[r][h]
    BY <2>1, <2>a
  <2> HIDE DEF files
  <2>3. IsFiniteSet(DOMAIN store'[r])
    <3>1. IsFiniteSet(DOMAIN store[r])
      BY DEF FilesNumbered
    <3> QED  BY <2>2, <3>1, FS_AddElement
  <2>4. \A h \in DOMAIN store'[r] : store'[r][h].height = h
    BY <2>2 DEF FilesNumbered
  <2>5. \A q \in Server \ {r} : store'[q] = store[q]
    BY DEF Files
  <2> QED  BY <2>2, <2>3, <2>4, <2>5 DEF FilesNumbered
<1> QED  BY <1>1, <1>2 DEF Files

\* CHandleGeneric writes at most one block.
LEMMA GenericFiles ==
    ASSUME TypeOK, NEW r \in Server, NEW m \in CMsg, CHandleGeneric(r, m)
    PROVE  Files(r)
<1> DEFINE takes == m.view = view[r] /\ CheckNewCHsNode(r, m)
           blks  == IF IsLeader(r) THEN blocks[r] ELSE Shift(m.block, blocks[r])
           done  == StoredBlocks(blks, m.nodes)
<1>1. CASE ~takes
  <2>1. store' = store
    BY <1>1 DEF CHandleGeneric, blkVars
  <2> QED  BY <2>1 DEF Files
<1>2. CASE takes
  <2>1. store' = [store EXCEPT ![r] = WriteBlocks(store[r], done)]
    BY <1>2 DEF CHandleGeneric
  <2>2. blks \in Four(Block)
    <3>1. m.block \in Block /\ blocks[r] \in Four(Block)
      BY DEF CMsg, TypeOK
    <3> QED  BY <3>1, ShiftType
  <2> HIDE DEF blks
  <2>3. done = {} \/ done = {blks[4]}
    BY DEF StoredBlocks
  <2> HIDE DEF done
  <2>4. blks[4] \in Block
    BY <2>2 DEF Four
  <2>5. /\ store'[r] = WriteBlocks(store[r], done)
        /\ \A q \in Server \ {r} : store'[q] = store[q]
    BY <2>1 DEF TypeOK
  <2>6. CASE done = {}
    <3>1. WriteBlocks(store[r], {}) = [h \in DOMAIN store[r] |-> store[r][h]]
      BY DEF WriteBlocks
    <3>2. /\ DOMAIN store'[r] = DOMAIN store[r]
          /\ \A h \in DOMAIN store[r] : store'[r][h] = store[r][h]
      BY <2>5, <2>6, <3>1
    <3> QED  BY <2>5, <3>2 DEF Files
  <2>7. CASE done = {blks[4]}
    BY <2>4, <2>5, <2>7 DEF Files
  <2> QED  BY <2>3, <2>6, <2>7
<1> QED  BY <1>1, <1>2

\* A step is one of one node, which takes nothing back.
LEMMA NormalStep ==
    ASSUME TypeOK, TypeOK', Inv, LinearInv, Next, NormalCase'
    PROVE  \E r \in Server :
              /\ Grows /\ Linear(r)' /\ Files(r)
              /\ \A q \in Server : Linear(q)
              /\ \A q \in Server \ {r} : LinearSame(q)
<1>0. timeouts \in Nat /\ timeouts' = 0
  BY DEF TypeOK, NormalCase
<1>1. CASE \E r \in Server : HandleReq(r) \/ \E c \in ClientCmds : GenNewReq(r, c)
  <2>1. PICK r \in Server : HandleReq(r) \/ \E c \in ClientCmds : GenNewReq(r, c)
    BY <1>1
  <2>2. timeouts' = timeouts /\ store' = store
    BY <2>1 DEF HandleReq, GenNewReq, blkVars
  <2>3. \A q \in Server : Linear(q)
    BY <1>0, <2>2 DEF LinearInv, NormalCase, Linear
  <2>4. Grows /\ Linear(r)' /\ \A q \in Server \ {r} : LinearSame(q)
    BY <2>1, <2>3, RequestLinear
  <2>5. Files(r)
    BY <2>2 DEF Files
  <2> QED  BY <2>3, <2>4, <2>5
<1>2. CASE \E r, s \in Server : Receive(r, s)
  <2>1. PICK r \in Server, s \in Server : Receive(r, s)
    BY <1>2
  <2>2. PICK i \in DOMAIN sent[s] :
           r \in sent[s][i].dst /\ sent[s][i] \in CMsg /\ RouteCMsg(r, sent[s][i])
    BY <2>1, Receives
  <2>3. timeouts' = timeouts
    BY <2>2 DEF RouteCMsg, CHandleNewView, CHandleGeneric, CHandleGenericVote
  <2>4. \A q \in Server : Linear(q)
    BY <1>0, <2>3 DEF LinearInv, NormalCase, Linear
  <2>5. sent[s][i] \in Sent(s)
    BY DEF Sent
  <2>6. LinearMessage(s, sent[s][i]) /\ sent[s][i].src = s
    BY <2>4, <2>5 DEF Linear, Inv, CertInv
  <2>7. Grows /\ Linear(r)' /\ \A q \in Server \ {r} : LinearSame(q)
    <3>1. CASE CHandleNewView(r, sent[s][i])
      BY <2>2, <2>4, <2>5, <2>6, <3>1, NewViewLinear
    <3>2. CASE CHandleGeneric(r, sent[s][i])
      BY <2>2, <2>4, <2>5, <2>6, <3>2, GenericLinear
    <3>3. CASE CHandleGenericVote(r, sent[s][i])
      BY <2>2, <2>4, <2>5, <3>3, GenericVoteLinear
    <3> QED  BY <2>2, <3>1, <3>2, <3>3 DEF RouteCMsg
  <2>8. Files(r)
    <3>1. CASE CHandleNewView(r, sent[s][i])
      BY <3>1 DEF CHandleNewView, Files
    <3>2. CASE CHandleGeneric(r, sent[s][i])
      BY <2>2, <3>2, GenericFiles
    <3>3. CASE CHandleGenericVote(r, sent[s][i])
      BY <3>3 DEF CHandleGenericVote, blkVars, Files
    <3> QED  BY <2>2, <3>1, <3>2, <3>3 DEF RouteCMsg
  <2> QED  BY <2>4, <2>7, <2>8
<1>3. CASE \E r \in Server : StartViewChange(r)
  BY <1>0, <1>3 DEF StartViewChange
<1> QED  BY <1>1, <1>2, <1>3 DEF Next

\* The invariant of the normal case, with the files, which only need the types
NormalInv == LinearInv /\ (NormalCase => FilesNumbered)

LEMMA NormalInvStep == TypeOK /\ TypeOK' /\ Inv /\ NormalInv /\ [Next]_vars => NormalInv'
<1> SUFFICES ASSUME TypeOK, TypeOK', Inv, NormalInv, [Next]_vars, NormalCase'
             PROVE  FilesNumbered' /\ \A q \in Server : Linear(q)'
  BY DEF LinearInv, Linear, NormalInv
<1>1. CASE Next
  <2>1. PICK r \in Server : /\ Linear(r)' /\ Files(r)
                            /\ \A q \in Server : Linear(q)
                            /\ \A q \in Server \ {r} : LinearSame(q)
    BY <1>1, NormalStep DEF NormalInv
  <2>2. \A q \in Server : Linear(q)'
    BY <2>1, LinearKept
  <2>3. NormalCase
    <3>1. timeouts \in Nat /\ timeouts' = 0
      BY DEF TypeOK, NormalCase
    <3>2. timeouts' = timeouts \/ timeouts' = timeouts + 1
      <4>1. CASE \E q \in Server : HandleReq(q) \/ \E c \in ClientCmds : GenNewReq(q, c)
        BY <4>1 DEF HandleReq, GenNewReq
      <4>2. CASE \E q, s \in Server : Receive(q, s)
        <5>1. PICK q \in Server, s \in Server : Receive(q, s)
          BY <4>2
        <5>2. \E i \in DOMAIN sent[s] : RouteCMsg(q, sent[s][i])
          BY <5>1, Receives
        <5> QED  BY <5>2 DEF RouteCMsg, CHandleNewView, CHandleGeneric, CHandleGenericVote
      <4>3. CASE \E q \in Server : StartViewChange(q)
        BY <4>3 DEF StartViewChange
      <4> QED  BY <1>1, <4>1, <4>2, <4>3 DEF Next
    <3> QED  BY <3>1, <3>2 DEF NormalCase
  <2>4. FilesNumbered'
    BY <2>1, <2>3, FilesStep DEF NormalInv
  <2> QED  BY <2>2, <2>4
<1>2. CASE UNCHANGED vars
  <2>1. /\ timeouts' = timeouts /\ store' = store
        /\ UNCHANGED <<phase, view, bs, viewChange, newViewMsgs, lastLeader, sent>>
    BY <1>2 DEF vars, msgVars, blkVars
  <2>2. NormalCase
    BY <2>1 DEF NormalCase
  <2>3. \A q \in Server : Linear(q) /\ LinearSame(q)
    BY <2>1, <2>2 DEF NormalInv, LinearInv, Linear, LinearSame
  <2>4. FilesNumbered'
    BY <2>1, <2>2 DEF NormalInv, FilesNumbered
  <2> QED  BY <2>3, <2>4, LinearKept
<1> QED  BY <1>1, <1>2

----------------------------------------------------------------------------
(* The chain of the normal case *)

\* Proposals, one in a view, each of the height of its view and on the one before
Row(P) ==
    \A p \in P :
        /\ p.view \in Nat /\ p.block \in Block /\ p.block.height = p.view
        /\ \/ p.view = 0 /\ p.nodes[1].parent = EmptyHash
           \/ \E q \in P : q.view = p.view - 1 /\ p.nodes[1].parent = HashOf(q.block)
        /\ \A q \in P : q.view = p.view \/ q.block = p.block => q = p

\* Files with the blocks of P, by height
Filed(P, f) ==
    IsFiniteSet(DOMAIN f) /\ \A h \in DOMAIN f : \E p \in P : p.view = h /\ p.block = f[h]

Ordered == Row(Said("GENERIC")) /\ \A r \in Server : Filed(Said("GENERIC"), store[r])

\* The parent of a proposal is the proposal of the view before.
LEMMA ProposedOn ==
    ASSUME TypeOK, Inv, NormalCase, LinearInv, NEW p \in Said("GENERIC")
    PROVE  /\ p.view \in Nat /\ p.block \in Block /\ p.block.height = p.view
           /\ p.block.view = p.view
           /\ \/ p.view = 0 /\ p.nodes[1].parent = EmptyHash
              \/ \E q \in Said("GENERIC") :
                    q.view = p.view - 1 /\ p.nodes[1].parent = HashOf(q.block)
<1>1. ASSUME NEW x \in Said("GENERIC")
      PROVE  /\ x.view \in Nat /\ x.block \in Block /\ x.block.height = x.view
             /\ x.block.view = x.view /\ x.justify.view = x.view - 1
             /\ Genuine(x.justify) /\ Backed(x.justify)
             /\ x.nodes[1].cur = HashOf(x.block)
             /\ x.nodes[1].parent = x.justify.nodes[1].cur
  <2>1. PICK s \in Server : x \in Sent(s) /\ x.type = "GENERIC"
    BY SaidSent
  <2>2. x.block.view = x.view
        /\ x.nodes[1] = [cur |-> HashOf(x.block), parent |-> x.justify.nodes[1].cur]
    BY <2>1 DEF Inv, ProposalInv
  <2>3. Backed(x.justify)
    BY <2>1 DEF Inv, CertInv
  <2>4. Genuine(x.justify) /\ x.justify.view = x.view - 1 /\ x.block.height = x.view
    BY <2>1 DEF LinearInv, LinearMessage
  <2>5. x \in CMsg
    BY <2>1 DEF TypeOK, Sent
  <2>6. x.block \in Block /\ x.block.height \in Nat
    BY <2>5 DEF CMsg, Block
  <2> QED  BY <2>2, <2>3, <2>4, <2>6
<1>2. CASE p.justify.nodes[1].cur = EmptyHash
  <2>1. p.justify.view = -1
    BY <1>1, <1>2 DEF Genuine
  <2>2. p.view = 0
    BY <1>1, <2>1
  <2> QED  BY <1>1, <1>2, <2>2
<1>3. CASE Certified(p.justify.view, p.justify.nodes[1])
  <2>1. Voters(p.justify.view, p.justify.nodes[1]) # {}
    BY <1>3, QuorumType, FS_EmptySet DEF Certified
  <2>2. PICK k \in Said("GENERIC_VOTE") :
           k.view = p.justify.view /\ k.nodes[1] = p.justify.nodes[1]
    BY <2>1 DEF Voters
  <2>3. PICK s \in Server : k \in Sent(s) /\ k.type = "GENERIC_VOTE"
    BY <2>2, SaidSent
  <2>4. PICK q \in Said("GENERIC") : q.view = k.view /\ q.nodes = k.nodes
    BY <2>3 DEF Inv, VoteInv
  <2>5. q.view = p.view - 1
    BY <1>1, <2>2, <2>4
  <2>6. p.nodes[1].parent = HashOf(q.block)
    BY <1>1, <2>2, <2>4
  <2> QED  BY <1>1, <2>5, <2>6
<1> QED  BY <1>1, <1>2, <1>3 DEF Backed

LEMMA NormalOrdered == ASSUME TypeOK, Inv, NormalCase, NormalInv PROVE Ordered
<1>1. Row(Said("GENERIC"))
  <2>1. ASSUME NEW p \in Said("GENERIC"), NEW q \in Said("GENERIC"),
               q.view = p.view \/ q.block = p.block
        PROVE  q = p
    <3>1. p.view = p.block.view /\ q.view = q.block.view
      BY ProposedOn DEF NormalInv
    <3> QED  BY <2>1, <3>1, OneProposal
  <2> QED  BY <2>1, ProposedOn DEF Row, NormalInv
<1>2. ASSUME NEW r \in Server PROVE Filed(Said("GENERIC"), store[r])
  <2>1. IsFiniteSet(DOMAIN store[r]) /\ \A h \in DOMAIN store[r] : store[r][h].height = h
    BY DEF NormalInv, FilesNumbered
  <2>2. \A h \in DOMAIN store[r] : \E p \in Said("GENERIC") : p.block = store[r][h]
    BY DEF Inv, StoredCertified
  <2>3. \A p \in Said("GENERIC") : p.block.height = p.view
    BY ProposedOn DEF NormalInv
  <2> QED  BY <2>1, <2>2, <2>3 DEF Filed
<1> QED  BY <1>1, <1>2 DEF Ordered

\* The first height without a file
FirstGap(f) == Min({h \in 0 .. Cardinality(DOMAIN f) : h \notin DOMAIN f})

LEMMA GapOf ==
    ASSUME NEW f, IsFiniteSet(DOMAIN f)
    PROVE  /\ FirstGap(f) \in Nat /\ FirstGap(f) \notin DOMAIN f
           /\ \A h \in 0 .. FirstGap(f) - 1 : h \in DOMAIN f
<1> DEFINE D == DOMAIN f
           n == Cardinality(D)
           T == {h \in 0 .. n : h \notin D}
<1>1. n \in Nat
  BY FS_CardinalityType
<1>2. T # {}
  <2> SUFFICES ASSUME T = {} PROVE FALSE
    OBVIOUS
  <2>1. 0 .. n \subseteq D
    OBVIOUS
  <2>2. Cardinality(0 .. n) = n + 1
    <3>1. 0 \in Int /\ n \in Int /\ ~ (0 > n)
      BY <1>1
    <3>2. Cardinality(0 .. n) = IF 0 > n THEN 0 ELSE n - 0 + 1
      BY <3>1, FS_Interval
    <3> HIDE DEF n
    <3> QED  BY <1>1, <3>1, <3>2
  <2>3. Cardinality(0 .. n) <= n
    <3> HIDE DEF D
    <3> QED  BY <2>1, FS_Subset DEF D
  <2> HIDE DEF n
  <2> QED  BY <1>1, <2>2, <2>3
<1>3. T \in SUBSET Nat
  <2> HIDE DEF n, D
  <2> QED  BY <1>1
<1>4. Min(T) \in T /\ \A y \in T : Min(T) <= y
  <2> HIDE DEF T
  <2> QED  BY <1>2, <1>3, LeastNumber
<1>5. FirstGap(f) = Min(T)
  BY DEF FirstGap
<1> HIDE DEF n
<1>6. \A h \in 0 .. Min(T) - 1 : h \in D
  <2>1. \A h \in 0 .. Min(T) - 1 : h \in 0 .. n /\ h \notin T
    BY <1>1, <1>4
  <2> QED  BY <2>1
<1> QED  BY <1>1, <1>4, <1>5, <1>6

\* With more files the first gap comes no earlier.
LEMMA GapGrows ==
    ASSUME NEW f, NEW g, IsFiniteSet(DOMAIN f), IsFiniteSet(DOMAIN g), DOMAIN f \subseteq DOMAIN g
    PROVE  FirstGap(f) <= FirstGap(g)
<1>1. /\ FirstGap(f) \in Nat /\ FirstGap(g) \in Nat /\ FirstGap(g) \notin DOMAIN g
      /\ \A h \in 0 .. FirstGap(f) - 1 : h \in DOMAIN f
  BY GapOf
<1>2. FirstGap(g) \notin 0 .. FirstGap(f) - 1
  BY <1>1
<1> QED  BY <1>1, <1>2

\* A chain of the blocks of P, each with the link of its node
Entry(p) == [p.block EXCEPT !.pre = p.nodes[1].parent]

Entries(P) == {[m.block EXCEPT !.pre = m.nodes[1].parent] : m \in P}

ChainOf(P, c) ==
    /\ c \in Seq(Entries(P))
    /\ \A i \in 1 .. Len(c) : \E p \in P : p.view = i - 1 /\ c[i] = Entry(p)

Links(P, f) ==
    [i \in 1 .. FirstGap(f) |->
        [f[i - 1] EXCEPT !.pre = (CHOOSE m \in P : m.block = f[i - 1]).nodes[1].parent]]

\* The files up to the first gap are a chain.
LEMMA FilesChain ==
    ASSUME NEW P, NEW f, Row(P), Filed(P, f)
    PROVE  ChainOf(P, Links(P, f)) /\ Len(Links(P, f)) = FirstGap(f)
<1>1. FirstGap(f) \in Nat /\ \A h \in 0 .. FirstGap(f) - 1 : h \in DOMAIN f
  BY GapOf DEF Filed
<1> DEFINE g == FirstGap(f)
           c == Links(P, f)
<1>2. ASSUME NEW i \in 1 .. g
      PROVE  \E p \in P : p.view = i - 1 /\ c[i] = Entry(p)
  <2>1. i - 1 \in 0 .. g - 1
    BY <1>1
  <2>2. i - 1 \in DOMAIN f
    BY <1>1, <2>1
  <2>3. PICK p \in P : p.view = i - 1 /\ p.block = f[i - 1]
    BY <2>2 DEF Filed
  <2>4. \A q \in P : q.block = f[i - 1] => q = p
    BY <2>3 DEF Row
  <2>5. (CHOOSE m \in P : m.block = f[i - 1]) = p
    BY <2>3, <2>4
  <2>6. c[i] = [f[i - 1] EXCEPT !.pre = (CHOOSE m \in P : m.block = f[i - 1]).nodes[1].parent]
    BY DEF Links
  <2>7. c[i] = Entry(p)
    BY <2>3, <2>5, <2>6 DEF Entry
  <2> QED  BY <2>3, <2>7
<1>3. DOMAIN c = 1 .. g /\ c = [i \in 1 .. g |-> c[i]]
  BY DEF Links
<1>4. \A i \in 1 .. g : c[i] \in Entries(P)
  BY <1>2 DEF Entry, Entries
<1> HIDE DEF g, c
<1>5. c \in [1 .. g -> Entries(P)]
  BY <1>3, <1>4
<1>6. g \in Nat
  BY <1>1 DEF g
<1>7. c \in Seq(Entries(P)) /\ Len(c) = g
  BY <1>5, <1>6
<1> QED  BY <1>2, <1>7 DEF ChainOf, c, g

\* A chain stays one when there are more proposals.
LEMMA ChainStays ==
    ASSUME NEW P, NEW Q, P \subseteq Q, NEW c, ChainOf(P, c)
    PROVE  ChainOf(Q, c)
<1>1. Entries(P) \subseteq Entries(Q)
  BY DEF Entries
<1>2. c \in Seq(Entries(Q))
  BY <1>1 DEF ChainOf
<1> QED  BY <1>2 DEF ChainOf

\* Of two chains of the same proposals the shorter one is a prefix.
LEMMA ChainPrefix ==
    ASSUME NEW P, NEW c, NEW d, Row(P), ChainOf(P, c), ChainOf(P, d), Len(c) <= Len(d)
    PROVE  LedgerOfChained!IsPrefix(c, d)
<1>1. c \in Seq(Entries(P)) /\ d \in Seq(Entries(P))
  BY DEF ChainOf
<1>2. ASSUME NEW i \in 1 .. Len(c) PROVE c[i] = d[i]
  <2>1. i \in 1 .. Len(d)
    BY <1>1
  <2>2. PICK p \in P : p.view = i - 1 /\ c[i] = Entry(p)
    BY DEF ChainOf
  <2>3. PICK q \in P : q.view = i - 1 /\ d[i] = Entry(q)
    BY <2>1 DEF ChainOf
  <2>4. q = p
    BY <2>2, <2>3 DEF Row
  <2> QED  BY <2>2, <2>3, <2>4
<1> DEFINE S == Entries(P)
<1> HIDE DEF S
<1>3. c \in Seq(S) /\ d \in Seq(S)
  BY <1>1 DEF S
<1>4. SubSeq(c, 1, Len(c)) = SubSeq(d, 1, Len(c))
  BY <1>2, <1>3
<1> QED  BY <1>3, <1>4 DEF LedgerOfChained!IsPrefix

\* Chains of the same proposals are comparable, and equal if they are as long.
LEMMA ChainsCompare ==
    ASSUME NEW P, NEW c, NEW d, Row(P), ChainOf(P, c), ChainOf(P, d)
    PROVE  /\ LedgerOfChained!Comparable(c, d)
           /\ Len(c) = Len(d) => c = d
<1>1. Len(c) \in Nat /\ Len(d) \in Nat
  BY DEF ChainOf
<1>2. Len(c) <= Len(d) \/ Len(d) <= Len(c)
  BY <1>1
<1>3. LedgerOfChained!Comparable(c, d)
  BY <1>2, ChainPrefix, Zenon DEF LedgerOfChained!Comparable
<1>4. ASSUME Len(c) = Len(d) PROVE c = d
  <2>1. c \in Seq(Entries(P)) /\ d \in Seq(Entries(P))
    BY DEF ChainOf
  <2>2. LedgerOfChained!IsPrefix(c, d)
    BY <1>1, <1>4, ChainPrefix
  <2>3. SubSeq(c, 1, Len(c)) = SubSeq(d, 1, Len(c))
    BY <2>1, <2>2 DEF LedgerOfChained!IsPrefix
  <2> DEFINE S == Entries(P)
  <2> HIDE DEF S
  <2>4. c \in Seq(S) /\ d \in Seq(S)
    BY <2>1 DEF S
  <2>5. c = SubSeq(c, 1, Len(c)) /\ d = SubSeq(d, 1, Len(d))
    BY <2>4
  <2> QED  BY <1>4, <2>3, <2>5
<1> QED  BY <1>3, <1>4

\* A chain of proposals that are one on the other links its blocks.
LEMMA ChainLinks ==
    ASSUME NEW P, NEW c, Row(P), ChainOf(P, c)
    PROVE  LedgerOfChained!IsChain(c) /\ LedgerOfChained!ToSet(c) \subseteq Entries(P)
<1>1. c \in Seq(Entries(P)) /\ DOMAIN c = 1 .. Len(c) /\ Len(c) \in Nat
  BY DEF ChainOf
<1>2. ASSUME NEW p \in P
      PROVE  /\ Entry(p).height = p.view /\ Entry(p).pre = p.nodes[1].parent
             /\ LedgerOfChained!Hash(Entry(p)) = HashOf(p.block)
  <2>1. p.block \in Block /\ p.block.height = p.view
    BY DEF Row
  <2>2. /\ Entry(p).height = p.block.height /\ Entry(p).pre = p.nodes[1].parent
        /\ Entry(p).view = p.block.view /\ Entry(p).time = p.block.time
        /\ Entry(p).cmd = p.block.cmd
    BY <2>1 DEF Entry, Block
  <2> QED  BY <2>1, <2>2 DEF HashOf, LedgerOfChained!Hash
<1>3. ASSUME NEW i \in 1 .. Len(c)
      PROVE  /\ c[i].height = i - 1
             /\ c[i].pre = IF i = 1 THEN EmptyHash ELSE LedgerOfChained!Hash(c[i - 1])
  <2>1. PICK p \in P : p.view = i - 1 /\ c[i] = Entry(p)
    BY DEF ChainOf
  <2>2. c[i].height = i - 1 /\ c[i].pre = p.nodes[1].parent
    BY <1>2, <2>1
  <2>3. CASE i = 1
    <3>1. \A q \in P : q.view # p.view - 1
      BY <2>1, <2>3 DEF Row
    <3>2. p.nodes[1].parent = EmptyHash
      BY <3>1 DEF Row
    <3> QED  BY <2>2, <2>3, <3>2
  <2>4. CASE i # 1
    <3>1. p.view # 0
      BY <1>1, <2>1, <2>4
    <3>2. PICK q \in P : q.view = p.view - 1 /\ p.nodes[1].parent = HashOf(q.block)
      BY <3>1 DEF Row
    <3>3. i - 1 \in 1 .. Len(c)
      BY <1>1, <2>4
    <3>4. PICK k \in P : k.view = i - 1 - 1 /\ c[i - 1] = Entry(k)
      BY <3>3 DEF ChainOf
    <3>5. k = q
      BY <2>1, <3>2, <3>4 DEF Row
    <3>6. LedgerOfChained!Hash(c[i - 1]) = HashOf(q.block)
      BY <1>2, <3>4, <3>5
    <3> QED  BY <2>2, <2>4, <3>2, <3>6
  <2> QED  BY <2>3, <2>4
<1>4. LedgerOfChained!IsChain(c)
  BY <1>1, <1>3 DEF LedgerOfChained!IsChain
<1>5. LedgerOfChained!ToSet(c) \subseteq Entries(P)
  BY <1>1 DEF LedgerOfChained!ToSet
<1> QED  BY <1>4, <1>5

\* The files of two nodes agree where both have one.
LEMMA OrderedConsistent == ASSUME Ordered PROVE DataConsistence
<1> SUFFICES ASSUME NEW r \in Server, NEW s \in Server,
                    NEW h \in DOMAIN store[r] \cap DOMAIN store[s]
             PROVE  store[r][h] = store[s][h]
  BY DEF DataConsistence
<1>1. PICK p \in Said("GENERIC") : p.view = h /\ p.block = store[r][h]
  BY DEF Ordered, Filed
<1>2. PICK q \in Said("GENERIC") : q.view = h /\ q.block = store[s][h]
  BY DEF Ordered, Filed
<1>3. q = p
  BY <1>1, <1>2 DEF Ordered, Row
<1> QED  BY <1>1, <1>2, <1>3

\* The ledger of a node is what its files and the proposals make of it.
LEMMA LedgerLinks ==
    \A r : /\ Chain(r) = Links(Said("GENERIC"), store[r])
           /\ Chain(r)' = Links(Said("GENERIC")', store'[r])
<1> SUFFICES ASSUME NEW r
             PROVE  /\ Chain(r) = Links(Said("GENERIC"), store[r])
                    /\ Chain(r)' = Links(Said("GENERIC")', store'[r])
  OBVIOUS
<1>1. Chain(r) = Links(Said("GENERIC"), store[r])
  BY DEF Chain, Links, FirstGap
<1>2. Chain(r)' = Links(Said("GENERIC")', store'[r])
  BY DEF Chain, Links, FirstGap
<1> QED  BY <1>1, <1>2

\* A step of r that writes a file and takes no proposal back is a step of the ledger.
LEMMA LedgerCommit ==
    ASSUME Ordered, Ordered', NEW r \in Server, Said("GENERIC") \subseteq Said("GENERIC")',
           DOMAIN store[r] \subseteq DOMAIN store'[r],
           \A q \in Server \ {r} : store'[q] = store[q]
    PROVE  LedgerOfChained!Commit(r)
<1> DEFINE P == Said("GENERIC")
           Q == Said("GENERIC")'
<1>1. Row(P) /\ Row(Q) /\ P \subseteq Q
  BY DEF Ordered
<1>2. \A s \in Server : Filed(P, store[s]) /\ Filed(Q, store'[s])
  BY DEF Ordered
<1> HIDE DEF P, Q
<1>3. \A s \in Server : Chain(s) = Links(P, store[s]) /\ Chain(s)' = Links(Q, store'[s])
  BY LedgerLinks DEF P, Q
<1>4. ASSUME NEW s \in Server
      PROVE  /\ ChainOf(Q, Chain(s)) /\ Len(Chain(s)) = FirstGap(store[s])
             /\ ChainOf(Q, Chain(s)') /\ Len(Chain(s)') = FirstGap(store'[s])
  <2>1. ChainOf(P, Chain(s)) /\ Len(Chain(s)) = FirstGap(store[s])
    BY <1>1, <1>2, <1>3, FilesChain, ZenonT(60)
  <2>2. ChainOf(Q, Chain(s)') /\ Len(Chain(s)') = FirstGap(store'[s])
    BY <1>1, <1>2, <1>3, FilesChain, ZenonT(60)
  <2>3. ChainOf(Q, Chain(s))
    BY <1>1, <2>1, ChainStays, ZenonT(60)
  <2> QED  BY <2>1, <2>2, <2>3
<1>5. LedgerOfChained!IsPrefix(Chain(r), Chain(r)')
  <2>1. FirstGap(store[r]) <= FirstGap(store'[r])
    BY <1>2, GapGrows DEF Filed
  <2>2. Len(Chain(r)) <= Len(Chain(r)')
    BY <1>4, <2>1
  <2> QED  BY <1>1, <1>4, <2>2, ChainPrefix, ZenonT(60)
<1>6. LedgerOfChained!IsChain(Chain(r)') /\ LedgerOfChained!ToSet(Chain(r)') \subseteq Entries(Q)
  BY <1>1, <1>4, ChainLinks, ZenonT(60)
<1>7. ASSUME NEW s \in Server \ {r}
      PROVE  Chain(s)' = Chain(s) /\ LedgerOfChained!Comparable(Chain(r)', Chain(s))
  <2>1. store'[s] = store[s]
    OBVIOUS
  <2>2. Len(Chain(s)') = Len(Chain(s))
    BY <1>4, <2>1
  <2>3. Chain(s)' = Chain(s)
    BY <1>1, <1>4, <2>2, ChainsCompare, ZenonT(60)
  <2>4. LedgerOfChained!Comparable(Chain(r)', Chain(s))
    BY <1>1, <1>4, ChainsCompare, ZenonT(60)
  <2> QED  BY <2>3, <2>4
<1>8. /\ {[m.block EXCEPT !.pre = m.nodes[1].parent] : m \in Said("GENERIC")} = Entries(P)
      /\ {[m.block EXCEPT !.pre = m.nodes[1].parent] : m \in Said("GENERIC")}' = Entries(Q)
      /\ Entries(P) \subseteq Entries(Q)
  BY <1>1 DEF P, Q, Entries
<1> DEFINE ledger == [s \in Server |-> Chain(s)]
           said == {[m.block EXCEPT !.pre = m.nodes[1].parent] : m \in Said("GENERIC")}
<1>9. /\ ledger[r] = Chain(r) /\ ledger'[r] = Chain(r)'
      /\ \A s \in Server \ {r} : ledger[s] = Chain(s) /\ ledger'[s] = Chain(s)'
  OBVIOUS
<1>10. /\ said \subseteq said'
       /\ LedgerOfChained!IsPrefix(ledger[r], ledger'[r])
       /\ LedgerOfChained!ToSet(ledger'[r]) \subseteq said'
       /\ LedgerOfChained!IsChain(ledger'[r])
       /\ \A s \in Server \ {r} : /\ ledger'[s] = ledger[s]
                                  /\ LedgerOfChained!Comparable(ledger'[r], ledger[s])
  <2>1. said \subseteq said' /\ said' = Entries(Q)
    BY <1>8
  <2> HIDE DEF ledger, said
  <2> QED  BY <1>5, <1>6, <1>7, <1>9, <2>1, ZenonT(60)
<1> QED  BY <1>10, ZenonT(60) DEF LedgerOfChained!Commit

\* At the start no node has a file and nothing is proposed.
LEMMA LedgerStart == Init => LedgerOfChained!Init
<1> SUFFICES ASSUME Init PROVE LedgerOfChained!Init
  OBVIOUS
<1>1. Said("GENERIC") = {}
  BY DEF Init, Said
<1>2. {[m.block EXCEPT !.pre = m.nodes[1].parent] : m \in Said("GENERIC")} = {}
  BY <1>1
<1>3. ASSUME NEW r \in Server PROVE Chain(r) = <<>>
  <2>1. DOMAIN store[r] = {}
    BY SMT DEF Init
  <2>2. IsFiniteSet(DOMAIN store[r])
    BY <2>1, FS_EmptySet
  <2>3. FirstGap(store[r]) = 0
    <3>1. /\ FirstGap(store[r]) \in Nat
          /\ \A h \in 0 .. FirstGap(store[r]) - 1 : h \in DOMAIN store[r]
      BY <2>2, GapOf
    <3>2. 0 \notin 0 .. FirstGap(store[r]) - 1
      BY <2>1, <3>1
    <3> QED  BY <3>1, <3>2
  <2>4. Chain(r) = Links(Said("GENERIC"), store[r])
    BY LedgerLinks
  <2> QED  BY <2>3, <2>4 DEF Links
<1>4. [r \in Server |-> Chain(r)] = [r \in Server |-> <<>>]
  BY <1>3
<1> QED  BY <1>2, <1>4 DEF LedgerOfChained!Init

LEMMA LedgerNext ==
    TypeOK /\ TypeOK' /\ Inv /\ NormalInv /\ NormalCase' /\ Ordered /\ Ordered' /\ [Next]_vars
        => [LedgerOfChained!Next]_(LedgerOfChained!vars)
<1> SUFFICES ASSUME TypeOK, TypeOK', Inv, NormalInv, NormalCase', Ordered, Ordered', [Next]_vars
             PROVE  LedgerOfChained!Next \/ UNCHANGED LedgerOfChained!vars
  OBVIOUS
<1>1. CASE Next
  <2>1. PICK r \in Server : Grows /\ Files(r)
    BY <1>1, NormalStep DEF NormalInv
  <2>2. Said("GENERIC") \subseteq Said("GENERIC")'
    BY <2>1, Growth
  <2>3. DOMAIN store[r] \subseteq DOMAIN store'[r]
    <3>1. ASSUME NEW b \in Block, store'[r] = WriteBlocks(store[r], {b})
          PROVE  DOMAIN store[r] \subseteq DOMAIN store'[r]
      BY <3>1 DEF WriteBlocks
    <3> QED  BY <2>1, <3>1 DEF Files
  <2>4. \A q \in Server \ {r} : store'[q] = store[q]
    BY <2>1 DEF Files
  <2>5. LedgerOfChained!Commit(r)
    BY <2>2, <2>3, <2>4, LedgerCommit
  <2> QED  BY <2>5 DEF LedgerOfChained!Next
<1>2. CASE UNCHANGED vars
  <2>1. store' = store /\ sent' = sent
    BY <1>2 DEF vars, blkVars
  <2>2. Said("GENERIC")' = Said("GENERIC")
    BY <2>1 DEF Said
  <2>3. \A r \in Server : Chain(r)' = Chain(r)
    <3>1. \A r : /\ Chain(r) = Links(Said("GENERIC"), store[r])
                 /\ Chain(r)' = Links(Said("GENERIC")', store'[r])
      BY LedgerLinks, Zenon
    <3> QED  BY <2>1, <2>2, <3>1, Zenon
  <2>4. /\ {[m.block EXCEPT !.pre = m.nodes[1].parent] : m \in Said("GENERIC")}'
              = {[m.block EXCEPT !.pre = m.nodes[1].parent] : m \in Said("GENERIC")}
        /\ [r \in Server |-> Chain(r)]' = [r \in Server |-> Chain(r)]
    BY <2>2, <2>3
  <2> QED  BY <2>4 DEF LedgerOfChained!vars
<1> QED  BY <1>1, <1>2

----------------------------------------------------------------------------
(* The theorems *)

\* The types and the invariant are one induction: GetHighChainedQC has a message to
\* read only because of the invariant.
LEMMA TypeAndInv == Spec => [](TypeOK /\ Inv)
<1>1. Init => TypeOK /\ Inv
  BY TypeInit, InvInit
<1>2. TypeOK /\ Inv /\ [Next]_vars => (TypeOK /\ Inv)'
  <2> SUFFICES ASSUME TypeOK, Inv, [Next]_vars PROVE TypeOK' /\ Inv'
    OBVIOUS
  <2>1. \A r \in Server : LeaderInv(r)
    BY DEF Inv
  <2>2. TypeOK'
    BY <2>1, TypeStep
  <2> QED  BY <2>2, InvStep
<1> QED  BY <1>1, <1>2, PTL DEF Spec

LEMMA NormalAlways == Spec => []NormalInv
<1>1. Init => NormalInv
  <2> SUFFICES ASSUME Init PROVE FilesNumbered
    BY LinearInit DEF NormalInv
  <2>1. \A r \in Server : DOMAIN store[r] = {}
    BY SMT DEF Init
  <2> QED  BY <2>1, FS_EmptySet DEF FilesNumbered
<1> QED  BY <1>1, TypeAndInv, NormalInvStep, PTL DEF Spec

\* NewChainedHotstuff, the handlers of RouteCMsg, HandleReq and StartViewChange leave
\* every field of CHotstuff and BlockStore in its type, and no leader ever asks
\* GetHighChainedQC for the best of no messages.
THEOREM ChainedTypeCorrect == Spec => []TypeOK
  BY TypeAndInv, PTL

\* A view has one proposal and a node one vote in it (CHandleNewView, CHandleGeneric), so
\* every certificate that CHandleGenericVote makes or a message carries has its votes.
THEOREM ChainedInvCorrect == Spec => []Inv
  BY TypeAndInv, PTL

\* Whatever the schedule and the expiries of view timers, every block that
\* CHandleGeneric writes to a file was proposed and had the votes of a quorum.
THEOREM ChainedStoredCertifiedCorrect == Spec => []StoredCertified
<1>1. Inv => StoredCertified
  BY DEF Inv
<1> QED  BY <1>1, TypeAndInv, PTL
\* CHandleNewView waits for the message of the last leader, whose certificate is that of
\* the view before: until a view timer expires every proposal is made on the proposal of
\* the view before, the height of a block is its view, and a replica never has a new-view
\* message of an earlier round left.
THEOREM ChainedLinear == Spec => []LinearInv
<1>1. NormalInv => LinearInv
  BY DEF NormalInv
<1> QED  BY <1>1, NormalAlways, PTL

\* Until a view timer expires no two nodes write different blocks to the file of a height.
THEOREM ChainedConsistence == Spec => [](NormalCase => DataConsistence)
<1>1. TypeOK /\ Inv /\ NormalInv => (NormalCase => DataConsistence)
  BY NormalOrdered, OrderedConsistent
<1> QED  BY <1>1, TypeAndInv, NormalAlways, PTL

\* Chained HotStuff implements the ledger for as long as no view timer expires: the files of
\* the nodes, up to the first that is missing, are prefixes of one chain of proposed blocks,
\* linked by the parents of their nodes, and CHandleGeneric only ever extends them.
THEOREM ChainedLedger == Spec /\ []NormalCase => ImplementsLedger
<1>1. TypeOK /\ Inv /\ NormalInv /\ NormalCase => Ordered
  BY NormalOrdered
<1>2. Spec /\ []NormalCase => LedgerOfChained!Spec
  BY <1>1, LedgerStart, LedgerNext, TypeAndInv, NormalAlways, PTL DEF Spec, LedgerOfChained!Spec
<1> QED  BY <1>2 DEF ImplementsLedger
=============================================================================
