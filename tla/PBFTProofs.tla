----------------------------- MODULE PBFTProofs -----------------------------
(***************************************************************************)
(* PBFT keeps its types. In the normal case, before the first checkpoint   *)
(* and without a view change, every block it stores was said to be         *)
(* prepared by a quorum, and it implements the ledger: for every number of *)
(* nodes, every set of batches and every order of the messages.            *)
(***************************************************************************)
EXTENDS PBFT, FiniteSetTheorems, WellFoundedInduction, TLAPS

----------------------------------------------------------------------------
(* Numbers and finite sets *)

\* A non-empty set of numbers has a least one.
LEMMA LeastNumber ==
    ASSUME NEW T \in SUBSET Nat, T # {}
    PROVE  Min(T) \in T /\ \A y \in T : Min(T) <= y
<1>1. PICK x \in T : \A y \in T : ~ (<<y, x>> \in OpToRel(<, Nat))
  BY NatLessThanWellFounded, WFMin, Zenon
<1>2. \A y \in T : ~ (y < x)
  BY <1>1 DEF OpToRel
<1>3. \A y \in T : x <= y
  BY <1>2
<1> QED  BY <1>3 DEF Min

\* A list of numbers has a highest one.
LEMMA HighestOf ==
    ASSUME NEW n \in Nat, n > 0, NEW f \in [1 .. n -> Int]
    PROVE  \E j \in 1 .. n : \A i \in 1 .. n : f[i] <= f[j]
<1> DEFINE Tops(k) == {j \in 1 .. k : \A i \in 1 .. k : f[i] <= f[j]}
           T == {k \in 1 .. n : Tops(k) = {}}
<1>1. T = {}
  <2> SUFFICES ASSUME T # {} PROVE FALSE
    OBVIOUS
  <2>1. T \in SUBSET Nat
    OBVIOUS
  <2>2. PICK k \in T : \A y \in T : k <= y
    <3> HIDE DEF T
    <3> QED  BY <2>1, LeastNumber
  <2>3. k \in 1 .. n /\ Tops(k) = {}
    BY <2>2
  <2>4. k # 1
    <3> SUFFICES ASSUME k = 1 PROVE FALSE
      OBVIOUS
    <3>1. 1 \in Tops(1)
      OBVIOUS
    <3> QED  BY <2>3, <3>1
  <2>5. k - 1 \in 1 .. n /\ k - 1 \notin T
    <3>1. k - 1 \in 1 .. n /\ ~ (k <= k - 1)
      BY <2>3, <2>4
    <3> HIDE DEF T
    <3> QED  BY <2>2, <3>1
  <2>6. PICK j \in 1 .. k - 1 : \A i \in 1 .. k - 1 : f[i] <= f[j]
    BY <2>5
  <2>7. CASE f[k] <= f[j]
    <3>1. j \in Tops(k)
      BY <2>3, <2>6, <2>7, SMTT(30)
    <3> QED  BY <2>3, <3>1
  <2>8. CASE f[k] > f[j]
    <3>1. \A i \in 1 .. k : f[i] <= f[k]
      BY <2>3, <2>6, <2>8
    <3>2. k \in Tops(k)
      BY <2>3, <3>1
    <3> QED  BY <2>3, <3>2
  <2>9. f[k] \in Int /\ f[j] \in Int
    BY <2>3, <2>6
  <2> QED  BY <2>7, <2>8, <2>9
<1>2. n \notin T
  BY <1>1
<1>3. Tops(n) # {}
  BY <1>2
<1> QED  BY <1>3

\* A finite set of numbers has a highest one.
LEMMA GreatestNumber ==
    ASSUME NEW T \in SUBSET Int, T # {}, IsFiniteSet(T)
    PROVE  Max(T) \in T /\ \A y \in T : y <= Max(T)
<1>1. PICK n \in Nat : n > 0 /\ ExistsBijection(1 .. n, T)
  <2>1. Cardinality(T) \in Nat /\ Cardinality(T) # 0 /\ ExistsBijection(1 .. Cardinality(T), T)
    BY FS_CardinalityType, FS_EmptySet
  <2> QED  BY <2>1
<1>2. PICK f \in [1 .. n -> T] : \A y \in T : \E i \in 1 .. n : f[i] = y
  BY <1>1 DEF ExistsBijection, Bijection, Surjection
<1>3. f \in [1 .. n -> Int]
  OBVIOUS
<1>4. PICK j \in 1 .. n : \A i \in 1 .. n : f[i] <= f[j]
  BY <1>1, <1>3, HighestOf
<1>5. f[j] \in T /\ \A y \in T : f[j] >= y
  <2>1. f[j] \in T /\ f[j] \in Int
    BY <1>2, <1>4
  <2>2. ASSUME NEW y \in T PROVE f[j] >= y
    <3>1. PICK i \in 1 .. n : f[i] = y
      BY <1>2
    <3>2. y <= f[j] /\ y \in Int
      BY <1>4, <3>1
    <3> QED  BY <3>2, <2>1
  <2> QED  BY <2>1, <2>2
<1>6. Max(T) \in T /\ \A y \in T : Max(T) >= y
  BY <1>5 DEF Max
<1>7. Max(T) \in Int
  BY <1>6
<1> QED  BY <1>6, <1>7

\* A function has finitely many values on a finite set.
LEMMA FiniteImage ==
    ASSUME NEW S, IsFiniteSet(S), NEW f, DOMAIN f = S
    PROVE  IsFiniteSet({f[x] : x \in S})
<1> DEFINE T == {f[x] : x \in S}
           g == [x \in S |-> f[x]]
<1>1. g \in Surjection(S, T)
  BY DEF Surjection
<1> HIDE DEF g, T
<1>2. IsFiniteSet(T)
  BY <1>1, FS_Surjection
<1> QED  BY <1>2 DEF T

\* A function written out over 1 .. n is a sequence, also when n is not positive.
LEMMA SequenceOf ==
    ASSUME NEW S, NEW n \in Int, NEW f \in [1 .. n -> S]
    PROVE  f \in Seq(S)
<1>1. CASE n >= 0
  BY <1>1
<1>2. CASE n < 0
  <2>1. 1 .. n = 1 .. 0
    BY <1>2
  <2>2. f \in [1 .. 0 -> S]
    BY <2>1
  <2> QED  BY <2>2
<1> QED  BY <1>1, <1>2

----------------------------------------------------------------------------
(* Types *)

\* The leader of a view is a node, and the slot of a view one of the ring.
LEMMA LeaderType == ASSUME NEW v \in Nat PROVE Leader(v) \in Server
  BY NAssumption DEF Leader, Server

LEMMA SlotType == ASSUME NEW v \in Nat PROVE SlotOf(v) \in 0 .. CheckpointNum - 1
  BY CheckpointAssumption DEF SlotOf

LEMMA QuorumType == QuorumSize \in Nat /\ QuorumSize > 0
<1>1. (N - 1) \div 3 \in Nat
  BY NAssumption
<1> QED  BY <1>1 DEF QuorumSize

\* What NewPBFT starts with is of the types.
LEMMA ConstantTypes ==
    /\ EmptyHash \in Hash /\ NilHash \in Hash /\ EmptyBlock \in Block
    /\ EmptySlot \in Slot /\ EmptyLog \in [0 .. CheckpointNum - 1 -> Slot]
    /\ NoVCMsgs \in VCMsgs
    /\ 0 \in Server
<1>1. EmptyHash \in Hash /\ NilHash \in Hash /\ EmptyBlock \in Block
  BY DEF EmptyHash, NilHash, Hash, EmptyBlock, Block
<1>2. EmptySlot \in Slot
  BY FS_EmptySet DEF EmptySlot, Slot
<1>3. EmptyLog \in [0 .. CheckpointNum - 1 -> Slot]
  BY <1>2 DEF EmptyLog
<1>4. NoVCMsgs \in VCMsgs
  BY DEF NoVCMsgs, VCMsgs
<1>5. 0 \in Server
  BY NAssumption DEF Server
<1> QED  BY <1>1, <1>2, <1>3, <1>4, <1>5

\* A message without a block or a list is a message, and so is one with a list.
LEMMA MkMsgType ==
    ASSUME NEW t \in MsgType, NEW v \in Nat, NEW n \in Nat, NEW s \in Server, NEW d \in Hash
    PROVE  /\ MkMsg(t, v, n, s, d) \in Msg
           /\ \A p \in Seq(Pm) : [MkMsg(t, v, n, s, d) EXCEPT !.pset = p] \in Msg
           /\ \A o \in Seq(Redo) : [MkMsg(t, v, n, s, d) EXCEPT !.oset = o] \in Msg
           /\ \A b \in Block : [MkMsg(t, v, n, s, d) EXCEPT !.block = b] \in Msg
<1>1. EmptyBlock \in Block /\ <<>> \in Seq(Pm) /\ <<>> \in Seq(Redo)
  BY ConstantTypes
<1>2. MkMsg(t, v, n, s, d) \in Msg
  BY <1>1 DEF MkMsg, Msg
<1>3. \A p \in Seq(Pm) : [MkMsg(t, v, n, s, d) EXCEPT !.pset = p] \in Msg
  BY <1>2 DEF Msg
<1>4. \A o \in Seq(Redo) : [MkMsg(t, v, n, s, d) EXCEPT !.oset = o] \in Msg
  BY <1>2 DEF Msg
<1>5. \A b \in Block : [MkMsg(t, v, n, s, d) EXCEPT !.block = b] \in Msg
  BY <1>2 DEF Msg
<1> QED  BY <1>2, <1>3, <1>4, <1>5

LEMMA NoMsgType == NoMsg \notin Msg
  BY DEF NoMsg, MkMsg, Msg, MsgType

LEMMA HashOfType == ASSUME NEW b \in Block PROVE HashOf(b) \in Hash
  BY DEF HashOf, Block, Hash

LEMMA SendType ==
    ASSUME sent \in [Server -> Seq(Msg)], NEW r \in Server, NEW m \in Msg, Send(r, m)
    PROVE  sent' \in [Server -> Seq(Msg)]
  BY DEF Send

\* Messages a node consumes were sent.
LEMMA NextMessage ==
    ASSUME TypeOK, NEW r \in Server, NEW s \in Server, rcvd[r][s] < Len(sent[s])
    PROVE  /\ rcvd[r][s] + 1 \in DOMAIN sent[s]
           /\ sent[s][rcvd[r][s] + 1] \in Msg /\ sent[s][rcvd[r][s] + 1] \in Sent(s)
<1>1. sent[s] \in Seq(Msg) /\ rcvd[r][s] \in Nat
  BY DEF TypeOK
<1>2. rcvd[r][s] + 1 \in DOMAIN sent[s]
  BY <1>1
<1> QED  BY <1>1, <1>2 DEF Sent

\* StoreBlock keeps the types of the block store and of the files.
LEMMA StoredType == ASSUME NEW b \in BlkStore PROVE Stored(b) \in BlkStore
<1>1. NilHash \in Hash /\ b.height + 1 \in Nat /\ b.cur \in Hash
  BY ConstantTypes DEF BlkStore
<1> QED  BY <1>1 DEF Stored, BlkStore

LEMMA WriteBlockType ==
    ASSUME NEW f, NEW b \in Block, \A h \in DOMAIN f : f[h] \in Block
    PROVE  \A h \in DOMAIN WriteBlock(f, b) : WriteBlock(f, b)[h] \in Block
  BY DEF WriteBlock

\* GenCheckPoint keeps the types, and the buffer it adds to is not empty.
LEMMA GenCheckPointType ==
    ASSUME NEW r \in Server, NEW n \in Nat, NEW d \in Hash, IsCheckPoint(checkpoint[r])
    PROVE  /\ IsCheckPoint(GenCheckPoint(r, n, d))
           /\ (n + 1) % CheckpointNum = 0 => GenCheckPoint(r, n, d).buffer[n][1] \in Msg
<1> DEFINE own == MkMsg("CHECKPOINT", 0, n, r, d)
           old == checkpoint[r].buffer
           here == (IF n \in DOMAIN old THEN old[n] ELSE <<>>) \o <<own>>
           new == [i \in DOMAIN old \cup {n} |-> IF i = n THEN here ELSE old[i]]
<1>1. own \in Msg
  BY MkMsgType DEF MsgType
<1>2. here \in Seq(Msg) /\ here[1] \in Msg
  <2> HIDE DEF own
  <2>1. (IF n \in DOMAIN old THEN old[n] ELSE <<>>) \in Seq(Msg)
    BY DEF IsCheckPoint
  <2> QED  BY <1>1, <2>1
<1>3. CASE (n + 1) % CheckpointNum = 0
  <2>1. GenCheckPoint(r, n, d) = [checkpoint[r] EXCEPT !.buffer = new]
    BY <1>3 DEF GenCheckPoint
  <2>2. GenCheckPoint(r, n, d) = [seq |-> checkpoint[r].seq, buffer |-> new]
    <3> HIDE DEF new
    <3> QED  BY <2>1 DEF IsCheckPoint
  <2>3. \A i \in DOMAIN new : i \in Nat /\ new[i] \in Seq(Msg)
    <3> HIDE DEF here
    <3> QED  BY <1>2 DEF IsCheckPoint
  <2>4. new[n] = here
    OBVIOUS
  <2> HIDE DEF new
  <2> QED  BY <2>2, <2>3, <2>4, <1>2 DEF IsCheckPoint
<1>4. CASE (n + 1) % CheckpointNum # 0
  BY <1>4 DEF GenCheckPoint
<1> QED  BY <1>3, <1>4

\* Reply keeps the types.
LEMMA ReplyType ==
    ASSUME TypeOK, NEW r \in Server, NEW n \in Nat, NEW d \in Hash, NEW b \in BlkStore,
           Reply(r, n, d, b), msgLog' \in [Server -> [0 .. CheckpointNum - 1 -> Slot]],
           rcvd' \in [Server -> [Server -> Nat]]
    PROVE  TypeOK'
<1> DEFINE cp == GenCheckPoint(r, n, d)
           end == (n + 1) % CheckpointNum = 0
<1>1. /\ store' = [store EXCEPT ![r] = WriteBlock(@, b.blk)]
      /\ replied' = [replied EXCEPT ![r] = @ \cup {n}]
      /\ bs' = [bs EXCEPT ![r] = Stored(b)]
      /\ checkpoint' = [checkpoint EXCEPT ![r] = cp]
      /\ view' = [view EXCEPT ![r] = @ + 1]
      /\ seq' = [seq EXCEPT ![r] = n + 1]
      /\ curProposal' = [curProposal EXCEPT ![r] = NoCmd]
      /\ timer' = [timer EXCEPT ![r] = TRUE]
      /\ phase' = [phase EXCEPT ![r] = PhaseAfterReply(r, n)]
      /\ spawned' = [spawned EXCEPT ![r] = IF r = Leader(view[r] + 1) THEN @ + 1 ELSE @]
      /\ IF end THEN Send(r, cp.buffer[n][1]) ELSE UNCHANGED sent
      /\ UNCHANGED <<vcMsgs, timeouts, panicked, lock, reqPc, reqVars>>
  BY DEF Reply
<1>2. IsCheckPoint(cp) /\ (end => cp.buffer[n][1] \in Msg)
  BY GenCheckPointType DEF TypeOK
<1> HIDE DEF cp
<1>3. DOMAIN checkpoint' = Server /\ \A i \in Server : IsCheckPoint(checkpoint'[i])
  BY <1>1, <1>2 DEF TypeOK
<1>4. DOMAIN store' = Server /\ \A i \in Server : \A h \in DOMAIN store'[i] : store'[i][h] \in Block
  <2>1. b.blk \in Block /\ store'[r] = WriteBlock(store[r], b.blk)
    BY <1>1 DEF TypeOK, BlkStore
  <2>2. \A h \in DOMAIN store'[r] : store'[r][h] \in Block
    BY <2>1, WriteBlockType DEF TypeOK
  <2>3. \A i \in Server \ {r} : store'[i] = store[i]
    BY <1>1 DEF TypeOK
  <2>4. DOMAIN store' = Server
    BY <1>1 DEF TypeOK
  <2> QED  BY <2>2, <2>3, <2>4 DEF TypeOK
<1>5. bs' \in [Server -> BlkStore]
  BY <1>1, StoredType DEF TypeOK
<1>6. sent' \in [Server -> Seq(Msg)]
  BY <1>1, <1>2, SendType DEF TypeOK
<1>7. phase' \in [Server -> Phase]
  <2>1. PhaseAfterReply(r, n) \in Phase
    BY DEF PhaseAfterReply, Phase
  <2> QED  BY <1>1, <2>1 DEF TypeOK
<1>8. view' \in [Server -> Nat] /\ seq' \in [Server -> Nat] /\ spawned' \in [Server -> Nat]
  BY <1>1 DEF TypeOK
<1>9. curProposal' \in [Server -> Cmd \cup {NoCmd}] /\ timer' \in [Server -> BOOLEAN]
  BY <1>1 DEF TypeOK
<1>10. UNCHANGED <<vcMsgs, timeouts, panicked, lock, reqPc, requests, reqFlag, pool>>
  BY <1>1 DEF reqVars
<1>11. replied' \in [Server -> SUBSET Nat]
  BY <1>1 DEF TypeOK
<1> QED  BY <1>3, <1>4, <1>5, <1>6, <1>7, <1>8, <1>9, <1>10, <1>11 DEF TypeOK

\* The proposal of Preprepare.
Proposal(r) ==
    [MkMsg("PREPREPARE", view[r], seq[r], r, HashOf(NewBlock(r))) EXCEPT !.block = NewBlock(r)]

LEMMA NewBlockType == ASSUME TypeOK, NEW r \in Server PROVE NewBlock(r) \in Block
<1>1. /\ view[r] \in Int /\ bs[r].height \in Int /\ Len(sent[r]) \in Int
      /\ bs[r].pre \in Hash /\ curProposal[r] \in Cmd \cup {NoCmd}
  BY DEF TypeOK, BlkStore
<1> QED  BY <1>1 DEF NewBlock, Block

LEMMA ProposalType ==
    ASSUME TypeOK, NEW r \in Server
    PROVE  /\ Proposal(r) \in Msg /\ Proposal(r).type = "PREPREPARE"
           /\ Proposal(r).view = view[r] /\ Proposal(r).seq = seq[r] /\ Proposal(r).src = r
           /\ Proposal(r).block = NewBlock(r) /\ Proposal(r).digest = HashOf(NewBlock(r))
<1>1. NewBlock(r) \in Block /\ HashOf(NewBlock(r)) \in Hash
  BY NewBlockType, HashOfType
<1>2. Proposal(r) \in Msg
  <2>1. view[r] \in Nat /\ seq[r] \in Nat /\ "PREPREPARE" \in MsgType
    BY DEF TypeOK, MsgType
  <2> QED  BY <1>1, <2>1, MkMsgType DEF Proposal
<1> QED  BY <1>2 DEF Proposal, MkMsg

\* What Preprepare does when it proposes.
LEMMA PreprepareDoes ==
    ASSUME NEW r \in Server, Preprepare(r), CanPreprepare(r)
    PROVE  /\ bs' = [bs EXCEPT ![r] = [@ EXCEPT !.blk = NewBlock(r), !.cur = HashOf(NewBlock(r))]]
           /\ msgLog' = [msgLog EXCEPT ![r] = [@ EXCEPT ![SlotOf(view[r])].pp = Proposal(r)]]
           /\ phase' = [phase EXCEPT ![r] = "PREPREPARE"]
           /\ Send(r, Proposal(r))
  BY DEF Preprepare, Proposal

\* A change of one field of a slot keeps the log well-typed.
LEMMA SlotChangeType ==
    ASSUME TypeOK, NEW r \in Server, NEW v \in Nat, NEW l \in Slot,
           msgLog' = [msgLog EXCEPT ![r] = [@ EXCEPT ![SlotOf(v)] = l]]
    PROVE  msgLog' \in [Server -> [0 .. CheckpointNum - 1 -> Slot]]
<1>1. msgLog[r] \in [0 .. CheckpointNum - 1 -> Slot]
  BY DEF TypeOK
<1>2. [msgLog[r] EXCEPT ![SlotOf(v)] = l] \in [0 .. CheckpointNum - 1 -> Slot]
  BY <1>1
<1> QED  BY <1>2 DEF TypeOK

LEMMA PreprepareType ==
    ASSUME TypeOK, NEW r \in Server, Preprepare(r)
    PROVE  /\ bs' \in [Server -> BlkStore]
           /\ msgLog' \in [Server -> [0 .. CheckpointNum - 1 -> Slot]]
           /\ phase' \in [Server -> Phase] /\ sent' \in [Server -> Seq(Msg)]
<1>1. CASE ~CanPreprepare(r)
  BY <1>1 DEF Preprepare, TypeOK
<1>2. CASE CanPreprepare(r)
  <2>1. /\ bs' = [bs EXCEPT ![r] = [@ EXCEPT !.blk = NewBlock(r), !.cur = HashOf(NewBlock(r))]]
        /\ msgLog' = [msgLog EXCEPT ![r] = [@ EXCEPT ![SlotOf(view[r])].pp = Proposal(r)]]
        /\ phase' = [phase EXCEPT ![r] = "PREPREPARE"]
        /\ Send(r, Proposal(r))
    BY <1>2, PreprepareDoes
  <2>2. NewBlock(r) \in Block /\ HashOf(NewBlock(r)) \in Hash /\ Proposal(r) \in Msg
    BY NewBlockType, HashOfType, ProposalType
  <2>3. bs' \in [Server -> BlkStore]
    <3>1. bs[r] \in BlkStore
      BY DEF TypeOK
    <3>2. [bs[r] EXCEPT !.blk = NewBlock(r), !.cur = HashOf(NewBlock(r))] \in BlkStore
      BY <2>2, <3>1 DEF BlkStore
    <3> QED  BY <2>1, <3>2 DEF TypeOK
  <2>4. msgLog' \in [Server -> [0 .. CheckpointNum - 1 -> Slot]]
    <3> DEFINE l == [msgLog[r][SlotOf(view[r])] EXCEPT !.pp = Proposal(r)]
    <3>1. view[r] \in Nat /\ msgLog[r][SlotOf(view[r])] \in Slot
      <4>1. view[r] \in Nat /\ msgLog[r] \in [0 .. CheckpointNum - 1 -> Slot]
        BY DEF TypeOK
      <4> QED  BY <4>1, SlotType
    <3>2. l \in Slot
      BY <2>2, <3>1 DEF Slot
    <3>3. msgLog' = [msgLog EXCEPT ![r] = [@ EXCEPT ![SlotOf(view[r])] = l]]
      BY <2>1
    <3> HIDE DEF l
    <3> QED  BY <3>1, <3>2, <3>3, SlotChangeType
  <2>5. phase' \in [Server -> Phase]
    BY <2>1 DEF TypeOK, Phase
  <2> QED  BY <2>1, <2>2, <2>3, <2>4, <2>5, SendType DEF TypeOK
<1> QED  BY <1>1, <1>2

LEMMA InitType == Init => TypeOK
<1> SUFFICES ASSUME Init PROVE TypeOK
  OBVIOUS
<1> USE DEF Init
<1>1. bs \in [Server -> BlkStore]
  <2>1. EmptyHash \in Hash /\ EmptyBlock \in Block
    BY ConstantTypes
  <2>2. [height |-> 0, pre |-> EmptyHash, cur |-> EmptyHash, blk |-> EmptyBlock] \in BlkStore
    BY <2>1 DEF BlkStore
  <2> QED  BY <2>2
<1>2. DOMAIN checkpoint = Server /\ \A r \in Server : IsCheckPoint(checkpoint[r])
  BY DEF IsCheckPoint
<1>3. phase \in [Server -> Phase]
  BY DEF Phase
<1>4. requests \in [Server -> Cmd \cup {NoCmd}]
  BY DEF Cmd
<1>5. DOMAIN store = Server /\ \A r \in Server : \A h \in DOMAIN store[r] : store[r][h] \in Block
  BY SMT
<1> QED  BY <1>1, <1>2, <1>3, <1>4, <1>5, ConstantTypes, BoundAssumption DEF TypeOK

LEMMA GenNewReqType ==
    ASSUME TypeOK, NEW r \in Server, NEW c \in ClientCmds, GenNewReq(r, c)
    PROVE  TypeOK'
<1>1. requests' \in [Server -> Cmd \cup {NoCmd}] /\ reqFlag' \in [Server -> BOOLEAN]
      /\ pool' \subseteq ClientCmds
  BY DEF GenNewReq, TypeOK, Cmd
<1>2. UNCHANGED <<phase, view, seq, curProposal, msgLog, checkpoint, vcMsgs, bs, store, replied,
                  timer, timeouts, panicked, lock, reqPc, spawned, sent, rcvd>>
  BY DEF GenNewReq, blkVars, timerVars, goVars
<1> QED  BY <1>1, <1>2 DEF TypeOK

LEMMA HandleReqType ==
    ASSUME TypeOK, NEW r \in Server, HandleReq(r)
    PROVE  TypeOK'
<1>1. reqFlag' \in [Server -> BOOLEAN]
  BY DEF HandleReq, TypeOK
<1>2. /\ curProposal' \in [Server -> Cmd \cup {NoCmd}] /\ phase' \in [Server -> Phase]
      /\ reqPc' \in [Server -> {"idle", "locking"}]
  <2>1. curProposal' \in [Server -> Cmd \cup {NoCmd}]
    BY DEF HandleReq, TypeOK
  <2>2. phase' \in [Server -> Phase]
    BY DEF HandleReq, TypeOK, Phase
  <2>3. reqPc' = reqPc \/ reqPc' = [reqPc EXCEPT ![r] = "locking"]
    BY DEF HandleReq
  <2>4. reqPc' \in [Server -> {"idle", "locking"}]
    BY <2>3 DEF TypeOK
  <2> QED  BY <2>1, <2>2, <2>4
<1>3. UNCHANGED <<view, seq, msgLog, checkpoint, vcMsgs, bs, store, replied, timer, timeouts,
                  panicked, lock, spawned, requests, pool, sent, rcvd>>
  BY DEF HandleReq, blkVars, timerVars
<1> QED  BY <1>1, <1>2, <1>3 DEF TypeOK

LEMMA ProposeRequestType ==
    ASSUME TypeOK, NEW r \in Server, ProposeRequest(r)
    PROVE  TypeOK'
<1>1. /\ reqPc' \in [Server -> {"idle", "locking"}] /\ lock' \in [Server -> BOOLEAN]
      /\ requests' \in [Server -> Cmd \cup {NoCmd}]
  BY DEF ProposeRequest, TypeOK
<1>2. UNCHANGED <<view, seq, curProposal, checkpoint, vcMsgs, store, replied, timer, timeouts,
                  panicked, spawned, reqFlag, pool, rcvd>>
  BY DEF ProposeRequest, timerVars
<1>3. /\ bs' \in [Server -> BlkStore] /\ msgLog' \in [Server -> [0 .. CheckpointNum - 1 -> Slot]]
      /\ phase' \in [Server -> Phase] /\ sent' \in [Server -> Seq(Msg)]
  BY PreprepareType DEF ProposeRequest
<1> QED  BY <1>1, <1>2, <1>3 DEF TypeOK

LEMMA PreprepareAfterReplyType ==
    ASSUME TypeOK, NEW r \in Server, PreprepareAfterReply(r)
    PROVE  TypeOK'
<1>1. spawned' \in [Server -> Nat]
  BY DEF PreprepareAfterReply, TypeOK
<1>2. UNCHANGED <<view, seq, curProposal, checkpoint, vcMsgs, store, replied, timer, timeouts,
                  panicked, lock, reqPc, requests, reqFlag, pool, rcvd>>
  BY DEF PreprepareAfterReply, timerVars, reqVars
<1>3. /\ bs' \in [Server -> BlkStore] /\ msgLog' \in [Server -> [0 .. CheckpointNum - 1 -> Slot]]
      /\ phase' \in [Server -> Phase] /\ sent' \in [Server -> Seq(Msg)]
  <2>1. CASE lock[r]
    BY <2>1 DEF PreprepareAfterReply, TypeOK
  <2>2. CASE ~lock[r]
    BY <2>2, PreprepareType DEF PreprepareAfterReply
  <2> QED  BY <2>1, <2>2
<1> QED  BY <1>1, <1>2, <1>3 DEF TypeOK

----------------------------------------------------------------------------
(* The types of the normal case *)

\* Logging a prepare or commit keeps the log well-typed.
LEMMA LogMsgType ==
    ASSUME TypeOK, NEW r \in Server, NEW m \in Msg
    PROVE  LogMsg(r, m) \in [0 .. CheckpointNum - 1 -> Slot]
<1> DEFINE i == SlotOf(view[r])
           l == msgLog[r][i]
           new == IF m.type = "PREPARE" THEN [l EXCEPT !.prepares = @ \cup {m}]
                  ELSE [l EXCEPT !.commits = @ \cup {m}]
<1>1. msgLog[r] \in [0 .. CheckpointNum - 1 -> Slot] /\ i \in 0 .. CheckpointNum - 1
  BY SlotType DEF TypeOK
<1>2. l \in Slot
  BY <1>1
<1>3. IsFiniteSet(l.prepares \cup {m}) /\ IsFiniteSet(l.commits \cup {m})
  BY <1>2, FS_AddElement DEF Slot
<1>4. new \in Slot
  <2> HIDE DEF l
  <2> QED  BY <1>2, <1>3 DEF Slot
<1>5. LogMsg(r, m) = [msgLog[r] EXCEPT ![i] = new]
  <2>1. CASE m.type = "PREPARE"
    BY <2>1 DEF LogMsg
  <2>2. CASE m.type # "PREPARE"
    BY <2>2 DEF LogMsg
  <2> QED  BY <2>1, <2>2
<1> HIDE DEF new, i
<1> QED  BY <1>1, <1>4, <1>5

LEMMA LoggedType ==
    ASSUME TypeOK, NEW r \in Server, NEW m \in Msg, NEW P,
           IF P THEN msgLog' = [msgLog EXCEPT ![r] = LogMsg(r, m)] ELSE UNCHANGED msgLog
    PROVE  msgLog' \in [Server -> [0 .. CheckpointNum - 1 -> Slot]]
<1>1. msgLog \in [Server -> [0 .. CheckpointNum - 1 -> Slot]]
  BY DEF TypeOK
<1>2. LogMsg(r, m) \in [0 .. CheckpointNum - 1 -> Slot]
  BY LogMsgType
<1>3. CASE msgLog' = [msgLog EXCEPT ![r] = LogMsg(r, m)]
  BY <1>1, <1>2, <1>3
<1>4. CASE msgLog' = msgLog
  BY <1>1, <1>4
<1> QED  BY <1>3, <1>4

\* The slot after a pre-prepare has been accepted, and the block store.
AcceptedSlot(r, m) ==
    LET early == msgLog[r][SlotOf(view[r])]
    IN  [early EXCEPT !.pp = m,
                      !.commits = IF early.prepares = {} THEN early.commits
                                  ELSE {c \in early.commits : Matches(c, m)}]

Adopted(r, m) ==
    IF IsLeader(r) THEN bs[r] ELSE [bs[r] EXCEPT !.blk = m.block, !.cur = HashOf(m.block)]

Replies(r, m) ==
    /\ msgLog[r][SlotOf(view[r])].prepares # {}
    /\ Cardinality(AcceptedSlot(r, m).commits) >= QuorumSize

LEMMA AcceptedTypes ==
    ASSUME TypeOK, NEW r \in Server, NEW m \in Msg
    PROVE  /\ AcceptedSlot(r, m) \in Slot /\ Adopted(r, m) \in BlkStore
           /\ AcceptedSlot(r, m).pp = m
           /\ AcceptedSlot(r, m).prepares = msgLog[r][SlotOf(view[r])].prepares
           /\ AcceptedSlot(r, m).commits \subseteq msgLog[r][SlotOf(view[r])].commits
<1> DEFINE early == msgLog[r][SlotOf(view[r])]
           commits == IF early.prepares = {} THEN early.commits
                      ELSE {c \in early.commits : Matches(c, m)}
<1>1. msgLog[r] \in [0 .. CheckpointNum - 1 -> Slot] /\ view[r] \in Nat /\ bs[r] \in BlkStore
  BY DEF TypeOK
<1>2. early \in Slot
  BY <1>1, SlotType
<1>3. commits \in SUBSET early.commits
  OBVIOUS
<1>4. IsFiniteSet(early.commits) /\ early.commits \in SUBSET Msg
  BY <1>2 DEF Slot
<1>5. IsFiniteSet(commits) /\ commits \in SUBSET Msg
  <2> HIDE DEF early, commits
  <2> QED  BY <1>3, <1>4, FS_Subset
<1>6. AcceptedSlot(r, m) = [early EXCEPT !.pp = m, !.commits = commits]
  BY DEF AcceptedSlot
<1>7. /\ AcceptedSlot(r, m) \in Slot /\ AcceptedSlot(r, m).pp = m
      /\ AcceptedSlot(r, m).prepares = early.prepares /\ AcceptedSlot(r, m).commits = commits
  <2> HIDE DEF commits, early
  <2> QED  BY <1>2, <1>5, <1>6 DEF Slot
<1>8. Adopted(r, m) \in BlkStore
  <2>1. m.block \in Block /\ HashOf(m.block) \in Hash
    BY HashOfType DEF Msg
  <2>2. [bs[r] EXCEPT !.blk = m.block, !.cur = HashOf(m.block)] \in BlkStore
    BY <1>1, <2>1 DEF BlkStore
  <2> QED  BY <1>1, <2>2 DEF Adopted
<1> QED  BY <1>3, <1>7, <1>8

\* HandlePrePrepare when it accepts.
LEMMA AcceptDoes ==
    ASSUME TypeOK, NEW r \in Server, NEW m \in Msg,
           HandlePrePrepare(r, m), AcceptsPrePrepare(r, m)
    PROVE  /\ m.type = "PREPREPARE"
           /\ msgLog' = [msgLog EXCEPT ![r] = [@ EXCEPT ![SlotOf(view[r])] = AcceptedSlot(r, m)]]
           /\ \/ /\ Replies(r, m)
                 /\ Reply(r, IF IsLeader(r) THEN seq[r] ELSE m.seq, m.digest, Adopted(r, m))
              \/ /\ ~Replies(r, m)
                 /\ Send(r, MkMsg("PREPARE", view[r], m.seq, r, m.digest))
                 /\ bs' = [bs EXCEPT ![r] = Adopted(r, m)]
                 /\ IF IsLeader(r) THEN UNCHANGED <<phase, curProposal, seq, timer>>
                    ELSE /\ phase' = [phase EXCEPT ![r] = "PREPREPARE"]
                         /\ curProposal' = [curProposal EXCEPT ![r] = m.block.cmd]
                         /\ seq' = [seq EXCEPT ![r] = m.seq]
                         /\ timer' = [timer EXCEPT ![r] = FALSE]
                 /\ UNCHANGED <<view, checkpoint, vcMsgs, store, replied, timeouts, panicked,
                                goVars, reqVars>>
<1> DEFINE early   == msgLog[r][SlotOf(view[r])]
           commits == IF early.prepares = {} THEN early.commits
                      ELSE {c \in early.commits : Matches(c, m)}
           slot    == [early EXCEPT !.pp = m, !.commits = commits]
           adopted == IF IsLeader(r) THEN bs[r]
                      ELSE [bs[r] EXCEPT !.blk = m.block, !.cur = HashOf(m.block)]
           replies == early.prepares # {} /\ Cardinality(commits) >= QuorumSize
<1>1. /\ m.type = "PREPREPARE"
      /\ msgLog' = [msgLog EXCEPT ![r] = [@ EXCEPT ![SlotOf(view[r])] = slot]]
      /\ \/ /\ replies
            /\ Reply(r, IF IsLeader(r) THEN seq[r] ELSE m.seq, m.digest, adopted)
         \/ /\ ~replies
            /\ Send(r, MkMsg("PREPARE", view[r], m.seq, r, m.digest))
            /\ bs' = [bs EXCEPT ![r] = adopted]
            /\ IF IsLeader(r) THEN UNCHANGED <<phase, curProposal, seq, timer>>
               ELSE /\ phase' = [phase EXCEPT ![r] = "PREPREPARE"]
                    /\ curProposal' = [curProposal EXCEPT ![r] = m.block.cmd]
                    /\ seq' = [seq EXCEPT ![r] = m.seq]
                    /\ timer' = [timer EXCEPT ![r] = FALSE]
            /\ UNCHANGED <<view, checkpoint, vcMsgs, store, replied, timeouts, panicked,
                           goVars, reqVars>>
  BY ZenonT(60) DEF HandlePrePrepare
<1>2. slot = AcceptedSlot(r, m) /\ adopted = Adopted(r, m)
  BY ZenonT(60) DEF AcceptedSlot, Adopted
<1>3. commits = AcceptedSlot(r, m).commits
  <2>1. early \in Slot
    <3>1. msgLog[r] \in [0 .. CheckpointNum - 1 -> Slot] /\ view[r] \in Nat
      BY DEF TypeOK
    <3> QED  BY <3>1, SlotType
  <2>2. AcceptedSlot(r, m) = [early EXCEPT !.pp = m, !.commits = commits]
    BY DEF AcceptedSlot
  <2> HIDE DEF early, commits
  <2> QED  BY <2>1, <2>2 DEF Slot
<1>4. replies <=> Replies(r, m)
  BY <1>3, ZenonT(60) DEF Replies
<1> HIDE DEF slot, adopted, replies
<1> QED  BY <1>1, <1>2, <1>4, ZenonT(60)

LEMMA HandlePrePrepareType ==
    ASSUME TypeOK, NEW r \in Server, NEW m \in Msg, rcvd' \in [Server -> [Server -> Nat]],
           HandlePrePrepare(r, m)
    PROVE  TypeOK'
<1>1. CASE ~AcceptsPrePrepare(r, m)
  <2>1. UNCHANGED <<phase, view, seq, curProposal, msgLog, checkpoint, vcMsgs, bs, store,
                    replied, timer, timeouts, panicked, lock, reqPc, spawned,
                    requests, reqFlag, pool, sent>>
    BY <1>1 DEF HandlePrePrepare, blkVars, timerVars, goVars, reqVars
  <2> QED  BY <2>1 DEF TypeOK
<1>2. CASE AcceptsPrePrepare(r, m)
  <2>1. /\ msgLog' = [msgLog EXCEPT ![r] = [@ EXCEPT ![SlotOf(view[r])] = AcceptedSlot(r, m)]]
        /\ \/ /\ Replies(r, m)
              /\ Reply(r, IF IsLeader(r) THEN seq[r] ELSE m.seq, m.digest, Adopted(r, m))
           \/ /\ ~Replies(r, m)
              /\ Send(r, MkMsg("PREPARE", view[r], m.seq, r, m.digest))
              /\ bs' = [bs EXCEPT ![r] = Adopted(r, m)]
              /\ IF IsLeader(r) THEN UNCHANGED <<phase, curProposal, seq, timer>>
                 ELSE /\ phase' = [phase EXCEPT ![r] = "PREPREPARE"]
                      /\ curProposal' = [curProposal EXCEPT ![r] = m.block.cmd]
                      /\ seq' = [seq EXCEPT ![r] = m.seq]
                      /\ timer' = [timer EXCEPT ![r] = FALSE]
              /\ UNCHANGED <<view, checkpoint, vcMsgs, store, replied, timeouts, panicked,
                             goVars, reqVars>>
    BY <1>2, AcceptDoes
  <2>2. AcceptedSlot(r, m) \in Slot /\ Adopted(r, m) \in BlkStore
    BY AcceptedTypes
  <2>3. /\ view[r] \in Nat /\ seq[r] \in Nat /\ m.seq \in Nat /\ m.digest \in Hash
        /\ m.block.cmd \in Cmd \cup {NoCmd}
    BY DEF TypeOK, Msg, Block
  <2>4. msgLog' \in [Server -> [0 .. CheckpointNum - 1 -> Slot]]
    BY <2>1, <2>2, <2>3, SlotChangeType
  <2>5. CASE Replies(r, m)
    <3> DEFINE n == IF IsLeader(r) THEN seq[r] ELSE m.seq
    <3>1. Reply(r, n, m.digest, Adopted(r, m)) /\ n \in Nat
      BY <2>1, <2>3, <2>5
    <3> HIDE DEF n
    <3> QED  BY <2>2, <2>3, <2>4, <3>1, ReplyType
  <2>6. CASE ~Replies(r, m)
    <3>1. MkMsg("PREPARE", view[r], m.seq, r, m.digest) \in Msg
      BY <2>3, MkMsgType DEF MsgType
    <3>2. sent' \in [Server -> Seq(Msg)]
      BY <2>1, <2>6, <3>1, SendType DEF TypeOK
    <3>3. bs' \in [Server -> BlkStore]
      BY <2>1, <2>2, <2>6 DEF TypeOK
    <3>4. /\ phase' \in [Server -> Phase] /\ curProposal' \in [Server -> Cmd \cup {NoCmd}]
          /\ seq' \in [Server -> Nat] /\ timer' \in [Server -> BOOLEAN]
      <4>1. CASE IsLeader(r)
        BY <2>1, <2>6, <4>1 DEF TypeOK
      <4>2. CASE ~IsLeader(r)
        <5>1. /\ phase' = [phase EXCEPT ![r] = "PREPREPARE"]
              /\ curProposal' = [curProposal EXCEPT ![r] = m.block.cmd]
              /\ seq' = [seq EXCEPT ![r] = m.seq]
              /\ timer' = [timer EXCEPT ![r] = FALSE]
          BY <2>1, <2>6, <4>2
        <5>2. phase' \in [Server -> Phase] /\ timer' \in [Server -> BOOLEAN]
          BY <5>1 DEF TypeOK, Phase
        <5>3. curProposal' \in [Server -> Cmd \cup {NoCmd}] /\ seq' \in [Server -> Nat]
          BY <2>3, <5>1 DEF TypeOK
        <5> QED  BY <5>2, <5>3
      <4> QED  BY <4>1, <4>2
    <3>5. UNCHANGED <<view, checkpoint, vcMsgs, store, replied, timeouts, panicked, lock, reqPc,
                      spawned, requests, reqFlag, pool>>
      BY <2>1, <2>6 DEF goVars, reqVars
    <3> QED  BY <2>4, <3>2, <3>3, <3>4, <3>5 DEF TypeOK
  <2> QED  BY <2>5, <2>6
<1> QED  BY <1>1, <1>2

LEMMA HandlePrepareType ==
    ASSUME TypeOK, NEW r \in Server, NEW m \in Msg, rcvd' \in [Server -> [Server -> Nat]],
           HandlePrepare(r, m)
    PROVE  TypeOK'
<1>1. msgLog' \in [Server -> [0 .. CheckpointNum - 1 -> Slot]]
  <2>1. IF phase[r] # "VIEW_CHANGE" /\ Filed(r, m)
        THEN msgLog' = [msgLog EXCEPT ![r] = LogMsg(r, m)] ELSE UNCHANGED msgLog
    BY DEF HandlePrepare
  <2> QED  BY <2>1, LoggedType
<1>2. phase' \in [Server -> Phase] /\ sent' \in [Server -> Seq(Msg)]
  <2>1. CASE UNCHANGED <<phase, sent>>
    BY <2>1 DEF TypeOK
  <2>2. CASE /\ phase' = [phase EXCEPT ![r] = "PREPARE"]
             /\ Send(r, MkMsg("COMMIT", view[r], seq[r], r, m.digest))
    <3>1. view[r] \in Nat /\ seq[r] \in Nat /\ m.digest \in Hash
      BY DEF TypeOK, Msg
    <3>2. MkMsg("COMMIT", view[r], seq[r], r, m.digest) \in Msg
      BY <3>1, MkMsgType DEF MsgType
    <3> QED  BY <2>2, <3>2, SendType DEF TypeOK, Phase
  <2> QED  BY <2>1, <2>2 DEF HandlePrepare
<1>3. UNCHANGED <<view, seq, curProposal, checkpoint, vcMsgs, bs, store, replied, timer, timeouts,
                  panicked, lock, reqPc, spawned, requests, reqFlag, pool>>
  BY DEF HandlePrepare, blkVars, timerVars, goVars, reqVars
<1> QED  BY <1>1, <1>2, <1>3 DEF TypeOK

LEMMA HandleCommitType ==
    ASSUME TypeOK, NEW r \in Server, NEW m \in Msg, rcvd' \in [Server -> [Server -> Nat]],
           HandleCommit(r, m)
    PROVE  TypeOK'
<1>1. msgLog' \in [Server -> [0 .. CheckpointNum - 1 -> Slot]]
  <2>1. IF phase[r] # "VIEW_CHANGE" /\ Filed(r, m)
        THEN msgLog' = [msgLog EXCEPT ![r] = LogMsg(r, m)] ELSE UNCHANGED msgLog
    BY DEF HandleCommit
  <2> QED  BY <2>1, LoggedType
<1>2. CASE UNCHANGED <<phase, view, seq, curProposal, checkpoint, vcMsgs, blkVars,
                       timerVars, panicked, goVars, reqVars, sent>>
  <2>1. UNCHANGED <<phase, view, seq, curProposal, checkpoint, vcMsgs, bs, store, replied,
                    timer, timeouts, panicked, lock, reqPc, spawned, requests, reqFlag, pool, sent>>
    BY <1>2 DEF blkVars, timerVars, goVars, reqVars
  <2> QED  BY <1>1, <2>1 DEF TypeOK
<1>3. CASE Reply(r, seq[r], m.digest, bs[r])
  <2>1. seq[r] \in Nat /\ m.digest \in Hash /\ bs[r] \in BlkStore
    BY DEF TypeOK, Msg
  <2> QED  BY <1>1, <1>3, <2>1, ReplyType
<1> QED  BY <1>2, <1>3 DEF HandleCommit

----------------------------------------------------------------------------
(* The types of checkpoints and view changes *)

LEMMA HandleCheckPointType ==
    ASSUME TypeOK, NEW r \in Server, NEW m \in Msg, rcvd' \in [Server -> [Server -> Nat]],
           HandleCheckPoint(r, m)
    PROVE  TypeOK'
<1> DEFINE cp  == checkpoint[r]
           buf == (IF m.seq \in DOMAIN cp.buffer THEN cp.buffer[m.seq] ELSE <<>>) \o <<m>>
           stable == Len(buf) >= QuorumSize
           buffer == [n \in DOMAIN cp.buffer \cup {m.seq} |->
                         IF n # m.seq THEN cp.buffer[n] ELSE IF stable THEN <<>> ELSE buf]
<1>1. IsCheckPoint(cp) /\ m.seq \in Nat
  BY DEF TypeOK, Msg
<1>2. buf \in Seq(Msg)
  <2>1. (IF m.seq \in DOMAIN cp.buffer THEN cp.buffer[m.seq] ELSE <<>>) \in Seq(Msg)
    BY <1>1 DEF IsCheckPoint
  <2> QED  BY <2>1
<1>3. \A n \in DOMAIN buffer : n \in Nat /\ buffer[n] \in Seq(Msg)
  <2> HIDE DEF buf
  <2> QED  BY <1>1, <1>2 DEF IsCheckPoint
<1>4. /\ \/ UNCHANGED <<checkpoint, msgLog, phase>>
         \/ /\ checkpoint' = [checkpoint EXCEPT ![r].buffer = buffer]
            /\ UNCHANGED <<msgLog, phase>>
         \/ /\ checkpoint' = [checkpoint EXCEPT ![r] = [seq |-> m.seq, buffer |-> buffer]]
            /\ msgLog' = [msgLog EXCEPT ![r] = EmptyLog]
            /\ phase' = [phase EXCEPT ![r] = IF IsLeader(r) THEN "WAITING" ELSE "NEW_VIEW"]
      /\ UNCHANGED <<view, seq, curProposal, vcMsgs, blkVars, timerVars, panicked, goVars,
                     reqVars, sent>>
  BY DEF HandleCheckPoint
<1> HIDE DEF buffer, buf
<1>5. DOMAIN checkpoint' = Server /\ \A i \in Server : IsCheckPoint(checkpoint'[i])
  <2>1. IsCheckPoint([seq |-> m.seq, buffer |-> buffer])
    BY <1>1, <1>3 DEF IsCheckPoint
  <2>2. IsCheckPoint([checkpoint[r] EXCEPT !.buffer = buffer])
    <3>1. [checkpoint[r] EXCEPT !.buffer = buffer] = [seq |-> cp.seq, buffer |-> buffer]
      <4>1. checkpoint[r] = [seq |-> cp.seq, buffer |-> checkpoint[r].buffer]
        BY <1>1 DEF IsCheckPoint
      <4> QED  BY <4>1
    <3> QED  BY <1>1, <1>3, <3>1 DEF IsCheckPoint
  <2>3. DOMAIN checkpoint = Server /\ \A i \in Server : IsCheckPoint(checkpoint[i])
    BY DEF TypeOK
  <2>4. CASE checkpoint' = checkpoint
    BY <2>3, <2>4
  <2>5. CASE checkpoint' = [checkpoint EXCEPT ![r].buffer = buffer]
    BY <2>2, <2>3, <2>5
  <2>6. CASE checkpoint' = [checkpoint EXCEPT ![r] = [seq |-> m.seq, buffer |-> buffer]]
    BY <2>1, <2>3, <2>6
  <2> QED  BY <1>4, <2>4, <2>5, <2>6
<1>6. msgLog' \in [Server -> [0 .. CheckpointNum - 1 -> Slot]] /\ phase' \in [Server -> Phase]
  <2>1. EmptyLog \in [0 .. CheckpointNum - 1 -> Slot]
    BY ConstantTypes
  <2>2. \/ UNCHANGED <<msgLog, phase>>
        \/ /\ msgLog' = [msgLog EXCEPT ![r] = EmptyLog]
           /\ phase' = [phase EXCEPT ![r] = IF IsLeader(r) THEN "WAITING" ELSE "NEW_VIEW"]
    BY <1>4
  <2>3. msgLog' \in [Server -> [0 .. CheckpointNum - 1 -> Slot]]
    <3>1. msgLog \in [Server -> [0 .. CheckpointNum - 1 -> Slot]]
      BY DEF TypeOK
    <3>2. CASE msgLog' = msgLog
      BY <3>1, <3>2
    <3>3. CASE msgLog' = [msgLog EXCEPT ![r] = EmptyLog]
      BY <2>1, <3>1, <3>3
    <3> QED  BY <2>2, <3>2, <3>3
  <2>4. phase' \in [Server -> Phase]
    BY <2>2 DEF TypeOK, Phase
  <2> QED  BY <2>3, <2>4
<1>7. UNCHANGED <<view, seq, curProposal, vcMsgs, bs, store, replied, timer, timeouts, panicked,
                  lock, reqPc, spawned, requests, reqFlag, pool, sent>>
  BY <1>4 DEF blkVars, timerVars, goVars, reqVars
<1> QED  BY <1>5, <1>6, <1>7 DEF TypeOK

\* GetValidMsgs returns prepared pre-prepares.
LEMMA ValidMsgsType == ASSUME TypeOK, NEW r \in Server PROVE GetValidMsgs(r) \in Seq(Pm)
<1> DEFINE log == msgLog[r]
           valid(i) == log[i].pp # NoMsg /\ Cardinality(log[i].prepares) >= QuorumSize
           pm(i) == [seq |-> log[i].pp.seq, digest |-> log[i].pp.digest,
                     top |-> Max({p.seq : p \in log[i].prepares})]
           ends == {i \in 0 .. CheckpointNum : i = CheckpointNum \/ ~valid(i)}
<1>1. Min(ends) \in ends /\ \A y \in ends : Min(ends) <= y
  <2>1. ends \in SUBSET Nat /\ ends # {}
    BY CheckpointAssumption
  <2> HIDE DEF ends
  <2> QED  BY <2>1, LeastNumber
<1>2. Min(ends) \in 0 .. CheckpointNum
  BY <1>1
<1>3. ASSUME NEW i \in 0 .. Min(ends) - 1 PROVE pm(i) \in Pm
  <2>1. i \in 0 .. CheckpointNum - 1 /\ i \notin ends
    <3>1. i \in 0 .. CheckpointNum - 1 /\ ~ (Min(ends) <= i)
      BY <1>2, CheckpointAssumption
    <3> HIDE DEF ends
    <3> QED  BY <1>1, <3>1
  <2>2. valid(i)
    BY <2>1, CheckpointAssumption
  <2>3. log[i] \in Slot
    <3>1. log \in [0 .. CheckpointNum - 1 -> Slot]
      BY DEF TypeOK
    <3> QED  BY <2>1, <3>1
  <2>4. log[i].pp \in Msg /\ log[i].prepares \in SUBSET Msg /\ IsFiniteSet(log[i].prepares)
    BY <2>2, <2>3 DEF Slot
  <2>5. log[i].prepares # {}
    <3>1. Cardinality(log[i].prepares) # 0
      BY <2>2, QuorumType
    <3> QED  BY <3>1, FS_EmptySet
  <2>6. Max({p.seq : p \in log[i].prepares}) \in Nat
    <3> DEFINE T == {p.seq : p \in log[i].prepares}
    <3>1. T \in SUBSET Nat /\ T # {}
      BY <2>4, <2>5 DEF Msg
    <3>2. IsFiniteSet(T)
      <4> DEFINE f == [p \in log[i].prepares |-> p.seq]
      <4>1. DOMAIN f = log[i].prepares /\ \A p \in log[i].prepares : f[p] = p.seq
        OBVIOUS
      <4>2. T = {f[p] : p \in log[i].prepares}
        BY <4>1
      <4> HIDE DEF f, T
      <4> QED  BY <2>4, <4>1, <4>2, FiniteImage
    <3>3. T \in SUBSET Int
      BY <3>1
    <3> HIDE DEF T
    <3>4. Max(T) \in T
      BY <3>1, <3>2, <3>3, GreatestNumber
    <3>5. Max(T) \in Nat
      BY <3>1, <3>4
    <3> QED  BY <3>5 DEF T
  <2>7. log[i].pp.seq \in Nat /\ log[i].pp.digest \in Hash
    BY <2>4 DEF Msg
  <2> QED  BY <2>6, <2>7 DEF Pm
<1>4. GetValidMsgs(r) = [k \in 1 .. Min(ends) |-> pm(k - 1)]
  BY DEF GetValidMsgs
<1>5. \A k \in 1 .. Min(ends) : pm(k - 1) \in Pm
  <2> SUFFICES ASSUME NEW k \in 1 .. Min(ends) PROVE pm(k - 1) \in Pm
    OBVIOUS
  <2>1. k - 1 \in 0 .. Min(ends) - 1
    BY <1>2
  <2> HIDE DEF pm, ends
  <2> QED  BY <2>1, <1>3
<1> HIDE DEF pm, ends
<1>6. GetValidMsgs(r) \in [1 .. Min(ends) -> Pm]
  BY <1>4, <1>5
<1> QED  BY <1>2, <1>6, SequenceOf

LEMMA StartViewChangeType ==
    ASSUME TypeOK, NEW r \in Server, StartViewChange(r)
    PROVE  TypeOK'
<1>1. sent' \in [Server -> Seq(Msg)]
  <2> DEFINE m == [MkMsg("VIEW_CHANGE", view[r] + 1, checkpoint[r].seq, r, NilHash)
                      EXCEPT !.pset = GetValidMsgs(r)]
  <2>1. /\ view[r] + 1 \in Nat /\ checkpoint[r].seq \in Nat /\ NilHash \in Hash
        /\ "VIEW_CHANGE" \in MsgType /\ GetValidMsgs(r) \in Seq(Pm)
    <3>1. view[r] + 1 \in Nat /\ checkpoint[r].seq \in Nat
      BY DEF TypeOK, IsCheckPoint
    <3> QED  BY <3>1, ConstantTypes, ValidMsgsType DEF MsgType
  <2>2. m \in Msg
    BY <2>1, MkMsgType
  <2>3. Send(r, m)
    BY DEF StartViewChange
  <2> HIDE DEF m
  <2> QED  BY <2>2, <2>3, SendType DEF TypeOK
<1>2. timeouts' \in Nat /\ timer' \in [Server -> BOOLEAN] /\ phase' \in [Server -> Phase]
  BY DEF StartViewChange, TypeOK, Phase
<1>3. UNCHANGED <<view, seq, curProposal, msgLog, checkpoint, vcMsgs, bs, store, replied,
                  panicked, lock, reqPc, spawned, requests, reqFlag, pool, rcvd>>
  BY DEF StartViewChange, blkVars, goVars, reqVars
<1> QED  BY <1>1, <1>2, <1>3 DEF TypeOK

\* The elements of a list are finitely many.
LEMMA ToSetType ==
    ASSUME NEW S, NEW l \in Seq(S)
    PROVE  ToSet(l) \in SUBSET S /\ IsFiniteSet(ToSet(l))
<1>1. DOMAIN l = 1 .. Len(l) /\ Len(l) \in Nat /\ \A i \in DOMAIN l : l[i] \in S
  OBVIOUS
<1>2. IsFiniteSet(1 .. Len(l))
  BY <1>1, FS_Interval
<1>3. IsFiniteSet({l[i] : i \in DOMAIN l})
  BY <1>1, <1>2, FiniteImage
<1> QED  BY <1>1, <1>3 DEF ToSet

\* All the Pm of a list of view-change messages, and the numbers of GetSeq.
LEMMA PSetsType ==
    ASSUME NEW vcs \in Seq(Msg)
    PROVE  PSets(vcs) \in SUBSET Pm /\ IsFiniteSet(PSets(vcs))
<1>1. DOMAIN vcs = 1 .. Len(vcs) /\ Len(vcs) \in Nat
  OBVIOUS
<1>2. \A i \in DOMAIN vcs : vcs[i].pset \in Seq(Pm)
  <2>1. \A i \in DOMAIN vcs : vcs[i] \in Msg
    OBVIOUS
  <2> QED  BY <2>1 DEF Msg
<1> DEFINE f == [i \in DOMAIN vcs |-> ToSet(vcs[i].pset)]
           T == {f[i] : i \in DOMAIN vcs}
<1>3. \A i \in DOMAIN vcs : f[i] \in SUBSET Pm /\ IsFiniteSet(f[i])
  BY <1>2, ToSetType
<1>4. IsFiniteSet(T)
  <2>1. IsFiniteSet(DOMAIN vcs)
    BY <1>1, FS_Interval
  <2>2. DOMAIN f = DOMAIN vcs
    OBVIOUS
  <2> HIDE DEF f
  <2> QED  BY <2>1, <2>2, FiniteImage
<1>5. PSets(vcs) = UNION T
  BY DEF PSets
<1> HIDE DEF f
<1>6. \A s \in T : s \in SUBSET Pm /\ IsFiniteSet(s)
  BY <1>3
<1> HIDE DEF T
<1>7. IsFiniteSet(UNION T)
  BY <1>4, <1>6, FS_UNION
<1> QED  BY <1>5, <1>6, <1>7

LEMMA MinSType ==
    ASSUME NEW vcs \in Seq(Msg), vcs # <<>>
    PROVE  MinS(vcs) \in Nat
<1> DEFINE f == [i \in DOMAIN vcs |-> vcs[i].seq]
           T == {f[i] : i \in DOMAIN vcs}
<1>1. DOMAIN vcs = 1 .. Len(vcs) /\ Len(vcs) \in Nat /\ Len(vcs) > 0
  OBVIOUS
<1>2. T \in SUBSET Nat
  <2>1. \A i \in DOMAIN vcs : vcs[i] \in Msg
    OBVIOUS
  <2> QED  BY <2>1 DEF Msg
<1>3. T # {} /\ T \in SUBSET Int
  BY <1>1, <1>2
<1>4. IsFiniteSet(T)
  <2>1. IsFiniteSet(DOMAIN vcs) /\ DOMAIN f = DOMAIN vcs
    BY <1>1, FS_Interval
  <2> HIDE DEF f
  <2> QED  BY <2>1, FiniteImage
<1>5. MinS(vcs) = Max(T)
  BY DEF MinS
<1> HIDE DEF T
<1>6. Max(T) \in T
  BY <1>3, <1>4, GreatestNumber
<1> QED  BY <1>2, <1>5, <1>6

LEMMA MaxSType ==
    ASSUME NEW vcs \in Seq(Msg)
    PROVE  MaxS(vcs) \in Int
<1> DEFINE f == [p \in PSets(vcs) |-> p.top]
           T == {f[p] : p \in PSets(vcs)}
           U == {-1} \cup T
<1>1. PSets(vcs) \in SUBSET Pm /\ IsFiniteSet(PSets(vcs))
  BY PSetsType
<1>2. T \in SUBSET Nat
  BY <1>1 DEF Pm
<1>3. IsFiniteSet(T)
  <2>1. DOMAIN f = PSets(vcs)
    OBVIOUS
  <2> HIDE DEF f
  <2> QED  BY <1>1, <2>1, FiniteImage
<1>4. MaxS(vcs) = Max(U)
  <2>1. U = {-1} \cup {pm.top : pm \in PSets(vcs)}
    OBVIOUS
  <2> HIDE DEF U
  <2> QED  BY <2>1 DEF MaxS
<1>5. IsFiniteSet({-1})
  BY FS_Singleton
<1>6. U # {} /\ U \in SUBSET Int /\ IsFiniteSet(U)
  <2> HIDE DEF T
  <2>1. IsFiniteSet(U)
    BY <1>3, <1>5, FS_Union
  <2> QED  BY <1>2, <2>1
<1> HIDE DEF U
<1>7. Max(U) \in U
  BY <1>6, GreatestNumber
<1> QED  BY <1>4, <1>6, <1>7

\* The digest found for a number is a hash.
LEMMA FirstDigestType ==
    ASSUME NEW vcs \in Seq(Msg), NEW n \in Int
    PROVE  FirstDigest(vcs, n) \in Hash
<1> DEFINE found(list) == {k \in DOMAIN list : list[k].seq = n}
           with == {i \in DOMAIN vcs : found(vcs[i].pset) # {}}
           list == vcs[Min(with)].pset
<1>1. CASE with = {}
  BY <1>1, ConstantTypes DEF FirstDigest
<1>2. CASE with # {}
  <2>1. with \in SUBSET Nat
    OBVIOUS
  <2>2. Min(with) \in with
    <3> HIDE DEF with
    <3> QED  BY <1>2, <2>1, LeastNumber
  <2>3. vcs[Min(with)] \in Msg /\ found(list) # {}
    <3>1. \A i \in with : i \in DOMAIN vcs /\ found(vcs[i].pset) # {}
      OBVIOUS
    <3>2. Min(with) \in DOMAIN vcs /\ found(list) # {}
      BY <2>2, <3>1
    <3> HIDE DEF with, found
    <3> QED  BY <3>2
  <2>4. list \in Seq(Pm)
    <3> HIDE DEF with
    <3> QED  BY <2>3 DEF Msg
  <2>5. FirstDigest(vcs, n) = list[Min(found(list))].digest
    BY <1>2 DEF FirstDigest
  <2> HIDE DEF list
  <2>6. found(list) \in SUBSET Nat
    BY <2>4
  <2>7. Min(found(list)) \in found(list)
    <3> HIDE DEF found
    <3> QED  BY <2>3, <2>6, LeastNumber
  <2>8. Min(found(list)) \in DOMAIN list
    BY <2>7
  <2>9. list[Min(found(list))] \in Pm
    BY <2>4, <2>8
  <2> QED  BY <2>5, <2>9 DEF Pm
<1> QED  BY <1>1, <1>2

\* The OSet of a list of view-change messages.
LEMMA OSetType ==
    ASSUME NEW vcs \in Seq(Msg), vcs # <<>>
    PROVE  OSet(vcs) \in Seq(Redo)
<1> DEFINE n == MaxS(vcs) - MinS(vcs) + 1
           o == [k \in 1 .. n |->
                    [seq |-> MinS(vcs) + k - 1, digest |-> FirstDigest(vcs, MinS(vcs) + k - 1)]]
<1>1. MinS(vcs) \in Nat /\ MaxS(vcs) \in Int
  BY MinSType, MaxSType
<1>2. \A k \in 1 .. n : o[k] \in Redo
  <2> SUFFICES ASSUME NEW k \in 1 .. n PROVE o[k] \in Redo
    OBVIOUS
  <2>1. MinS(vcs) + k - 1 \in Nat
    BY <1>1
  <2>2. FirstDigest(vcs, MinS(vcs) + k - 1) \in Hash
    BY <2>1, FirstDigestType
  <2> QED  BY <2>1, <2>2 DEF Redo
<1>3. OSet(vcs) = <<>> \/ OSet(vcs) = o
  BY DEF OSet
<1>4. n \in Int /\ o \in [1 .. n -> Redo]
  BY <1>1, <1>2
<1> HIDE DEF o, n
<1>5. o \in Seq(Redo) /\ <<>> \in Seq(Redo)
  BY <1>4, SequenceOf
<1> QED  BY <1>3, <1>5

\* The lists of the view change.
LEMMA VCMsgsType ==
    ASSUME TypeOK, NEW r \in Server
    PROVE  /\ vcMsgs[r].vcs \in Seq(Msg) /\ vcMsgs[r].prepares \in Seq(Msg)
           /\ vcMsgs[r].commits \in Seq(Msg)
           /\ \A l \in Seq(Msg) :
                 /\ [vcMsgs EXCEPT ![r].vcs = l] \in [Server -> VCMsgs]
                 /\ [vcMsgs EXCEPT ![r].prepares = l] \in [Server -> VCMsgs]
                 /\ [vcMsgs EXCEPT ![r].commits = l] \in [Server -> VCMsgs]
<1>1. vcMsgs \in [Server -> VCMsgs]
  BY DEF TypeOK
<1>2. vcMsgs[r] \in VCMsgs
  BY <1>1
<1> SUFFICES ASSUME NEW l \in Seq(Msg)
             PROVE  /\ [vcMsgs EXCEPT ![r].vcs = l] \in [Server -> VCMsgs]
                    /\ [vcMsgs EXCEPT ![r].prepares = l] \in [Server -> VCMsgs]
                    /\ [vcMsgs EXCEPT ![r].commits = l] \in [Server -> VCMsgs]
  BY <1>2 DEF VCMsgs
<1>3. /\ [vcMsgs[r] EXCEPT !.vcs = l] \in VCMsgs
      /\ [vcMsgs[r] EXCEPT !.prepares = l] \in VCMsgs
      /\ [vcMsgs[r] EXCEPT !.commits = l] \in VCMsgs
  BY <1>2 DEF VCMsgs
<1> QED  BY <1>1, <1>3

LEMMA HandleViewChangeType ==
    ASSUME TypeOK, NEW r \in Server, NEW m \in Msg, rcvd' \in [Server -> [Server -> Nat]],
           HandleViewChange(r, m)
    PROVE  TypeOK'
<1> DEFINE vcs == Append(vcMsgs[r].vcs, m)
           v   == IF m.view > view[r] THEN m.view ELSE view[r]
           new == [MkMsg("NEW_VIEW", v, 0, r, NilHash) EXCEPT !.oset = OSet(vcs)]
<1>1. vcMsgs[r].vcs \in Seq(Msg)
  BY VCMsgsType
<1>2. vcs \in Seq(Msg) /\ vcs # <<>> /\ v \in Nat
  <2>1. m.view \in Nat /\ view[r] \in Nat
    BY DEF TypeOK, Msg
  <2>2. v \in Nat
    BY <2>1
  <2>3. vcs \in Seq(Msg) /\ Len(vcs) = Len(vcMsgs[r].vcs) + 1
    BY <1>1
  <2>4. vcs # <<>>
    <3> HIDE DEF vcs
    <3>1. Len(vcs) # 0
      BY <1>1, <2>3
    <3> QED  BY <3>1
  <2> QED  BY <2>2, <2>3, <2>4
<1>3. new \in Msg
  <2>1. OSet(vcs) \in Seq(Redo)
    <3> HIDE DEF vcs
    <3> QED  BY <1>2, OSetType
  <2> HIDE DEF vcs, v
  <2> QED  BY <1>2, <2>1, MkMsgType, ConstantTypes DEF MsgType
<1>4. /\ vcMsgs' = [vcMsgs EXCEPT ![r].vcs = vcs]
      /\ \/ UNCHANGED <<view, sent>>
         \/ /\ view' = [view EXCEPT ![r] = v]
            /\ Send(r, new) \/ UNCHANGED sent
      /\ UNCHANGED <<phase, seq, curProposal, msgLog, checkpoint, bs, store, replied, timer,
                     timeouts, panicked, lock, reqPc, spawned, requests, reqFlag, pool>>
  BY DEF HandleViewChange, blkVars, timerVars, goVars, reqVars
<1> HIDE DEF vcs, v, new
<1>5. vcMsgs' \in [Server -> VCMsgs]
  BY <1>2, <1>4, VCMsgsType
<1>6. view' \in [Server -> Nat]
  BY <1>2, <1>4 DEF TypeOK
<1>7. sent' \in [Server -> Seq(Msg)]
  BY <1>3, <1>4, SendType DEF TypeOK
<1> QED  BY <1>4, <1>5, <1>6, <1>7 DEF TypeOK

LEMMA VCReplyType ==
    ASSUME TypeOK, NEW r \in Server, NEW v, VCReply(r, v)
    PROVE  /\ vcMsgs' \in [Server -> VCMsgs] /\ timer' \in [Server -> BOOLEAN]
           /\ phase' \in [Server -> Phase] /\ spawned' \in [Server -> Nat]
<1>1. NoVCMsgs \in VCMsgs
  BY ConstantTypes
<1>2. vcMsgs' = [vcMsgs EXCEPT ![r] = NoVCMsgs] /\ vcMsgs \in [Server -> VCMsgs]
  BY DEF VCReply, TypeOK
<1>3. timer' \in [Server -> BOOLEAN] /\ phase' \in [Server -> Phase]
  BY DEF VCReply, TypeOK, Phase
<1>4. spawned' \in [Server -> Nat]
  BY DEF VCReply, TypeOK
<1> QED  BY <1>1, <1>2, <1>3, <1>4

LEMMA HandleNewViewType ==
    ASSUME TypeOK, NEW r \in Server, NEW m \in Msg, rcvd' \in [Server -> [Server -> Nat]],
           HandleNewView(r, m)
    PROVE  TypeOK'
<1> DEFINE new == [MkMsg("VC_PREPARE", view[r], 0, r, NilHash) EXCEPT !.oset = m.oset]
<1>1. new \in Msg
  <2>1. view[r] \in Nat /\ NilHash \in Hash /\ m.oset \in Seq(Redo) /\ "VC_PREPARE" \in MsgType
    BY ConstantTypes DEF TypeOK, Msg, MsgType
  <2> QED  BY <2>1, MkMsgType
<1>2. panicked' \in [Server -> BOOLEAN]
  <2>1. (m.view = view[r] /\ Panics(vcMsgs[r].vcs, m.oset)) \in BOOLEAN
    OBVIOUS
  <2>2. panicked' = [panicked EXCEPT ![r] = m.view = view[r] /\ Panics(vcMsgs[r].vcs, m.oset)]
    BY DEF HandleNewView
  <2> QED  BY <2>1, <2>2, Zenon DEF TypeOK
<1>3. \/ UNCHANGED <<curProposal, bs, msgLog, vcMsgs, timer, phase, spawned, sent>>
      \/ /\ curProposal' = [curProposal EXCEPT ![r] = NoCmd]
         /\ bs' = [bs EXCEPT ![r] = [@ EXCEPT !.blk = EmptyBlock, !.cur = EmptyHash]]
         /\ msgLog' = [msgLog EXCEPT ![r] = EmptyLog]
         /\ \/ VCReply(r, view[r]) /\ UNCHANGED sent
            \/ Send(r, new) /\ UNCHANGED <<vcMsgs, timer, phase, spawned>>
  BY DEF HandleNewView
<1> HIDE DEF new
<1>4. UNCHANGED <<view, seq, checkpoint, store, replied, timeouts, lock, reqPc, requests,
                  reqFlag, pool>>
  BY DEF HandleNewView, reqVars
<1>5. CASE UNCHANGED <<curProposal, bs, msgLog, vcMsgs, timer, phase, spawned, sent>>
  BY <1>2, <1>4, <1>5 DEF TypeOK
<1>6. CASE /\ curProposal' = [curProposal EXCEPT ![r] = NoCmd]
           /\ bs' = [bs EXCEPT ![r] = [@ EXCEPT !.blk = EmptyBlock, !.cur = EmptyHash]]
           /\ msgLog' = [msgLog EXCEPT ![r] = EmptyLog]
           /\ \/ VCReply(r, view[r]) /\ UNCHANGED sent
              \/ Send(r, new) /\ UNCHANGED <<vcMsgs, timer, phase, spawned>>
  <2>1. curProposal' \in [Server -> Cmd \cup {NoCmd}]
    BY <1>6 DEF TypeOK
  <2>2. bs' \in [Server -> BlkStore]
    <3>1. bs[r] \in BlkStore /\ EmptyBlock \in Block /\ EmptyHash \in Hash
      BY ConstantTypes DEF TypeOK
    <3>2. [bs[r] EXCEPT !.blk = EmptyBlock, !.cur = EmptyHash] \in BlkStore
      BY <3>1 DEF BlkStore
    <3> QED  BY <1>6, <3>2 DEF TypeOK
  <2>3. msgLog' \in [Server -> [0 .. CheckpointNum - 1 -> Slot]]
    <3>1. EmptyLog \in [0 .. CheckpointNum - 1 -> Slot]
      BY ConstantTypes
    <3>2. msgLog \in [Server -> [0 .. CheckpointNum - 1 -> Slot]]
      BY DEF TypeOK
    <3> QED  BY <1>6, <3>1, <3>2
  <2>4. CASE VCReply(r, view[r]) /\ UNCHANGED sent
    <3>1. /\ vcMsgs' \in [Server -> VCMsgs] /\ timer' \in [Server -> BOOLEAN]
          /\ phase' \in [Server -> Phase] /\ spawned' \in [Server -> Nat]
      BY <2>4, VCReplyType
    <3> QED  BY <1>2, <1>4, <2>1, <2>2, <2>3, <2>4, <3>1 DEF TypeOK
  <2>5. CASE Send(r, new) /\ UNCHANGED <<vcMsgs, timer, phase, spawned>>
    <3>1. sent' \in [Server -> Seq(Msg)]
      BY <1>1, <2>5, SendType DEF TypeOK
    <3> QED  BY <1>2, <1>4, <2>1, <2>2, <2>3, <2>5, <3>1 DEF TypeOK
  <2> QED  BY <1>6, <2>4, <2>5
<1> QED  BY <1>3, <1>5, <1>6

LEMMA HandleVCPrepareType ==
    ASSUME TypeOK, NEW r \in Server, NEW m \in Msg, rcvd' \in [Server -> [Server -> Nat]],
           HandleVCPrepare(r, m)
    PROVE  TypeOK'
<1> DEFINE prepares == Append(vcMsgs[r].prepares, m)
           new == [MkMsg("VC_COMMIT", view[r], 0, r, NilHash) EXCEPT !.oset = m.oset]
<1>1. new \in Msg
  <2>1. view[r] \in Nat /\ NilHash \in Hash /\ m.oset \in Seq(Redo) /\ "VC_COMMIT" \in MsgType
    BY ConstantTypes DEF TypeOK, Msg, MsgType
  <2> QED  BY <2>1, MkMsgType
<1>2. prepares \in Seq(Msg)
  BY VCMsgsType
<1>3. /\ \/ UNCHANGED <<vcMsgs, sent>>
         \/ /\ vcMsgs' = [vcMsgs EXCEPT ![r].prepares = prepares]
            /\ Send(r, new) \/ UNCHANGED sent
      /\ UNCHANGED <<phase, view, seq, curProposal, msgLog, checkpoint, bs, store, replied,
                     timer, timeouts, panicked, lock, reqPc, spawned, requests, reqFlag, pool>>
  BY DEF HandleVCPrepare, blkVars, timerVars, goVars, reqVars
<1> HIDE DEF new, prepares
<1>4. vcMsgs' \in [Server -> VCMsgs]
  <2>1. CASE vcMsgs' = vcMsgs
    BY <2>1 DEF TypeOK
  <2>2. CASE vcMsgs' = [vcMsgs EXCEPT ![r].prepares = prepares]
    BY <1>2, <2>2, VCMsgsType
  <2> QED  BY <1>3, <2>1, <2>2
<1>5. sent' \in [Server -> Seq(Msg)]
  BY <1>1, <1>3, SendType DEF TypeOK
<1> QED  BY <1>3, <1>4, <1>5 DEF TypeOK

\* The highest sequence number of a list of redone commits.
LEMMA TopType ==
    ASSUME NEW l \in Seq(Msg)
    PROVE  Max({0} \cup {o.seq : o \in UNION {ToSet(c.oset) : c \in ToSet(l)}}) \in Nat
<1> DEFINE f == [c \in ToSet(l) |-> ToSet(c.oset)]
           Lists == {f[c] : c \in ToSet(l)}
           U == UNION Lists
           g == [o \in U |-> o.seq]
           T == {g[o] : o \in U}
<1>1. ToSet(l) \in SUBSET Msg /\ IsFiniteSet(ToSet(l))
  BY ToSetType
<1>2. \A c \in ToSet(l) : f[c] \in SUBSET Redo /\ IsFiniteSet(f[c])
  <2>1. \A c \in ToSet(l) : c.oset \in Seq(Redo)
    BY <1>1 DEF Msg
  <2> QED  BY <2>1, ToSetType
<1>3. U = UNION {ToSet(c.oset) : c \in ToSet(l)}
  OBVIOUS
<1>4. IsFiniteSet(Lists)
  <2>1. DOMAIN f = ToSet(l)
    OBVIOUS
  <2> HIDE DEF f
  <2> QED  BY <1>1, <2>1, FiniteImage
<1>5. IsFiniteSet(U) /\ U \in SUBSET Redo
  <2>1. \A s \in Lists : s \in SUBSET Redo /\ IsFiniteSet(s)
    <3> HIDE DEF f
    <3> QED  BY <1>2
  <2> HIDE DEF Lists
  <2> QED  BY <1>4, <2>1, FS_UNION
<1> HIDE DEF U
<1>6. IsFiniteSet(T) /\ T \in SUBSET Nat
  <2>1. DOMAIN g = U /\ \A o \in U : g[o] \in Nat
    BY <1>5 DEF Redo
  <2> HIDE DEF g
  <2>2. IsFiniteSet(T)
    BY <1>5, <2>1, FiniteImage
  <2> QED  BY <2>1, <2>2
<1>7. {0} \cup T = {0} \cup {o.seq : o \in U}
  OBVIOUS
<1> HIDE DEF T
<1>8. IsFiniteSet({0} \cup T)
  BY <1>6, FS_Singleton, FS_Union
<1>9. {0} \cup T \in SUBSET Nat /\ {0} \cup T # {} /\ {0} \cup T \in SUBSET Int
  BY <1>6
<1>10. Max({0} \cup T) \in {0} \cup T
  <2> DEFINE S == {0} \cup T
  <2>1. S \in SUBSET Int /\ S # {} /\ IsFiniteSet(S)
    BY <1>8, <1>9
  <2> HIDE DEF S
  <2>2. Max(S) \in S
    BY <2>1, GreatestNumber
  <2> QED  BY <2>2 DEF S
<1>11. Max({0} \cup T) \in Nat
  BY <1>9, <1>10
<1> QED  BY <1>3, <1>7, <1>11

LEMMA HandleVCCommitType ==
    ASSUME TypeOK, NEW r \in Server, NEW m \in Msg, rcvd' \in [Server -> [Server -> Nat]],
           HandleVCCommit(r, m)
    PROVE  TypeOK'
<1> DEFINE commits == Append(vcMsgs[r].commits, m)
           top == Max({0} \cup {o.seq : o \in UNION {ToSet(c.oset) : c \in ToSet(commits)}})
<1>1. commits \in Seq(Msg)
  BY VCMsgsType
<1>2. top \in Nat
  <2> HIDE DEF commits
  <2> QED  BY <1>1, TopType
<1>3. UNCHANGED <<curProposal, msgLog, checkpoint, bs, store, replied, timeouts, lock, reqPc,
                  requests, reqFlag, pool, sent>>
  BY DEF HandleVCCommit, blkVars, reqVars
<1>4. \/ UNCHANGED <<vcMsgs, view, seq, timer, phase, spawned, panicked>>
      \/ /\ vcMsgs' = [vcMsgs EXCEPT ![r].commits = commits]
         /\ UNCHANGED <<view, seq, timer, phase, spawned, panicked>>
      \/ /\ view' = [view EXCEPT ![r] = @ + 1]
         /\ seq' = [seq EXCEPT ![r] = top + 1]
         /\ panicked' = [panicked EXCEPT ![r] = RedoPanics(r, m)]
         /\ VCReply(r, view[r] + 1)
  BY DEF HandleVCCommit
<1> HIDE DEF top, commits
<1>5. CASE UNCHANGED <<vcMsgs, view, seq, timer, phase, spawned, panicked>>
  BY <1>3, <1>5 DEF TypeOK
<1>6. CASE /\ vcMsgs' = [vcMsgs EXCEPT ![r].commits = commits]
           /\ UNCHANGED <<view, seq, timer, phase, spawned, panicked>>
  <2>1. vcMsgs' \in [Server -> VCMsgs]
    BY <1>1, <1>6, VCMsgsType
  <2> QED  BY <1>3, <1>6, <2>1 DEF TypeOK
<1>7. CASE /\ view' = [view EXCEPT ![r] = @ + 1]
           /\ seq' = [seq EXCEPT ![r] = top + 1]
           /\ panicked' = [panicked EXCEPT ![r] = RedoPanics(r, m)]
           /\ VCReply(r, view[r] + 1)
  <2>1. /\ vcMsgs' \in [Server -> VCMsgs] /\ timer' \in [Server -> BOOLEAN]
        /\ phase' \in [Server -> Phase] /\ spawned' \in [Server -> Nat]
    BY <1>7, VCReplyType
  <2>2. view' \in [Server -> Nat] /\ seq' \in [Server -> Nat]
    BY <1>2, <1>7 DEF TypeOK
  <2>3. RedoPanics(r, m) \in BOOLEAN
    BY DEF RedoPanics
  <2>4. panicked' \in [Server -> BOOLEAN]
    BY <1>7, <2>3 DEF TypeOK
  <2> QED  BY <1>3, <2>1, <2>2, <2>4 DEF TypeOK
<1> QED  BY <1>4, <1>5, <1>6, <1>7

----------------------------------------------------------------------------
(* Type correctness *)

LEMMA ReceiveType ==
    ASSUME TypeOK, NEW r \in Server, NEW s \in Server, Receive(r, s)
    PROVE  TypeOK'
<1> DEFINE m == sent[s][rcvd[r][s] + 1]
<1>1. rcvd[r][s] < Len(sent[s]) /\ HandlePMsg(r, m) /\ rcvd' = [rcvd EXCEPT ![r][s] = @ + 1]
  BY DEF Receive
<1>2. m \in Msg
  BY <1>1, NextMessage
<1>3. rcvd' \in [Server -> [Server -> Nat]]
  <2>1. rcvd \in [Server -> [Server -> Nat]] /\ rcvd[r] \in [Server -> Nat] /\ rcvd[r][s] \in Nat
    BY DEF TypeOK
  <2> QED  BY <1>1, <2>1
<1> HIDE DEF m
<1>4. CASE UNCHANGED <<phase, view, seq, curProposal, msgLog, checkpoint, vcMsgs, blkVars,
                       timerVars, panicked, goVars, reqVars, sent>>
  <2>1. UNCHANGED <<phase, view, seq, curProposal, msgLog, checkpoint, vcMsgs, bs, store,
                    replied, timer, timeouts, panicked, lock, reqPc, spawned,
                    requests, reqFlag, pool, sent>>
    BY <1>4 DEF blkVars, timerVars, goVars, reqVars
  <2> QED  BY <1>3, <2>1 DEF TypeOK
<1>5. CASE \/ HandlePrePrepare(r, m) \/ HandlePrepare(r, m) \/ HandleCommit(r, m)
           \/ HandleCheckPoint(r, m) \/ HandleViewChange(r, m) \/ HandleNewView(r, m)
           \/ HandleVCPrepare(r, m) \/ HandleVCCommit(r, m)
  BY <1>2, <1>3, <1>5, HandlePrePrepareType, HandlePrepareType, HandleCommitType,
     HandleCheckPointType, HandleViewChangeType, HandleNewViewType, HandleVCPrepareType,
     HandleVCCommitType
<1> QED  BY <1>1, <1>4, <1>5 DEF HandlePMsg

LEMMA NextType == ASSUME TypeOK, [Next]_vars PROVE TypeOK'
<1>1. CASE Next
  BY <1>1, GenNewReqType, HandleReqType, ProposeRequestType, PreprepareAfterReplyType,
     ReceiveType, StartViewChangeType DEF Next
<1>2. CASE UNCHANGED vars
  <2>1. UNCHANGED <<phase, view, seq, curProposal, msgLog, checkpoint, vcMsgs, bs, store,
                    replied, timer, timeouts, panicked, lock, reqPc, spawned,
                    requests, reqFlag, pool, sent, rcvd>>
    BY <1>2 DEF vars, blkVars, timerVars, goVars, reqVars
  <2> QED  BY <2>1 DEF TypeOK
<1> QED  BY <1>1, <1>2

\* Every variable keeps the type of its field in PBFT, BlockStore and Server, through
\* every handler, checkpoint and view change.
THEOREM PTypeCorrect == Spec => []TypeOK
<1>1. Init => TypeOK
  BY InitType
<1>2. TypeOK /\ [Next]_vars => TypeOK'
  BY NextType
<1> QED  BY <1>1, <1>2, PTL DEF Spec

----------------------------------------------------------------------------
(* What is sent stays sent *)

LEMMA SaidSent ==
    ASSUME NEW m, NEW t
    PROVE  /\ m \in Said(t) <=> m.type = t /\ \E s \in Server : m \in Sent(s)
           /\ m \in Said(t)' <=> m.type = t /\ \E s \in Server : m \in Sent(s)'
<1>1. m \in Said(t) <=> m.type = t /\ \E s \in Server : m \in Sent(s)
  BY DEF Said, Sent
<1>2. m \in Said(t)' <=> m.type = t /\ \E s \in Server : m \in Sent(s)'
  BY DEF Said, Sent
<1> QED  BY <1>1, <1>2

LEMMA SentOne ==
    ASSUME sent \in [Server -> Seq(Msg)], NEW r \in Server, NEW m \in Msg, Send(r, m)
    PROVE  Sent(r)' = Sent(r) \cup {m} /\ \A s \in Server \ {r} : Sent(s)' = Sent(s)
<1>1. sent'[r] = Append(sent[r], m) /\ \A s \in Server \ {r} : sent'[s] = sent[s]
  BY DEF Send
<1>2. sent[r] \in Seq(Msg)
  OBVIOUS
<1>3. DOMAIN sent'[r] = 1 .. Len(sent[r]) + 1 /\ DOMAIN sent[r] = 1 .. Len(sent[r])
  BY <1>1, <1>2
<1>4. \A i \in DOMAIN sent[r] : sent'[r][i] = sent[r][i]
  BY <1>1, <1>2
<1>5. sent'[r][Len(sent[r]) + 1] = m /\ Len(sent[r]) \in Nat
  BY <1>1, <1>2
<1>6. DOMAIN sent'[r] = DOMAIN sent[r] \cup {Len(sent[r]) + 1}
  BY <1>3, <1>5
<1>7. Sent(r)' = Sent(r) \cup {m}
  BY <1>4, <1>5, <1>6, ZenonT(60) DEF Sent
<1> QED  BY <1>1, <1>7 DEF Sent

LEMMA ServerFinite ==
    /\ IsFiniteSet(Server)
    /\ \A S \in SUBSET Server : IsFiniteSet(S) /\ Cardinality(S) \in Nat
<1>1. Server = 0 .. N - 1 /\ 0 \in Int /\ N - 1 \in Int
  BY NAssumption DEF Server
<1>2. IsFiniteSet(0 .. N - 1)
  BY <1>1, FS_Interval
<1> QED  BY <1>1, <1>2, FS_Subset, FS_CardinalityType

\* Everything a node has said it will have said after any step.
LEMMA SaidGrows ==
    ASSUME \A s \in Server : Sent(s) \subseteq Sent(s)'
    PROVE  /\ \A t : Said(t) \subseteq Said(t)'
           /\ \A h, v : Precedes(h, v) => Precedes(h, v)'
           /\ \A t, b : Cardinality(Senders(t, b)) >= QuorumSize
                           => Cardinality(Senders(t, b)') >= QuorumSize
<1>1. ASSUME NEW t PROVE Said(t) \subseteq Said(t)'
  BY SaidSent
<1>2. ASSUME NEW h, NEW v, Precedes(h, v) PROVE Precedes(h, v)'
  BY <1>1, <1>2 DEF Precedes
<1>3. ASSUME NEW t, NEW b, Cardinality(Senders(t, b)) >= QuorumSize
      PROVE  Cardinality(Senders(t, b)') >= QuorumSize
  <2>1. Senders(t, b) \in SUBSET (Senders(t, b)') /\ Senders(t, b)' \in SUBSET Server
    BY DEF Senders
  <2>2. IsFiniteSet(Senders(t, b)')
    BY <2>1, ServerFinite
  <2>3. Cardinality(Senders(t, b)) <= Cardinality(Senders(t, b)')
    BY <2>1, <2>2, FS_Subset
  <2>4. Cardinality(Senders(t, b)) \in Nat /\ Cardinality(Senders(t, b)') \in Nat
    BY <2>1, ServerFinite
  <2> HIDE DEF Senders
  <2> QED  BY <1>3, <2>3, <2>4, QuorumType
<1> QED  BY <1>1, <1>2, <1>3

----------------------------------------------------------------------------
(* The normal case *)

Normal == NormalCase /\ \A r \in Server : MessageInv(r) /\ RoundInv(r) /\ StoreInv(r)

\* A node that a step leaves alone; what it has sent is in Sent.
Kept(s) ==
    /\ phase'[s] = phase[s] /\ view'[s] = view[s] /\ seq'[s] = seq[s]
    /\ curProposal'[s] = curProposal[s] /\ msgLog'[s] = msgLog[s]
    /\ bs'[s] = bs[s] /\ store'[s] = store[s]
    /\ requests'[s] = requests[s] /\ reqFlag'[s] = reqFlag[s]

LEMMA StoreKept ==
    ASSUME NEW s \in Server, StoreInv(s), view'[s] = view[s], store'[s] = store[s],
           \A t \in Server : Sent(t) \subseteq Sent(t)',
           \A p \in Said("PREPREPARE")' : p \in Said("PREPREPARE") \/ ~ (p.view < view[s])
    PROVE  StoreInv(s)'
<1>1. DOMAIN store'[s] = 0 .. view'[s] - 1
  BY DEF StoreInv
<1>2. \A h \in DOMAIN store'[s] :
         \E p \in Said("PREPREPARE")' : p.view = h /\ p.block = store'[s][h]
  <2>1. \A h \in DOMAIN store[s] :
           \E p \in Said("PREPREPARE") : p.view = h /\ p.block = store[s][h]
    BY DEF StoreInv
  <2> QED  BY <2>1, SaidGrows
<1>3. ASSUME NEW p \in Said("PREPREPARE")', p.view < view'[s]
      PROVE  Cardinality(Senders("COMMIT", p.block)') >= QuorumSize
  <2>1. p \in Said("PREPREPARE") /\ p.view < view[s]
    BY <1>3
  <2>2. Cardinality(Senders("COMMIT", p.block)) >= QuorumSize
    BY <2>1 DEF StoreInv
  <2> QED  BY <2>2, SaidGrows
<1> QED  BY <1>1, <1>2, <1>3 DEF StoreInv

LEMMA OthersKeep ==
    ASSUME NEW s \in Server, MessageInv(s), RoundInv(s), StoreInv(s), Kept(s), Sent(s)' = Sent(s),
           \A t \in Server : Sent(t) \subseteq Sent(t)',
           \A p \in Said("PREPREPARE")' : p \in Said("PREPREPARE") \/ ~ (p.view < view[s])
    PROVE  MessageInv(s)' /\ RoundInv(s)' /\ StoreInv(s)'
<1>1. MessageInv(s)'
  <2> SUFFICES ASSUME NEW m \in Sent(s)
               PROVE  /\ m.type \in {"PREPREPARE", "PREPARE", "COMMIT"} /\ m.src = s
                      /\ m.view <= view[s] /\ m.seq = m.view
                      /\ m.type = "PREPREPARE" =>
                            /\ s = Leader(m.view) /\ m.digest = HashOf(m.block)
                            /\ m.block.view = m.view /\ m.block.height = m.view
                            /\ Precedes(m.block.pre, m.view)'
                            /\ m.view = view[s] =>
                                  msgLog[s][m.view].pp = m /\ phase[s] \notin {"NEW_VIEW", "WAITING"}
                            /\ \A k \in Sent(s) : k.type = m.type /\ k.view = m.view => k = m
                      /\ m.type = "COMMIT" =>
                            /\ m = MkMsg("COMMIT", m.view, m.view, s, m.digest)
                            /\ \E p \in Said("PREPREPARE")' : p.view = m.view /\ p.digest = m.digest
    BY DEF MessageInv, Kept
  <2> QED  BY SaidGrows DEF MessageInv
<1>2. RoundInv(s)'
  <2>1. \A t : Said(t) \subseteq Said(t)'
    BY SaidGrows
  <2>2. Precedes(bs[s].pre, view[s])'
    <3>1. Precedes(bs[s].pre, view[s])
      BY DEF RoundInv
    <3>2. Precedes(bs[s].pre, view[s]) => \A h, v : h = bs[s].pre /\ v = view[s] => Precedes(h, v)'
      BY SaidGrows
    <3>3. bs'[s].pre = bs[s].pre /\ view'[s] = view[s]
      BY DEF Kept
    <3> QED  BY <3>1, <3>2, <3>3 DEF Precedes
  <2> QED  BY <2>1, <2>2 DEF RoundInv, Kept, IsLeader
<1>3. StoreInv(s)'
  BY StoreKept DEF Kept
<1> QED  BY <1>1, <1>2, <1>3

\* A proposal was made by the leader of its view, and there is one in a view.
LEMMA ProposalOf ==
    ASSUME TypeOK, Normal, NEW p \in Said("PREPREPARE")
    PROVE  /\ p \in Msg /\ p.view \in Nat /\ Leader(p.view) \in Server
           /\ p.type = "PREPREPARE" /\ p \in Sent(Leader(p.view))
           /\ p.view < CheckpointNum /\ p.view <= view[Leader(p.view)]
           /\ p.seq = p.view /\ p.digest = HashOf(p.block)
           /\ p.block.view = p.view /\ p.block.height = p.view
           /\ Precedes(p.block.pre, p.view)
           /\ \A q \in Said("PREPREPARE") : q.view = p.view => q = p
<1>1. PICK s \in Server : p \in Sent(s) /\ p.type = "PREPREPARE"
  BY SaidSent
<1>2. MessageInv(s)
  BY DEF Normal
<1>3. /\ s = Leader(p.view) /\ p.view <= view[s]
      /\ p.seq = p.view /\ p.digest = HashOf(p.block)
      /\ p.block.view = p.view /\ p.block.height = p.view /\ Precedes(p.block.pre, p.view)
      /\ \A k \in Sent(s) : k.type = p.type /\ k.view = p.view => k = p
  BY <1>1, <1>2 DEF MessageInv
<1>4. p \in Msg
  <2>1. sent[s] \in Seq(Msg)
    BY DEF TypeOK
  <2> QED  BY <1>1, <2>1 DEF Sent
<1>5. p.view \in Nat
  BY <1>4 DEF Msg
<1>6. p.view < CheckpointNum
  <2>1. view[s] \in Nat /\ view[s] < CheckpointNum
    BY DEF TypeOK, Normal, NormalCase
  <2> QED  BY <1>3, <1>5, <2>1, CheckpointAssumption
<1>7. ASSUME NEW q \in Said("PREPREPARE"), q.view = p.view PROVE q = p
  <2>1. PICK t \in Server : q \in Sent(t) /\ q.type = "PREPREPARE"
    BY SaidSent
  <2>2. MessageInv(t)
    BY DEF Normal
  <2>3. t = Leader(q.view)
    BY <2>1, <2>2 DEF MessageInv
  <2> QED  BY <1>1, <1>3, <1>7, <2>1, <2>3
<1> QED  BY <1>1, <1>3, <1>4, <1>5, <1>6, <1>7

\* A node whose view has a proposal neither waits for a request nor can propose.
LEMMA Started ==
    ASSUME TypeOK, Normal, NEW r \in Server, NEW p \in Said("PREPREPARE"), p.view = view[r]
    PROVE  /\ phase[r] # "WAITING" /\ ~CanPreprepare(r) /\ ~(reqFlag[r] /\ requests[r] # NoCmd)
           /\ IsLeader(r) => msgLog[r][view[r]].pp = p
<1>1. p \in Sent(Leader(p.view)) /\ p.type = "PREPREPARE"
  BY ProposalOf
<1>2. MessageInv(r) /\ RoundInv(r)
  BY DEF Normal
<1>3. CASE IsLeader(r)
  <2>1. p \in Sent(r)
    BY <1>1, <1>3 DEF IsLeader
  <2>2. msgLog[r][view[r]].pp = p /\ phase[r] \notin {"NEW_VIEW", "WAITING"}
    BY <1>1, <1>2, <2>1 DEF MessageInv
  <2> QED  BY <1>2, <2>2 DEF RoundInv, CanPreprepare
<1>4. CASE ~IsLeader(r)
  BY <1>2, <1>4 DEF RoundInv, CanPreprepare
<1> QED  BY <1>3, <1>4

\* The slots of the views of the normal case are the views.
LEMMA SlotIsView ==
    ASSUME NEW v \in Nat, v < CheckpointNum
    PROVE  SlotOf(v) = v /\ v \in 0 .. CheckpointNum - 1
  BY CheckpointAssumption DEF SlotOf

LEMMA ViewType ==
    ASSUME TypeOK, Normal, NEW r \in Server
    PROVE  /\ view[r] \in Nat /\ view[r] < CheckpointNum /\ SlotOf(view[r]) = view[r]
           /\ view[r] \in 0 .. CheckpointNum - 1
           /\ msgLog[r] \in [0 .. CheckpointNum - 1 -> Slot] /\ msgLog[r][view[r]] \in Slot
<1>1. view[r] \in Nat /\ view[r] < CheckpointNum
  BY DEF TypeOK, Normal, NormalCase
<1>2. SlotOf(view[r]) = view[r] /\ view[r] \in 0 .. CheckpointNum - 1
  BY <1>1, SlotIsView
<1>3. msgLog[r] \in [0 .. CheckpointNum - 1 -> Slot]
  BY DEF TypeOK
<1> QED  BY <1>1, <1>2, <1>3

\* A message sent in the normal case.
LEMMA SentNormal ==
    ASSUME TypeOK, Normal, NEW s \in Server, NEW m \in Sent(s)
    PROVE  /\ m \in Msg /\ m.type \in {"PREPREPARE", "PREPARE", "COMMIT"}
           /\ m.view \in Nat /\ m.view < CheckpointNum /\ m.view <= view[s]
           /\ m.seq = m.view /\ m.src = s /\ SlotOf(m.view) = m.view
           /\ m \in Said(m.type)
<1>1. sent[s] \in Seq(Msg) /\ view[s] \in Nat /\ view[s] < CheckpointNum
  BY DEF TypeOK, Normal, NormalCase
<1>2. m \in Msg
  BY <1>1 DEF Sent
<1>3. /\ m.type \in {"PREPREPARE", "PREPARE", "COMMIT"} /\ m.view <= view[s]
      /\ m.seq = m.view /\ m.src = s
  BY DEF Normal, MessageInv
<1>4. m.view \in Nat
  BY <1>2 DEF Msg
<1>5. m.view < CheckpointNum
  BY <1>1, <1>3, <1>4, CheckpointAssumption
<1>6. SlotOf(m.view) = m.view
  BY <1>4, <1>5, SlotIsView
<1> QED  BY <1>2, <1>3, <1>4, <1>5, <1>6, SaidSent

\* Only a message of its own view finds a pre-prepare in the log of a node.
LEMMA CheckedMessage ==
    ASSUME TypeOK, Normal, NEW r \in Server, NEW s \in Server, NEW m \in Sent(s),
           m.view >= view[r], Checked(r, m)
    PROVE  /\ m.view = view[r] /\ msgLog[r][view[r]].pp \in Said("PREPREPARE")
           /\ msgLog[r][view[r]].pp.view = view[r]
           /\ m.digest = msgLog[r][view[r]].pp.digest
<1>1. m.view \in Nat /\ m.view < CheckpointNum /\ SlotOf(m.view) = m.view
  BY SentNormal
<1>2. view[r] \in Nat /\ RoundInv(r)
  BY ViewType DEF Normal
<1>3. msgLog[r][m.view].pp # NoMsg /\ Matches(m, msgLog[r][m.view].pp)
  BY <1>1 DEF Checked, Filed
<1>4. m.view = view[r]
  <2> SUFFICES ASSUME m.view # view[r] PROVE FALSE
    OBVIOUS
  <2>1. m.view \in view[r] + 1 .. CheckpointNum - 1
    BY <1>1, <1>2, CheckpointAssumption
  <2>2. msgLog[r][m.view] = EmptySlot
    BY <1>2, <2>1 DEF RoundInv
  <2> QED  BY <1>3, <2>2 DEF EmptySlot
<1> QED  BY <1>2, <1>3, <1>4 DEF RoundInv, Matches

\* A proposal of r that overtakes nobody; what others know of it.
NothingNew(r) ==
    \A m \in Sent(r)' \ Sent(r) :
        m.type = "PREPREPARE" => \A s \in Server : ~ (m.view < view[s])

LEMMA NewProposals ==
    ASSUME NEW r \in Server, \A s \in Server \ {r} : Sent(s)' = Sent(s),
           Sent(r) \subseteq Sent(r)', NothingNew(r)
    PROVE  /\ \A s \in Server : Sent(s) \subseteq Sent(s)'
           /\ \A s \in Server : \A p \in Said("PREPREPARE")' :
                 p \in Said("PREPREPARE") \/ ~ (p.view < view[s])
<1>1. ASSUME NEW s \in Server, NEW p \in Said("PREPREPARE")'
      PROVE  p \in Said("PREPREPARE") \/ ~ (p.view < view[s])
  <2>1. p.type = "PREPREPARE" /\ \E t \in Server : p \in Sent(t)'
    BY SaidSent
  <2>2. PICK t \in Server : p \in Sent(t)'
    BY <2>1
  <2>3. CASE p \in Sent(t)
    BY <2>1, <2>3, SaidSent
  <2>4. CASE p \notin Sent(t)
    BY <2>1, <2>2, <2>4 DEF NothingNew
  <2> QED  BY <2>3, <2>4
<1> QED  BY <1>1

LEMMA OthersOf ==
    ASSUME Normal, NEW r \in Server, \A s \in Server \ {r} : Kept(s) /\ Sent(s)' = Sent(s),
           Sent(r) \subseteq Sent(r)', NothingNew(r)
    PROVE  \A s \in Server \ {r} : MessageInv(s)' /\ RoundInv(s)' /\ StoreInv(s)'
<1> SUFFICES ASSUME NEW s \in Server \ {r} PROVE MessageInv(s)' /\ RoundInv(s)' /\ StoreInv(s)'
  OBVIOUS
<1>1. MessageInv(s) /\ RoundInv(s) /\ StoreInv(s)
  BY DEF Normal
<1>2. \A t \in Server : Sent(t) \subseteq Sent(t)'
  BY NewProposals
<1>3. \A p \in Said("PREPREPARE")' : p \in Said("PREPREPARE") \/ ~ (p.view < view[s])
  BY NewProposals
<1> QED  BY <1>1, <1>2, <1>3, OthersKeep

\* A step of r in which nobody says or logs anything new.
LEMMA SilentStep ==
    ASSUME TypeOK, Normal, NEW r \in Server,
           UNCHANGED <<view, seq, msgLog, bs, store, sent>>,
           \A s \in Server \ {r} : Kept(s),
           /\ \/ phase'[r] = "WAITING"
              \/ phase'[r] = "NEW_VIEW" /\ curProposal'[r] # NoCmd
              => IsLeader(r),
           reqFlag'[r] /\ requests'[r] # NoCmd => phase'[r] = "WAITING",
           phase'[r] # phase[r] => phase[r] \in {"NEW_VIEW", "WAITING"}
    PROVE  \A s \in Server : MessageInv(s)' /\ RoundInv(s)' /\ StoreInv(s)'
<1>1. \A s \in Server : Sent(s)' = Sent(s)
  BY DEF Sent
<1>2. \A t : Said(t)' = Said(t)
  BY DEF Said
<1>3. MessageInv(r) /\ RoundInv(r) /\ StoreInv(r)
  BY DEF Normal
<1>4. MessageInv(r)'
  <2>1. \A h, v : Precedes(h, v)' <=> Precedes(h, v)
    BY <1>2 DEF Precedes
  <2> SUFFICES ASSUME NEW m \in Sent(r)
               PROVE  /\ m.type \in {"PREPREPARE", "PREPARE", "COMMIT"} /\ m.src = r
                      /\ m.view <= view[r] /\ m.seq = m.view
                      /\ m.type = "PREPREPARE" =>
                            /\ r = Leader(m.view) /\ m.digest = HashOf(m.block)
                            /\ m.block.view = m.view /\ m.block.height = m.view
                            /\ Precedes(m.block.pre, m.view)
                            /\ m.view = view[r] =>
                                  msgLog[r][m.view].pp = m /\ phase'[r] \notin {"NEW_VIEW", "WAITING"}
                            /\ \A k \in Sent(r) : k.type = m.type /\ k.view = m.view => k = m
                      /\ m.type = "COMMIT" =>
                            /\ m = MkMsg("COMMIT", m.view, m.view, r, m.digest)
                            /\ \E p \in Said("PREPREPARE") : p.view = m.view /\ p.digest = m.digest
    BY <1>1, <1>2, <2>1 DEF MessageInv
  <2> QED  BY <1>3 DEF MessageInv
<1>5. RoundInv(r)'
  <2>1. Precedes(bs[r].pre, view[r]) => Precedes(bs[r].pre, view[r])'
    BY <1>2 DEF Precedes
  <2> QED  BY <1>2, <1>3, <2>1 DEF RoundInv, IsLeader
<1>6. StoreInv(r)'
  <2>1. \A t \in Server : Sent(t) \subseteq Sent(t)'
    BY <1>1
  <2>2. \A p \in Said("PREPREPARE")' : p \in Said("PREPREPARE") \/ ~ (p.view < view[r])
    BY <1>2
  <2>3. view'[r] = view[r] /\ store'[r] = store[r]
    OBVIOUS
  <2> QED  BY <1>3, <2>1, <2>2, <2>3, StoreKept
<1>7. \A s \in Server \ {r} : MessageInv(s)' /\ RoundInv(s)' /\ StoreInv(s)'
  <2>1. NothingNew(r)
    BY <1>1 DEF NothingNew
  <2>2. \A s \in Server \ {r} : Kept(s) /\ Sent(s)' = Sent(s)
    BY <1>1
  <2>3. Sent(r) \subseteq Sent(r)'
    BY <1>1
  <2> QED  BY <2>1, <2>2, <2>3, OthersOf
<1> QED  BY <1>4, <1>5, <1>6, <1>7

LEMMA GenNewReqNormal ==
    ASSUME TypeOK, Normal, NEW r \in Server, NEW c \in ClientCmds, GenNewReq(r, c)
    PROVE  \A s \in Server : MessageInv(s)' /\ RoundInv(s)' /\ StoreInv(s)'
<1>1. UNCHANGED <<phase, view, seq, curProposal, msgLog, bs, store, sent>>
  BY DEF GenNewReq, blkVars
<1>2. /\ requests' = [requests EXCEPT ![r] = c] /\ reqFlag' = [reqFlag EXCEPT ![r] = TRUE]
      /\ phase[r] = "WAITING" /\ IsLeader(r)
  BY DEF GenNewReq, IsWaitingReq
<1>3. \A s \in Server \ {r} : Kept(s)
  BY <1>1, <1>2 DEF Kept
<1> QED  BY <1>1, <1>2, <1>3, SilentStep

LEMMA HandleReqNormal ==
    ASSUME TypeOK, Normal, NEW r \in Server, HandleReq(r)
    PROVE  \A s \in Server : MessageInv(s)' /\ RoundInv(s)' /\ StoreInv(s)'
<1>1. UNCHANGED <<view, seq, msgLog, bs, store, requests, sent>>
  BY DEF HandleReq, blkVars
<1>2. RoundInv(r) /\ reqFlag[r]
  BY DEF Normal, HandleReq
<1>3. reqFlag' = [reqFlag EXCEPT ![r] = FALSE] /\ reqFlag'[r] = FALSE
  BY DEF HandleReq, TypeOK
<1>4. CASE requests[r] # NoCmd /\ IsLeader(r)
  <2>1. /\ curProposal' = [curProposal EXCEPT ![r] = requests[r]]
        /\ phase' = [phase EXCEPT ![r] = "NEW_VIEW"]
    BY <1>4 DEF HandleReq
  <2>2. phase[r] = "WAITING" /\ phase'[r] = "NEW_VIEW"
    BY <1>2, <1>4, <2>1 DEF RoundInv, TypeOK
  <2>3. \A s \in Server \ {r} : Kept(s)
    BY <1>1, <1>3, <2>1 DEF Kept
  <2> QED  BY <1>1, <1>3, <1>4, <2>2, <2>3, SilentStep
<1>5. CASE ~(requests[r] # NoCmd /\ IsLeader(r))
  <2>1. UNCHANGED <<curProposal, phase>>
    BY <1>5 DEF HandleReq
  <2>2. \A s \in Server \ {r} : Kept(s)
    BY <1>1, <1>3, <2>1 DEF Kept
  <2>3. \/ phase'[r] = "WAITING"
        \/ phase'[r] = "NEW_VIEW" /\ curProposal'[r] # NoCmd
        => IsLeader(r)
    BY <1>2, <2>1 DEF RoundInv
  <2> QED  BY <1>1, <1>3, <2>1, <2>2, <2>3, SilentStep
<1> QED  BY <1>4, <1>5

\* A goroutine that does not propose.
LEMMA NoProposalNormal ==
    ASSUME TypeOK, Normal, NEW r \in Server,
           UNCHANGED <<phase, view, seq, curProposal, msgLog, bs, store, reqFlag, sent>>,
           \/ requests' = requests
           \/ requests' = [requests EXCEPT ![r] = NoCmd]
    PROVE  \A s \in Server : MessageInv(s)' /\ RoundInv(s)' /\ StoreInv(s)'
<1>1. RoundInv(r)
  BY DEF Normal
<1>2. requests'[r] \in {requests[r], NoCmd} /\ \A s \in Server \ {r} : requests'[s] = requests[s]
  BY DEF TypeOK
<1>3. \A s \in Server \ {r} : Kept(s)
  BY <1>2 DEF Kept
<1>4. \/ phase'[r] = "WAITING"
      \/ phase'[r] = "NEW_VIEW" /\ curProposal'[r] # NoCmd
      => IsLeader(r)
  BY <1>1 DEF RoundInv
<1>5. reqFlag'[r] /\ requests'[r] # NoCmd => phase'[r] = "WAITING"
  BY <1>1, <1>2 DEF RoundInv
<1> QED  BY <1>3, <1>4, <1>5, SilentStep

\* A goroutine that proposes.
LEMMA ProposeNormal ==
    ASSUME TypeOK, Normal, NEW r \in Server, Preprepare(r), CanPreprepare(r),
           UNCHANGED <<view, seq, curProposal, store, reqFlag>>,
           \A s \in Server \ {r} : requests'[s] = requests[s],
           requests'[r] \in {requests[r], NoCmd}
    PROVE  \A s \in Server : MessageInv(s)' /\ RoundInv(s)' /\ StoreInv(s)'
<1> DEFINE p == Proposal(r)
           v == view[r]
<1>1. /\ bs' = [bs EXCEPT ![r] = [@ EXCEPT !.blk = NewBlock(r), !.cur = HashOf(NewBlock(r))]]
      /\ msgLog' = [msgLog EXCEPT ![r] = [@ EXCEPT ![SlotOf(view[r])].pp = Proposal(r)]]
      /\ phase' = [phase EXCEPT ![r] = "PREPREPARE"]
      /\ Send(r, Proposal(r))
  BY PreprepareDoes
<1>2. /\ p \in Msg /\ p.type = "PREPREPARE" /\ p.view = v /\ p.seq = seq[r] /\ p.src = r
      /\ p.block = NewBlock(r) /\ p.digest = HashOf(p.block)
  BY ProposalType
<1> HIDE DEF p
<1>3. MessageInv(r) /\ RoundInv(r) /\ StoreInv(r)
  BY DEF Normal
<1>4. /\ v \in Nat /\ v < CheckpointNum /\ SlotOf(v) = v /\ v \in 0 .. CheckpointNum - 1
      /\ msgLog[r] \in [0 .. CheckpointNum - 1 -> Slot] /\ msgLog[r][v] \in Slot
  BY ViewType
<1>5. IsLeader(r) /\ \A q \in Said("PREPREPARE") : q.view # v
  BY <1>3, Started DEF RoundInv, CanPreprepare
<1>6. Sent(r)' = Sent(r) \cup {p} /\ \A s \in Server \ {r} : Sent(s)' = Sent(s)
  <2>1. sent \in [Server -> Seq(Msg)] /\ Send(r, p)
    BY <1>1 DEF TypeOK, p
  <2> QED  BY <1>2, <2>1, SentOne
<1>7. NothingNew(r) /\ Sent(r) \subseteq Sent(r)'
  <2> SUFFICES ASSUME NEW s \in Server, v < view[s] PROVE FALSE
    BY <1>2, <1>6 DEF NothingNew
  <2>1. StoreInv(s) /\ view[s] \in Nat
    BY DEF Normal, TypeOK
  <2>2. v \in DOMAIN store[s]
    BY <1>4, <2>1 DEF StoreInv
  <2> QED  BY <1>5, <2>1, <2>2 DEF StoreInv
<1>8. /\ view'[r] = v /\ seq'[r] = seq[r] /\ store'[r] = store[r] /\ reqFlag'[r] = reqFlag[r]
      /\ phase'[r] = "PREPREPARE" /\ bs'[r].height = bs[r].height /\ bs'[r].pre = bs[r].pre
      /\ bs'[r].blk = p.block /\ bs'[r].cur = p.digest
  <2>1. bs[r] \in BlkStore /\ DOMAIN bs = Server
    BY DEF TypeOK
  <2>2. bs'[r] = [bs[r] EXCEPT !.blk = NewBlock(r), !.cur = HashOf(NewBlock(r))]
    BY <1>1, <2>1
  <2>3. /\ bs'[r].height = bs[r].height /\ bs'[r].pre = bs[r].pre
        /\ bs'[r].blk = p.block /\ bs'[r].cur = p.digest
    BY <1>2, <2>1, <2>2 DEF BlkStore
  <2>4. phase'[r] = "PREPREPARE"
    BY <1>1 DEF TypeOK
  <2> QED  BY <2>3, <2>4
<1>9. /\ msgLog'[r][v].pp = p /\ msgLog'[r][v].commits = msgLog[r][v].commits
      /\ \A i \in v + 1 .. CheckpointNum - 1 : msgLog'[r][i] = msgLog[r][i]
  <2>1. msgLog'[r] = [msgLog[r] EXCEPT ![v] = [msgLog[r][v] EXCEPT !.pp = p]]
    BY <1>1, <1>4 DEF TypeOK, p
  <2>2. msgLog'[r][v] = [msgLog[r][v] EXCEPT !.pp = p]
    BY <1>4, <2>1
  <2>3. \A i \in v + 1 .. CheckpointNum - 1 : msgLog'[r][i] = msgLog[r][i]
    BY <1>4, <2>1
  <2> QED  BY <1>4, <2>2, <2>3 DEF Slot
<1>10. /\ \A s \in Server : Sent(s) \subseteq Sent(s)'
       /\ \A q \in Said("PREPREPARE")' : q \in Said("PREPREPARE") \/ ~ (q.view < v)
  BY <1>6, <1>7, NewProposals
<1>11. MessageInv(r)'
  <2> SUFFICES ASSUME NEW m \in Sent(r)'
               PROVE  /\ m.type \in {"PREPREPARE", "PREPARE", "COMMIT"} /\ m.src = r
                      /\ m.view <= v /\ m.seq = m.view
                      /\ m.type = "PREPREPARE" =>
                            /\ r = Leader(m.view) /\ m.digest = HashOf(m.block)
                            /\ m.block.view = m.view /\ m.block.height = m.view
                            /\ Precedes(m.block.pre, m.view)'
                            /\ m.view = v =>
                                  msgLog'[r][m.view].pp = m /\ phase'[r] \notin {"NEW_VIEW", "WAITING"}
                            /\ \A k \in Sent(r)' : k.type = m.type /\ k.view = m.view => k = m
                      /\ m.type = "COMMIT" =>
                            /\ m = MkMsg("COMMIT", m.view, m.view, r, m.digest)
                            /\ \E q \in Said("PREPREPARE")' : q.view = m.view /\ q.digest = m.digest
    BY <1>8 DEF MessageInv
  <2>1. \A k \in Sent(r) : k.type = "PREPREPARE" => k.view # v
    BY <1>5, SaidSent
  <2>2. CASE m = p
    <3>1. m.seq = m.view /\ r = Leader(m.view) /\ m.view <= v
      BY <1>2, <1>3, <1>4, <1>5, <2>2 DEF RoundInv, IsLeader
    <3>2. m.block.view = m.view /\ m.block.height = m.view /\ m.block.pre = bs[r].pre
      BY <1>2, <1>3, <2>2 DEF RoundInv, NewBlock
    <3>3. Precedes(m.block.pre, m.view)
      BY <1>2, <1>3, <2>2, <3>2 DEF RoundInv
    <3>4. Precedes(m.block.pre, m.view)'
      BY <1>10, <3>3, SaidGrows
    <3>5. \A k \in Sent(r)' : k.type = m.type /\ k.view = m.view => k = m
      BY <1>2, <1>6, <2>1, <2>2
    <3> QED  BY <1>2, <1>8, <1>9, <2>2, <3>1, <3>2, <3>4, <3>5
  <2>3. CASE m \in Sent(r)
    <3>1. m.type = "PREPREPARE" => \A k \in Sent(r)' : k.type = m.type /\ k.view = m.view => k = m
      <4>1. m.type = "PREPREPARE" => m.view # p.view
        BY <1>2, <2>1, <2>3
      <4> QED  BY <1>3, <1>6, <2>3, <4>1 DEF MessageInv
    <3>2. m.type = "PREPREPARE" => Precedes(m.block.pre, m.view)'
      BY <1>3, <1>10, <2>3, SaidGrows DEF MessageInv
    <3>3. m.type = "COMMIT" =>
             \E q \in Said("PREPREPARE")' : q.view = m.view /\ q.digest = m.digest
      BY <1>3, <1>10, <2>3, SaidGrows DEF MessageInv
    <3> QED  BY <1>3, <2>1, <2>3, <3>1, <3>2, <3>3 DEF MessageInv
  <2> QED  BY <1>6, <2>2, <2>3
<1>12. RoundInv(r)'
  <2>1. Precedes(bs[r].pre, view[r])'
    <3>1. Precedes(bs[r].pre, v)
      BY <1>3 DEF RoundInv
    <3>2. Said("PREPREPARE") \subseteq Said("PREPREPARE")'
      BY <1>10, SaidGrows
    <3> QED  BY <1>8, <3>1, <3>2 DEF Precedes
  <2>2. p \in Said("PREPREPARE")'
    BY <1>2, <1>6, SaidSent
  <2>3. \A c \in msgLog[r][v].commits : c \in Said("COMMIT")' /\ c.view >= v
    BY <1>3, <1>10, SaidGrows DEF RoundInv
  <2>4. ~(reqFlag'[r] /\ requests[r] # NoCmd)
    BY <1>3, <1>8 DEF RoundInv, CanPreprepare
  <2>5. requests'[r] # NoCmd => requests[r] # NoCmd
    OBVIOUS
  <2> QED  BY <1>2, <1>3, <1>8, <1>9, <2>1, <2>2, <2>3, <2>4, <2>5 DEF RoundInv
<1>13. StoreInv(r)'
  BY <1>3, <1>8, <1>10, StoreKept
<1>14. \A s \in Server \ {r} : MessageInv(s)' /\ RoundInv(s)' /\ StoreInv(s)'
  <2>1. \A s \in Server \ {r} : Kept(s) /\ Sent(s)' = Sent(s)
    BY <1>1, <1>6 DEF Kept
  <2> QED  BY <1>7, <2>1, OthersOf
<1> QED  BY <1>11, <1>12, <1>13, <1>14

----------------------------------------------------------------------------
(* A node stores a block in the normal case *)

\* The commits a node counts are of a quorum: those of its own view are for the proposal,
\* and one of a later view is of a node that has stored the proposal before.
LEMMA CountedQuorum ==
    ASSUME TypeOK, Normal, NEW r \in Server, NEW p \in Said("PREPREPARE"), p.view = view[r],
           NEW C, IsFiniteSet(C), Cardinality(C) >= QuorumSize,
           \A c \in C : c \in Said("COMMIT") /\ c.view >= view[r]
    PROVE  Cardinality(Senders("COMMIT", p.block)) >= QuorumSize
<1>1. /\ p.view \in Nat /\ p.digest = HashOf(p.block) /\ p.block.view = p.view
      /\ \A q \in Said("PREPREPARE") : q.view = p.view => q = p
  BY ProposalOf
<1>2. ASSUME NEW c \in C
      PROVE  /\ c.src \in Server /\ c \in Sent(c.src) /\ c.type = "COMMIT" /\ c.view \in Nat
             /\ c = MkMsg("COMMIT", c.view, c.view, c.src, c.digest)
             /\ c.view <= view[c.src] /\ view[c.src] \in Nat
             /\ \E q \in Said("PREPREPARE") : q.view = c.view /\ q.digest = c.digest
  <2>1. c.type = "COMMIT" /\ \E s \in Server : c \in Sent(s)
    BY SaidSent
  <2>2. PICK s \in Server : c \in Sent(s)
    BY <2>1
  <2>3. c.src = s /\ c.view \in Nat /\ c.view <= view[s]
    BY <2>2, SentNormal
  <2>4. /\ c = MkMsg("COMMIT", c.view, c.view, s, c.digest)
        /\ \E q \in Said("PREPREPARE") : q.view = c.view /\ q.digest = c.digest
    BY <2>1, <2>2 DEF Normal, MessageInv
  <2>5. view[s] \in Nat
    BY DEF TypeOK
  <2> QED  BY <2>1, <2>2, <2>3, <2>4, <2>5
<1>3. CASE \E c \in C : c.view # view[r]
  <2>1. PICK c \in C : c.view # view[r]
    BY <1>3
  <2>2. c.view > p.view /\ c.src \in Server /\ p.view < view[c.src]
    BY <1>1, <1>2, <2>1
  <2>3. StoreInv(c.src)
    BY <2>2 DEF Normal
  <2> QED  BY <2>2, <2>3 DEF StoreInv
<1>4. CASE \A c \in C : c.view = view[r]
  <2> DEFINE S == Senders("COMMIT", p.block)
             f == [c \in C |-> c.src]
  <2>1. \A c \in C : c = MkMsg("COMMIT", p.view, p.view, c.src, p.digest) /\ c.src \in S
    <3> SUFFICES ASSUME NEW c \in C
                 PROVE  c = MkMsg("COMMIT", p.view, p.view, c.src, p.digest) /\ c.src \in S
      OBVIOUS
    <3>1. c.view = p.view /\ c.digest = p.digest
      BY <1>1, <1>2, <1>4
    <3>2. c.src \in Server /\ c \in Sent(c.src) /\ c.type = "COMMIT"
      BY <1>2
    <3> QED  BY <1>1, <1>2, <3>1, <3>2 DEF Senders
  <2>2. \A c, e \in C : c.src = e.src => c = e
    <3> HIDE DEF S
    <3> QED  BY <2>1
  <2>3. IsFiniteSet(S) /\ Cardinality(S) \in Nat
    <3>1. S \in SUBSET Server
      BY DEF Senders
    <3> HIDE DEF S
    <3> QED  BY <3>1, ServerFinite
  <2> HIDE DEF S
  <2>4. f \in Injection(C, S)
    BY <2>1, <2>2 DEF Injection, IsInjective
  <2> HIDE DEF f
  <2>5. Cardinality(C) <= Cardinality(S)
    BY <2>3, <2>4, FS_Injection
  <2>6. Cardinality(C) \in Nat
    BY FS_CardinalityType
  <2>7. Cardinality(S) >= QuorumSize
    BY <2>3, <2>5, <2>6, QuorumType
  <2> QED  BY <2>7 DEF S
<1> QED  BY <1>3, <1>4

LEMMA ReplyNormal ==
    ASSUME TypeOK, Normal, NEW r \in Server, NEW p \in Said("PREPREPARE"), p.view = view[r],
           NEW C, IsFiniteSet(C), Cardinality(C) >= QuorumSize,
           \A c \in C : c \in Said("COMMIT") /\ c.view >= view[r],
           NEW b \in BlkStore, b.blk = p.block, b.cur = p.digest, b.height = view[r],
           NEW d \in Hash, Reply(r, view[r], d, b), view[r] + 1 < CheckpointNum,
           \A s \in Server \ {r} : msgLog'[s] = msgLog[s],
           \A i \in view[r] + 1 .. CheckpointNum - 1 : msgLog'[r][i] = msgLog[r][i]
    PROVE  \A s \in Server : MessageInv(s)' /\ RoundInv(s)' /\ StoreInv(s)'
<1> DEFINE v == view[r]
<1>1. MessageInv(r) /\ RoundInv(r) /\ StoreInv(r)
  BY DEF Normal
<1>2. v \in Nat /\ v < CheckpointNum /\ v + 1 \in 0 .. CheckpointNum - 1
  <2>1. v \in Nat /\ v < CheckpointNum
    BY ViewType
  <2> QED  BY <2>1, CheckpointAssumption
<1>3. (v + 1) % CheckpointNum # 0
  BY <1>2, CheckpointAssumption
<1>4. /\ store' = [store EXCEPT ![r] = WriteBlock(@, b.blk)]
      /\ bs' = [bs EXCEPT ![r] = Stored(b)]
      /\ view' = [view EXCEPT ![r] = @ + 1]
      /\ seq' = [seq EXCEPT ![r] = v + 1]
      /\ curProposal' = [curProposal EXCEPT ![r] = NoCmd]
      /\ phase' = [phase EXCEPT ![r] = PhaseAfterReply(r, v)]
      /\ UNCHANGED <<sent, requests, reqFlag>>
  BY <1>3 DEF Reply, reqVars
<1>5. /\ store'[r] = WriteBlock(store[r], p.block) /\ bs'[r] = Stored(b) /\ view'[r] = v + 1
      /\ seq'[r] = v + 1 /\ curProposal'[r] = NoCmd /\ phase'[r] = PhaseAfterReply(r, v)
  BY <1>4 DEF TypeOK
<1>6. (\A s \in Server : Sent(s)' = Sent(s)) /\ \A t : Said(t)' = Said(t)
  BY <1>4 DEF Sent, Said
<1>7. /\ p.block.view = v /\ p.block.height = v
      /\ \A q \in Said("PREPREPARE") : q.view = v => q = p
      /\ \A q \in Said("PREPREPARE") : q.view \in Nat
  BY ProposalOf
<1>8. MessageInv(r)'
  <2> SUFFICES ASSUME NEW m \in Sent(r)
               PROVE  /\ m.type \in {"PREPREPARE", "PREPARE", "COMMIT"} /\ m.src = r
                      /\ m.view <= v + 1 /\ m.view # v + 1 /\ m.seq = m.view
                      /\ m.type = "PREPREPARE" =>
                            /\ r = Leader(m.view) /\ m.digest = HashOf(m.block)
                            /\ m.block.view = m.view /\ m.block.height = m.view
                            /\ Precedes(m.block.pre, m.view)'
                            /\ \A k \in Sent(r) : k.type = m.type /\ k.view = m.view => k = m
                      /\ m.type = "COMMIT" =>
                            /\ m = MkMsg("COMMIT", m.view, m.view, r, m.digest)
                            /\ \E q \in Said("PREPREPARE") : q.view = m.view /\ q.digest = m.digest
    BY <1>5, <1>6 DEF MessageInv
  <2>1. m.view \in Nat /\ m.view <= v
    BY SentNormal
  <2>2. m.view <= v + 1 /\ m.view # v + 1
    BY <1>2, <2>1
  <2>3. Precedes(m.block.pre, m.view) => Precedes(m.block.pre, m.view)'
    BY <1>6 DEF Precedes
  <2> QED  BY <1>1, <2>2, <2>3 DEF MessageInv
<1>9. RoundInv(r)'
  <2>1. bs'[r].height = v + 1 /\ bs'[r].pre = p.digest
    BY <1>5 DEF Stored, BlkStore
  <2>2. Precedes(bs[r].pre, view[r])'
    <3>1. view'[r] # 0 /\ view'[r] - 1 = v
      BY <1>2, <1>5
    <3>2. p \in Said("PREPREPARE")' /\ p.view = view'[r] - 1 /\ p.digest = bs'[r].pre
      BY <1>6, <2>1, <3>1
    <3> QED  BY <3>1, <3>2 DEF Precedes
  <2>3. msgLog'[r][v + 1] = EmptySlot
    BY <1>1, <1>2 DEF RoundInv
  <2>4. \A i \in v + 2 .. CheckpointNum - 1 : msgLog'[r][i] = EmptySlot
    BY <1>1, <1>2 DEF RoundInv
  <2>5. phase'[r] = "WAITING" => r = Leader(v + 1)
    BY <1>3, <1>5 DEF PhaseAfterReply
  <2>6. ~(reqFlag'[r] /\ requests'[r] # NoCmd)
    BY <1>4, Started
  <2>7. v + 1 + 1 = v + 2
    BY <1>2
  <2>8. msgLog'[r][v + 1].pp = NoMsg /\ msgLog'[r][v + 1].commits = {}
    BY <2>3 DEF EmptySlot
  <2> SUFFICES /\ bs'[r].height = v + 1 /\ Precedes(bs[r].pre, view[r])'
               /\ \A i \in v + 1 + 1 .. CheckpointNum - 1 : msgLog'[r][i] = EmptySlot
               /\ msgLog'[r][v + 1].pp = NoMsg /\ msgLog'[r][v + 1].commits = {}
               /\ phase'[r] = "WAITING" => r = Leader(v + 1)
               /\ ~(reqFlag'[r] /\ requests'[r] # NoCmd)
    BY <1>5 DEF RoundInv, IsLeader
  <2> QED  BY <2>1, <2>2, <2>4, <2>5, <2>6, <2>7, <2>8
<1>10. StoreInv(r)'
  <2>1. DOMAIN store'[r] = 0 .. v /\ v + 1 - 1 = v
    <3>1. DOMAIN store[r] = 0 .. v - 1
      BY <1>1 DEF StoreInv
    <3>2. DOMAIN store'[r] = DOMAIN store[r] \cup {v}
      BY <1>5, <1>7 DEF WriteBlock
    <3> QED  BY <1>2, <3>1, <3>2
  <2>2. \A h \in DOMAIN store'[r] :
           \E q \in Said("PREPREPARE") : q.view = h /\ q.block = store'[r][h]
    <3> SUFFICES ASSUME NEW h \in DOMAIN store'[r]
                 PROVE  \E q \in Said("PREPREPARE") : q.view = h /\ q.block = store'[r][h]
      OBVIOUS
    <3>1. CASE h = v
      <4>1. store'[r][h] = p.block
        BY <1>5, <1>7, <3>1 DEF WriteBlock
      <4> QED  BY <3>1, <4>1
    <3>2. CASE h # v
      <4>1. h \in DOMAIN store[r] /\ store'[r][h] = store[r][h]
        BY <1>5, <1>7, <3>2 DEF WriteBlock
      <4> QED  BY <1>1, <4>1 DEF StoreInv
    <3> QED  BY <3>1, <3>2
  <2>3. ASSUME NEW q \in Said("PREPREPARE"), q.view < v + 1
        PROVE  Cardinality(Senders("COMMIT", q.block)) >= QuorumSize
    <3>1. CASE q.view = v
      BY <1>7, <3>1, CountedQuorum
    <3>2. CASE q.view # v
      <4>1. q.view < v
        BY <1>2, <1>7, <2>3, <3>2
      <4> QED  BY <1>1, <4>1 DEF StoreInv
    <3> QED  BY <3>1, <3>2
  <2>4. ASSUME NEW q \in Said("PREPREPARE")', q.view < view'[r]
        PROVE  Cardinality(Senders("COMMIT", q.block)') >= QuorumSize
    <3>1. q \in Said("PREPREPARE") /\ q.view < v + 1
      BY <1>5, <1>6, <2>4
    <3>2. Cardinality(Senders("COMMIT", q.block)) >= QuorumSize
      BY <2>3, <3>1
    <3>3. \A s \in Server : Sent(s) \subseteq Sent(s)'
      BY <1>6
    <3> QED  BY <3>2, <3>3, SaidGrows
  <2>5. \A h \in DOMAIN store'[r] :
           \E q \in Said("PREPREPARE")' : q.view = h /\ q.block = store'[r][h]
    BY <1>6, <2>2
  <2>6. DOMAIN store'[r] = 0 .. view'[r] - 1
    <3>1. view'[r] - 1 = v
      BY <1>2, <1>5
    <3> QED  BY <2>1, <3>1
  <2> QED  BY <2>4, <2>5, <2>6 DEF StoreInv
<1>11. \A s \in Server \ {r} : MessageInv(s)' /\ RoundInv(s)' /\ StoreInv(s)'
  <2>1. NothingNew(r)
    BY <1>6 DEF NothingNew
  <2>2. \A s \in Server \ {r} : Kept(s) /\ Sent(s)' = Sent(s)
    BY <1>4, <1>6 DEF Kept
  <2>3. Sent(r) \subseteq Sent(r)'
    BY <1>6
  <2> QED  BY <2>1, <2>2, <2>3, OthersOf
<1> QED  BY <1>8, <1>9, <1>10, <1>11

----------------------------------------------------------------------------
(* The handlers of the normal case *)

\* A step of r that may say one thing, not a proposal, and stays in its view.
LEMMA SpeakingStep ==
    ASSUME TypeOK, Normal, NEW r \in Server, \A s \in Server \ {r} : Kept(s) /\ Sent(s)' = Sent(s),
           Sent(r) \subseteq Sent(r)',
           \A m \in Sent(r)' \ Sent(r) :
              /\ m.type \in {"PREPARE", "COMMIT"} /\ m.src = r /\ m.view = view[r]
              /\ m.seq = m.view
              /\ m.type = "COMMIT" =>
                    /\ m = MkMsg("COMMIT", m.view, m.view, r, m.digest)
                    /\ \E p \in Said("PREPREPARE") : p.view = m.view /\ p.digest = m.digest,
           view'[r] = view[r], store'[r] = store[r], RoundInv(r)',
           \A q \in Said("PREPREPARE") : q.view = view[r] /\ q \in Sent(r) =>
              msgLog'[r][view[r]].pp = q /\ phase'[r] \notin {"NEW_VIEW", "WAITING"}
    PROVE  \A s \in Server : MessageInv(s)' /\ RoundInv(s)' /\ StoreInv(s)'
<1>1. MessageInv(r) /\ StoreInv(r) /\ view[r] \in Nat
  BY DEF Normal, TypeOK
<1>2. NothingNew(r)
  BY DEF NothingNew
<1>3. /\ \A s \in Server : Sent(s) \subseteq Sent(s)'
      /\ \A q \in Said("PREPREPARE")' : q \in Said("PREPREPARE") \/ ~ (q.view < view[r])
  BY <1>2, NewProposals
<1>4. \A t : Said(t) \subseteq Said(t)'
  BY <1>3, SaidGrows
<1>5. MessageInv(r)'
  <2> SUFFICES ASSUME NEW m \in Sent(r)'
               PROVE  /\ m.type \in {"PREPREPARE", "PREPARE", "COMMIT"} /\ m.src = r
                      /\ m.view <= view[r] /\ m.seq = m.view
                      /\ m.type = "PREPREPARE" =>
                            /\ r = Leader(m.view) /\ m.digest = HashOf(m.block)
                            /\ m.block.view = m.view /\ m.block.height = m.view
                            /\ Precedes(m.block.pre, m.view)'
                            /\ m.view = view[r] =>
                                  msgLog'[r][m.view].pp = m /\ phase'[r] \notin {"NEW_VIEW", "WAITING"}
                            /\ \A k \in Sent(r)' : k.type = m.type /\ k.view = m.view => k = m
                      /\ m.type = "COMMIT" =>
                            /\ m = MkMsg("COMMIT", m.view, m.view, r, m.digest)
                            /\ \E q \in Said("PREPREPARE")' : q.view = m.view /\ q.digest = m.digest
    BY DEF MessageInv
  <2>1. CASE m \notin Sent(r)
    <3>1. /\ m.type \in {"PREPARE", "COMMIT"} /\ m.src = r /\ m.view = view[r] /\ m.seq = m.view
          /\ m.type = "COMMIT" =>
                /\ m = MkMsg("COMMIT", m.view, m.view, r, m.digest)
                /\ \E p \in Said("PREPREPARE") : p.view = m.view /\ p.digest = m.digest
      BY <2>1
    <3>2. m.view <= view[r]
      BY <1>1, <3>1
    <3> QED  BY <1>4, <3>1, <3>2
  <2>2. CASE m \in Sent(r)
    <3>1. m.type = "PREPREPARE" => Precedes(m.block.pre, m.view)'
      BY <1>1, <1>3, <2>2, SaidGrows DEF MessageInv
    <3>2. m.type = "PREPREPARE" /\ m.view = view[r] =>
             msgLog'[r][m.view].pp = m /\ phase'[r] \notin {"NEW_VIEW", "WAITING"}
      BY <2>2, SaidSent
    <3>3. m.type = "PREPREPARE" => \A k \in Sent(r)' : k.type = m.type /\ k.view = m.view => k = m
      <4>1. \A k \in Sent(r)' : k.type = "PREPREPARE" => k \in Sent(r)
        OBVIOUS
      <4> QED  BY <1>1, <2>2, <4>1 DEF MessageInv
    <3>4. m.type = "COMMIT" =>
             \E q \in Said("PREPREPARE")' : q.view = m.view /\ q.digest = m.digest
      BY <1>1, <1>4, <2>2 DEF MessageInv
    <3> QED  BY <1>1, <2>2, <3>1, <3>2, <3>3, <3>4 DEF MessageInv
  <2> QED  BY <2>1, <2>2
<1>6. StoreInv(r)'
  BY <1>1, <1>3, StoreKept
<1>7. \A s \in Server \ {r} : MessageInv(s)' /\ RoundInv(s)' /\ StoreInv(s)'
  BY <1>2, OthersOf
<1> QED  BY <1>5, <1>6, <1>7

\* Saying one thing, or nothing.
LEMMA SaysOne ==
    ASSUME TypeOK, NEW r \in Server, NEW m \in Msg, Send(r, m) \/ UNCHANGED sent
    PROVE  /\ Sent(r) \subseteq Sent(r)' /\ Sent(r)' \ Sent(r) \subseteq {m}
           /\ \A s \in Server \ {r} : Sent(s)' = Sent(s)
<1>1. CASE Send(r, m)
  BY <1>1, SentOne DEF TypeOK
<1>2. CASE UNCHANGED sent
  BY <1>2 DEF Sent
<1> QED  BY <1>1, <1>2

LEMMA PrepareNormal ==
    ASSUME TypeOK, Normal, NEW r \in Server, NEW s \in Server, NEW m \in Sent(s),
           m.view >= view[r], HandlePrepare(r, m)
    PROVE  \A t \in Server : MessageInv(t)' /\ RoundInv(t)' /\ StoreInv(t)'
<1> DEFINE v == view[r]
           c == MkMsg("COMMIT", v, seq[r], r, m.digest)
<1>1. RoundInv(r) /\ MessageInv(r) /\ seq[r] = v
  BY DEF Normal, RoundInv
<1>2. /\ v \in Nat /\ v < CheckpointNum /\ SlotOf(v) = v /\ v \in 0 .. CheckpointNum - 1
      /\ msgLog[r] \in [0 .. CheckpointNum - 1 -> Slot] /\ msgLog[r][v] \in Slot
  BY ViewType
<1>3. /\ m.type = "PREPARE"
      /\ msgLog' = [msgLog EXCEPT ![r] = LogMsg(r, m)] \/ UNCHANGED msgLog
      /\ \/ UNCHANGED <<phase, sent>>
         \/ prepared(r, m) /\ phase' = [phase EXCEPT ![r] = "PREPARE"] /\ Send(r, c)
      /\ UNCHANGED <<view, seq, curProposal, bs, store, requests, reqFlag>>
  BY DEF HandlePrepare, blkVars, reqVars
<1>4. m \in Msg /\ c \in Msg
  <2>1. m \in Msg
    BY SentNormal
  <2>2. m.digest \in Hash /\ seq[r] \in Nat
    BY <2>1 DEF Msg, TypeOK
  <2> QED  BY <1>2, <2>1, <2>2, MkMsgType DEF MsgType
<1>5. /\ c.type = "COMMIT" /\ c.view = v /\ c.seq = v /\ c.src = r /\ c.digest = m.digest
      /\ c = MkMsg("COMMIT", c.view, c.view, r, c.digest)
  BY <1>1 DEF MkMsg
<1> HIDE DEF c
<1>6. /\ msgLog'[r][v].pp = msgLog[r][v].pp /\ msgLog'[r][v].commits = msgLog[r][v].commits
      /\ \A i \in v + 1 .. CheckpointNum - 1 : msgLog'[r][i] = msgLog[r][i]
      /\ \A t \in Server \ {r} : msgLog'[t] = msgLog[t]
  <2>1. CASE UNCHANGED msgLog
    BY <2>1
  <2>2. CASE msgLog' = [msgLog EXCEPT ![r] = LogMsg(r, m)]
    <3> DEFINE l == [msgLog[r][v] EXCEPT !.prepares = @ \cup {m}]
    <3>1. msgLog'[r] = [msgLog[r] EXCEPT ![v] = l]
      BY <1>2, <1>3, <2>2 DEF LogMsg, TypeOK
    <3>2. l.pp = msgLog[r][v].pp /\ l.commits = msgLog[r][v].commits
      BY <1>2 DEF Slot
    <3>3. \A t \in Server \ {r} : msgLog'[t] = msgLog[t]
      BY <2>2 DEF TypeOK
    <3> HIDE DEF l
    <3>4. msgLog'[r][v] = l
      BY <1>2, <3>1
    <3>5. \A i \in v + 1 .. CheckpointNum - 1 : msgLog'[r][i] = msgLog[r][i]
      <4>1. \A i \in v + 1 .. CheckpointNum - 1 : i \in 0 .. CheckpointNum - 1 /\ i # v
        BY <1>2
      <4> QED  BY <1>2, <3>1, <4>1
    <3> QED  BY <3>2, <3>3, <3>4, <3>5
  <2> QED  BY <1>3, <2>1, <2>2
<1>7. /\ Sent(r) \subseteq Sent(r)' /\ Sent(r)' \ Sent(r) \subseteq {c}
      /\ \A t \in Server \ {r} : Sent(t)' = Sent(t)
  BY <1>3, <1>4, SaysOne
<1>8. \A t : Said(t) \subseteq Said(t)'
  <2>1. \A t \in Server : Sent(t) \subseteq Sent(t)'
    BY <1>7
  <2> QED  BY <2>1, SaidGrows
<1>9. prepared(r, m) => \E p \in Said("PREPREPARE") : p.view = v /\ p.digest = m.digest
  BY CheckedMessage DEF prepared
<1>10. phase'[r] = phase[r] \/ phase'[r] = "PREPARE"
  BY <1>3 DEF TypeOK
<1>11. phase'[r] # phase[r] => ~(reqFlag[r] /\ requests[r] # NoCmd)
  <2>1. phase'[r] # phase[r] => prepared(r, m)
    BY <1>3
  <2> QED  BY <1>9, <2>1, Started
<1>12. RoundInv(r)'
  <2>1. Precedes(bs[r].pre, view[r])'
    BY <1>1, <1>3, <1>8 DEF RoundInv, Precedes
  <2>2. msgLog'[r][v].pp # NoMsg =>
           /\ msgLog'[r][v].pp \in Said("PREPREPARE")' /\ msgLog'[r][v].pp.view = v
           /\ bs[r].blk = msgLog'[r][v].pp.block /\ bs[r].cur = msgLog'[r][v].pp.digest
    BY <1>1, <1>6, <1>8 DEF RoundInv
  <2>3. \A e \in msgLog'[r][v].commits : e \in Said("COMMIT")' /\ e.view >= v
    BY <1>1, <1>6, <1>8 DEF RoundInv
  <2>4. \A i \in v + 1 .. CheckpointNum - 1 : msgLog'[r][i] = EmptySlot
    BY <1>1, <1>6 DEF RoundInv
  <2>5. \/ phase'[r] = "WAITING"
        \/ phase'[r] = "NEW_VIEW" /\ curProposal'[r] # NoCmd
        => IsLeader(r)
    BY <1>1, <1>3, <1>10 DEF RoundInv
  <2>6. reqFlag'[r] /\ requests'[r] # NoCmd => phase'[r] = "WAITING"
    BY <1>1, <1>3, <1>11 DEF RoundInv
  <2> QED  BY <1>1, <1>3, <2>1, <2>2, <2>3, <2>4, <2>5, <2>6 DEF RoundInv, IsLeader
<1>13. \A q \in Said("PREPREPARE") : q.view = v /\ q \in Sent(r) =>
           msgLog'[r][v].pp = q /\ phase'[r] \notin {"NEW_VIEW", "WAITING"}
  <2>1. \A q \in Said("PREPREPARE") : q.type = "PREPREPARE"
    BY SaidSent
  <2> QED  BY <1>1, <1>6, <1>10, <2>1 DEF MessageInv
<1>14. \A t \in Server \ {r} : Kept(t) /\ Sent(t)' = Sent(t)
  <2>1. \A t \in Server \ {r} : phase'[t] = phase[t]
    BY <1>3 DEF TypeOK
  <2> QED  BY <1>3, <1>6, <1>7, <2>1 DEF Kept
<1>15. \A k \in Sent(r)' \ Sent(r) : k = c /\ prepared(r, m)
  <2>1. Sent(r)' # Sent(r) => prepared(r, m)
    BY <1>3 DEF Sent
  <2> QED  BY <1>7, <2>1
<1>16. \A k \in Sent(r)' \ Sent(r) :
          /\ k.type \in {"PREPARE", "COMMIT"} /\ k.src = r /\ k.view = view[r] /\ k.seq = k.view
          /\ k.type = "COMMIT" =>
                /\ k = MkMsg("COMMIT", k.view, k.view, r, k.digest)
                /\ \E p \in Said("PREPREPARE") : p.view = k.view /\ p.digest = k.digest
  BY <1>5, <1>9, <1>15
<1> QED  BY <1>3, <1>7, <1>12, <1>13, <1>14, <1>16, SpeakingStep

\* Filing a commit.
LEMMA CommitFiled ==
    ASSUME TypeOK, Normal, NEW r \in Server, NEW m \in Msg, m.type = "COMMIT",
           msgLog' = [msgLog EXCEPT ![r] = LogMsg(r, m)] \/ UNCHANGED msgLog
    PROVE  /\ msgLog'[r][view[r]].pp = msgLog[r][view[r]].pp
           /\ msgLog'[r][view[r]].commits \subseteq msgLog[r][view[r]].commits \cup {m}
           /\ \A i \in view[r] + 1 .. CheckpointNum - 1 : msgLog'[r][i] = msgLog[r][i]
           /\ \A s \in Server \ {r} : msgLog'[s] = msgLog[s]
           /\ Commits(r, m) = msgLog[r][view[r]].commits \cup {m}
<1> DEFINE v == view[r]
           l == [msgLog[r][v] EXCEPT !.commits = @ \cup {m}]
<1>1. /\ v \in Nat /\ v < CheckpointNum /\ SlotOf(v) = v /\ v \in 0 .. CheckpointNum - 1
      /\ msgLog[r] \in [0 .. CheckpointNum - 1 -> Slot] /\ msgLog[r][v] \in Slot
  BY ViewType
<1>2. LogMsg(r, m) = [msgLog[r] EXCEPT ![v] = l]
  BY <1>1 DEF LogMsg
<1>3. l.pp = msgLog[r][v].pp /\ l.commits = msgLog[r][v].commits \cup {m}
  BY <1>1 DEF Slot
<1> HIDE DEF l
<1>4. LogMsg(r, m)[v] = l
  BY <1>1, <1>2
<1>5. \A i \in v + 1 .. CheckpointNum - 1 : LogMsg(r, m)[i] = msgLog[r][i]
  <2>1. \A i \in v + 1 .. CheckpointNum - 1 : i \in 0 .. CheckpointNum - 1 /\ i # v
    BY <1>1
  <2> QED  BY <1>1, <1>2, <2>1
<1>6. CASE UNCHANGED msgLog
  BY <1>1, <1>3, <1>4, <1>6 DEF Commits
<1>7. CASE msgLog' = [msgLog EXCEPT ![r] = LogMsg(r, m)]
  <2>1. msgLog'[r] = LogMsg(r, m) /\ \A s \in Server \ {r} : msgLog'[s] = msgLog[s]
    BY <1>7 DEF TypeOK
  <2> QED  BY <1>1, <1>3, <1>4, <1>5, <2>1 DEF Commits
<1> QED  BY <1>6, <1>7

LEMMA CommitNormal ==
    ASSUME TypeOK, Normal, NormalCase', NEW r \in Server, NEW s \in Server, NEW m \in Sent(s),
           m.view >= view[r], HandleCommit(r, m)
    PROVE  \A t \in Server : MessageInv(t)' /\ RoundInv(t)' /\ StoreInv(t)'
<1> DEFINE v == view[r]
<1>1. RoundInv(r) /\ MessageInv(r) /\ seq[r] = v
  BY DEF Normal, RoundInv
<1>2. v \in Nat /\ v < CheckpointNum /\ msgLog[r][v] \in Slot
  BY ViewType
<1>3. m \in Msg /\ m.type = "COMMIT" /\ m \in Said("COMMIT")
  BY SentNormal DEF HandleCommit
<1>4. msgLog' = [msgLog EXCEPT ![r] = LogMsg(r, m)] \/ UNCHANGED msgLog
  BY DEF HandleCommit
<1>5. /\ msgLog'[r][v].pp = msgLog[r][v].pp
      /\ msgLog'[r][v].commits \subseteq msgLog[r][v].commits \cup {m}
      /\ \A i \in v + 1 .. CheckpointNum - 1 : msgLog'[r][i] = msgLog[r][i]
      /\ \A t \in Server \ {r} : msgLog'[t] = msgLog[t]
      /\ Commits(r, m) = msgLog[r][v].commits \cup {m}
  BY <1>3, <1>4, CommitFiled
<1>6. \A c \in msgLog[r][v].commits \cup {m} : c \in Said("COMMIT") /\ c.view >= v
  BY <1>1, <1>3 DEF RoundInv
<1>7. CASE UNCHANGED <<phase, view, seq, curProposal, checkpoint, vcMsgs, blkVars,
                       timerVars, panicked, goVars, reqVars, sent>>
  <2>1. UNCHANGED <<phase, view, seq, curProposal, bs, store, requests, reqFlag, sent>>
    BY <1>7 DEF blkVars, reqVars
  <2>2. (\A t \in Server : Sent(t)' = Sent(t)) /\ \A t : Said(t)' = Said(t)
    BY <2>1 DEF Sent, Said
  <2>3. RoundInv(r)'
    <3>1. Precedes(bs[r].pre, view[r])'
      BY <1>1, <2>1, <2>2 DEF RoundInv, Precedes
    <3>2. msgLog'[r][v].pp # NoMsg =>
             /\ msgLog'[r][v].pp \in Said("PREPREPARE")' /\ msgLog'[r][v].pp.view = v
             /\ bs[r].blk = msgLog'[r][v].pp.block /\ bs[r].cur = msgLog'[r][v].pp.digest
      BY <1>1, <1>5, <2>2 DEF RoundInv
    <3>3. \A e \in msgLog'[r][v].commits : e \in Said("COMMIT")' /\ e.view >= v
      BY <1>5, <1>6, <2>2
    <3>4. \A i \in v + 1 .. CheckpointNum - 1 : msgLog'[r][i] = EmptySlot
      BY <1>1, <1>5 DEF RoundInv
    <3> QED  BY <1>1, <2>1, <3>1, <3>2, <3>3, <3>4 DEF RoundInv, IsLeader
  <2>4. \A q \in Said("PREPREPARE") : q.view = v /\ q \in Sent(r) =>
           msgLog'[r][v].pp = q /\ phase'[r] \notin {"NEW_VIEW", "WAITING"}
    <3>1. \A q \in Said("PREPREPARE") : q.type = "PREPREPARE"
      BY SaidSent
    <3> QED  BY <1>1, <1>5, <2>1, <3>1 DEF MessageInv
  <2>5. \A t \in Server \ {r} : Kept(t) /\ Sent(t)' = Sent(t)
    BY <1>5, <2>1, <2>2 DEF Kept
  <2>6. Sent(r)' \ Sent(r) = {} /\ Sent(r) \subseteq Sent(r)'
    BY <2>2
  <2> QED  BY <2>1, <2>3, <2>4, <2>5, <2>6, SpeakingStep
<1>8. CASE commited(r, m) /\ Reply(r, seq[r], m.digest, bs[r])
  <2> DEFINE p == msgLog[r][v].pp
             C == Commits(r, m)
  <2>1. p \in Said("PREPREPARE") /\ p.view = v
    BY <1>8, CheckedMessage DEF commited
  <2>2. IsFiniteSet(C) /\ Cardinality(C) >= QuorumSize
    <3>1. IsFiniteSet(msgLog[r][v].commits)
      BY <1>2 DEF Slot
    <3> QED  BY <1>5, <1>8, <3>1, FS_AddElement DEF commited
  <2>3. \A c \in C : c \in Said("COMMIT") /\ c.view >= v
    BY <1>5, <1>6
  <2>4. bs[r] \in BlkStore /\ bs[r].height = v /\ m.digest \in Hash
    BY <1>1, <1>3 DEF TypeOK, RoundInv, Msg
  <2>5. p # NoMsg
    <3>1. p \in Msg
      BY <2>1, ProposalOf
    <3> QED  BY <3>1, NoMsgType
  <2>6. bs[r].blk = p.block /\ bs[r].cur = p.digest
    BY <1>1, <2>5 DEF RoundInv
  <2>7. v + 1 < CheckpointNum
    <3>1. view' = [view EXCEPT ![r] = @ + 1]
      BY <1>8 DEF Reply
    <3>2. view'[r] = v + 1
      BY <3>1 DEF TypeOK
    <3> QED  BY <3>2 DEF NormalCase
  <2>8. Reply(r, v, m.digest, bs[r])
    BY <1>1, <1>8
  <2> HIDE DEF p, C
  <2> QED  BY <1>5, <2>1, <2>2, <2>3, <2>4, <2>6, <2>7, <2>8, ReplyNormal
<1> QED  BY <1>7, <1>8 DEF HandleCommit

LEMMA AcceptNormal ==
    ASSUME TypeOK, Normal, NormalCase', NEW r \in Server, NEW s \in Server, NEW m \in Sent(s),
           HandlePrePrepare(r, m), AcceptsPrePrepare(r, m)
    PROVE  \A t \in Server : MessageInv(t)' /\ RoundInv(t)' /\ StoreInv(t)'
<1> DEFINE v == view[r]
           slot == AcceptedSlot(r, m)
           b == Adopted(r, m)
           n == MkMsg("PREPARE", v, m.seq, r, m.digest)
<1>1. RoundInv(r) /\ MessageInv(r)
  BY DEF Normal
<1>2. /\ v \in Nat /\ v < CheckpointNum /\ SlotOf(v) = v /\ v \in 0 .. CheckpointNum - 1
      /\ msgLog[r] \in [0 .. CheckpointNum - 1 -> Slot] /\ msgLog[r][v] \in Slot
  BY ViewType
<1>3. /\ m.type = "PREPREPARE"
      /\ msgLog' = [msgLog EXCEPT ![r] = [@ EXCEPT ![SlotOf(view[r])] = slot]]
      /\ \/ /\ Replies(r, m)
            /\ Reply(r, IF IsLeader(r) THEN seq[r] ELSE m.seq, m.digest, b)
         \/ /\ ~Replies(r, m)
            /\ Send(r, n)
            /\ bs' = [bs EXCEPT ![r] = b]
            /\ IF IsLeader(r) THEN UNCHANGED <<phase, curProposal, seq, timer>>
               ELSE /\ phase' = [phase EXCEPT ![r] = "PREPREPARE"]
                    /\ curProposal' = [curProposal EXCEPT ![r] = m.block.cmd]
                    /\ seq' = [seq EXCEPT ![r] = m.seq]
                    /\ timer' = [timer EXCEPT ![r] = FALSE]
            /\ UNCHANGED <<view, checkpoint, vcMsgs, store, replied, timeouts, panicked, goVars,
                           reqVars>>
  BY AcceptDoes, SentNormal
<1>4. m \in Msg /\ m \in Said("PREPREPARE") /\ m.view = v /\ msgLog[r][v].pp = NoMsg /\ m.seq = v
  BY <1>2, <1>3, SentNormal DEF AcceptsPrePrepare
<1>5. /\ ~IsLeader(r) /\ ~(reqFlag[r] /\ requests[r] # NoCmd)
      /\ \A q \in Said("PREPREPARE") : q.view = v => q \notin Sent(r)
  <2>1. m # NoMsg
    BY <1>4, NoMsgType
  <2>2. ~IsLeader(r) /\ ~(reqFlag[r] /\ requests[r] # NoCmd)
    BY <1>4, <2>1, Started
  <2>3. ASSUME NEW q \in Said("PREPREPARE"), q.view = v, q \in Sent(r) PROVE FALSE
    <3>1. r = Leader(v)
      BY <1>1, <2>3, SaidSent DEF MessageInv
    <3> QED  BY <2>2, <3>1 DEF IsLeader
  <2> QED  BY <2>2, <2>3
<1>6. /\ slot \in Slot /\ b \in BlkStore /\ slot.pp = m
      /\ slot.commits \subseteq msgLog[r][v].commits
  BY <1>2, <1>4, AcceptedTypes
<1>7. /\ b.height = bs[r].height /\ b.pre = bs[r].pre /\ b.blk = m.block /\ b.cur = m.digest
  <2>1. b = [bs[r] EXCEPT !.blk = m.block, !.cur = HashOf(m.block)] /\ bs[r] \in BlkStore
    BY <1>5 DEF Adopted, TypeOK
  <2>2. m.digest = HashOf(m.block)
    BY <1>4, ProposalOf
  <2> HIDE DEF b
  <2> QED  BY <2>1, <2>2 DEF BlkStore
<1> HIDE DEF slot, b
<1>8. /\ msgLog'[r][v] = slot /\ \A t \in Server \ {r} : msgLog'[t] = msgLog[t]
      /\ \A i \in v + 1 .. CheckpointNum - 1 : msgLog'[r][i] = msgLog[r][i]
  <2>1. /\ msgLog'[r] = [msgLog[r] EXCEPT ![v] = slot]
        /\ \A t \in Server \ {r} : msgLog'[t] = msgLog[t]
    BY <1>2, <1>3 DEF TypeOK
  <2>2. msgLog'[r][v] = slot
    BY <1>2, <2>1
  <2>3. \A i \in v + 1 .. CheckpointNum - 1 : i \in 0 .. CheckpointNum - 1 /\ i # v
    BY <1>2
  <2> QED  BY <1>2, <2>1, <2>2, <2>3
<1>9. CASE Replies(r, m)
  <2>1. Reply(r, v, m.digest, b)
    BY <1>3, <1>4, <1>5, <1>9
  <2>2. IsFiniteSet(slot.commits) /\ Cardinality(slot.commits) >= QuorumSize
    BY <1>6, <1>9 DEF Slot, Replies, slot
  <2>3. \A c \in slot.commits : c \in Said("COMMIT") /\ c.view >= v
    BY <1>1, <1>6 DEF RoundInv
  <2>4. v + 1 < CheckpointNum
    <3>1. view' = [view EXCEPT ![r] = @ + 1]
      BY <2>1 DEF Reply
    <3>2. view'[r] = v + 1
      BY <3>1 DEF TypeOK
    <3> QED  BY <3>2 DEF NormalCase
  <2>5. b.height = v /\ m.digest \in Hash
    BY <1>1, <1>4, <1>7 DEF RoundInv, Msg
  <2> QED  BY <1>4, <1>6, <1>7, <1>8, <2>1, <2>2, <2>3, <2>4, <2>5, ReplyNormal
<1>10. CASE ~Replies(r, m)
  <2>1. /\ Send(r, n) /\ bs' = [bs EXCEPT ![r] = b]
        /\ phase' = [phase EXCEPT ![r] = "PREPREPARE"]
        /\ curProposal' = [curProposal EXCEPT ![r] = m.block.cmd]
        /\ seq' = [seq EXCEPT ![r] = m.seq]
        /\ UNCHANGED <<view, store, requests, reqFlag>>
    BY <1>3, <1>5, <1>10 DEF reqVars
  <2>2. n \in Msg
    <3>1. m.seq \in Nat /\ m.digest \in Hash
      BY <1>4 DEF Msg
    <3> QED  BY <1>2, <3>1, MkMsgType DEF MsgType
  <2>3. n.type = "PREPARE" /\ n.src = r /\ n.view = v /\ n.seq = v
    BY <1>4 DEF MkMsg
  <2> HIDE DEF n
  <2>4. /\ Sent(r) \subseteq Sent(r)' /\ Sent(r)' \ Sent(r) \subseteq {n}
        /\ \A t \in Server \ {r} : Sent(t)' = Sent(t)
    BY <2>1, <2>2, SaysOne
  <2>5. \A t : Said(t) \subseteq Said(t)'
    <3>1. \A t \in Server : Sent(t) \subseteq Sent(t)'
      BY <2>4
    <3> QED  BY <3>1, SaidGrows
  <2>6. /\ bs'[r] = b /\ phase'[r] = "PREPREPARE" /\ seq'[r] = v
        /\ \A t \in Server \ {r} : /\ bs'[t] = bs[t] /\ phase'[t] = phase[t] /\ seq'[t] = seq[t]
                                   /\ curProposal'[t] = curProposal[t]
    BY <1>4, <2>1 DEF TypeOK
  <2>7. RoundInv(r)'
    <3>1. Precedes(bs[r].pre, view[r])'
      <4>1. Precedes(bs[r].pre, view[r])
        BY <1>1 DEF RoundInv
      <4>2. bs'[r].pre = bs[r].pre /\ view'[r] = view[r]
        BY <1>7, <2>1, <2>6
      <4> QED  BY <2>5, <4>1, <4>2 DEF Precedes
    <3>2. \A e \in slot.commits : e \in Said("COMMIT")' /\ e.view >= v
      BY <1>1, <1>6, <2>5 DEF RoundInv
    <3>3. \A i \in v + 1 .. CheckpointNum - 1 : msgLog'[r][i] = EmptySlot
      BY <1>1, <1>8 DEF RoundInv
    <3>4. m \in Said("PREPREPARE")'
      BY <1>4, <2>5
    <3>5. b.height = v
      BY <1>1, <1>7 DEF RoundInv
    <3> QED  BY <1>4, <1>5, <1>6, <1>7, <1>8, <2>1, <2>6, <3>1, <3>2, <3>3, <3>4, <3>5
             DEF RoundInv
  <2>8. \A t \in Server \ {r} : Kept(t) /\ Sent(t)' = Sent(t)
    BY <1>8, <2>1, <2>4, <2>6 DEF Kept
  <2>9. \A k \in Sent(r)' \ Sent(r) :
           /\ k.type \in {"PREPARE", "COMMIT"} /\ k.src = r /\ k.view = view[r] /\ k.seq = k.view
           /\ k.type = "COMMIT" =>
                 /\ k = MkMsg("COMMIT", k.view, k.view, r, k.digest)
                 /\ \E p \in Said("PREPREPARE") : p.view = k.view /\ p.digest = k.digest
    BY <2>3, <2>4
  <2>10. \A q \in Said("PREPREPARE") : q.view = view[r] /\ q \in Sent(r) =>
            msgLog'[r][view[r]].pp = q /\ phase'[r] \notin {"NEW_VIEW", "WAITING"}
    BY <1>5
  <2> QED  BY <2>1, <2>4, <2>7, <2>8, <2>9, <2>10, SpeakingStep
<1> QED  BY <1>9, <1>10

----------------------------------------------------------------------------
(* Steps of the normal case *)

\* Views and expiries only grow, so the normal case has been one from the start.
LEMMA ViewsGrow ==
    ASSUME TypeOK, Next
    PROVE  timeouts <= timeouts' /\ \A s \in Server : view[s] <= view'[s]
<1>1. view \in [Server -> Nat] /\ timeouts \in Nat
  BY DEF TypeOK
<1>2. CASE UNCHANGED <<view, timeouts>>
  BY <1>1, <1>2
<1>3. CASE \E r \in Server : timeouts' = timeouts /\ view' = [view EXCEPT ![r] = @ + 1]
  BY <1>1, <1>3
<1>4. ASSUME NEW r \in Server, NEW c \in ClientCmds, GenNewReq(r, c)
      PROVE  UNCHANGED <<view, timeouts>>
  BY <1>4 DEF GenNewReq, timerVars
<1>5. ASSUME NEW r \in Server, HandleReq(r) \/ ProposeRequest(r) \/ PreprepareAfterReply(r)
      PROVE  UNCHANGED <<view, timeouts>>
  BY <1>5 DEF HandleReq, ProposeRequest, PreprepareAfterReply, timerVars
<1>6. ASSUME NEW r \in Server, StartViewChange(r)
      PROVE  timeouts' = timeouts + 1 /\ view' = view
  BY <1>6 DEF StartViewChange
<1>7. ASSUME NEW r \in Server, NEW s \in Server, Receive(r, s)
      PROVE  timeouts' = timeouts /\ \A t \in Server : view[t] <= view'[t]
  <2> DEFINE m == sent[s][rcvd[r][s] + 1]
  <2>1. HandlePMsg(r, m) /\ m \in Msg
    BY <1>7, NextMessage DEF Receive
  <2> HIDE DEF m
  <2>2. CASE UNCHANGED <<phase, view, seq, curProposal, msgLog, checkpoint, vcMsgs, blkVars,
                         timerVars, panicked, goVars, reqVars, sent>>
    BY <1>1, <2>2 DEF timerVars
  <2>3. CASE HandlePrePrepare(r, m)
    <3>1. \/ UNCHANGED <<view, timeouts>>
          \/ timeouts' = timeouts /\ view' = [view EXCEPT ![r] = @ + 1]
      BY <2>3 DEF HandlePrePrepare, Reply, timerVars
    <3> QED  BY <1>1, <3>1
  <2>4. CASE HandleCommit(r, m)
    <3>1. \/ UNCHANGED <<view, timeouts>>
          \/ timeouts' = timeouts /\ view' = [view EXCEPT ![r] = @ + 1]
      BY <2>4 DEF HandleCommit, Reply, timerVars
    <3> QED  BY <1>1, <3>1
  <2>5. CASE HandlePrepare(r, m) \/ HandleCheckPoint(r, m)
    <3>1. UNCHANGED <<view, timeouts>>
      BY <2>5 DEF HandlePrepare, HandleCheckPoint, timerVars
    <3> QED  BY <1>1, <3>1
  <2>6. CASE HandleNewView(r, m) \/ HandleVCPrepare(r, m)
    <3>1. UNCHANGED <<view, timeouts>>
      BY <2>6 DEF HandleNewView, HandleVCPrepare, timerVars
    <3> QED  BY <1>1, <3>1
  <2>7. CASE HandleViewChange(r, m)
    <3> DEFINE v == IF m.view > view[r] THEN m.view ELSE view[r]
    <3>1. timeouts' = timeouts /\ (UNCHANGED view \/ view' = [view EXCEPT ![r] = v])
      BY <2>7 DEF HandleViewChange, timerVars
    <3>2. v \in Nat /\ view[r] <= v
      BY <1>1, <2>1 DEF Msg
    <3> HIDE DEF v
    <3> QED  BY <1>1, <3>1, <3>2
  <2>8. CASE HandleVCCommit(r, m)
    <3>1. timeouts' = timeouts /\ (UNCHANGED view \/ view' = [view EXCEPT ![r] = @ + 1])
      BY <2>8 DEF HandleVCCommit
    <3> QED  BY <1>1, <3>1
  <2> QED  BY <2>1, <2>2, <2>3, <2>4, <2>5, <2>6, <2>7, <2>8 DEF HandlePMsg
<1> QED  BY <1>1, <1>2, <1>4, <1>5, <1>6, <1>7 DEF Next

LEMMA NormalBefore ==
    ASSUME TypeOK, TypeOK', Next, NormalCase'
    PROVE  NormalCase /\ \A r \in Server : ~StartViewChange(r)
<1>1. /\ timeouts \in Nat /\ timeouts' \in Nat
      /\ \A r \in Server : view[r] \in Nat /\ view'[r] \in Nat
  BY DEF TypeOK
<1>2. timeouts <= timeouts' /\ \A s \in Server : view[s] <= view'[s]
  BY ViewsGrow
<1>3. timeouts' = 0 /\ \A s \in Server : view'[s] < CheckpointNum
  BY DEF NormalCase
<1>4. NormalCase
  BY <1>1, <1>2, <1>3, CheckpointAssumption DEF NormalCase
<1>5. ASSUME NEW r \in Server, StartViewChange(r) PROVE FALSE
  <2>1. timeouts' = timeouts + 1
    BY <1>5 DEF StartViewChange
  <2> QED  BY <1>1, <1>3, <2>1
<1> QED  BY <1>4, <1>5

LEMMA ProposeRequestNormal ==
    ASSUME TypeOK, Normal, NEW r \in Server, ProposeRequest(r)
    PROVE  \A s \in Server : MessageInv(s)' /\ RoundInv(s)' /\ StoreInv(s)'
<1>1. /\ requests' = [requests EXCEPT ![r] = NoCmd] /\ Preprepare(r)
      /\ UNCHANGED <<view, seq, curProposal, store, reqFlag>>
  BY DEF ProposeRequest
<1>2. requests'[r] = NoCmd /\ \A s \in Server \ {r} : requests'[s] = requests[s]
  BY <1>1 DEF TypeOK
<1>3. CASE CanPreprepare(r)
  BY <1>1, <1>2, <1>3, ProposeNormal
<1>4. CASE ~CanPreprepare(r)
  <2>1. UNCHANGED <<phase, msgLog, bs, sent>>
    BY <1>1, <1>4 DEF Preprepare
  <2> QED  BY <1>1, <2>1, NoProposalNormal
<1> QED  BY <1>3, <1>4

LEMMA PreprepareAfterReplyNormal ==
    ASSUME TypeOK, Normal, NEW r \in Server, PreprepareAfterReply(r)
    PROVE  \A s \in Server : MessageInv(s)' /\ RoundInv(s)' /\ StoreInv(s)'
<1>1. UNCHANGED <<view, seq, curProposal, store, requests, reqFlag>>
  BY DEF PreprepareAfterReply, reqVars
<1>2. CASE ~lock[r] /\ CanPreprepare(r)
  <2>1. Preprepare(r)
    BY <1>2 DEF PreprepareAfterReply
  <2> QED  BY <1>1, <1>2, <2>1, ProposeNormal
<1>3. CASE lock[r] \/ ~CanPreprepare(r)
  <2>1. UNCHANGED <<phase, msgLog, bs, sent>>
    BY <1>3 DEF PreprepareAfterReply, Preprepare
  <2> QED  BY <1>1, <2>1, NoProposalNormal
<1> QED  BY <1>2, <1>3

LEMMA ReceiveNormal ==
    ASSUME TypeOK, Normal, NormalCase', NEW r \in Server, NEW s \in Server, Receive(r, s)
    PROVE  \A t \in Server : MessageInv(t)' /\ RoundInv(t)' /\ StoreInv(t)'
<1> DEFINE m == sent[s][rcvd[r][s] + 1]
<1>1. HandlePMsg(r, m) /\ m \in Sent(s)
  BY NextMessage DEF Receive
<1> HIDE DEF m
<1>2. /\ m \in Msg /\ m.type \in {"PREPREPARE", "PREPARE", "COMMIT"} /\ m.view \in Nat
  BY <1>1, SentNormal
<1>3. CASE UNCHANGED <<phase, view, seq, curProposal, msgLog, checkpoint, vcMsgs, blkVars,
                       timerVars, panicked, goVars, reqVars, sent>>
  <2>1. UNCHANGED <<phase, view, seq, curProposal, msgLog, bs, store, requests, reqFlag, sent>>
    BY <1>3 DEF blkVars, reqVars
  <2> QED  BY <2>1, NoProposalNormal
<1>4. CASE HandlePrePrepare(r, m)
  <2>1. CASE AcceptsPrePrepare(r, m)
    BY <1>1, <1>4, <2>1, AcceptNormal
  <2>2. CASE ~AcceptsPrePrepare(r, m)
    BY <1>3, <1>4, <2>2 DEF HandlePrePrepare
  <2> QED  BY <2>1, <2>2
<1>5. ~Outdated(r, m) => m.view >= view[r]
  BY <1>2 DEF Outdated, TypeOK
<1>6. CASE ~Outdated(r, m) /\ HandlePrepare(r, m)
  BY <1>1, <1>5, <1>6, PrepareNormal
<1>7. CASE ~Outdated(r, m) /\ HandleCommit(r, m)
  BY <1>1, <1>5, <1>7, CommitNormal
<1>8. ~ \/ HandleCheckPoint(r, m) \/ HandleViewChange(r, m) \/ HandleNewView(r, m)
        \/ HandleVCPrepare(r, m) \/ HandleVCCommit(r, m)
  BY <1>2 DEF HandleCheckPoint, HandleViewChange, HandleNewView, HandleVCPrepare, HandleVCCommit
<1> QED  BY <1>1, <1>3, <1>4, <1>6, <1>7, <1>8 DEF HandlePMsg

LEMMA InitNormal == Init => NormalInv
<1> SUFFICES ASSUME Init, NEW r \in Server PROVE MessageInv(r) /\ RoundInv(r) /\ StoreInv(r)
  BY DEF NormalInv
<1> USE DEF Init
<1>1. \A s \in Server : Sent(s) = {}
  BY DEF Sent
<1>2. \A t : Said(t) = {}
  BY DEF Said
<1>3. MessageInv(r)
  BY <1>1 DEF MessageInv
<1>4. RoundInv(r)
  <2>1. /\ view[r] = 0 /\ seq[r] = 0 /\ bs[r].height = 0 /\ bs[r].pre = EmptyHash
        /\ msgLog[r] = EmptyLog /\ curProposal[r] = NoCmd
        /\ phase[r] = IF r = 0 THEN "WAITING" ELSE "NEW_VIEW"
        /\ requests[r] = IF r = 0 THEN Genesis ELSE NoCmd
    OBVIOUS
  <2>2. \A i \in 0 .. CheckpointNum - 1 : msgLog[r][i] = EmptySlot
    BY <2>1 DEF EmptyLog
  <2>3. msgLog[r][0].pp = NoMsg /\ msgLog[r][0].commits = {}
    BY <2>2, CheckpointAssumption DEF EmptySlot
  <2>4. \A i \in 0 + 1 .. CheckpointNum - 1 : msgLog[r][i] = EmptySlot
    BY <2>2
  <2>5. Leader(0) = 0
    BY NAssumption DEF Leader
  <2>6. Precedes(bs[r].pre, view[r])
    BY <2>1 DEF Precedes
  <2> QED  BY <2>1, <2>3, <2>4, <2>5, <2>6 DEF RoundInv, IsLeader
<1>5. StoreInv(r)
  <2>1. store[r] = <<>> /\ view[r] = 0
    OBVIOUS
  <2>2. DOMAIN store[r] = 0 .. view[r] - 1 /\ DOMAIN store[r] = {}
    <3>1. 0 .. 0 - 1 = {} /\ DOMAIN (<<>>) = {}
      BY SMT
    <3> QED  BY <2>1, <3>1
  <2> QED  BY <1>2, <2>2 DEF StoreInv
<1> QED  BY <1>3, <1>4, <1>5

LEMMA NextNormal ==
    ASSUME TypeOK, TypeOK', NormalInv, [Next]_vars
    PROVE  NormalInv'
<1> SUFFICES ASSUME NormalCase'
             PROVE  \A s \in Server : MessageInv(s)' /\ RoundInv(s)' /\ StoreInv(s)'
  BY DEF NormalInv
<1>1. CASE Next
  <2>1. Normal /\ \A r \in Server : ~StartViewChange(r)
    BY <1>1, NormalBefore DEF Normal, NormalInv
  <2> QED  BY <1>1, <2>1, GenNewReqNormal, HandleReqNormal, ProposeRequestNormal,
              PreprepareAfterReplyNormal, ReceiveNormal DEF Next
<1>2. CASE UNCHANGED vars
  <2>1. UNCHANGED <<phase, view, seq, curProposal, msgLog, bs, store, timeouts, requests, reqFlag,
                    sent>>
    BY <1>2 DEF vars, blkVars, timerVars, reqVars
  <2>2. Normal
    BY <2>1 DEF Normal, NormalInv, NormalCase
  <2>3. 0 \in Server
    BY ConstantTypes
  <2> QED  BY <2>1, <2>2, <2>3, NoProposalNormal
<1> QED  BY <1>1, <1>2

\* Before the first checkpoint and the first timeout the log of a view holds its proposal
\* only, a commit is for the proposal of its view, and a node that has left a view has
\* stored its proposal, which a quorum had said to be prepared.
THEOREM NormalCaseInvariant == Spec => []NormalInv
<1>1. Init => NormalInv
  BY InitNormal
<1>2. TypeOK /\ TypeOK' /\ NormalInv /\ [Next]_vars => NormalInv'
  BY NextNormal
<1> QED  BY <1>1, <1>2, PTypeCorrect, PTL DEF Spec

----------------------------------------------------------------------------
(* What a node stores *)

LEMMA NormalStored ==
    ASSUME TypeOK, Normal
    PROVE  StoredCertified /\ DataConsistence
<1>1. ASSUME NEW r \in Server, NEW h \in DOMAIN store[r]
      PROVE  \E p \in Said("PREPREPARE") : p.view = h /\ p.block = store[r][h] /\ p.view < view[r]
  <2>1. StoreInv(r) /\ view[r] \in Nat
    BY DEF Normal, TypeOK
  <2>2. h \in 0 .. view[r] - 1
    BY <2>1 DEF StoreInv
  <2>3. h < view[r]
    BY <2>1, <2>2
  <2> QED  BY <2>1, <2>3 DEF StoreInv
<1>2. StoredCertified
  <2> SUFFICES ASSUME NEW r \in Server, NEW h \in DOMAIN store[r]
               PROVE  Cardinality(Senders("COMMIT", store[r][h])) >= QuorumSize
    BY DEF StoredCertified
  <2>1. StoreInv(r)
    BY DEF Normal
  <2> QED  BY <1>1, <2>1 DEF StoreInv
<1>3. DataConsistence
  <2> SUFFICES ASSUME NEW r \in Server, NEW s \in Server,
                      NEW h \in DOMAIN store[r] \cap DOMAIN store[s]
               PROVE  store[r][h] = store[s][h]
    BY DEF DataConsistence
  <2>1. PICK p \in Said("PREPREPARE") : p.view = h /\ p.block = store[r][h]
    BY <1>1
  <2>2. PICK q \in Said("PREPREPARE") : q.view = h /\ q.block = store[s][h]
    BY <1>1
  <2>3. q = p
    BY <2>1, <2>2, ProposalOf
  <2> QED  BY <2>1, <2>2, <2>3
<1> QED  BY <1>2, <1>3

\* Before the first checkpoint and the first timeout a block is stored only when a quorum
\* has told everybody that it is prepared, in whatever order the messages arrive and
\* although LogMsg files those of later views in the slot of the current one.
THEOREM NormalCaseCertified == Spec => [](NormalCase => StoredCertified)
<1>1. TypeOK /\ NormalInv => (NormalCase => StoredCertified)
  BY NormalStored DEF Normal, NormalInv
<1> QED  BY <1>1, PTypeCorrect, NormalCaseInvariant, PTL

\* README: all honest nodes have the same data. It holds before the first checkpoint and
\* the first timeout.
THEOREM NormalCaseConsistence == Spec => [](NormalCase => DataConsistence)
<1>1. TypeOK /\ NormalInv => (NormalCase => DataConsistence)
  BY NormalStored DEF Normal, NormalInv
<1> QED  BY <1>1, PTypeCorrect, NormalCaseInvariant, PTL

----------------------------------------------------------------------------
(* The ledger *)

LEMMA SendGrows ==
    ASSUME TypeOK, NEW r \in Server, NEW m, Send(r, m) \/ UNCHANGED sent
    PROVE  \A s \in Server : Sent(s) \subseteq Sent(s)'
<1>1. CASE UNCHANGED sent
  BY <1>1 DEF Sent
<1>2. CASE Send(r, m)
  <2>1. sent'[r] = Append(sent[r], m) /\ \A s \in Server \ {r} : sent'[s] = sent[s]
    BY <1>2 DEF Send, TypeOK
  <2>2. sent[r] \in Seq(Msg \cup {m})
    <3>1. sent[r] \in Seq(Msg)
      BY DEF TypeOK
    <3> QED  BY <3>1
  <2>3. \A i \in DOMAIN sent[r] : i \in DOMAIN sent'[r] /\ sent'[r][i] = sent[r][i]
    BY <2>1, <2>2
  <2> QED  BY <2>1, <2>3 DEF Sent
<1> QED  BY <1>1, <1>2

\* A step says at most one thing and touches the files of one node.
LEMMA StepOfOne ==
    ASSUME TypeOK, Next
    PROVE  /\ \A s \in Server : Sent(s) \subseteq Sent(s)'
           /\ \E r \in Server : \A s \in Server \ {r} : store'[s] = store[s]
<1> DEFINE One(r) == /\ (\E m : Send(r, m)) \/ UNCHANGED sent
                     /\ \A s \in Server \ {r} : store'[s] = store[s]
<1>1. ASSUME NEW r \in Server, NEW c \in ClientCmds, GenNewReq(r, c) PROVE One(r)
  BY <1>1 DEF GenNewReq, blkVars
<1>2. ASSUME NEW r \in Server, HandleReq(r) PROVE One(r)
  BY <1>2 DEF HandleReq, blkVars
<1>3. ASSUME NEW r \in Server, ProposeRequest(r) \/ PreprepareAfterReply(r) PROVE One(r)
  <2>1. UNCHANGED store /\ (UNCHANGED sent \/ Preprepare(r))
    BY <1>3 DEF ProposeRequest, PreprepareAfterReply
  <2> QED  BY <2>1 DEF Preprepare
<1>4. ASSUME NEW r \in Server, StartViewChange(r) PROVE One(r)
  BY <1>4 DEF StartViewChange, blkVars
<1>5. ASSUME NEW r \in Server, NEW n, NEW d, NEW b, Reply(r, n, d, b) PROVE One(r)
  <2>1. \A s \in Server \ {r} : store'[s] = store[s]
    BY <1>5 DEF Reply, TypeOK
  <2> QED  BY <1>5, <2>1 DEF Reply
<1>6. ASSUME NEW r \in Server, NEW s \in Server, Receive(r, s) PROVE One(r)
  <2> DEFINE m == sent[s][rcvd[r][s] + 1]
  <2>1. HandlePMsg(r, m)
    BY <1>6 DEF Receive
  <2> HIDE DEF m
  <2>2. CASE UNCHANGED <<phase, view, seq, curProposal, msgLog, checkpoint, vcMsgs, blkVars,
                         timerVars, panicked, goVars, reqVars, sent>>
    BY <2>2 DEF blkVars
  <2>3. CASE HandlePrePrepare(r, m)
    <3>1. \/ UNCHANGED <<store, sent>>
          \/ UNCHANGED store /\ Send(r, MkMsg("PREPARE", view[r], m.seq, r, m.digest))
          \/ \E n, d, b : Reply(r, n, d, b)
      BY <2>3 DEF HandlePrePrepare, blkVars
    <3> HIDE DEF One
    <3>2. CASE \E n, d, b : Reply(r, n, d, b)
      BY <1>5, <3>2
    <3> QED  BY <3>1, <3>2 DEF One
  <2>4. CASE HandleCommit(r, m)
    <3>1. UNCHANGED <<store, sent>> \/ \E n, d, b : Reply(r, n, d, b)
      BY <2>4 DEF HandleCommit, blkVars
    <3> HIDE DEF One
    <3>2. CASE \E n, d, b : Reply(r, n, d, b)
      BY <1>5, <3>2
    <3> QED  BY <3>1, <3>2 DEF One
  <2>5. CASE HandlePrepare(r, m) \/ HandleCheckPoint(r, m)
    BY <2>5 DEF HandlePrepare, HandleCheckPoint, blkVars
  <2>6. CASE HandleNewView(r, m)
    BY <2>6 DEF HandleNewView
  <2>7. CASE HandleVCPrepare(r, m) \/ HandleVCCommit(r, m)
    BY <2>7 DEF HandleVCPrepare, HandleVCCommit, blkVars
  <2>8. CASE HandleViewChange(r, m)
    BY <2>8 DEF HandleViewChange, blkVars
  <2> QED  BY <2>1, <2>2, <2>3, <2>4, <2>5, <2>6, <2>7, <2>8 DEF HandlePMsg
<1>7. PICK r \in Server : One(r)
  <2> HIDE DEF One
  <2> QED  BY <1>1, <1>2, <1>3, <1>4, <1>6 DEF Next
<1>8. \A s \in Server : Sent(s) \subseteq Sent(s)'
  <2>1. CASE UNCHANGED sent
    BY <2>1, SendGrows
  <2>2. CASE \E m : Send(r, m)
    BY <2>2, SendGrows
  <2> QED  BY <1>7, <2>1, <2>2
<1> QED  BY <1>7, <1>8

\* What the ledger needs of the normal case: a view has one proposal, linked to the one
\* of the view before, and the files of a node are the proposals of the views it has left.
Ordered ==
    /\ \A p \in Said("PREPREPARE") :
          /\ p.view \in Nat /\ p.digest = HashOf(p.block) /\ p.block.height = p.view
          /\ Precedes(p.block.pre, p.view)
          /\ \A q \in Said("PREPREPARE") : q.view = p.view => q = p
    /\ \A r \in Server :
          /\ view[r] \in Nat /\ DOMAIN store[r] = 0 .. view[r] - 1
          /\ \A h \in DOMAIN store[r] :
                \E p \in Said("PREPREPARE") : p.view = h /\ p.block = store[r][h]

LEMMA NormalOrdered == ASSUME TypeOK, Normal PROVE Ordered
<1>1. \A p \in Said("PREPREPARE") :
         /\ p.view \in Nat /\ p.digest = HashOf(p.block) /\ p.block.height = p.view
         /\ Precedes(p.block.pre, p.view)
         /\ \A q \in Said("PREPREPARE") : q.view = p.view => q = p
  BY ProposalOf
<1>2. \A r \in Server : view[r] \in Nat /\ StoreInv(r)
  BY DEF Normal, TypeOK
<1> QED  BY <1>1, <1>2 DEF Ordered, StoreInv

\* The first height without a file is the number of files.
LEMMA FirstGap ==
    ASSUME NEW n \in Nat, NEW D, D = 0 .. n - 1
    PROVE  Min({h \in 0 .. Cardinality(D) : h \notin D}) = n
<1>1. Cardinality(D) = n
  <2>1. 0 \in Int /\ n - 1 \in Int
    OBVIOUS
  <2>2. Cardinality(0 .. n - 1) = IF 0 > n - 1 THEN 0 ELSE n - 1 - 0 + 1
    BY <2>1, FS_Interval
  <2> QED  BY <2>2
<1>2. {h \in 0 .. Cardinality(D) : h \notin D} = {n}
  BY <1>1
<1>3. {n} \in SUBSET Nat /\ {n} # {}
  OBVIOUS
<1>4. Min({n}) \in {n}
  BY <1>3, LeastNumber
<1> QED  BY <1>2, <1>4

LEMMA ChainOrdered ==
    ASSUME NEW r \in Server
    PROVE  /\ Ordered => Chain(r) = [i \in 1 .. view[r] |-> store[r][i - 1]]
           /\ Ordered' => Chain(r)' = [i \in 1 .. view'[r] |-> store'[r][i - 1]]
<1>1. Ordered => Chain(r) = [i \in 1 .. view[r] |-> store[r][i - 1]]
  <2> SUFFICES ASSUME Ordered PROVE Chain(r) = [i \in 1 .. view[r] |-> store[r][i - 1]]
    OBVIOUS
  <2>1. view[r] \in Nat /\ DOMAIN store[r] = 0 .. view[r] - 1
    BY DEF Ordered
  <2>2. Min({h \in 0 .. Cardinality(DOMAIN store[r]) : h \notin DOMAIN store[r]}) = view[r]
    BY <2>1, FirstGap
  <2> QED  BY <2>2 DEF Chain
<1>2. Ordered' => Chain(r)' = [i \in 1 .. view'[r] |-> store'[r][i - 1]]
  <2> SUFFICES ASSUME Ordered' PROVE Chain(r)' = [i \in 1 .. view'[r] |-> store'[r][i - 1]]
    OBVIOUS
  <2>1. view'[r] \in Nat /\ DOMAIN store'[r] = 0 .. view'[r] - 1
    BY DEF Ordered
  <2>2. Min({h \in 0 .. Cardinality(DOMAIN store'[r]) : h \notin DOMAIN store'[r]}) = view'[r]
    BY <2>1, FirstGap
  <2> QED  BY <2>2 DEF Chain
<1> QED  BY <1>1, <1>2

\* A list that another one extends is a prefix of it.
LEMMA PrefixOf ==
    ASSUME NEW S, NEW a \in Seq(S), NEW b \in Seq(S), Len(a) <= Len(b),
           \A i \in 1 .. Len(a) : a[i] = b[i]
    PROVE  LedgerOfPBFT!IsPrefix(a, b)
<1>1. SubSeq(a, 1, Len(a)) = SubSeq(b, 1, Len(a))
  OBVIOUS
<1> QED  BY <1>1 DEF LedgerOfPBFT!IsPrefix

\* The chain of a node is a list of proposed blocks.
LEMMA ChainBlocks ==
    ASSUME NEW r \in Server
    PROVE  /\ Ordered => /\ Chain(r) \in Seq({m.block : m \in Said("PREPREPARE")})
                         /\ Len(Chain(r)) = view[r]
                         /\ \A i \in 1 .. view[r] : Chain(r)[i] = store[r][i - 1]
           /\ Ordered' => /\ Chain(r)' \in Seq({m.block : m \in Said("PREPREPARE")'})
                          /\ Len(Chain(r)') = view'[r]
                          /\ \A i \in 1 .. view'[r] : Chain(r)'[i] = store'[r][i - 1]
<1>1. ASSUME Ordered
      PROVE  /\ Chain(r) \in Seq({m.block : m \in Said("PREPREPARE")})
             /\ Len(Chain(r)) = view[r]
             /\ \A i \in 1 .. view[r] : Chain(r)[i] = store[r][i - 1]
  <2> DEFINE S == {m.block : m \in Said("PREPREPARE")}
  <2>1. view[r] \in Nat /\ DOMAIN store[r] = 0 .. view[r] - 1
    BY <1>1 DEF Ordered
  <2>2. \A i \in 1 .. view[r] : store[r][i - 1] \in S
    BY <1>1, <2>1 DEF Ordered
  <2>3. Chain(r) = [i \in 1 .. view[r] |-> store[r][i - 1]]
    BY <1>1, ChainOrdered
  <2> HIDE DEF S
  <2>4. Chain(r) \in [1 .. view[r] -> S]
    BY <2>2, <2>3
  <2>5. Chain(r) \in Seq(S) /\ Len(Chain(r)) = view[r]
    BY <2>1, <2>4
  <2>6. \A i \in 1 .. view[r] : Chain(r)[i] = store[r][i - 1]
    BY <2>3
  <2> QED  BY <2>5, <2>6 DEF S
<1>2. ASSUME Ordered'
      PROVE  /\ Chain(r)' \in Seq({m.block : m \in Said("PREPREPARE")'})
             /\ Len(Chain(r)') = view'[r]
             /\ \A i \in 1 .. view'[r] : Chain(r)'[i] = store'[r][i - 1]
  <2> DEFINE T == {m.block : m \in Said("PREPREPARE")'}
  <2>1. view'[r] \in Nat /\ DOMAIN store'[r] = 0 .. view'[r] - 1
    BY <1>2 DEF Ordered
  <2>2. \A i \in 1 .. view'[r] : store'[r][i - 1] \in T
    BY <1>2, <2>1 DEF Ordered
  <2>3. Chain(r)' = [i \in 1 .. view'[r] |-> store'[r][i - 1]]
    BY <1>2, ChainOrdered
  <2> HIDE DEF T
  <2>4. Chain(r)' \in [1 .. view'[r] -> T]
    BY <2>2, <2>3
  <2>5. Chain(r)' \in Seq(T) /\ Len(Chain(r)') = view'[r]
    BY <2>1, <2>4
  <2>6. \A i \in 1 .. view'[r] : Chain(r)'[i] = store'[r][i - 1]
    BY <2>3
  <2> QED  BY <2>5, <2>6 DEF T
<1> QED  BY <1>1, <1>2

\* The files of two nodes agree where both have one, and link to the file before.
LEMMA OrderedFiles ==
    ASSUME Ordered'
    PROVE  \A r \in Server : \A h \in DOMAIN store'[r] :
              /\ store'[r][h].height = h
              /\ store'[r][h].pre = IF h = 0 THEN EmptyHash ELSE HashOf(store'[r][h - 1])
              /\ store'[r][h] \in {m.block : m \in Said("PREPREPARE")'}
              /\ \A s \in Server : h \in DOMAIN store'[s] => store'[s][h] = store'[r][h]
<1> SUFFICES ASSUME NEW r \in Server, NEW h \in DOMAIN store'[r]
             PROVE  /\ store'[r][h].height = h
                    /\ store'[r][h].pre = IF h = 0 THEN EmptyHash ELSE HashOf(store'[r][h - 1])
                    /\ store'[r][h] \in {m.block : m \in Said("PREPREPARE")'}
                    /\ \A s \in Server : h \in DOMAIN store'[s] => store'[s][h] = store'[r][h]
  OBVIOUS
<1>1. /\ view'[r] \in Nat /\ DOMAIN store'[r] = 0 .. view'[r] - 1
      /\ \A s \in Server : \A i \in DOMAIN store'[s] :
            \E p \in Said("PREPREPARE")' : p.view = i /\ p.block = store'[s][i]
  BY DEF Ordered
<1>2. PICK p \in Said("PREPREPARE")' : p.view = h /\ p.block = store'[r][h]
  BY <1>1
<1>3. /\ p.view \in Nat /\ p.block.height = p.view
      /\ Precedes(p.block.pre, p.view)'
      /\ \A q \in Said("PREPREPARE")' : q.view = p.view => q = p
  BY DEF Ordered
<1>4. \A s \in Server : h \in DOMAIN store'[s] => store'[s][h] = store'[r][h]
  BY <1>1, <1>2, <1>3
<1>5. CASE h = 0
  BY <1>2, <1>3, <1>4, <1>5 DEF Precedes
<1>6. CASE h # 0
  <2>1. PICK q \in Said("PREPREPARE")' : q.view = h - 1 /\ q.digest = p.block.pre
    BY <1>2, <1>3, <1>6 DEF Precedes
  <2>2. q.digest = HashOf(q.block) /\ \A k \in Said("PREPREPARE")' : k.view = q.view => k = q
    BY DEF Ordered
  <2>3. h - 1 \in DOMAIN store'[r]
    BY <1>1, <1>2, <1>3, <1>6
  <2>4. q.block = store'[r][h - 1]
    BY <1>1, <2>1, <2>2, <2>3
  <2> QED  BY <1>2, <1>3, <1>4, <1>6, <2>1, <2>2, <2>4
<1> QED  BY <1>5, <1>6

\* The chains of any two nodes are comparable.
LEMMA OrderedComparable ==
    ASSUME Ordered', NEW r \in Server, NEW s \in Server
    PROVE  LedgerOfPBFT!Comparable(Chain(r)', Chain(s)')
<1> DEFINE T == {m.block : m \in Said("PREPREPARE")'}
<1>1. ASSUME NEW i \in Server, NEW j \in Server, view'[i] <= view'[j]
      PROVE  LedgerOfPBFT!IsPrefix(Chain(i)', Chain(j)')
  <2>1. /\ Chain(i)' \in Seq(T) /\ Len(Chain(i)') = view'[i]
        /\ \A k \in 1 .. view'[i] : Chain(i)'[k] = store'[i][k - 1]
    BY ChainBlocks
  <2>2. /\ Chain(j)' \in Seq(T) /\ Len(Chain(j)') = view'[j]
        /\ \A k \in 1 .. view'[j] : Chain(j)'[k] = store'[j][k - 1]
    BY ChainBlocks
  <2>3. /\ view'[i] \in Nat /\ DOMAIN store'[i] = 0 .. view'[i] - 1
        /\ view'[j] \in Nat /\ DOMAIN store'[j] = 0 .. view'[j] - 1
    BY DEF Ordered
  <2>4. \A k \in 1 .. view'[i] :
           /\ k \in 1 .. view'[j]
           /\ k - 1 \in DOMAIN store'[i] /\ k - 1 \in DOMAIN store'[j]
    BY <1>1, <2>3
  <2>5. \A k \in 1 .. view'[i] : store'[i][k - 1] = store'[j][k - 1]
    BY <2>4, OrderedFiles
  <2>6. \A k \in 1 .. view'[i] : Chain(i)'[k] = Chain(j)'[k]
    BY <2>1, <2>2, <2>4, <2>5
  <2> HIDE DEF T
  <2> QED  BY <1>1, <2>1, <2>2, <2>6, PrefixOf
<1>2. view'[r] \in Nat /\ view'[s] \in Nat
  BY DEF Ordered
<1>3. view'[r] <= view'[s] \/ view'[s] <= view'[r]
  BY <1>2
<1>4. LedgerOfPBFT!IsPrefix(Chain(r)', Chain(s)') \/ LedgerOfPBFT!IsPrefix(Chain(s)', Chain(r)')
  BY <1>1, <1>3, Zenon
<1> QED  BY <1>4, Zenon DEF LedgerOfPBFT!Comparable

\* The chain of a node links its blocks.
LEMMA OrderedChain ==
    ASSUME Ordered', NEW r \in Server
    PROVE  /\ LedgerOfPBFT!IsChain(Chain(r)')
           /\ LedgerOfPBFT!ToSet(Chain(r)') \subseteq {m.block : m \in Said("PREPREPARE")'}
<1>1. view'[r] \in Nat /\ DOMAIN store'[r] = 0 .. view'[r] - 1
  BY DEF Ordered
<1>2. /\ Chain(r)' \in Seq({m.block : m \in Said("PREPREPARE")'})
      /\ Len(Chain(r)') = view'[r]
      /\ \A i \in 1 .. view'[r] : Chain(r)'[i] = store'[r][i - 1]
  BY ChainBlocks
<1>3. DOMAIN Chain(r)' = 1 .. view'[r]
  BY <1>2
<1>4. ASSUME NEW i \in 1 .. view'[r]
      PROVE  /\ Chain(r)'[i].height = i - 1
             /\ Chain(r)'[i].pre = IF i = 1 THEN EmptyHash
                                            ELSE LedgerOfPBFT!Hash(Chain(r)'[i - 1])
             /\ Chain(r)'[i] \in {m.block : m \in Said("PREPREPARE")'}
  <2>1. i \in Nat /\ i - 1 \in DOMAIN store'[r] /\ Chain(r)'[i] = store'[r][i - 1]
    BY <1>1, <1>2
  <2>2. /\ store'[r][i - 1].height = i - 1
        /\ store'[r][i - 1].pre = IF i - 1 = 0 THEN EmptyHash
                                               ELSE HashOf(store'[r][i - 1 - 1])
        /\ store'[r][i - 1] \in {m.block : m \in Said("PREPREPARE")'}
    BY <2>1, OrderedFiles
  <2>3. CASE i = 1
    BY <2>1, <2>2, <2>3
  <2>4. CASE i # 1
    <3>1. i - 1 # 0 /\ i - 1 \in 1 .. view'[r]
      BY <1>1, <2>4
    <3>2. Chain(r)'[i - 1] = store'[r][i - 1 - 1]
      BY <1>2, <3>1
    <3>3. HashOf(store'[r][i - 1 - 1]) = LedgerOfPBFT!Hash(Chain(r)'[i - 1])
      BY <3>2, Zenon DEF HashOf, LedgerOfPBFT!Hash
    <3> QED  BY <2>1, <2>2, <2>4, <3>1, <3>3
  <2> QED  BY <2>3, <2>4
<1>5. LedgerOfPBFT!IsChain(Chain(r)')
  BY <1>3, <1>4 DEF LedgerOfPBFT!IsChain
<1>6. LedgerOfPBFT!ToSet(Chain(r)') \subseteq {m.block : m \in Said("PREPREPARE")'}
  BY <1>3, <1>4 DEF LedgerOfPBFT!ToSet
<1> QED  BY <1>5, <1>6

LEMMA LedgerCommit ==
    ASSUME Ordered, Ordered', NEW r \in Server, \A s \in Server \ {r} : store'[s] = store[s],
           \A s \in Server : Sent(s) \subseteq Sent(s)', view[r] <= view'[r]
    PROVE  LedgerOfPBFT!Commit(r)
<1> DEFINE T == {m.block : m \in Said("PREPREPARE")'}
<1>1. /\ Said("PREPREPARE") \subseteq Said("PREPREPARE")'
      /\ {m.block : m \in Said("PREPREPARE")} \subseteq T
  BY SaidGrows
<1>2. \A s \in Server \ {r} : Chain(s)' = Chain(s)
  BY DEF Chain
<1>3. /\ view[r] \in Nat /\ DOMAIN store[r] = 0 .. view[r] - 1
      /\ view'[r] \in Nat /\ DOMAIN store'[r] = 0 .. view'[r] - 1
  BY DEF Ordered
<1>4. \A h \in 0 .. view[r] - 1 : store[r][h] = store'[r][h]
  <2> SUFFICES ASSUME NEW h \in 0 .. view[r] - 1 PROVE store[r][h] = store'[r][h]
    OBVIOUS
  <2>1. h \in DOMAIN store[r] /\ h \in DOMAIN store'[r]
    BY <1>3
  <2>2. PICK p \in Said("PREPREPARE") : p.view = h /\ p.block = store[r][h]
    BY <2>1 DEF Ordered
  <2>3. PICK q \in Said("PREPREPARE")' : q.view = h /\ q.block = store'[r][h]
    BY <2>1 DEF Ordered
  <2>4. q = p
    BY <1>1, <2>2, <2>3 DEF Ordered
  <2> QED  BY <2>2, <2>3, <2>4
<1>5. LedgerOfPBFT!IsPrefix(Chain(r), Chain(r)')
  <2>1. /\ Chain(r) \in Seq({m.block : m \in Said("PREPREPARE")}) /\ Len(Chain(r)) = view[r]
        /\ \A k \in 1 .. view[r] : Chain(r)[k] = store[r][k - 1]
    BY ChainBlocks
  <2>2. /\ Chain(r)' \in Seq(T) /\ Len(Chain(r)') = view'[r]
        /\ \A k \in 1 .. view'[r] : Chain(r)'[k] = store'[r][k - 1]
    BY ChainBlocks
  <2>3. \A k \in 1 .. view[r] : k \in 1 .. view'[r] /\ k - 1 \in 0 .. view[r] - 1
    BY <1>3
  <2>4. \A k \in 1 .. view[r] : Chain(r)[k] = Chain(r)'[k]
    BY <1>4, <2>1, <2>2, <2>3
  <2> HIDE DEF T
  <2>5. Chain(r) \in Seq(T)
    BY <1>1, <2>1
  <2> QED  BY <2>1, <2>2, <2>4, <2>5, PrefixOf
<1>6. \A s \in Server \ {r} : LedgerOfPBFT!Comparable(Chain(r)', Chain(s))
  <2> SUFFICES ASSUME NEW s \in Server \ {r}
               PROVE  LedgerOfPBFT!Comparable(Chain(r)', Chain(s))
    OBVIOUS
  <2>1. LedgerOfPBFT!Comparable(Chain(r)', Chain(s)')
    BY OrderedComparable, Zenon
  <2>2. Chain(s)' = Chain(s)
    BY <1>2
  <2> QED  BY <2>1, <2>2, Zenon
<1>7. /\ LedgerOfPBFT!IsChain(Chain(r)')
      /\ LedgerOfPBFT!ToSet(Chain(r)') \subseteq T
  BY OrderedChain, Zenon
<1> DEFINE ledger == [s \in Server |-> Chain(s)]
<1>8. /\ ledger[r] = Chain(r) /\ ledger'[r] = Chain(r)'
      /\ \A s \in Server \ {r} : ledger[s] = Chain(s) /\ ledger'[s] = Chain(s)'
  OBVIOUS
<1>9. /\ {m.block : m \in Said("PREPREPARE")} \subseteq {m.block : m \in Said("PREPREPARE")}'
      /\ LedgerOfPBFT!IsPrefix(ledger[r], ledger'[r])
      /\ LedgerOfPBFT!ToSet(ledger'[r]) \subseteq {m.block : m \in Said("PREPREPARE")}'
      /\ LedgerOfPBFT!IsChain(ledger'[r])
      /\ \A s \in Server \ {r} : /\ ledger'[s] = ledger[s]
                                 /\ LedgerOfPBFT!Comparable(ledger'[r], ledger[s])
  <2> HIDE DEF ledger
  <2> QED  BY <1>1, <1>2, <1>5, <1>6, <1>7, <1>8, Zenon
<1> QED  BY <1>9, Zenon DEF LedgerOfPBFT!Commit

\* PBFT implements the ledger before its first checkpoint and its first timeout: the files
\* of the nodes are prefixes of one chain of proposed blocks, linked by hashes, and grow.
THEOREM NormalCaseLedger == Spec /\ []NormalCase => ImplementsLedger
<1>1. Init => LedgerOfPBFT!Init
  <2> SUFFICES ASSUME Init PROVE LedgerOfPBFT!Init
    OBVIOUS
  <2>1. Said("PREPREPARE") = {}
    BY DEF Init, Said
  <2>2. {m.block : m \in Said("PREPREPARE")} = {}
    BY <2>1
  <2>3. ASSUME NEW r \in Server PROVE Chain(r) = <<>>
    <3>1. DOMAIN store[r] = 0 .. 0 - 1
      BY SMT DEF Init
    <3>2. Min({h \in 0 .. Cardinality(DOMAIN store[r]) : h \notin DOMAIN store[r]}) = 0
      BY <3>1, FirstGap
    <3>3. Chain(r) = [i \in 1 .. 0 |-> store[r][i - 1]]
      BY <3>2 DEF Chain
    <3> QED  BY <3>3
  <2>4. [r \in Server |-> Chain(r)] = [r \in Server |-> <<>>]
    BY <2>3
  <2> QED  BY <2>2, <2>4 DEF LedgerOfPBFT!Init
<1>2. TypeOK /\ Ordered /\ Ordered' /\ [Next]_vars => [LedgerOfPBFT!Next]_(LedgerOfPBFT!vars)
  <2> SUFFICES ASSUME TypeOK, Ordered, Ordered', [Next]_vars
               PROVE  LedgerOfPBFT!Next \/ UNCHANGED LedgerOfPBFT!vars
    OBVIOUS
  <2>1. CASE Next
    <3>1. \A s \in Server : Sent(s) \subseteq Sent(s)' /\ view[s] <= view'[s]
      BY <2>1, StepOfOne, ViewsGrow
    <3>2. PICK r \in Server : \A s \in Server \ {r} : store'[s] = store[s]
      BY <2>1, StepOfOne
    <3>3. LedgerOfPBFT!Commit(r)
      BY <3>1, <3>2, LedgerCommit
    <3> QED  BY <3>3 DEF LedgerOfPBFT!Next
  <2>2. CASE UNCHANGED vars
    <3>1. UNCHANGED <<store, sent>>
      BY <2>2 DEF vars, blkVars
    <3>2. Said("PREPREPARE")' = Said("PREPREPARE") /\ \A r \in Server : Chain(r)' = Chain(r)
      BY <3>1 DEF Said, Chain
    <3>3. /\ {m.block : m \in Said("PREPREPARE")'} = {m.block : m \in Said("PREPREPARE")}
          /\ [r \in Server |-> Chain(r)'] = [r \in Server |-> Chain(r)]
      BY <3>2
    <3> QED  BY <3>3 DEF LedgerOfPBFT!vars
  <2> QED  BY <2>1, <2>2
<1>3. TypeOK /\ NormalInv /\ NormalCase => Ordered
  BY NormalOrdered DEF Normal, NormalInv
<1>4. Spec /\ []NormalCase => LedgerOfPBFT!Spec
  BY <1>1, <1>2, <1>3, PTypeCorrect, NormalCaseInvariant, PTL DEF Spec, LedgerOfPBFT!Spec
<1> QED  BY <1>4 DEF ImplementsLedger

=============================================================================
