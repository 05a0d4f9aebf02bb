-------------------------------- MODULE PBFT --------------------------------
(***************************************************************************)
(* PBFT as orderer/consensus/pbft/core runs it inside a server: the normal *)
(* case, the checkpoints with their garbage collection, the view change    *)
(* and the redo of prepared requests, and the two goroutines that may call *)
(* Preprepare.                                                             *)
(*                                                                         *)
(* Abstractions.                                                           *)
(*  - A request batch is one value of Cmd, a digest is what Block.Hash     *)
(*    takes of the block (of its height, view and time one byte each), and *)
(*    a signature always verifies (nobody forges messages).                *)
(*  - The lists of prepares and commits are sets. They are counted by      *)
(*    length in the code, which is the same as long as no node sends one   *)
(*    of these messages twice: VotesOnce.                                  *)
(*  - Every PBFT message is a broadcast, its sender included. The channels *)
(*    are FIFO for each pair of nodes: sent[s] is the log of what s sent,  *)
(*    rcvd[r][s] how far r has consumed it.                                *)
(*  - A message handler is one atomic step. HandleReq is two, split where  *)
(*    it takes ProposalLock; the goroutine after a reply is one.           *)
(*  - Replies to the client and Execute change no other state and are left *)
(*    out, and so is the collection of new-view messages, which nothing    *)
(*    reads. Of ReplyMsgs only the sequence numbers are kept.              *)
(***************************************************************************)
EXTENDS Integers, Sequences, FiniteSets, SequencesExt, FiniteSetsExt

CONSTANTS
    N,              \* number of nodes, r_0 .. r_(N-1)
    CheckpointNum,  \* CHECKPOINTNUM: slots of MsgLog, requests per checkpoint
    Genesis,        \* the request of GenFirstRound
    ClientCmds,     \* request batches the client submits, each once
    NoCmd,          \* the empty Proposal / empty request list
    MaxView,        \* bound: no node goes beyond this view
    MaxTimeouts     \* bound: expiries of timers in a behaviour

Server == 0 .. N - 1

Cmd == {Genesis} \cup ClientCmds

\* len(msgs) > (NodesNum-1)/3*2
QuorumSize == ((N - 1) \div 3) * 2 + 1

ASSUME NAssumption == N \in Nat /\ N > 0 /\ 2 * QuorumSize > N

ASSUME CheckpointAssumption == CheckpointNum \in Nat /\ CheckpointNum > 0

ASSUME CmdAssumption == NoCmd \notin Cmd

ASSUME BoundAssumption == MaxView \in Nat /\ MaxTimeouts \in Nat

VARIABLES
    phase,        \* CurPhase
    view,         \* View.ViewNumber; View.Leader is Leader(view)
    seq,          \* SequenceNum
    curProposal,  \* CurProposal
    msgLog,       \* MsgLog: a ring of slots, one for each view
    checkpoint,   \* CheckPoint: Seq and CPMsgsBuffer
    vcMsgs,       \* ViewChangeMsgs: view-change, vc-prepare and vc-commit messages
    bs,           \* BlkStore: Height, PreBlkHash, CurBlkHash, CurProposalBlk
    store,        \* the block files of a node, by height
    replied,      \* the sequence numbers in ReplyMsgs
    timer,        \* PTimer is running
    timeouts,     \* expiries so far
    panicked,     \* the process has ended with an index out of range
    lock,         \* ProposalLock is held by a goroutine that has returned
    reqPc,        \* where the goroutine of Server.HandleReq is
    spawned,      \* goroutines that will call Preprepare after a reply
    requests,     \* Server.Requests
    reqFlag,      \* Orderer.ReqFlagChan holds a flag
    pool,         \* batches the client has not submitted yet
    sent,         \* messages a node sent, in order
    rcvd          \* rcvd[r][s]: how many messages of s r has consumed

blkVars   == <<bs, store, replied>>
timerVars == <<timer, timeouts>>
goVars    == <<lock, reqPc, spawned>>
reqVars   == <<requests, reqFlag, pool>>
vars == <<phase, view, seq, curProposal, msgLog, checkpoint, vcMsgs, blkVars,
          timerVars, panicked, goVars, reqVars, sent, rcvd>>

----------------------------------------------------------------------------
(* Data *)

Phase == {"NEW_VIEW", "PREPREPARE", "PREPARE", "VIEW_CHANGE", "CHECKPOINT", "WAITING"}

MsgType == {"NEW_VIEW", "PREPREPARE", "PREPARE", "COMMIT", "VIEW_CHANGE",
            "CHECKPOINT", "VC_PREPARE", "VC_COMMIT"}

Hash == [view : Int, height : Int, time : Int, cmd : Cmd \cup {NoCmd}]

\* merkle.EmptyHash() and nil
EmptyHash == [view |-> -1, height |-> 0, time |-> 0, cmd |-> NoCmd]

NilHash == [view |-> -2, height |-> 0, time |-> 0, cmd |-> NoCmd]

Block == [view : Int, height : Int, time : Int, cmd : Cmd \cup {NoCmd}, pre : Hash]

EmptyBlock ==
    [view |-> 0, height |-> 0, time |-> 0, cmd |-> NoCmd, pre |-> NilHash]

\* Block.Hash: of the height, the view and the time it keeps one byte each
HashOf(b) ==
    [view |-> b.view % 256, height |-> b.height % 256, time |-> b.time % 256,
     cmd |-> b.cmd]

\* Pm: a pre-prepare with its prepares; top is the highest sequence number of
\* the prepares that were filed with it
Pm == [seq : Nat, digest : Hash, top : Nat]

\* A pre-prepare, prepare or commit of the redo, in an OSet
Redo == [seq : Nat, digest : Hash]

Msg == [type : MsgType, view : Nat, seq : Nat, src : Server, digest : Hash,
        block : Block, pset : Seq(Pm), oset : Seq(Redo)]

MkMsg(t, v, n, s, d) ==
    [type |-> t, view |-> v, seq |-> n, src |-> s, digest |-> d,
     block |-> EmptyBlock, pset |-> <<>>, oset |-> <<>>]

NoMsg == MkMsg("NONE", 0, 0, 0, NilHash)

\* A slot of the ring; the lists of prepares and commits are sets, finite ones
Slot == {l \in [pp : Msg \cup {NoMsg}, prepares : SUBSET Msg, commits : SUBSET Msg] :
            IsFiniteSet(l.prepares) /\ IsFiniteSet(l.commits)}

EmptySlot == [pp |-> NoMsg, prepares |-> {}, commits |-> {}]

EmptyLog == [i \in 0 .. CheckpointNum - 1 |-> EmptySlot]

VCMsgs == [vcs : Seq(Msg), prepares : Seq(Msg), commits : Seq(Msg)]

NoVCMsgs == [vcs |-> <<>>, prepares |-> <<>>, commits |-> <<>>]

BlkStore == [height : Nat, pre : Hash, cur : Hash, blk : Block]

----------------------------------------------------------------------------
(* Helpers *)

Leader(v) == v % N

IsLeader(r) == r = Leader(view[r])

IsWaitingReq(r) == phase[r] = "WAITING"

SlotOf(v) == v % CheckpointNum

Matches(m, pp) == m.view = pp.view /\ m.seq = pp.seq /\ m.digest = pp.digest

\* The checks of CheckMsg on the numbers of a message
InWindow(r, m) == m.seq <= checkpoint[r].seq + CheckpointNum

\* LogMsg of a prepare or commit: the slot is that of the node's view, also for
\* a message of a later view
LogMsg(r, m) ==
    LET l      == msgLog[r][SlotOf(view[r])]
        logged == IF m.type = "PREPARE" THEN [l EXCEPT !.prepares = @ \cup {m}]
                  ELSE [l EXCEPT !.commits = @ \cup {m}]
    IN  [msgLog[r] EXCEPT ![SlotOf(view[r])] = logged]

Send(r, m) == sent' = [sent EXCEPT ![r] = Append(@, m)]

WriteBlock(files, b) ==
    [h \in DOMAIN files \cup {b.height} |-> IF h = b.height THEN b ELSE files[h]]

\* GenCheckPoint: the node's own checkpoint message joins the buffer
GenCheckPoint(r, n, d) ==
    IF (n + 1) % CheckpointNum = 0
    THEN [checkpoint[r] EXCEPT !.buffer =
             [i \in DOMAIN @ \cup {n} |->
                 IF i = n THEN (IF n \in DOMAIN @ THEN @[n] ELSE <<>>)
                               \o <<MkMsg("CHECKPOINT", 0, n, r, d)>>
                 ELSE @[i]]]
    ELSE checkpoint[r]

\* Mutant: the link to the block before is not moved on
StoredSamePre(b) == [b EXCEPT !.height = @ + 1, !.cur = NilHash]

\* StoreBlock on the fields of the block store
Stored(b) == [b EXCEPT !.height = @ + 1, !.pre = b.cur, !.cur = NilHash]

\* Mutant: only a checkpoint and a new leader leave COMMIT
PhaseAfterReplyCommit(r, n) ==
    CASE (n + 1) % CheckpointNum = 0 -> "CHECKPOINT"
      [] (n + 1) % CheckpointNum # 0 /\ r = Leader(view[r] + 1) -> "WAITING"
      [] OTHER -> "COMMIT"

\* CurPhase after sequence number n is replied to and the next view entered
PhaseAfterReply(r, n) ==
    CASE (n + 1) % CheckpointNum = 0 -> "CHECKPOINT"
      [] (n + 1) % CheckpointNum # 0 /\ r = Leader(view[r] + 1) -> "WAITING"
      [] OTHER -> "NEW_VIEW"

\* The common tail of HandleCommitMsg and CheckPrepareAndCommit, with the REPLY
\* case of HandlePMsg: store block b of sequence number n, enter the next view,
\* restart the timer; the next leader waits for requests and starts a goroutine;
\* at a checkpoint the first checkpoint message of the buffer goes out.
Reply(r, n, d, b) ==
    LET cp == GenCheckPoint(r, n, d) IN
    /\ view[r] < MaxView
    /\ store' = [store EXCEPT ![r] = WriteBlock(@, b.blk)]
    /\ replied' = [replied EXCEPT ![r] = @ \cup {n}]
    /\ bs' = [bs EXCEPT ![r] = Stored(b)]
    /\ checkpoint' = [checkpoint EXCEPT ![r] = cp]
    /\ view' = [view EXCEPT ![r] = @ + 1]
    /\ seq' = [seq EXCEPT ![r] = n + 1]
    /\ curProposal' = [curProposal EXCEPT ![r] = NoCmd]
    /\ timer' = [timer EXCEPT ![r] = TRUE]
    /\ phase' = [phase EXCEPT ![r] = PhaseAfterReply(r, n)]
    /\ spawned' = [spawned EXCEPT ![r] = IF r = Leader(view[r] + 1) THEN @ + 1 ELSE @]
    /\ IF (n + 1) % CheckpointNum = 0 THEN Send(r, cp.buffer[n][1]) ELSE UNCHANGED sent
    /\ UNCHANGED <<vcMsgs, timeouts, panicked, lock, reqPc, reqVars>>

----------------------------------------------------------------------------
(* Requests *)

\* GenNewReq finds a leader that waits and has room, and raises its flag.
GenNewReq(r, c) ==
    /\ c \in pool /\ ~panicked[r]
    /\ IsLeader(r) /\ IsWaitingReq(r)
    /\ requests[r] = NoCmd /\ ~reqFlag[r]
    /\ requests' = [requests EXCEPT ![r] = c]
    /\ reqFlag' = [reqFlag EXCEPT ![r] = TRUE]
    /\ pool' = pool \ {c}
    /\ UNCHANGED <<phase, view, seq, curProposal, msgLog, checkpoint, vcMsgs, blkVars,
                   timerVars, panicked, goVars, sent, rcvd>>

\* Server.HandleReq takes a flag; PBFT.HandleReq up to ProposalLock.Lock()
HandleReq(r) ==
    /\ reqFlag[r] /\ reqPc[r] = "idle" /\ ~panicked[r]
    /\ reqFlag' = [reqFlag EXCEPT ![r] = FALSE]
    /\ IF requests[r] # NoCmd /\ IsLeader(r)
       THEN /\ curProposal' = [curProposal EXCEPT ![r] = requests[r]]
            /\ phase' = [phase EXCEPT ![r] = "NEW_VIEW"]
            /\ reqPc' = [reqPc EXCEPT ![r] = "locking"]
       ELSE UNCHANGED <<curProposal, phase, reqPc>>
    /\ UNCHANGED <<view, seq, msgLog, checkpoint, vcMsgs, blkVars, timerVars, panicked,
                   lock, spawned, requests, pool, sent, rcvd>>

NewBlock(r) ==
    [view |-> view[r], height |-> bs[r].height, time |-> Len(sent[r]),
     cmd |-> curProposal[r], pre |-> bs[r].pre]

CanPreprepare(r) == curProposal[r] # NoCmd /\ phase[r] = "NEW_VIEW"

\* Preprepare and the send: a new block, logged and broadcast
Preprepare(r) ==
    LET b == NewBlock(r)
        m == [MkMsg("PREPREPARE", view[r], seq[r], r, HashOf(b)) EXCEPT !.block = b]
    IN
    IF CanPreprepare(r)
    THEN /\ bs' = [bs EXCEPT ![r] = [@ EXCEPT !.blk = b, !.cur = HashOf(b)]]
         /\ msgLog' = [msgLog EXCEPT ![r] = [@ EXCEPT ![SlotOf(view[r])].pp = m]]
         /\ phase' = [phase EXCEPT ![r] = "PREPREPARE"]
         /\ Send(r, m)
    ELSE UNCHANGED <<bs, msgLog, phase, sent>>

\* The rest of PBFT.HandleReq, when it gets ProposalLock. If the phase has
\* changed in between it returns without releasing the lock.
ProposeRequest(r) ==
    /\ reqPc[r] = "locking" /\ ~lock[r] /\ ~panicked[r]
    /\ reqPc' = [reqPc EXCEPT ![r] = "idle"]
    /\ requests' = [requests EXCEPT ![r] = NoCmd]
    /\ lock' = [lock EXCEPT ![r] = phase[r] # "NEW_VIEW"]
    /\ Preprepare(r)
    /\ UNCHANGED <<view, seq, curProposal, checkpoint, vcMsgs, store, replied, timerVars,
                   panicked, spawned, reqFlag, pool, rcvd>>

\* The goroutine of the REPLY and VC_REPLY cases: TryLock, Preprepare, Unlock
PreprepareAfterReply(r) ==
    /\ spawned[r] > 0 /\ ~panicked[r]
    /\ spawned' = [spawned EXCEPT ![r] = @ - 1]
    /\ IF lock[r] THEN UNCHANGED <<bs, msgLog, phase, sent>> ELSE Preprepare(r)
    /\ UNCHANGED <<view, seq, curProposal, checkpoint, vcMsgs, store, replied, timerVars,
                   panicked, lock, reqPc, reqVars, rcvd>>

----------------------------------------------------------------------------
(* The normal case. r is the node, m the message it takes from its channel. *)

\* CheckPrePrepareMsg and the test before it
AcceptsPrePrepare(r, m) ==
    /\ msgLog[r][SlotOf(m.view)].pp = NoMsg
    /\ m.view = view[r]
    /\ seq[r] <= m.seq

HandlePrePrepare(r, m) ==
    LET early    == msgLog[r][SlotOf(view[r])]
        commits  == IF early.prepares = {} THEN early.commits
                    ELSE {c \in early.commits : Matches(c, m)}
        adopted  == IF IsLeader(r) THEN bs[r]
                    ELSE [bs[r] EXCEPT !.blk = m.block, !.cur = HashOf(m.block)]
        replies  == early.prepares # {} /\ Cardinality(commits) >= QuorumSize
    IN
    /\ m.type = "PREPREPARE"
    /\ \/ /\ ~AcceptsPrePrepare(r, m)
          /\ UNCHANGED <<phase, view, seq, curProposal, msgLog, checkpoint, vcMsgs, blkVars,
                         timerVars, panicked, goVars, reqVars, sent>>
       \/ /\ AcceptsPrePrepare(r, m)
          /\ msgLog' = [msgLog EXCEPT ![r] = [@ EXCEPT ![SlotOf(view[r])] =
                           [early EXCEPT !.pp = m, !.commits = commits]]]
          /\ \/ /\ replies
                /\ Reply(r, IF IsLeader(r) THEN seq[r] ELSE m.seq, m.digest, adopted)
             \/ /\ ~replies
                /\ Send(r, MkMsg("PREPARE", view[r], m.seq, r, m.digest))
                /\ bs' = [bs EXCEPT ![r] = adopted]
                /\ IF IsLeader(r) THEN UNCHANGED <<phase, curProposal, seq, timer>>
                   ELSE /\ phase' = [phase EXCEPT ![r] = "PREPREPARE"]
                        /\ curProposal' = [curProposal EXCEPT ![r] = m.block.cmd]
                        /\ seq' = [seq EXCEPT ![r] = m.seq]
                        /\ timer' = [timer EXCEPT ![r] = FALSE]
                /\ UNCHANGED <<view, checkpoint, vcMsgs, store, replied, timeouts, panicked,
                               goVars, reqVars>>

\* Mutant: a prepare or commit that overtakes its pre-prepare is lost
FiledOnlyMatching(r, m) ==
    LET pp == msgLog[r][SlotOf(m.view)].pp IN
    InWindow(r, m) /\ pp # NoMsg /\ Matches(m, pp)

\* MatchPrePrepareMsg: a prepare or commit without a pre-prepare is kept, one
\* that does not match it is lost
Filed(r, m) ==
    LET pp == msgLog[r][SlotOf(m.view)].pp IN
    /\ InWindow(r, m)
    /\ pp = NoMsg \/ Matches(m, pp)

\* m is filed and found to match
Checked(r, m) == Filed(r, m) /\ msgLog[r][SlotOf(m.view)].pp # NoMsg

\* The prepares, and the commits, of the node's view after m is filed
Prepares(r, m) == LogMsg(r, m)[SlotOf(view[r])].prepares

Commits(r, m) == LogMsg(r, m)[SlotOf(view[r])].commits

\* Mutant: every prepare after a quorum of them is answered
PreparedAgain(r, m) ==
    Checked(r, m) /\ Cardinality(Prepares(r, m)) >= QuorumSize

prepared(r, m) ==
    Checked(r, m) /\ phase[r] # "PREPARE" /\ Cardinality(Prepares(r, m)) >= QuorumSize

HandlePrepare(r, m) ==
    /\ m.type = "PREPARE"
    /\ IF phase[r] # "VIEW_CHANGE" /\ Filed(r, m)
       THEN msgLog' = [msgLog EXCEPT ![r] = LogMsg(r, m)]
       ELSE UNCHANGED msgLog
    /\ \/ /\ phase[r] = "VIEW_CHANGE" \/ ~prepared(r, m)
          /\ UNCHANGED <<phase, sent>>
       \/ /\ phase[r] # "VIEW_CHANGE" /\ prepared(r, m)
          /\ phase' = [phase EXCEPT ![r] = "PREPARE"]
          /\ Send(r, MkMsg("COMMIT", view[r], seq[r], r, m.digest))
    /\ UNCHANGED <<view, seq, curProposal, checkpoint, vcMsgs, blkVars, timerVars, panicked,
                   goVars, reqVars>>

\* Mutant: a commit fewer is enough
CommitedOneLess(r, m) ==
    /\ Checked(r, m)
    /\ Cardinality(Prepares(r, m)) >= QuorumSize
    /\ Cardinality(Commits(r, m)) >= QuorumSize - 1

commited(r, m) ==
    /\ Checked(r, m)
    /\ Cardinality(Prepares(r, m)) >= QuorumSize
    /\ Cardinality(Commits(r, m)) >= QuorumSize

HandleCommit(r, m) ==
    /\ m.type = "COMMIT"
    /\ IF phase[r] # "VIEW_CHANGE" /\ Filed(r, m)
       THEN msgLog' = [msgLog EXCEPT ![r] = LogMsg(r, m)]
       ELSE UNCHANGED msgLog
    /\ \/ /\ phase[r] = "VIEW_CHANGE" \/ ~commited(r, m)
          /\ UNCHANGED <<phase, view, seq, curProposal, checkpoint, vcMsgs, blkVars,
                         timerVars, panicked, goVars, reqVars, sent>>
       \/ /\ phase[r] # "VIEW_CHANGE" /\ commited(r, m)
          /\ Reply(r, seq[r], m.digest, bs[r])

\* A stable checkpoint empties the log, whatever round the node is in.
HandleCheckPoint(r, m) ==
    LET cp  == checkpoint[r]
        buf == (IF m.seq \in DOMAIN cp.buffer THEN cp.buffer[m.seq] ELSE <<>>) \o <<m>>
        stable == Len(buf) >= QuorumSize
        buffer == [n \in DOMAIN cp.buffer \cup {m.seq} |->
                      IF n # m.seq THEN cp.buffer[n] ELSE IF stable THEN <<>> ELSE buf]
    IN
    /\ m.type = "CHECKPOINT"
    /\ \/ /\ m.seq <= cp.seq
          /\ UNCHANGED <<checkpoint, msgLog, phase>>
       \/ /\ m.seq > cp.seq /\ ~stable
          /\ checkpoint' = [checkpoint EXCEPT ![r].buffer = buffer]
          /\ UNCHANGED <<msgLog, phase>>
       \/ /\ m.seq > cp.seq /\ stable
          /\ checkpoint' = [checkpoint EXCEPT ![r] = [seq |-> m.seq, buffer |-> buffer]]
          /\ msgLog' = [msgLog EXCEPT ![r] = EmptyLog]
          /\ phase' = [phase EXCEPT ![r] = IF IsLeader(r) THEN "WAITING" ELSE "NEW_VIEW"]
    /\ UNCHANGED <<view, seq, curProposal, vcMsgs, blkVars, timerVars, panicked, goVars,
                   reqVars, sent>>

----------------------------------------------------------------------------
(* The view change *)

\* GetValidMsgs: the slots from 0 up to the first that is not prepared
GetValidMsgs(r) ==
    LET log == msgLog[r]
        valid(i) == log[i].pp # NoMsg /\ Cardinality(log[i].prepares) >= QuorumSize
        pm(i) == [seq |-> log[i].pp.seq, digest |-> log[i].pp.digest,
                  top |-> Max({p.seq : p \in log[i].prepares})]
        ends == {i \in 0 .. CheckpointNum : i = CheckpointNum \/ ~valid(i)}
    IN  [k \in 1 .. Min(ends) |-> pm(k - 1)]

StartViewChange(r) ==
    /\ timer[r] /\ ~panicked[r]
    /\ timeouts < MaxTimeouts /\ view[r] < MaxView
    /\ timeouts' = timeouts + 1
    /\ timer' = [timer EXCEPT ![r] = FALSE]
    /\ phase' = [phase EXCEPT ![r] = "VIEW_CHANGE"]
    /\ Send(r, [MkMsg("VIEW_CHANGE", view[r] + 1, checkpoint[r].seq, r, NilHash)
                   EXCEPT !.pset = GetValidMsgs(r)])
    /\ UNCHANGED <<view, seq, curProposal, msgLog, checkpoint, vcMsgs, blkVars, panicked,
                   goVars, reqVars, rcvd>>

\* All Pm of a list of view-change messages
PSets(vcs) == UNION {ToSet(vcs[i].pset) : i \in DOMAIN vcs}

\* GetSeq: the latest stable checkpoint and the highest prepared sequence number
MinS(vcs) == Max({vcs[i].seq : i \in DOMAIN vcs})

MaxS(vcs) == Max({-1} \cup {pm.top : pm \in PSets(vcs)})

\* The digest of the first Pm for sequence number n, nil if there is none
FirstDigest(vcs, n) ==
    LET found(list) == {k \in DOMAIN list : list[k].seq = n}
        with == {i \in DOMAIN vcs : found(vcs[i].pset) # {}}
    IN  IF with = {} THEN NilHash
        ELSE LET list == vcs[Min(with)].pset IN list[Min(found(list))].digest

\* The pre-prepares of the new view: the first digest found for each number
OSet(vcs) ==
    IF MaxS(vcs) = -1 THEN <<>>
    ELSE [k \in 1 .. MaxS(vcs) - MinS(vcs) + 1 |->
             [seq |-> MinS(vcs) + k - 1, digest |-> FirstDigest(vcs, MinS(vcs) + k - 1)]]

\* Only the message that makes the list exactly a quorum counts, whatever views
\* the messages of the list are for.
HandleViewChange(r, m) ==
    LET vcs == Append(vcMsgs[r].vcs, m)
        v   == IF m.view > view[r] THEN m.view ELSE view[r]
    IN
    /\ m.type = "VIEW_CHANGE"
    /\ vcMsgs' = [vcMsgs EXCEPT ![r].vcs = vcs]
    /\ \/ /\ Len(vcs) # QuorumSize
          /\ UNCHANGED <<view, sent>>
       \/ /\ Len(vcs) = QuorumSize
          /\ view' = [view EXCEPT ![r] = v]
          /\ IF r = Leader(v)
             THEN Send(r, [MkMsg("NEW_VIEW", v, 0, r, NilHash) EXCEPT !.oset = OSet(vcs)])
             ELSE UNCHANGED sent
    /\ UNCHANGED <<phase, seq, curProposal, msgLog, checkpoint, blkVars, timerVars, panicked,
                   goVars, reqVars>>

\* The Pm that VerifyOSet compares, with the number it is at
Compared(vcs) ==
    {pm \in PSets(vcs) : MinS(vcs) <= pm.seq /\ pm.seq < MaxS(vcs)}

\* VerifyOSet; the index j into the OSet stays at its first entry
VerifyOSet(vcs, oset) ==
    IF oset = <<>> THEN PSets(vcs) = {}
    ELSE /\ Len(oset) = MaxS(vcs) - MinS(vcs) + 1
         /\ \A pm \in Compared(vcs) : oset[1].digest = pm.digest

\* GetSeq without view-change messages reads entry 0 of an empty slice, and
\* VerifyOSet reads the entry of the OSet at the sequence number itself, unless a
\* digest that is not the same ends it before
Panics(vcs, oset) ==
    \/ vcs = <<>>
    \/ /\ oset # <<>> /\ Len(oset) = MaxS(vcs) - MinS(vcs) + 1
       /\ \E n \in {pm.seq : pm \in Compared(vcs)} :
             /\ n >= Len(oset) /\ FirstDigest(vcs, n) = oset[1].digest
             /\ \A pm \in Compared(vcs) :
                   pm.seq < n => pm.seq < Len(oset) /\ pm.digest = oset[1].digest

\* The VC_REPLY case of HandlePMsg
VCReply(r, v) ==
    /\ vcMsgs' = [vcMsgs EXCEPT ![r] = NoVCMsgs]
    /\ timer' = [timer EXCEPT ![r] = TRUE]
    /\ phase' = [phase EXCEPT ![r] = IF r = Leader(v) THEN "WAITING" ELSE "NEW_VIEW"]
    /\ spawned' = [spawned EXCEPT ![r] = IF r = Leader(v) THEN @ + 1 ELSE @]

HandleNewView(r, m) ==
    LET vcs == vcMsgs[r].vcs
        accepted == m.view = view[r] /\ ~Panics(vcs, m.oset) /\ VerifyOSet(vcs, m.oset)
    IN
    /\ m.type = "NEW_VIEW"
    /\ panicked' = [panicked EXCEPT ![r] = m.view = view[r] /\ Panics(vcs, m.oset)]
    /\ \/ /\ ~accepted
          /\ UNCHANGED <<curProposal, bs, msgLog, vcMsgs, timer, phase, spawned, sent>>
       \/ /\ accepted
          /\ curProposal' = [curProposal EXCEPT ![r] = NoCmd]
          /\ bs' = [bs EXCEPT ![r] = [@ EXCEPT !.blk = EmptyBlock, !.cur = EmptyHash]]
          /\ msgLog' = [msgLog EXCEPT ![r] = EmptyLog]
          /\ \/ /\ m.oset = <<>>
                /\ VCReply(r, view[r])
                /\ UNCHANGED sent
             \/ /\ m.oset # <<>>
                /\ Send(r, [MkMsg("VC_PREPARE", view[r], 0, r, NilHash)
                               EXCEPT !.oset = m.oset])
                /\ UNCHANGED <<vcMsgs, timer, phase, spawned>>
    /\ UNCHANGED <<view, seq, checkpoint, store, replied, timeouts, lock, reqPc, reqVars>>

HandleVCPrepare(r, m) ==
    LET prepares == Append(vcMsgs[r].prepares, m)
        expected == phase[r] = "VIEW_CHANGE" /\ m.view = view[r]
    IN
    /\ m.type = "VC_PREPARE"
    /\ \/ /\ ~expected
          /\ UNCHANGED <<vcMsgs, sent>>
       \/ /\ expected
          /\ vcMsgs' = [vcMsgs EXCEPT ![r].prepares = prepares]
          /\ IF Len(prepares) = QuorumSize
             THEN Send(r, [MkMsg("VC_COMMIT", view[r], 0, r, NilHash) EXCEPT !.oset = m.oset])
             ELSE UNCHANGED sent
    /\ UNCHANGED <<phase, view, seq, curProposal, msgLog, checkpoint, blkVars, timerVars,
                   panicked, goVars, reqVars>>

\* The REPLY messages of a redo go to requests not replied to yet, with a digest; for
\* the first of them HandlePMsg reads entry 0 of the view-change messages.
RedoPanics(r, m) ==
    /\ vcMsgs[r].vcs = <<>>
    /\ \E o \in ToSet(m.oset) : o.seq \notin replied[r] /\ o.digest # NilHash

\* The redone requests are replied to but no block is stored for them. (When the
\* process ends here its other variables do not matter any more.)
HandleVCCommit(r, m) ==
    LET commits  == Append(vcMsgs[r].commits, m)
        expected == phase[r] = "VIEW_CHANGE" /\ m.view = view[r]
        top      == Max({0} \cup {o.seq : o \in UNION {ToSet(c.oset) : c \in ToSet(commits)}})
    IN
    /\ m.type = "VC_COMMIT"
    /\ \/ /\ ~expected
          /\ UNCHANGED <<vcMsgs, view, seq, timer, phase, spawned, panicked>>
       \/ /\ expected /\ Len(commits) # QuorumSize
          /\ vcMsgs' = [vcMsgs EXCEPT ![r].commits = commits]
          /\ UNCHANGED <<view, seq, timer, phase, spawned, panicked>>
       \/ /\ expected /\ Len(commits) = QuorumSize
          /\ view[r] < MaxView
          /\ view' = [view EXCEPT ![r] = @ + 1]
          /\ seq' = [seq EXCEPT ![r] = top + 1]
          /\ panicked' = [panicked EXCEPT ![r] = RedoPanics(r, m)]
          /\ VCReply(r, view[r] + 1)
    /\ UNCHANGED <<curProposal, msgLog, checkpoint, blkVars, timeouts, lock, reqPc, reqVars,
                   sent>>

----------------------------------------------------------------------------
(* Delivery and the specification *)

\* HandlePMsg: messages of earlier views are lost, but for checkpoints
Outdated(r, m) == m.view < view[r] /\ m.type # "CHECKPOINT"

HandlePMsg(r, m) ==
    \/ /\ Outdated(r, m)
       /\ UNCHANGED <<phase, view, seq, curProposal, msgLog, checkpoint, vcMsgs, blkVars,
                      timerVars, panicked, goVars, reqVars, sent>>
    \/ /\ ~Outdated(r, m)
       /\ \/ HandlePrePrepare(r, m)
          \/ HandlePrepare(r, m)
          \/ HandleCommit(r, m)
          \/ HandleCheckPoint(r, m)
          \/ HandleViewChange(r, m)
          \/ HandleNewView(r, m)
          \/ HandleVCPrepare(r, m)
          \/ HandleVCCommit(r, m)

\* RouteServerMsg: r takes the next message of s
Receive(r, s) ==
    /\ ~panicked[r] /\ rcvd[r][s] < Len(sent[s])
    /\ rcvd' = [rcvd EXCEPT ![r][s] = @ + 1]
    /\ HandlePMsg(r, sent[s][rcvd[r][s] + 1])

\* NewPBFT on every node, InitLeader on r_0, then GenFirstRound
Init ==
    /\ phase = [r \in Server |-> IF r = 0 THEN "WAITING" ELSE "NEW_VIEW"]
    /\ view = [r \in Server |-> 0]
    /\ seq = [r \in Server |-> 0]
    /\ curProposal = [r \in Server |-> NoCmd]
    /\ msgLog = [r \in Server |-> EmptyLog]
    /\ checkpoint = [r \in Server |-> [seq |-> 0, buffer |-> <<>>]]
    /\ vcMsgs = [r \in Server |-> NoVCMsgs]
    /\ bs = [r \in Server |-> [height |-> 0, pre |-> EmptyHash, cur |-> EmptyHash,
                               blk |-> EmptyBlock]]
    /\ store = [r \in Server |-> <<>>]
    /\ replied = [r \in Server |-> {}]
    /\ timer = [r \in Server |-> FALSE]
    /\ timeouts = 0
    /\ panicked = [r \in Server |-> FALSE]
    /\ lock = [r \in Server |-> FALSE]
    /\ reqPc = [r \in Server |-> "idle"]
    /\ spawned = [r \in Server |-> 0]
    /\ requests = [r \in Server |-> IF r = 0 THEN Genesis ELSE NoCmd]
    /\ reqFlag = [r \in Server |-> r = 0]
    /\ pool = ClientCmds
    /\ sent = [r \in Server |-> <<>>]
    /\ rcvd = [r \in Server |-> [s \in Server |-> 0]]

Next ==
    \/ \E r \in Server, c \in ClientCmds : GenNewReq(r, c)
    \/ \E r \in Server : HandleReq(r)
    \/ \E r \in Server : ProposeRequest(r)
    \/ \E r \in Server : PreprepareAfterReply(r)
    \/ \E r, s \in Server : Receive(r, s)
    \/ \E r \in Server : StartViewChange(r)

Spec == Init /\ [][Next]_vars
----------------------------------------------------------------------------
(* Correctness *)

\* What s sent, and the messages of type t that were sent
Sent(s) == {sent[s][i] : i \in DOMAIN sent[s]}

Said(t) == UNION {{sent[s][i] : i \in {j \in DOMAIN sent[s] : sent[s][j].type = t}} :
                     s \in Server}

\* A node keeps lists of checkpoint messages by sequence number.
IsCheckPoint(c) ==
    /\ c = [seq |-> c.seq, buffer |-> c.buffer] /\ c.seq \in Nat
    /\ \A n \in DOMAIN c.buffer : n \in Nat /\ c.buffer[n] \in Seq(Msg)

\* Every variable keeps the type its field has in PBFT and BlockStore.
TypeOK ==
    /\ phase \in [Server -> Phase]
    /\ view \in [Server -> Nat]
    /\ seq \in [Server -> Nat]
    /\ curProposal \in [Server -> Cmd \cup {NoCmd}]
    /\ msgLog \in [Server -> [0 .. CheckpointNum - 1 -> Slot]]
    /\ DOMAIN checkpoint = Server /\ \A r \in Server : IsCheckPoint(checkpoint[r])
    /\ vcMsgs \in [Server -> VCMsgs]
    /\ DOMAIN store = Server
    /\ \A r \in Server : \A h \in DOMAIN store[r] : store[r][h] \in Block
    /\ replied \in [Server -> SUBSET Nat]
    /\ bs \in [Server -> BlkStore]
    /\ timer \in [Server -> BOOLEAN]
    /\ timeouts \in Nat
    /\ panicked \in [Server -> BOOLEAN]
    /\ lock \in [Server -> BOOLEAN]
    /\ reqPc \in [Server -> {"idle", "locking"}]
    /\ spawned \in [Server -> Nat]
    /\ requests \in [Server -> Cmd \cup {NoCmd}]
    /\ reqFlag \in [Server -> BOOLEAN]
    /\ pool \subseteq ClientCmds
    /\ sent \in [Server -> Seq(Msg)]
    /\ rcvd \in [Server -> [Server -> Nat]]

Senders(t, b) ==
    {s \in Server : \E m \in Sent(s) :
        m.type = t /\ m.view = b.view /\ m.digest = HashOf(b)}

\* A block is stored only when a quorum of nodes has told everybody that it is
\* prepared, although LogMsg files messages of later views in the slot of the
\* current one and they are counted there.
StoredCertified ==
    \A r \in Server : \A h \in DOMAIN store[r] :
        Cardinality(Senders("COMMIT", store[r][h])) >= QuorumSize

\* prepared and commited count lists, "accepted 2f+1 commits from different replicas":
\* no node sends the same prepare or commit twice, though a checkpoint or a new view
\* empties its log, and late messages set its phase back, within a view.
VotesOnce ==
    \A s \in Server : \A i, j \in DOMAIN sent[s] :
        sent[s][i] = sent[s][j] /\ sent[s][i].type \in {"PREPARE", "COMMIT"} => i = j

\* No timer has expired and no node has reached its first checkpoint.
NormalCase == timeouts = 0 /\ \A r \in Server : view[r] < CheckpointNum

\* h is the hash of the block proposed in the view before v
Precedes(h, v) ==
    IF v = 0 THEN h = EmptyHash
    ELSE \E p \in Said("PREPREPARE") : p.view = v - 1 /\ p.digest = h

\* A leader proposes once in a view, the block after the one of the view before, and
\* keeps its proposal; a commit is for the proposal of its view.
MessageInv(r) ==
    \A m \in Sent(r) :
        /\ m.type \in {"PREPREPARE", "PREPARE", "COMMIT"} /\ m.src = r
        /\ m.view <= view[r] /\ m.seq = m.view
        /\ m.type = "PREPREPARE" =>
              /\ r = Leader(m.view) /\ m.digest = HashOf(m.block)
              /\ m.block.view = m.view /\ m.block.height = m.view
              /\ Precedes(m.block.pre, m.view)
              /\ m.view = view[r] =>
                    msgLog[r][m.view].pp = m /\ phase[r] \notin {"NEW_VIEW", "WAITING"}
              /\ \A k \in Sent(r) : k.type = m.type /\ k.view = m.view => k = m
        /\ m.type = "COMMIT" =>
              /\ m = MkMsg("COMMIT", m.view, m.view, r, m.digest)
              /\ \E p \in Said("PREPREPARE") : p.view = m.view /\ p.digest = m.digest

\* The view, the sequence number and the height of a node are one number. What it has
\* logged for its view was sent, commits perhaps in a later one; the log of later
\* views is empty; and only a leader that has not proposed has something to propose.
RoundInv(r) ==
    LET slot == msgLog[r][view[r]] IN
    /\ seq[r] = view[r] /\ bs[r].height = view[r] /\ Precedes(bs[r].pre, view[r])
    /\ \A i \in view[r] + 1 .. CheckpointNum - 1 : msgLog[r][i] = EmptySlot
    /\ slot.pp # NoMsg =>
          /\ slot.pp \in Said("PREPREPARE") /\ slot.pp.view = view[r]
          /\ bs[r].blk = slot.pp.block /\ bs[r].cur = slot.pp.digest
    /\ \A c \in slot.commits : c \in Said("COMMIT") /\ c.view >= view[r]
    /\ \/ phase[r] = "WAITING"
       \/ phase[r] = "NEW_VIEW" /\ curProposal[r] # NoCmd
       => IsLeader(r)
    /\ reqFlag[r] /\ requests[r] # NoCmd => phase[r] = "WAITING"

\* A node has stored the proposals of all views it has left, and a quorum of nodes had
\* said that they are prepared.
StoreInv(r) ==
    /\ DOMAIN store[r] = 0 .. view[r] - 1
    /\ \A h \in DOMAIN store[r] :
          \E p \in Said("PREPREPARE") : p.view = h /\ p.block = store[r][h]
    /\ \A p \in Said("PREPREPARE") :
          p.view < view[r] => Cardinality(Senders("COMMIT", p.block)) >= QuorumSize

\* The inductive invariant of the normal case
NormalInv == NormalCase => \A r \in Server : MessageInv(r) /\ RoundInv(r) /\ StoreInv(r)

\* commited: "committed-local(m, v, n, i) is true if and only if prepared is true
\* and has accepted 2f+1 commits (possibly including its own) from different
\* replicas that match the pre-prepare for m".
CommittedLocal ==
    [][\A r \in Server : bs'[r].height # bs[r].height =>
          LET slot == msgLog'[r][SlotOf(view[r])] IN
          Cardinality({c \in slot.commits : Matches(c, slot.pp)}) >= QuorumSize]_vars

\* HandlePMsg, on VC_REPLY: "reply the redo request after viewchange". Every
\* request below the sequence number of a node, redone ones too, has a block.
RedoneRequestsStored ==
    \A r \in Server : Cardinality(DOMAIN store[r]) >= seq[r]

\* README: all honest nodes have the same data.
DataConsistence ==
    \A r, s \in Server : \A h \in DOMAIN store[r] \cap DOMAIN store[s] :
        store[r][h] = store[s][h]

\* VerifyOSet: "the replica recreate O similar to the leader". The OSet a leader
\* makes from a quorum of view-change messages passes the check against them.
OSetVerifies ==
    \A r \in Server :
        LET vcs == vcMsgs[r].vcs IN
        Len(vcs) = QuorumSize => /\ ~Panics(vcs, OSet(vcs))
                                 /\ VerifyOSet(vcs, OSet(vcs))

\* Nothing is in transit and no goroutine has a step to take
Quiescent ==
    \A r \in Server : /\ ~reqFlag[r] /\ reqPc[r] = "idle" /\ spawned[r] = 0
                      /\ \A s \in Server : rcvd[r][s] = Len(sent[s])

\* HandleCommitMsg: "set a timer for liveness and ensure that the pre-prepare
\* message from the next view leader is received within the specified time". When
\* a round can go no further, enough timers run for a view change.
StalledRoundTimesOut ==
    Quiescent /\ (\E r \in Server : phase[r] \in {"PREPREPARE", "PREPARE"}) =>
        Cardinality({r \in Server : timer[r]}) >= QuorumSize

\* The files of a node as a sequence, up to the first missing height
Chain(r) ==
    LET gap == Min({h \in 0 .. Cardinality(DOMAIN store[r]) : h \notin DOMAIN store[r]})
    IN  [i \in 1 .. gap |-> store[r][i - 1]]

LedgerOfPBFT == INSTANCE Ledger WITH
    FirstPre <- EmptyHash,
    proposed <- {m.block : m \in Said("PREPREPARE")},
    ledger   <- [r \in Server |-> Chain(r)]

\* PBFT implements the ledger: the block files of the nodes are prefixes of one
\* chain of proposed blocks, linked by hashes, and only grow.
ImplementsLedger == LedgerOfPBFT!Spec
=============================================================================
