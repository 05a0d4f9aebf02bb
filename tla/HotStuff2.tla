------------------------------ MODULE HotStuff2 ------------------------------
(***************************************************************************)
(* HotStuff-2 as orderer/consensus/hotstuff2/core runs it inside a server: *)
(* propose, vote1, prepare, vote2 and the optimistic entry of the next     *)
(* view, the pacemaker with its view timer and enter timer, wishes and     *)
(* timeout certificates, and the delayed commit of locked blocks.          *)
(*                                                                         *)
(* Abstractions.                                                           *)
(*  - A request batch is one value of Cmd, a hash what Block.Hash keeps of *)
(*    the block (of its height, view and time one byte each, PreBlkHash    *)
(*    left out), a threshold signature the content it signs, which holds   *)
(*    one byte of the view. What is claimed of certificates (Backed) tells *)
(*    views apart no better than that.                                     *)
(*  - The channels are FIFO for each pair of nodes: sent[s] is the log of  *)
(*    what s sent, rcvd[r][s] how far r has consumed it.                   *)
(*  - A message handler is one atomic step, and so are HandleReq and the   *)
(*    callbacks of the two timers.                                         *)
(*  - NewViewMsgs and the flags WishSendFlag and OptimisticFlag are        *)
(*    written and never used, so HandleNewView changes nothing here; the   *)
(*    Validation of a block is part of no hash and left out. IgnoreCheckQC *)
(*    is set only when nodes join or leave.                                *)
(***************************************************************************)
EXTENDS Integers, Sequences, FiniteSets, SequencesExt, FiniteSetsExt

CONSTANTS
    N,            \* number of nodes, r_0 .. r_(N-1)
    Genesis,      \* the request of GenFirstRound
    ClientCmds,   \* request batches the client submits, each once
    NoCmd,        \* the empty Proposal / empty request list
    MaxView,      \* bound: no node goes beyond this view
    MaxTimeouts   \* bound: expiries of view timers in a behaviour

Server == 0 .. N - 1

Cmd == {Genesis} \cup ClientCmds

\* len(votes) > (NodesNum-1)/3*2, and the tss threshold of GenSigners
QuorumSize == ((N - 1) \div 3) * 2 + 1

ASSUME NAssumption == N \in Nat /\ N > 0

ASSUME CmdAssumption == NoCmd \notin Cmd

ASSUME BoundAssumption == MaxView \in Nat /\ MaxTimeouts \in Nat

VARIABLES
    phase,        \* CurPhase
    view,         \* View.ViewNumber; View.Leader is Leader(view)
    curProposal,  \* CurProposal
    hs2Node,      \* CurHs2Node
    proposalQC,   \* ProposalQC
    prepareQC,    \* PrepareQC
    locked,       \* LockBlk and LockHs2Node: pairs of a block and its node
    vote1,        \* Vote1
    vote2,        \* Vote2
    wishMsgs,     \* PM.WishMsgs: a list for each view
    bs,           \* BlkStore: Height, PreBlkHash, CurBlkHash, CurProposalBlk
    store,        \* the block files of a node, by height
    viewTimer,    \* PM.ViewTimer is running
    enterTimer,   \* PM.EnterTimer is running
    timeouts,     \* expiries of view timers so far
    requests,     \* Server.Requests
    reqFlag,      \* Orderer.ReqFlagChan holds a flag
    pool,         \* batches the client has not submitted yet
    sent,         \* messages a node sent, in order
    rcvd          \* rcvd[r][s]: index in sent[s] of the last one r consumed

qcVars    == <<proposalQC, prepareQC>>
voteVars  == <<vote1, vote2, wishMsgs>>
blkVars   == <<bs, store>>
timerVars == <<viewTimer, enterTimer, timeouts>>
reqVars   == <<requests, reqFlag, pool>>
vars == <<phase, view, curProposal, hs2Node, qcVars, locked, voteVars, blkVars,
          timerVars, reqVars, sent, rcvd>>

----------------------------------------------------------------------------
(* Data *)

Phase == {"NEW_VIEW", "NEW_PROPOSE", "PROPOSE", "PREPARE"}

MsgType == {"NEW_VIEW", "NEW_PROPOSE", "PROPOSE", "VOTE1", "PREPARE", "VOTE2",
            "WISH", "TCMSG", "ENTER"}

Hash == [view : Int, height : Int, time : Int, cmd : Cmd \cup {NoCmd}]

\* merkle.EmptyHash() and nil
EmptyHash == [view |-> -1, height |-> 0, time |-> 0, cmd |-> NoCmd]

NilHash == [view |-> -2, height |-> 0, time |-> 0, cmd |-> NoCmd]

Block == [view : Int, height : Nat, time : Int, cmd : Cmd \cup {NoCmd}, pre : Hash]

EmptyBlock ==
    [view |-> 0, height |-> 0, time |-> 0, cmd |-> NoCmd, pre |-> NilHash]

\* Block.Hash: of the height, the view and the time it keeps one byte each
HashOf(b) ==
    [view |-> b.view % 256, height |-> b.height % 256, time |-> b.time % 256,
     cmd |-> b.cmd]

HsNode == [cur : Hash, parent : Hash]

NilNode == [cur |-> NilHash, parent |-> NilHash]

\* What Message2Byte and QC2SignMsgByte put under a signature: of the view
\* number they keep one byte
SignedContent(t, v, n) == [type |-> t, view |-> v % 256, node |-> n]

Sign == [type : {"NONE", "PROPOSE", "PREPARE", "WISH"}, view : 0 .. 255, node : HsNode]

NoSign == [type |-> "NONE", view |-> 0, node |-> NilNode]

QuromCert == [type : {"NEW_VIEW", "PROPOSE", "PREPARE"}, view : Nat, height : Nat,
              node : HsNode, sign : Sign]

\* QuromCert{}, the zero value
NilQC == [type |-> "NEW_VIEW", view |-> 0, height |-> 0, node |-> NilNode, sign |-> NoSign]

H2Msg == [type : MsgType, view : Int, src : Server, dst : SUBSET Server, node : HsNode,
          block : Block, sign : Sign, justify1 : QuromCert, justify2 : QuromCert]

MkMsg(t, v, s, d, n) ==
    [type |-> t, view |-> v, src |-> s, dst |-> d, node |-> n, block |-> EmptyBlock,
     sign |-> NoSign, justify1 |-> NilQC, justify2 |-> NilQC]

BlkStore == [height : Nat, pre : Hash, cur : Hash, blk : Block]

----------------------------------------------------------------------------
(* Helpers *)

\* Mutant: leaders rotate downwards, and Go's % keeps the sign
LeaderDownwards(v) == -(v % N)

Leader(v) == v % N

IsLeader(r) == r = Leader(view[r])

IsWaitingReq(r) == phase[r] = "NEW_PROPOSE"

CheckQC(qc, t, v, h) ==
    /\ qc.type = t /\ qc.view = v /\ qc.height = h
    /\ qc.sign = SignedContent(t, v, qc.node)

\* Mutant: the signature is taken for the content, whatever the shares are for
CombineSignAny(votes, content) ==
    IF Cardinality({votes[i].src : i \in 1 .. QuorumSize}) = QuorumSize
    THEN content ELSE NoSign

\* tbls.Recover takes the first QuorumSize shares; all must be on the content.
\* A share is the signature of a vote.
CombineSign(votes, content) ==
    IF /\ \A i \in 1 .. QuorumSize : votes[i].sign = content
       /\ Cardinality({votes[i].src : i \in 1 .. QuorumSize}) = QuorumSize
    THEN content ELSE NoSign

Send(r, m) == sent' = [sent EXCEPT ![r] = Append(@, m)]

\* Mutant: the height is counted up when the block is made, not when it is stored
StoredSameHeight(b, n) ==
    IF n = 0 THEN b
    ELSE [b EXCEPT !.pre = IF n = 1 THEN b.cur ELSE NilHash, !.cur = NilHash]

\* StoreBlock on the fields of the block store, n times in a row: the first time it takes
\* CurBlkHash away.
Stored(b, n) ==
    IF n = 0 THEN b
    ELSE [b EXCEPT !.height = @ + n, !.pre = IF n = 1 THEN b.cur ELSE NilHash,
                   !.cur = NilHash]

\* The files after the blocks of a list are written in order, each to that of its height
WriteBlocks(files, list) ==
    LET at(h) == {i \in DOMAIN list : list[i].blk.height = h}
    IN  [h \in DOMAIN files \cup {list[i].blk.height : i \in DOMAIN list} |->
            IF at(h) = {} THEN files[h] ELSE list[Max(at(h))].blk]

\* GenCommitBlkIndex: the first locked block of the view of the double certificate,
\* with the ones before it in the list as long as each is the parent of the next;
\* <<1, 0>> if there is none
GenCommitBlkIndex(list, qc) ==
    LET found == {i \in DOMAIN list : list[i].blk.view = qc.view}
        end   == Min(found)
        start == Min({i \in 1 .. end : \A j \in i .. end - 1 :
                         list[j].node.cur = list[j + 1].node.parent})
    IN  IF found = {} THEN <<1, 0>> ELSE <<start, end>>

\* Mutant: a block that was stored alone stays in the list
UpdateAfterCommitKeepsOne(list, start, end) ==
    IF start = end THEN list
    ELSE SubSeq(list, 1, start - 1) \o SubSeq(list, end + 1, Len(list))

\* UpdateAfterCommit: the stored blocks leave the list, but for the case that only
\* the first of several was stored
UpdateAfterCommit(list, start, end) ==
    IF start = 1 /\ end = 1 /\ Len(list) > 1 THEN list
    ELSE SubSeq(list, 1, start - 1) \o SubSeq(list, end + 1, Len(list))

\* WriteNewH2Block(GenCommitBlkIndex()): the list, the block store and the files after
WriteNewH2Block(r) ==
    LET range == GenCommitBlkIndex(locked[r], prepareQC[r])
        blks  == SubSeq(locked[r], range[1], range[2])
    IN  [locked |-> IF blks = <<>> THEN locked[r]
                    ELSE UpdateAfterCommit(locked[r], range[1], range[2]),
         bs     |-> Stored(bs[r], Len(blks)),
         files  |-> WriteBlocks(store[r], blks)]

----------------------------------------------------------------------------
(* Requests and proposals *)

\* GenNewReq finds a leader that waits and has room, and raises its flag.
GenNewReq(r, c) ==
    /\ c \in pool
    /\ IsLeader(r) /\ IsWaitingReq(r)
    /\ requests[r] = NoCmd /\ ~reqFlag[r]
    /\ requests' = [requests EXCEPT ![r] = c]
    /\ reqFlag' = [reqFlag EXCEPT ![r] = TRUE]
    /\ pool' = pool \ {c}
    /\ UNCHANGED <<phase, view, curProposal, hs2Node, qcVars, locked, voteVars, blkVars,
                   timerVars, sent, rcvd>>

NewBlock(r, b, c) ==
    [view |-> view[r], height |-> b.height, time |-> Len(sent[r]), cmd |-> c, pre |-> b.pre]

\* GenProposal: commit what the own double certificate covers, make a block on top
\* and a node on the own single certificate, broadcast it. Nothing is proposed
\* outside NEW_PROPOSE or without a request; whether the node leads is not asked.
GenProposal(r, c) ==
    LET w == WriteNewH2Block(r)
        b == NewBlock(r, w.bs, c)
        n == [cur |-> HashOf(b), parent |-> proposalQC[r].node.cur]
    IN
    IF phase[r] = "NEW_PROPOSE" /\ c # NoCmd
    THEN /\ phase' = [phase EXCEPT ![r] = "PROPOSE"]
         /\ locked' = [locked EXCEPT ![r] = w.locked]
         /\ store' = [store EXCEPT ![r] = w.files]
         /\ bs' = [bs EXCEPT ![r] = [w.bs EXCEPT !.blk = b, !.cur = HashOf(b)]]
         /\ hs2Node' = [hs2Node EXCEPT ![r] = n]
         /\ Send(r, [MkMsg("PROPOSE", view[r], r, Server, n) EXCEPT
                        !.block = b, !.justify1 = proposalQC[r], !.justify2 = prepareQC[r]])
    ELSE UNCHANGED <<phase, locked, blkVars, hs2Node, sent>>

\* Server.HandleReq takes a flag; HandleReq of the core keeps the request and
\* proposes if it can.
HandleReq(r) ==
    /\ reqFlag[r]
    /\ reqFlag' = [reqFlag EXCEPT ![r] = FALSE]
    /\ IF requests[r] # NoCmd /\ IsLeader(r)
       THEN /\ requests' = [requests EXCEPT ![r] = NoCmd]
            /\ curProposal' = [curProposal EXCEPT ![r] = requests[r]]
            /\ GenProposal(r, requests[r])
       ELSE UNCHANGED <<requests, curProposal, phase, locked, blkVars, hs2Node, sent>>
    /\ UNCHANGED <<view, qcVars, voteVars, timerVars, pool, rcvd>>

\* The message the enter timer sends to its own node
HandleNewPropose(r, m) ==
    /\ m.type = "NEW_PROPOSE"
    /\ GenProposal(r, curProposal[r])
    /\ UNCHANGED <<view, curProposal, qcVars, voteVars, timerVars, reqVars>>

----------------------------------------------------------------------------
(* The two votes. r is the node, m the message it takes from its channel. *)

\* Mutant: the certificate may be for a block of any height
ChecksJustify1AnyHeight(r, m) ==
    view[r] = 0 \/ CheckQC(m.justify1, "PROPOSE", m.justify1.view, m.justify1.height)

\* The single certificate of a proposal is for the block before: the leader has
\* stored that one already when it gets its own proposal.
ChecksJustify1(r, m) ==
    \/ view[r] = 0
    \/ CheckQC(m.justify1, "PROPOSE", m.justify1.view,
               IF IsLeader(r) /\ m.src = r THEN bs[r].height - 1 ELSE bs[r].height)

ChecksJustify2(r, m) ==
    \/ IsLeader(r) \/ view[r] = 0
    \/ CheckQC(m.justify2, "PREPARE", m.justify2.view, m.justify2.height)

\* A replica takes one proposal of its view, a leader also those of others.
TakesPropose(r, m) ==
    /\ phase[r] # "PROPOSE" \/ IsLeader(r)
    /\ m.view = view[r]

HandlePropose(r, m) ==
    LET w    == IF IsLeader(r) THEN [locked |-> locked[r], bs |-> bs[r], files |-> store[r]]
                ELSE WriteNewH2Block(r)
        vote == [MkMsg("VOTE1", m.view, r, {m.src}, m.node) EXCEPT
                    !.sign = SignedContent("PROPOSE", m.view, m.node)]
        higher == ~(IsLeader(r) /\ m.src = r) /\ m.justify1.view > proposalQC[r].view
    IN
    /\ m.type = "PROPOSE"
    /\ IF TakesPropose(r, m) /\ ChecksJustify1(r, m) /\ higher
       THEN proposalQC' = [proposalQC EXCEPT ![r] = m.justify1]
       ELSE UNCHANGED proposalQC
    /\ \/ /\ ~(TakesPropose(r, m) /\ ChecksJustify1(r, m) /\ ChecksJustify2(r, m))
          /\ UNCHANGED <<phase, locked, blkVars, hs2Node, sent>>
       \/ /\ TakesPropose(r, m) /\ ChecksJustify1(r, m) /\ ChecksJustify2(r, m)
          /\ phase' = [phase EXCEPT ![r] = "PROPOSE"]
          /\ locked' = [locked EXCEPT ![r] = w.locked]
          /\ store' = [store EXCEPT ![r] = w.files]
          /\ bs' = [bs EXCEPT ![r] = [w.bs EXCEPT !.blk = m.block, !.cur = HashOf(m.block)]]
          /\ hs2Node' = [hs2Node EXCEPT ![r] = m.node]
          /\ Send(r, vote)
    /\ UNCHANGED <<view, curProposal, prepareQC, voteVars, timerVars, reqVars>>

\* A certificate that could not be combined is kept and broadcast all the same.
HandleVote1(r, m) ==
    LET votes == Append(vote1[r], m)
        qc == [type |-> "PROPOSE", view |-> view[r], height |-> bs[r].blk.height,
               node |-> hs2Node[r],
               sign |-> CombineSign(votes, SignedContent("PROPOSE", view[r], hs2Node[r]))]
        enough == m.view = view[r] /\ phase[r] = "PROPOSE" /\ Len(votes) >= QuorumSize
    IN
    /\ m.type = "VOTE1"
    /\ vote1' = [vote1 EXCEPT ![r] = IF m.view = view[r] THEN votes ELSE @]
    /\ \/ /\ ~enough
          /\ UNCHANGED <<phase, proposalQC, sent>>
       \/ /\ enough
          /\ phase' = [phase EXCEPT ![r] = "PREPARE"]
          /\ proposalQC' = [proposalQC EXCEPT ![r] = qc]
          /\ Send(r, [MkMsg("PREPARE", view[r], r, Server, hs2Node[r]) EXCEPT !.justify1 = qc])
    /\ UNCHANGED <<view, curProposal, hs2Node, prepareQC, locked, vote2, wishMsgs, blkVars,
                   timerVars, reqVars>>

\* The round is over for the node, which stops its view timer.
HandlePrepare(r, m) ==
    LET vote == [MkMsg("VOTE2", m.view, r, {Leader(view[r] + 1)}, m.node) EXCEPT
                    !.sign = SignedContent("PREPARE", m.view, m.node)]
        takes == /\ view[r] >= m.view
                 /\ phase[r] = IF IsLeader(r) THEN "PREPARE" ELSE "PROPOSE"
                 /\ CheckQC(m.justify1, "PROPOSE", view[r], bs[r].blk.height)
    IN
    /\ m.type = "PREPARE"
    /\ \/ /\ ~takes
          /\ UNCHANGED <<phase, proposalQC, viewTimer, sent>>
       \/ /\ takes
          /\ phase' = [phase EXCEPT ![r] = "PREPARE"]
          /\ proposalQC' = [proposalQC EXCEPT ![r] = m.justify1]
          /\ viewTimer' = [viewTimer EXCEPT ![r] = FALSE]
          /\ Send(r, vote)
    /\ UNCHANGED <<view, curProposal, hs2Node, prepareQC, locked, voteVars, blkVars, enterTimer,
                   timeouts, reqVars>>

\* Mutant: a second vote that comes before the certificate it is for is dropped
Vote2ListOnlyPrepared(r, m) ==
    IF m.view >= view[r] /\ phase[r] = "PREPARE" THEN Append(vote2[r], m) ELSE vote2[r]

\* The next leader collects the second votes, of its own view or a later one.
Vote2List(r, m) == IF m.view >= view[r] THEN Append(vote2[r], m) ELSE vote2[r]

HandleVote2(r, m) ==
    LET votes == Vote2List(r, m)
        sg == CombineSign(votes, SignedContent("PREPARE", view[r], hs2Node[r]))
        qc == [type |-> "PREPARE", view |-> view[r], height |-> bs[r].blk.height,
               node |-> hs2Node[r], sign |-> sg]
        enough == /\ m.view >= view[r] /\ phase[r] = "PREPARE" /\ Len(votes) >= QuorumSize
                  /\ sg # NoSign
    IN
    /\ m.type = "VOTE2"
    /\ vote2' = [vote2 EXCEPT ![r] = votes]
    /\ \/ /\ ~enough
          /\ UNCHANGED <<phase, prepareQC, sent>>
       \/ /\ enough
          /\ phase' = [phase EXCEPT ![r] = "NEW_VIEW"]
          /\ prepareQC' = [prepareQC EXCEPT ![r] = qc]
          /\ Send(r, [MkMsg("ENTER", view[r], r, Server, NilNode) EXCEPT !.justify2 = qc])
    /\ UNCHANGED <<view, curProposal, hs2Node, proposalQC, locked, vote1, wishMsgs, blkVars,
                   timerVars, reqVars>>

----------------------------------------------------------------------------
(* The pacemaker *)

\* Whatever block the node has, the empty one too, is locked; then the next view
HandleOptimisticEnter(r, m) ==
    LET takes == /\ m.view = view[r] /\ phase[r] # "NEW_PROPOSE"
                 /\ CheckQC(m.justify2, "PREPARE", view[r], m.justify2.height)
        leads == r = Leader(view[r] + 1)
    IN
    /\ m.type = "ENTER"
    /\ \/ /\ ~takes
          /\ UNCHANGED <<phase, view, curProposal, hs2Node, prepareQC, locked, vote1, vote2,
                         bs, viewTimer>>
       \/ /\ takes /\ view[r] < MaxView
          /\ locked' = [locked EXCEPT ![r] =
                           Append(@, [blk |-> bs[r].blk, node |-> hs2Node[r]])]
          /\ bs' = [bs EXCEPT ![r] = [@ EXCEPT !.blk = EmptyBlock, !.cur = EmptyHash]]
          /\ curProposal' = [curProposal EXCEPT ![r] = NoCmd]
          /\ hs2Node' = [hs2Node EXCEPT ![r] = NilNode]
          /\ vote1' = [vote1 EXCEPT ![r] = <<>>]
          /\ vote2' = [vote2 EXCEPT ![r] = <<>>]
          /\ view' = [view EXCEPT ![r] = @ + 1]
          /\ viewTimer' = [viewTimer EXCEPT ![r] = TRUE]
          /\ phase' = [phase EXCEPT ![r] = IF leads THEN "NEW_PROPOSE" ELSE "NEW_VIEW"]
          /\ prepareQC' = [prepareQC EXCEPT ![r] = IF leads THEN @ ELSE m.justify2]
    /\ UNCHANGED <<proposalQC, wishMsgs, store, enterTimer, timeouts, reqVars, sent>>

\* The view timer expires: a wish for the next view goes to its leader.
StartViewChange(r) ==
    /\ viewTimer[r] /\ timeouts < MaxTimeouts /\ view[r] < MaxView
    /\ timeouts' = timeouts + 1
    /\ viewTimer' = [viewTimer EXCEPT ![r] = FALSE]
    /\ Send(r, [MkMsg("WISH", view[r] + 1, r, {Leader(view[r] + 1)}, NilNode) EXCEPT
                   !.sign = SignedContent("WISH", view[r] + 1, NilNode)])
    /\ UNCHANGED <<phase, view, curProposal, hs2Node, qcVars, locked, voteVars, blkVars,
                   enterTimer, reqVars, rcvd>>

HandleWish(r, m) ==
    LET wishes == Append(IF m.view \in DOMAIN wishMsgs[r] THEN wishMsgs[r][m.view] ELSE <<>>, m)
        others == DOMAIN wishMsgs[r] \ {m.view}
        sg == CombineSign(wishes, SignedContent("WISH", m.view, NilNode))
    IN
    /\ m.type = "WISH"
    /\ \/ /\ Len(wishes) # QuorumSize
          /\ wishMsgs' = [wishMsgs EXCEPT ![r] =
                [v \in others \cup {m.view} |-> IF v = m.view THEN wishes ELSE @[v]]]
          /\ UNCHANGED sent
       \/ /\ Len(wishes) = QuorumSize
          /\ wishMsgs' = [wishMsgs EXCEPT ![r] = [v \in others |-> @[v]]]
          /\ Send(r, [MkMsg("TCMSG", m.view, r, Server, NilNode) EXCEPT !.sign = sg])
    /\ UNCHANGED <<phase, view, curProposal, hs2Node, qcVars, locked, vote1, vote2, blkVars,
                   timerVars, reqVars>>

\* A timeout certificate takes the node to its view. The votes, the node and the
\* block of the view that ended stay. A leader waits for the enter timer; a replica
\* sends its certificates to the leader, also if it is in a later view.
HandleTC(r, m) ==
    LET v == IF m.view > view[r] THEN m.view ELSE view[r]
        leads == r = Leader(v)
        takes == /\ m.sign = SignedContent("WISH", m.view, NilNode)
                 /\ leads => v = m.view
    IN
    /\ m.type = "TCMSG"
    /\ \/ /\ ~takes
          /\ UNCHANGED <<view, phase, viewTimer, enterTimer, sent>>
       \/ /\ takes
          /\ view' = [view EXCEPT ![r] = v]
          /\ phase' = [phase EXCEPT ![r] = IF leads THEN "NEW_VIEW" ELSE "NEW_PROPOSE"]
          /\ viewTimer' = [viewTimer EXCEPT ![r] = TRUE]
          /\ IF leads
             THEN /\ enterTimer' = [enterTimer EXCEPT ![r] = TRUE]
                  /\ UNCHANGED sent
             ELSE /\ Send(r, [MkMsg("NEW_VIEW", v - 1, r, {Leader(v)}, NilNode) EXCEPT
                                 !.justify1 = proposalQC[r], !.justify2 = prepareQC[r]])
                  /\ UNCHANGED enterTimer
    /\ UNCHANGED <<curProposal, hs2Node, qcVars, locked, voteVars, blkVars, timeouts, reqVars>>

\* The enter timer expires. Nothing stops it when the node leaves the view.
EnterTimerExpires(r) ==
    /\ enterTimer[r]
    /\ enterTimer' = [enterTimer EXCEPT ![r] = FALSE]
    /\ phase' = [phase EXCEPT ![r] = "NEW_PROPOSE"]
    /\ Send(r, MkMsg("NEW_PROPOSE", 0, r, {r}, NilNode))
    /\ UNCHANGED <<view, curProposal, hs2Node, qcVars, locked, voteVars, blkVars, viewTimer,
                   timeouts, reqVars, rcvd>>

\* The messages are checked and collected, and nothing reads the collection.
HandleNewView(r, m) ==
    /\ m.type = "NEW_VIEW"
    /\ UNCHANGED <<phase, view, curProposal, hs2Node, qcVars, locked, voteVars, blkVars,
                   timerVars, reqVars, sent>>

----------------------------------------------------------------------------
(* Delivery and the specification *)

RouteH2Msg(r, m) ==
    \/ HandleNewView(r, m)
    \/ HandleNewPropose(r, m)
    \/ HandlePropose(r, m)
    \/ HandleVote1(r, m)
    \/ HandlePrepare(r, m)
    \/ HandleVote2(r, m)
    \/ HandleWish(r, m)
    \/ HandleTC(r, m)
    \/ HandleOptimisticEnter(r, m)

\* The messages of s that are on their way to r
Pending(r, s) == {i \in rcvd[r][s] + 1 .. Len(sent[s]) : r \in sent[s][i].dst}

\* RouteServerMsg: r takes the next message that s sent to it
Receive(r, s) ==
    LET i == Min(Pending(r, s)) IN
    /\ Pending(r, s) # {}
    /\ rcvd' = [rcvd EXCEPT ![r] = [@ EXCEPT ![s] = i]]
    /\ RouteH2Msg(r, sent[s][i])

\* NewHotstuff2 on every node, InitLeader on r_0, then GenFirstRound
Init ==
    /\ phase = [r \in Server |-> IF r = 0 THEN "NEW_PROPOSE" ELSE "NEW_VIEW"]
    /\ view = [r \in Server |-> 0]
    /\ curProposal = [r \in Server |-> NoCmd]
    /\ hs2Node = [r \in Server |-> NilNode]
    /\ proposalQC = [r \in Server |-> NilQC]
    /\ prepareQC = [r \in Server |-> NilQC]
    /\ locked = [r \in Server |-> <<>>]
    /\ vote1 = [r \in Server |-> <<>>]
    /\ vote2 = [r \in Server |-> <<>>]
    /\ wishMsgs = [r \in Server |-> <<>>]
    /\ bs = [r \in Server |-> [height |-> 0, pre |-> NilHash, cur |-> NilHash,
                               blk |-> EmptyBlock]]
    /\ store = [r \in Server |-> <<>>]
    /\ viewTimer = [r \in Server |-> FALSE]
    /\ enterTimer = [r \in Server |-> FALSE]
    /\ timeouts = 0
    /\ requests = [r \in Server |-> IF r = 0 THEN Genesis ELSE NoCmd]
    /\ reqFlag = [r \in Server |-> r = 0]
    /\ pool = ClientCmds
    /\ sent = [r \in Server |-> <<>>]
    /\ rcvd = [r \in Server |-> [s \in Server |-> 0]]

Next ==
    \/ \E r \in Server, c \in ClientCmds : GenNewReq(r, c)
    \/ \E r \in Server : HandleReq(r)
    \/ \E r, s \in Server : Receive(r, s)
    \/ \E r \in Server : StartViewChange(r)
    \/ \E r \in Server : EnterTimerExpires(r)

Spec == Init /\ [][Next]_vars
----------------------------------------------------------------------------
(* Correctness *)

\* The messages of type t that were sent
Said(t) == UNION {{sent[s][i] : i \in {j \in DOMAIN sent[s] : sent[s][j].type = t}} :
                     s \in Server}

\* Every variable keeps the type its field has in Hotstuff2, Pacemaker and BlockStore.
TypeOK ==
    /\ phase \in [Server -> Phase]
    /\ view \in [Server -> Nat]
    /\ curProposal \in [Server -> Cmd \cup {NoCmd}]
    /\ hs2Node \in [Server -> HsNode]
    /\ proposalQC \in [Server -> QuromCert]
    /\ prepareQC \in [Server -> QuromCert]
    /\ vote1 \in [Server -> Seq(H2Msg)]
    /\ vote2 \in [Server -> Seq(H2Msg)]
    /\ locked \in [Server -> Seq([blk : Block, node : HsNode])]
    /\ wishMsgs = [r \in Server |-> wishMsgs[r]]
    /\ store = [r \in Server |-> store[r]]
    /\ \A r \in Server :
          /\ \A v \in DOMAIN wishMsgs[r] : wishMsgs[r][v] \in Seq(H2Msg)
          /\ \A h \in DOMAIN store[r] : store[r][h] \in Block
    /\ bs \in [Server -> BlkStore]
    /\ viewTimer \in [Server -> BOOLEAN]
    /\ enterTimer \in [Server -> BOOLEAN]
    /\ timeouts \in Nat
    /\ requests \in [Server -> Cmd \cup {NoCmd}]
    /\ reqFlag \in [Server -> BOOLEAN]
    /\ pool \subseteq ClientCmds
    /\ sent \in [Server -> Seq(H2Msg)]
    /\ rcvd \in [Server -> [Server -> Nat]]

\* The nodes that have given vote t to node n in view v
Voters(t, v, n) == {m.src : m \in {k \in Said(t) : k.view = v /\ k.node = n}}

Certified(t, v, n) == Cardinality(Voters(t, v, n)) >= QuorumSize

\* The certificates that nodes hold and send and that CheckQC accepts as what they say
Certificates ==
    LET held == {proposalQC[r] : r \in Server} \cup {prepareQC[r] : r \in Server}
        told == UNION {{sent[s][i].justify1 : i \in DOMAIN sent[s]} \cup
                       {sent[s][i].justify2 : i \in DOMAIN sent[s]} : s \in Server}
    IN  {qc \in held \cup told : qc.sign = SignedContent(qc.type, qc.view, qc.node)}

\* A quorum has given node n vote t in a view that signatures do not tell from v.
Backed(t, v, n) ==
    Cardinality({m.src : m \in {k \in Said(t) : k.node = n /\ k.view % 256 = v % 256}})
        >= QuorumSize

\* As many nodes have wished for view v.
Wished(v) ==
    Cardinality({m.src : m \in {k \in Said("WISH") : k.view = v}}) >= QuorumSize

\* Vote lists survive a view change, a combination that fails is broadcast, and nodes go
\* by the certificates they are sent; but one that verifies has a quorum of votes behind
\* it, a double certificate of both kinds, and a timeout certificate that many wishes.
CertificatesBacked ==
    /\ \A qc \in Certificates :
          /\ Backed("VOTE1", qc.view, qc.node)
          /\ qc.type = "PREPARE" => Backed("VOTE2", qc.view, qc.node)
    /\ \A m \in Said("TCMSG") :
          m.sign = SignedContent("WISH", m.view, NilNode) => Wished(m.view)

\* Why: what nodes say, collect and keep
BackedQC(qc) ==
    qc.sign = SignedContent(qc.type, qc.view, qc.node) =>
        /\ Backed("VOTE1", qc.view, qc.node)
        /\ qc.type = "PREPARE" => Backed("VOTE2", qc.view, qc.node)

\* A vote signs the view and node it names, the second one is given to a node that has a
\* quorum of first votes, and a single certificate is broadcast with its own view and node.
MessageInv(m) ==
    /\ BackedQC(m.justify1) /\ BackedQC(m.justify2)
    /\ m.type = "VOTE1" => m.sign = SignedContent("PROPOSE", m.view, m.node)
    /\ m.type = "PREPARE" => m.justify1.view = m.view /\ m.justify1.node = m.node
    /\ m.type = "VOTE2" => /\ m.sign = SignedContent("PREPARE", m.view, m.node)
                           /\ Backed("VOTE1", m.view, m.node)
    /\ m.type = "WISH" => m.sign = SignedContent("WISH", m.view, NilNode)
    /\ m.type = "TCMSG" /\ m.sign = SignedContent("WISH", m.view, NilNode) => Wished(m.view)

SentInv == \A s \in Server : \A i \in DOMAIN sent[s] : MessageInv(sent[s][i])

ListInv(r) ==
    /\ BackedQC(proposalQC[r]) /\ BackedQC(prepareQC[r])
    /\ \A i \in DOMAIN vote1[r] : vote1[r][i] \in Said("VOTE1")
    /\ \A i \in DOMAIN vote2[r] : vote2[r][i] \in Said("VOTE2")
    /\ \A v \in DOMAIN wishMsgs[r] : \A i \in DOMAIN wishMsgs[r][v] :
          wishMsgs[r][v][i] \in Said("WISH") /\ wishMsgs[r][v][i].view = v

Inv == SentInv /\ \A r \in Server : ListInv(r)

\* README: all honest nodes have the same data.
DataConsistence ==
    \A r, s \in Server : \A h \in DOMAIN store[r] \cap DOMAIN store[s] :
        store[r][h] = store[s][h]

\* BlockHeader: PreBlkHash is "thr hash of the previous block hash".
BlocksLinked ==
    \A r \in Server : \A h \in DOMAIN store[r] :
        h > 0 /\ h - 1 \in DOMAIN store[r] => store[r][h].pre = HashOf(store[r][h - 1])

\* HandlePropose: "Upon receiving the first valid proposal ... in view v" a node
\* votes, so in one view at most one node gets a single certificate.
OneCertificatePerView ==
    \A m, n \in Said("PROPOSE") :
        /\ m.view = n.view
        /\ Certified("VOTE1", m.view, m.node) /\ Certified("VOTE1", n.view, n.node)
        => m.node = n.node

\* A node that has got a quorum of second votes in a view is not passed over: what
\* is certified in a later view was proposed on a certificate of that view or a
\* later one, and on the node itself if of that view. HandlePropose compares no
\* locks; it is the height of the certificate that keeps replicas on the chain.
DecidedNotPassedOver ==
    LET certified(t) == {m \in Said("PROPOSE") : Certified(t, m.view, m.node)} IN
    \A m \in certified("VOTE2"), n \in certified("VOTE1") :
        m.view < n.view => /\ m.view <= n.justify1.view
                           /\ n.justify1.view = m.view => n.node.parent = m.node.cur

\* LockBlk holds the blocks "that have been voted(refer to Vote2) but have not yet
\* been committed": UpdateAfterCommit leaves no stored block behind.
LockedNotCommitted ==
    \A r \in Server : \A i \in DOMAIN locked[r] :
        \A h \in DOMAIN store[r] : store[r][h] # locked[r][i].blk

\* Nothing is in transit and no goroutine or enter timer has a step to take
Quiescent ==
    \A r \in Server : /\ ~reqFlag[r] /\ ~enterTimer[r]
                      /\ \A s \in Server : Pending(r, s) = {}

\* HandleTC: "The party sends its locked certificate to the leader and proceeds to
\* the vote step". When all nodes have followed a timeout certificate into a view,
\* the proposal of its leader is certified once everything is delivered.
ProposalOfNewViewVoted ==
    Quiescent => \A p \in Said("PROPOSE") :
        /\ p.src = Leader(p.view)
        /\ \A r \in Server : view[r] = p.view
        /\ \E t \in Said("TCMSG") : t.view = p.view
        => Certified("VOTE1", p.view, p.node)

\* The files of a node, each block with the link of its node, up to the first gap
Chain(r) ==
    LET gap == Min({h \in 0 .. Cardinality(DOMAIN store[r]) : h \notin DOMAIN store[r]})
        parent(b) == (CHOOSE m \in Said("PROPOSE") : m.block = b).node.parent
    IN  [i \in 1 .. gap |-> [store[r][i - 1] EXCEPT !.pre = parent(store[r][i - 1])]]

LedgerOfHotStuff2 == INSTANCE Ledger WITH
    FirstPre <- NilHash,
    proposed <- {[m.block EXCEPT !.pre = m.node.parent] : m \in Said("PROPOSE")},
    ledger   <- [r \in Server |-> Chain(r)]

\* HotStuff-2 implements the ledger, with the parent of a block's node as its link.
ImplementsLedger == LedgerOfHotStuff2!Spec
=============================================================================
