---------------------------- MODULE ChainedHotStuff ----------------------------
(***************************************************************************)
(* Chained HotStuff as orderer/consensus/hotstuff/core/chained_hotstuff.go *)
(* and generic.go run it inside a server: one generic phase for each view, *)
(* the pipeline of the last four nodes and blocks, the new-view messages   *)
(* that carry the certificates to the next leader, the view timer and the  *)
(* view change, and the storing of a block three links below a proposal.   *)
(*                                                                         *)
(* Abstractions.                                                           *)
(*  - A request batch is one value of Cmd, a hash what Block.Hash keeps of *)
(*    the block, without PreBlkHash, itself a hash. Views stay below 256,  *)
(*    where the byte it keeps of them repeats (ViewAssumption). No handler *)
(*    verifies the signature of a certificate, so a certificate is the     *)
(*    view and the nodes it is about, and the shares of a vote are the     *)
(*    message that they sign.                                              *)
(*  - HandleCMsg sends every message in a goroutine of its own, so the     *)
(*    messages of a node may overtake each other: sent[s] is the log of    *)
(*    what s sent, rcvd[r][s] which of them r has consumed, each once.     *)
(*    Only a proposal is not overtaken: its leader sends nothing more      *)
(*    before the votes for it, and they come after the whole broadcast.    *)
(*  - A message handler is one atomic step, and so are HandleReq and the   *)
(*    callback of the view timer.                                          *)
(*  - BlkStore.Height is written and never read; ExecuteState only says    *)
(*    whether the client is told of a block. Both are left out.            *)
(***************************************************************************)
EXTENDS Integers, Sequences, FiniteSets, SequencesExt, FiniteSetsExt

CONSTANTS
    N,            \* number of nodes, r_0 .. r_(N-1)
    Genesis,      \* the request of GenFirstRound
    ClientCmds,   \* request batches the client submits, each once
    NoCmd,        \* the empty Proposal / empty request list
    MaxView,      \* bound: no node goes beyond this view
    MaxTimeouts   \* bound: expiries of view timers in a behaviour

Server == 0 .. N - 1

Cmd == {Genesis} \cup ClientCmds

\* len(msgs) > (NodesNum-1)/3*2, and the tss threshold of GenSigners
QuorumSize == ((N - 1) \div 3) * 2 + 1

\* With fewer nodes InitLeader leaves NewViewMsgs empty, and GetHighChainedQC ends
\* the process when it reads the first of them.
ASSUME NAssumption == N \in Nat /\ N > 3

ASSUME CmdAssumption == NoCmd \notin Cmd

ASSUME BoundAssumption == MaxView \in Nat /\ MaxTimeouts \in Nat

\* One byte tells the views of a behaviour apart
ASSUME ViewAssumption == MaxView < 256

VARIABLES
    phase,        \* CurPhase
    view,         \* View.ViewNumber; View.Leader is Leader(view)
    hsNodes,      \* HsNodes: b*, b", b', b
    blocks,       \* Blocks: the last four that the node proposed or accepted
    genericQC,    \* GenericQC
    lockedQC,     \* LockedQC
    curProposal,  \* CurProposal
    curRound,     \* CurRoundMsg: what the shares of its votes sign
    newViewMsgs,  \* NewViewMsgs
    voteMsgs,     \* GenericVoteMsgs
    lastLeader,   \* LastLeaderState
    viewChange,   \* ViewChangeFlag
    bs,           \* BlkStore: GeneratedHeight and PreBlkHash
    store,        \* the block files of a node, by height
    viewTimer,    \* ViewTimer is running
    timeouts,     \* expiries of view timers so far
    requests,     \* Server.Requests
    reqFlag,      \* Orderer.ReqFlagChan holds a flag
    pool,         \* batches the client has not submitted yet
    sent,         \* messages a node sent, in order
    rcvd          \* rcvd[r][s]: indices in sent[s] of those that r has consumed

chainVars == <<hsNodes, blocks, genericQC, lockedQC>>
msgVars   == <<newViewMsgs, voteMsgs, lastLeader, viewChange>>
blkVars   == <<bs, store>>
reqVars   == <<requests, reqFlag, pool>>
vars == <<phase, view, chainVars, curProposal, curRound, msgVars, blkVars, viewTimer,
          timeouts, reqVars, sent, rcvd>>

----------------------------------------------------------------------------
(* Data *)

Phase == {"NEW_VIEW", "WAITING", "HALF_GENERIC"}

MsgType == {"NEW_VIEW", "GENERIC", "GENERIC_VOTE"}

Hash == [view : Int, height : Nat, time : Int, cmd : Cmd \cup {NoCmd}]

\* GenProposalHash of an empty proposal, and nil
EmptyHash == [view |-> -1, height |-> 0, time |-> 0, cmd |-> NoCmd]

NilHash == [view |-> -2, height |-> 0, time |-> 0, cmd |-> NoCmd]

Block == [view : Int, height : Nat, time : Int, cmd : Cmd \cup {NoCmd}, pre : Hash]

EmptyBlock ==
    [view |-> 0, height |-> 0, time |-> 0, cmd |-> NoCmd, pre |-> NilHash]

\* Block.Hash: of the height, the view and the time it keeps one byte each
HashOf(b) ==
    [view |-> b.view % 256, height |-> b.height % 256, time |-> b.time % 256,
     cmd |-> b.cmd]

HsNode == [cur : Hash, parent : Hash]

EmptyNode == [cur |-> EmptyHash, parent |-> EmptyHash]

NilNode == [cur |-> NilHash, parent |-> NilHash]

Four(S) == [1 .. 4 -> S]

ChainedQC == [view : Int, nodes : Four(HsNode)]

\* The certificates of NewChainedHotstuff and of InitLeader
FirstQC == [view |-> -1, nodes |-> [i \in 1 .. 4 |-> EmptyNode]]

InitLeaderQC == [view |-> -1, nodes |-> <<EmptyNode, NilNode, NilNode, NilNode>>]

\* What ChainedMessage2Byte puts under a signature: of the view one byte
SignedContent(v, n) == [view |-> v % 256, nodes |-> n]

CMsg == [type : MsgType, view : Nat, src : Server, dst : SUBSET Server,
         nodes : Four(HsNode), justify : ChainedQC, block : Block]

MkMsg(t, v, s, d, n, qc) ==
    [type |-> t, view |-> v, src |-> s, dst |-> d, nodes |-> n, justify |-> qc,
     block |-> EmptyBlock]

BlkStore == [gen : Nat, pre : Hash]

----------------------------------------------------------------------------
(* Helpers *)

Leader(v) == v % N

IsLeader(r) == r = Leader(view[r])

IsWaitingReq(r) == phase[r] = "WAITING"

Send(r, ms) == sent' = [sent EXCEPT ![r] = @ \o ms]

\* Mutant: the oldest of the four is dropped too early
ShiftThree(first, four) == <<first, four[1], four[2]>>

\* UpdateHsNode and UpdateBlock move the four one place
Shift(first, four) == <<first, four[1], four[2], four[3]>>

\* The first of the messages with the highest certificate
GetHighChainedQC(msgs) ==
    LET high == Max({msgs[i].justify.view : i \in DOMAIN msgs})
    IN  msgs[Min({i \in DOMAIN msgs : msgs[i].justify.view = high})].justify

\* Mutant: the next block gets the height of the last one
GeneratedHeightSame(b) == b.height

\* UpdateBlock: the height of the block after b
GeneratedHeight(b) == b.height + 1

\* StoreBlock writes a block to the file of its height
WriteBlocks(files, blks) ==
    [h \in DOMAIN files \cup {b.height : b \in blks} |->
        IF \E b \in blks : b.height = h THEN CHOOSE b \in blks : b.height = h ELSE files[h]]

----------------------------------------------------------------------------
(* Requests and proposals *)

\* GenNewReq finds a leader that waits and has room, and raises its flag.
GenNewReq(r, c) ==
    /\ c \in pool
    /\ IsLeader(r) /\ IsWaitingReq(r)
    /\ requests[r] = NoCmd /\ ~reqFlag[r]
    /\ requests' = [requests EXCEPT ![r] = c]
    /\ reqFlag' = [reqFlag EXCEPT ![r] = TRUE]
    /\ pool' = pool \ {c}
    /\ UNCHANGED <<phase, view, chainVars, curProposal, curRound, msgVars, blkVars,
                   viewTimer, timeouts, sent, rcvd>>

NewBlock(r, c) ==
    [view |-> view[r], height |-> bs[r].gen, time |-> Len(sent[r]), cmd |-> c,
     pre |-> bs[r].pre]

\* The common part of GenProposal and CHandleNewView: a block and a node on the
\* highest certificate of msgs, with the own last three nodes behind it. The view
\* timer stops; the one that CHandleGenericVote stops again was never started.
Propose(r, c, msgs) ==
    LET high == GetHighChainedQC(msgs)
        b    == NewBlock(r, c)
        n    == Shift([cur |-> HashOf(b), parent |-> high.nodes[1].cur], hsNodes[r])
    IN
    /\ phase' = [phase EXCEPT ![r] = "HALF_GENERIC"]
    /\ genericQC' = [genericQC EXCEPT ![r] = high]
    /\ blocks' = [blocks EXCEPT ![r] = Shift(b, @)]
    /\ bs' = [bs EXCEPT ![r].gen = GeneratedHeight(b)]
    /\ newViewMsgs' = [newViewMsgs EXCEPT ![r] = <<>>]
    /\ voteMsgs' = [voteMsgs EXCEPT ![r] = <<>>]
    /\ lastLeader' = [lastLeader EXCEPT ![r] = FALSE]
    /\ viewTimer' = [viewTimer EXCEPT ![r] = FALSE]
    /\ curRound' = [curRound EXCEPT ![r] = SignedContent(view[r], n)]
    /\ Send(r, <<[MkMsg("GENERIC", view[r], r, Server, n, high) EXCEPT !.block = b]>>)

proposeVars == <<phase, genericQC, blocks, bs, newViewMsgs, voteMsgs, lastLeader, viewTimer,
                 curRound, sent>>

\* Server.HandleReq takes a flag; HandleReq of the core proposes if it waits, and a
\* batch that comes when it does not is lost.
HandleReq(r) ==
    LET takes == requests[r] # NoCmd /\ IsLeader(r)
        waits == takes /\ phase[r] = "WAITING"
    IN
    /\ reqFlag[r]
    /\ reqFlag' = [reqFlag EXCEPT ![r] = FALSE]
    /\ requests' = [requests EXCEPT ![r] = IF takes THEN NoCmd ELSE @]
    /\ curProposal' = [curProposal EXCEPT ![r] = IF waits THEN requests[r] ELSE @]
    /\ IF waits /\ (Len(newViewMsgs[r]) >= QuorumSize \/ view[r] = 0)
       THEN Propose(r, requests[r], newViewMsgs[r])
       ELSE UNCHANGED proposeVars
    /\ UNCHANGED <<view, hsNodes, lockedQC, viewChange, store, timeouts, pool, rcvd>>

\* Mutant: the leader waits for a message of the next leader
LastLeaderNext(v) == Leader(v + 1)

\* LastLeaderName
LastLeader(v) == Leader(v + N - 1)

\* Only a node in NEW_VIEW keeps the message, and only if it is in its view. The
\* threshold counts whatever the list holds. A proposal left over is proposed at
\* once; without one the leader waits for requests.
CHandleNewView(r, m) ==
    LET fits   == m.view = view[r]
        msgs   == IF fits THEN Append(newViewMsgs[r], m) ELSE newViewMsgs[r]
        last   == lastLeader[r] \/ (fits /\ m.src = LastLeader(view[r]))
        enough == /\ IsLeader(r) /\ Len(msgs) >= QuorumSize
                  /\ last \/ viewChange[r]
    IN
    /\ m.type = "NEW_VIEW"
    /\ \/ /\ phase[r] # "NEW_VIEW"
          /\ UNCHANGED <<proposeVars, viewChange>>
       \/ /\ phase[r] = "NEW_VIEW" /\ ~enough
          /\ newViewMsgs' = [newViewMsgs EXCEPT ![r] = msgs]
          /\ lastLeader' = [lastLeader EXCEPT ![r] = last]
          /\ UNCHANGED <<phase, genericQC, blocks, bs, voteMsgs, viewTimer, curRound, sent,
                         viewChange>>
       \/ /\ phase[r] = "NEW_VIEW" /\ enough
          /\ viewChange' = [viewChange EXCEPT ![r] = FALSE]
          /\ IF curProposal[r] # NoCmd
             THEN Propose(r, curProposal[r], msgs)
             ELSE /\ phase' = [phase EXCEPT ![r] = "WAITING"]
                  /\ newViewMsgs' = [newViewMsgs EXCEPT ![r] = msgs]
                  /\ lastLeader' = [lastLeader EXCEPT ![r] = FALSE]
                  /\ UNCHANGED <<genericQC, blocks, bs, voteMsgs, viewTimer, curRound, sent>>
    /\ UNCHANGED <<view, hsNodes, lockedQC, curProposal, store, timeouts, reqVars>>

----------------------------------------------------------------------------
(* The generic phase *)

\* The first disjunct compares the new node with its own certificate.
SafeNode(r, n, qc) == qc.nodes[1].cur = n[1].parent \/ qc.view > lockedQC[r].view

CheckNewCHsNode(r, m) ==
    /\ m.nodes[1].parent # NilHash /\ m.nodes[2].cur # NilHash
    /\ m.nodes[1].parent = m.nodes[2].cur
    /\ SafeNode(r, m.nodes, m.justify)

\* The nodes of the message are linked up to the k-th
Linked(n, k) == \A i \in 1 .. k - 1 : n[i].parent = n[i + 1].cur

\* Mutant: the newest block is stored in place of the oldest
StoredBlocksNewest(blks, n) ==
    IF Linked(n, 4) /\ blks[1].cmd # NoCmd /\ HashOf(blks[1]) = n[1].cur THEN {blks[1]} ELSE {}

\* The last of the four blocks is stored if all four nodes are linked and it is the
\* block of the last node.
StoredBlocks(blks, n) ==
    IF Linked(n, 4) /\ blks[4].cmd # NoCmd /\ HashOf(blks[4]) = n[4].cur THEN {blks[4]} ELSE {}

\* Every node votes. A replica then goes to the next view and tells its leader its
\* certificate; the leader stays until it has the votes.
CHandleGeneric(r, m) ==
    LET takes == m.view = view[r] /\ CheckNewCHsNode(r, m)
        blks  == IF IsLeader(r) THEN blocks[r] ELSE Shift(m.block, blocks[r])
        done  == StoredBlocks(blks, m.nodes)
        next  == Leader(view[r] + 1)
        vote  == MkMsg("GENERIC_VOTE", m.view, r, {Leader(view[r])}, m.nodes, FirstQC)
    IN
    /\ m.type = "GENERIC"
    /\ \/ /\ ~takes
          /\ UNCHANGED <<view, chainVars, newViewMsgs, lastLeader, viewChange, blkVars,
                         viewTimer, sent>>
       \/ /\ takes /\ (view[r] < MaxView \/ IsLeader(r))
          /\ viewChange' = [viewChange EXCEPT ![r] = FALSE]
          /\ blocks' = [blocks EXCEPT ![r] = blks]
          /\ hsNodes' = [hsNodes EXCEPT ![r] = m.nodes]
          /\ genericQC' = [genericQC EXCEPT ![r] = m.justify]
          /\ lockedQC' = [lockedQC EXCEPT ![r] = IF Linked(m.nodes, 3) THEN m.justify ELSE @]
          /\ store' = [store EXCEPT ![r] = WriteBlocks(@, done)]
          /\ bs' = [bs EXCEPT ![r] =
                       [gen |-> IF IsLeader(r) THEN @.gen ELSE GeneratedHeight(m.block),
                        pre |-> IF done = {} THEN @.pre ELSE HashOf(blks[4])]]
          /\ newViewMsgs' = [newViewMsgs EXCEPT ![r] = <<>>]
          /\ IF IsLeader(r)
             THEN /\ Send(r, <<vote>>)
                  /\ UNCHANGED <<view, lastLeader, viewTimer>>
             ELSE /\ view' = [view EXCEPT ![r] = @ + 1]
                  /\ lastLeader' = [lastLeader EXCEPT ![r] = @ /\ r # next]
                  /\ viewTimer' = [viewTimer EXCEPT ![r] = TRUE]
                  /\ Send(r, <<vote, MkMsg("NEW_VIEW", view[r] + 1, r, {next}, m.nodes,
                                           m.justify)>>)
    /\ UNCHANGED <<phase, curProposal, curRound, voteMsgs, timeouts, reqVars>>

\* tbls.Recover takes the first QuorumSize shares; all must be on the round's message.
CombineSign(r, votes) ==
    \A i \in 1 .. QuorumSize : SignedContent(votes[i].view, votes[i].nodes) = curRound[r]

CHandleGenericVote(r, m) ==
    LET votes  == IF m.view = view[r] THEN Append(voteMsgs[r], m) ELSE voteMsgs[r]
        qc     == [view |-> m.view, nodes |-> m.nodes]
        waits  == phase[r] = "HALF_GENERIC"
        enough == waits /\ Len(votes) >= QuorumSize /\ CombineSign(r, votes)
    IN
    /\ m.type = "GENERIC_VOTE"
    /\ voteMsgs' = [voteMsgs EXCEPT ![r] = IF waits THEN votes ELSE @]
    /\ \/ /\ ~enough
          /\ UNCHANGED <<phase, view, genericQC, curProposal, viewTimer, sent>>
       \/ /\ enough /\ view[r] < MaxView
          /\ phase' = [phase EXCEPT ![r] = "NEW_VIEW"]
          /\ view' = [view EXCEPT ![r] = @ + 1]
          /\ genericQC' = [genericQC EXCEPT ![r] = qc]
          /\ curProposal' = [curProposal EXCEPT ![r] = NoCmd]
          /\ viewTimer' = [viewTimer EXCEPT ![r] = TRUE]
          /\ Send(r, <<MkMsg("NEW_VIEW", view[r] + 1, r, {Leader(view[r] + 1)}, hsNodes[r],
                             qc)>>)
    /\ UNCHANGED <<hsNodes, blocks, lockedQC, curRound, newViewMsgs, lastLeader, viewChange,
                   blkVars, timeouts, reqVars>>

\* The view timer expires: the node goes to the next view by itself and starts the
\* timer again. The list of new-view messages stays.
StartViewChange(r) ==
    /\ viewTimer[r] /\ timeouts < MaxTimeouts /\ view[r] < MaxView
    /\ timeouts' = timeouts + 1
    /\ view' = [view EXCEPT ![r] = @ + 1]
    /\ phase' = [phase EXCEPT ![r] = "NEW_VIEW"]
    /\ viewChange' = [viewChange EXCEPT ![r] = TRUE]
    /\ Send(r, <<MkMsg("NEW_VIEW", view[r] + 1, r, {Leader(view[r] + 1)},
                       [i \in 1 .. 4 |-> NilNode], genericQC[r])>>)
    /\ UNCHANGED <<chainVars, curProposal, curRound, newViewMsgs, voteMsgs, lastLeader, blkVars,
                   viewTimer, reqVars, rcvd>>

----------------------------------------------------------------------------
(* Delivery and the specification *)

RouteCMsg(r, m) ==
    \/ CHandleNewView(r, m)
    \/ CHandleGeneric(r, m)
    \/ CHandleGenericVote(r, m)

\* The messages of s that are on their way to r
Unread(r, s) == {i \in DOMAIN sent[s] \ rcvd[r][s] : r \in sent[s][i].dst}

\* Those of them that may come next
Pending(r, s) ==
    LET unread    == Unread(r, s)
        proposals == {j \in unread : sent[s][j].type = "GENERIC"}
    IN  {i \in unread : \A j \in proposals : i <= j}

\* RouteServerMsg: r takes the i-th message of s from its channel
Take(r, s, i) ==
    /\ rcvd' = [rcvd EXCEPT ![r][s] = @ \cup {i}]
    /\ RouteCMsg(r, sent[s][i])

\* The goroutines of SendSerMsg put the messages of s into the channel of r in any order
Receive(r, s) == \E i \in Pending(r, s) : Take(r, s, i)

\* The messages that InitLeader puts into the leader's list
InitLeaderMsgs ==
    [i \in 1 .. QuorumSize - 1 |-> MkMsg("NEW_VIEW", 0, 0, {0}, InitLeaderQC.nodes, InitLeaderQC)]

\* NewChainedHotstuff on every node, InitLeader on r_0, then GenFirstRound
Init ==
    /\ phase = [r \in Server |-> IF r = 0 THEN "WAITING" ELSE "NEW_VIEW"]
    /\ view = [r \in Server |-> 0]
    /\ hsNodes = [r \in Server |-> FirstQC.nodes]
    /\ blocks = [r \in Server |-> [i \in 1 .. 4 |-> EmptyBlock]]
    /\ genericQC = [r \in Server |-> FirstQC]
    /\ lockedQC = [r \in Server |-> FirstQC]
    /\ curProposal = [r \in Server |-> NoCmd]
    /\ curRound = [r \in Server |-> SignedContent(0, FirstQC.nodes)]
    /\ newViewMsgs = [r \in Server |-> IF r = 0 THEN InitLeaderMsgs ELSE <<>>]
    /\ voteMsgs = [r \in Server |-> <<>>]
    /\ lastLeader = [r \in Server |-> FALSE]
    /\ viewChange = [r \in Server |-> FALSE]
    /\ bs = [r \in Server |-> [gen |-> 0, pre |-> NilHash]]
    /\ store = [r \in Server |-> <<>>]
    /\ viewTimer = [r \in Server |-> FALSE]
    /\ timeouts = 0
    /\ requests = [r \in Server |-> IF r = 0 THEN Genesis ELSE NoCmd]
    /\ reqFlag = [r \in Server |-> r = 0]
    /\ pool = ClientCmds
    /\ sent = [r \in Server |-> <<>>]
    /\ rcvd = [r \in Server |-> [s \in Server |-> {}]]

Next ==
    \/ \E r \in Server, c \in ClientCmds : GenNewReq(r, c)
    \/ \E r \in Server : HandleReq(r)
    \/ \E r, s \in Server : Receive(r, s)
    \/ \E r \in Server : StartViewChange(r)

Spec == Init /\ [][Next]_vars
----------------------------------------------------------------------------
(* Correctness *)

\* What s sent, and the messages of type t that were sent
Sent(s) == {sent[s][i] : i \in DOMAIN sent[s]}

Said(t) == UNION {{sent[s][i] : i \in {j \in DOMAIN sent[s] : sent[s][j].type = t}} :
                     s \in Server}

\* Every variable keeps the type its field has in CHotstuff and BlockStore.
TypeOK ==
    /\ phase \in [Server -> Phase]
    /\ view \in [Server -> 0 .. MaxView]
    /\ hsNodes \in [Server -> Four(HsNode)]
    /\ blocks \in [Server -> Four(Block)]
    /\ genericQC \in [Server -> ChainedQC]
    /\ lockedQC \in [Server -> ChainedQC]
    /\ curProposal \in [Server -> Cmd \cup {NoCmd}]
    /\ curRound \in [Server -> [view : 0 .. 255, nodes : Four(HsNode)]]
    /\ newViewMsgs \in [Server -> Seq(CMsg)]
    /\ voteMsgs \in [Server -> Seq(CMsg)]
    /\ lastLeader \in [Server -> BOOLEAN]
    /\ viewChange \in [Server -> BOOLEAN]
    /\ bs \in [Server -> BlkStore]
    /\ store = [r \in Server |-> store[r]]
    /\ \A r \in Server : \A h \in DOMAIN store[r] : store[r][h] \in Block
    /\ viewTimer \in [Server -> BOOLEAN]
    /\ timeouts \in Nat
    /\ requests \in [Server -> Cmd \cup {NoCmd}]
    /\ reqFlag \in [Server -> BOOLEAN]
    /\ pool \subseteq ClientCmds
    /\ sent \in [Server -> Seq(CMsg)]
    /\ rcvd \in [Server -> [Server -> SUBSET Nat]]

\* The nodes that have voted for the node n in view v
Voters(v, n) == {m.src : m \in {k \in Said("GENERIC_VOTE") : k.view = v /\ k.nodes[1] = n}}

\* Nothing is in transit and no goroutine has a step to take
Quiescent ==
    \A r \in Server : /\ ~reqFlag[r]
                      /\ \A s \in Server : Pending(r, s) = {}

Certified(v, n) == Cardinality(Voters(v, n)) >= QuorumSize

\* CHandleGenericVote waits for a quorum of votes: every stored block has got them, from
\* as many nodes, though no handler verifies a certificate.
StoredCertified ==
    \A r \in Server : \A h \in DOMAIN store[r] :
        \E m \in Said("GENERIC") : m.block = store[r][h] /\ Certified(m.view, m.nodes[1])

\* A certificate is the one a node starts with, or its votes were sent.
Backed(qc) == qc.nodes[1].cur = EmptyHash \/ Certified(qc.view, qc.nodes[1])

\* A leader makes one proposal in a view, then waits for its votes; the node of the
\* proposal is its block on the node of its certificate.
ProposalInv(r) ==
    /\ \A m \in Sent(r) : m.type = "GENERIC" =>
          /\ r = Leader(m.view) /\ m.view <= view[r]
          /\ m.view = view[r] => phase[r] = "HALF_GENERIC"
          /\ m.block.view = m.view
          /\ m.nodes[1] = [cur |-> HashOf(m.block), parent |-> m.justify.nodes[1].cur]
    /\ \A i, j \in DOMAIN sent[r] :
          /\ sent[r][i].type = "GENERIC" /\ sent[r][j].type = "GENERIC"
          /\ sent[r][i].view = sent[r][j].view
          => i = j

\* A node votes once in a view, for the proposal of that view. A replica leaves the
\* view at once; the leader stays and has taken its own proposal.
VoteInv(r) ==
    /\ \A m \in Sent(r) : m.type = "GENERIC_VOTE" =>
          /\ \E p \in Said("GENERIC") : p.view = m.view /\ p.nodes = m.nodes
          /\ \/ m.view < view[r]
             \/ /\ m.view = view[r] /\ r = Leader(view[r])
                /\ \E i \in DOMAIN sent[r] : /\ i \in rcvd[r][r]
                                             /\ sent[r][i].type = "GENERIC"
                                             /\ sent[r][i].view = m.view
    /\ \A i, j \in DOMAIN sent[r] :
          /\ sent[r][i].type = "GENERIC_VOTE" /\ sent[r][j].type = "GENERIC_VOTE"
          /\ sent[r][i].view = sent[r][j].view
          => i = j

\* Every certificate that a node holds, has been told of or has sent is backed.
CertInv(r) ==
    /\ Backed(genericQC[r])
    /\ \A i \in DOMAIN newViewMsgs[r] : Backed(newViewMsgs[r][i].justify)
    /\ \A m \in Sent(r) : m.src = r /\ Backed(m.justify)

\* The pipelines hold what they were made with, or nodes and blocks of proposals.
PipelineInv(r) ==
    LET known(n) == n = EmptyNode \/ \E p \in Said("GENERIC") : p.nodes[1] = n
    IN  \A k \in 1 .. 4 :
            /\ known(hsNodes[r][k])
            /\ blocks[r][k] = EmptyBlock \/ \E p \in Said("GENERIC") : p.block = blocks[r][k]
            /\ \A m \in Sent(r) : m.type = "GENERIC" => known(m.nodes[k])

\* A leader that collects votes has those of different nodes for the proposal of its
\* view, and too few of them; one that waits in the first view has the messages of
\* InitLeader.
LeaderInv(r) ==
    /\ \A s \in Server : rcvd[r][s] \subseteq DOMAIN sent[s]
    /\ phase[r] = "WAITING" /\ view[r] = 0 => newViewMsgs[r] # <<>>
    /\ phase[r] = "HALF_GENERIC" =>
          /\ r = Leader(view[r])
          /\ \E p \in Sent(r) : /\ p.type = "GENERIC" /\ p.view = view[r]
                               /\ curRound[r] = SignedContent(p.view, p.nodes)
          /\ Len(voteMsgs[r]) < QuorumSize
          /\ \A j \in DOMAIN voteMsgs[r] :
                /\ voteMsgs[r][j].type = "GENERIC_VOTE" /\ voteMsgs[r][j].view = view[r]
                /\ \E i \in DOMAIN sent[voteMsgs[r][j].src] :
                      /\ i \in rcvd[r][voteMsgs[r][j].src]
                      /\ sent[voteMsgs[r][j].src][i] = voteMsgs[r][j]
          /\ \A j, k \in DOMAIN voteMsgs[r] :
                voteMsgs[r][j].src = voteMsgs[r][k].src => j = k

\* The inductive invariant behind StoredCertified
Inv ==
    /\ StoredCertified
    /\ \A r \in Server :
          ProposalInv(r) /\ VoteInv(r) /\ CertInv(r) /\ PipelineInv(r) /\ LeaderInv(r)

\* Before the first expiry of a view timer
NormalCase == timeouts = 0

\* A certificate for the empty node is the one of view -1 that a node starts with.
Genuine(qc) == qc.nodes[1].cur = EmptyHash => qc.view = -1

\* In the normal case a proposal is made on the certificate of the view before, which
\* only the leader of that view has to tell, and views count the blocks.
LinearMessage(r, m) ==
    /\ Genuine(m.justify)
    /\ m.type = "GENERIC" => m.justify.view = m.view - 1 /\ m.block.height = m.view
    /\ m.type = "NEW_VIEW" =>
          /\ m.view > 0 /\ m.dst = {Leader(m.view)} /\ m.justify.view < m.view
          /\ r = LastLeader(m.view) => m.justify.view = m.view - 1

\* The certificates of msgs are of views before v, and with TellsLast of the last one too.
LinearList(v, msgs) ==
    \A i \in DOMAIN msgs : Genuine(msgs[i].justify) /\ msgs[i].justify.view < v

TellsLast(v, msgs) == \E i \in DOMAIN msgs : msgs[i].justify.view = v - 1

\* In the normal case only the leader of a view has new-view messages, before it proposes,
\* and with the flag of the last leader it has its certificate.
LinearRound(r) ==
    /\ bs[r].gen = (IF phase[r] = "HALF_GENERIC" THEN view[r] + 1 ELSE view[r])
    /\ ~viewChange[r]
    /\ LinearList(view[r], newViewMsgs[r])
    /\ newViewMsgs[r] # <<>> => IsLeader(r) /\ phase[r] # "HALF_GENERIC"
    /\ lastLeader[r] \/ phase[r] = "WAITING" => TellsLast(view[r], newViewMsgs[r])

\* The inductive invariant behind the ledger in the normal case
LinearInv ==
    NormalCase => \A r \in Server : (\A m \in Sent(r) : LinearMessage(r, m)) /\ LinearRound(r)

\* StoreBlock names a file after the height of its block.
FilesNumbered ==
    \A r \in Server :
        IsFiniteSet(DOMAIN store[r]) /\ \A h \in DOMAIN store[r] : store[r][h].height = h

\* README: all honest nodes have the same data.
DataConsistence ==
    \A r, s \in Server : \A h \in DOMAIN store[r] \cap DOMAIN store[s] :
        store[r][h] = store[s][h]

\* The files of a node, each block with the link of its node, up to the first gap
Chain(r) ==
    LET gap == Min({h \in 0 .. Cardinality(DOMAIN store[r]) : h \notin DOMAIN store[r]})
        proposals == Said("GENERIC")
        parent(b) == (CHOOSE m \in proposals : m.block = b).nodes[1].parent
    IN  [i \in 1 .. gap |-> [store[r][i - 1] EXCEPT !.pre = parent(store[r][i - 1])]]

LedgerOfChained == INSTANCE Ledger WITH
    FirstPre <- EmptyHash,
    proposed <- {[m.block EXCEPT !.pre = m.nodes[1].parent] : m \in Said("GENERIC")},
    ledger   <- [r \in Server |-> Chain(r)]

\* Chained HotStuff implements the ledger, with the parent of a block's node as its
\* link.
ImplementsLedger == LedgerOfChained!Spec
=============================================================================
