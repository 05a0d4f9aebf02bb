# DCSChain in TLA+

A verification project for DCSChain, a permissioned blockchain whose servers order
request batches with one of four consensus protocols (basic HotStuff, chained
HotStuff, HotStuff-2, PBFT), write the decided blocks to files and let nodes join
and leave. The modules are translated from the Go source; paths below are relative
to the repository.

## The system

| Component | State | Operations | Talks to |
|---|---|---|---|
| basic HotStuff, `orderer/consensus/hotstuff/core` | phase, view, HsNode, PrepareQC, LockedQC, CurProposal, vote lists, CurRoundMsg / LastRoundMsg | one handler per message type, GenProposal, StartViewChange, SyncInfo / Restart | block store, view timer, SendChan |
| chained HotStuff, `chained_hotstuff.go`, `generic.go` | four HsNodes and Blocks, GenericQC, LockedQC, view-change flags | CHandleNewView, CHandleGeneric, CHandleGenericVote, StartViewChange | same |
| HotStuff-2, `consensus/hotstuff2` | ProposalQC, PrepareQC, list of locked blocks, pacemaker with two timers | enter, propose, vote1, prepare, vote2, wish / TC | same |
| PBFT, `consensus/pbft` | sequence number, a ring of ten message logs, checkpoint, view-change messages | pre-prepare, prepare, commit, checkpoint, view change, new view | same |
| block store, `common/blockchain` | Height, PreBlkHash, CurBlkHash, CurProposalBlk, block files | GenNewBlock, StoreBlock, WriteBlock | called by the protocols |
| view and timer, `orderer/common` | view number, leader; MyTimer with a goroutine and an unbuffered stop channel | NextView; Start, Stop, ReSet | its expiry calls StartViewChange |
| server, `core/server` | Requests, ReqFlagChan, node channels | message loop RouteServerMsg, request loop HandleReq, node-manager handlers | orderer, node manager, other servers |
| client stub, `core/factory/gen_req.go`; client, `core/client` | - | GenFirstRound, GenNewReq: look for a leader that waits and has room | server |
| node manager, `mps` | mode, state, sync messages, table of nodes | join, sync, exit, agree; stop and restart of the orderer | server, orderer |
| threshold signatures, merkle tree, SM2/SM4, sockets, encoding, configuration, logging | none or none of the protocol's | pure functions and I/O | - |

What is hard here: a server runs three goroutines (message loop, request loop, timer)
over one consensus object; messages of one sender are ordered (in chained HotStuff not
even those), those of two senders are not; a timer may expire at any moment, and the view change keeps the vote lists,
the new-view messages and the proposal of the view it leaves; a message a node does
not expect is dropped and never sent again; every node keeps its own block height.

What makes each part correct:

- consensus: one proposal per view; no vote against a lock; decided nodes on one
  branch; a view that starts in step completes; a timeout leads into a view that works;
- block store: all nodes hold the same block at a height, no file is replaced, the
  block written is the certified one;
- request path: a batch a server has taken is proposed;
- timer and server loop: nobody waits for a receiver that has gone;
- node manager: all nodes restart with the same table, view and certificate.

The hazards that follow from this are listed, with their lines and the properties
that cover them, under `hazards` in `PROJECT.json`.

## Modules

`BasicHotStuff` is the specification of the core: basic HotStuff as a server runs it,
with the request hand-off, the view timer, the block store and the channels.

| Variable | Field |
|---|---|
| `phase`, `view`, `hsNode`, `prepareQC`, `lockedQC` | CurPhase, View.ViewNumber, HsNode, PrepareQC, LockedQC of BCHotstuff |
| `curProposal`, `ignoreCheckQC` | CurProposal, IgnoreCheckQC |
| `curRound`, `lastRound` | the view of the last message of CurRoundMsg, LastRoundMsg |
| `newViewMsgs`, `prepareVotes`, `preCommitVotes`, `commitVotes` | the lists of the same names |
| `bs`, `store` | BlkStore and the block files |
| `timer`, `timeouts` | the view timer runs; expiries so far (bound) |
| `requests`, `reqFlag`, `pool` | Server.Requests, ReqFlagChan, batches not yet submitted |
| `sent`, `rcvd` | everything a node put on SendChan, and how far each receiver has read it |

Actions are the handlers: `HandleNewView`, `HandlePrepare`, `HandlePrepareVote`,
`HandlePreCommit`, `HandlePreCommitVote`, `HandleCommit`, `HandleCommitVote`,
`HandleDecide` (with NewRound and the new-view message that follows), `Discard` for a
message that fails the checks at the head of its handler, `StartViewChange` for the
timer, `GenNewReq` and `HandleReq` for the request path. `Receive` takes the next
message of one sender. The details that matter are kept as they are in the code:

- HandlePrepare adopts the proposal before it checks the message, skips CheckNewHsNode
  in view 0, and takes the block without a look at its height;
- HandlePreCommit lets in a replica that is still in NEW_VIEW;
- the leader drops its own PREPARE, PRE_COMMIT and COMMIT, so it never votes;
- the leader stays in COMMIT after a quorum and sends DECIDE again for each more vote;
- a node without a proposal stays in DECIDE after a decision;
- votes and certificates sign `view % 256`, and a block's hash keeps one byte of its height,
  view and time;
- a leader accepts only new-view messages whose certificate is of the view of its own
  LastRoundMsg, and the view change does not move LastRoundMsg.

Abstractions: a batch is one value; SHA-256 does not collide, so a hash is what Block.Hash
hands to it, less PreBlkHash, itself a hash; views stay below 256 (`ViewAssumption`), where
the one byte of them that hashes and signatures hold repeats; a threshold signature is
the content it signs, and combines only from shares of enough nodes on that very
content (the library is external); a handler, and the timer's callback, is one step;
channels are unbounded. Failed writes of a block, which the code retries, are left
out, as are the parts that only join and exit call.

`ViewTimer` is MyTimer under the goroutines that use it: the handlers, which call Stop
and later Start (HandlePrepare, HandleDecide, HandleNewView, and GenProposal from the
request loop), and the timer goroutines, whose expiry runs StartViewChange and so calls
Start. `isStopped` is the unlocked flag, every read and write of it a step; `pc` is the
place of a goroutine; a send on the unbuffered stopChan is one step with its receiver.
Durations are left out, an armed timer may expire at any time. `Room` reserves a
goroutine for every start in progress, so the bound `Timers` never blocks a call.
Stop called alone when a node is halted belongs to join and exit, and is left out.
`MCViewTimer` adds the symmetry of the timers.

`MCBasicHotStuff` holds the schedules and the properties that only TLC uses.

`Agreement` is the abstract specification of what a HotStuff core promises about its
tree of nodes: `Propose` hangs a node with a fresh hash under one of the tree or under
none, `Decide` makes one more node final, and the final nodes stay on one branch.
`BasicHotStuff` instantiates it as `Tree`, with the nodes of the PREPARE messages sent
as the tree and those with a quorum of commit votes as the decided ones. An ancestor is
defined without recursion: a node lies on the branch of another if every set of hashes
that is closed under parents and has the one has the other.

The theorems are in modules of their own: `BasicHotStuffProofs` (types),
`BasicHotStuffSafety` (votes, certificates and locks), `BasicHotStuffAgreement` (one
branch, the refinement of `Agreement`, and the blocks that are written),
`ViewTimerProofs`, `ChainedHotStuffProofs`, `HotStuff2Proofs`, `PBFTProofs` and
`NodeManagerProofs`.

`Ledger` is the abstract specification of what a consensus core promises its users:
leaders propose blocks, and every node appends proposed blocks to its ledger, so that
at any time one of two ledgers is a prefix of the other, heights count from 0, each
block names its predecessor, and nothing is taken back. `PBFT`, `HotStuff2` and
`ChainedHotStuff` instantiate it: `proposed` is mapped to the blocks in the proposals
sent, `ledger` to the block files from height 0 to the first gap. In PBFT the link
is the block's own PreBlkHash. In the other two PreBlkHash does not name the
predecessor (finding 21), so the mapping takes the parent of the block's
HotStuff node.

### The other three protocols

The state of each is one variable per field of its Go struct, named after it (the
declarations say which), with the block store, the request path and the channels
(`sent`, `rcvd`) as in `BasicHotStuff`, but for chained HotStuff (below). Actions are the handlers, with `Receive` as
the dispatcher, and one action for each timer callback and for each step of HandleReq.

`PBFT`. `msgLog` is the ring MsgLog with CHECKPOINTNUM slots (`CheckpointNum`),
`checkpoint` the CheckPoint record, `vcMsgs` the ViewChangeMsgs record. `lock`,
`reqPc` and `spawned` are ProposalLock, the place of HandleReq, and the goroutines
that propose after a reply; `replied` holds the sequence numbers in ReplyMsgs. The lists of
prepares and commits are sets in the model and counted by length in the code: the same as
long as nobody sends one of these messages twice, which is the property `VotesOnce`. Kept as
in the code:
- LogMsg files by the node's view, MatchPrePrepareMsg looks up by the message's view;
- the branch of CheckPrepareAndCommit for prepares alone cannot be reached;
- HandleReq returns with the lock held if the phase has changed meanwhile;
- a view change is acted on when the list has exactly quorum size, and VerifyOSet
  indexes by sequence number and may end the process (`panicked`), as may HandlePMsg when
  it replies to a redo and holds no view-change message;
- a checkpoint clears the whole log and sets the phase, whatever the node is doing.

`HotStuff2`. `locked` pairs LockBlk with LockHs2Node. Kept as in the code: the
optimistic ENTER locks the current block unseen; HandleTC takes a node back to
NEW_PROPOSE in the view it is in; the enter timer is never stopped; the height a
certificate must have; a CombineSign that fails is kept and sent as an empty
certificate; GenCommitBlkIndex and UpdateAfterCommit with the case in which nothing is
deleted. New-view messages and three flags are written and never read, and left out.

`ChainedHotStuff`. `hsNodes` and `blocks` are the two pipelines of four, which move
at different places of CHandleGeneric. No handler verifies a certificate's signature,
so a certificate is the view and the nodes it is about. HandleCMsg sends every message in a
goroutine of its own, so `rcvd` is the set of the messages a node has taken, and `Pending` those
it may take next: any of them, except that nothing overtakes a proposal of its own sender. The
leader says nothing more before votes for it have come back, and a vote follows the whole
broadcast of the proposal. Kept as in the code: SafeNode
with its comparison, LockedQC as an assignment, the timer that a proposing leader
stops, CheckNewCHsNode, the new-view message of the last leader, for which the next
one waits.

The free interleaving of several views is out of TLC's reach, so their MC modules add
schedules. A schedule is a record, kept in `sched`, and a run gives `Schedules` the set
one of them is chosen from at the start. The nodes that are not slow (and all nodes
below view `from`) empty their channels, the lowest number first, before anything else
happens. Under `Lags(slow, ...)` messages are taken in the order in which they were
sent, and slow nodes fall behind by any number of them; under `Reorders(slow, ...)` slow
nodes take the messages of different senders (in chained HotStuff those of one sender too)
in any order and as late as they like.
Further fields bound the batches the client submits and the expiries, name the nodes
whose timers may expire (`hasty`, HotStuff-2), or let the timers of prompt nodes expire
in the same view (`LagsTogether`, chained HotStuff). Requests, timers and goroutines are
free in all of them. `Everyday` of each module is the set of its passing run:

| Module | Schedules of `Everyday` |
|---|---|
| `MCPBFT` | r_3 reorders up to a checkpoint; r_2 and r_3 reorder in the first round; r_3 lags across a checkpoint; three expiries anywhere, all nodes prompt |
| `MCHotStuff2` | r_3 lags; r_2 and r_3 lag; r_1 and r_3 reorder in the first round; r_2 reorders from view 1 on, with three expiries on the others |
| `MCChainedHotStuff` | r_0 and r_1 lag until the first block is stored; r_2 and r_3 lag; r_3 lags, with two expiries anywhere; r_1 reorders until the first block is stored; r_3 reorders through the views |
| `MCNodeManager` | one join, all nodes slow; the exit of r_3 between any two of the rounds of views 0-4; a join and the exit of the new node after a decided round; a join at any point of the first two rounds, r_3 slow |

Each schedule is a subset of the behaviours of `Next`: a violation is a behaviour of the
code, and a pass covers the schedules of the run.

### Joining and leaving

`NodeManager` composes the node manager of `mps`, the server handlers that drive it,
the commands `j` and `e`, and an orderer that stops and restarts.

| Variable | Field |
|---|---|
| `servers`, `joins`, `exited`, `signersDue` | the test driver: simulateServers, commands so far, UpdateSigners goroutines |
| `handle` | HandleState and ReqState of the orderer |
| `view`, `qc`, `phase`, `curProposal`, `ignoreCheckQC`, `newViews`, `votes`, `height`, `blk`, `signNum` | what a join reads or disturbs of basic HotStuff, its block store and its signer |
| `table`, `mapOf`, `chans`, `newNode`, `state`, `syncMsgs` | NodesTable, NodesChannel (the nodes of GenServers share one map), NewNode, State, SyncMsgs |
| `starting`, `busy` | goroutines that have yet to set State; what the server loop is in the middle of: idle, between AGREE and its update, asleep until IsReady, or blocked for ever on a nil channel |
| `link`, `net` | consensus messages, queued; node-manager messages, each sent by a goroutine of its own and so unordered |

`Manage` dispatches to the handlers of APPLY, SYNC, AGREE and RESTART for joins and
exits. AGREE and the sleep before a restart are steps of their own, since the loop can
block there. Abstractions beyond those of the header of the module: blocks are known by
height; certificates are known by view, and a certificate is never refused for having
been made by an earlier set of signers; a broadcast skips a nil channel only where the
code does; the name of a node is not used twice (bound).

A goroutine of its own that sends to a nil channel waits there for ever and disturbs
nobody, and is left out.

`MCNodeManager` schedules it in the same way. `Quiet(joins, leavers, views)` is a schedule
between rounds; others change its fields. Nodes in `slow` take each message at any time,
the others promptly in a fixed order; `deaf` nodes take no consensus messages; `timely`
sets State before the first answer comes; `lockstep` lets all nodes read the shared map
before one deletes from it; `calm` holds requests and commands back until no message is
under way; `spaced` holds a command back until the last one is done; `firstView` lets
some rounds pass before the first command. `Everyday` keeps the restrictions whose
absence is a finding: `EarlySync`, for one, is its first schedule without `timely`.

## Runs

`MaxView` bounds the views (a node in `MaxView` can no longer decide or time out),
`MaxTimeouts` the expiries in a behaviour; deadlock is not checked because the bounds
stop the system. All runs have `N = 4` unless noted, one genesis batch and the client
batches given.

| Run | Bounds | Result |
|---|---|---|
| `safety` | all interleavings, views 0-2, 2 expiries, 1 batch beside the genesis | `OneNodePerView`, `StoresCertifiedBlock`, `LocksMonotonic` hold |
| `slow_node` | views 0-6, 13 expiries, schedule `Prompt` | `TypeOK`, `LockSafety`, `LockCoversVotes`, `DecidedOnOneChain`, `ImplementsAgreement` hold |
| `no_timeout` | all interleavings, views 0-3, 2 batches, no expiry, weak fairness | `Inv`, `DataConsistence`, `BlocksDurable`, `RoundCompletes`, `GenesisDecided` hold |
| `timer_calls` | 2 callers of 2 handlers each, 4 timer goroutines, fairness | `TimerRuns`, `CallsReturn` hold |
| `pbft_schedules` | `Everyday`: views 0-4, up to 2 batches and 3 expiries, a checkpoint every 2 requests | `TypeOK`, `VotesOnce`, `StoredCertified`, `GenesisDecided`, `ImplementsLedger` hold |
| `h2_schedules` | `Everyday`: views 0-3, up to 2 batches and 3 expiries | `TypeOK`, `CertificatesBacked`, `LockedNotCommitted`, `DecidedNotPassedOver`, `FirstViewEntered`, `ImplementsLedger` hold |
| `chained_schedules` | `Everyday`: views 0-6, up to 5 batches and 2 expiries | `TypeOK`, `StoredCertified`, `GenesisStored`, `ImplementsLedger` hold |
| `nm_schedules` | `Everyday`: one join and one exit, views 0-5, fairness | `TypeOK`, `Inv`, `MembersAgree`, `NoneBlocked`, `CalmSameView`, `CalmSameHeight`, `HighestQCTaken`, `MembershipSettles`, `CalmLeaderWaits` hold |
| `data_consistence` | basic HotStuff, views 0-3, 1 expiry | `DataConsistence` is violated |
| `pbft_lock` | views 0-6, 5 batches, no expiry, fairness | `RequestHandled` is violated |
| `h2_late_wish` | views 0-3, 3 expiries, r_3 lags from view 1 on | `OneCertificatePerView` is violated |
| `chained_lock` | views 0-6, 7 expiries, r_1 lags from view 2 on | `LockNeverFalls` is violated |

Further instances, each in a configuration of its own. TLC finds the property violated in
every one of them; the findings below say what happens.

| Configuration | Module | Bounds | Violated |
|---|---|---|---|
| `HotStuff_missed_prepare` | `MCBasicHotStuff` | `N = 5`, no expiry, schedule `Prompt` | `StoresCertifiedBlock` |
| `HotStuff_request_stuck` | `MCBasicHotStuff` | 1 expiry | `PendingRequestFlagged` |
| `HotStuff_new_view` | `MCBasicHotStuff` | view 0-1, 4 expiries | `NewViewEntered` |
| `HotStuff_one_crash` | `MCBasicHotStuff` | one replica stopped, views 0-2, 6 expiries, fairness | `DecidedWithoutSlow` |
| `ViewTimer_flag` | `MCViewTimer` | 1 caller of 3 handlers, 4 timer goroutines | `FlagTellsRunning` |
| `PBFT_committed_local` | `MCPBFT` | `N = 5`, views 0-2, r_4 reorders | `CommittedLocal` |
| `PBFT_redo` | `MCPBFT` | views 0-4, 3 expiries, r_1 lags | `RedoneRequestsStored` |
| `PBFT_stale_leader` | `MCPBFT` | views 0-3, 3 expiries, r_1 lags | `DataConsistence` |
| `PBFT_overtaken` | `MCPBFT` | views 0-2, no expiry, r_3 reorders | `StalledRoundTimesOut` |
| `HotStuff2_overtaken` | `MCHotStuff2` | views 0-2, r_3 reorders | `DataConsistence` |
| `HotStuff2_new_view` | `MCHotStuff2` | views 0-2, 3 expiries, r_2 lags from view 1 on | `ProposalOfNewViewVoted` |
| `HotStuff2_one_crash` | `MCHotStuff2` | r_1 stopped, views 0-3, 3 expiries, fairness | `EnteredWithoutSlow` |
| `Chained_votes_lost` | `MCChainedHotStuff` | views 0-4, 2 expiries, r_3 lags | `StalledLeaderTimesOut` |
| `Chained_new_view` | `MCChainedHotStuff` | views 0-4, 4 expiries | `ProposalOfNewViewVoted` |
| `Chained_missed` | `MCChainedHotStuff` | views 0-6, 1 expiry, r_3 lags | `SameViewSameData` |
| `Chained_overtaken` | `MCChainedHotStuff` | views 0-2, r_1 reorders | `NextLeaderWaits` |
| `NodeManager_stopped_apart` | `MCNodeManager` | a join in the middle of view 0, r_3 slow | `SameView` |
| `NodeManager_height` | `MCNodeManager` | two joins, one after the other | `SameHeight` |
| `NodeManager_high_qc` | `MCNodeManager` | `N = 5`, a join after view 0, r_3 hears no consensus message | `HighestQCTaken` |
| `NodeManager_leader_left` | `MCNodeManager` | r_1 leaves between rounds | `NoneBlocked` |
| `NodeManager_early_sync` | `MCNodeManager` | a join without `timely`, fairness | `MembershipSettles` |
| `NodeManager_shared_map` | `MCNodeManager` | an exit without `lockstep`, all nodes slow, fairness | `MembershipSettles` |
| `NodeManager_two_joins` | `MCNodeManager` | two joins that overlap, fairness | `MembershipSettles` |
| `NodeManager_stale_sync` | `MCNodeManager` | a join and the exit of the same node, r_0 and r_1 slow | `RestartedAfterAgreement` |

Why the bounds are enough. Two expiries and three views let a node leave a view at
any point, meet messages of the view it left, lead a view with old votes in its lists,
and let two nodes disagree on the view. A conflict between a lock and a later
certificate needs a view that commits on part of the nodes, a later view led on an
older certificate and one more to tell the branches apart; that takes more views than
full interleaving allows, so `slow_node` restricts the schedule: three nodes exchange
their messages promptly and time out only when nothing is left to deliver, the fourth
lags or times out at will. Each of the mutants of `PROJECT.json` (a check dropped, a
lock not taken, a height not counted) is caught within these bounds.

What the passing runs leave out. The state space of `no_timeout` meets `Inv` without view
changes; the theorem `InvCorrect` has them too. No run goes near view 256, and the theorems
about basic and chained HotStuff assume that it is not reached. With four nodes no replica that
missed PREPARE can decide, so `StoresCertifiedBlock` meets that case only in
`HotStuff_missed_prepare`. `RoundCompletes` speaks of rounds that start in step, so it does not
see a new-view message that came too early. `GenesisStored` speaks of the schedules that deliver
in the order of sending: out of order such a message is lost for good (`Chained_overtaken`).
`Everyday` of `MCPBFT` has no lagging leader (`PBFT_stale_leader`), and a view change that steps
over its threshold would only be a round that never starts, which is no property of a run. In
`nm_schedules` the leader of some node never leaves (`NodeManager_leader_left`), answers do not
come before State is set (`NodeManager_early_sync`), no node deletes from the shared map early
(`NodeManager_shared_map`) and commands do not overlap (`NodeManager_two_joins`);
`CalmSameView`, `CalmSameHeight` and `CalmLeaderWaits` speak of the time between rounds, not of
a stop in the middle of one (`NodeManager_stopped_apart`) or of a second restart before the next
block (`NodeManager_height`).

PBFT stores a block in one view; a checkpoint every two requests puts one into every
second round, and the ring of two slots wraps. Three expiries are the quorum a view change
takes, and two rounds after it tell what the redo left. HotStuff-2 commits one view late
and chained HotStuff three, hence views 0-3 and 0-6, in which several heights are stored.
In the view changes of `h2_schedules` the slow node's own timer stays quiet: with it the
run takes longer than its state space is worth, and the three others are the quorum.
A join reads certificates and heights, so one schedule of `nm_schedules` starts it after a
decided round. Five nodes are needed in `PBFT_committed_local`, since with four a node
that is left out of a quorum is the only one and has no early messages to count, and in
`NodeManager_high_qc`, to have three different views.

The schedules of the three protocols end: the client runs out of batches and the timers
out of expiries. What must eventually happen is therefore stated of the states in which
nothing is left to deliver (`Quiescent`), as in `GenesisDecided` of `MCPBFT`,
`FirstViewEntered` and `GenesisStored`: the system comes to rest in no other way.

In `HotStuff_one_crash` the three live nodes lead one of the views 0 to 2 each. In
`HotStuff_missed_prepare` the quorum of five nodes is three, so a view can commit without the
slow replica; with four nodes all three replicas must vote and nobody can miss PREPARE.

Fairness. `Fairness` is weak fairness of the message loop of every node for each
sender, of the request loop and of the client's retry loop: goroutines that loop for
ever. No fairness is assumed of timers, which need not expire. `CrashFairness` adds
weak fairness of StartViewChange on live nodes: a timer that is left alone expires.
`FairScheduled` of `MCPBFT` is weak fairness of the schedule as a whole: no expiry is
allowed where it is used. `CrashSpec` of `MCHotStuff2` has the loops and both timers of the
live nodes. `FairScheduled` of `MCNodeManager` has weak fairness of the server loops, of the
sleeping goroutines and of those that start a join; requests and commands are not forced.
In `ViewTimer` goroutines that can run are run, and a goroutine that waits to send on
stopChan is served if timers keep reaching their select (strong fairness: Go queues
the senders of a channel in order). No expiry is assumed.

## Findings

The first four are runs, the others further instances.

1. `data_consistence`: a node that times out between its commit vote and DECIDE drops
   the late DECIDE; its Height stays one behind. When it leads, GenNewBlock numbers the
   block with its own Height, the others accept it and overwrite an older block. The
   repository's README promises that all honest nodes have the same data.
2. `pbft_lock`: HandleReq leaves ProposalLock held if the phase has changed meanwhile, and
   the next request hangs.
3. `h2_late_wish`: a late timeout certificate makes nodes vote twice in one view.
4. `chained_lock`: SafeNode never compares with the lock, which then goes back.

Basic HotStuff and the timer:

5. `HotStuff_missed_prepare`: a replica let in at PRE_COMMIT writes the block of an earlier
   view.
6. `HotStuff_request_stuck`: HandleReq takes the flag before it looks at the leader; after a
   view change in between, the batch waits for a flag nobody raises.
7. `HotStuff_new_view`: the initial prepareQC has no signature and the wrong type, so no
   new-view message out of view 0 is accepted and a timeout in the first round is final.
8. `HotStuff_one_crash`: the leader's vote is never cast, so 2f+1 votes are asked of 3f
   replicas; four nodes do not tolerate one that has stopped.
9. `ViewTimer_flag`: a timer that expires while a handler is between Stop and Start leaves
   two timers armed, since both find IsStopped set. The next Stop ends one of them, and
   the flag says stopped while the other still runs.

PBFT:

10. `PBFT_committed_local`: commits filed before the pre-prepare, or for another view,
    are counted without being compared with it. In the schedules checked no wrong block
    results (`StoredCertified`), but not by the rule the comment states.
11. `PBFT_redo`: requests redone after a view change are answered and get no block.
12. `PBFT_stale_leader`: a proposal made by a node that does not lead the view is accepted,
    and two blocks of one height are stored.
13. `PBFT_overtaken`: the pre-prepare stops the timer; a round that stalls after it has too
    few timers for a view change.
14. VerifyOSet refuses the set its own leader code makes, or reads past its end: TLC finds
    `OSetVerifies` violated with the constants of `PBFT_schedules`.

HotStuff-2 and chained HotStuff:

15. `HotStuff2_overtaken`: a node that gets ENTER before PROPOSE locks and stores the empty
    block.
16. `HotStuff2_new_view`: after a timeout certificate the height check refuses every proposal.
17. `HotStuff2_one_crash`: the second vote stops the timer, and a stopped next leader is for
    good.
18. `Chained_votes_lost`: a leader waiting for votes has no timer.
19. `Chained_new_view`: the first proposal after a view change is refused when the leader's
    own nodes are not those of the highest certificate.
20. `Chained_missed`: a node that missed a proposal never stores the blocks around it.
21. PreBlkHash of a stored block is not the hash of the block before it, since blocks are
    made before their predecessor is stored: TLC finds `BlocksLinked` of `HotStuff2` violated
    with the constants of `HotStuff2_schedules`. Nor is it in chained HotStuff, for the same
    reason.
22. `Chained_overtaken`: new-view messages that come too early are lost for good.

Joins and exits:

23. `NodeManager_stopped_apart`: a join in the middle of a round leaves the nodes in
    different views.
24. `NodeManager_height`: a node that joins right after another restart numbers its blocks
    from 1.
25. `NodeManager_high_qc`: the new node may take a lower certificate than it was sent.
26. `NodeManager_leader_left`: a node that stopped a view earlier chooses the node that left
    as its leader and blocks on a deleted channel.
27. `NodeManager_early_sync`, `NodeManager_shared_map`, `NodeManager_two_joins`: three ways in
    which a join or an exit never ends: answers before State is set, the shared map, two
    joins at a time.
28. `NodeManager_stale_sync`: a node that joined and leaves counts the messages of its join.

## Proofs

Proved by TLAPS for every `N` that satisfies `NAssumption`, every set of batches and
every value of the bounds (of basic and chained HotStuff: with views below 256), without
schedules:

| Module | Theorem | Statement |
|---|---|---|
| `BasicHotStuffProofs` | `TypeCorrect` | `Spec => []TypeOK` |
| `BasicHotStuffSafety` | `InvCorrect` | `Spec => []Inv` |
| | `OneNodePerViewCorrect` | `Spec => []OneNodePerView` |
| | `LockCoversVotesCorrect` | `Spec => []LockCoversVotes` |
| | `LocksMonotonicCorrect` | `Spec => LocksMonotonic` |
| | `LockSafetyCorrect` | `Spec => []LockSafety` |
| `BasicHotStuffAgreement` | `PhaseCorrect` | `Spec => []PhaseInv` |
| | `DecidedOnOneChainCorrect` | `Spec => []DecidedOnOneChain` |
| | `AgreementRefined` | `Spec => ImplementsAgreement` |
| | `BlocksCorrect` | `Spec => []BlocksInv` |
| | `StoresCertifiedBlockCorrect` | `N = 4`: `Spec => StoresCertifiedBlock` |
| | `DataConsistenceCorrect` | `N = 4`, `MaxTimeouts = 0`: `Spec => []DataConsistence` |
| | `BlocksDurableCorrect` | `N = 4`, `MaxTimeouts = 0`: `Spec => BlocksDurable` |
| `ViewTimerProofs` | `TimerInvCorrect` | `Spec => []TimerInv` |
| | `TimerRunsCorrect` | `Spec => []TimerRuns` |
| `ChainedHotStuffProofs` | `ChainedTypeCorrect` | `Spec => []TypeOK` |
| | `ChainedInvCorrect` | `Spec => []Inv` |
| | `ChainedStoredCertifiedCorrect` | `Spec => []StoredCertified` |
| | `ChainedLinear` | `Spec => []LinearInv` |
| | `ChainedConsistence` | `Spec => [](NormalCase => DataConsistence)` |
| | `ChainedLedger` | `Spec /\ []NormalCase => ImplementsLedger` |
| `HotStuff2Proofs` | `H2TypeCorrect` | `Spec => []TypeOK` |
| | `H2InvCorrect` | `Spec => []Inv` |
| | `CertificatesBackedCorrect` | `Spec => []CertificatesBacked` |
| `PBFTProofs` | `PTypeCorrect` | `Spec => []TypeOK` |
| | `NormalCaseInvariant` | `Spec => []NormalInv` |
| | `NormalCaseCertified` | `Spec => [](NormalCase => StoredCertified)` |
| | `NormalCaseConsistence` | `Spec => [](NormalCase => DataConsistence)` |
| | `NormalCaseLedger` | `Spec /\ []NormalCase => ImplementsLedger` |
| `NodeManagerProofs` | `TypeCorrect` | `Spec => []TypeOK` |
| | `MembershipInvariant` | `Spec => []Inv` |

### Assumptions

`NAssumption` of `BasicHotStuff` says that two quorums of `((N-1) div 3)*2+1` nodes share
one. It is true of all `N = 3f+1` and false of 2, 3 and 6. That of `ChainedHotStuff` is
`N > 3`: with fewer nodes a quorum is one node, InitLeader then leaves no new-view message,
and the first leader asks for the highest certificate of none. `StoredCertified` needs no
two quorums that meet. Those of `HotStuff2` and `NodeManager` are `N > 0`. `CmdAssumption` says that the empty
proposal is not a batch.

`ViewAssumption` of `BasicHotStuff` and of `ChainedHotStuff` is `MaxView < 256`. Signatures hold
`byte(ViewNumber)`, and so do the hashes of blocks. Of views 256 apart, a leader that proposes
the same batch at the same height and time byte proposes the same hash, and old votes could be
counted for it; PreBlkHash, which the model leaves out of the hash, is then all that tells them
apart, and the theorems claim nothing of behaviours that long. PBFT and HotStuff-2 need no such bound: what is proved of HotStuff-2's
certificates (`Backed`) speaks of the byte of the view, and the digest of a PBFT proposal is
compared in a message that names the whole view.

The conditions of the theorems are part of what they say. With five nodes a replica can
miss PREPARE in a view that is decided, and writes an old block (finding 5), so
`StoresCertifiedBlock` is a theorem for four. One expiry is enough to break
`DataConsistence` (finding 1), so it and `BlocksDurable` are theorems for no expiry, with
messages as late as they like.

`NormalCase` is a condition on the behaviour, with any bounds. In chained HotStuff it says that
no view timer has expired so far: after an expiry a leader may propose on an older certificate,
a node may skip a view, and the heights of the nodes differ, so their files do too (finding 20).
In PBFT it says in addition that no node has reached view `CheckpointNum`: a checkpoint clears
the whole log and sets the phase of a node in the middle of a round, and a view change redoes
requests without a block (findings 11, 12). The nodes need not be prompt in either: any number
of views may be open at a time, messages of different senders come in any order, and in chained
HotStuff those of one sender too.

### Basic HotStuff

None of the safety properties is inductive by itself. `Inv` is a conjunction over the
nodes of
- `SentInv`: nothing is sent for a view the sender has not reached, and a new-view
  message carries an older certificate;
- `ProposalInv`: a proposal comes from the leader of its view, is the only one of that
  view, extends a valid certificate of an earlier view (or the nil one of InitLeader),
  and its maker has left NEW_VIEW and WAITING for good in that view;
- `VoteInv`: every vote is for a proposal of its view, and a prepare vote is for one
  whose certificate is not older than any commit vote the voter had sent: what
  SafeNode and the lock are for;
- `QCInv`: every certificate in a message or a variable that verifies was voted for by
  a quorum;
- `ListInv`, `LeaderInv`: what a leader has collected was sent, and the votes left over
  from an earlier view never combine in a new one. This is the subtle part: the view
  change keeps the lists, HandlePrepareVote takes the certificate's view from the last
  vote, and the signature keeps one byte of the view. It works because a node's hash
  contains a byte of its view too (`ViewByte`), so below view 256 votes for the leader's
  node are votes of its view;
- `LockInv`: `lockedQC.view <= prepareQC.view <= view`, and the lock covers all commit
  votes.

A step changes one node and only adds messages, so `LocalStep` reduces `Inv'` to the
parts at that node; there is one lemma per handler. `LockSafety` then follows: a node in
the intersection of the commit quorum of view v and the prepare quorum of view w > v sent
both votes, so by `VoteInv` the proposal of w extends a certificate of some u with
v <= u < w, and of the committed node itself if u = v.

`PhaseInv` adds that a pre-commit vote has a quorum of prepare votes behind it and a commit
vote one of pre-commit votes; so every decided node was certified, and its proposal extends
a certified node. `DecidedOnOneChain` follows by descent on the views: if a decided node c
were not on the branch of a node certified later, take the least view in which that is so;
the proposal of that view extends, by `LockSafety`, a certificate of a view that is not
below that of c, hence c itself or a node certified in between, which is already on
the branch of c. The descent uses that a set of naturals has a least member, so no
induction over data is needed. `AgreementRefined` maps each step: a PREPARE that is sent
hangs one node with a hash no earlier node has (it holds the byte of the view, and a view
has one proposal) under a certified one; a commit vote completes at most one quorum; all other
steps leave tree and decided nodes alone.

For the blocks, `BlocksInv` says that CurProposalBlk is the block of the node a replica has
proposed or voted for, as long as it is in that view. With `N = 4` a quorum is all three
replicas (`AllReplicasVoted`), so a node that writes has voted for what is decided, and
`StoresCertifiedBlock` follows. Without expiries the invariant `StoresInv` says in
addition that the view, the height and the file a block goes to are the same number, so
that by `OneNodePerView` two nodes write the same block to the same file.

### View timer

`TimerInv` says why the unlocked flag does no harm to the promise that a timer runs: a flag
that says stopped has a goroutine on its way to clear it (in Stop or Start of a handler,
or in an expiry that will start the next timer), and after the first start there is always
a goroutine that runs the timer or is about to replace it. `TimerRuns` is its consequence
when no call is in progress. The flag is still wrong in the other direction (finding 9).

### Chained HotStuff

`Inv` is a conjunction over the nodes of
- `ProposalInv`, `VoteInv`: a leader proposes once in a view and a node votes once in it,
  for the proposal of that view; the leader counts its own vote after it took its own
  proposal, hence the condition on `rcvd`;
- `LeaderInv`: a leader that collects has fewer than a quorum of votes, of different nodes,
  for the nodes it proposed, each taken from a channel after the proposal. The handler
  looks at no signature, and it is this part that makes a certificate mean something;
- `CertInv`: every certificate in a message, a list or a variable is the initial one or
  `Backed`: a proposal carried its nodes and a quorum voted for it;
- `PipelineInv`: the four nodes and the four blocks are the empty ones or those of
  proposals.

A block is written when the second node of the pipeline is the parent of the first, whose
proposal carried a certificate for it. So the block that is written was proposed, and the
certificate is backed, which is `StoredCertified`.

The ledger needs more, and holds until the first expiry. `LinearInv` says that a proposal of
view v carries the certificate of view v-1. The leader takes the highest certificate of those
that came, and waits for 2f+1 messages and the flag LastLeaderState; the replicas' messages
carry the certificate of v-2, and only the leader of v-1 must have that of v-1
(`LastLeader(m.view)` in `LinearMessage`). So the invariant follows that one message, from the
votes through the channel to the list, with `TellsLast` while it is in the list. `Genuine` rules
out that a certificate for the empty node passes for one of a later view. That the block of a
proposal has the height of its view needs `GeneratedHeight` to count a leader's own proposal
before it is accepted, hence the condition on the phase. `FilesNumbered` adds that a file has
the height of its block as its name.

From these and `Inv`, the proposals of all views form a row: one in a view, and its node has
that of the view before as its parent, since the certificate was voted for and the votes are
for a proposal (`ProposedOn`). The blocks in the files are of the row, so two nodes that have a
file of a height have the same (`ChainedConsistence`). A node that misses a proposal has gaps in
its files; the ledger ends before the first. That point never moves back (`GapGrows`), any two
sequences of a row's blocks are one a prefix of the other (`ChainPrefix`), and every link is
that of the node (`ChainLinks`); a step is a commit of the ledger or a stutter.

### HotStuff-2

`Inv` says of every message (`MessageInv`) that a vote signs the view and the node it names,
that a PREPARE carries a certificate for its own view and node, that a second vote was given
on one that verifies, and that a certificate in it is backed; and of every node (`ListInv`)
that its lists hold votes that were sent, wishes under their view, and that the
certificates it keeps are backed. A share combines only with shares on the same content, so
a certificate that verifies has a quorum of votes that agree with it on the node, and on the
view up to the byte that is signed; at least one of the votes of a double
certificate was given on a single one, which has its own quorum. What fails to combine
yields a certificate that does not verify, and no handler takes it for more. The type
theorem covers the arithmetic of GenCommitBlkIndex and UpdateAfterCommit on the list of
locked blocks.

### PBFT

The type theorem is about all of `Spec`, view changes and checkpoints included. What it takes is
that the lists of GetSeq and VerifyOSet are read within their bounds whenever no node has
`panicked`, and that the ring of logs is indexed by a view modulo its length.

`NormalInv` is a conjunction over the nodes of
- `MessageInv`: view and sequence number of a message are one number; a leader proposes once in
  a view, a block whose height is the view and whose PreBlkHash is the digest of the proposal of
  the view before (`Precedes`); a commit names the digest of the proposal of its view;
- `RoundInv`: view, sequence number and height of a node are one number, and what it has logged
  for its view was sent. LogMsg files a message in the slot of the view the node is in, so the
  commits in it may be of a later view; the slots of later views are empty. Only the leader of a
  view that has not proposed waits, or has a proposal left in NEW_VIEW: by this the reply
  goroutine, the request loop and the handler never propose twice;
- `StoreInv`: a node has a file for each view it has left, the block of the proposal of
  that view, which a quorum had said is prepared.

The subtle case is the node that stores on commits of a later view, which were filed in its slot
and are counted without being compared (finding 10). Its block still has a quorum of commits: a
commit of view w > v comes from a node that has left v, which by `StoreInv` left it after a
quorum of commits for v (`ReplyNormal`). `NormalCaseCertified` and `NormalCaseConsistence` are
consequences. The files of a node are those below its view without a gap, so the ledgers are
prefixes of one list (`OrderedComparable`), linked by `Precedes` (`OrderedFiles`), and a step of
a node that leaves a view appends to its own.

### Joining and leaving

That all nodes agree on the members is false while joins and exits overlap (findings 23-28), so
what is proved is what holds in every overlap, with any number of joins, exits and nodes that
are asked to leave, none of the schedules' conditions, and the consensus running beside them.
`TypeOK` needs that a view never counts zero nodes: NextView and RefreshLeader take the leader
modulo that number. The count is the length of NodesTable, so `Inv` says that a node is always
in its own table (`TableInv`). HandleExit deletes whoever NewNode names, and the second half of
the handler reads NewNode again; that it is never the node itself follows from the messages
(`NetInv`: no node tells itself that it leaves). This in turn rests on the channels: StartBCNodeExit
skips its own name, not its own channel, so the map a node uses must have that channel
under no other name (`ChannelInv`). HandleJoin enters whatever channel NewNode holds, and when two
joins overlap it is the wrong one (finding 27): but it is of a node that joined, never of one that
shares the first map, and not the reader's own (`NewNodeInv`, `NetInv`).

The steps of the consensus are treated alike (`ConsStep`: they leave members and counts alone,
and at most block the loop), and so are the handlers that leave the servers alone (`StepInv`).
HandleSync needs that GetHighQCIndex, a recursive function over the list, ends at an index of
it whatever it compares (`HighIndex`, by the least index where it would not); OriServerExit that
a slice without one entry has all the others (`RemoveServer`).

### Only model-checked

- Liveness (`RoundCompletes`, `GenesisDecided` of basic HotStuff, `CallsReturn`,
  `MembershipSettles`, `CalmLeaderWaits`): the prover has no rules for fairness and ENABLED.
- `GenesisDecided` of `MCPBFT`, `FirstViewEntered`, `GenesisStored`: what must have happened
  when nothing is left to deliver; they hold of the schedules of the runs.
- `ImplementsLedger` of HotStuff-2, `DecidedNotPassedOver`, `LockedNotCommitted`,
  `MembersAgree`, `NoneBlocked` and the other promises of `NodeManager`: false of `Spec` as a
  whole, as the findings show, and true of the schedules checked. HotStuff-2 breaks them without
  an expiry (finding 15), so there is no normal case to prove them for. A theorem about a
  schedule would say little more than the run.
- `StoredCertified` and `ImplementsLedger` of PBFT across checkpoints and view changes, and
  `ImplementsLedger` of chained HotStuff across view changes, for the same reason: the runs have
  both, the theorems stop at the first of them.

## Not modelled

- StartViewChange as separate assignments against a handler in progress: the timer's
  goroutine takes no lock. A handler and a callback are one step each in the protocol
  modules; `ViewTimer` has the race of these goroutines on the timer itself.
- The bounds of the channels (SendChan of 128, node channels of 1024). The channels are
  unbounded; the state in which all are full has thousands of messages in flight.
- Joins and exits under PBFT, HotStuff-2 and chained HotStuff: their AddSyncInfo, SyncInfo,
  restart, ClearCurrentRound and FixLeader mirror those of basic HotStuff. A join that meets a
  view timer: a join takes milliseconds, a timer five seconds.
- Client and sockets (I/O without protocol state), the merkle root (a pure function that
  no protocol reads back), SM2 and SM4 (library calls), encoding, configuration, logging,
  the EVM stub, the DCS score, the commands.
- The legacy test node of `orderer/factory`, which drives the same cores for tests, and
  ForwardChan, which only it sets.
- The length of commands: GenProposal cuts them, HandleNewView does not.
