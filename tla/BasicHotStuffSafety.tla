------------------------- MODULE BasicHotStuffSafety -------------------------
(***************************************************************************)
(* The safety of BasicHotStuff: Inv is inductive, and OneNodePerView,      *)
(* LockCoversVotes, LocksMonotonic and LockSafety follow from it.          *)
(*                                                                         *)
(* A step changes the state of one node and adds to what was said, so a    *)
(* step keeps Inv if it keeps the parts of Inv at that node (LocalStep).   *)
(***************************************************************************)
EXTENDS BasicHotStuffProofs

\* The state of node q that Inv speaks about is unchanged, except for r
Local(r) ==
    \A q \in Server : q # r =>
        /\ phase'[q] = phase[q] /\ view'[q] = view[q] /\ hsNode'[q] = hsNode[q]
        /\ prepareQC'[q] = prepareQC[q] /\ lockedQC'[q] = lockedQC[q]
        /\ newViewMsgs'[q] = newViewMsgs[q] /\ prepareVotes'[q] = prepareVotes[q]
        /\ preCommitVotes'[q] = preCommitVotes[q] /\ commitVotes'[q] = commitVotes[q]
        /\ Sent(q)' = Sent(q)

\* QuorumOf, as a function of the view and the node of the leader
Quorate(votes, v, n) ==
    /\ Cardinality(votes) >= QuorumSize
    /\ \A x \in votes : x.view % 256 = v % 256 /\ x.node = n
    /\ Cardinality({x.src : x \in votes}) >= QuorumSize

----------------------------------------------------------------------------
(* What was sent *)

\* SendSerMsg adds one message to what r has sent.
LEMMA SendSent ==
    ASSUME TypeOK, NEW r \in Server, NEW m \in Msg, Send(r, m)
    PROVE  /\ Sent(r)' = Sent(r) \cup {m}
           /\ \A q \in Server : q # r => Sent(q)' = Sent(q)
<1>1. sent \in [Server -> Seq(Msg)] /\ sent' = [sent EXCEPT ![r] = Append(sent[r], m)]
  BY DEF TypeOK, Send
<1>2. Sent(r)' = Sent(r) \cup {m}
  <2>1. sent'[r] = Append(sent[r], m) /\ sent[r] \in Seq(Msg)
    BY <1>1
  <2>2. /\ Len(sent[r]) \in Nat
        /\ DOMAIN sent[r] = 1 .. Len(sent[r])
        /\ DOMAIN sent'[r] = 1 .. Len(sent[r]) + 1
        /\ \A i \in 1 .. Len(sent[r]) : sent'[r][i] = sent[r][i]
        /\ sent'[r][Len(sent[r]) + 1] = m
    BY <2>1
  <2>3. ASSUME NEW x \in Sent(r)' PROVE x \in Sent(r) \cup {m}
    <3>1. PICK i \in DOMAIN sent'[r] : x = sent'[r][i]
      BY <2>3 DEF Sent
    <3>2. CASE i = Len(sent[r]) + 1
      BY <2>2, <3>1, <3>2
    <3>3. CASE i \in 1 .. Len(sent[r])
      BY <2>2, <3>1, <3>3 DEF Sent
    <3> QED  BY <2>2, <3>2, <3>3
  <2>4. ASSUME NEW x \in Sent(r) PROVE x \in Sent(r)'
    <3>1. PICK i \in DOMAIN sent[r] : x = sent[r][i]
      BY <2>4 DEF Sent
    <3> QED  BY <2>2, <3>1 DEF Sent
  <2>5. m \in Sent(r)'
    BY <2>2 DEF Sent
  <2> QED  BY <2>3, <2>4, <2>5
<1>3. \A q \in Server : q # r => Sent(q)' = Sent(q)
  BY <1>1 DEF Sent
<1> QED  BY <1>2, <1>3

\* A message that was sent is a message of one node.
LEMMA SaidBy ==
    ASSUME TypeOK
    PROVE  /\ \A s \in Server : Sent(s) \subseteq Msg /\ Sent(s) \subseteq Messages
           /\ \A m \in Messages : \E s \in Server : m \in Sent(s)
           /\ \A t : \A m \in Said(t) : m \in Messages /\ m.type = t
           /\ Messages \subseteq Msg
<1>1. ASSUME NEW s \in Server PROVE Sent(s) \subseteq Msg
  <2>1. sent[s] \in Seq(Msg)
    BY DEF TypeOK
  <2> QED  BY <2>1 DEF Sent
<1>2. /\ \A s \in Server : Sent(s) \subseteq Messages
      /\ \A m \in Messages : \E s \in Server : m \in Sent(s)
  BY DEF Messages
<1> QED  BY <1>1, <1>2 DEF Said

\* Messages are never taken back, so what was said stays said.
LEMMA SaidGrows ==
    ASSUME \A s \in Server : Sent(s) \subseteq Sent(s)'
    PROVE  \A t : Said(t) \subseteq Said(t)'
<1>1. Messages \subseteq Messages'
  BY DEF Messages
<1> QED  BY <1>1 DEF Said

\* The nodes are finitely many, and a quorum is not empty.
LEMMA ServerFinite ==
    /\ IsFiniteSet(Server) /\ Cardinality(Server) = N
    /\ QuorumSize \in Nat /\ QuorumSize > 0
<1>1. N \in Nat /\ N > 0 /\ 0 \in Int /\ N - 1 \in Int
  BY NAssumption
<1>2. IsFiniteSet(0 .. N - 1) /\ Cardinality(0 .. N - 1) = N
  BY <1>1, FS_Interval
<1>3. (N - 1) \div 3 \in Nat
  BY <1>1
<1> QED  BY <1>2, <1>3 DEF Server, QuorumSize

\* A certificate stays backed by the votes that were sent for it.
LEMMA CertifiedGrows ==
    ASSUME \A s \in Server : Sent(s) \subseteq Sent(s)',
           NEW t, NEW v, NEW n, Certified(t, v, n)
    PROVE  Certified(t, v, n)'
<1>1. Voters(t, v, n) \subseteq Voters(t, v, n)' /\ Voters(t, v, n)' \subseteq Server
  BY DEF Voters
<1>2. IsFiniteSet(Voters(t, v, n)')
  BY <1>1, ServerFinite, FS_Subset
<1>3. /\ Cardinality(Voters(t, v, n)) <= Cardinality(Voters(t, v, n)')
      /\ IsFiniteSet(Voters(t, v, n))
  BY <1>1, <1>2, FS_Subset
<1>4. Cardinality(Voters(t, v, n)) \in Nat /\ Cardinality(Voters(t, v, n)') \in Nat
  BY <1>2, <1>3, FS_CardinalityType
<1> QED  BY <1>3, <1>4, ServerFinite DEF Certified

\* A certificate has a voter.
LEMMA CertifiedVoter ==
    ASSUME NEW t, NEW v, NEW n, Certified(t, v, n)
    PROVE  \E s \in Server : \E m \in Sent(s) :
               m.type = VoteFor(t) /\ m.view = v /\ m.node = n
<1>1. Voters(t, v, n) # {}
  BY ServerFinite, FS_EmptySet DEF Certified
<1> QED  BY <1>1 DEF Voters

\* Two quorums of voters share a node: what NAssumption is for.
LEMMA QuorumsMeet ==
    ASSUME NEW t1, NEW v1, NEW n1, Certified(t1, v1, n1),
           NEW t2, NEW v2, NEW n2, Certified(t2, v2, n2)
    PROVE  \E s \in Server : s \in Voters(t1, v1, n1) /\ s \in Voters(t2, v2, n2)
<1> DEFINE S == Voters(t1, v1, n1)
           T == Voters(t2, v2, n2)
<1>1. S \subseteq Server /\ T \subseteq Server
  BY DEF Voters
<1>2. IsFiniteSet(S) /\ IsFiniteSet(T)
  BY <1>1, ServerFinite, FS_Subset
<1>3. Cardinality(S) \in Nat /\ Cardinality(T) \in Nat
  BY <1>2, FS_CardinalityType
<1>4. Cardinality(S) >= QuorumSize /\ Cardinality(T) >= QuorumSize
  BY DEF Certified
<1> HIDE DEF S, T
<1>5. Cardinality(S) + Cardinality(T) > Cardinality(Server)
  BY <1>3, <1>4, ServerFinite, NAssumption
<1>6. S \cap T # {}
  BY <1>1, <1>5, ServerFinite, FS_MajoritiesIntersect
<1> QED  BY <1>1, <1>6 DEF S, T

\* Every vote is for a proposal of its view, and so is every certificate that
\* verifies: the view of a certificate is the one its node was proposed in.
LEMMA CertifiedProposal ==
    ASSUME TypeOK, Inv, NEW t, NEW v, NEW n, Certified(t, v, n)
    PROVE  \E p \in Said("PREPARE") : p.view = v /\ p.node = n /\ n.cur.view = v
<1>0. PICK s \in Server : \E m \in Sent(s) :
          m.type = VoteFor(t) /\ m.view = v /\ m.node = n
  BY CertifiedVoter
<1>1. PICK m \in Sent(s) : m.type = VoteFor(t) /\ m.view = v /\ m.node = n
  BY <1>0
<1>2. m.type \in VoteType
  <2>1. m.type \in MsgType
    BY SaidBy DEF Msg
  <2> QED  BY <1>1, <2>1 DEF VoteFor, MsgType, VoteType
<1>3. PICK p \in Said("PREPARE") : Justifies(s, m, p)
  BY <1>2 DEF Inv, VoteInv
<1>4. p.view = v /\ p.node = n
  BY <1>1, <1>3 DEF Justifies
<1>5. PICK q \in Server : p \in Sent(q) /\ p.type = "PREPARE"
  BY SaidBy
<1>6. p.node.cur.view = p.view
  BY <1>5 DEF Inv, ProposalInv, WellFormed
<1> QED  BY <1>4, <1>6

\* There is one proposal per view.
LEMMA OneProposal ==
    ASSUME TypeOK, Inv, NEW p \in Said("PREPARE"), NEW q \in Said("PREPARE"),
           p.view = q.view
    PROVE  p = q
<1>1. PICK s \in Server : p \in Sent(s) /\ p.type = "PREPARE"
  BY SaidBy
<1>2. PICK u \in Server : q \in Sent(u) /\ q.type = "PREPARE"
  BY SaidBy
<1>3. s = Leader(p.view) /\ u = Leader(q.view)
  BY <1>1, <1>2 DEF Inv, ProposalInv
<1> QED  BY <1>1, <1>2, <1>3 DEF Inv, ProposalInv

\* A step of node r keeps Inv if it keeps it at r and takes no message back.
LEMMA LocalStep ==
    ASSUME TypeOK, Inv, NEW r \in Server, Local(r), Sent(r) \subseteq Sent(r)',
           SentInv(r)', ProposalInv(r)', VoteInv(r)', QCInv(r)', ListInv(r)',
           LeaderInv(r)', LockInv(r)'
    PROVE  Inv'
<1>0. \A s \in Server : Sent(s) \subseteq Sent(s)'
  BY DEF Local
<1> SUFFICES ASSUME NEW q \in Server, q # r
             PROVE  /\ SentInv(q)' /\ ProposalInv(q)' /\ VoteInv(q)' /\ QCInv(q)'
                    /\ ListInv(q)' /\ LeaderInv(q)' /\ LockInv(q)'
  BY DEF Inv
<1>1. /\ phase'[q] = phase[q] /\ view'[q] = view[q] /\ hsNode'[q] = hsNode[q]
      /\ prepareQC'[q] = prepareQC[q] /\ lockedQC'[q] = lockedQC[q]
      /\ newViewMsgs'[q] = newViewMsgs[q] /\ prepareVotes'[q] = prepareVotes[q]
      /\ preCommitVotes'[q] = preCommitVotes[q] /\ commitVotes'[q] = commitVotes[q]
      /\ Sent(q)' = Sent(q)
  BY DEF Local
<1>2. SentInv(q)'
  BY <1>1 DEF Inv, SentInv
<1>3. ProposalInv(q)'
  BY <1>1 DEF Inv, ProposalInv
<1>4. VoteInv(q)'
  BY <1>0, <1>1, SaidGrows DEF Inv, VoteInv, Justifies
<1>5. QCInv(q)'
  <2>1. \A qc : Backed(qc) => Backed(qc)'
    BY <1>0, CertifiedGrows DEF Backed, ThresholdSignVerify
  <2> QED  BY <1>1, <2>1 DEF Inv, QCInv
<1>6. ListInv(q)'
  BY <1>0, <1>1, SaidGrows DEF Inv, ListInv, Collected, ThresholdSignVerify
<1>7. LeaderInv(q)'
  <2>1. /\ QuorumOf(q, prepareVotes[q])' <=> QuorumOf(q, prepareVotes[q])
        /\ QuorumOf(q, preCommitVotes[q])' <=> QuorumOf(q, preCommitVotes[q])
    <3>1. /\ QuorumOf(q, prepareVotes[q])' <=> Quorate(prepareVotes'[q], view'[q], hsNode'[q])
          /\ QuorumOf(q, preCommitVotes[q])' <=> Quorate(preCommitVotes'[q], view'[q], hsNode'[q])
      BY DEF QuorumOf, CanCombine, Quorate
    <3>2. /\ QuorumOf(q, prepareVotes[q]) <=> Quorate(prepareVotes[q], view[q], hsNode[q])
          /\ QuorumOf(q, preCommitVotes[q]) <=> Quorate(preCommitVotes[q], view[q], hsNode[q])
      BY DEF QuorumOf, CanCombine, Quorate
    <3> QED  BY <1>1, <3>1, <3>2
  <2>2. IsLeader(q)' <=> IsLeader(q)
    BY <1>1, Zenon DEF IsLeader
  <2> QED  BY <1>1, <2>1, <2>2 DEF Inv, LeaderInv
<1>8. LockInv(q)'
  BY <1>1 DEF Inv, LockInv, ThresholdSignVerify
<1> QED  BY <1>2, <1>3, <1>4, <1>5, <1>6, <1>7, <1>8

----------------------------------------------------------------------------
(* Votes and quorums *)

\* A vote is for the proposal of its view.
LEMMA VoteProposal ==
    ASSUME TypeOK, Inv, NEW t \in VoteType, NEW m \in Said(t)
    PROVE  /\ m.node.cur.view = m.view
           /\ \E p \in Said("PREPARE") : p.view = m.view /\ p.node = m.node
<1>1. PICK s \in Server : m \in Sent(s) /\ m.type = t
  BY SaidBy
<1>2. PICK p \in Said("PREPARE") : Justifies(s, m, p)
  BY <1>1 DEF Inv, VoteInv
<1>3. p.view = m.view /\ p.node = m.node
  BY <1>2 DEF Justifies
<1>4. PICK q \in Server : p \in Sent(q) /\ p.type = "PREPARE"
  BY SaidBy
<1>5. p.node.cur.view = p.view
  BY <1>4 DEF Inv, ProposalInv, WellFormed
<1> QED  BY <1>3, <1>5

\* The votes that combine are all of the leader's view and for its node, and
\* they come from a quorum, even though the signature keeps one byte of the view.
LEMMA QuorateVotes ==
    ASSUME TypeOK, Inv, NEW t \in {"PREPARE", "PRE_COMMIT", "COMMIT"},
           NEW votes \in SUBSET Said(VoteFor(t)), NEW v \in Nat, NEW n, n.cur.view = v,
           Quorate(votes, v, n)
    PROVE  /\ \A m \in votes : m.view = v /\ m.node = n
           /\ votes # {}
           /\ Certified(t, v, n)
<1>0. VoteFor(t) \in VoteType
  BY DEF VoteFor, VoteType
<1>1. \A m \in votes : m.view = v /\ m.node = n
  BY <1>0, VoteProposal DEF Quorate
<1>2. votes # {}
  <2> SUFFICES ASSUME votes = {} PROVE FALSE
    OBVIOUS
  <2>1. Cardinality({}) >= QuorumSize
    BY DEF Quorate
  <2> QED  BY <2>1, ServerFinite, FS_EmptySet
<1>3. Certified(t, v, n)
  <2> DEFINE S == {x.src : x \in votes}
  <2>1. S \subseteq Voters(t, v, n)
    <3> SUFFICES ASSUME NEW m \in votes
                 PROVE  m.src \in Voters(t, v, n)
      OBVIOUS
    <3>1. PICK s \in Server : m \in Sent(s) /\ m.type = VoteFor(t)
      BY SaidBy
    <3>2. m.src = s
      BY <3>1 DEF Inv, SentInv
    <3> QED  BY <1>1, <3>1, <3>2 DEF Voters
  <2>2. Voters(t, v, n) \subseteq Server
    BY DEF Voters
  <2>3. IsFiniteSet(Voters(t, v, n))
    BY <2>2, ServerFinite, FS_Subset
  <2>4. IsFiniteSet(S) /\ Cardinality(S) <= Cardinality(Voters(t, v, n))
    BY <2>1, <2>3, FS_Subset
  <2>5. Cardinality(S) \in Nat /\ Cardinality(Voters(t, v, n)) \in Nat
    BY <2>3, <2>4, FS_CardinalityType
  <2>6. Cardinality(S) >= QuorumSize
    BY DEF Quorate
  <2> QED  BY <2>4, <2>5, <2>6, ServerFinite DEF Certified
<1> QED  BY <1>1, <1>2, <1>3

\* The node a leader past WAITING works on was made in its view.
LEMMA LeaderNode ==
    ASSUME TypeOK, Inv, NEW r \in Server, IsLeader(r),
           phase[r] \in {"PREPARE", "PRE_COMMIT", "COMMIT"}
    PROVE  hsNode[r].cur.view = view[r]
<1>1. PICK p \in Sent(r) : p.type = "PREPARE" /\ p.view = view[r] /\ p.node = hsNode[r]
  BY DEF Inv, LeaderInv
<1> QED  BY <1>1 DEF Inv, ProposalInv, WellFormed

\* What a leader combines is backed by a quorum of votes. If the votes did not
\* combine before m came, then m is a vote of this view for the leader's node.
LEMMA Combined ==
    ASSUME TypeOK, Inv, NEW r \in Server, IsLeader(r),
           NEW t \in {"PREPARE", "PRE_COMMIT", "COMMIT"}, phase[r] = t,
           NEW old \in SUBSET Said(VoteFor(t)), NEW m \in Said(VoteFor(t)),
           QuorumOf(r, AddVote(r, old, m))
    PROVE  /\ Backed(MkQC(t, m.view, m.node, CombineSign(r)))
           /\ ~QuorumOf(r, old) =>
                /\ m.view = view[r] /\ m.node = hsNode[r]
                /\ ThresholdSignVerify(MkQC(t, m.view, m.node, CombineSign(r)))
<1> DEFINE votes == AddVote(r, old, m)
           qc == MkQC(t, m.view, m.node, CombineSign(r))
<1>1. votes \in SUBSET Said(VoteFor(t))
  BY DEF AddVote
<1>2. Quorate(votes, view[r], hsNode[r])
  BY DEF QuorumOf, CanCombine, Quorate
<1>3. hsNode[r].cur.view = view[r] /\ view[r] \in Nat
  BY LeaderNode, SMTT(60) DEF TypeOK
<1>4. Certified(t, view[r], hsNode[r]) /\ \A x \in votes : x.view = view[r] /\ x.node = hsNode[r]
  <2> HIDE DEF votes
  <2> QED  BY <1>1, <1>2, <1>3, QuorateVotes
<1>5. m.node.cur.view = m.view
  BY VoteProposal DEF VoteFor, VoteType
<1>6. ThresholdSignVerify(qc) => m.node = hsNode[r]
  BY DEF ThresholdSignVerify, MkQC, CombineSign, SignedContent
<1>7. Backed(qc)
  BY <1>3, <1>4, <1>5, <1>6 DEF Backed, MkQC
<1>8. ASSUME ~QuorumOf(r, old) PROVE m.view = view[r] /\ m.node = hsNode[r]
  <2>1. m \in votes
    BY <1>8 DEF AddVote
  <2> QED  BY <1>4, <2>1
<1>9. ASSUME ~QuorumOf(r, old) PROVE ThresholdSignVerify(qc)
  BY <1>8, <1>9 DEF ThresholdSignVerify, MkQC, CombineSign, SignedContent
<1> QED  BY <1>7, <1>8, <1>9

----------------------------------------------------------------------------
(* What steps of one kind keep of Inv at the node that takes them *)

\* A node that sends nothing and keeps its view, node and certificates.
LEMMA SilentStep ==
    ASSUME TypeOK, Inv, NEW r \in Server, Local(r), Sent(r)' = Sent(r),
           view'[r] = view[r], hsNode'[r] = hsNode[r],
           prepareQC'[r] = prepareQC[r], lockedQC'[r] = lockedQC[r],
           \/ phase'[r] = phase[r]
           \/ phase[r] \in {"NEW_VIEW", "WAITING"} /\ phase'[r] = "WAITING",
           \A m \in newViewMsgs'[r] : m \in newViewMsgs[r] \/ Collected(r, m),
           prepareVotes'[r] \subseteq Said("PREPARE_VOTE"),
           commitVotes'[r] \subseteq Said("COMMIT_VOTE"),
           \A m \in preCommitVotes'[r] :
               \/ m \in preCommitVotes[r]
               \/ /\ m \in Said("PRE_COMMIT_VOTE") /\ m.view = view[r]
                  /\ phase[r] = "PRE_COMMIT",
           phase'[r] = "PREPARE" /\ IsLeader(r) =>
               ~Quorate(prepareVotes'[r], view[r], hsNode[r]),
           phase'[r] = "PRE_COMMIT" /\ IsLeader(r) =>
               ~Quorate(preCommitVotes'[r], view[r], hsNode[r])
    PROVE  Inv'
<1>0. \A s \in Server : Sent(s) \subseteq Sent(s)'
  BY DEF Local
<1>1. SentInv(r)'
  BY DEF Inv, SentInv
<1>2. ProposalInv(r)'
  BY DEF Inv, ProposalInv
<1>3. VoteInv(r)'
  BY <1>0, SaidGrows DEF Inv, VoteInv, Justifies
<1>4. QCInv(r)'
  <2>1. \A qc : Backed(qc) => Backed(qc)'
    BY <1>0, CertifiedGrows DEF Backed, ThresholdSignVerify
  <2> QED  BY <2>1 DEF Inv, QCInv
<1>5. ListInv(r)'
  <2>1. view[r] \in Nat
    BY DEF TypeOK
  <2> QED  BY <1>0, <2>1, SaidGrows DEF Inv, ListInv, Collected, ThresholdSignVerify
<1>6. LeaderInv(r)'
  <2>1. IsLeader(r)' <=> IsLeader(r)
    BY Zenon DEF IsLeader
  <2>2. /\ QuorumOf(r, prepareVotes[r])' <=> Quorate(prepareVotes'[r], view'[r], hsNode'[r])
        /\ QuorumOf(r, preCommitVotes[r])' <=> Quorate(preCommitVotes'[r], view'[r], hsNode'[r])
    BY DEF QuorumOf, CanCombine, Quorate
  <2> QED  BY <2>1, <2>2 DEF Inv, LeaderInv
<1>7. LockInv(r)'
  BY DEF Inv, LockInv, ThresholdSignVerify
<1> QED  BY <1>0, <1>1, <1>2, <1>3, <1>4, <1>5, <1>6, <1>7, LocalStep

\* A node that sends one more message x.
LEMMA SendStep ==
    ASSUME TypeOK, Inv, NEW r \in Server, Local(r), NEW x \in Msg,
           Sent(r)' = Sent(r) \cup {x}, view'[r] \in Nat, view'[r] >= view[r],
           x.src = r, 0 <= x.view, x.view <= view'[r],
           x.type = "NEW_VIEW" => x.justify.view < x.view,
           Backed(x.justify),
           x.type \in VoteType => \E p \in Said("PREPARE") : Justifies(r, x, p),
           x.type = "COMMIT_VOTE" => x.view = view[r]
    PROVE  /\ SentInv(r)' /\ VoteInv(r)'
           /\ \A m \in Sent(r)' : Backed(m.justify)'
           /\ \A t : Said(t) \subseteq Said(t)'
           /\ \A qc : Backed(qc) => Backed(qc)'
<1>0. \A s \in Server : Sent(s) \subseteq Sent(s)'
  BY DEF Local
<1>1. \A t : Said(t) \subseteq Said(t)'
  BY <1>0, SaidGrows
<1>2. \A qc : Backed(qc) => Backed(qc)'
  BY <1>0, CertifiedGrows DEF Backed, ThresholdSignVerify
<1>3. view[r] \in Nat
  BY DEF TypeOK
<1>4. \A m \in Sent(r) : m.view \in Int
  BY SaidBy DEF Msg
<1>5. SentInv(r)'
  BY <1>3, <1>4 DEF Inv, SentInv
<1>6. VoteInv(r)'
  <2> SUFFICES ASSUME NEW m \in Sent(r)', m.type \in VoteType
               PROVE  \E p \in Said("PREPARE")' : Justifies(r, m, p)'
    BY DEF VoteInv
  <2>1. PICK p \in Said("PREPARE") : Justifies(r, m, p)
    BY DEF Inv, VoteInv
  <2>2. m.type = "PREPARE_VOTE" /\ x.type = "COMMIT_VOTE" => ~(x.view < m.view)
    BY <1>3, <1>4 DEF Inv, SentInv
  <2>3. Justifies(r, m, p)'
    BY <2>1, <2>2 DEF Justifies
  <2> QED  BY <1>1, <2>3
<1>7. \A m \in Sent(r)' : Backed(m.justify)'
  BY <1>2 DEF Inv, QCInv
<1> QED  BY <1>1, <1>2, <1>5, <1>6, <1>7

\* A message that is no proposal leaves the proposals of the sender alone.
LEMMA ProposalsKept ==
    ASSUME TypeOK, Inv, NEW r \in Server, NEW x \in Msg, x.type # "PREPARE",
           Sent(r)' = Sent(r) \cup {x}, view'[r] \in Nat,
           \/ view'[r] > view[r]
           \/ /\ view'[r] = view[r] /\ phase'[r] \notin {"NEW_VIEW", "WAITING"}
              /\ IsLeader(r) => hsNode'[r] = hsNode[r]
    PROVE  ProposalInv(r)'
<1>1. view[r] \in Nat /\ \A p \in Sent(r) : p.view \in Int /\ p.view <= view[r]
  <2>1. \A p \in Sent(r) : p.view \in Int
    BY SaidBy DEF Msg
  <2> QED  BY <2>1 DEF Inv, SentInv, TypeOK
<1> SUFFICES ASSUME NEW p \in Sent(r), p.type = "PREPARE"
             PROVE  /\ r = Leader(p.view)
                    /\ WellFormed(p)
                    /\ p.view = view'[r] =>
                          phase'[r] \notin {"NEW_VIEW", "WAITING"} /\ hsNode'[r] = p.node
                    /\ \A q \in Sent(r) : q.type = "PREPARE" /\ q.view = p.view => q = p
  BY DEF ProposalInv, WellFormed, ThresholdSignVerify
<1>2. r = Leader(p.view) /\ WellFormed(p)
  BY DEF Inv, ProposalInv
<1>3. \A q \in Sent(r) : q.type = "PREPARE" /\ q.view = p.view => q = p
  BY DEF Inv, ProposalInv
<1>4. ASSUME p.view = view'[r]
      PROVE  phase'[r] \notin {"NEW_VIEW", "WAITING"} /\ hsNode'[r] = p.node
  <2>1. view'[r] = view[r] /\ p.view = view[r]
    BY <1>1, <1>4
  <2>2. IsLeader(r)
    BY <1>2, <2>1 DEF IsLeader
  <2> QED  BY <2>1, <2>2 DEF Inv, ProposalInv
<1> QED  BY <1>2, <1>3, <1>4

\* The lists stay as they should be in a later view, and in a view in which a
\* node does not fall back behind PRE_COMMIT.
LEMMA ListsKept ==
    ASSUME TypeOK, Inv, NEW r \in Server, \A t : Said(t) \subseteq Said(t)',
           view'[r] \in Nat,
           \A m \in newViewMsgs'[r] : m \in newViewMsgs[r] \/ Collected(r, m),
           prepareVotes'[r] \subseteq Said("PREPARE_VOTE"),
           commitVotes'[r] \subseteq Said("COMMIT_VOTE"),
           \A m \in preCommitVotes'[r] :
               \/ m \in preCommitVotes[r]
               \/ m \in Said("PRE_COMMIT_VOTE") /\ m.view = view[r] /\ phase'[r] = "COMMIT",
           \/ view'[r] > view[r]
           \/ /\ view'[r] = view[r]
              /\ \/ phase'[r] \in {"PRE_COMMIT", "COMMIT", "DECIDE"}
                 \/ phase[r] \in {"NEW_VIEW", "WAITING", "PREPARE"}
    PROVE  ListInv(r)'
<1>1. view[r] \in Nat
  BY DEF TypeOK
<1>2. \A m \in newViewMsgs'[r] : Collected(r, m)'
  <2>1. \A m \in newViewMsgs'[r] : Collected(r, m)
    BY DEF Inv, ListInv
  <2>2. \A m \in Said("NEW_VIEW") : m.view \in Int
    BY SaidBy DEF Msg
  <2> QED  BY <1>1, <2>1, <2>2 DEF Collected, ThresholdSignVerify
<1>3. ASSUME NEW m \in preCommitVotes'[r]
      PROVE  /\ m \in Said("PRE_COMMIT_VOTE")' /\ m.view <= view'[r]
             /\ phase'[r] \in {"NEW_VIEW", "WAITING", "PREPARE"} => m.view < view'[r]
  <2>1. /\ m \in Said("PRE_COMMIT_VOTE") /\ m.view <= view[r]
        /\ \/ phase'[r] = "COMMIT"
           \/ phase[r] \in {"NEW_VIEW", "WAITING", "PREPARE"} => m.view < view[r]
    BY <1>1, <1>3 DEF Inv, ListInv
  <2>2. m.view \in Int
    BY <2>1, SaidBy DEF Msg
  <2> QED  BY <1>1, <2>1, <2>2
<1> QED  BY <1>2, <1>3 DEF ListInv

----------------------------------------------------------------------------
(* The actions *)

\* The proposal of a leader in NEW_VIEW or WAITING, made from new-view messages
\* it has collected, is the first of its view (GenProposal, HandleNewView).
LEMMA ProposeStep ==
    ASSUME TypeOK, Inv, NEW r \in Server, NEW c \in Cmd, NEW msgs \in SUBSET Msg,
           Propose(r, c, msgs), IsLeader(r), phase[r] \in {"NEW_VIEW", "WAITING"},
           \A m \in msgs : Collected(r, m),
           newViewMsgs' = [newViewMsgs EXCEPT ![r] = msgs],
           UNCHANGED <<view, qcVars, voteVars>>
    PROVE  Inv'
<1>1. PICK h \in msgs :
        /\ phase' = [phase EXCEPT ![r] = "PREPARE"]
        /\ hsNode' = [hsNode EXCEPT ![r] = CreateLeaf(r, c, h.justify)]
        /\ Send(r, [type |-> "PREPARE", view |-> view[r], src |-> r,
                    dst |-> Server, node |-> CreateLeaf(r, c, h.justify),
                    justify |-> h.justify, cmd |-> c, block |-> NewBlock(r, c)])
  BY DEF Propose
<1> DEFINE n == CreateLeaf(r, c, h.justify)
           x == [type |-> "PREPARE", view |-> view[r], src |-> r,
                 dst |-> Server, node |-> n,
                 justify |-> h.justify, cmd |-> c, block |-> NewBlock(r, c)]
<1>2. h.justify \in QC /\ view[r] \in Nat /\ h.justify.view \in Int
  BY DEF Msg, TypeOK, QC
<1>3. n \in HsNode /\ NewBlock(r, c) \in Block
  BY <1>2, NewBlockType
<1>4. n.cur.view = view[r] /\ n.parent = h.justify.node.cur
  BY ViewByte DEF CreateLeaf, HashOf, NewBlock
<1>5. x \in Msg
  BY <1>2, <1>3 DEF Msg, MsgType
<1>6. /\ x.type = "PREPARE" /\ x.view = view[r] /\ x.src = r /\ x.node = n
      /\ x.justify = h.justify
  OBVIOUS
<1>7. Send(r, x)
  BY <1>1
<1> HIDE DEF n, x
<1>8. Sent(r)' = Sent(r) \cup {x} /\ \A q \in Server : q # r => Sent(q)' = Sent(q)
  BY <1>5, <1>7, SendSent
<1>9. /\ phase'[r] = "PREPARE" /\ view'[r] = view[r] /\ hsNode'[r] = n
      /\ prepareQC'[r] = prepareQC[r] /\ lockedQC'[r] = lockedQC[r]
      /\ newViewMsgs'[r] = msgs /\ prepareVotes'[r] = prepareVotes[r]
      /\ preCommitVotes'[r] = preCommitVotes[r] /\ commitVotes'[r] = commitVotes[r]
  BY <1>1 DEF n, TypeOK, qcVars, voteVars
<1>10. Local(r)
  BY <1>1, <1>8 DEF Local, TypeOK, qcVars, voteVars
<1>11. \A p \in Said("PREPARE") : p.view # view[r]
  <2> SUFFICES ASSUME NEW p \in Said("PREPARE"), p.view = view[r] PROVE FALSE
    OBVIOUS
  <2>1. PICK s \in Server : p \in Sent(s) /\ p.type = "PREPARE"
    BY SaidBy
  <2>2. s = r
    BY <2>1 DEF Inv, ProposalInv, IsLeader
  <2> QED  BY <2>1, <2>2 DEF Inv, ProposalInv
<1>12. Backed(h.justify) /\ WellFormed(x)
  <2>1. CASE h = DummyNewView
    <3>1. h.justify = NilQC /\ h.justify.view = 0
      BY <2>1 DEF DummyNewView, MkMsg, NilQC, MkQC
    <3>2. ~ThresholdSignVerify(NilQC)
      BY DEF ThresholdSignVerify, NilQC, MkQC, NoSign, SignedContent
    <3> QED  BY <1>2, <1>4, <1>6, <3>1, <3>2 DEF Backed, WellFormed
  <2>2. CASE /\ h \in Said("NEW_VIEW") /\ h.view <= view[r]
             /\ h.justify.type = "PREPARE" /\ ThresholdSignVerify(h.justify)
    <3>1. PICK s \in Server : h \in Sent(s) /\ h.type = "NEW_VIEW"
      BY <2>2, SaidBy
    <3>2. h.justify.view < h.view /\ Backed(h.justify)
      BY <3>1 DEF Inv, SentInv, QCInv
    <3>3. h.view \in Int
      BY DEF Msg
    <3> QED  BY <1>2, <1>4, <1>6, <2>2, <3>2, <3>3 DEF WellFormed
  <2> QED  BY <2>1, <2>2 DEF Collected
<1>13. /\ SentInv(r)' /\ VoteInv(r)'
       /\ \A m \in Sent(r)' : Backed(m.justify)'
       /\ \A t : Said(t) \subseteq Said(t)'
       /\ \A qc : Backed(qc) => Backed(qc)'
  <2>1. x.type \notin VoteType /\ x.type # "NEW_VIEW" /\ x.type # "COMMIT_VOTE"
    BY <1>6 DEF VoteType
  <2> QED  BY <1>2, <1>5, <1>6, <1>8, <1>9, <1>10, <1>12, <2>1, SendStep
<1>14. ProposalInv(r)'
  <2>1. \A p \in Sent(r) : p.type = "PREPARE" => p.view # view[r] /\ p \in Said("PREPARE")
    BY <1>11, SaidBy DEF Said
  <2>2. ASSUME NEW p \in Sent(r)', p.type = "PREPARE"
        PROVE  /\ r = Leader(p.view)
               /\ WellFormed(p)
               /\ p.view = view'[r] =>
                     phase'[r] \notin {"NEW_VIEW", "WAITING"} /\ hsNode'[r] = p.node
               /\ \A q \in Sent(r)' : q.type = "PREPARE" /\ q.view = p.view => q = p
    <3>1. CASE p = x
      BY <1>6, <1>8, <1>9, <1>12, <2>1, <3>1 DEF IsLeader
    <3>2. CASE p \in Sent(r)
      BY <1>6, <1>8, <1>9, <2>1, <2>2, <3>2 DEF Inv, ProposalInv
    <3> QED  BY <1>8, <2>2, <3>1, <3>2
  <2> QED  BY <2>2 DEF ProposalInv, WellFormed, ThresholdSignVerify
<1>15. QCInv(r)'
  BY <1>9, <1>13 DEF Inv, QCInv
<1>16. ListInv(r)'
  <2>1. /\ prepareVotes[r] \subseteq Said("PREPARE_VOTE")
        /\ commitVotes[r] \subseteq Said("COMMIT_VOTE")
    BY DEF Inv, ListInv
  <2> QED  BY <1>2, <1>9, <1>13, <2>1, ListsKept
<1>17. LeaderInv(r)'
  <2>1. ~Quorate(prepareVotes[r], view[r], n)
    <3> SUFFICES ASSUME Quorate(prepareVotes[r], view[r], n) PROVE FALSE
      OBVIOUS
    <3>1. prepareVotes[r] \in SUBSET Said(VoteFor("PREPARE"))
      BY DEF Inv, ListInv, VoteFor
    <3>2. PICK m \in prepareVotes[r] : m.view = view[r]
      BY <1>2, <1>4, <3>1, QuorateVotes
    <3>3. m \in Said("PREPARE_VOTE") /\ "PREPARE_VOTE" \in VoteType
      BY DEF Inv, ListInv, VoteType
    <3> QED  BY <1>11, <3>2, <3>3, VoteProposal
  <2>2. QuorumOf(r, prepareVotes[r])' <=> Quorate(prepareVotes'[r], view'[r], hsNode'[r])
    BY DEF QuorumOf, CanCombine, Quorate
  <2>3. ~QuorumOf(r, prepareVotes[r])'
    BY <1>9, <2>1, <2>2
  <2>4. \E p \in Sent(r)' : p.type = "PREPARE" /\ p.view = view'[r] /\ p.node = hsNode'[r]
    BY <1>6, <1>8, <1>9
  <2> QED  BY <1>9, <2>3, <2>4 DEF LeaderInv
<1>18. LockInv(r)'
  <2>1. \A m \in Sent(r)' : m.type = "COMMIT_VOTE" => m \in Sent(r)
    BY <1>6, <1>8
  <2> QED  BY <1>9, <2>1 DEF Inv, LockInv, ThresholdSignVerify
<1> QED  BY <1>8, <1>10, <1>13, <1>14, <1>15, <1>16, <1>17, <1>18, LocalStep

\* A step that leaves alone all that Inv speaks about.
LEMMA FrameStep ==
    ASSUME TypeOK, Inv, NEW r \in Server,
           UNCHANGED <<phase, view, hsNode, qcVars, newViewMsgs, voteVars, sent>>
    PROVE  Inv'
<1>1. Local(r) /\ Sent(r)' = Sent(r)
  BY DEF Local, Sent, qcVars, voteVars
<1>2. /\ prepareVotes'[r] \subseteq Said("PREPARE_VOTE")
      /\ commitVotes'[r] \subseteq Said("COMMIT_VOTE")
  BY DEF Inv, ListInv, voteVars
<1>3. /\ phase[r] = "PREPARE" /\ IsLeader(r) => ~Quorate(prepareVotes[r], view[r], hsNode[r])
      /\ phase[r] = "PRE_COMMIT" /\ IsLeader(r) =>
            ~Quorate(preCommitVotes[r], view[r], hsNode[r])
  <2>1. /\ QuorumOf(r, prepareVotes[r]) <=> Quorate(prepareVotes[r], view[r], hsNode[r])
        /\ QuorumOf(r, preCommitVotes[r]) <=> Quorate(preCommitVotes[r], view[r], hsNode[r])
    BY DEF QuorumOf, CanCombine, Quorate
  <2> QED  BY <2>1 DEF Inv, LeaderInv
<1> QED  BY <1>1, <1>2, <1>3, SilentStep DEF qcVars, voteVars

\* The client and the request path.
LEMMA RequestStep ==
    ASSUME TypeOK, Inv, NEW r \in Server,
           HandleReq(r) \/ \E c \in ClientCmds : GenNewReq(r, c)
    PROVE  Inv'
<1>1. CASE \E c \in ClientCmds : GenNewReq(r, c)
  BY <1>1, FrameStep DEF GenNewReq, netVars
<1>2. CASE HandleReq(r) /\ requests[r] # NoCmd /\ IsLeader(r) /\ CanGenProposal(r)
  <2>1. requests[r] \in Cmd
    BY <1>2 DEF TypeOK
  <2>2. /\ Propose(r, requests[r], newViewMsgs[r])
        /\ UNCHANGED <<view, qcVars, newViewMsgs, voteVars>>
    BY <1>2 DEF HandleReq
  <2>3. newViewMsgs' = [newViewMsgs EXCEPT ![r] = newViewMsgs[r]]
        /\ newViewMsgs[r] \in SUBSET Msg
    BY <2>2 DEF TypeOK
  <2>4. phase[r] \in {"NEW_VIEW", "WAITING"}
    BY <1>2 DEF CanGenProposal, IsWaitingReq
  <2>5. \A m \in newViewMsgs[r] : Collected(r, m)
    BY DEF Inv, ListInv
  <2> QED  BY <1>2, <2>1, <2>2, <2>3, <2>4, <2>5, ProposeStep
<1>3. CASE HandleReq(r) /\ ~(requests[r] # NoCmd /\ IsLeader(r) /\ CanGenProposal(r))
  BY <1>3, FrameStep DEF HandleReq
<1> QED  BY <1>1, <1>2, <1>3

\* A leader that takes a new-view message.
LEMMA NewViewStep ==
    ASSUME TypeOK, Inv, NEW r \in Server, NEW s \in Server, NEW m \in Sent(s),
           HandleNewView(r, m)
    PROVE  Inv'
<1> DEFINE valid == m.view = view[r] /\ CheckQC(m.justify, "PREPARE", LastRoundView(r))
           msgs  == IF valid THEN newViewMsgs[r] \cup {m} ELSE newViewMsgs[r]
<1>1. /\ m.type = "NEW_VIEW" /\ IsLeader(r) /\ phase[r] \in {"NEW_VIEW", "WAITING"}
      /\ newViewMsgs' = [newViewMsgs EXCEPT ![r] = msgs]
      /\ UNCHANGED <<view, qcVars, voteVars>>
  BY DEF HandleNewView, Expects, AwaitsNewView
<1>2. \/ phase' = phase /\ UNCHANGED <<hsNode, sent>>
      \/ phase' = [phase EXCEPT ![r] = "WAITING"] /\ UNCHANGED <<hsNode, sent>>
      \/ curProposal[r] # NoCmd /\ Propose(r, curProposal[r], msgs)
  BY DEF HandleNewView
<1>3. m \in Msg /\ msgs \in SUBSET Msg /\ view[r] \in Nat
  <2>1. newViewMsgs[r] \in SUBSET Msg
    BY DEF TypeOK
  <2>2. m \in Msg
    BY SaidBy DEF TypeOK
  <2>3. view[r] \in Nat
    BY ViewByte DEF TypeOK
  <2>4. msgs \in SUBSET Msg
    BY <2>1, <2>2
  <2> QED  BY <2>2, <2>3, <2>4
<1>4. \A x \in msgs : Collected(r, x)
  <2>1. valid => Collected(r, m)
    <3>1. m \in Said("NEW_VIEW")
      BY <1>1, SaidBy DEF Said
    <3> QED  BY <1>3, <3>1 DEF Collected, CheckQC
  <2> QED  BY <2>1 DEF Inv, ListInv
<1> HIDE DEF msgs
<1>5. CASE curProposal[r] # NoCmd /\ Propose(r, curProposal[r], msgs)
  <2>1. curProposal[r] \in Cmd
    BY <1>5 DEF TypeOK
  <2> QED  BY <1>1, <1>3, <1>4, <1>5, <2>1, ProposeStep
<1>6. CASE /\ phase' = phase \/ phase' = [phase EXCEPT ![r] = "WAITING"]
           /\ UNCHANGED <<hsNode, sent>>
  <2>0. \A q \in Server : q # r => phase'[q] = phase[q] /\ newViewMsgs'[q] = newViewMsgs[q]
    BY <1>1, <1>6 DEF TypeOK
  <2>1. Local(r) /\ Sent(r)' = Sent(r)
    BY <1>1, <1>6, <2>0 DEF Local, Sent, qcVars, voteVars
  <2>2. /\ prepareVotes'[r] \subseteq Said("PREPARE_VOTE")
        /\ commitVotes'[r] \subseteq Said("COMMIT_VOTE")
    BY <1>1 DEF Inv, ListInv, voteVars
  <2>3. newViewMsgs'[r] = msgs /\ phase'[r] \in {phase[r], "WAITING"}
    BY <1>1, <1>6 DEF TypeOK
  <2> QED  BY <1>1, <1>4, <1>6, <2>1, <2>2, <2>3, SilentStep DEF qcVars, voteVars
<1> QED  BY <1>2, <1>5, <1>6

\* A replica that votes for a proposal has checked it against its lock: the
\* certificate in the proposal is not older than any commit vote it has sent.
LEMMA SafeProposal ==
    ASSUME TypeOK, Inv, NEW r \in Server, NEW m \in Said("PREPARE"),
           CheckNewHsNode(r, m)
    PROVE  /\ m.justify # NilQC
           /\ \A c \in Sent(r) : c.type = "COMMIT_VOTE" => c.view <= m.justify.view
<1>1. PICK s \in Server : m \in Sent(s) /\ m.type = "PREPARE" /\ m \in Msg
  BY SaidBy
<1>2. m.justify # NilQC
  BY DEF CheckNewHsNode, NilQC, MkQC, NilNode
<1>3. ThresholdSignVerify(m.justify) /\ Backed(m.justify)
  BY <1>1, <1>2 DEF Inv, ProposalInv, WellFormed, QCInv
<1>4. m.justify.node.cur.view = m.justify.view
  BY <1>3, CertifiedProposal DEF Backed
<1>5. lockedQC[r] \in QC /\ m.justify \in QC
  BY <1>1 DEF TypeOK, Msg
<1>6. lockedQC[r].view \in Int /\ m.justify.view \in Int
  BY <1>5 DEF QC
<1> SUFFICES ASSUME NEW c \in Sent(r), c.type = "COMMIT_VOTE"
             PROVE  c.view <= m.justify.view
  BY <1>2
<1>7. c.view <= lockedQC[r].view /\ c.view >= 0 /\ c.view \in Int
  <2>1. c.view \in Int
    BY SaidBy DEF Msg
  <2> QED  BY <2>1 DEF Inv, LockInv, SentInv
<1>8. CASE m.justify.view > lockedQC[r].view
  BY <1>6, <1>7, <1>8
<1>9. CASE lockedQC[r].node.cur = m.justify.node.cur
  <2>1. lockedQC[r] # InitQC("PREPARE")
    BY <1>7 DEF InitQC, MkQC
  <2>2. Backed(lockedQC[r]) /\ ThresholdSignVerify(lockedQC[r])
    BY <2>1 DEF Inv, QCInv, LockInv
  <2>3. lockedQC[r].node.cur.view = lockedQC[r].view
    BY <2>2, CertifiedProposal DEF Backed
  <2> QED  BY <1>4, <1>7, <1>9, <2>3
<1> QED  BY <1>8, <1>9 DEF CheckNewHsNode, SafeNode

\* A replica that takes a proposal.
LEMMA PrepareStep ==
    ASSUME TypeOK, Inv, NEW r \in Server, NEW s \in Server, NEW m \in Sent(s),
           HandlePrepare(r, m)
    PROVE  Inv'
<1>1. CASE ~AcceptsPrepare(r, m)
  BY <1>1, FrameStep DEF HandlePrepare
<1>2. CASE AcceptsPrepare(r, m)
  <2> DEFINE x == MkMsg("PREPARE_VOTE", m.view, r, {Leader(view[r])}, m.node, NilQC)
  <2>1. /\ m.type = "PREPARE" /\ phase[r] = "NEW_VIEW" /\ ~IsLeader(r)
        /\ m.view = view[r] /\ (view[r] # 0 => CheckNewHsNode(r, m))
    BY <1>2 DEF HandlePrepare, Expects, AcceptsPrepare
  <2>2. phase' = [phase EXCEPT ![r] = "PREPARE"] /\ Send(r, x)
    BY <1>2 DEF HandlePrepare
  <2>3. UNCHANGED <<view, hsNode, qcVars, newViewMsgs, voteVars>>
    BY DEF HandlePrepare
  <2>4. m \in Msg /\ m \in Said("PREPARE") /\ view[r] \in Nat
    BY <2>1, SaidBy, ViewByte DEF Said, TypeOK
  <2>5. x \in Msg
    <3>1. m.view \in Int /\ m.node \in HsNode /\ {Leader(view[r])} \in SUBSET Server
      BY <2>4, LeaderType DEF Msg
    <3> QED  BY <3>1, ConstantTypes, MkMsgType DEF MsgType, VoteType
  <2>6. /\ x.type = "PREPARE_VOTE" /\ x.view = view[r] /\ x.src = r /\ x.node = m.node
        /\ x.justify = NilQC
    BY <2>1 DEF MkMsg
  <2> HIDE DEF x
  <2>7. Sent(r)' = Sent(r) \cup {x} /\ \A q \in Server : q # r => Sent(q)' = Sent(q)
    BY <2>2, <2>5, SendSent
  <2>8. /\ phase'[r] = "PREPARE" /\ view'[r] = view[r] /\ hsNode'[r] = hsNode[r]
        /\ prepareQC'[r] = prepareQC[r] /\ lockedQC'[r] = lockedQC[r]
        /\ newViewMsgs'[r] = newViewMsgs[r] /\ prepareVotes'[r] = prepareVotes[r]
        /\ preCommitVotes'[r] = preCommitVotes[r] /\ commitVotes'[r] = commitVotes[r]
    BY <2>2, <2>3 DEF TypeOK, qcVars, voteVars
  <2>9. Local(r)
    BY <2>2, <2>3, <2>7 DEF Local, TypeOK, qcVars, voteVars
  <2>10. Justifies(r, x, m)
    BY <2>1, <2>4, <2>6, SafeProposal DEF Justifies
  <2>11. Backed(x.justify)
    BY <2>6 DEF Backed, ThresholdSignVerify, NilQC, MkQC, NoSign, SignedContent
  <2>12. /\ SentInv(r)' /\ VoteInv(r)'
         /\ \A y \in Sent(r)' : Backed(y.justify)'
         /\ \A t : Said(t) \subseteq Said(t)'
         /\ \A qc : Backed(qc) => Backed(qc)'
    BY <2>4, <2>5, <2>6, <2>7, <2>8, <2>9, <2>10, <2>11, SendStep
  <2>13. ProposalInv(r)'
    BY <2>4, <2>5, <2>6, <2>7, <2>8, ProposalsKept
  <2>14. QCInv(r)'
    BY <2>8, <2>12 DEF Inv, QCInv
  <2>15. ListInv(r)'
    <3>1. /\ prepareVotes[r] \subseteq Said("PREPARE_VOTE")
          /\ commitVotes[r] \subseteq Said("COMMIT_VOTE")
      BY DEF Inv, ListInv
    <3> QED  BY <2>1, <2>4, <2>8, <2>12, <3>1, ListsKept
  <2>16. LeaderInv(r)'
    BY <2>1, <2>8 DEF LeaderInv, IsLeader
  <2>17. LockInv(r)'
    BY <2>6, <2>7, <2>8 DEF Inv, LockInv, ThresholdSignVerify
  <2> QED  BY <2>7, <2>9, <2>12, <2>13, <2>14, <2>15, <2>16, <2>17, LocalStep
<1> QED  BY <1>1, <1>2

\* A replica that takes a prepare certificate.
LEMMA PreCommitStep ==
    ASSUME TypeOK, Inv, NEW r \in Server, NEW s \in Server, NEW m \in Sent(s),
           HandlePreCommit(r, m)
    PROVE  Inv'
<1> DEFINE x == MkMsg("PRE_COMMIT_VOTE", m.justify.view, r, {Leader(view[r])},
                      m.justify.node, NilQC)
<1>1. /\ phase[r] \in {"PREPARE", "NEW_VIEW"} /\ ~IsLeader(r)
      /\ m.justify.type = "PREPARE" /\ m.justify.view = view[r]
      /\ ThresholdSignVerify(m.justify)
  BY DEF HandlePreCommit, Expects, CheckQC
<1>2. /\ hsNode' = [hsNode EXCEPT ![r] = m.justify.node]
      /\ prepareQC' = [prepareQC EXCEPT ![r] = m.justify]
      /\ phase' = [phase EXCEPT ![r] = "PRE_COMMIT"]
      /\ Send(r, x)
      /\ UNCHANGED <<view, lockedQC, newViewMsgs, voteVars>>
  BY DEF HandlePreCommit
<1>3. m \in Msg /\ m.justify \in QC /\ view[r] \in Nat
  <2>1. m \in Msg
    BY SaidBy
  <2>2. m.justify \in QC
    BY <2>1 DEF Msg
  <2>3. view[r] \in Nat
    BY DEF TypeOK
  <2> QED  BY <2>1, <2>2, <2>3
<1>4. x \in Msg
  <2>1. /\ m.justify.view \in Int /\ m.justify.node \in HsNode
        /\ {Leader(view[r])} \in SUBSET Server
    BY <1>3, LeaderType DEF QC
  <2> QED  BY <2>1, ConstantTypes, MkMsgType DEF MsgType, VoteType
<1>5. /\ x.type = "PRE_COMMIT_VOTE" /\ x.view = view[r] /\ x.src = r
      /\ x.node = m.justify.node /\ x.justify = NilQC
  BY <1>1 DEF MkMsg
<1> HIDE DEF x
<1>6. Sent(r)' = Sent(r) \cup {x} /\ \A q \in Server : q # r => Sent(q)' = Sent(q)
  BY <1>2, <1>4, SendSent
<1>7. /\ phase'[r] = "PRE_COMMIT" /\ view'[r] = view[r]
      /\ prepareQC'[r] = m.justify /\ lockedQC'[r] = lockedQC[r]
      /\ newViewMsgs'[r] = newViewMsgs[r] /\ prepareVotes'[r] = prepareVotes[r]
      /\ preCommitVotes'[r] = preCommitVotes[r] /\ commitVotes'[r] = commitVotes[r]
  BY <1>2 DEF TypeOK, voteVars
<1>8. Local(r)
  BY <1>2, <1>6 DEF Local, TypeOK, voteVars
<1>9. Backed(m.justify) /\ Certified("PREPARE", view[r], m.justify.node)
  BY <1>1 DEF Inv, QCInv, Backed
<1>10. PICK p \in Said("PREPARE") : p.view = view[r] /\ p.node = m.justify.node
  BY <1>9, CertifiedProposal
<1>11. Justifies(r, x, p) /\ Backed(x.justify)
  BY <1>5, <1>10
  DEF Justifies, Backed, ThresholdSignVerify, NilQC, MkQC, NoSign, SignedContent
<1>12. /\ SentInv(r)' /\ VoteInv(r)'
       /\ \A y \in Sent(r)' : Backed(y.justify)'
       /\ \A t : Said(t) \subseteq Said(t)'
       /\ \A qc : Backed(qc) => Backed(qc)'
  BY <1>3, <1>4, <1>5, <1>6, <1>7, <1>8, <1>11, SendStep
<1>13. ProposalInv(r)'
  BY <1>1, <1>3, <1>4, <1>5, <1>6, <1>7, ProposalsKept
<1>14. QCInv(r)'
  BY <1>7, <1>9, <1>12 DEF Inv, QCInv
<1>15. ListInv(r)'
  <2>1. /\ prepareVotes[r] \subseteq Said("PREPARE_VOTE")
        /\ commitVotes[r] \subseteq Said("COMMIT_VOTE")
    BY DEF Inv, ListInv
  <2> QED  BY <1>3, <1>7, <1>12, <2>1, ListsKept
<1>16. LeaderInv(r)'
  BY <1>1, <1>7 DEF LeaderInv, IsLeader
<1>17. LockInv(r)'
  <2>1. lockedQC[r].view \in Int /\ prepareQC[r].view \in Int
    BY DEF TypeOK, QC
  <2> QED  BY <1>1, <1>3, <1>5, <1>6, <1>7, <2>1 DEF Inv, LockInv, ThresholdSignVerify
<1> QED  BY <1>6, <1>8, <1>12, <1>13, <1>14, <1>15, <1>16, <1>17, LocalStep

\* A replica that takes a pre-commit certificate locks on it.
LEMMA CommitStep ==
    ASSUME TypeOK, Inv, NEW r \in Server, NEW s \in Server, NEW m \in Sent(s),
           HandleCommit(r, m)
    PROVE  Inv'
<1> DEFINE x == MkMsg("COMMIT_VOTE", m.view, r, {Leader(view[r])}, m.justify.node, NilQC)
<1>1. /\ phase[r] = "PRE_COMMIT" /\ ~IsLeader(r) /\ m.view = view[r]
      /\ m.justify.type = "PRE_COMMIT" /\ m.justify.view = view[r]
      /\ ThresholdSignVerify(m.justify)
  BY DEF HandleCommit, Expects, CheckQC
<1>2. /\ lockedQC' = [lockedQC EXCEPT ![r] = m.justify]
      /\ phase' = [phase EXCEPT ![r] = "COMMIT"]
      /\ Send(r, x)
      /\ UNCHANGED <<view, hsNode, prepareQC, newViewMsgs, voteVars>>
  BY DEF HandleCommit
<1>3. m \in Msg /\ m.justify \in QC /\ view[r] \in Nat
  <2>1. m \in Msg
    BY SaidBy
  <2>2. m.justify \in QC
    BY <2>1 DEF Msg
  <2>3. view[r] \in Nat
    BY DEF TypeOK
  <2> QED  BY <2>1, <2>2, <2>3
<1>4. x \in Msg
  <2>1. /\ m.view \in Int /\ m.justify.node \in HsNode
        /\ {Leader(view[r])} \in SUBSET Server
    BY <1>3, LeaderType DEF QC, Msg
  <2> QED  BY <2>1, ConstantTypes, MkMsgType DEF MsgType, VoteType
<1>5. /\ x.type = "COMMIT_VOTE" /\ x.view = view[r] /\ x.src = r
      /\ x.node = m.justify.node /\ x.justify = NilQC
  BY <1>1 DEF MkMsg
<1> HIDE DEF x
<1>6. Sent(r)' = Sent(r) \cup {x} /\ \A q \in Server : q # r => Sent(q)' = Sent(q)
  BY <1>2, <1>4, SendSent
<1>7. /\ phase'[r] = "COMMIT" /\ view'[r] = view[r] /\ hsNode'[r] = hsNode[r]
      /\ prepareQC'[r] = prepareQC[r] /\ lockedQC'[r] = m.justify
      /\ newViewMsgs'[r] = newViewMsgs[r] /\ prepareVotes'[r] = prepareVotes[r]
      /\ preCommitVotes'[r] = preCommitVotes[r] /\ commitVotes'[r] = commitVotes[r]
  BY <1>2 DEF TypeOK, voteVars
<1>8. Local(r)
  BY <1>2, <1>6 DEF Local, TypeOK, voteVars
<1>9. Backed(m.justify) /\ Certified("PRE_COMMIT", view[r], m.justify.node)
  BY <1>1 DEF Inv, QCInv, Backed
<1>10. PICK p \in Said("PREPARE") : p.view = view[r] /\ p.node = m.justify.node
  BY <1>9, CertifiedProposal
<1>11. Justifies(r, x, p) /\ Backed(x.justify)
  BY <1>5, <1>10
  DEF Justifies, Backed, ThresholdSignVerify, NilQC, MkQC, NoSign, SignedContent
<1>12. /\ SentInv(r)' /\ VoteInv(r)'
       /\ \A y \in Sent(r)' : Backed(y.justify)'
       /\ \A t : Said(t) \subseteq Said(t)'
       /\ \A qc : Backed(qc) => Backed(qc)'
  BY <1>3, <1>4, <1>5, <1>6, <1>7, <1>8, <1>11, SendStep
<1>13. ProposalInv(r)'
  BY <1>1, <1>3, <1>4, <1>5, <1>6, <1>7, ProposalsKept
<1>14. QCInv(r)'
  BY <1>7, <1>9, <1>12 DEF Inv, QCInv
<1>15. ListInv(r)'
  <2>1. /\ prepareVotes[r] \subseteq Said("PREPARE_VOTE")
        /\ commitVotes[r] \subseteq Said("COMMIT_VOTE")
    BY DEF Inv, ListInv
  <2> QED  BY <1>3, <1>7, <1>12, <2>1, ListsKept
<1>16. LeaderInv(r)'
  BY <1>1, <1>7 DEF LeaderInv, IsLeader
<1>17. LockInv(r)'
  <2>1. prepareQC[r].view = view[r]
    BY <1>1 DEF Inv, LockInv
  <2>2. \A y \in Sent(r)' : y.view <= view[r]
    BY <1>3, <1>5, <1>6 DEF Inv, SentInv
  <2> QED  BY <1>1, <1>3, <1>7, <2>1, <2>2 DEF LockInv, ThresholdSignVerify
<1> QED  BY <1>6, <1>8, <1>12, <1>13, <1>14, <1>15, <1>16, <1>17, LocalStep

\* What a leader makes of a vote: the message is typed, and its certificate is
\* one of a quorum.
LEMMA VoteTaken ==
    ASSUME TypeOK, Inv, NEW r \in Server, NEW s \in Server, NEW m \in Sent(s),
           NEW t \in {"PREPARE", "PRE_COMMIT", "COMMIT"}, m.type = VoteFor(t),
           NEW old \in SUBSET Said(VoteFor(t))
    PROVE  /\ m \in Msg /\ m \in Said(VoteFor(t)) /\ view[r] \in Nat
           /\ AddVote(r, old, m) \in SUBSET Said(VoteFor(t))
           /\ QuorumOf(r, AddVote(r, old, m)) <=>
                 Quorate(AddVote(r, old, m), view[r], hsNode[r])
           /\ QuorumOf(r, old) <=> Quorate(old, view[r], hsNode[r])
<1>1. m \in Msg /\ m \in Said(VoteFor(t)) /\ view[r] \in Nat
  BY SaidBy, ViewByte DEF Said, TypeOK
<1>2. AddVote(r, old, m) \in SUBSET Said(VoteFor(t))
  BY <1>1 DEF AddVote
<1>3. /\ QuorumOf(r, AddVote(r, old, m)) <=>
           Quorate(AddVote(r, old, m), view[r], hsNode[r])
      /\ QuorumOf(r, old) <=> Quorate(old, view[r], hsNode[r])
  BY DEF QuorumOf, CanCombine, Quorate
<1> QED  BY <1>1, <1>2, <1>3

\* A leader in PREPARE that takes a vote.
LEMMA PrepareVoteStep ==
    ASSUME TypeOK, Inv, NEW r \in Server, NEW s \in Server, NEW m \in Sent(s),
           HandlePrepareVote(r, m)
    PROVE  Inv'
<1> DEFINE votes == AddVote(r, prepareVotes[r], m)
           qc    == MkQC("PREPARE", m.view, m.node, CombineSign(r))
           x     == MkMsg("PRE_COMMIT", view[r], r, Server, NilNode, qc)
<1>1. /\ m.type = "PREPARE_VOTE" /\ phase[r] = "PREPARE" /\ IsLeader(r)
      /\ prepareVotes' = [prepareVotes EXCEPT ![r] = votes]
      /\ UNCHANGED <<view, hsNode, lockedQC, newViewMsgs, preCommitVotes, commitVotes>>
  BY DEF HandlePrepareVote, Expects
<1>2. \/ ~QuorumOf(r, votes) /\ UNCHANGED <<phase, prepareQC, sent>>
      \/ /\ QuorumOf(r, votes)
         /\ prepareQC' = [prepareQC EXCEPT ![r] = qc]
         /\ phase' = [phase EXCEPT ![r] = "PRE_COMMIT"]
         /\ Send(r, x)
  BY DEF HandlePrepareVote
<1>3. prepareVotes[r] \subseteq Said("PREPARE_VOTE") /\ commitVotes[r] \subseteq Said("COMMIT_VOTE")
  BY DEF Inv, ListInv
<1>4. /\ m \in Msg /\ m \in Said("PREPARE_VOTE") /\ view[r] \in Nat
      /\ votes \subseteq Said("PREPARE_VOTE")
      /\ QuorumOf(r, votes) <=> Quorate(votes, view[r], hsNode[r])
  BY <1>1, <1>3, VoteTaken DEF VoteFor
<1>5. /\ view'[r] = view[r] /\ hsNode'[r] = hsNode[r] /\ lockedQC'[r] = lockedQC[r]
      /\ newViewMsgs'[r] = newViewMsgs[r] /\ prepareVotes'[r] = votes
      /\ preCommitVotes'[r] = preCommitVotes[r] /\ commitVotes'[r] = commitVotes[r]
  BY <1>1 DEF TypeOK
<1>6. CASE ~QuorumOf(r, votes) /\ UNCHANGED <<phase, prepareQC, sent>>
  <2>1. Local(r) /\ Sent(r)' = Sent(r)
    BY <1>1, <1>6 DEF Local, Sent, TypeOK
  <2> HIDE DEF votes
  <2> QED  BY <1>1, <1>3, <1>4, <1>5, <1>6, <2>1, SilentStep
<1>7. CASE /\ QuorumOf(r, votes)
           /\ prepareQC' = [prepareQC EXCEPT ![r] = qc]
           /\ phase' = [phase EXCEPT ![r] = "PRE_COMMIT"]
           /\ Send(r, x)
  <2>1. ~QuorumOf(r, prepareVotes[r])
    BY <1>1 DEF Inv, LeaderInv
  <2>2. Backed(qc) /\ m.view = view[r] /\ m.node = hsNode[r]
    BY <1>1, <1>3, <1>4, <1>7, <2>1, Combined DEF VoteFor
  <2>3. qc \in QC /\ qc.view = view[r]
    BY <1>1, <1>4, <2>2, CombineType DEF MkQC
  <2>4. x \in Msg
    <3>1. view[r] \in Int /\ Server \in SUBSET Server /\ NilNode \in HsNode
      BY <1>4, ConstantTypes
    <3> HIDE DEF qc
    <3> QED  BY <2>3, <3>1, MkMsgType DEF MsgType
  <2>5. /\ x.type = "PRE_COMMIT" /\ x.view = view[r] /\ x.src = r /\ x.justify = qc
    BY DEF MkMsg
  <2> HIDE DEF votes, qc, x
  <2>6. Sent(r)' = Sent(r) \cup {x} /\ \A q \in Server : q # r => Sent(q)' = Sent(q)
    BY <1>7, <2>4, SendSent
  <2>7. phase'[r] = "PRE_COMMIT" /\ prepareQC'[r] = qc
    BY <1>7 DEF TypeOK
  <2>8. Local(r)
    BY <1>1, <1>7, <2>6 DEF Local, TypeOK
  <2>9. x.type \notin VoteType /\ x.type \notin {"NEW_VIEW", "COMMIT_VOTE", "PREPARE"}
    BY <2>5 DEF VoteType
  <2>10. /\ SentInv(r)' /\ VoteInv(r)'
         /\ \A y \in Sent(r)' : Backed(y.justify)'
         /\ \A u : Said(u) \subseteq Said(u)'
         /\ \A c : Backed(c) => Backed(c)'
    BY <1>4, <1>5, <2>2, <2>4, <2>5, <2>6, <2>8, <2>9, SendStep
  <2>11. ProposalInv(r)'
    BY <1>4, <1>5, <2>4, <2>6, <2>7, <2>9, ProposalsKept
  <2>12. QCInv(r)'
    BY <1>5, <2>2, <2>7, <2>10 DEF Inv, QCInv
  <2>13. ListInv(r)'
    BY <1>1, <1>3, <1>4, <1>5, <2>7, <2>10, ListsKept
  <2>14. LeaderInv(r)'
    <3>1. PICK p \in Sent(r) : p.type = "PREPARE" /\ p.view = view[r] /\ p.node = hsNode[r]
      BY <1>1 DEF Inv, LeaderInv
    <3>2. ~Quorate(preCommitVotes[r], view[r], hsNode[r])
      <4> SUFFICES ASSUME Quorate(preCommitVotes[r], view[r], hsNode[r]) PROVE FALSE
        OBVIOUS
      <4>1. preCommitVotes[r] \in SUBSET Said(VoteFor("PRE_COMMIT"))
        BY DEF Inv, ListInv, VoteFor
      <4>2. PICK y \in preCommitVotes[r] : y.view = view[r]
        BY <1>1, <1>4, <4>1, LeaderNode, QuorateVotes
      <4> QED  BY <1>1, <1>4, <4>2 DEF Inv, ListInv
    <3>3. QuorumOf(r, preCommitVotes[r])' <=>
            Quorate(preCommitVotes'[r], view'[r], hsNode'[r])
      BY DEF QuorumOf, CanCombine, Quorate
    <3>4. ~QuorumOf(r, preCommitVotes[r])'
      BY <1>5, <3>2, <3>3
    <3> QED  BY <1>5, <2>6, <2>7, <3>1, <3>4 DEF LeaderInv
  <2>15. LockInv(r)'
    <3>1. lockedQC[r].view \in Int /\ prepareQC[r].view \in Int
      BY DEF TypeOK, QC
    <3> QED  BY <1>4, <1>5, <2>3, <2>6, <2>7, <2>9, <3>1 DEF Inv, LockInv, ThresholdSignVerify
  <2> QED  BY <2>6, <2>8, <2>10, <2>11, <2>12, <2>13, <2>14, <2>15, LocalStep
<1> QED  BY <1>2, <1>6, <1>7

\* A leader in PRE_COMMIT that takes a vote; with a quorum it locks.
LEMMA PreCommitVoteStep ==
    ASSUME TypeOK, Inv, NEW r \in Server, NEW s \in Server, NEW m \in Sent(s),
           HandlePreCommitVote(r, m)
    PROVE  Inv'
<1> DEFINE votes == AddVote(r, preCommitVotes[r], m)
           qc    == MkQC("PRE_COMMIT", m.view, m.node, CombineSign(r))
           x     == MkMsg("COMMIT", view[r], r, Server, NilNode, qc)
<1>1. /\ m.type = "PRE_COMMIT_VOTE" /\ phase[r] = "PRE_COMMIT" /\ IsLeader(r)
      /\ preCommitVotes' = [preCommitVotes EXCEPT ![r] = votes]
      /\ UNCHANGED <<view, hsNode, prepareQC, newViewMsgs, prepareVotes, commitVotes>>
  BY DEF HandlePreCommitVote, Expects
<1>2. \/ ~QuorumOf(r, votes) /\ UNCHANGED <<phase, lockedQC, sent>>
      \/ /\ QuorumOf(r, votes)
         /\ lockedQC' = [lockedQC EXCEPT ![r] = qc]
         /\ phase' = [phase EXCEPT ![r] = "COMMIT"]
         /\ Send(r, x)
  BY DEF HandlePreCommitVote
<1>3. /\ preCommitVotes[r] \subseteq Said("PRE_COMMIT_VOTE")
      /\ prepareVotes[r] \subseteq Said("PREPARE_VOTE")
      /\ commitVotes[r] \subseteq Said("COMMIT_VOTE")
  BY DEF Inv, ListInv
<1>4. /\ m \in Msg /\ m \in Said("PRE_COMMIT_VOTE") /\ view[r] \in Nat
      /\ QuorumOf(r, votes) <=> Quorate(votes, view[r], hsNode[r])
  BY <1>1, <1>3, VoteTaken DEF VoteFor
<1>5. \A y \in votes : y \in preCommitVotes[r] \/ (y = m /\ m.view = view[r])
  BY DEF AddVote
<1>6. /\ view'[r] = view[r] /\ hsNode'[r] = hsNode[r] /\ prepareQC'[r] = prepareQC[r]
      /\ newViewMsgs'[r] = newViewMsgs[r] /\ preCommitVotes'[r] = votes
      /\ prepareVotes'[r] = prepareVotes[r] /\ commitVotes'[r] = commitVotes[r]
  BY <1>1 DEF TypeOK
<1>7. CASE ~QuorumOf(r, votes) /\ UNCHANGED <<phase, lockedQC, sent>>
  <2>1. Local(r) /\ Sent(r)' = Sent(r)
    BY <1>1, <1>7 DEF Local, Sent, TypeOK
  <2> HIDE DEF votes
  <2> QED  BY <1>1, <1>3, <1>4, <1>5, <1>6, <1>7, <2>1, SilentStep
<1>8. CASE /\ QuorumOf(r, votes)
           /\ lockedQC' = [lockedQC EXCEPT ![r] = qc]
           /\ phase' = [phase EXCEPT ![r] = "COMMIT"]
           /\ Send(r, x)
  <2>1. ~QuorumOf(r, preCommitVotes[r])
    BY <1>1 DEF Inv, LeaderInv
  <2>2. Backed(qc) /\ m.view = view[r] /\ ThresholdSignVerify(qc)
    BY <1>1, <1>3, <1>4, <1>8, <2>1, Combined DEF VoteFor
  <2>3. qc \in QC /\ qc.view = view[r]
    BY <1>1, <1>4, <2>2, CombineType DEF MkQC
  <2>4. x \in Msg
    <3>1. view[r] \in Int /\ Server \in SUBSET Server /\ NilNode \in HsNode
      BY <1>4, ConstantTypes
    <3> HIDE DEF qc
    <3> QED  BY <2>3, <3>1, MkMsgType DEF MsgType
  <2>5. x.type = "COMMIT" /\ x.view = view[r] /\ x.src = r /\ x.justify = qc
    BY DEF MkMsg
  <2> HIDE DEF votes, qc, x
  <2>6. Sent(r)' = Sent(r) \cup {x} /\ \A q \in Server : q # r => Sent(q)' = Sent(q)
    BY <1>8, <2>4, SendSent
  <2>7. phase'[r] = "COMMIT" /\ lockedQC'[r] = qc
    BY <1>8 DEF TypeOK
  <2>8. Local(r)
    BY <1>1, <1>8, <2>6 DEF Local, TypeOK
  <2>9. x.type \notin VoteType /\ x.type \notin {"NEW_VIEW", "COMMIT_VOTE", "PREPARE"}
    BY <2>5 DEF VoteType
  <2>10. /\ SentInv(r)' /\ VoteInv(r)'
         /\ \A y \in Sent(r)' : Backed(y.justify)'
         /\ \A u : Said(u) \subseteq Said(u)'
         /\ \A c : Backed(c) => Backed(c)'
    BY <1>4, <1>6, <2>2, <2>4, <2>5, <2>6, <2>8, <2>9, SendStep
  <2>11. ProposalInv(r)'
    BY <1>4, <1>6, <2>4, <2>6, <2>7, <2>9, ProposalsKept
  <2>12. QCInv(r)'
    BY <1>6, <2>2, <2>7, <2>10 DEF Inv, QCInv
  <2>13. ListInv(r)'
    BY <1>3, <1>4, <1>5, <1>6, <2>7, <2>10, ListsKept
  <2>14. LeaderInv(r)'
    <3>1. PICK p \in Sent(r) : p.type = "PREPARE" /\ p.view = view[r] /\ p.node = hsNode[r]
      BY <1>1 DEF Inv, LeaderInv
    <3> QED  BY <1>6, <2>6, <2>7, <3>1 DEF LeaderInv
  <2>15. LockInv(r)'
    <3>1. prepareQC[r].view = view[r]
      BY <1>1 DEF Inv, LockInv
    <3>2. \A y \in Sent(r)' : y.view <= view[r]
      BY <1>4, <2>5, <2>6 DEF Inv, SentInv
    <3> QED  BY <1>4, <1>6, <2>2, <2>3, <2>7, <3>1, <3>2 DEF LockInv, ThresholdSignVerify
  <2> QED  BY <2>6, <2>8, <2>10, <2>11, <2>12, <2>13, <2>14, <2>15, LocalStep
<1> QED  BY <1>2, <1>7, <1>8

\* A leader in COMMIT that takes a vote; with a quorum it announces the decision.
LEMMA CommitVoteStep ==
    ASSUME TypeOK, Inv, NEW r \in Server, NEW s \in Server, NEW m \in Sent(s),
           HandleCommitVote(r, m)
    PROVE  Inv'
<1> DEFINE votes == AddVote(r, commitVotes[r], m)
           qc    == MkQC("COMMIT", m.view, m.node, CombineSign(r))
           x     == MkMsg("DECIDE", view[r], r, Server, NilNode, qc)
<1>1. /\ m.type = "COMMIT_VOTE" /\ phase[r] = "COMMIT" /\ IsLeader(r)
      /\ commitVotes' = [commitVotes EXCEPT ![r] = votes]
      /\ UNCHANGED <<phase, view, hsNode, qcVars, newViewMsgs, prepareVotes, preCommitVotes>>
  BY DEF HandleCommitVote, Expects
<1>2. \/ ~QuorumOf(r, votes) /\ UNCHANGED sent
      \/ QuorumOf(r, votes) /\ Send(r, x)
  BY DEF HandleCommitVote
<1>3. prepareVotes[r] \subseteq Said("PREPARE_VOTE") /\ commitVotes[r] \subseteq Said("COMMIT_VOTE")
  BY DEF Inv, ListInv
<1>4. /\ m \in Msg /\ m \in Said("COMMIT_VOTE") /\ view[r] \in Nat
      /\ votes \subseteq Said("COMMIT_VOTE")
  BY <1>1, <1>3, VoteTaken DEF VoteFor
<1>5. /\ phase'[r] = "COMMIT" /\ view'[r] = view[r] /\ hsNode'[r] = hsNode[r]
      /\ prepareQC'[r] = prepareQC[r] /\ lockedQC'[r] = lockedQC[r]
      /\ newViewMsgs'[r] = newViewMsgs[r] /\ prepareVotes'[r] = prepareVotes[r]
      /\ preCommitVotes'[r] = preCommitVotes[r] /\ commitVotes'[r] = votes
  BY <1>1 DEF TypeOK, qcVars
<1>6. CASE ~QuorumOf(r, votes) /\ UNCHANGED sent
  <2>1. Local(r) /\ Sent(r)' = Sent(r)
    BY <1>1, <1>6 DEF Local, Sent, TypeOK, qcVars
  <2> HIDE DEF votes
  <2> QED  BY <1>1, <1>3, <1>4, <1>5, <2>1, SilentStep
<1>7. CASE QuorumOf(r, votes) /\ Send(r, x)
  <2>1. Backed(qc)
    BY <1>1, <1>3, <1>4, <1>7, Combined DEF VoteFor
  <2>2. qc \in QC
    BY <1>1, <1>4, CombineType
  <2>3. x \in Msg
    <3>1. view[r] \in Int /\ Server \in SUBSET Server /\ NilNode \in HsNode
      BY <1>4, ConstantTypes
    <3> HIDE DEF qc
    <3> QED  BY <2>2, <3>1, MkMsgType DEF MsgType
  <2>4. x.type = "DECIDE" /\ x.view = view[r] /\ x.src = r /\ x.justify = qc
    BY DEF MkMsg
  <2> HIDE DEF votes, qc, x
  <2>5. Sent(r)' = Sent(r) \cup {x} /\ \A q \in Server : q # r => Sent(q)' = Sent(q)
    BY <1>7, <2>3, SendSent
  <2>6. Local(r)
    BY <1>1, <2>5 DEF Local, TypeOK, qcVars
  <2>7. x.type \notin VoteType /\ x.type \notin {"NEW_VIEW", "COMMIT_VOTE", "PREPARE"}
    BY <2>4 DEF VoteType
  <2>8. /\ SentInv(r)' /\ VoteInv(r)'
        /\ \A y \in Sent(r)' : Backed(y.justify)'
        /\ \A u : Said(u) \subseteq Said(u)'
        /\ \A c : Backed(c) => Backed(c)'
    BY <1>4, <1>5, <2>1, <2>3, <2>4, <2>5, <2>6, <2>7, SendStep
  <2>9. ProposalInv(r)'
    BY <1>4, <1>5, <2>3, <2>5, <2>7, ProposalsKept
  <2>10. QCInv(r)'
    BY <1>5, <2>8 DEF Inv, QCInv
  <2>11. ListInv(r)'
    BY <1>3, <1>4, <1>5, <2>8, ListsKept
  <2>12. LeaderInv(r)'
    <3>1. PICK p \in Sent(r) : p.type = "PREPARE" /\ p.view = view[r] /\ p.node = hsNode[r]
      BY <1>1 DEF Inv, LeaderInv
    <3> QED  BY <1>5, <2>5, <3>1 DEF LeaderInv
  <2>13. LockInv(r)'
    BY <1>1, <1>5, <2>5, <2>7 DEF Inv, LockInv, ThresholdSignVerify
  <2> QED  BY <2>5, <2>6, <2>8, <2>9, <2>10, <2>11, <2>12, <2>13, LocalStep
<1> QED  BY <1>2, <1>6, <1>7

\* A node that enters the next view and reports to its leader, after a decision
\* or because its timer has expired.
LEMMA NextViewStep ==
    ASSUME TypeOK, Inv, NEW r \in Server,
           Send(r, MkMsg("NEW_VIEW", view[r] + 1, r, {Leader(view[r] + 1)}, NilNode,
                         prepareQC[r])),
           view' = [view EXCEPT ![r] = @ + 1],
           NEW ph \in {"DECIDE", "NEW_VIEW"}, phase' = [phase EXCEPT ![r] = ph],
           UNCHANGED <<hsNode, qcVars>>,
           \/ UNCHANGED <<newViewMsgs, voteVars>>
           \/ NewRound(r)
    PROVE  Inv'
<1> DEFINE x == MkMsg("NEW_VIEW", view[r] + 1, r, {Leader(view[r] + 1)}, NilNode, prepareQC[r])
<1>1. x \in Msg /\ view[r] \in Nat /\ prepareQC[r] \in QC
  BY NewViewMsgType, ViewByte DEF TypeOK
<1>2. /\ x.type = "NEW_VIEW" /\ x.view = view[r] + 1 /\ x.src = r
      /\ x.justify = prepareQC[r]
  BY DEF MkMsg
<1>3. Send(r, x)
  OBVIOUS
<1> HIDE DEF x
<1>4. Sent(r)' = Sent(r) \cup {x} /\ \A q \in Server : q # r => Sent(q)' = Sent(q)
  BY <1>1, <1>3, SendSent
<1>5. /\ phase'[r] = ph /\ view'[r] = view[r] + 1 /\ hsNode'[r] = hsNode[r]
      /\ prepareQC'[r] = prepareQC[r] /\ lockedQC'[r] = lockedQC[r]
  BY DEF TypeOK, qcVars
<1>6. /\ newViewMsgs'[r] \subseteq newViewMsgs[r] /\ prepareVotes'[r] \subseteq prepareVotes[r]
      /\ preCommitVotes'[r] \subseteq preCommitVotes[r]
      /\ commitVotes'[r] \subseteq commitVotes[r]
  BY DEF TypeOK, voteVars, NewRound
<1>7. \A q \in Server : q # r =>
        /\ newViewMsgs'[q] = newViewMsgs[q] /\ prepareVotes'[q] = prepareVotes[q]
        /\ preCommitVotes'[q] = preCommitVotes[q] /\ commitVotes'[q] = commitVotes[q]
  BY DEF TypeOK, voteVars, NewRound
<1>8. Local(r)
  BY <1>4, <1>7 DEF Local, TypeOK, qcVars
<1>9. prepareQC[r].view <= view[r] /\ prepareQC[r].view \in Int
  BY <1>1 DEF Inv, LockInv, QC
<1>10. Backed(prepareQC[r])
  BY DEF Inv, QCInv
<1>11. x.type \notin VoteType /\ x.type \notin {"COMMIT_VOTE", "PREPARE"}
  BY <1>2 DEF VoteType
<1>12. /\ SentInv(r)' /\ VoteInv(r)'
       /\ \A y \in Sent(r)' : Backed(y.justify)'
       /\ \A u : Said(u) \subseteq Said(u)'
       /\ \A c : Backed(c) => Backed(c)'
  BY <1>1, <1>2, <1>4, <1>5, <1>8, <1>9, <1>10, <1>11, SendStep
<1>13. ProposalInv(r)'
  BY <1>1, <1>4, <1>5, <1>11, ProposalsKept
<1>14. QCInv(r)'
  BY <1>5, <1>12 DEF Inv, QCInv
<1>15. ListInv(r)'
  <2>1. /\ prepareVotes'[r] \subseteq Said("PREPARE_VOTE")
        /\ commitVotes'[r] \subseteq Said("COMMIT_VOTE")
    BY <1>6 DEF Inv, ListInv
  <2> QED  BY <1>1, <1>5, <1>6, <1>12, <2>1, ListsKept
<1>16. LeaderInv(r)'
  BY <1>5 DEF LeaderInv
<1>17. LockInv(r)'
  BY <1>1, <1>4, <1>5, <1>9, <1>11 DEF Inv, LockInv, ThresholdSignVerify
<1> QED  BY <1>4, <1>8, <1>12, <1>13, <1>14, <1>15, <1>16, <1>17, LocalStep

----------------------------------------------------------------------------
(* Inv is inductive *)

\* Every step of the server, its handlers, its timer and the client keeps Inv.
LEMMA InvStep == TypeOK /\ Inv /\ [Next]_vars => Inv'
<1> SUFFICES ASSUME TypeOK, Inv, [Next]_vars PROVE Inv'
  OBVIOUS
<1>1. CASE \E r \in Server, c \in ClientCmds : GenNewReq(r, c)
  BY <1>1, RequestStep
<1>2. CASE \E r \in Server : HandleReq(r)
  BY <1>2, RequestStep
<1>3. CASE \E r, s \in Server : Receive(r, s)
  <2>1. PICK r \in Server, s \in Server : Receive(r, s)
    BY <1>3
  <2>2. PICK i \in Pending(r, s) : HandleBMsg(r, sent[s][i])
    BY <2>1 DEF Receive
  <2> DEFINE m == sent[s][i]
  <2>3. m \in Sent(s)
    <3>1. i \in rcvd[r][s] + 1 .. Len(sent[s]) /\ rcvd[r][s] \in Nat /\ sent[s] \in Seq(Msg)
      BY DEF Pending, TypeOK
    <3>2. i \in DOMAIN sent[s]
      BY <3>1
    <3> QED  BY <3>2 DEF Sent
  <2>4. HandleBMsg(r, m)
    BY <2>2
  <2> HIDE DEF m
  <2>5. CASE Discard(r, m)
    BY <2>5, FrameStep DEF Discard
  <2>6. CASE HandleDecide(r, m)
    <3>1. (IF curProposal[r] = NoCmd THEN "DECIDE" ELSE "NEW_VIEW") \in {"DECIDE", "NEW_VIEW"}
      OBVIOUS
    <3> QED  BY <2>6, <3>1, NextViewStep DEF HandleDecide
  <2> QED
    BY <2>3, <2>4, <2>5, <2>6, NewViewStep, PrepareStep, PrepareVoteStep, PreCommitStep,
       PreCommitVoteStep, CommitStep, CommitVoteStep
    DEF HandleBMsg
<1>4. CASE \E r \in Server : StartViewChange(r)
  BY <1>4, NextViewStep DEF StartViewChange
<1>5. CASE UNCHANGED vars
  <2>1. 0 \in Server
    BY NAssumption DEF Server
  <2> QED  BY <1>5, <2>1, FrameStep DEF vars, netVars
<1> QED  BY <1>1, <1>2, <1>3, <1>4, <1>5 DEF Next

\* NewBCHotstuff, InitLeader and GenFirstRound start in Inv.
LEMMA InvInit == Init => Inv
<1> SUFFICES ASSUME Init, NEW r \in Server
             PROVE  /\ SentInv(r) /\ ProposalInv(r) /\ VoteInv(r) /\ QCInv(r)
                    /\ ListInv(r) /\ LeaderInv(r) /\ LockInv(r)
  BY DEF Inv
<1>1. Sent(r) = {}
  BY DEF Init, Sent
<1>2. /\ prepareQC[r] = InitQC("COMMIT") /\ lockedQC[r] = InitQC("PREPARE")
      /\ view[r] = 0 /\ phase[r] \in {"WAITING", "NEW_VIEW"}
      /\ newViewMsgs[r] \subseteq {DummyNewView}
      /\ prepareVotes[r] = {} /\ preCommitVotes[r] = {} /\ commitVotes[r] = {}
  BY DEF Init
<1>3. SentInv(r) /\ ProposalInv(r) /\ VoteInv(r)
  BY <1>1 DEF SentInv, ProposalInv, VoteInv
<1>4. QCInv(r)
  <2>1. ~ThresholdSignVerify(InitQC("COMMIT")) /\ ~ThresholdSignVerify(InitQC("PREPARE"))
    BY DEF ThresholdSignVerify, InitQC, MkQC, NoSign, SignedContent
  <2> QED  BY <1>1, <1>2, <2>1 DEF QCInv, Backed
<1>5. ListInv(r)
  BY <1>2 DEF ListInv, Collected
<1>6. LeaderInv(r)
  BY <1>2 DEF LeaderInv
<1>7. LockInv(r)
  BY <1>1, <1>2 DEF LockInv, InitQC, MkQC
<1> QED  BY <1>3, <1>4, <1>5, <1>6, <1>7

\* Every behaviour below view 256 keeps Inv: votes are for the one proposal of their
\* view, certificates are backed by votes (HandlePrepareVote and the handlers after it),
\* and locks cover commit votes. Beyond it one byte in hashes and signatures does not
\* tell the views apart, and nothing is claimed (ViewAssumption).
THEOREM InvCorrect == Spec => []Inv
  BY TypeCorrect, InvInit, InvStep, PTL DEF Spec

----------------------------------------------------------------------------
(* What follows from Inv *)

\* Every vote of a view is for the one node its leader proposed.
THEOREM OneNodePerViewCorrect == Spec => []OneNodePerView
<1>1. TypeOK /\ Inv => OneNodePerView
  <2> SUFFICES ASSUME TypeOK, Inv, NEW p \in Said("PREPARE"), NEW m \in Messages,
                      m.type \in VoteType, m.view = p.view
               PROVE  m.node = p.node
    BY DEF OneNodePerView
  <2>1. m \in Said(m.type)
    BY DEF Said
  <2>2. PICK q \in Said("PREPARE") : q.view = m.view /\ q.node = m.node
    BY <2>1, VoteProposal
  <2> QED  BY <2>2, OneProposal
<1> QED  BY <1>1, TypeCorrect, InvCorrect, PTL

\* No node forgets a commit vote: its lock and its prepared certificate, which
\* HandleCommit, HandlePreCommitVote and HandlePreCommit set, are as high.
THEOREM LockCoversVotesCorrect == Spec => []LockCoversVotes
<1>1. TypeOK /\ Inv => LockCoversVotes
  <2> SUFFICES ASSUME TypeOK, Inv, NEW r \in Server
               PROVE  /\ \A m \in Said("COMMIT_VOTE") : m.src = r => lockedQC[r].view >= m.view
                      /\ lockedQC[r].view <= prepareQC[r].view
    BY DEF LockCoversVotes
  <2>1. ASSUME NEW m \in Said("COMMIT_VOTE"), m.src = r PROVE lockedQC[r].view >= m.view
    <3>1. PICK s \in Server : m \in Sent(s) /\ m.type = "COMMIT_VOTE"
      BY <2>1, SaidBy
    <3>2. s = r
      BY <2>1, <3>1 DEF Inv, SentInv
    <3>3. lockedQC[r] \in QC /\ m \in Msg
      BY <3>1, SaidBy DEF TypeOK
    <3>4. lockedQC[r].view \in Int /\ m.view \in Int
      BY <3>3 DEF QC, Msg
    <3> QED  BY <3>1, <3>2, <3>4 DEF Inv, LockInv
  <2> QED  BY <2>1 DEF Inv, LockInv
<1> QED  BY <1>1, TypeCorrect, InvCorrect, PTL

\* A lock, and a prepared certificate, is only ever replaced by one of the view
\* its node is in.
LEMMA LocksStep ==
    ASSUME TypeOK, Inv, [Next]_vars, NEW r \in Server
    PROVE  /\ lockedQC'[r] = lockedQC[r] \/ lockedQC'[r].view = view[r]
           /\ prepareQC'[r] = prepareQC[r] \/ prepareQC'[r].view = view[r]
<1>1. CASE UNCHANGED qcVars
  BY <1>1 DEF qcVars
<1>2. ASSUME NEW q \in Server, NEW s \in Server, NEW m \in Sent(s), HandlePrepareVote(q, m)
      PROVE  \/ UNCHANGED qcVars
             \/ lockedQC' = lockedQC /\ \E qc : /\ prepareQC' = [prepareQC EXCEPT ![q] = qc]
                                                /\ qc.view = view[q]
  <2> DEFINE votes == AddVote(q, prepareVotes[q], m)
             qc    == MkQC("PREPARE", m.view, m.node, CombineSign(q))
  <2>1. \/ UNCHANGED qcVars
        \/ /\ QuorumOf(q, votes) /\ lockedQC' = lockedQC
           /\ prepareQC' = [prepareQC EXCEPT ![q] = qc]
    BY <1>2 DEF HandlePrepareVote, qcVars
  <2>2. /\ m.type = "PREPARE_VOTE" /\ phase[q] = "PREPARE" /\ IsLeader(q)
    BY <1>2 DEF HandlePrepareVote, Expects
  <2>3. prepareVotes[q] \subseteq Said("PREPARE_VOTE") /\ ~QuorumOf(q, prepareVotes[q])
    BY <2>2 DEF Inv, ListInv, LeaderInv
  <2>4. m \in Said("PREPARE_VOTE")
    BY <2>2, SaidBy DEF Said
  <2>5. QuorumOf(q, votes) => m.view = view[q]
    BY <2>2, <2>3, <2>4, Combined DEF VoteFor
  <2>6. qc.view = m.view
    BY DEF MkQC
  <2> QED  BY <2>1, <2>5, <2>6
<1>3. ASSUME NEW q \in Server, NEW s \in Server, NEW m \in Sent(s), HandlePreCommitVote(q, m)
      PROVE  \/ UNCHANGED qcVars
             \/ prepareQC' = prepareQC /\ \E qc : /\ lockedQC' = [lockedQC EXCEPT ![q] = qc]
                                                  /\ qc.view = view[q]
  <2> DEFINE votes == AddVote(q, preCommitVotes[q], m)
             qc    == MkQC("PRE_COMMIT", m.view, m.node, CombineSign(q))
  <2>1. \/ UNCHANGED qcVars
        \/ /\ QuorumOf(q, votes) /\ prepareQC' = prepareQC
           /\ lockedQC' = [lockedQC EXCEPT ![q] = qc]
    BY <1>3 DEF HandlePreCommitVote, qcVars
  <2>2. /\ m.type = "PRE_COMMIT_VOTE" /\ phase[q] = "PRE_COMMIT" /\ IsLeader(q)
    BY <1>3 DEF HandlePreCommitVote, Expects
  <2>3. preCommitVotes[q] \subseteq Said("PRE_COMMIT_VOTE") /\ ~QuorumOf(q, preCommitVotes[q])
    BY <2>2 DEF Inv, ListInv, LeaderInv
  <2>4. m \in Said("PRE_COMMIT_VOTE")
    BY <2>2, SaidBy DEF Said
  <2>5. QuorumOf(q, votes) => m.view = view[q]
    BY <2>2, <2>3, <2>4, Combined DEF VoteFor
  <2>6. qc.view = m.view
    BY DEF MkQC
  <2> QED  BY <2>1, <2>5, <2>6
<1>4. ASSUME NEW q \in Server, NEW m, HandlePreCommit(q, m)
      PROVE  /\ lockedQC' = lockedQC /\ prepareQC' = [prepareQC EXCEPT ![q] = m.justify]
             /\ m.justify.view = view[q]
  BY <1>4 DEF HandlePreCommit, Expects, CheckQC
<1>5. ASSUME NEW q \in Server, NEW m, HandleCommit(q, m)
      PROVE  /\ prepareQC' = prepareQC /\ lockedQC' = [lockedQC EXCEPT ![q] = m.justify]
             /\ m.justify.view = view[q]
  BY <1>5 DEF HandleCommit, Expects, CheckQC
<1>6. CASE \E q, s \in Server : Receive(q, s)
  <2>1. PICK q \in Server, s \in Server : Receive(q, s)
    BY <1>6
  <2>2. PICK i \in Pending(q, s) : HandleBMsg(q, sent[s][i])
    BY <2>1 DEF Receive
  <2> DEFINE m == sent[s][i]
  <2>3. m \in Sent(s)
    <3>1. i \in rcvd[q][s] + 1 .. Len(sent[s]) /\ rcvd[q][s] \in Nat /\ sent[s] \in Seq(Msg)
      BY DEF Pending, TypeOK
    <3>2. i \in DOMAIN sent[s]
      BY <3>1
    <3> QED  BY <3>2 DEF Sent
  <2>4. HandleBMsg(q, m)
    BY <2>2
  <2> HIDE DEF m
  <2>5. prepareQC \in [Server -> QC] /\ lockedQC \in [Server -> QC]
    BY DEF TypeOK
  <2>6. CASE Discard(q, m) \/ HandleNewView(q, m) \/ HandlePrepare(q, m)
             \/ HandleCommitVote(q, m) \/ HandleDecide(q, m)
    BY <2>6, <1>1 DEF Discard, HandleNewView, HandlePrepare, HandleCommitVote, HandleDecide
  <2>7. CASE HandlePrepareVote(q, m)
    BY <1>1, <1>2, <2>3, <2>5, <2>7
  <2>8. CASE HandlePreCommitVote(q, m)
    BY <1>1, <1>3, <2>3, <2>5, <2>8
  <2>9. CASE HandlePreCommit(q, m)
    BY <1>4, <2>5, <2>9
  <2>10. CASE HandleCommit(q, m)
    BY <1>5, <2>5, <2>10
  <2> QED  BY <2>4, <2>6, <2>7, <2>8, <2>9, <2>10 DEF HandleBMsg
<1>7. CASE \E q \in Server : StartViewChange(q) \/ HandleReq(q)
  BY <1>1, <1>7 DEF StartViewChange, HandleReq
<1>8. CASE \E q \in Server, c \in ClientCmds : GenNewReq(q, c)
  BY <1>1, <1>8 DEF GenNewReq
<1>9. CASE UNCHANGED vars
  BY <1>1, <1>9 DEF vars
<1> QED  BY <1>6, <1>7, <1>8, <1>9 DEF Next

\* Locks and prepared certificates only move to later views, whatever messages
\* of old views arrive and however often the timer expires.
THEOREM LocksMonotonicCorrect == Spec => LocksMonotonic
<1> DEFINE Grow == \A r \in Server : /\ lockedQC'[r].view >= lockedQC[r].view
                                     /\ prepareQC'[r].view >= prepareQC[r].view
<1>1. TypeOK /\ Inv /\ [Next]_vars => [Grow]_vars
  <2> SUFFICES ASSUME TypeOK, Inv, [Next]_vars, NEW r \in Server
               PROVE  /\ lockedQC'[r].view >= lockedQC[r].view
                      /\ prepareQC'[r].view >= prepareQC[r].view
    OBVIOUS
  <2>1. lockedQC[r] \in QC /\ prepareQC[r] \in QC /\ view[r] \in Nat
    BY DEF TypeOK
  <2>2. lockedQC[r].view \in Int /\ prepareQC[r].view \in Int
    BY <2>1 DEF QC
  <2>3. lockedQC[r].view <= prepareQC[r].view /\ prepareQC[r].view <= view[r]
    BY DEF Inv, LockInv
  <2> QED  BY <2>1, <2>2, <2>3, LocksStep
<1>2. LocksMonotonic <=> [][Grow]_vars
  BY DEF LocksMonotonic
<1> HIDE DEF Grow
<1> QED  BY <1>1, <1>2, TypeCorrect, InvCorrect, PTL DEF Spec

\* Two certified nodes and the votes of the node both certificates share.
LEMMA LockSafe ==
    ASSUME TypeOK, Inv
    PROVE  LockSafety
<1> SUFFICES ASSUME NEW c \in Said("PREPARE"), NEW p \in Said("PREPARE"),
                    c.view < p.view,
                    Certified("COMMIT", c.view, c.node),
                    Certified("PREPARE", p.view, p.node)
             PROVE  /\ c.view <= p.justify.view /\ p.justify.view < p.view
                    /\ p.justify.view = c.view => p.node.parent = c.node.cur
  BY DEF LockSafety
<1>1. PICK s \in Server : /\ s \in Voters("COMMIT", c.view, c.node)
                          /\ s \in Voters("PREPARE", p.view, p.node)
  BY QuorumsMeet
<1>2. PICK a \in Sent(s) : a.type = "COMMIT_VOTE" /\ a.view = c.view
  BY <1>1 DEF Voters, VoteFor
<1>3. PICK b \in Sent(s) : b.type = "PREPARE_VOTE" /\ b.view = p.view
  BY <1>1 DEF Voters, VoteFor
<1>4. c.view \in Int /\ p.view \in Int /\ 0 <= c.view
  <2>1. c \in Msg /\ p \in Msg
    BY SaidBy
  <2> QED  BY <1>2, <2>1 DEF Msg, Inv, SentInv
<1>5. PICK q \in Said("PREPARE") : Justifies(s, b, q)
  BY <1>3 DEF Inv, VoteInv, VoteType
<1>6. q = p
  BY <1>3, <1>5, OneProposal DEF Justifies
<1>7. p.justify # NilQC /\ c.view <= p.justify.view
  BY <1>2, <1>3, <1>4, <1>5, <1>6 DEF Justifies
<1>8. PICK l \in Server : p \in Sent(l) /\ p.type = "PREPARE"
  BY SaidBy
<1>9. WellFormed(p) /\ Backed(p.justify)
  BY <1>8 DEF Inv, ProposalInv, QCInv
<1>10. p.justify.view < p.view
  BY <1>4, <1>9 DEF WellFormed
<1>11. ASSUME p.justify.view = c.view PROVE p.node.parent = c.node.cur
  <2>1. ThresholdSignVerify(p.justify) /\ p.node.parent = p.justify.node.cur
    BY <1>7, <1>9 DEF WellFormed
  <2>2. PICK d \in Said("PREPARE") : d.view = p.justify.view /\ d.node = p.justify.node
    BY <1>9, <2>1, CertifiedProposal DEF Backed
  <2>3. d = c
    BY <1>11, <2>2, OneProposal
  <2> QED  BY <2>1, <2>2, <2>3
<1> QED  BY <1>7, <1>10, <1>11

\* A commit certificate is never bypassed: SafeNode and the locks make every
\* later certified node extend a certificate that is at least as high.
THEOREM LockSafetyCorrect == Spec => []LockSafety
<1>1. TypeOK /\ Inv => LockSafety
  BY LockSafe
<1> QED  BY <1>1, TypeCorrect, InvCorrect, PTL
=============================================================================
