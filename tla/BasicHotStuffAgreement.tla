------------------------ MODULE BasicHotStuffAgreement ------------------------
(***************************************************************************)
(* Agreement of BasicHotStuff: the nodes that ever get a commit            *)
(* certificate lie on one branch of the tree of proposals, and the core    *)
(* implements the abstract tree of module Agreement.                       *)
(*                                                                         *)
(* LockSafety speaks of a certified node and the certificate it extends.   *)
(* Following those certificates from a node down to a decided one needs an *)
(* argument on views; the least view that would break the branch gives it. *)
(***************************************************************************)
EXTENDS BasicHotStuffSafety, WellFoundedInduction

----------------------------------------------------------------------------
(* What one step says *)

\* A set of natural numbers that is not empty has a least element.
LEMMA LeastView ==
    ASSUME NEW T \in SUBSET Nat, T # {}
    PROVE  \E x \in T : \A y \in T : x <= y
<1>1. PICK x \in T : \A y \in T : ~ (<<y, x>> \in OpToRel(<, Nat))
  BY NatLessThanWellFounded, WFMin, Zenon
<1>2. \A y \in T : ~ (y < x)
  BY <1>1 DEF OpToRel
<1>3. \A y \in T : x <= y
  BY <1>2
<1> QED  BY <1>3

\* r said m in this step, and nobody said anything else
Says(r, m) ==
    /\ Sent(r)' = Sent(r) \cup {m}
    /\ \A q \in Server : q # r => Sent(q)' = Sent(q)

\* SendSerMsg, for a message that is well-typed because the next state is.
LEMMA SendSays ==
    ASSUME TypeOK, TypeOK', NEW r \in Server, NEW m, Send(r, m)
    PROVE  Says(r, m)
<1>1. sent \in [Server -> Seq(Msg)] /\ sent' \in [Server -> Seq(Msg)]
  BY DEF TypeOK
<1>2. sent' = [sent EXCEPT ![r] = Append(sent[r], m)]
  BY DEF Send
<1>3. sent'[r] = Append(sent[r], m) /\ sent[r] \in Seq(Msg) /\ sent'[r] \in Seq(Msg)
  BY <1>1, <1>2
<1>4. m \in Msg
  <2> DEFINE k == Len(sent[r]) + 1
  <2>1. sent[r] \in Seq(Msg \cup {m})
    BY <1>3
  <2>2. Append(sent[r], m)[k] = m /\ k \in 1 .. Len(Append(sent[r], m))
    BY <2>1
  <2>3. sent'[r][k] \in Msg
    BY <1>3, <2>2
  <2> QED  BY <1>3, <2>2, <2>3
<1> QED  BY <1>4, SendSent DEF Says

\* What a handler may say: a vote of the second or third phase answers a
\* certificate of the phase before, and a proposal hangs under the certificate
\* of a collected new-view message.
Sayable(m) ==
    /\ m.type = "PRE_COMMIT_VOTE" => Certified("PREPARE", m.view, m.node)
    /\ m.type = "COMMIT_VOTE" => Certified("PRE_COMMIT", m.view, m.node)

\* A step says nothing, or one node says one thing.
LEMMA StepSays ==
    ASSUME TypeOK, Inv, TypeOK', [Next]_vars
    PROVE  \/ \A q \in Server : Sent(q)' = Sent(q)
           \/ \E r \in Server : \E m : Says(r, m) /\ Sayable(m)
<1> DEFINE Silent == \A q \in Server : Sent(q)' = Sent(q)
           Spoken == \E r \in Server : \E m : Says(r, m) /\ Sayable(m)
<1>1. UNCHANGED sent => Silent
  BY DEF Sent
<1>2. ASSUME NEW r \in Server, NEW m, Send(r, m),
             m.type \notin {"PRE_COMMIT_VOTE", "COMMIT_VOTE"}
      PROVE  Spoken
  BY <1>2, SendSays DEF Sayable
<1>3. ASSUME NEW r \in Server, NEW c, NEW msgs, Propose(r, c, msgs) PROVE Spoken
  <2>1. PICK h \in msgs : Send(r, [type |-> "PREPARE", view |-> view[r], src |-> r,
                    dst |-> Server, node |-> CreateLeaf(r, c, h.justify),
                    justify |-> h.justify, cmd |-> c, block |-> NewBlock(r, c)])
    BY <1>3 DEF Propose
  <2> QED  BY <1>2, <2>1
<1>4. ASSUME NEW r \in Server, HandleReq(r) PROVE Silent \/ Spoken
  BY <1>1, <1>3, <1>4 DEF HandleReq
<1>5. ASSUME NEW r \in Server, StartViewChange(r) PROVE Spoken
  BY <1>2, <1>5 DEF StartViewChange, MkMsg
<1>6. ASSUME NEW r \in Server, NEW s \in Server, Receive(r, s) PROVE Silent \/ Spoken
  <2>1. PICK i \in Pending(r, s) : HandleBMsg(r, sent[s][i])
    BY <1>6 DEF Receive
  <2> DEFINE m == sent[s][i]
  <2>2. m \in Sent(s)
    <3>1. i \in rcvd[r][s] + 1 .. Len(sent[s]) /\ rcvd[r][s] \in Nat /\ sent[s] \in Seq(Msg)
      BY DEF Pending, TypeOK
    <3>2. i \in DOMAIN sent[s]
      BY <3>1
    <3> QED  BY <3>2 DEF Sent
  <2>3. HandleBMsg(r, m)
    BY <2>1
  <2> HIDE DEF m
  <2>4. CASE Discard(r, m)
    BY <1>1, <2>4 DEF Discard
  <2>5. CASE HandleNewView(r, m)
    BY <1>1, <1>3, <2>5 DEF HandleNewView
  <2>6. CASE HandlePrepare(r, m)
    BY <1>1, <1>2, <2>6 DEF HandlePrepare, MkMsg
  <2>7. CASE HandlePrepareVote(r, m)
    BY <1>1, <1>2, <2>7 DEF HandlePrepareVote, MkMsg
  <2>8. CASE HandlePreCommit(r, m)
    <3> DEFINE x == MkMsg("PRE_COMMIT_VOTE", m.justify.view, r, {Leader(view[r])},
                          m.justify.node, NilQC)
    <3>1. Send(r, x) /\ m.justify.type = "PREPARE" /\ ThresholdSignVerify(m.justify)
      BY <2>8 DEF HandlePreCommit, Expects, CheckQC
    <3>2. Certified("PREPARE", m.justify.view, m.justify.node)
      BY <2>2, <3>1 DEF Inv, QCInv, Backed
    <3>3. x.type = "PRE_COMMIT_VOTE" /\ x.view = m.justify.view /\ x.node = m.justify.node
      BY DEF MkMsg
    <3>4. Sayable(x)
      BY <3>2, <3>3 DEF Sayable
    <3> QED  BY <3>1, <3>4, SendSays
  <2>9. CASE HandlePreCommitVote(r, m)
    BY <1>1, <1>2, <2>9 DEF HandlePreCommitVote, MkMsg
  <2>10. CASE HandleCommit(r, m)
    <3> DEFINE x == MkMsg("COMMIT_VOTE", m.view, r, {Leader(view[r])}, m.justify.node, NilQC)
    <3>1. /\ Send(r, x) /\ m.justify.type = "PRE_COMMIT" /\ m.justify.view = m.view
          /\ ThresholdSignVerify(m.justify)
      BY <2>10 DEF HandleCommit, Expects, CheckQC
    <3>2. Certified("PRE_COMMIT", m.view, m.justify.node)
      BY <2>2, <3>1 DEF Inv, QCInv, Backed
    <3>3. x.type = "COMMIT_VOTE" /\ x.view = m.view /\ x.node = m.justify.node
      BY DEF MkMsg
    <3>4. Sayable(x)
      BY <3>2, <3>3 DEF Sayable
    <3> QED  BY <3>1, <3>4, SendSays
  <2>11. CASE HandleCommitVote(r, m)
    BY <1>1, <1>2, <2>11 DEF HandleCommitVote, MkMsg
  <2>12. CASE HandleDecide(r, m)
    BY <1>2, <2>12 DEF HandleDecide, MkMsg
  <2> QED
    BY <2>3, <2>4, <2>5, <2>6, <2>7, <2>8, <2>9, <2>10, <2>11, <2>12 DEF HandleBMsg
<1>7. ASSUME NEW r \in Server, NEW c \in ClientCmds, GenNewReq(r, c) PROVE Silent
  BY <1>1, <1>7 DEF GenNewReq, netVars
<1>8. CASE UNCHANGED vars
  BY <1>1, <1>8 DEF vars, netVars
<1> QED  BY <1>4, <1>5, <1>6, <1>7, <1>8 DEF Next

\* Nothing that was said is taken back.
LEMMA SentGrows ==
    ASSUME TypeOK, Inv, TypeOK', [Next]_vars
    PROVE  \A q \in Server : Sent(q) \subseteq Sent(q)'
  BY StepSays DEF Says

----------------------------------------------------------------------------
(* The phases of a view *)

\* Every step keeps PhaseInv.
LEMMA PhaseStep ==
    ASSUME TypeOK, Inv, TypeOK', PhaseInv, [Next]_vars
    PROVE  PhaseInv'
<1>1. ASSUME NEW x \in Messages', x \notin Messages PROVE Sayable(x)
  <2>1. PICK s \in Server : x \in Sent(s)' /\ x \notin Sent(s)
    BY <1>1 DEF Messages
  <2>2. PICK r \in Server : \E m : Says(r, m) /\ Sayable(m)
    BY <2>1, StepSays
  <2>3. PICK m : Says(r, m) /\ Sayable(m)
    BY <2>2
  <2>4. x = m
    BY <2>1, <2>3 DEF Says
  <2> QED  BY <2>3, <2>4
<1>2. \A t, v, n : Certified(t, v, n) => Certified(t, v, n)'
  BY SentGrows, CertifiedGrows
<1>3. ASSUME NEW m \in Said("PRE_COMMIT_VOTE")' PROVE Certified("PREPARE", m.view, m.node)'
  <2>1. m \in Messages' /\ m.type = "PRE_COMMIT_VOTE"
    BY DEF Said
  <2>2. Certified("PREPARE", m.view, m.node)
    BY <1>1, <2>1 DEF PhaseInv, Said, Sayable
  <2> QED  BY <1>2, <2>2
<1>4. ASSUME NEW m \in Said("COMMIT_VOTE")' PROVE Certified("PRE_COMMIT", m.view, m.node)'
  <2>1. m \in Messages' /\ m.type = "COMMIT_VOTE"
    BY DEF Said
  <2>2. Certified("PRE_COMMIT", m.view, m.node)
    BY <1>1, <2>1 DEF PhaseInv, Said, Sayable
  <2> QED  BY <1>2, <2>2
<1> QED  BY <1>3, <1>4 DEF PhaseInv

\* At the start nothing has been said.
LEMMA NothingSaid == ASSUME Init PROVE Messages = {}
  BY DEF Init, Sent, Messages

\* A node votes in PRE_COMMIT only when a quorum has voted in PREPARE, and in
\* COMMIT only when a quorum has voted in PRE_COMMIT, whatever phase it was in.
THEOREM PhaseCorrect == Spec => []PhaseInv
<1>1. Init => PhaseInv
  BY NothingSaid DEF PhaseInv, Said
<1>2. TypeOK /\ Inv /\ TypeOK' /\ PhaseInv /\ [Next]_vars => PhaseInv'
  BY PhaseStep
<1> QED  BY <1>1, <1>2, TypeCorrect, InvCorrect, PTL DEF Spec

\* A node with a commit certificate has a prepare certificate of the same view.
LEMMA CommittedPrepared ==
    ASSUME TypeOK, PhaseInv, NEW v, NEW n, Certified("COMMIT", v, n)
    PROVE  Certified("PREPARE", v, n)
<1>1. PICK s \in Server : \E m \in Sent(s) :
          m.type = "COMMIT_VOTE" /\ m.view = v /\ m.node = n
  BY CertifiedVoter DEF VoteFor
<1>2. Certified("PRE_COMMIT", v, n)
  BY <1>1, SaidBy DEF PhaseInv, Said
<1>3. PICK q \in Server : \E m \in Sent(q) :
          m.type = "PRE_COMMIT_VOTE" /\ m.view = v /\ m.node = n
  BY <1>2, CertifiedVoter DEF VoteFor
<1> QED  BY <1>3, SaidBy DEF PhaseInv, Said

----------------------------------------------------------------------------
(* One branch *)

\* What a proposal is: the view of its node is its own, and it hangs under the
\* certified node of an earlier proposal or under none.
LEMMA ProposalExtends ==
    ASSUME TypeOK, Inv, NEW p \in Said("PREPARE")
    PROVE  /\ p.view \in Nat /\ p.node.cur.view = p.view
           /\ \/ p.node.parent = NilHash
              \/ \E q \in Said("PREPARE") :
                    /\ q.view = p.justify.view /\ q.node.cur = p.node.parent
                    /\ Certified("PREPARE", q.view, q.node)
           /\ p.justify # NilQC =>
                 \E q \in Said("PREPARE") :
                    /\ q.view = p.justify.view /\ q.node.cur = p.node.parent
                    /\ Certified("PREPARE", q.view, q.node)
<1>1. PICK s \in Server : p \in Sent(s) /\ p.type = "PREPARE" /\ p \in Msg
  BY SaidBy
<1>2. WellFormed(p) /\ Backed(p.justify)
  BY <1>1 DEF Inv, ProposalInv, QCInv
<1>3. p.view \in Nat
  BY <1>1 DEF Inv, SentInv, Msg
<1>4. ASSUME p.justify # NilQC
      PROVE  \E q \in Said("PREPARE") :
                /\ q.view = p.justify.view /\ q.node.cur = p.node.parent
                /\ Certified("PREPARE", q.view, q.node)
  <2>1. Certified("PREPARE", p.justify.view, p.justify.node)
    BY <1>2, <1>4 DEF WellFormed, Backed
  <2>2. PICK q \in Said("PREPARE") : q.view = p.justify.view /\ q.node = p.justify.node
    BY <2>1, CertifiedProposal
  <2> QED  BY <1>2, <2>1, <2>2 DEF WellFormed
<1>5. p.justify = NilQC => p.node.parent = NilHash
  BY <1>2 DEF WellFormed, NilQC, MkQC, NilNode
<1> QED  BY <1>2, <1>3, <1>4, <1>5 DEF WellFormed

\* Proposals and hashes go together: one node per hash.
LEMMA OneHash ==
    ASSUME TypeOK, Inv, NEW p \in Said("PREPARE"), NEW q \in Said("PREPARE"),
           p.node.cur = q.node.cur
    PROVE  p = q
  BY ProposalExtends, OneProposal

\* The branch argument. If a set of hashes closed under parents held the decided
\* node of the higher view and not the other, take the certified node of the
\* least view above the lower one whose hash it holds: by LockSafety the
\* certificate it extends is of a view in between, or is the lower node itself.
LEMMA OneChain ==
    ASSUME TypeOK, Inv, PhaseInv
    PROVE  DecidedOnOneChain
<1> SUFFICES ASSUME NEW c \in Decided, NEW d \in Decided, c.view <= d.view,
                    NEW H \in SUBSET Tree!Hashes, d.node.cur \in H, Tree!Closed(H),
                    c.node.cur \notin H
             PROVE  FALSE
  BY DEF DecidedOnOneChain, Tree!OnBranch
<1>1. /\ c \in Said("PREPARE") /\ Certified("COMMIT", c.view, c.node)
      /\ d \in Said("PREPARE") /\ Certified("COMMIT", d.view, d.node)
  BY DEF Decided
<1>2. c.view \in Nat /\ d.view \in Nat
  BY <1>1, ProposalExtends
<1>3. c.view < d.view
  <2>1. c.view # d.view
    BY <1>1, OneProposal
  <2> QED  BY <1>2, <2>1
<1> DEFINE In(v) == \E p \in Said("PREPARE") :
                       p.view = v /\ p.node.cur \in H /\ Certified("PREPARE", v, p.node)
           T == {v \in Nat : v > c.view /\ In(v)}
<1>4. d.view \in T
  BY <1>1, <1>2, <1>3, CommittedPrepared
<1>5. PICK w \in T : \A v \in T : w <= v
  <2> HIDE DEF In
  <2> QED  BY <1>4, LeastView
<1>6. PICK p \in Said("PREPARE") :
          p.view = w /\ p.node.cur \in H /\ Certified("PREPARE", w, p.node)
  BY <1>5
<1>7. /\ c.view <= p.justify.view /\ p.justify.view < w
      /\ p.justify.view = c.view => p.node.parent = c.node.cur
  BY <1>1, <1>5, <1>6, LockSafe DEF LockSafety
<1>8. w > c.view /\ w \in Nat
  BY <1>5
<1>9. p.justify # NilQC
  <2>1. PICK s \in Server : \E m \in Sent(s) :
            m.type = "PREPARE_VOTE" /\ m.view = w /\ m.node = p.node
    BY <1>6, CertifiedVoter DEF VoteFor
  <2>2. PICK m \in Sent(s) : m.type = "PREPARE_VOTE" /\ m.view = w
    BY <2>1
  <2>3. PICK q \in Said("PREPARE") : Justifies(s, m, q)
    BY <2>2 DEF Inv, VoteInv, VoteType
  <2>4. q = p
    BY <1>6, <2>2, <2>3, OneProposal DEF Justifies
  <2> QED  BY <1>2, <1>8, <2>2, <2>3, <2>4 DEF Justifies
<1>10. PICK q \in Said("PREPARE") :
           /\ q.view = p.justify.view /\ q.node.cur = p.node.parent
           /\ Certified("PREPARE", q.view, q.node)
  BY <1>9, ProposalExtends
<1>11. q.node.cur \in H
  <2>1. p.node \in {x.node : x \in Said("PREPARE")} /\ p.node.parent \in Tree!Hashes
    BY <1>10 DEF Tree!Hashes
  <2> QED  BY <1>6, <1>10, <2>1 DEF Tree!Closed
<1>12. CASE q.view = c.view
  BY <1>7, <1>10, <1>11, <1>12
<1>13. CASE q.view # c.view
  <2>1. q.view \in Nat /\ q.view > c.view
    BY <1>2, <1>7, <1>10, <1>13, ProposalExtends
  <2>2. In(q.view)
    BY <1>10, <1>11
  <2>3. q.view \in T
    BY <2>1, <2>2
  <2> QED  BY <1>5, <1>7, <1>8, <1>10, <2>1, <2>3
<1> QED  BY <1>12, <1>13

\* Agreement: whatever is decided, in whatever views and by whatever nodes, lies
\* on one branch; SafeNode and the locks see to it however stale the certificates
\* are that leaders pick from their new-view messages.
THEOREM DecidedOnOneChainCorrect == Spec => []DecidedOnOneChain
<1>1. TypeOK /\ Inv /\ PhaseInv => DecidedOnOneChain
  BY OneChain
<1> QED  BY <1>1, TypeCorrect, InvCorrect, PhaseCorrect, PTL

----------------------------------------------------------------------------
(* The refinement *)

\* What the mapping needs of a state
TreeInv ==
    /\ \A p \in Said("PREPARE") :
          /\ p.view \in Nat
          /\ \A q \in Said("PREPARE") :
                p.view = q.view \/ p.node.cur = q.node.cur => p = q
          /\ \/ p.node.parent = NilHash
             \/ \E q \in Said("PREPARE") :
                   q.node.cur = p.node.parent /\ Certified("PREPARE", q.view, q.node)
    /\ DecidedOnOneChain

LEMMA TreeFacts == TypeOK /\ Inv /\ PhaseInv => TreeInv
  BY OneHash, OneProposal, ProposalExtends, OneChain DEF TreeInv

\* What a step says decides which proposals and which votes are new.
LEMMA SaidStep ==
    ASSUME NEW r \in Server, NEW m, Says(r, m)
    PROVE  /\ Messages' = Messages \cup {m}
           /\ \A t : Said(t)' = IF m.type = t THEN Said(t) \cup {m} ELSE Said(t)
           /\ \A t, v, n :
                 ~ (m.type = VoteFor(t) /\ m.view = v /\ m.node = n)
                 => (Certified(t, v, n)' <=> Certified(t, v, n))
<1>1. Messages' = Messages \cup {m}
  BY DEF Says, Messages
<1>2. \A t : Said(t)' = IF m.type = t THEN Said(t) \cup {m} ELSE Said(t)
  BY <1>1 DEF Said
<1>3. ASSUME NEW t, NEW v, NEW n, ~ (m.type = VoteFor(t) /\ m.view = v /\ m.node = n)
      PROVE  Certified(t, v, n)' <=> Certified(t, v, n)
  <2>1. Voters(t, v, n)' = Voters(t, v, n)
    BY <1>3 DEF Voters, Says
  <2> QED  BY <2>1 DEF Certified
<1> QED  BY <1>1, <1>2, <1>3

\* A new proposal is a Propose of the tree: its hash is fresh, and the node it
\* hangs under had its certificate before.
LEMMA ProposeRefines ==
    ASSUME TypeOK, Inv, TreeInv, TreeInv', NEW r \in Server, NEW m, Says(r, m),
           m.type = "PREPARE", m \notin Said("PREPARE")
    PROVE  Tree!Propose
<1>1. Said("PREPARE")' = Said("PREPARE") \cup {m}
  BY SaidStep
<1>2. \A t \in {"PREPARE", "COMMIT"} : \A v, n : Certified(t, v, n)' <=> Certified(t, v, n)
  BY SaidStep DEF VoteFor
<1>3. ASSUME NEW t \in {"PREPARE", "COMMIT"}, NEW p \in Said("PREPARE")',
             Certified(t, p.view, p.node)'
      PROVE  p \in Said("PREPARE")
  <2>1. PICK q \in Said("PREPARE") : q.view = p.view
    BY <1>2, <1>3, CertifiedProposal
  <2>2. q = p
    BY <1>1, <2>1 DEF TreeInv
  <2> QED  BY <2>2
<1>4. Decided' = Decided
  BY <1>1, <1>2, <1>3 DEF Decided
<1>5. m.node.cur \notin Tree!Hashes
  <2> SUFFICES ASSUME NEW p \in Said("PREPARE"), p.node.cur = m.node.cur PROVE FALSE
    BY DEF Tree!Hashes
  <2> QED  BY <1>1 DEF TreeInv
<1>6. m.node.parent \in Tree!Hashes \cup {NilHash}
  <2>1. CASE m.node.parent = NilHash
    BY <2>1
  <2>2. ASSUME NEW q \in Said("PREPARE")', q.node.cur = m.node.parent,
               Certified("PREPARE", q.view, q.node)'
        PROVE  m.node.parent \in Tree!Hashes
    <3>1. q \in Said("PREPARE")
      BY <1>3, <2>2
    <3> QED  BY <2>2, <3>1 DEF Tree!Hashes
  <2> QED  BY <1>1, <2>1, <2>2 DEF TreeInv
<1>7. {p.node : p \in Said("PREPARE")'} = {p.node : p \in Said("PREPARE")} \cup {m.node}
  BY <1>1
<1> QED  BY <1>4, <1>5, <1>6, <1>7 DEF Tree!Propose

\* Any other message makes at most one proposal decided, the one it votes for,
\* and leaves the tree alone.
LEMMA VoteRefines ==
    ASSUME TypeOK, Inv, TypeOK', TreeInv, TreeInv', NEW r \in Server, NEW m, Says(r, m),
           Said("PREPARE")' = Said("PREPARE")
    PROVE  Tree!Decide \/ UNCHANGED Tree!vars
<1>1. \A t, v, n : Certified(t, v, n) => Certified(t, v, n)'
  <2>1. \A s \in Server : Sent(s) \subseteq Sent(s)'
    BY DEF Says
  <2> QED  BY <2>1, CertifiedGrows
<1>2. Decided \subseteq Decided'
  BY <1>1 DEF Decided
<1>3. ASSUME NEW x \in Decided', x \notin Decided
      PROVE  /\ x \in Said("PREPARE") /\ x.view = m.view
             /\ Decided' = Decided \cup {x}
  <2>1. \A y \in Decided' : y \notin Decided => y \in Said("PREPARE") /\ y.view = m.view
    BY SaidStep DEF Decided
  <2>2. \A y \in Decided' : y \notin Decided => y = x
    BY <1>3, <2>1 DEF TreeInv
  <2> QED  BY <1>2, <1>3, <2>1, <2>2
<1>4. CASE Decided' = Decided
  BY <1>4 DEF Tree!vars
<1>5. CASE Decided' # Decided
  <2>1. PICK x \in Decided' : x \notin Decided
    BY <1>2, <1>5
  <2>2. x \in Said("PREPARE") /\ Decided' = Decided \cup {x}
    BY <1>3, <2>1
  <2>3. x.node \notin {p.node : p \in Decided}
    <3> SUFFICES ASSUME NEW p \in Decided, p.node = x.node PROVE FALSE
      OBVIOUS
    <3>1. p \in Said("PREPARE")
      BY DEF Decided
    <3> QED  BY <2>1, <2>2, <3>1 DEF TreeInv
  <2>4. {p.node : p \in Decided'} = {p.node : p \in Decided} \cup {x.node}
    BY <2>2
  <2>5. Tree!OneBranch'
    <3> SUFFICES ASSUME NEW c \in Decided', NEW d \in Decided'
                 PROVE  Tree!OnBranch(c.node, d.node)' \/ Tree!OnBranch(d.node, c.node)'
      BY DEF Tree!OneBranch
    <3>1. c.view \in Nat /\ d.view \in Nat
      BY DEF TreeInv, Decided
    <3>2. c.view <= d.view \/ d.view <= c.view
      BY <3>1
    <3> QED  BY <3>2 DEF TreeInv, DecidedOnOneChain
  <2> QED  BY <2>2, <2>3, <2>4, <2>5 DEF Tree!Decide
<1> QED  BY <1>4, <1>5

\* Every step of the core is a step of the tree or leaves it alone.
LEMMA TreeStep ==
    ASSUME TypeOK, Inv, TreeInv, TypeOK', TreeInv', [Next]_vars
    PROVE  [Tree!Next]_Tree!vars
<1>1. CASE \A q \in Server : Sent(q)' = Sent(q)
  <2>1. Messages' = Messages
    BY <1>1 DEF Messages
  <2>2. \A t, v, n : Voters(t, v, n)' = Voters(t, v, n)
    BY <1>1 DEF Voters
  <2>3. Said("PREPARE")' = Said("PREPARE") /\ Decided' = Decided
    BY <2>1, <2>2 DEF Said, Decided, Certified
  <2> QED  BY <2>3 DEF Tree!vars
<1>2. ASSUME NEW r \in Server, NEW m, Says(r, m) PROVE [Tree!Next]_Tree!vars
  <2>1. CASE Said("PREPARE")' = Said("PREPARE")
    BY <1>2, <2>1, VoteRefines DEF Tree!Next
  <2>2. CASE Said("PREPARE")' # Said("PREPARE")
    <3>1. m.type = "PREPARE" /\ m \notin Said("PREPARE")
      BY <1>2, <2>2, SaidStep
    <3> QED  BY <1>2, <3>1, ProposeRefines DEF Tree!Next
  <2> QED  BY <2>1, <2>2
<1> QED  BY <1>1, <1>2, StepSays

\* The core implements the abstract tree: whatever votes, certificates and timers
\* do, a step of it hangs one fresh node under a certified one, makes one more
\* node of a single branch final, or changes neither.
THEOREM AgreementRefined == Spec => ImplementsAgreement
<1>1. Init => Tree!Init
  BY NothingSaid DEF Tree!Init, Said, Decided
<1>2. TypeOK /\ Inv /\ TreeInv /\ TypeOK' /\ TreeInv' /\ [Next]_vars
      => [Tree!Next]_Tree!vars
  BY TreeStep
<1>3. TypeOK /\ Inv /\ PhaseInv => TreeInv
  BY TreeFacts
<1> QED
  BY <1>1, <1>2, <1>3, TypeCorrect, InvCorrect, PhaseCorrect, PTL
  DEF Spec, ImplementsAgreement, Tree!Spec

----------------------------------------------------------------------------
(* The stored blocks *)

\* A step of r that neither proposes nor votes for a proposal keeps its block, or
\* takes it to a later view.
LEMMA BlockKept ==
    ASSUME TypeOK, Inv, BlocksInv, NEW r \in Server, NEW S,
           \A q \in Server : Sent(q) \subseteq Sent(q)',
           Sent(r)' = Sent(r) \cup S, \A m \in S : m.type \notin {"PREPARE", "PREPARE_VOTE"},
           \/ /\ view'[r] = view[r] /\ bs'[r].blk = bs[r].blk
              /\ phase'[r] = "NEW_VIEW" => phase[r] = "NEW_VIEW"
           \/ view'[r] = view[r] + 1
    PROVE  BlockInv(r)'
<1>0. Said("PREPARE") \subseteq Said("PREPARE")'
  BY SaidGrows
<1>1. view[r] \in Nat
  BY DEF TypeOK
<1>2. \A m \in Sent(r) : m.view <= view[r] /\ m.view \in Int
  BY SaidBy DEF Inv, SentInv, Msg
<1>3. BlockInv(r)
  BY DEF BlocksInv
<1> QED  BY <1>0, <1>1, <1>2, <1>3 DEF BlockInv, KeepsBlock, HashOf

\* The state of node q that BlockInv speaks about is unchanged, except for r
Others(r) ==
    \A q \in Server : q # r =>
        /\ phase'[q] = phase[q] /\ view'[q] = view[q] /\ bs'[q] = bs[q]
        /\ Sent(q)' = Sent(q)

LEMMA BlocksLocal ==
    ASSUME BlocksInv, NEW r \in Server, Others(r), Sent(r) \subseteq Sent(r)', BlockInv(r)'
    PROVE  BlocksInv'
<1>0. Said("PREPARE") \subseteq Said("PREPARE")'
  BY SaidGrows DEF Others
<1> SUFFICES ASSUME NEW q \in Server, q # r PROVE BlockInv(q)'
  BY DEF BlocksInv
<1>1. BlockInv(q)
  BY DEF BlocksInv
<1> QED  BY <1>0, <1>1 DEF Others, BlockInv, KeepsBlock, HashOf

LEMMA BlocksFrame ==
    ASSUME BlocksInv, UNCHANGED <<phase, view, bs, sent>>
    PROVE  BlocksInv'
<1>1. \A q \in Server : Sent(q)' = Sent(q)
  BY DEF Sent
<1>2. Said("PREPARE")' = Said("PREPARE")
  BY <1>1 DEF Said, Messages
<1> QED  BY <1>1, <1>2 DEF BlocksInv, BlockInv, KeepsBlock, HashOf

\* A leader that proposes keeps the block it has made.
LEMMA BlockProposed ==
    ASSUME TypeOK, Inv, BlocksInv, TypeOK', NEW r \in Server, NEW c, NEW msgs,
           Propose(r, c, msgs), IsLeader(r), phase[r] \in {"NEW_VIEW", "WAITING"},
           view' = view
    PROVE  BlocksInv'
<1>1. PICK h \in msgs :
          /\ AdoptBlock(r, NewBlock(r, c))
          /\ phase' = [phase EXCEPT ![r] = "PREPARE"]
          /\ Send(r, [type |-> "PREPARE", view |-> view[r], src |-> r,
                      dst |-> Server, node |-> CreateLeaf(r, c, h.justify),
                      justify |-> h.justify, cmd |-> c, block |-> NewBlock(r, c)])
  BY DEF Propose
<1> DEFINE p == [type |-> "PREPARE", view |-> view[r], src |-> r,
                 dst |-> Server, node |-> CreateLeaf(r, c, h.justify),
                 justify |-> h.justify, cmd |-> c, block |-> NewBlock(r, c)]
<1>2. Says(r, p)
  BY <1>1, SendSays
<1>3. /\ p.type = "PREPARE" /\ p.block = NewBlock(r, c)
      /\ p.node.cur = HashOf(NewBlock(r, c))
  BY DEF CreateLeaf
<1> HIDE DEF p
<1>4. bs'[r].blk = NewBlock(r, c) /\ \A q \in Server : q # r => bs'[q] = bs[q]
  BY <1>1 DEF AdoptBlock, TypeOK, BlkStore
<1>5. \A m \in Sent(r) : m.type = "PREPARE" => m.view # view[r]
  BY DEF Inv, ProposalInv
<1>6. \A m \in Sent(r) : m.type = "PREPARE_VOTE" => r # Leader(m.view) /\ m.view # view[r]
  BY DEF BlocksInv, BlockInv, IsLeader
<1>7. BlockInv(r)'
  <2>1. ASSUME NEW q \in Sent(r)', q.type = "PREPARE"
        PROVE  /\ q.node.cur = HashOf(q.block)
               /\ q.view = view'[r] => KeepsBlock(r, q)'
    <3>1. CASE q = p
      <4>1. p \in Said("PREPARE")'
        BY <1>2, <1>3, SaidStep
      <4> QED  BY <1>3, <1>4, <3>1, <4>1 DEF KeepsBlock
    <3>2. CASE q \in Sent(r)
      BY <1>5, <2>1, <3>2 DEF BlocksInv, BlockInv
    <3> QED  BY <1>2, <3>1, <3>2 DEF Says
  <2>2. ASSUME NEW m \in Sent(r)', m.type = "PREPARE_VOTE"
        PROVE  r # Leader(m.view) /\ m.view # view'[r]
    BY <1>2, <1>3, <1>6, <2>2 DEF Says
  <2> QED  BY <2>1, <2>2 DEF BlockInv, HashOf
<1>8. Others(r)
  BY <1>1, <1>2, <1>4 DEF Others, Says, TypeOK
<1> QED  BY <1>2, <1>7, <1>8, BlocksLocal DEF Says

\* A replica that votes for a proposal keeps its block.
LEMMA BlockVoted ==
    ASSUME TypeOK, Inv, BlocksInv, TypeOK', NEW r \in Server, NEW s \in Server,
           NEW m \in Sent(s), HandlePrepare(r, m), AcceptsPrepare(r, m)
    PROVE  BlocksInv'
<1> DEFINE x == MkMsg("PREPARE_VOTE", m.view, r, {Leader(view[r])}, m.node, NilQC)
<1>1. /\ m.type = "PREPARE" /\ phase[r] = "NEW_VIEW" /\ ~IsLeader(r) /\ m.view = view[r]
      /\ phase' = [phase EXCEPT ![r] = "PREPARE"] /\ view' = view
      /\ AdoptBlock(r, m.block) /\ Send(r, x)
  BY DEF HandlePrepare, Expects, AcceptsPrepare
<1>2. /\ Says(r, x) /\ x.type = "PREPARE_VOTE" /\ x.view = view[r] /\ x.node = m.node
  BY <1>1, SendSays DEF MkMsg
<1> HIDE DEF x
<1>3. bs'[r].blk = m.block /\ \A q \in Server : q # r => bs'[q] = bs[q]
  BY <1>1 DEF AdoptBlock, TypeOK, BlkStore
<1>4. m.node.cur = HashOf(m.block)
  BY <1>1 DEF BlocksInv, BlockInv
<1>5. \A p \in Sent(r) : p.type = "PREPARE" => p.view # view[r]
  BY <1>1 DEF Inv, ProposalInv, IsLeader
<1>6. \A y \in Sent(r) : y.type = "PREPARE_VOTE" => r # Leader(y.view) /\ y.view # view[r]
  BY <1>1 DEF BlocksInv, BlockInv
<1>7. phase'[r] = "PREPARE" /\ view'[r] = view[r]
  BY <1>1 DEF TypeOK
<1>8. BlockInv(r)'
  <2>1. ASSUME NEW q \in Sent(r)', q.type = "PREPARE"
        PROVE  q.node.cur = HashOf(q.block) /\ q.view # view'[r]
    BY <1>2, <1>5, <1>7, <2>1 DEF Says, BlocksInv, BlockInv
  <2>2. ASSUME NEW y \in Sent(r)', y.type = "PREPARE_VOTE"
        PROVE  /\ r # Leader(y.view)
               /\ y.view = view'[r] => KeepsBlock(r, y)'
    <3>1. CASE y = x
      <4>1. m \in Said("PREPARE")'
        BY <1>1, <1>2, SaidBy, SaidStep DEF Said
      <4> QED  BY <1>1, <1>2, <1>3, <3>1, <4>1 DEF IsLeader, KeepsBlock
    <3>2. CASE y \in Sent(r)
      BY <1>6, <1>7, <2>2, <3>2
    <3> QED  BY <1>2, <3>1, <3>2 DEF Says
  <2> QED  BY <1>7, <2>1, <2>2 DEF BlockInv, HashOf
<1>9. Others(r)
  BY <1>1, <1>2, <1>3 DEF Others, Says, TypeOK
<1> QED  BY <1>2, <1>8, <1>9, BlocksLocal DEF Says

\* Every handler keeps BlocksInv.
LEMMA BlocksReceive ==
    ASSUME TypeOK, Inv, BlocksInv, TypeOK', NEW r \in Server, NEW s \in Server,
           NEW m \in Sent(s), HandleBMsg(r, m)
    PROVE  BlocksInv'
<1>1. ASSUME UNCHANGED <<phase, view, bs, sent>> PROVE BlocksInv'
  BY <1>1, BlocksFrame
<1>2. ASSUME NEW x, Send(r, x), x.type \notin {"PREPARE", "PREPARE_VOTE"},
             \/ view' = view /\ bs' = bs
             \/ view' = [view EXCEPT ![r] = @ + 1],
             \A q \in Server : q # r => bs'[q] = bs[q],
             NEW ph, phase' = [phase EXCEPT ![r] = ph],
             view' = view => ph # "NEW_VIEW"
      PROVE  BlocksInv'
  <2>1. Says(r, x) /\ phase'[r] = ph
    BY <1>2, SendSays DEF TypeOK
  <2>2. \/ view'[r] = view[r] /\ bs'[r].blk = bs[r].blk /\ phase'[r] # "NEW_VIEW"
        \/ view'[r] = view[r] + 1
    BY <1>2, <2>1 DEF TypeOK
  <2>3. BlockInv(r)'
    BY <1>2, <2>1, <2>2, BlockKept, ZenonT(60) DEF Says
  <2>4. Others(r)
    BY <1>2, <2>1 DEF Others, Says, TypeOK
  <2> QED  BY <2>1, <2>3, <2>4, BlocksLocal DEF Says
<1>3. phase = [phase EXCEPT ![r] = phase[r]]
  BY DEF TypeOK
<1>4. CASE Discard(r, m)
  BY <1>1, <1>4 DEF Discard, blkVars
<1>5. CASE HandleNewView(r, m)
  <2>1. CASE UNCHANGED <<phase, bs, sent>>
    BY <1>1, <1>5, <2>1 DEF HandleNewView
  <2>2. CASE phase' = [phase EXCEPT ![r] = "WAITING"] /\ UNCHANGED <<bs, sent>>
    <3>0. PICK S : S = {}
      OBVIOUS
    <3>1. view' = view /\ Sent(r)' = Sent(r) \cup S
      BY <1>5, <2>2, <3>0 DEF HandleNewView, Sent
    <3>2. phase'[r] = "WAITING" /\ Others(r)
      BY <2>2, <3>1 DEF TypeOK, Others, Sent
    <3>3. BlockInv(r)'
      BY <2>2, <3>0, <3>1, <3>2, BlockKept DEF Others
    <3> QED  BY <3>1, <3>2, <3>3, BlocksLocal
  <2>3. CASE \E c, ms : Propose(r, c, ms)
    BY <1>5, <2>3, BlockProposed DEF HandleNewView, Expects, AwaitsNewView
  <2> QED  BY <1>5, <2>1, <2>2, <2>3 DEF HandleNewView
<1>6. CASE HandlePrepare(r, m)
  <2>1. CASE ~AcceptsPrepare(r, m)
    BY <1>1, <1>6, <2>1 DEF HandlePrepare
  <2> QED  BY <1>6, <2>1, BlockVoted
<1>7. CASE HandlePrepareVote(r, m)
  BY <1>1, <1>2, <1>7 DEF HandlePrepareVote, MkMsg, blkVars
<1>8. CASE HandlePreCommit(r, m)
  BY <1>2, <1>8 DEF HandlePreCommit, MkMsg, blkVars
<1>9. CASE HandlePreCommitVote(r, m)
  BY <1>1, <1>2, <1>9 DEF HandlePreCommitVote, MkMsg, blkVars
<1>10. CASE HandleCommit(r, m)
  BY <1>2, <1>10 DEF HandleCommit, MkMsg, blkVars
<1>11. CASE HandleCommitVote(r, m)
  <2>1. phase[r] # "NEW_VIEW" /\ UNCHANGED <<phase, view, bs>>
    BY <1>11 DEF HandleCommitVote, Expects, blkVars
  <2> QED  BY <1>1, <1>2, <1>3, <1>11, <2>1 DEF HandleCommitVote, MkMsg
<1>12. CASE HandleDecide(r, m)
  <2>1. view' = [view EXCEPT ![r] = @ + 1] /\ view' # view
    <3>1. view \in [Server -> Nat]
      BY DEF TypeOK
    <3>2. view' = [view EXCEPT ![r] = @ + 1]
      BY <1>12 DEF HandleDecide
    <3>3. view'[r] = view[r] + 1 /\ view[r] \in Nat
      BY <3>1, <3>2
    <3> QED  BY <3>2, <3>3
  <2>2. \A q \in Server : q # r => bs'[q] = bs[q]
    BY <1>12 DEF HandleDecide, StoreBlock, TypeOK
  <2> QED  BY <1>2, <1>12, <2>1, <2>2 DEF HandleDecide, MkMsg
<1> QED
  BY <1>4, <1>5, <1>6, <1>7, <1>8, <1>9, <1>10, <1>11, <1>12 DEF HandleBMsg

\* Every step keeps BlocksInv.
LEMMA BlocksStep ==
    ASSUME TypeOK, Inv, BlocksInv, TypeOK', [Next]_vars
    PROVE  BlocksInv'
<1>1. ASSUME UNCHANGED <<phase, view, bs, sent>> PROVE BlocksInv'
  BY <1>1, BlocksFrame
<1>2. CASE \E r \in Server, c \in ClientCmds : GenNewReq(r, c)
  BY <1>1, <1>2 DEF GenNewReq, blkVars, netVars
<1>3. ASSUME NEW r \in Server, HandleReq(r) PROVE BlocksInv'
  <2>1. view' = view
    BY <1>3 DEF HandleReq
  <2>2. CASE UNCHANGED <<phase, bs, sent>>
    BY <1>1, <2>1, <2>2
  <2>3. CASE /\ IsLeader(r) /\ CanGenProposal(r)
             /\ Propose(r, requests[r], newViewMsgs[r])
    BY <2>1, <2>3, BlockProposed DEF CanGenProposal, IsWaitingReq
  <2> QED  BY <1>3, <2>2, <2>3 DEF HandleReq
<1>4. ASSUME NEW r \in Server, NEW s \in Server, Receive(r, s) PROVE BlocksInv'
  <2>1. PICK i \in Pending(r, s) : HandleBMsg(r, sent[s][i])
    BY <1>4 DEF Receive
  <2>2. sent[s][i] \in Sent(s)
    <3>1. i \in rcvd[r][s] + 1 .. Len(sent[s]) /\ rcvd[r][s] \in Nat /\ sent[s] \in Seq(Msg)
      BY DEF Pending, TypeOK
    <3>2. i \in DOMAIN sent[s]
      BY <3>1
    <3> QED  BY <3>2 DEF Sent
  <2> QED  BY <2>1, <2>2, BlocksReceive
<1>5. ASSUME NEW r \in Server, StartViewChange(r) PROVE BlocksInv'
  <2> DEFINE x == MkMsg("NEW_VIEW", view[r] + 1, r, {Leader(view[r] + 1)}, NilNode,
                        prepareQC[r])
  <2>1. Send(r, x) /\ view' = [view EXCEPT ![r] = @ + 1] /\ bs' = bs
    BY <1>5 DEF StartViewChange, blkVars
  <2>2. phase' = [phase EXCEPT ![r] = "NEW_VIEW"]
    BY <1>5 DEF StartViewChange
  <2>3. x.type = "NEW_VIEW"
    BY DEF MkMsg
  <2> HIDE DEF x
  <2>4. Says(r, x) /\ view'[r] = view[r] + 1
    BY <2>1, SendSays DEF TypeOK
  <2>5. BlockInv(r)'
    <3>1. Sent(r)' = Sent(r) \cup {x} /\ \A y \in {x} : y.type \notin {"PREPARE", "PREPARE_VOTE"}
      BY <2>3, <2>4 DEF Says
    <3> QED  BY <2>4, <3>1, BlockKept DEF Says
  <2>6. Others(r)
    BY <2>1, <2>2, <2>4 DEF Others, Says, TypeOK
  <2> QED  BY <2>4, <2>5, <2>6, BlocksLocal DEF Says
<1>6. CASE UNCHANGED vars
  BY <1>1, <1>6 DEF vars, blkVars, netVars
<1> QED  BY <1>2, <1>3, <1>4, <1>5, <1>6 DEF Next

\* CurProposalBlk stays the block of the node that was proposed or voted for, for
\* as long as the view lasts.
THEOREM BlocksCorrect == Spec => []BlocksInv
<1>1. Init => BlocksInv
  <2> SUFFICES ASSUME Init PROVE BlocksInv
    OBVIOUS
  <2>1. \A r \in Server : Sent(r) = {}
    BY DEF Init, Sent
  <2> QED  BY <2>1 DEF BlocksInv, BlockInv
<1>2. TypeOK /\ Inv /\ BlocksInv /\ TypeOK' /\ [Next]_vars => BlocksInv'
  BY BlocksStep
<1> QED  BY <1>1, <1>2, TypeCorrect, InvCorrect, PTL DEF Spec

\* A prepare certificate of N - 1 votes has one of every replica: the leader of the
\* view never votes.
LEMMA AllReplicasVoted ==
    ASSUME TypeOK, Inv, BlocksInv, QuorumSize = N - 1, NEW v \in Nat, NEW n,
           Certified("PREPARE", v, n), NEW r \in Server, r # Leader(v)
    PROVE  r \in Voters("PREPARE", v, n)
<1> DEFINE V == Voters("PREPARE", v, n)
           l == Leader(v)
<1>1. V \subseteq Server \ {l}
  BY DEF Voters, VoteFor, BlocksInv, BlockInv
<1>2. l \in Server /\ N \in Nat
  BY LeaderType, NAssumption
<1>3. /\ IsFiniteSet(Server \ {l}) /\ Cardinality(Server \ {l}) = N - 1
      /\ IsFiniteSet((Server \ {l}) \ {r})
      /\ Cardinality((Server \ {l}) \ {r}) = N - 1 - 1
  <2>1. IsFiniteSet(Server \ {l}) /\ Cardinality(Server \ {l}) = N - 1
    BY <1>2, ServerFinite, FS_RemoveElement
  <2> QED  BY <2>1, FS_RemoveElement
<1> SUFFICES ASSUME r \notin V PROVE FALSE
  OBVIOUS
<1>4. V \subseteq (Server \ {l}) \ {r}
  BY <1>1
<1>5. Cardinality(V) <= N - 1 - 1 /\ Cardinality(V) \in Nat
  BY <1>3, <1>4, FS_Subset, FS_CardinalityType
<1>6. Cardinality(V) >= N - 1
  BY DEF Certified
<1> QED  BY <1>2, <1>5, <1>6

\* When every replica has voted, the block a node is about to write is that of the
\* proposal which the commit certificate in m names.
LEMMA DecidesCertified ==
    ASSUME TypeOK, Inv, PhaseInv, BlocksInv, QuorumSize = N - 1,
           NEW r \in Server, NEW s \in Server, NEW m \in Sent(s), HandleDecide(r, m)
    PROVE  \E p \in Decided :
               /\ p.view = view[r] /\ p.node = m.justify.node
               /\ p.node.cur = HashOf(p.block) /\ bs[r].blk = p.block
<1> DEFINE n == m.justify.node
<1>1. /\ phase[r] = "COMMIT" /\ view[r] \in Nat
      /\ m.justify.type = "COMMIT" /\ m.justify.view = view[r]
      /\ ThresholdSignVerify(m.justify)
  BY DEF HandleDecide, Expects, CheckQC, TypeOK
<1>2. Certified("COMMIT", view[r], n) /\ Certified("PREPARE", view[r], n)
  BY <1>1, CommittedPrepared DEF Inv, QCInv, Backed
<1> HIDE DEF n
<1>3. PICK q \in Said("PREPARE") : q.view = view[r] /\ q.node = n
  BY <1>2, CertifiedProposal
<1>4. q \in Decided
  BY <1>2, <1>3 DEF Decided
<1>5. q.node.cur = HashOf(q.block)
  <2>1. PICK l \in Server : q \in Sent(l) /\ q.type = "PREPARE"
    BY SaidBy
  <2> QED  BY <2>1 DEF BlocksInv, BlockInv
<1>6. \E p \in Said("PREPARE") : p.view = view[r] /\ bs[r].blk = p.block
  <2>1. CASE r = Leader(view[r])
    <3>1. PICK p \in Sent(r) : p.type = "PREPARE" /\ p.view = view[r]
      BY <1>1, <2>1 DEF Inv, LeaderInv, IsLeader
    <3> QED  BY <3>1 DEF BlocksInv, BlockInv, KeepsBlock
  <2>2. CASE r # Leader(view[r])
    <3>1. r \in Voters("PREPARE", view[r], n)
      BY <1>1, <1>2, <2>2, AllReplicasVoted
    <3>2. PICK y \in Sent(r) : y.type = "PREPARE_VOTE" /\ y.view = view[r]
      BY <3>1 DEF Voters, VoteFor
    <3> QED  BY <3>2 DEF BlocksInv, BlockInv, KeepsBlock
  <2> QED  BY <2>1, <2>2
<1>7. bs[r].blk = q.block
  BY <1>3, <1>6, OneProposal
<1> QED  BY <1>3, <1>4, <1>5, <1>7 DEF n

\* With four nodes, where a quorum is every replica, the block that HandleDecide
\* writes is the one the commit certificate names: a node that HandlePreCommit let
\* in without the proposal cannot be in a view that is decided.
THEOREM StoresCertifiedBlockCorrect ==
    ASSUME N = 4
    PROVE  Spec => StoresCertifiedBlock
<1> DEFINE Stores ==
        \A r \in Server : bs'[r].height # bs[r].height =>
          \E m \in Said("DECIDE") :
              /\ m.view = view[r]
              /\ ThresholdSignVerify(m.justify)
              /\ m.justify.node.cur = HashOf(bs[r].blk)
<1>1. TypeOK /\ Inv /\ PhaseInv /\ BlocksInv /\ [Next]_vars => [Stores]_vars
  <2> SUFFICES ASSUME TypeOK, Inv, PhaseInv, BlocksInv, [Next]_vars,
                      NEW r \in Server, bs'[r].height # bs[r].height
               PROVE  \E m \in Said("DECIDE") :
                          /\ m.view = view[r]
                          /\ ThresholdSignVerify(m.justify)
                          /\ m.justify.node.cur = HashOf(bs[r].blk)
    OBVIOUS
  <2>0. QuorumSize = N - 1
    BY DEF QuorumSize
  <2>1. PICK s \in Server : \E m \in Sent(s) : HandleDecide(r, m)
    <3>1. ASSUME NEW q \in Server, NEW b, AdoptBlock(q, b) PROVE FALSE
      BY <3>1 DEF AdoptBlock, TypeOK, BlkStore
    <3>2. ASSUME NEW q \in Server, NEW c, NEW ms, Propose(q, c, ms) PROVE FALSE
      BY <3>1, <3>2 DEF Propose
    <3>3. ASSUME UNCHANGED bs PROVE FALSE
      BY <3>3
    <3>4. ASSUME NEW q \in Server, HandleReq(q) PROVE FALSE
      BY <3>2, <3>3, <3>4 DEF HandleReq
    <3>5. ASSUME NEW q \in Server, \/ StartViewChange(q)
                                   \/ \E c \in ClientCmds : GenNewReq(q, c)
          PROVE FALSE
      BY <3>3, <3>5 DEF StartViewChange, GenNewReq, blkVars
    <3>6. PICK q \in Server, s \in Server : Receive(q, s)
      BY <3>3, <3>4, <3>5 DEF Next, vars, blkVars
    <3>7. PICK i \in Pending(q, s) : HandleBMsg(q, sent[s][i])
      BY <3>6 DEF Receive
    <3> DEFINE m == sent[s][i]
    <3>8. m \in Sent(s)
      <4>1. i \in rcvd[q][s] + 1 .. Len(sent[s]) /\ rcvd[q][s] \in Nat /\ sent[s] \in Seq(Msg)
        BY DEF Pending, TypeOK
      <4>2. i \in DOMAIN sent[s]
        BY <4>1
      <4> QED  BY <4>2 DEF Sent
    <3>9. HandleBMsg(q, m)
      BY <3>7
    <3> HIDE DEF m
    <3>10. ~ HandleNewView(q, m) /\ ~ HandlePrepare(q, m)
      BY <3>1, <3>2, <3>3 DEF HandleNewView, HandlePrepare
    <3>11. HandleDecide(q, m)
      BY <3>3, <3>9, <3>10
      DEF HandleBMsg, Discard, HandlePrepareVote, HandlePreCommit, HandlePreCommitVote,
          HandleCommit, HandleCommitVote, blkVars
    <3>12. q = r
      BY <3>11 DEF HandleDecide, StoreBlock, TypeOK
    <3> QED  BY <3>8, <3>11, <3>12
  <2> PICK m \in Sent(s) : HandleDecide(r, m)
    BY <2>1
  <2>2. /\ m \in Said("DECIDE") /\ m.view = view[r] /\ ThresholdSignVerify(m.justify)
    BY SaidBy DEF HandleDecide, Expects, CheckQC, Said
  <2>3. m.justify.node.cur = HashOf(bs[r].blk)
    BY <2>0, DecidesCertified
  <2> QED  BY <2>2, <2>3
<1>2. StoresCertifiedBlock <=> [][Stores]_vars
  BY DEF StoresCertifiedBlock
<1> HIDE DEF Stores
<1> QED
  BY <1>1, <1>2, TypeCorrect, InvCorrect, PhaseCorrect, BlocksCorrect, PTL DEF Spec

----------------------------------------------------------------------------
(* The same data on all nodes, as long as no timer expires *)

\* Height counts the views a node has been through, a block has the height of its
\* view, and a file holds the block proposed in the view it is named after.
StoreInv(r) ==
    /\ bs[r].height = view[r]
    /\ \A p \in Sent(r) : p.type = "PREPARE" => p.block.height = p.view
    /\ \A h \in DOMAIN store[r] :
          /\ h < view[r]
          /\ \E p \in Said("PREPARE") : p.view = h /\ store[r][h] = p.block

StoresInv == \A r \in Server : StoreInv(r)

\* A step that stores nothing, and proposes at most a block of its height, keeps
\* StoreInv.
LEMMA StoreKept ==
    ASSUME StoresInv, NEW r \in Server, \A q \in Server : Sent(q) \subseteq Sent(q)',
           view'[r] = view[r], bs'[r].height = bs[r].height, store'[r] = store[r],
           \A p \in Sent(r)' : p \in Sent(r) \/ p.type # "PREPARE"
                               \/ (p.block.height = bs[r].height /\ p.view = view[r])
    PROVE  StoreInv(r)'
<1>1. Said("PREPARE") \subseteq Said("PREPARE")'
  BY SaidGrows
<1> QED  BY <1>1 DEF StoresInv, StoreInv

\* HandleDecide writes the block of the decided view under the number of the view.
LEMMA StoreDecided ==
    ASSUME TypeOK, Inv, PhaseInv, BlocksInv, StoresInv, TypeOK', QuorumSize = N - 1,
           NEW r \in Server, NEW s \in Server, NEW m \in Sent(s), HandleDecide(r, m)
    PROVE  /\ StoresInv'
           /\ \A h \in DOMAIN store[r] : store'[r][h] = store[r][h]
<1> DEFINE b == bs[r].blk
<1>1. PICK p \in Decided : p.view = view[r] /\ b = p.block
  BY DecidesCertified
<1>2. p \in Said("PREPARE") /\ view[r] \in Nat
  BY DEF Decided, TypeOK
<1>3. b.height = view[r]
  <2>1. PICK l \in Server : p \in Sent(l) /\ p.type = "PREPARE"
    BY <1>2, SaidBy
  <2> QED  BY <1>1, <2>1 DEF StoresInv, StoreInv
<1> HIDE DEF b
<1>4. /\ store' = [store EXCEPT ![r] = WriteBlock(store[r], b)]
      /\ bs' = [bs EXCEPT ![r] = [height |-> bs[r].height + 1, pre |-> bs[r].cur,
                                  cur |-> NilHash, blk |-> bs[r].blk]]
      /\ view' = [view EXCEPT ![r] = @ + 1]
  BY DEF HandleDecide, StoreBlock, b
<1>5. store = [q \in Server |-> store[q]]
  BY DEF TypeOK
<1>6. /\ store'[r] = WriteBlock(store[r], b)
      /\ \A q \in Server : q # r => store'[q] = store[q]
  BY <1>4, <1>5
<1>7. /\ view'[r] = view[r] + 1 /\ bs'[r].height = bs[r].height + 1
      /\ \A q \in Server : q # r => view'[q] = view[q] /\ bs'[q] = bs[q]
  BY <1>4 DEF TypeOK
<1>8. \A h \in DOMAIN store[r] : h < view[r] /\ h \in Int
  BY DEF StoresInv, StoreInv, TypeOK
<1>9. /\ DOMAIN store'[r] = DOMAIN store[r] \cup {view[r]}
      /\ store'[r][view[r]] = b
      /\ \A h \in DOMAIN store[r] : store'[r][h] = store[r][h]
  <2>1. view[r] \notin DOMAIN store[r]
    BY <1>2, <1>8
  <2> QED  BY <1>3, <1>6, <2>1 DEF WriteBlock
<1> DEFINE x == MkMsg("NEW_VIEW", view[r] + 1, r, {Leader(view[r] + 1)}, NilNode,
                      prepareQC[r])
<1>10. Send(r, x) /\ x.type = "NEW_VIEW"
  BY DEF HandleDecide, MkMsg
<1> HIDE DEF x
<1>11. Says(r, x)
  BY <1>10, SendSays
<1>12. Said("PREPARE")' = Said("PREPARE")
  BY <1>10, <1>11, SaidStep
<1>13. StoreInv(r)'
  <2>1. StoreInv(r)
    BY DEF StoresInv
  <2>2. \A q \in Sent(r)' : q.type = "PREPARE" => q \in Sent(r)
    BY <1>10, <1>11 DEF Says
  <2>3. \A h \in DOMAIN store'[r] :
          h < view[r] + 1 /\ \E q \in Said("PREPARE") : q.view = h /\ store'[r][h] = q.block
    <3> SUFFICES ASSUME NEW h \in DOMAIN store'[r]
                 PROVE  h < view[r] + 1 /\ \E q \in Said("PREPARE") :
                                              q.view = h /\ store'[r][h] = q.block
      OBVIOUS
    <3>1. CASE h \in DOMAIN store[r]
      BY <1>2, <1>8, <1>9, <2>1, <3>1 DEF StoreInv
    <3>2. CASE h = view[r]
      BY <1>1, <1>2, <1>9, <3>2
    <3> QED  BY <1>9, <3>1, <3>2
  <2>4. bs[r].height + 1 = view[r] + 1
    BY <2>1 DEF StoreInv
  <2> QED  BY <1>7, <1>12, <2>1, <2>2, <2>3, <2>4 DEF StoreInv
<1>14. ASSUME NEW q \in Server, q # r PROVE StoreInv(q)'
  BY <1>6, <1>7, <1>11, <1>12, <1>14 DEF StoresInv, StoreInv, Says
<1> QED  BY <1>9, <1>13, <1>14 DEF StoresInv

\* Every step keeps StoresInv, and no file is overwritten.
LEMMA StoresStep ==
    ASSUME TypeOK, Inv, PhaseInv, BlocksInv, StoresInv, TypeOK', [Next]_vars,
           QuorumSize = N - 1, MaxTimeouts = 0
    PROVE  /\ StoresInv'
           /\ \A r \in Server : \A h \in DOMAIN store[r] : store'[r][h] = store[r][h]
<1> DEFINE Goal == /\ StoresInv'
                   /\ \A r \in Server : \A h \in DOMAIN store[r] : store'[r][h] = store[r][h]
<1>0. \A q \in Server : Sent(q) \subseteq Sent(q)'
  BY SentGrows
<1>1. ASSUME UNCHANGED <<view, store>>,
             \A r \in Server : bs'[r].height = bs[r].height,
             \A r \in Server : \A p \in Sent(r)' :
                 p \in Sent(r) \/ p.type # "PREPARE"
                 \/ (p.block.height = bs[r].height /\ p.view = view[r])
      PROVE  Goal
  BY <1>0, <1>1, StoreKept DEF StoresInv
<1>2. ASSUME UNCHANGED <<view, store, bs, sent>> PROVE Goal
  BY <1>1, <1>2 DEF Sent
<1>3. ASSUME NEW r \in Server, NEW x, Send(r, x), x.type # "PREPARE",
             UNCHANGED <<view, store>>, \A q \in Server : bs'[q].height = bs[q].height
      PROVE  Goal
  BY <1>1, <1>3, SendSays DEF Says
<1>4. ASSUME NEW r \in Server, NEW b, AdoptBlock(r, b)
      PROVE  \A q \in Server : bs'[q].height = bs[q].height
  BY <1>4 DEF AdoptBlock, TypeOK, BlkStore
<1>5. ASSUME NEW r \in Server, NEW c, NEW ms, Propose(r, c, ms), UNCHANGED <<view, store>>
      PROVE  Goal
  <2>1. PICK h \in ms :
          /\ AdoptBlock(r, NewBlock(r, c))
          /\ Send(r, [type |-> "PREPARE", view |-> view[r], src |-> r,
                      dst |-> Server, node |-> CreateLeaf(r, c, h.justify),
                      justify |-> h.justify, cmd |-> c, block |-> NewBlock(r, c)])
    BY <1>5 DEF Propose
  <2> DEFINE p == [type |-> "PREPARE", view |-> view[r], src |-> r,
                   dst |-> Server, node |-> CreateLeaf(r, c, h.justify),
                   justify |-> h.justify, cmd |-> c, block |-> NewBlock(r, c)]
  <2>2. Says(r, p)
    BY <2>1, SendSays
  <2>3. p.view = view[r] /\ p.block.height = bs[r].height
    BY DEF NewBlock
  <2> HIDE DEF p
  <2> QED  BY <1>1, <1>4, <1>5, <2>1, <2>2, <2>3 DEF Says
<1>6. ASSUME NEW r \in Server, NEW s \in Server, NEW m \in Sent(s), HandleBMsg(r, m)
      PROVE  Goal
  <2>1. CASE Discard(r, m)
    BY <1>2, <2>1 DEF Discard, blkVars
  <2>2. CASE HandleNewView(r, m)
    BY <1>2, <1>5, <2>2 DEF HandleNewView
  <2>3. CASE HandlePrepare(r, m)
    BY <1>2, <1>3, <1>4, <2>3 DEF HandlePrepare, MkMsg
  <2>4. CASE HandlePrepareVote(r, m) \/ HandlePreCommitVote(r, m) \/ HandleCommitVote(r, m)
    BY <1>2, <1>3, <2>4
    DEF HandlePrepareVote, HandlePreCommitVote, HandleCommitVote, MkMsg, blkVars
  <2>5. CASE HandlePreCommit(r, m) \/ HandleCommit(r, m)
    BY <1>3, <2>5 DEF HandlePreCommit, HandleCommit, MkMsg, blkVars
  <2>6. CASE HandleDecide(r, m)
    <3>1. \A q \in Server : q # r => store'[q] = store[q]
      <4>1. store = [q \in Server |-> store[q]]
        BY DEF TypeOK
      <4> QED  BY <2>6, <4>1 DEF HandleDecide, StoreBlock
    <3> QED  BY <2>6, <3>1, StoreDecided
  <2> QED  BY <1>6, <2>1, <2>2, <2>3, <2>4, <2>5, <2>6 DEF HandleBMsg
<1>7. ASSUME NEW r \in Server, NEW s \in Server, Receive(r, s) PROVE Goal
  <2>1. PICK i \in Pending(r, s) : HandleBMsg(r, sent[s][i])
    BY <1>7 DEF Receive
  <2>2. sent[s][i] \in Sent(s)
    <3>1. i \in rcvd[r][s] + 1 .. Len(sent[s]) /\ rcvd[r][s] \in Nat /\ sent[s] \in Seq(Msg)
      BY DEF Pending, TypeOK
    <3>2. i \in DOMAIN sent[s]
      BY <3>1
    <3> QED  BY <3>2 DEF Sent
  <2> QED  BY <1>6, <2>1, <2>2
<1>8. ASSUME NEW r \in Server, HandleReq(r) PROVE Goal
  BY <1>2, <1>5, <1>8 DEF HandleReq
<1>9. ASSUME NEW r \in Server, NEW c \in ClientCmds, GenNewReq(r, c) PROVE Goal
  BY <1>2, <1>9 DEF GenNewReq, blkVars, netVars
<1>10. ASSUME NEW r \in Server, StartViewChange(r) PROVE FALSE
  BY <1>10 DEF StartViewChange, TypeOK
<1>11. CASE UNCHANGED vars
  BY <1>2, <1>11 DEF vars, blkVars, netVars
<1> QED  BY <1>7, <1>8, <1>9, <1>10, <1>11 DEF Next

\* Four nodes whose timers do not expire start and stay in StoresInv.
LEMMA StoresCorrect ==
    ASSUME N = 4, MaxTimeouts = 0
    PROVE  Spec => []StoresInv
<1>1. Init => StoresInv
  <2> SUFFICES ASSUME Init PROVE StoresInv
    OBVIOUS
  <2>1. \A r \in Server : Sent(r) = {} /\ DOMAIN store[r] = {}
    BY DEF Init, Sent
  <2> QED  BY <2>1 DEF StoresInv, StoreInv, Init
<1>2. QuorumSize = N - 1
  BY DEF QuorumSize
<1>3. TypeOK /\ Inv /\ PhaseInv /\ BlocksInv /\ StoresInv /\ TypeOK' /\ [Next]_vars
      => StoresInv'
  BY <1>2, StoresStep
<1> QED
  BY <1>1, <1>3, TypeCorrect, InvCorrect, PhaseCorrect, BlocksCorrect, PTL DEF Spec

\* README's promise that all nodes have the same data, for four nodes, any views
\* below 256 and any message delays, while no timer expires: with one expiry the
\* run data_consistence breaks it.
THEOREM DataConsistenceCorrect ==
    ASSUME N = 4, MaxTimeouts = 0
    PROVE  Spec => []DataConsistence
<1>1. TypeOK /\ Inv /\ StoresInv => DataConsistence
  <2> SUFFICES ASSUME TypeOK, Inv, StoresInv, NEW r \in Server, NEW s \in Server,
                      NEW h \in DOMAIN store[r] \cap DOMAIN store[s]
               PROVE  store[r][h] = store[s][h]
    BY DEF DataConsistence
  <2>1. PICK p \in Said("PREPARE") : p.view = h /\ store[r][h] = p.block
    BY DEF StoresInv, StoreInv
  <2>2. PICK q \in Said("PREPARE") : q.view = h /\ store[s][h] = q.block
    BY DEF StoresInv, StoreInv
  <2> QED  BY <2>1, <2>2, OneProposal
<1> QED  BY <1>1, TypeCorrect, InvCorrect, StoresCorrect, PTL

\* Under the same conditions WriteBlock never replaces a file by another block.
THEOREM BlocksDurableCorrect ==
    ASSUME N = 4, MaxTimeouts = 0
    PROVE  Spec => BlocksDurable
<1> DEFINE Kept == \A r \in Server : \A h \in DOMAIN store[r] : store'[r][h] = store[r][h]
<1>1. QuorumSize = N - 1
  BY DEF QuorumSize
<1>2. TypeOK /\ Inv /\ PhaseInv /\ BlocksInv /\ StoresInv /\ TypeOK' /\ [Next]_vars
      => [Kept]_vars
  BY <1>1, StoresStep
<1>3. BlocksDurable <=> [][Kept]_vars
  BY DEF BlocksDurable
<1> HIDE DEF Kept
<1> QED
  BY <1>2, <1>3, TypeCorrect, InvCorrect, PhaseCorrect, BlocksCorrect, StoresCorrect, PTL
  DEF Spec
=============================================================================
