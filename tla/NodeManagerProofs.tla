-------------------------- MODULE NodeManagerProofs --------------------------
(***************************************************************************)
(* Proofs about NodeManager, for every number of nodes at the start, every *)
(* number of joins and exits, and every way in which they overlap.         *)
(***************************************************************************)
EXTENDS NodeManager, TLAPS, FiniteSetTheorems, NaturalsInduction

----------------------------------------------------------------------------
(* Numbers and sets *)

\* A non-empty set of numbers has a least one.
LEMMA LeastOf ==
    ASSUME NEW T \in SUBSET Nat, T # {}
    PROVE  \E x \in T : \A y \in T : x <= y
<1>1. PICK x \in T : \A y \in T : ~ (<<y, x>> \in OpToRel(<, Nat))
  BY NatLessThanWellFounded, WFMin, Zenon
<1>2. \A y \in T : ~ (y < x)
  BY <1>1 DEF OpToRel
<1>3. \A y \in T : x <= y
  BY <1>2
<1> QED  BY <1>3

\* GetHighQCIndex scans the list: whatever it compares, it ends at one of the messages.
LEMMA HighIndex ==
    ASSUME NEW msgs \in Seq(Msg), Len(msgs) > 0
    PROVE  GetHighQCIndex(msgs) \in DOMAIN msgs
<1> DEFINE n == Len(msgs)
           Body(f, i) == IF i = 1 THEN [idx |-> 1, view |-> msgs[1].qc]
                         ELSE IF msgs[i].qc > f[i - 1].view
                              THEN [idx |-> i, view |-> msgs[i].view]
                              ELSE f[i - 1]
           Scans(f, k) == f = [i \in 1 .. k |-> Body(f, i)]
           F == CHOOSE f : Scans(f, n)
<1>1. n \in Nat /\ n > 0 /\ DOMAIN msgs = 1 .. n
  OBVIOUS
<1>2. \E f : Scans(f, n)
  <2> SUFFICES ASSUME ~ \E f : Scans(f, n) PROVE FALSE
    OBVIOUS
  <2> DEFINE T == {k \in 1 .. n : ~ \E f : Scans(f, k)}
  <2>1. T \in SUBSET Nat /\ T # {}
    <3> HIDE DEF Scans, n
    <3>1. n \in T
      BY <1>1
    <3>2. \A k \in T : k \in 1 .. n
      OBVIOUS
    <3> HIDE DEF T
    <3> QED  BY <1>1, <3>1, <3>2
  <2>2. PICK k \in T : \A y \in T : k <= y
    <3> HIDE DEF T
    <3> QED  BY <2>1, LeastOf
  <2>3. k \in 1 .. n /\ ~ \E f : Scans(f, k)
    OBVIOUS
  <2>4. CASE k = 1
    <3> DEFINE g == [i \in 1 .. 1 |-> [idx |-> 1, view |-> msgs[1].qc]]
    <3>1. \A i \in 1 .. 1 : g[i] = Body(g, i)
      OBVIOUS
    <3>2. Scans(g, 1)
      BY <3>1
    <3> QED  BY <2>3, <2>4, <3>2
  <2>5. CASE k # 1
    <3>1. k - 1 \in 1 .. n /\ ~ (k <= k - 1)
      BY <1>1, <2>3, <2>5
    <3>2. PICK f : Scans(f, k - 1)
      BY <2>2, <3>1
    <3> DEFINE g == [i \in 1 .. k |-> IF i = k THEN Body(f, k) ELSE f[i]]
    <3>3. ASSUME NEW i \in 1 .. k PROVE g[i] = Body(g, i)
      <4>1. CASE i = k
        <5>1. k - 1 \in 1 .. k /\ k - 1 # k
          BY <2>3, <2>5
        <5>2. g[k - 1] = f[k - 1]
          BY <5>1
        <5> QED  BY <4>1, <5>2
      <4>2. CASE i # k
        <5>1. i \in 1 .. k - 1
          BY <2>3, <4>2
        <5>2. f[i] = Body(f, i)
          BY <3>2, <5>1
        <5>3. i # 1 => i - 1 \in 1 .. k /\ i - 1 # k
          BY <2>3, <5>1
        <5>4. i # 1 => g[i - 1] = f[i - 1]
          BY <5>3
        <5> QED  BY <4>2, <5>2, <5>4
      <4> QED  BY <4>1, <4>2
    <3>4. g = [i \in 1 .. k |-> g[i]]
      OBVIOUS
    <3> HIDE DEF g
    <3>5. Scans(g, k)
      BY <3>3, <3>4
    <3> QED  BY <2>3, <3>5
  <2> QED  BY <2>4, <2>5
<1>3. Scans(F, n)
  BY <1>2
<1>4. GetHighQCIndex(msgs) = F[n].idx
  BY DEF GetHighQCIndex
<1> HIDE DEF F
<1>5. \A i \in 1 .. n : F[i] = Body(F, i)
  BY <1>3
<1>6. \A i \in 1 .. n : F[i].idx \in 1 .. n
  <2> SUFFICES ASSUME NEW j \in 1 .. n, F[j].idx \notin 1 .. n PROVE FALSE
    OBVIOUS
  <2> DEFINE T == {i \in 1 .. n : F[i].idx \notin 1 .. n}
  <2>1. T \in SUBSET Nat /\ T # {}
    BY <1>1
  <2>2. PICK i \in T : \A y \in T : i <= y
    <3> HIDE DEF T
    <3> QED  BY <2>1, LeastOf
  <2>3. i \in 1 .. n /\ F[i].idx \notin 1 .. n
    OBVIOUS
  <2>4. i # 1 /\ F[i] = F[i - 1]
    <3>1. F[i] = Body(F, i)
      BY <1>5, <2>3
    <3>2. i = 1 => F[i].idx = 1
      BY <3>1
    <3>3. i # 1 /\ msgs[i].qc > F[i - 1].view => F[i].idx = i
      BY <3>1
    <3> QED  BY <1>1, <2>3, <3>1, <3>2, <3>3
  <2>5. i - 1 \in T
    BY <1>1, <2>3, <2>4
  <2>6. ~ (i <= i - 1)
    BY <1>1, <2>3
  <2> QED  BY <2>2, <2>5, <2>6
<1> QED  BY <1>1, <1>4, <1>6



\* There are finitely many names, so a set of them has at most as many members.
LEMMA CountOf ==
    ASSUME NEW S \in SUBSET Node, S # {}
    PROVE  Cardinality(S) \in 1 .. N + MaxJoins
<1> DEFINE k == N + MaxJoins
<1>1. k \in Nat /\ k > 0
  BY NAssumption, BoundAssumption
<1>2. IsFiniteSet(Node) /\ Cardinality(Node) = k
  <2>1. 0 \in Int /\ k - 1 \in Int /\ ~ (0 > k - 1)
    BY <1>1
  <2>2. IsFiniteSet(0 .. k - 1)
           /\ Cardinality(0 .. k - 1) = IF 0 > k - 1 THEN 0 ELSE k - 1 - 0 + 1
    BY <2>1, FS_Interval
  <2>3. Node = 0 .. k - 1
    <3>1. k - 1 = N + MaxJoins - 1
      BY NAssumption, BoundAssumption
    <3> HIDE DEF k
    <3> QED  BY <3>1 DEF Node
  <2> HIDE DEF k
  <2> QED  BY <1>1, <2>1, <2>2, <2>3
<1>3. IsFiniteSet(S) /\ Cardinality(S) <= Cardinality(Node)
  BY <1>2, FS_Subset
<1>4. Cardinality(S) \in Nat /\ Cardinality(S) # 0
  BY <1>3, FS_CardinalityType, FS_EmptySet
<1> HIDE DEF k
<1> QED  BY <1>1, <1>2, <1>3, <1>4 DEF k

LEMMA NodeType ==
    /\ Node \subseteq Nat /\ N + MaxJoins \in Nat
    /\ None \notin Node /\ None # Shared + 1 /\ Shared \notin Node
    /\ \A n \in 1 .. N + MaxJoins, a \in Int : a % n \in Node
<1>1. N \in Nat /\ MaxJoins \in Nat
  BY NAssumption, BoundAssumption
<1>2. ASSUME NEW n \in 1 .. N + MaxJoins, NEW a \in Int PROVE a % n \in Node
  <2>1. n \in Nat /\ n > 0 /\ n <= N + MaxJoins
    BY <1>1
  <2>2. a % n \in 0 .. n - 1
    BY <2>1
  <2> QED  BY <1>1, <2>1, <2>2 DEF Node
<1> QED  BY <1>1, <1>2 DEF Node, None, Shared

\* A quorum is asked of at least one node.
LEMMA ThresholdType == ASSUME NEW n \in 1 .. N + MaxJoins PROVE Threshold(n) \in Nat
<1>1. n \in Nat /\ n > 0
  BY NodeType
<1>2. (n - 1) \div 3 \in Nat
  BY <1>1
<1> QED  BY <1>2 DEF Threshold

LEMMA ChanType ==
    ASSUME TypeOK, NEW s \in Node, NEW x
    PROVE  ChanOf(s, x) \in Node \cup {None}
<1>1. mapOf[s] \in DOMAIN chans
  BY DEF TypeOK
<1> QED  BY <1>1 DEF TypeOK, ChanOf

LEMMA ConstTypes ==
    /\ NoNode \in [name : Node \cup {None}, chan : Node \cup {None}]
    /\ Idle \in [kind : {"IDLE", "BLOCKED", "EXIT"} \cup MgmtMsg, node : Node \cup {None}]
    /\ Blocked \in [kind : {"IDLE", "BLOCKED", "EXIT"} \cup MgmtMsg, node : Node \cup {None}]
    /\ Idle.kind = "IDLE" /\ Blocked.kind = "BLOCKED"
BY DEF NoNode, Idle, Blocked

LEMMA MkMsgType ==
    ASSUME NEW t \in ConsMsg \cup MgmtMsg, NEW s \in Node, NEW d \in Node, NEW v \in Nat
    PROVE  /\ MkMsg(t, s, d, v) \in Msg
           /\ MkMsg(t, s, d, v).type = t /\ MkMsg(t, s, d, v).src = s
           /\ MkMsg(t, s, d, v).dst = d
BY DEF MkMsg, Msg

\* A broadcast goes from s to the readers of its channels.
LEMMA BroadcastType ==
    ASSUME TypeOK, NEW s \in Node, NEW t \in ConsMsg \cup MgmtMsg, NEW v \in Nat
    PROVE  /\ Broadcast(s, t, v) \subseteq Msg /\ Gossip(s, t, v) \subseteq Broadcast(s, t, v)
           /\ \A m \in Broadcast(s, t, v) :
                 m.type = t /\ \E x \in Channels(s) : m.dst = ChanOf(s, x)
<1>1. ASSUME NEW x \in Channels(s)
      PROVE  MkMsg(t, s, ChanOf(s, x), v) \in Msg /\ MkMsg(t, s, ChanOf(s, x), v).type = t
             /\ MkMsg(t, s, ChanOf(s, x), v).dst = ChanOf(s, x)
  <2>1. ChanOf(s, x) \in Node
    BY ChanType DEF Channels
  <2> QED  BY <2>1, MkMsgType
<1>2. Gossip(s, t, v) \subseteq Broadcast(s, t, v)
  BY DEF Gossip, Broadcast
<1> QED  BY <1>1, <1>2 DEF Broadcast

LEMMA PrepareType == ASSUME TypeOK, NEW s \in Node PROVE Prepare(s) \subseteq Msg
<1>1. view[s].num \in Nat /\ height[s] \in Nat
  BY DEF TypeOK, View
<1>2. Broadcast(s, "PREPARE", view[s].num) \subseteq Msg
  BY <1>1, BroadcastType DEF ConsMsg
<1>3. \A m \in Msg : [m EXCEPT !.blk = height[s]] \in Msg
  BY <1>1 DEF Msg
<1> QED  BY <1>2, <1>3 DEF Prepare

----------------------------------------------------------------------------
(* Links *)

\* The queues hold messages from their first node to their second.
Queues(l) ==
    /\ l \in [Node -> [Node -> Seq(Msg)]]
    /\ \A s, d \in Node : \A i \in DOMAIN l[s][d] : l[s][d][i].src = s /\ l[s][d][i].dst = d

LEMMA LinkQueues == TypeOK /\ NetInv => Queues(link)
  BY DEF TypeOK, NetInv, Queues

LEMMA SentType ==
    ASSUME NEW l, Queues(l), NEW ms \in SUBSET Msg
    PROVE  Queues(Sent(l, ms))
<1> DEFINE more(s, d) == IF \E m \in ms : m.src = s /\ m.dst = d
                         THEN <<CHOOSE m \in ms : m.src = s /\ m.dst = d>> ELSE <<>>
<1>1. ASSUME NEW s \in Node, NEW d \in Node
      PROVE  more(s, d) \in Seq(Msg) /\ \A i \in DOMAIN more(s, d) :
                                           more(s, d)[i].src = s /\ more(s, d)[i].dst = d
  <2>1. CASE \E m \in ms : m.src = s /\ m.dst = d
    <3> DEFINE c == CHOOSE m \in ms : m.src = s /\ m.dst = d
    <3>1. c \in ms /\ c.src = s /\ c.dst = d
      BY <2>1
    <3>2. more(s, d) = <<c>>
      BY <2>1
    <3> HIDE DEF c
    <3> QED  BY <3>1, <3>2
  <2>2. CASE ~ \E m \in ms : m.src = s /\ m.dst = d
    BY <2>2
  <2> QED  BY <2>1, <2>2
<1>2. Sent(l, ms) = [s \in Node |-> [d \in Node |-> l[s][d] \o more(s, d)]]
  BY DEF Sent
<1> HIDE DEF more
<1>3. ASSUME NEW s \in Node, NEW d \in Node
      PROVE  /\ l[s][d] \o more(s, d) \in Seq(Msg)
             /\ \A i \in DOMAIN (l[s][d] \o more(s, d)) :
                   (l[s][d] \o more(s, d))[i].src = s /\ (l[s][d] \o more(s, d))[i].dst = d
  <2>1. l[s][d] \in Seq(Msg)
    BY DEF Queues
  <2>2. \A i \in DOMAIN l[s][d] : l[s][d][i].src = s /\ l[s][d][i].dst = d
    BY DEF Queues
  <2> DEFINE a == l[s][d]
             b == more(s, d)
  <2>3. a \in Seq(Msg) /\ b \in Seq(Msg)
    BY <1>1, <2>1
  <2>4. (\A i \in DOMAIN a : a[i].src = s /\ a[i].dst = d)
        /\ \A i \in DOMAIN b : b[i].src = s /\ b[i].dst = d
    BY <1>1, <2>2
  <2> HIDE DEF a, b
  <2>5. ASSUME NEW i \in DOMAIN (a \o b) PROVE (a \o b)[i].src = s /\ (a \o b)[i].dst = d
    <3>1. i \in 1 .. Len(a) + Len(b)
      BY <2>3
    <3>2. CASE i <= Len(a)
      BY <2>3, <2>4, <3>1, <3>2
    <3>3. CASE i > Len(a)
      <4>1. (a \o b)[i] = b[i - Len(a)] /\ i - Len(a) \in DOMAIN b
        BY <2>3, <3>1, <3>3
      <4> QED  BY <2>4, <4>1
    <3> QED  BY <2>3, <3>1, <3>2, <3>3
  <2>6. a \o b \in Seq(Msg)
    BY <2>3
  <2> QED  BY <2>5, <2>6 DEF a, b
<1> DEFINE new(s, d) == l[s][d] \o more(s, d)
           sent == [s \in Node |-> [d \in Node |-> new(s, d)]]
<1>4. Sent(l, ms) = sent
  BY <1>2
<1> HIDE DEF new
<1>5. \A s, d \in Node : new(s, d) \in Seq(Msg) /\ \A i \in DOMAIN new(s, d) :
                              new(s, d)[i].src = s /\ new(s, d)[i].dst = d
  BY <1>3 DEF new
<1>6. \A s, d \in Node : sent[s][d] = new(s, d)
  OBVIOUS
<1>7. sent \in [Node -> [Node -> Seq(Msg)]]
  BY <1>5
<1> HIDE DEF sent
<1> QED  BY <1>4, <1>5, <1>6, <1>7 DEF Queues

\* The first message of a queue, and the queues without it
LEMMA TakenType ==
    ASSUME TypeOK, NetInv, NEW s \in Node, NEW d \in Node, link[s][d] # <<>>,
           NEW m, m = Head(link[s][d])
    PROVE  m \in Msg /\ m.src = s /\ m.dst = d /\ Queues(Taken(m))
<1> DEFINE q == link[s][d]
<1>1. q \in Seq(Msg) /\ q # <<>> /\ \A i \in DOMAIN q : q[i].src = s /\ q[i].dst = d
  BY DEF TypeOK, NetInv
<1>2. m \in Msg /\ m.src = s /\ m.dst = d
  <2> HIDE DEF q
  <2>1. m = q[1] /\ 1 \in DOMAIN q
    BY <1>1 DEF q
  <2> QED  BY <1>1, <2>1
<1>3. Tail(q) \in Seq(Msg) /\ \A i \in DOMAIN Tail(q) : Tail(q)[i].src = s /\ Tail(q)[i].dst = d
  <2> HIDE DEF q
  <2>1. \A i \in DOMAIN Tail(q) : i + 1 \in DOMAIN q /\ Tail(q)[i] = q[i + 1]
    BY <1>1
  <2> QED  BY <1>1, <2>1
<1>4. Taken(m) = [link EXCEPT ![s][d] = Tail(q)]
  BY <1>2 DEF Taken
<1>5. Queues(link)
  BY LinkQueues
<1> DEFINE l == [link EXCEPT ![s][d] = Tail(q)]
<1>6. l \in [Node -> [Node -> Seq(Msg)]]
  BY <1>3, <1>5 DEF Queues
<1>7. \A a, b \in Node : l[a][b] = IF a = s /\ b = d THEN Tail(q) ELSE link[a][b]
  BY <1>5 DEF Queues
<1> HIDE DEF l
<1>8. \A a, b \in Node : \A i \in DOMAIN l[a][b] : l[a][b][i].src = a /\ l[a][b][i].dst = b
  <2> SUFFICES ASSUME NEW a \in Node, NEW b \in Node, NEW i \in DOMAIN l[a][b]
               PROVE  l[a][b][i].src = a /\ l[a][b][i].dst = b
    OBVIOUS
  <2> HIDE DEF q
  <2>1. CASE a = s /\ b = d
    BY <1>3, <1>7, <2>1
  <2>2. CASE ~ (a = s /\ b = d)
    <3>1. l[a][b] = link[a][b]
      BY <1>7, <2>2
    <3> QED  BY <1>5, <3>1 DEF Queues
  <2> QED  BY <2>1, <2>2
<1>9. Queues(l)
  BY <1>6, <1>8 DEF Queues
<1> QED  BY <1>2, <1>4, <1>9 DEF l

\* The consensus sends to the node it takes for the leader, or blocks its loop.
LEMMA SendToLeaderType ==
    ASSUME TypeOK, NEW s \in Node, NEW t \in ConsMsg, NEW v \in View, NEW rest, Queues(rest),
           SendToLeader(s, t, v, rest)
    PROVE  Queues(link') /\ (busy' = busy \/ busy' = [busy EXCEPT ![s] = Blocked])
<1> DEFINE d == ChanOf(s, v.leader)
<1>1. d \in Node \cup {None}
  BY ChanType
<1>2. v.num \in Nat
  BY DEF View
<1> HIDE DEF d
<1>3. CASE d = None
  BY <1>3 DEF SendToLeader, d
<1>4. CASE d # None
  <2>1. {MkMsg(t, s, d, v.num)} \in SUBSET Msg
    BY <1>1, <1>2, <1>4, MkMsgType
  <2>2. Queues(Sent(rest, {MkMsg(t, s, d, v.num)}))
    BY <2>1, SentType
  <2>3. link' = Sent(rest, {MkMsg(t, s, d, v.num)}) /\ busy' = busy
    BY <1>4 DEF SendToLeader, d
  <2> QED  BY <2>2, <2>3
<1> QED  BY <1>3, <1>4

\* UpdateView names a node again, and counts as many as before.
LEMMA NextViewType ==
    ASSUME NEW v \in View, v.nodes \in 1 .. N + MaxJoins
    PROVE  NextView(v) \in View /\ NextView(v).nodes = v.nodes
<1>1. v.leader + 1 \in Int /\ v.num + 1 \in Nat /\ v.nodes \in Nat
  <2>1. v.leader \in Node \cup {None} /\ v.num \in Nat /\ v.nodes \in Nat
    BY DEF View
  <2>2. None \in Int
    BY DEF None
  <2>3. \A x \in Node : x \in Int
    BY NodeType
  <2>4. v.leader \in Int
    BY <2>1, <2>2, <2>3
  <2> QED  BY <2>1, <2>4
<1>2. (v.leader + 1) % v.nodes \in Node
  BY <1>1, NodeType
<1> QED  BY <1>1, <1>2 DEF NextView, View

----------------------------------------------------------------------------
(* Steps of the consensus *)

\* A step sets one entry of a variable, or none.
LEMMA UpdateType ==
    ASSUME NEW S, NEW f \in [Node -> S], NEW s \in Node, NEW v \in S, NEW g,
           g = f \/ g = [f EXCEPT ![s] = v]
    PROVE  g \in [Node -> S]
OBVIOUS

\* The part of TypeOK about the variables of the consensus
ConsType ==
    /\ view \in [Node -> View] /\ qc \in [Node -> Int]
    /\ phase \in [Node -> Phase] /\ curProposal \in [Node -> BOOLEAN]
    /\ ignoreCheckQC \in [Node -> BOOLEAN] /\ newViews \in [Node -> Nat]
    /\ height \in [Node -> Nat] /\ blk \in [Node -> Nat] /\ votes \in [Node -> SUBSET Node]

\* The part about the driver and the node manager
MgmtType ==
    /\ servers \in Seq(Node) /\ joins \in 0 .. MaxJoins /\ exited \subseteq Node
    /\ signersDue \in Nat /\ handle \in [Node -> BOOLEAN] /\ signNum \in [Node -> Nat]
    /\ table \in [Node -> SUBSET Node] /\ mapOf \in [Node -> Node \cup {Shared}]
    /\ newNode \in [Node -> [name : Node \cup {None}, chan : Node \cup {None}]]
    /\ state \in [Node -> State] /\ starting \subseteq Node
    /\ busy \in [Node -> [kind : {"IDLE", "BLOCKED", "EXIT"} \cup MgmtMsg, node : Node \cup {None}]]
    /\ syncMsgs \in [Node -> Seq(Msg)] /\ net \subseteq Msg

\* The part about the maps of channels
MapType ==
    /\ DOMAIN chans = Node \cup {Shared}
    /\ \A k \in DOMAIN chans : /\ DOMAIN chans[k] \subseteq Node
                              /\ \A x \in DOMAIN chans[k] : chans[k][x] \in Node \cup {None}

LEMMA TypeParts ==
    TypeOK <=> ConsType /\ MgmtType /\ MapType /\ link \in [Node -> [Node -> Seq(Msg)]]
BY DEF TypeOK, ConsType, MgmtType, MapType

\* What a step of the consensus of s may do: neither the membership nor the number
\* of nodes in a view changes, and at most the loop blocks.
ConsStep(s) ==
    /\ UNCHANGED <<driverVars, handle, signNum, nmVars, net>>
    /\ ConsType' /\ \A x \in Node : view'[x].nodes = view[x].nodes
    /\ Queues(link')
    /\ busy' = busy \/ busy' = [busy EXCEPT ![s] = Blocked]

LEMMA ConsStepSafe ==
    ASSUME TypeOK, Inv, NEW s \in Node, busy[s] = Idle, ConsStep(s)
    PROVE  TypeOK' /\ Inv'
<1>1. /\ servers' = servers /\ joins' = joins /\ exited' = exited /\ signersDue' = signersDue
      /\ handle' = handle /\ signNum' = signNum /\ table' = table /\ mapOf' = mapOf
      /\ chans' = chans /\ newNode' = newNode /\ state' = state /\ syncMsgs' = syncMsgs
      /\ starting' = starting /\ net' = net
  BY DEF ConsStep, driverVars, nmVars
<1>2. busy' \in [Node -> [kind : {"IDLE", "BLOCKED", "EXIT"} \cup MgmtMsg, node : Node \cup {None}]]
  <2> DEFINE B == [kind : {"IDLE", "BLOCKED", "EXIT"} \cup MgmtMsg, node : Node \cup {None}]
  <2>1. busy \in [Node -> B] /\ Blocked \in B
    BY ConstTypes DEF TypeOK
  <2>2. busy' = busy \/ busy' = [busy EXCEPT ![s] = Blocked]
    BY DEF ConsStep
  <2> HIDE DEF B
  <2>3. busy' \in [Node -> B]
    BY <2>1, <2>2
  <2> QED  BY <2>3 DEF B
<1>3. \A x \in Node : busy'[x].kind = "EXIT" <=> busy[x].kind = "EXIT"
  <2>1. CASE busy' = busy
    BY <2>1
  <2>2. CASE busy' = [busy EXCEPT ![s] = Blocked]
    <3>1. busy \in [Node -> [kind : {"IDLE", "BLOCKED", "EXIT"} \cup MgmtMsg,
                                      node : Node \cup {None}]]
      BY DEF TypeOK
    <3> QED  BY <2>2, <3>1, ConstTypes
  <2> QED  BY <2>1, <2>2 DEF ConsStep
<1>4. TypeOK'
  <2>1. MgmtType'
    BY <1>1, <1>2, TypeParts DEF MgmtType
  <2>2. MapType'
    BY <1>1, TypeParts DEF MapType
  <2>3. link' \in [Node -> [Node -> Seq(Msg)]]
    BY DEF ConsStep, Queues
  <2> QED  BY <2>1, <2>2, <2>3, TypeParts DEF ConsStep, TypeOK, ConsType, MgmtType, MapType
<1>5. TableInv'
  <2>1. Started' = Started
    BY <1>1 DEF Started, Running
  <2> QED  BY <1>1, <2>1 DEF Inv, TableInv, ConsStep, HomeMap
<1>6. ChannelInv'
  <2>1. Started' = Started
    BY <1>1 DEF Started, Running
  <2> QED  BY <1>1, <2>1 DEF Inv, ChannelInv, HomeMap
<1>7. NewNodeInv'
  <2>1. Started' = Started
    BY <1>1 DEF Started, Running
  <2> QED  BY <1>1, <1>3, <2>1 DEF Inv, NewNodeInv
<1>8. NetInv'
  <2>1. Started' = Started
    BY <1>1 DEF Started, Running
  <2> QED  BY <1>1, <2>1 DEF Inv, NetInv, ConsStep, Queues
<1> QED  BY <1>4, <1>5, <1>6, <1>7, <1>8 DEF Inv


LEMMA HandleReqStep ==
    ASSUME TypeOK, Inv, NEW s \in Node, HandleReq(s)
    PROVE  ConsStep(s)
<1>1. /\ UNCHANGED <<driverVars, handle, view, qc, newViews, votes, height, signNum, nmVars,
                     busy, net>>
      /\ curProposal' = [curProposal EXCEPT ![s] = TRUE]
      /\ \/ UNCHANGED <<phase, ignoreCheckQC, blk, link>>
         \/ /\ phase' = [phase EXCEPT ![s] = "PREPARE"]
            /\ ignoreCheckQC' = [ignoreCheckQC EXCEPT ![s] = FALSE]
            /\ blk' = [blk EXCEPT ![s] = height[s]]
            /\ link' = Sent(link, Prepare(s))
  BY DEF HandleReq
<1>2. Queues(link')
  <2>1. Queues(link) /\ Queues(Sent(link, Prepare(s)))
    BY LinkQueues, PrepareType, SentType DEF Inv
  <2> QED  BY <1>1, <2>1
<1>3. ConsType'
  <2>1. curProposal' \in [Node -> BOOLEAN]
    BY <1>1 DEF TypeOK
  <2>2. phase' \in [Node -> Phase]
    <3>1. phase' = phase \/ phase' = [phase EXCEPT ![s] = "PREPARE"]
      BY <1>1
    <3>2. phase \in [Node -> Phase] /\ "PREPARE" \in Phase
      BY DEF TypeOK, Phase
    <3> QED  BY <3>1, <3>2, UpdateType
  <2>3. ignoreCheckQC' \in [Node -> BOOLEAN]
    BY <1>1 DEF TypeOK
  <2>4. blk' \in [Node -> Nat]
    <3>1. blk' = blk \/ blk' = [blk EXCEPT ![s] = height[s]]
      BY <1>1
    <3>2. blk \in [Node -> Nat] /\ height[s] \in Nat
      BY DEF TypeOK
    <3> QED  BY <3>1, <3>2, UpdateType
  <2> QED  BY <1>1, <2>1, <2>2, <2>3, <2>4 DEF TypeOK, ConsType
<1> QED  BY <1>1, <1>2, <1>3 DEF ConsStep

LEMMA HandlePrepareStep ==
    ASSUME TypeOK, NEW s \in Node, NEW m \in Msg, Queues(Taken(m)), HandlePrepare(s, m)
    PROVE  ConsStep(s)
<1> DEFINE expected == handle[s] /\ phase[s] = "NEW_VIEW" /\ ~IsLeader(s)
<1>1. /\ UNCHANGED <<driverVars, handle, view, qc, ignoreCheckQC, newViews, votes, height,
                     signNum, nmVars, net>>
      /\ curProposal' = [curProposal EXCEPT ![s] = @ \/ expected]
      /\ \/ /\ phase' = [phase EXCEPT ![s] = "PREPARE"]
            /\ blk' = [blk EXCEPT ![s] = m.blk]
            /\ SendToLeader(s, "PREPARE_VOTE", view[s], Taken(m))
         \/ /\ link' = Taken(m)
            /\ UNCHANGED <<phase, blk, busy>>
  BY DEF HandlePrepare
<1>2. Queues(link') /\ (busy' = busy \/ busy' = [busy EXCEPT ![s] = Blocked])
  <2>1. view[s] \in View /\ "PREPARE_VOTE" \in ConsMsg
    BY DEF TypeOK, ConsMsg
  <2>2. CASE SendToLeader(s, "PREPARE_VOTE", view[s], Taken(m))
    BY <2>1, <2>2, SendToLeaderType
  <2> QED  BY <1>1, <2>2
<1>3. ConsType'
  <2>1. m.blk \in Nat
    BY DEF Msg
  <2>2. curProposal' \in [Node -> BOOLEAN]
    <3>1. (curProposal[s] \/ expected) \in BOOLEAN
      OBVIOUS
    <3>2. curProposal' = [curProposal EXCEPT ![s] = curProposal[s] \/ expected]
      BY <1>1
    <3> HIDE DEF expected
    <3> QED  BY <3>1, <3>2 DEF TypeOK
  <2>3. phase' \in [Node -> Phase] /\ blk' \in [Node -> Nat]
    BY <1>1, <2>1 DEF TypeOK, Phase
  <2> QED  BY <1>1, <2>2, <2>3 DEF TypeOK, ConsType
<1> QED  BY <1>1, <1>2, <1>3 DEF ConsStep

LEMMA HandlePreCommitStep ==
    ASSUME TypeOK, NEW s \in Node, NEW m \in Msg, Queues(Taken(m)), HandlePreCommit(s, m)
    PROVE  ConsStep(s)
<1>1. /\ UNCHANGED <<driverVars, handle, view, curProposal, ignoreCheckQC, newViews,
                     votes, blkVars, signNum, nmVars, net>>
      /\ \/ /\ phase' = [phase EXCEPT ![s] = "PRE_COMMIT"]
            /\ qc' = [qc EXCEPT ![s] = m.view]
            /\ SendToLeader(s, "PRE_COMMIT_VOTE", view[s], Taken(m))
         \/ /\ link' = Taken(m)
            /\ UNCHANGED <<phase, qc, busy>>
  BY DEF HandlePreCommit
<1>2. Queues(link') /\ (busy' = busy \/ busy' = [busy EXCEPT ![s] = Blocked])
  <2>1. view[s] \in View /\ "PRE_COMMIT_VOTE" \in ConsMsg
    BY DEF TypeOK, ConsMsg
  <2>2. CASE SendToLeader(s, "PRE_COMMIT_VOTE", view[s], Taken(m))
    BY <2>1, <2>2, SendToLeaderType
  <2> QED  BY <1>1, <2>2
<1>3. ConsType'
  <2>1. m.view \in Int
    BY DEF Msg
  <2> QED  BY <1>1, <2>1 DEF TypeOK, ConsType, Phase, blkVars
<1> QED  BY <1>1, <1>2, <1>3 DEF ConsStep

LEMMA HandleVoteStep ==
    ASSUME TypeOK, NEW s \in Node, NEW m \in Msg, Queues(Taken(m)), HandleVote(s, m)
    PROVE  ConsStep(s)
<1> DEFINE more == votes[s] \cup {m.src}
<1>1. /\ UNCHANGED <<driverVars, handle, view, curProposal, ignoreCheckQC, newViews,
                     blkVars, signNum, nmVars, busy, net>>
      /\ \/ /\ votes' = [votes EXCEPT ![s] = more]
            /\ link' = Taken(m)
            /\ UNCHANGED <<phase, qc>>
         \/ /\ votes' = [votes EXCEPT ![s] = {}]
            /\ phase' = [phase EXCEPT ![s] = "PRE_COMMIT"]
            /\ qc' = [qc EXCEPT ![s] = view[s].num]
            /\ link' = Sent(Taken(m), Broadcast(s, "PRE_COMMIT", view[s].num))
         \/ /\ votes' = [votes EXCEPT ![s] = more]
            /\ link' = Sent(Taken(m), Broadcast(s, "DECIDE", view[s].num))
            /\ UNCHANGED <<phase, qc>>
         \/ /\ link' = Taken(m)
            /\ UNCHANGED <<votes, phase, qc>>
  BY DEF HandleVote
<1>2. view[s].num \in Nat
  BY DEF TypeOK, View
<1>3. Queues(link')
  <2>1. /\ Broadcast(s, "PRE_COMMIT", view[s].num) \in SUBSET Msg
        /\ Broadcast(s, "DECIDE", view[s].num) \in SUBSET Msg
    BY <1>2, BroadcastType DEF ConsMsg
  <2>2. /\ Queues(Sent(Taken(m), Broadcast(s, "PRE_COMMIT", view[s].num)))
        /\ Queues(Sent(Taken(m), Broadcast(s, "DECIDE", view[s].num)))
    BY <2>1, SentType
  <2> QED  BY <1>1, <2>2
<1>4. ConsType'
  <2>1. more \in SUBSET Node
    BY DEF TypeOK, Msg
  <2> HIDE DEF more
  <2>2. votes' \in [Node -> SUBSET Node]
    <3>1. votes' = votes \/ votes' = [votes EXCEPT ![s] = more] \/ votes' = [votes EXCEPT ![s] = {}]
      BY <1>1
    <3>2. votes \in [Node -> SUBSET Node] /\ {} \in SUBSET Node
      BY DEF TypeOK
    <3> QED  BY <2>1, <3>1, <3>2, UpdateType
  <2>3. phase' \in [Node -> Phase]
    <3>1. phase' = phase \/ phase' = [phase EXCEPT ![s] = "PRE_COMMIT"]
      BY <1>1
    <3>2. phase \in [Node -> Phase] /\ "PRE_COMMIT" \in Phase
      BY DEF TypeOK, Phase
    <3> QED  BY <3>1, <3>2, UpdateType
  <2>4. qc' \in [Node -> Int]
    <3>1. qc' = qc \/ qc' = [qc EXCEPT ![s] = view[s].num]
      BY <1>1
    <3>2. qc \in [Node -> Int] /\ view[s].num \in Int
      BY <1>2 DEF TypeOK
    <3> QED  BY <3>1, <3>2, UpdateType
  <2> QED  BY <1>1, <2>2, <2>3, <2>4 DEF TypeOK, ConsType, blkVars
<1> QED  BY <1>1, <1>3, <1>4 DEF ConsStep

LEMMA HandleDecideStep ==
    ASSUME TypeOK, Inv, NEW s \in Node, NEW m \in Msg, Queues(Taken(m)), HandleDecide(s, m)
    PROVE  ConsStep(s)
<1>1. UNCHANGED <<driverVars, handle, qc, ignoreCheckQC, blk, signNum, nmVars, net>>
  BY DEF HandleDecide
<1>2. view[s] \in View /\ NextView(view[s]) \in View /\ NextView(view[s]).nodes = view[s].nodes
  BY NextViewType DEF TypeOK, Inv, TableInv
<1>3. CASE /\ view' = [view EXCEPT ![s] = NextView(@)]
           /\ phase' = [phase EXCEPT ![s] = "NEW_VIEW"]
           /\ curProposal' = [curProposal EXCEPT ![s] = FALSE]
           /\ newViews' = [newViews EXCEPT ![s] = 0]
           /\ votes' = [votes EXCEPT ![s] = {}]
           /\ height' = [height EXCEPT ![s] = @ + 1]
           /\ SendToLeader(s, "NEW_VIEW", NextView(view[s]), Taken(m))
  <2>1. view' = [view EXCEPT ![s] = NextView(view[s])]
    BY <1>3
  <2>2. \A x \in Node : view'[x].nodes = view[x].nodes
    <3>1. DOMAIN view = Node
      BY DEF TypeOK
    <3>2. \A x \in Node : view'[x] = IF x = s THEN NextView(view[s]) ELSE view[x]
      BY <2>1, <3>1
    <3> QED  BY <1>2, <3>2
  <2>3. Queues(link') /\ (busy' = busy \/ busy' = [busy EXCEPT ![s] = Blocked])
    BY <1>2, <1>3, SendToLeaderType DEF ConsMsg
  <2>4. ConsType'
    <3>1. view' \in [Node -> View]
      BY <1>2, <2>1 DEF TypeOK
    <3>2. phase' \in [Node -> Phase]
      BY <1>3 DEF TypeOK, Phase
    <3>3. curProposal' \in [Node -> BOOLEAN] /\ newViews' \in [Node -> Nat]
      BY <1>3 DEF TypeOK
    <3>4. votes' \in [Node -> SUBSET Node] /\ height' \in [Node -> Nat]
      BY <1>3 DEF TypeOK
    <3> QED  BY <1>1, <3>1, <3>2, <3>3, <3>4 DEF TypeOK, ConsType
  <2> QED  BY <1>1, <2>2, <2>3, <2>4 DEF ConsStep
<1>4. CASE link' = Taken(m) /\ UNCHANGED <<view, phase, curProposal, newViews, votes, height, busy>>
  <2>1. ConsType'
    BY <1>1, <1>4 DEF TypeOK, ConsType
  <2> QED  BY <1>1, <1>4, <2>1 DEF ConsStep
<1> QED  BY <1>3, <1>4 DEF HandleDecide

LEMMA HandleNewViewStep ==
    ASSUME TypeOK, NEW s \in Node, NEW m \in Msg, Queues(Taken(m)), HandleNewView(s, m)
    PROVE  ConsStep(s)
<1>1. /\ UNCHANGED <<driverVars, handle, view, qc, curProposal, ignoreCheckQC, votes, height,
                     signNum, nmVars, busy, net>>
      /\ \/ UNCHANGED newViews
         \/ newViews' = [newViews EXCEPT ![s] = newViews[s] + 1]
      /\ \/ link' = Taken(m) /\ UNCHANGED <<phase, blk>>
         \/ /\ phase' = [phase EXCEPT ![s] = "WAITING"]
            /\ link' = Taken(m)
            /\ UNCHANGED blk
         \/ /\ phase' = [phase EXCEPT ![s] = "PREPARE"]
            /\ blk' = [blk EXCEPT ![s] = height[s]]
            /\ link' = Sent(Taken(m), Prepare(s))
  BY DEF HandleNewView
<1>2. Queues(link')
  <2>1. Queues(Sent(Taken(m), Prepare(s)))
    BY PrepareType, SentType
  <2> QED  BY <1>1, <2>1
<1>3. ConsType'
  <2>1. newViews' \in [Node -> Nat]
    <3>1. newViews \in [Node -> Nat] /\ newViews[s] + 1 \in Nat
      BY DEF TypeOK
    <3> QED  BY <1>1, <3>1, UpdateType
  <2>2. phase' \in [Node -> Phase]
    <3>1. \/ phase' = phase
          \/ phase' = [phase EXCEPT ![s] = "WAITING"]
          \/ phase' = [phase EXCEPT ![s] = "PREPARE"]
      BY <1>1
    <3>2. phase \in [Node -> Phase] /\ "WAITING" \in Phase /\ "PREPARE" \in Phase
      BY DEF TypeOK, Phase
    <3> QED  BY <3>1, <3>2, UpdateType
  <2>3. blk' \in [Node -> Nat]
    <3>1. blk' = blk \/ blk' = [blk EXCEPT ![s] = height[s]]
      BY <1>1
    <3>2. blk \in [Node -> Nat] /\ height[s] \in Nat
      BY DEF TypeOK
    <3> QED  BY <3>1, <3>2, UpdateType
  <2> QED  BY <1>1, <2>1, <2>2, <2>3 DEF TypeOK, ConsType
<1> QED  BY <1>1, <1>2, <1>3 DEF ConsStep

\* Every step of the consensus
LEMMA ReceiveSafe ==
    ASSUME TypeOK, Inv, NEW s \in Node, NEW d \in Node, Receive(d, s)
    PROVE  TypeOK' /\ Inv'
<1> DEFINE m == Head(link[s][d])
<1>1. busy[d] = Idle /\ link[s][d] # <<>>
  BY DEF Receive
<1>2. m \in Msg /\ Queues(Taken(m))
  BY <1>1, TakenType DEF Inv
<1>3. \/ HandlePrepare(d, m) \/ HandlePreCommit(d, m) \/ HandleVote(d, m)
      \/ HandleDecide(d, m) \/ HandleNewView(d, m)
  BY DEF Receive
<1> HIDE DEF m
<1>4. ConsStep(d)
  BY <1>2, <1>3, HandlePrepareStep, HandlePreCommitStep, HandleVoteStep, HandleDecideStep,
     HandleNewViewStep
<1> QED  BY <1>1, <1>4, ConsStepSafe

LEMMA HandleReqSafe ==
    ASSUME TypeOK, Inv, NEW s \in Node, HandleReq(s)
    PROVE  TypeOK' /\ Inv'
BY HandleReqStep, ConsStepSafe DEF HandleReq

----------------------------------------------------------------------------
(* Steps of the node manager *)

BusyState == [kind : {"IDLE", "BLOCKED", "EXIT"} \cup MgmtMsg, node : Node \cup {None}]

LEMMA StartedType == ASSUME TypeOK PROVE Started \subseteq Node
<1>1. servers \in Seq(Node) /\ exited \subseteq Node
  BY DEF TypeOK
<1>2. \A i \in 1 .. Len(servers) : servers[i] \in Node
  BY <1>1
<1> QED  BY <1>1, <1>2 DEF Started, Running

\* What a node has for a channel is that of a node that has run, and its own channel is
\* under its own name.
LEMMA ChanStarted ==
    ASSUME TypeOK, Inv, NEW s \in Node, NEW x
    PROVE  /\ ChanOf(s, x) \in Started \cup {None}
           /\ s \in Started /\ ChanOf(s, x) = s => x = s
<1>1. mapOf[s] \in DOMAIN chans
  BY DEF TypeOK
<1>2. ChanOf(s, x) \in Started \cup {None}
  BY <1>1 DEF Inv, ChannelInv, ChanOf
<1>3. ASSUME s \in Started, ChanOf(s, x) = s PROVE x = s
  <2>1. mapOf[s] = HomeMap(s)
    BY <1>3 DEF Inv, TableInv
  <2>2. s # None
    BY NodeType
  <2>3. x \in DOMAIN chans[HomeMap(s)] /\ chans[HomeMap(s)][x] = s
    BY <1>3, <2>1, <2>2 DEF ChanOf
  <2> QED  BY <2>3 DEF Inv, ChannelInv
<1> QED  BY <1>2, <1>3

\* Gossip goes to nodes that have run.
LEMMA GossipStarted ==
    ASSUME TypeOK, Inv, NEW s \in Node, NEW t \in ConsMsg \cup MgmtMsg
    PROVE  \A m \in Gossip(s, t, 0) : m \in Msg /\ m.type = t /\ m.dst \in Started
<1>1. \A m \in Gossip(s, t, 0) : m \in Msg /\ m.type = t
                                   /\ \E x \in Channels(s) : m.dst = ChanOf(s, x)
  BY BroadcastType
<1>2. \A x \in Channels(s) : ChanOf(s, x) \in Started
  BY ChanStarted DEF Channels
<1> QED  BY <1>1, <1>2

\* A step that leaves the servers alone keeps Inv if the node stays in its own table,
\* the maps keep ChannelInv, NewNode changes at most to hold no channel, and the new
\* messages are not applications.
LEMMA StepInv ==
    ASSUME TypeOK, Inv, UNCHANGED <<servers, joins, exited, mapOf>>,
           \A s \in Node : view'[s].nodes \in 1 .. N + MaxJoins,
           \A s \in Started : s \in table'[s],
           ChannelInv', Queues(link'),
           \A s \in Node : \/ newNode'[s] = newNode[s]
                                  /\ (busy'[s].kind = "EXIT" <=> busy[s].kind = "EXIT")
                           \/ newNode'[s].chan = None /\ busy'[s].kind # "EXIT",
           \A m \in net' : m \in net
                             \/ (m.dst \in Started /\ m.type \notin {"JOIN_APPLY", "EXIT_APPLY"})
    PROVE  Inv'
<1>1. Started' = Started
  BY DEF Started, Running
<1>2. TableInv'
  BY <1>1 DEF Inv, TableInv, HomeMap
<1>3. NewNodeInv'
  BY <1>1 DEF Inv, NewNodeInv
<1>4. NetInv'
  <2>1. ASSUME NEW m \in net'
        PROVE  /\ m.dst \in Started
               /\ m.type = "JOIN_APPLY" => newNode'[m.dst].chan # m.dst
               /\ m.type = "EXIT_APPLY" => m.src # m.dst
    <3>1. CASE m \in net
      <4>1. m.dst \in Node /\ m.dst # None
        BY <3>1, NodeType DEF TypeOK, Msg
      <4>2. newNode'[m.dst] = newNode[m.dst] \/ newNode'[m.dst].chan = None
        BY <4>1
      <4> QED  BY <3>1, <4>1, <4>2 DEF Inv, NetInv
    <3>2. CASE m \notin net
      BY <3>2
    <3> QED  BY <3>1, <3>2
  <2>2. \A s, d \in Node : \A i \in DOMAIN link'[s][d] :
            link'[s][d][i].src = s /\ link'[s][d][i].dst = d
    BY DEF Queues
  <2> QED  BY <1>1, <2>1, <2>2 DEF NetInv
<1> QED  BY <1>2, <1>3, <1>4 DEF Inv

LEMMA ChannelKept ==
    ASSUME Inv, UNCHANGED <<servers, exited, chans>> PROVE ChannelInv'
<1>1. Started' = Started
  BY DEF Started, Running
<1> QED  BY <1>1 DEF Inv, ChannelInv, HomeMap

LEMMA SetStateApplySafe ==
    ASSUME TypeOK, Inv, NEW s \in Node, SetStateApply(s)
    PROVE  TypeOK' /\ Inv'
<1>1. /\ starting' = starting \ {s}
      /\ state' = [state EXCEPT ![s] = "APPLY"]
      /\ UNCHANGED <<driverVars, handle, consVars, signNum, table, mapOf, chans, newNode,
                     syncMsgs, busy, net, link>>
  BY DEF SetStateApply
<1>2. TypeOK'
  <2>1. ConsType'
    BY <1>1 DEF TypeOK, ConsType, consVars, blkVars
  <2>2. MgmtType'
    <3>1. state' \in [Node -> State] /\ starting' \subseteq Node
      BY <1>1 DEF TypeOK, State
    <3> QED  BY <1>1, <3>1 DEF TypeOK, MgmtType, driverVars
  <2>3. MapType' /\ link' \in [Node -> [Node -> Seq(Msg)]]
    BY <1>1 DEF TypeOK, MapType
  <2> QED  BY <2>1, <2>2, <2>3 DEF TypeOK, ConsType, MgmtType, MapType
<1>3. Inv'
  <2>1. ChannelInv' /\ Queues(link')
    BY <1>1, ChannelKept, LinkQueues DEF driverVars, Inv
  <2> QED  BY <1>1, <2>1, StepInv DEF driverVars, consVars, Inv, TableInv
<1> QED  BY <1>2, <1>3

LEMMA UpdateSignersSafe ==
    ASSUME TypeOK, Inv, UpdateSigners
    PROVE  TypeOK' /\ Inv'
<1>1. /\ signersDue > 0 /\ signersDue' = signersDue - 1
      /\ signNum' = [x \in Node |-> IF x \in Running THEN Len(servers) ELSE signNum[x]]
      /\ UNCHANGED <<servers, joins, exited, handle, consVars, nmVars, busy, net, link>>
  BY DEF UpdateSigners
<1>2. TypeOK'
  <2>1. ConsType'
    BY <1>1 DEF TypeOK, ConsType, consVars, blkVars
  <2>2. MgmtType'
    <3>1. Len(servers) \in Nat /\ signersDue' \in Nat
      BY <1>1 DEF TypeOK
    <3>2. signNum' \in [Node -> Nat]
      BY <1>1, <3>1 DEF TypeOK
    <3> QED  BY <1>1, <3>1, <3>2 DEF TypeOK, MgmtType, nmVars
  <2>3. MapType' /\ link' \in [Node -> [Node -> Seq(Msg)]]
    BY <1>1 DEF TypeOK, MapType, nmVars
  <2> QED  BY <2>1, <2>2, <2>3 DEF TypeOK, ConsType, MgmtType, MapType
<1>3. Inv'
  <2>1. ChannelInv' /\ Queues(link')
    BY <1>1, ChannelKept, LinkQueues DEF nmVars, Inv
  <2> QED  BY <1>1, <2>1, StepInv DEF nmVars, consVars, Inv, TableInv
<1> QED  BY <1>2, <1>3

\* A message is never lost half-way: it is a message, for a node that has run.
LEMMA NetMember ==
    ASSUME TypeOK, Inv, NEW m \in net
    PROVE  m \in Msg /\ m.src \in Node /\ m.dst \in Node /\ m.dst \in Started
BY DEF TypeOK, Msg, Inv, NetInv

LEMMA HandleAgreeSafe ==
    ASSUME TypeOK, Inv, NEW s \in Node, NEW m \in net, HandleAgree(s, m)
    PROVE  TypeOK' /\ Inv'
<1> DEFINE msgs == Append(syncMsgs[s], m)
           news == Gossip(s, "EXIT_RESTART", 0)
<1>1. /\ syncMsgs' = [syncMsgs EXCEPT ![s] = msgs]
      /\ \/ /\ state' = [state EXCEPT ![s] = "AGREE"]
            /\ net' = (net \ {m}) \cup news
         \/ /\ net' = net \ {m}
            /\ UNCHANGED state
      /\ UNCHANGED <<driverVars, handle, consVars, signNum, table, mapOf, chans, newNode,
                     starting, busy, link>>
  BY DEF HandleAgree
<1>2. \A x \in news : x \in Msg /\ x.type = "EXIT_RESTART" /\ x.dst \in Started
  BY GossipStarted DEF MgmtMsg
<1>3. msgs \in Seq(Msg)
  BY NetMember DEF TypeOK
<1> HIDE DEF msgs, news
<1>4. TypeOK'
  <2>1. ConsType'
    BY <1>1 DEF TypeOK, ConsType, consVars, blkVars
  <2>2. MgmtType'
    <3>1. syncMsgs' \in [Node -> Seq(Msg)]
      BY <1>1, <1>3 DEF TypeOK
    <3>2. state' \in [Node -> State]
      BY <1>1 DEF TypeOK, State
    <3>3. net' \subseteq Msg
      BY <1>1, <1>2 DEF TypeOK
    <3> QED  BY <1>1, <3>1, <3>2, <3>3 DEF TypeOK, MgmtType, driverVars
  <2>3. MapType' /\ link' \in [Node -> [Node -> Seq(Msg)]]
    BY <1>1 DEF TypeOK, MapType
  <2> QED  BY <2>1, <2>2, <2>3 DEF TypeOK, ConsType, MgmtType, MapType
<1>5. Inv'
  <2>1. ChannelInv' /\ Queues(link')
    BY <1>1, ChannelKept, LinkQueues DEF driverVars, Inv
  <2>2. \A x \in net' : x \in net
                          \/ (x.dst \in Started /\ x.type \notin {"JOIN_APPLY", "EXIT_APPLY"})
    BY <1>1, <1>2
  <2> QED  BY <1>1, <2>1, <2>2, StepInv DEF driverVars, consVars, Inv, TableInv
<1> QED  BY <1>4, <1>5

LEMMA AwaitSignersSafe ==
    ASSUME TypeOK, Inv, NEW s \in Node, NEW m \in net, busy[s] = Idle, AwaitSigners(s, m)
    PROVE  TypeOK' /\ Inv'
<1> DEFINE b == [kind |-> m.type, node |-> m.src]
<1>1. /\ m.type \in {"JOIN_RESTART", "EXIT_RESTART"}
      /\ busy' = [busy EXCEPT ![s] = b]
      /\ net' = net \ {m}
      /\ UNCHANGED <<driverVars, handle, consVars, signNum, nmVars, link>>
  BY DEF AwaitSigners
<1>2. b \in BusyState /\ b.kind # "EXIT"
  BY <1>1, NetMember DEF BusyState, MgmtMsg
<1>3. busy \in [Node -> BusyState] /\ busy[s].kind # "EXIT"
  BY ConstTypes DEF TypeOK, BusyState
<1> HIDE DEF b
<1>4. TypeOK'
  <2>1. ConsType'
    BY <1>1 DEF TypeOK, ConsType, consVars, blkVars
  <2>2. MgmtType'
    <3>1. busy' \in [Node -> BusyState]
      BY <1>1, <1>2, <1>3
    <3> QED  BY <1>1, <3>1 DEF TypeOK, MgmtType, driverVars, nmVars, BusyState
  <2>3. MapType' /\ link' \in [Node -> [Node -> Seq(Msg)]]
    BY <1>1 DEF TypeOK, MapType, nmVars
  <2> QED  BY <2>1, <2>2, <2>3 DEF TypeOK, ConsType, MgmtType, MapType
<1>5. Inv'
  <2>1. ChannelInv' /\ Queues(link')
    BY <1>1, ChannelKept, LinkQueues DEF driverVars, nmVars, Inv
  <2>2. \A x \in Node : busy'[x].kind = "EXIT" <=> busy[x].kind = "EXIT"
    BY <1>1, <1>2, <1>3
  <2> QED  BY <1>1, <2>1, <2>2, StepInv DEF driverVars, consVars, nmVars, Inv, TableInv
<1> QED  BY <1>4, <1>5

LEMMA RestartSafe ==
    ASSUME TypeOK, Inv, NEW s \in Node, Restart(s)
    PROVE  TypeOK' /\ Inv'
<1> DEFINE refresh == busy[s].kind = "EXIT_RESTART" /\ view[s].leader = busy[s].node
           old     == view[s].leader
           n       == view[s].nodes
           leader  == IF refresh THEN old % n ELSE old
           kept    == Cleared(s).newViews
           more    == IF InitsLeader(s) THEN kept + 1
                      ELSE IF (busy[s].kind = "JOIN_RESTART" /\ IsLeader(s)) /\ kept <= Threshold(n)
                           THEN Threshold(n) + 1
                           ELSE kept
           next    == IF Reproposes(s) THEN "PREPARE"
                      ELSE IF (IsLeader(s) /\ ~curProposal[s]) \/ InitsLeader(s)
                           THEN "WAITING" ELSE "NEW_VIEW"
           b       == IF Reproposes(s) THEN height[s] ELSE 0
           known   == Cleared(s).proposal
           ignore  == ignoreCheckQC[s] \/ InitsLeader(s)
<1>1. /\ busy[s].kind \in {"JOIN_RESTART", "EXIT_RESTART"}
      /\ handle' = [handle EXCEPT ![s] = TRUE]
      /\ curProposal' = [curProposal EXCEPT ![s] = known]
      /\ votes' = [votes EXCEPT ![s] = {}]
      /\ phase' = [phase EXCEPT ![s] = next]
      /\ blk' = [blk EXCEPT ![s] = b]
      /\ link' = IF Reproposes(s) THEN Sent(link, Prepare(s)) ELSE link
      /\ newViews' = [newViews EXCEPT ![s] = more]
      /\ ignoreCheckQC' = [ignoreCheckQC EXCEPT ![s] = ignore]
      /\ view' = [view EXCEPT ![s] = [@ EXCEPT !.leader = leader]]
      /\ busy' = [busy EXCEPT ![s] = Idle]
      /\ UNCHANGED <<driverVars, qc, height, signNum, nmVars, net>>
  BY DEF Restart
<1>2. view[s] \in View /\ n \in 1 .. N + MaxJoins
  BY DEF TypeOK, Inv, TableInv
<1>3. leader \in Node \cup {None}
  <2>1. old \in Node \cup {None}
    BY <1>2 DEF View
  <2>2. \A x \in Node : x \in Int
    BY NodeType
  <2>3. None \in Int
    BY DEF None
  <2>4. old \in Int
    BY <2>1, <2>2, <2>3
  <2>5. old % n \in Node
    BY <1>2, <2>4, NodeType
  <2> QED  BY <2>1, <2>5
<1>4. kept \in Nat
  BY DEF Cleared, TypeOK
<1>5. more \in Nat
  <2>1. Threshold(n) \in Nat
    BY <1>2, ThresholdType
  <2> HIDE DEF kept, n
  <2> QED  BY <1>4, <2>1
<1>6. next \in Phase
  BY DEF Phase
<1>7. b \in Nat
  BY DEF TypeOK
<1>8. known \in BOOLEAN /\ ignore \in BOOLEAN
  BY DEF Cleared
<1>9. Queues(link')
  <2>1. Queues(link) /\ Queues(Sent(link, Prepare(s)))
    BY LinkQueues, PrepareType, SentType DEF Inv
  <2> QED  BY <1>1, <2>1
<1>10. [view[s] EXCEPT !.leader = leader] \in View /\ [view[s] EXCEPT !.leader = leader].nodes = n
  <2> HIDE DEF leader
  <2> QED  BY <1>2, <1>3 DEF View
<1> HIDE DEF leader, n, kept, more, next, b, known, ignore
<1>11. TypeOK'
  <2>1. ConsType'
    <3>1. view' \in [Node -> View]
      BY <1>1, <1>10 DEF TypeOK
    <3>2. newViews' \in [Node -> Nat] /\ blk' \in [Node -> Nat]
      BY <1>1, <1>5, <1>7 DEF TypeOK
    <3>3. curProposal' \in [Node -> BOOLEAN] /\ ignoreCheckQC' \in [Node -> BOOLEAN]
      BY <1>1, <1>8 DEF TypeOK
    <3>4. phase' \in [Node -> Phase] /\ votes' \in [Node -> SUBSET Node]
      BY <1>1, <1>6 DEF TypeOK
    <3> QED  BY <1>1, <3>1, <3>2, <3>3, <3>4 DEF TypeOK, ConsType
  <2>2. MgmtType'
    <3>1. handle' \in [Node -> BOOLEAN]
      BY <1>1 DEF TypeOK
    <3>2. busy' \in [Node -> BusyState]
      <4>1. busy \in [Node -> BusyState] /\ Idle \in BusyState
        BY ConstTypes DEF TypeOK, BusyState
      <4> QED  BY <1>1, <4>1
    <3> QED  BY <1>1, <3>1, <3>2 DEF TypeOK, MgmtType, driverVars, nmVars, BusyState
  <2>3. MapType' /\ link' \in [Node -> [Node -> Seq(Msg)]]
    BY <1>1, <1>9 DEF TypeOK, MapType, nmVars, Queues
  <2> QED  BY <2>1, <2>2, <2>3 DEF TypeOK, ConsType, MgmtType, MapType
<1>12. Inv'
  <2>1. ChannelInv'
    BY <1>1, ChannelKept DEF driverVars, nmVars
  <2>2. \A x \in Node : busy'[x].kind = "EXIT" <=> busy[x].kind = "EXIT"
    <3>1. busy \in [Node -> BusyState]
      BY DEF TypeOK, BusyState
    <3>2. \A x \in Node : busy'[x] = IF x = s THEN Idle ELSE busy[x]
      BY <1>1, <3>1
    <3> QED  BY <1>1, <3>2, ConstTypes
  <2>3. \A x \in Node : view'[x].nodes \in 1 .. N + MaxJoins
    <3>1. \A x \in Node : view'[x] = IF x = s THEN [view[s] EXCEPT !.leader = leader] ELSE view[x]
      BY <1>1 DEF TypeOK
    <3> QED  BY <1>2, <1>10, <3>1 DEF Inv, TableInv
  <2> QED  BY <1>1, <1>9, <2>1, <2>2, <2>3, StepInv DEF driverVars, nmVars, Inv, TableInv
<1> QED  BY <1>11, <1>12

\* The answer to an application
LEMMA SyncMsgType ==
    ASSUME TypeOK, NEW s \in Node, NEW d \in Node
    PROVE  SyncMsg(s, d) \in Msg /\ SyncMsg(s, d).type = "JOIN_SYNC" /\ SyncMsg(s, d).dst = d
<1>1. view[s].num \in Nat /\ view[s].leader \in Node \cup {None}
  BY DEF TypeOK, View
<1>2. qc[s] \in Int /\ blk[s] \in Nat
  BY DEF TypeOK
<1> QED  BY <1>1, <1>2 DEF SyncMsg, Msg, MgmtMsg

\* HandleJoin enters the channel of NewNode, which is not that of a node that shares
\* its map, and not its own.
LEMMA HandleJoinSafe ==
    ASSUME TypeOK, Inv, NEW s \in Node, NEW m \in net, m.dst = s, busy[s] = Idle,
           HandleJoin(s, m)
    PROVE  TypeOK' /\ Inv'
<1> DEFINE chan  == newNode[s].chan
           map   == Put(chans[mapOf[s]], m.src, chan)
           known == table[s] \cup {m.src}
           news  == IF chan = None THEN {} ELSE {SyncMsg(s, chan)}
<1>1. /\ m.type = "JOIN_APPLY"
      /\ handle' = [handle EXCEPT ![s] = FALSE]
      /\ chans' = [chans EXCEPT ![mapOf[s]] = map]
      /\ table' = [table EXCEPT ![s] = known]
      /\ view' = [view EXCEPT ![s] = [@ EXCEPT !.nodes = Cardinality(known)]]
      /\ newNode' = [newNode EXCEPT ![s] = NoNode]
      /\ state' = [state EXCEPT ![s] = "INACTIVE"]
      /\ net' = (net \ {m}) \cup news
      /\ UNCHANGED <<driverVars, qc, phase, curProposal, ignoreCheckQC, newViews, votes,
                     blkVars, signNum, mapOf, syncMsgs, starting, busy, link>>
  BY DEF HandleJoin
<1>2. m.src \in Node /\ s \in Started
  BY NetMember
<1>3. /\ mapOf[s] = HomeMap(s) /\ mapOf[s] \in DOMAIN chans
      /\ s \in table[s] /\ table[s] \in SUBSET Node
  BY <1>2 DEF TypeOK, Inv, TableInv
<1>4. chan \in Started \cup {None} /\ chan \in Node \cup {None}
  BY StartedType DEF Inv, NewNodeInv
<1>5. (chan = None \/ chan >= N) /\ chan # s
  BY <1>1, ConstTypes DEF Inv, NewNodeInv, NetInv
<1>6. known \in SUBSET Node /\ s \in known
  BY <1>2, <1>3
<1>7. Cardinality(known) \in 1 .. N + MaxJoins
  <2> HIDE DEF known
  <2> QED  BY <1>6, CountOf
<1>8. \A x \in news : x \in Msg /\ x.type = "JOIN_SYNC" /\ x.dst \in Started
  <2>1. CASE chan = None
    BY <2>1
  <2>2. CASE chan # None
    <3>1. chan \in Node /\ chan \in Started /\ news = {SyncMsg(s, chan)}
      BY <1>4, <2>2
    <3> HIDE DEF chan, news
    <3> QED  BY <3>1, SyncMsgType
  <2> QED  BY <2>1, <2>2
<1>9. /\ DOMAIN map = DOMAIN chans[mapOf[s]] \cup {m.src}
      /\ map[m.src] = chan
      /\ \A x \in DOMAIN map : x # m.src => map[x] = chans[mapOf[s]][x]
  BY DEF Put
<1> HIDE DEF chan, map, known, news
<1>10. [view[s] EXCEPT !.nodes = Cardinality(known)] \in View
       /\ [view[s] EXCEPT !.nodes = Cardinality(known)].nodes = Cardinality(known)
  <2>1. view[s] \in View /\ Cardinality(known) \in Nat
    BY <1>7, NodeType DEF TypeOK
  <2> QED  BY <2>1 DEF View
<1>11. /\ DOMAIN chans' = DOMAIN chans
       /\ \A k \in DOMAIN chans : chans'[k] = IF k = mapOf[s] THEN map ELSE chans[k]
  BY <1>1, <1>3
<1>12. TypeOK'
  <2>1. ConsType'
    <3>1. view' \in [Node -> View]
      BY <1>1, <1>10 DEF TypeOK
    <3> QED  BY <1>1, <3>1 DEF TypeOK, ConsType, blkVars
  <2>2. MgmtType'
    <3>1. handle' \in [Node -> BOOLEAN] /\ state' \in [Node -> State]
      BY <1>1 DEF TypeOK, State
    <3>2. newNode' \in [Node -> [name : Node \cup {None}, chan : Node \cup {None}]]
      BY <1>1, ConstTypes DEF TypeOK
    <3>3. table' \in [Node -> SUBSET Node]
      BY <1>1, <1>6 DEF TypeOK
    <3>4. net' \subseteq Msg
      BY <1>1, <1>8 DEF TypeOK
    <3> QED  BY <1>1, <3>1, <3>2, <3>3, <3>4 DEF TypeOK, MgmtType, driverVars
  <2>3. MapType'
    <3>1. DOMAIN map \subseteq Node /\ \A x \in DOMAIN map : map[x] \in Node \cup {None}
      BY <1>2, <1>3, <1>4, <1>9 DEF TypeOK
    <3> QED  BY <1>11, <3>1 DEF TypeOK, MapType
  <2>4. link' \in [Node -> [Node -> Seq(Msg)]]
    BY <1>1 DEF TypeOK
  <2> QED  BY <2>1, <2>2, <2>3, <2>4 DEF TypeOK, ConsType, MgmtType, MapType
<1>13. ChannelInv'
  <2>1. Started' = Started
    BY <1>1 DEF Started, Running, driverVars
  <2>2. \A x \in DOMAIN map : map[x] \in Started \cup {None}
    BY <1>3, <1>4, <1>9 DEF Inv, ChannelInv
  <2>3. \A k \in DOMAIN chans' : \A x \in DOMAIN chans'[k] : chans'[k][x] \in Started \cup {None}
    BY <1>11, <2>2 DEF Inv, ChannelInv
  <2>4. ASSUME NEW t \in Node, NEW x \in DOMAIN chans'[HomeMap(t)], chans'[HomeMap(t)][x] = t
        PROVE  x = t
    <3>1. HomeMap(t) \in DOMAIN chans
      BY DEF HomeMap, TypeOK
    <3>2. CASE HomeMap(t) # HomeMap(s)
      <4>1. chans'[HomeMap(t)] = chans[HomeMap(t)]
        BY <1>3, <1>11, <3>1, <3>2
      <4> QED  BY <2>4, <4>1 DEF Inv, ChannelInv
    <3>3. CASE HomeMap(t) = HomeMap(s)
      <4>1. chans'[HomeMap(t)] = map
        BY <1>3, <1>11, <3>1, <3>3
      <4>2. chan # t
        <5>1. t \in Nat /\ s \in Nat /\ N \in Nat
          BY NodeType, NAssumption
        <5>2. t # None /\ t # Shared /\ s # Shared
          BY NodeType
        <5>3. CASE t < N
          BY <1>5, <5>1, <5>2, <5>3
        <5>4. CASE ~ (t < N)
          <6>1. s = t
            BY <3>3, <5>2, <5>4 DEF HomeMap
          <6> QED  BY <1>5, <6>1
        <5> QED  BY <5>3, <5>4
      <4>3. x # m.src
        BY <1>9, <2>4, <4>1, <4>2
      <4>4. x \in DOMAIN chans[HomeMap(t)] /\ chans[HomeMap(t)][x] = t
        BY <1>3, <1>9, <2>4, <3>3, <4>1, <4>3
      <4> QED  BY <4>4 DEF Inv, ChannelInv
    <3> QED  BY <3>2, <3>3
  <2>5. ChannelInv' <=> /\ \A k \in DOMAIN chans' : \A x \in DOMAIN chans'[k] :
                               chans'[k][x] \in Started' \cup {None}
                        /\ \A t \in Node : \A x \in DOMAIN chans'[HomeMap(t)] :
                               chans'[HomeMap(t)][x] = t => x = t
    BY DEF ChannelInv, HomeMap
  <2> QED  BY <2>1, <2>3, <2>4, <2>5
<1>14. Inv'
  <2>1. Queues(link')
    BY <1>1, LinkQueues DEF Inv
  <2>2. \A x \in Node : view'[x].nodes \in 1 .. N + MaxJoins
    <3>1. \A x \in Node : view'[x] = IF x = s THEN [view[s] EXCEPT !.nodes = Cardinality(known)]
                                              ELSE view[x]
      BY <1>1 DEF TypeOK
    <3> QED  BY <1>7, <1>10, <3>1 DEF Inv, TableInv
  <2>3. \A x \in Started : x \in table'[x]
    <3>1. \A x \in Node : table'[x] = IF x = s THEN known ELSE table[x]
      BY <1>1 DEF TypeOK
    <3> QED  BY <1>6, <3>1, StartedType DEF Inv, TableInv
  <2>4. \A x \in Node : \/ newNode'[x] = newNode[x] /\ busy'[x] = busy[x]
                        \/ newNode'[x].chan = None /\ busy'[x].kind # "EXIT"
    <3>1. \A x \in Node : newNode'[x] = IF x = s THEN NoNode ELSE newNode[x]
      BY <1>1 DEF TypeOK
    <3> QED  BY <1>1, <3>1, ConstTypes DEF NoNode
  <2>5. \A x \in net' : x \in net
                          \/ (x.dst \in Started /\ x.type \notin {"JOIN_APPLY", "EXIT_APPLY"})
    BY <1>1, <1>8
  <2> QED  BY <1>1, <1>13, <2>1, <2>2, <2>3, <2>4, <2>5, StepInv DEF driverVars
<1> QED  BY <1>12, <1>14

LEMMA LeaderType ==
    ASSUME NEW s \in Node, NEW msgs
    PROVE  GetLeaderFromSyncMsgs(s, msgs) \in Node \cup {None}
<1> DEFINE most == {l \in Node : Cardinality({i \in 1 .. Len(msgs) : msgs[i].leader = l})
                                     > Threshold(Cardinality(table[s]))}
<1>1. GetLeaderFromSyncMsgs(s, msgs) = IF most = {} THEN None ELSE CHOOSE l \in most : TRUE
  BY DEF GetLeaderFromSyncMsgs
<1>2. most \subseteq Node
  OBVIOUS
<1> HIDE DEF most
<1> QED  BY <1>1, <1>2

LEMMA HandleSyncSafe ==
    ASSUME TypeOK, Inv, NEW s \in Node, NEW m \in net, m.dst = s, busy[s] = Idle,
           HandleSync(s, m)
    PROVE  TypeOK' /\ Inv'
<1> DEFINE msgs   == Append(syncMsgs[s], m)
           high   == msgs[GetHighQCIndex(msgs)]
           n      == Cardinality(table[s])
           synced == SyncInfo(s, high, GetLeaderFromSyncMsgs(s, msgs))
           new    == newNode[s].name = s
           v      == IF new THEN synced ELSE [view[s] EXCEPT !.nodes = n]
           news   == Gossip(s, "JOIN_RESTART", 0)
           Synchronises ==
               /\ view' = [view EXCEPT ![s] = v]
               /\ qc' = [qc EXCEPT ![s] = IF new THEN high.qc ELSE @]
               /\ height' = [height EXCEPT ![s] = IF new THEN SyncedHeight(high) ELSE @]
               /\ blk' = [blk EXCEPT ![s] = IF new THEN high.blk ELSE @]
               /\ newNode' = [newNode EXCEPT ![s] = NoNode]
               /\ state' = [state EXCEPT ![s] = "INACTIVE"]
               /\ net' = (net \ {m}) \cup news
           Waits == net' = net \ {m} /\ UNCHANGED <<view, qc, blkVars, newNode, state>>
<1>1. /\ syncMsgs' = [syncMsgs EXCEPT ![s] = msgs]
      /\ UNCHANGED <<driverVars, handle, phase, curProposal, ignoreCheckQC, newViews,
                     votes, signNum, table, mapOf, chans, starting, busy, link>>
  BY DEF HandleSync
<1>2. Synchronises \/ Waits
  BY DEF HandleSync
<1>3. m \in Msg /\ s \in Started /\ syncMsgs[s] \in Seq(Msg)
  BY NetMember DEF TypeOK
<1>4. msgs \in Seq(Msg) /\ Len(msgs) > 0
  BY <1>3
<1>5. high \in Msg
  <2> HIDE DEF msgs
  <2> QED  BY <1>4, HighIndex
<1>6. high.view \in Nat /\ high.qc \in Int /\ high.blk \in Nat
  BY <1>5 DEF Msg
<1>7. n \in 1 .. N + MaxJoins /\ n \in Nat
  <2>1. table[s] \in SUBSET Node /\ s \in table[s]
    BY <1>3 DEF TypeOK, Inv, TableInv
  <2>2. n \in 1 .. N + MaxJoins
    BY <2>1, CountOf
  <2> HIDE DEF n
  <2> QED  BY <2>2, NodeType
<1>8. v \in View /\ v.nodes = n
  <2>1. synced = [num |-> high.view, leader |-> GetLeaderFromSyncMsgs(s, msgs), nodes |-> n]
    BY DEF SyncInfo
  <2>2. GetLeaderFromSyncMsgs(s, msgs) \in Node \cup {None}
    BY LeaderType
  <2> HIDE DEF n, high, msgs
  <2>3. synced \in View /\ synced.nodes = n
    BY <1>6, <1>7, <2>1, <2>2 DEF View
  <2>4. view[s] \in View
    BY DEF TypeOK
  <2>5. [view[s] EXCEPT !.nodes = n] \in View /\ [view[s] EXCEPT !.nodes = n].nodes = n
    BY <1>7, <2>4 DEF View
  <2> HIDE DEF synced
  <2> QED  BY <2>3, <2>5
<1>9. \A x \in news : x \in Msg /\ x.type = "JOIN_RESTART" /\ x.dst \in Started
  BY GossipStarted DEF MgmtMsg
<1> HIDE DEF msgs, high, v, news, new, n
<1>10. ASSUME Synchronises
       PROVE  /\ ConsType' /\ state' \in [Node -> State]
              /\ newNode' \in [Node -> [name : Node \cup {None}, chan : Node \cup {None}]]
              /\ \A x \in net' : x \in net
                                   \/ (x \in Msg /\ x.dst \in Started /\ x.type = "JOIN_RESTART")
              /\ \A x \in Node : view'[x].nodes \in 1 .. N + MaxJoins
              /\ \A x \in Node : newNode'[x] = IF x = s THEN NoNode ELSE newNode[x]
  <2>1. view' \in [Node -> View] /\ \A x \in Node : view'[x] = IF x = s THEN v ELSE view[x]
    BY <1>8, <1>10 DEF TypeOK
  <2>2. qc' \in [Node -> Int]
    <3>1. (IF new THEN high.qc ELSE qc[s]) \in Int /\ qc \in [Node -> Int]
      BY <1>6 DEF TypeOK
    <3> QED  BY <1>10, <3>1
  <2>3. height' \in [Node -> Nat] /\ blk' \in [Node -> Nat]
    <3>1. SyncedHeight(high) \in Nat
      BY <1>6 DEF SyncedHeight
    <3>2. (IF new THEN SyncedHeight(high) ELSE height[s]) \in Nat /\ height \in [Node -> Nat]
      BY <3>1 DEF TypeOK
    <3>3. (IF new THEN high.blk ELSE blk[s]) \in Nat /\ blk \in [Node -> Nat]
      BY <1>6 DEF TypeOK
    <3>4. height' \in [Node -> Nat]
      BY <1>10, <3>2
    <3>5. blk' \in [Node -> Nat]
      BY <1>10, <3>3
    <3> QED  BY <3>4, <3>5
  <2>4. ConsType'
    BY <1>1, <2>1, <2>2, <2>3 DEF TypeOK, ConsType
  <2>5. state' \in [Node -> State]
    BY <1>10 DEF TypeOK, State
  <2>6. /\ newNode' \in [Node -> [name : Node \cup {None}, chan : Node \cup {None}]]
        /\ \A x \in Node : newNode'[x] = IF x = s THEN NoNode ELSE newNode[x]
    BY <1>10, ConstTypes DEF TypeOK
  <2>7. \A x \in net' : x \in net \/ (x \in Msg /\ x.dst \in Started /\ x.type = "JOIN_RESTART")
    BY <1>9, <1>10
  <2>8. \A x \in Node : view'[x].nodes \in 1 .. N + MaxJoins
    BY <1>7, <1>8, <2>1 DEF Inv, TableInv
  <2> QED  BY <2>4, <2>5, <2>6, <2>7, <2>8
<1>11. ASSUME Waits
       PROVE  /\ ConsType' /\ state' \in [Node -> State]
              /\ newNode' \in [Node -> [name : Node \cup {None}, chan : Node \cup {None}]]
              /\ \A x \in net' : x \in net
                                   \/ (x \in Msg /\ x.dst \in Started /\ x.type = "JOIN_RESTART")
              /\ \A x \in Node : view'[x].nodes \in 1 .. N + MaxJoins
              /\ \A x \in Node : newNode'[x] = newNode[x]
  BY <1>1, <1>11 DEF TypeOK, ConsType, blkVars, Inv, TableInv
<1>12. TypeOK'
  <2>1. MgmtType'
    <3>1. syncMsgs' \in [Node -> Seq(Msg)]
      BY <1>1, <1>4 DEF TypeOK
    <3>2. net' \subseteq Msg
      BY <1>2, <1>10, <1>11 DEF TypeOK
    <3> HIDE DEF Synchronises, Waits
    <3> QED  BY <1>1, <1>2, <1>10, <1>11, <3>1, <3>2 DEF TypeOK, MgmtType, driverVars
  <2>2. MapType' /\ link' \in [Node -> [Node -> Seq(Msg)]]
    BY <1>1 DEF TypeOK, MapType
  <2>3. ConsType'
    BY <1>2, <1>10, <1>11
  <2> QED  BY <2>1, <2>2, <2>3 DEF TypeOK, ConsType, MgmtType, MapType
<1>13. Inv'
  <2>1. ChannelInv' /\ Queues(link')
    BY <1>1, ChannelKept, LinkQueues DEF driverVars, Inv
  <2>2. /\ \A x \in net' : x \in net
                             \/ (x.dst \in Started /\ x.type \notin {"JOIN_APPLY", "EXIT_APPLY"})
        /\ \A x \in Node : view'[x].nodes \in 1 .. N + MaxJoins
    BY <1>2, <1>10, <1>11
  <2>3. \A x \in Node : \/ newNode'[x] = newNode[x] /\ busy'[x] = busy[x]
                        \/ newNode'[x].chan = None /\ busy'[x].kind # "EXIT"
    <3>1. \A x \in Node : newNode'[x] = newNode[x] \/ (x = s /\ newNode'[x] = NoNode)
      BY <1>2, <1>10, <1>11
    <3> QED  BY <1>1, <3>1, ConstTypes DEF NoNode
  <2> QED  BY <1>1, <2>1, <2>2, <2>3, StepInv DEF driverVars, Inv, TableInv
<1> QED  BY <1>12, <1>13

\* The leaving node is deleted where its application was read, and nowhere else.
LEMMA AgreeAndUpdateSafe ==
    ASSUME TypeOK, Inv, NEW s \in Node, AgreeAndUpdate(s)
    PROVE  TypeOK' /\ Inv'
<1> DEFINE left == newNode[s]
           map  == Delete(chans[mapOf[s]], left.name)
           rest == table[s] \ {left.name}
           agree == MkMsg("EXIT_AGREE", s, left.chan, 0)
<1>1. /\ busy[s].kind = "EXIT"
      /\ UNCHANGED <<driverVars, handle, qc, phase, curProposal, ignoreCheckQC, newViews,
                     votes, blkVars, signNum, mapOf, syncMsgs, starting, link>>
  BY DEF AgreeAndUpdate
<1>2. s \in Started /\ left.name # s /\ left.chan \in Started \cup {None}
  BY <1>1 DEF Inv, NewNodeInv
<1>3. busy \in [Node -> BusyState] /\ Idle \in BusyState /\ Blocked \in BusyState
  BY ConstTypes DEF TypeOK, BusyState
<1>4. Queues(link')
  BY <1>1, LinkQueues DEF Inv
<1>5. CASE /\ left.chan = None /\ busy' = [busy EXCEPT ![s] = Blocked]
           /\ UNCHANGED <<net, chans, table, view, newNode, state>>
  <2>1. ConsType'
    BY <1>1, <1>5 DEF TypeOK, ConsType, blkVars
  <2>2. MgmtType'
    <3>1. busy' \in [Node -> BusyState]
      BY <1>3, <1>5
    <3> QED  BY <1>1, <1>5, <3>1 DEF TypeOK, MgmtType, driverVars, BusyState
  <2>3. MapType' /\ link' \in [Node -> [Node -> Seq(Msg)]]
    BY <1>1, <1>5 DEF TypeOK, MapType
  <2>4. TypeOK'
    BY <2>1, <2>2, <2>3 DEF TypeOK, ConsType, MgmtType, MapType
  <2>5. ChannelInv'
    BY <1>1, <1>5, ChannelKept DEF driverVars
  <2>6. \A x \in Node : \/ newNode'[x] = newNode[x]
                               /\ (busy'[x].kind = "EXIT" <=> busy[x].kind = "EXIT")
                        \/ newNode'[x].chan = None /\ busy'[x].kind # "EXIT"
    <3>1. \A x \in Node : busy'[x] = IF x = s THEN Blocked ELSE busy[x]
      BY <1>3, <1>5
    <3> QED  BY <1>5, <3>1, ConstTypes
  <2>7. Inv'
    BY <1>1, <1>4, <1>5, <2>5, <2>6, StepInv DEF driverVars, Inv, TableInv
  <2> QED  BY <2>4, <2>7
<1>6. CASE /\ left.chan # None /\ busy' = [busy EXCEPT ![s] = Idle]
           /\ net' = net \cup {agree}
           /\ chans' = [chans EXCEPT ![mapOf[s]] = map]
           /\ table' = [table EXCEPT ![s] = rest]
           /\ view' = [view EXCEPT ![s] = [@ EXCEPT !.nodes = Cardinality(rest)]]
           /\ newNode' = [newNode EXCEPT ![s] = NoNode]
           /\ state' = [state EXCEPT ![s] = "INACTIVE"]
  <2>1. s \in rest /\ rest \in SUBSET Node
    BY <1>2 DEF TypeOK, Inv, TableInv
  <2>2. Cardinality(rest) \in 1 .. N + MaxJoins
    <3> HIDE DEF rest
    <3> QED  BY <2>1, CountOf
  <2>3. left.chan \in Node /\ left.chan \in Started
    BY <1>2, <1>6, StartedType
  <2>4. agree \in Msg /\ agree.type = "EXIT_AGREE" /\ agree.dst \in Started
    <3> DEFINE c == left.chan
    <3>1. c \in Node /\ c \in Started /\ "EXIT_AGREE" \in ConsMsg \cup MgmtMsg /\ 0 \in Nat
      BY <2>3 DEF MgmtMsg
    <3>2. agree = MkMsg("EXIT_AGREE", s, c, 0)
      OBVIOUS
    <3> HIDE DEF c, agree
    <3> QED  BY <3>1, <3>2, MkMsgType
  <2>5. DOMAIN map \subseteq DOMAIN chans[mapOf[s]]
                              /\ \A x \in DOMAIN map : map[x] = chans[mapOf[s]][x]
    BY DEF Delete
  <2>6. mapOf[s] \in DOMAIN chans
    BY DEF TypeOK
  <2> HIDE DEF left, map, rest, agree
  <2>7. /\ DOMAIN chans' = DOMAIN chans
        /\ \A k \in DOMAIN chans : /\ DOMAIN chans'[k] \subseteq DOMAIN chans[k]
                                   /\ \A x \in DOMAIN chans'[k] : chans'[k][x] = chans[k][x]
    BY <1>6, <2>5, <2>6
  <2>8. [view[s] EXCEPT !.nodes = Cardinality(rest)] \in View
        /\ [view[s] EXCEPT !.nodes = Cardinality(rest)].nodes = Cardinality(rest)
    <3>1. view[s] \in View /\ Cardinality(rest) \in Nat
      BY <2>2, NodeType DEF TypeOK
    <3> QED  BY <3>1 DEF View
  <2>9. ConsType'
    <3>1. view' \in [Node -> View]
      BY <1>6, <2>8 DEF TypeOK
    <3> QED  BY <1>1, <3>1 DEF TypeOK, ConsType, blkVars
  <2>10. MgmtType'
    <3>1. busy' \in [Node -> BusyState]
      BY <1>3, <1>6
    <3>2. newNode' \in [Node -> [name : Node \cup {None}, chan : Node \cup {None}]]
      BY <1>6, ConstTypes DEF TypeOK
    <3>3. table' \in [Node -> SUBSET Node] /\ state' \in [Node -> State]
      BY <1>6, <2>1 DEF TypeOK, State
    <3>4. net' \subseteq Msg
      BY <1>6, <2>4 DEF TypeOK
    <3> QED  BY <1>1, <3>1, <3>2, <3>3, <3>4 DEF TypeOK, MgmtType, driverVars, BusyState
  <2>11. MapType' /\ link' \in [Node -> [Node -> Seq(Msg)]]
    BY <1>1, <2>7 DEF TypeOK, MapType
  <2>12. TypeOK'
    BY <2>9, <2>10, <2>11 DEF TypeOK, ConsType, MgmtType, MapType
  <2>13. ChannelInv'
    <3>1. Started' = Started
      BY <1>1 DEF Started, Running, driverVars
    <3>2. \A t \in Node : HomeMap(t) \in DOMAIN chans
      BY DEF HomeMap, TypeOK
    <3>3. ChannelInv' <=> /\ \A k \in DOMAIN chans' : \A x \in DOMAIN chans'[k] :
                               chans'[k][x] \in Started' \cup {None}
                          /\ \A t \in Node : \A x \in DOMAIN chans'[HomeMap(t)] :
                               chans'[HomeMap(t)][x] = t => x = t
      BY DEF ChannelInv, HomeMap
    <3>4. \A k \in DOMAIN chans' : \A x \in DOMAIN chans'[k] : chans'[k][x] \in Started' \cup {None}
      BY <2>7, <3>1 DEF Inv, ChannelInv
    <3>5. \A t \in Node : \A x \in DOMAIN chans'[HomeMap(t)] : chans'[HomeMap(t)][x] = t => x = t
      BY <2>7, <3>2 DEF Inv, ChannelInv
    <3> QED  BY <3>3, <3>4, <3>5
  <2>14. \A x \in Node : \/ newNode'[x] = newNode[x]
                                /\ (busy'[x].kind = "EXIT" <=> busy[x].kind = "EXIT")
                         \/ newNode'[x].chan = None /\ busy'[x].kind # "EXIT"
    <3>1. \A x \in Node : busy'[x] = IF x = s THEN Idle ELSE busy[x]
      BY <1>3, <1>6
    <3>2. \A x \in Node : newNode'[x] = IF x = s THEN NoNode ELSE newNode[x]
      BY <1>6 DEF TypeOK
    <3> QED  BY <3>1, <3>2, ConstTypes DEF NoNode
  <2>15. \A x \in Started : x \in table'[x]
    <3>1. \A x \in Node : table'[x] = IF x = s THEN rest ELSE table[x]
      BY <1>6 DEF TypeOK
    <3> QED  BY <2>1, <3>1, StartedType DEF Inv, TableInv
  <2>16. \A x \in Node : view'[x].nodes \in 1 .. N + MaxJoins
    <3>1. \A x \in Node : view'[x] = IF x = s THEN [view[s] EXCEPT !.nodes = Cardinality(rest)]
                                              ELSE view[x]
      BY <1>6 DEF TypeOK
    <3> QED  BY <2>2, <2>8, <3>1 DEF Inv, TableInv
  <2>17. \A x \in net' : x \in net
                           \/ (x.dst \in Started /\ x.type \notin {"JOIN_APPLY", "EXIT_APPLY"})
    BY <1>6, <2>4
  <2>18. Inv'
    BY <1>1, <1>4, <2>13, <2>14, <2>15, <2>16, <2>17, StepInv DEF driverVars
  <2> QED  BY <2>12, <2>18
<1> QED  BY <1>5, <1>6 DEF AgreeAndUpdate

\* NewNode takes the channel of the leaving node, which is another node.
LEMMA HandleExitSafe ==
    ASSUME TypeOK, Inv, NEW s \in Node, NEW m \in net, m.dst = s, HandleExit(s, m)
    PROVE  TypeOK' /\ Inv'
<1> DEFINE b == [kind |-> "EXIT", node |-> m.src]
           c == ChanOf(s, m.src)
           new == [name |-> m.src, chan |-> c]
<1>1. /\ m.type = "EXIT_APPLY"
      /\ handle' = [handle EXCEPT ![s] = FALSE]
      /\ newNode' = [newNode EXCEPT ![s] = new]
      /\ busy' = [busy EXCEPT ![s] = b]
      /\ net' = net \ {m}
      /\ UNCHANGED <<driverVars, consVars, signNum, table, mapOf, chans, state, syncMsgs,
                     starting, link>>
  BY DEF HandleExit
<1>2. m.src \in Node /\ s \in Started /\ m.src # s
  BY <1>1, NetMember DEF Inv, NetInv
<1>3. c \in Started \cup {None} /\ c \in Node \cup {None} /\ c # s
  <2>1. c \in Started \cup {None} /\ (c = s => m.src = s)
    BY <1>2, ChanStarted
  <2> HIDE DEF c
  <2> QED  BY <1>2, <2>1, StartedType
<1> HIDE DEF c
<1>4. /\ new \in [name : Node \cup {None}, chan : Node \cup {None}]
      /\ new.name = m.src /\ new.chan = c
  BY <1>2, <1>3
<1>5. b \in BusyState /\ b.kind = "EXIT" /\ busy \in [Node -> BusyState]
  BY <1>2 DEF BusyState, TypeOK
<1> HIDE DEF new, b
<1>6. TypeOK'
  <2>1. ConsType'
    BY <1>1 DEF TypeOK, ConsType, consVars, blkVars
  <2>2. MgmtType'
    <3>1. newNode' \in [Node -> [name : Node \cup {None}, chan : Node \cup {None}]]
      BY <1>1, <1>4 DEF TypeOK
    <3>2. busy' \in [Node -> BusyState]
      BY <1>1, <1>5
    <3>3. handle' \in [Node -> BOOLEAN]
      BY <1>1 DEF TypeOK
    <3> QED  BY <1>1, <3>1, <3>2, <3>3 DEF TypeOK, MgmtType, driverVars, BusyState
  <2>3. MapType' /\ link' \in [Node -> [Node -> Seq(Msg)]]
    BY <1>1 DEF TypeOK, MapType
  <2> QED  BY <2>1, <2>2, <2>3 DEF TypeOK, ConsType, MgmtType, MapType
<1>7. Started' = Started
  BY <1>1 DEF Started, Running, driverVars
<1>8. \A x \in Node : /\ newNode'[x] = IF x = s THEN new ELSE newNode[x]
                      /\ busy'[x] = IF x = s THEN b ELSE busy[x]
  BY <1>1, <1>5 DEF TypeOK
<1>9. TableInv'
  BY <1>1, <1>7 DEF Inv, TableInv, driverVars, consVars, HomeMap
<1>10. ChannelInv'
  BY <1>1, ChannelKept DEF driverVars
<1>11. NewNodeInv'
  <2>1. ASSUME NEW x \in Node
        PROVE  /\ newNode'[x].chan \in Started \cup {None}
               /\ newNode'[x].chan = None \/ newNode'[x].chan >= N \/ busy'[x].kind = "EXIT"
               /\ busy'[x].kind = "EXIT" => x \in Started /\ newNode'[x].name # x
    <3>1. CASE x = s
      BY <1>2, <1>3, <1>4, <1>5, <1>8, <3>1
    <3>2. CASE x # s
      <4>1. newNode'[x] = newNode[x] /\ busy'[x] = busy[x]
        BY <1>8, <3>2
      <4> QED  BY <4>1 DEF Inv, NewNodeInv
    <3> QED  BY <3>1, <3>2
  <2> QED  BY <1>7, <2>1 DEF NewNodeInv
<1>12. NetInv'
  <2>1. ASSUME NEW x \in net'
        PROVE  /\ x.dst \in Started
               /\ x.type = "JOIN_APPLY" => newNode'[x.dst].chan # x.dst
               /\ x.type = "EXIT_APPLY" => x.src # x.dst
    <3>1. x \in net /\ x.dst \in Node /\ x.dst \in Started
      BY <1>1, NetMember
    <3>2. CASE x.dst = s
      BY <1>3, <1>4, <1>8, <3>1, <3>2 DEF Inv, NetInv
    <3>3. CASE x.dst # s
      <4>1. newNode'[x.dst] = newNode[x.dst]
        BY <1>8, <3>1, <3>3
      <4> QED  BY <3>1, <4>1 DEF Inv, NetInv
    <3> QED  BY <3>2, <3>3
  <2>2. link' = link
    BY <1>1
  <2> QED  BY <1>7, <2>1, <2>2 DEF Inv, NetInv
<1> QED  BY <1>6, <1>9, <1>10, <1>11, <1>12 DEF Inv

LEMMA ManageSafe ==
    ASSUME TypeOK, Inv, NEW m \in net, Manage(m)
    PROVE  TypeOK' /\ Inv'
<1> DEFINE s == m.dst
<1>1. s \in Node
  BY NetMember
<1>2. /\ busy[s] = Idle
      /\ \/ HandleJoin(s, m) \/ HandleSync(s, m) \/ HandleExit(s, m) \/ HandleAgree(s, m)
         \/ AwaitSigners(s, m)
  BY DEF Manage
<1>3. CASE HandleJoin(s, m)   BY <1>1, <1>2, <1>3, HandleJoinSafe
<1>4. CASE HandleSync(s, m)   BY <1>1, <1>2, <1>4, HandleSyncSafe
<1>5. CASE HandleExit(s, m)   BY <1>1, <1>5, HandleExitSafe
<1>6. CASE HandleAgree(s, m)  BY <1>1, <1>6, HandleAgreeSafe
<1>7. CASE AwaitSigners(s, m)  BY <1>1, <1>2, <1>7, AwaitSignersSafe
<1> QED  BY <1>2, <1>3, <1>4, <1>5, <1>6, <1>7

----------------------------------------------------------------------------
(* Commands *)

\* append([:i], [i+1:]) of the slice q
Without(q, i) == SubSeq(q, 1, i - 1) \o SubSeq(q, i + 1, Len(q))

\* r has the members of q, but perhaps the one at i
AllBut(q, i, r) ==
    /\ \A j \in 1 .. Len(r) : \E k \in 1 .. Len(q) : r[j] = q[k]
    /\ \A k \in 1 .. Len(q) : k = i \/ \E j \in 1 .. Len(r) : r[j] = q[k]

\* Removing one of the servers from the slice keeps all others.
LEMMA RemoveServer ==
    ASSUME NEW q \in Seq(Node), NEW i \in DOMAIN q, NEW r, r = Without(q, i)
    PROVE  r \in Seq(Node) /\ Len(r) = Len(q) - 1 /\ AllBut(q, i, r)
<1> DEFINE a == SubSeq(q, 1, i - 1)
           b == SubSeq(q, i + 1, Len(q))
<1>1. i \in 1 .. Len(q) /\ Len(q) \in Nat /\ i \in Nat /\ 1 <= i /\ i <= Len(q)
  OBVIOUS
<1>2. a \in Seq(Node) /\ Len(a) = i - 1 /\ \A j \in 1 .. i - 1 : a[j] = q[j]
  BY <1>1
<1>3. b \in Seq(Node) /\ Len(b) = Len(q) - i /\ \A j \in 1 .. Len(q) - i : b[j] = q[i + j]
  BY <1>1
<1>4. r = a \o b
  BY DEF Without
<1> HIDE DEF a, b
<1>5. r \in Seq(Node) /\ Len(r) = Len(q) - 1
  <2>1. a \o b \in Seq(Node) /\ Len(a \o b) = Len(a) + Len(b)
    <3>1. a \in Seq(Node) /\ b \in Seq(Node)
      BY <1>2, <1>3
    <3> QED  BY ONLY <3>1
  <2>2. Len(a) + Len(b) = Len(q) - 1
    BY <1>1, <1>2, <1>3
  <2> QED  BY <1>4, <2>1, <2>2
<1>6. \A j \in 1 .. i - 1 : r[j] = q[j]
  BY <1>1, <1>2, <1>3, <1>4
<1>7. \A j \in i .. Len(q) - 1 : r[j] = q[j + 1]
  <2> SUFFICES ASSUME NEW j \in i .. Len(q) - 1 PROVE r[j] = q[j + 1]
    OBVIOUS
  <2>1. j \in 1 .. Len(q) - 1 /\ j > Len(a) /\ j - Len(a) \in 1 .. Len(b)
    BY <1>1, <1>2, <1>3
  <2>2. r[j] = b[j - Len(a)]
    <3> DEFINE k == j - Len(a)
    <3>1. Len(a) + k = j /\ k \in 1 .. Len(b)
      BY <1>1, <1>2, <2>1
    <3> HIDE DEF k
    <3>2. \A x \in 1 .. Len(b) : (a \o b)[Len(a) + x] = b[x]
      <4>1. a \in Seq(Node) /\ b \in Seq(Node)
        BY <1>2, <1>3
      <4> QED  BY ONLY <4>1
    <3>3. (a \o b)[Len(a) + k] = b[k]
      BY <3>1, <3>2
    <3> QED  BY <1>4, <3>1, <3>3 DEF k
  <2>3. i + (j - Len(a)) = j + 1
    BY <1>1, <1>2
  <2>4. b[j - Len(a)] = q[i + (j - Len(a))]
    BY <1>3, <2>1
  <2> QED  BY <2>2, <2>3, <2>4
<1>8. \A j \in 1 .. Len(r) : \E k \in 1 .. Len(q) : r[j] = q[k]
  <2> SUFFICES ASSUME NEW j \in 1 .. Len(r) PROVE \E k \in 1 .. Len(q) : r[j] = q[k]
    OBVIOUS
  <2>1. CASE j < i
    <3>1. j \in Nat /\ j >= 1
      BY <1>1, <1>5
    <3>2. j \in 1 .. i - 1 /\ j \in 1 .. Len(q)
      BY <1>1, <2>1, <3>1
    <3> QED  BY <1>6, <3>2
  <2>2. CASE ~ (j < i)
    <3>1. j \in i .. Len(q) - 1 /\ j + 1 \in 1 .. Len(q)
      BY <1>1, <1>5, <2>2
    <3> QED  BY <1>7, <3>1
  <2> QED  BY <2>1, <2>2
<1>9. \A k \in 1 .. Len(q) : k = i \/ \E j \in 1 .. Len(r) : r[j] = q[k]
  <2> SUFFICES ASSUME NEW k \in 1 .. Len(q), k # i PROVE \E j \in 1 .. Len(r) : r[j] = q[k]
    OBVIOUS
  <2>1. CASE k < i
    <3>1. k \in 1 .. i - 1 /\ k \in 1 .. Len(r)
      BY <1>1, <1>5, <2>1
    <3> QED  BY <1>6, <3>1
  <2>2. CASE ~ (k < i)
    <3>1. k - 1 \in i .. Len(q) - 1 /\ k - 1 \in 1 .. Len(r) /\ (k - 1) + 1 = k
      BY <1>1, <1>5, <2>2
    <3>2. r[k - 1] = q[(k - 1) + 1]
      BY <1>7, <3>1
    <3> QED  BY <3>1, <3>2
  <2> QED  BY <2>1, <2>2
<1> QED  BY <1>5, <1>8, <1>9 DEF AllBut

\* A server leaves the slice and stays a node that has run. It tells every node of its
\* table it has a channel to, and never itself.
LEMMA OriServerExitSafe ==
    ASSUME TypeOK, Inv, NEW s \in Node, OriServerExit(s)
    PROVE  TypeOK' /\ Inv'
<1> DEFINE i == CHOOSE i \in DOMAIN servers : servers[i] = s
           to == {x \in table[s] \ {s} : ChanOf(s, x) # None}
           news == {MkMsg("EXIT_APPLY", s, ChanOf(s, d), 0) : d \in to}
<1>1. /\ s \in Leavers \cap Running
      /\ exited' = exited \cup {s}
      /\ servers' = SubSeq(servers, 1, i - 1) \o SubSeq(servers, i + 1, Len(servers))
      /\ signersDue' = signersDue + 1
      /\ handle' = [handle EXCEPT ![s] = FALSE]
      /\ starting' = starting \cup {s}
      /\ net' = net \cup news
      /\ UNCHANGED <<joins, consVars, signNum, table, mapOf, chans, newNode, state,
                     syncMsgs, busy, link>>
  BY DEF OriServerExit, ExitApply
<1>2. servers \in Seq(Node) /\ DOMAIN servers = 1 .. Len(servers)
  BY DEF TypeOK
<1>3. i \in DOMAIN servers /\ servers[i] = s
  BY <1>1, <1>2 DEF Running
<1> HIDE DEF i
<1>4. /\ servers' \in Seq(Node) /\ Len(servers') = Len(servers) - 1
      /\ Running' \cup {s} = Running
  <2> DEFINE q == servers
             r == servers'
  <2>2. r \in Seq(Node) /\ Len(r) = Len(q) - 1 /\ AllBut(q, i, r)
    <3>1. q \in Seq(Node) /\ i \in DOMAIN q /\ r = Without(q, i)
      BY <1>1, <1>2, <1>3 DEF Without
    <3> HIDE DEF q, r
    <3> QED  BY <3>1, RemoveServer
  <2>3. Running = {q[j] : j \in 1 .. Len(q)} /\ Running' = {r[j] : j \in 1 .. Len(r)}
    BY DEF Running
  <2>4. i \in 1 .. Len(q) /\ q[i] = s
    BY <1>2, <1>3
  <2> HIDE DEF q, r
  <2>5. \A x \in Running' : x \in Running
    BY <2>2, <2>3 DEF AllBut
  <2>6. \A x \in Running : x \in Running' \/ x = s
    BY <2>2, <2>3, <2>4 DEF AllBut
  <2>7. s \in Running
    BY <1>1
  <2>8. Running' \cup {s} = Running
    BY <2>5, <2>6, <2>7
  <2> QED  BY <2>2, <2>8 DEF q, r
<1>5. Started' = Started /\ s \in Started
  BY <1>1, <1>4 DEF Started
<1>6. \A m \in news : m \in Msg /\ m.type = "EXIT_APPLY" /\ m.src = s
                        /\ m.dst \in Started /\ m.dst # s
  <2> SUFFICES ASSUME NEW d \in to
               PROVE  LET m == MkMsg("EXIT_APPLY", s, ChanOf(s, d), 0)
                      IN  m \in Msg /\ m.type = "EXIT_APPLY" /\ m.src = s
                          /\ m.dst \in Started /\ m.dst # s
    OBVIOUS
  <2> DEFINE c == ChanOf(s, d)
  <2>1. c \in Started \cup {None} /\ (c = s => d = s)
    BY <1>5, ChanStarted
  <2>2. c # None /\ d # s
    OBVIOUS
  <2> HIDE DEF c
  <2>3. c \in Started /\ c \in Node /\ c # s
    BY <2>1, <2>2, StartedType
  <2>4. "EXIT_APPLY" \in ConsMsg \cup MgmtMsg /\ 0 \in Nat
    BY DEF MgmtMsg
  <2>5. /\ MkMsg("EXIT_APPLY", s, c, 0) \in Msg
        /\ MkMsg("EXIT_APPLY", s, c, 0).type = "EXIT_APPLY"
        /\ MkMsg("EXIT_APPLY", s, c, 0).src = s /\ MkMsg("EXIT_APPLY", s, c, 0).dst = c
    BY <2>3, <2>4, MkMsgType
  <2> QED  BY <2>3, <2>5 DEF c
<1> HIDE DEF to, news
<1>7. TypeOK'
  <2>1. ConsType'
    BY <1>1 DEF TypeOK, ConsType, consVars, blkVars
  <2>2. MgmtType'
    <3>1. exited' \subseteq Node /\ starting' \subseteq Node
      BY <1>1 DEF TypeOK
    <3>2. signersDue' \in Nat
      BY <1>1 DEF TypeOK
    <3>3. handle' \in [Node -> BOOLEAN]
      BY <1>1 DEF TypeOK
    <3>4. net' \subseteq Msg
      BY <1>1, <1>6 DEF TypeOK
    <3> QED  BY <1>1, <1>4, <3>1, <3>2, <3>3, <3>4 DEF TypeOK, MgmtType
  <2>3. MapType' /\ link' \in [Node -> [Node -> Seq(Msg)]]
    BY <1>1 DEF TypeOK, MapType
  <2> QED  BY <2>1, <2>2, <2>3 DEF TypeOK, ConsType, MgmtType, MapType
<1>8. TableInv'
  <2>1. Len(servers') <= N + joins
    <3>1. Len(servers) \in Nat /\ Len(servers) <= N + joins /\ N + joins \in Int
      BY <1>2, NAssumption DEF Inv, TableInv, TypeOK
    <3> QED  BY <1>4, <3>1
  <2> QED  BY <1>1, <1>5, <2>1 DEF Inv, TableInv, consVars, HomeMap
<1>9. ChannelInv'
  BY <1>1, <1>5 DEF Inv, ChannelInv, HomeMap
<1>10. NewNodeInv'
  BY <1>1, <1>5 DEF Inv, NewNodeInv
<1>11. NetInv'
  BY <1>1, <1>5, <1>6 DEF Inv, NetInv
<1> QED  BY <1>7, <1>8, <1>9, <1>10, <1>11 DEF Inv

\* A new server has a number no node had before, and a map of its own.
LEMMA NewServerJoinSafe ==
    ASSUME TypeOK, Inv, NewServerJoin
    PROVE  TypeOK' /\ Inv'
<1> DEFINE id   == Len(servers)
           old  == Running
           v    == [num |-> 0, leader |-> 0, nodes |-> id]
           map  == [x \in old \cup {id} |-> x]
           node(s) == IF s = id THEN [name |-> id, chan |-> id]
                      ELSE IF s \in old THEN [newNode[s] EXCEPT !.chan = id]
                      ELSE newNode[s]
           news == {MkMsg("JOIN_APPLY", id, d, 0) : d \in old \ {id}}
<1>1. /\ joins < MaxJoins
      /\ id \notin old \cup exited
      /\ joins' = joins + 1
      /\ servers' = Append(servers, id)
      /\ signersDue' = signersDue + 1
      /\ handle' = [handle EXCEPT ![id] = TRUE]
      /\ view' = [view EXCEPT ![id] = v]
      /\ signNum' = [signNum EXCEPT ![id] = 1]
      /\ table' = [table EXCEPT ![id] = old \cup {id}]
      /\ mapOf' = [mapOf EXCEPT ![id] = id]
      /\ chans' = [chans EXCEPT ![id] = map]
      /\ newNode' = [s \in Node |-> node(s)]
      /\ starting' = starting \cup {id}
      /\ net' = net \cup news
      /\ UNCHANGED <<exited, qc, phase, curProposal, ignoreCheckQC, newViews, votes,
                     blkVars, state, syncMsgs, busy, link>>
  BY DEF NewServerJoin
<1>2. /\ servers \in Seq(Node) /\ id \in Nat /\ joins \in Nat /\ N \in Nat /\ N > 0
      /\ MaxJoins \in Nat
  BY NAssumption, BoundAssumption DEF TypeOK
<1>3. id \notin Started
  BY <1>1 DEF Started
<1>4. id >= N
  <2>1. ASSUME id < N PROVE FALSE
    <3> HIDE DEF id
    <3>1. id \in 0 .. N - 1
      BY <1>2, <2>1
    <3> QED  BY <1>3, <3>1 DEF Inv, TableInv
  <2> QED  BY <1>2, <2>1
<1>5. id <= N + joins
  BY DEF Inv, TableInv
<1> HIDE DEF id
<1>6. id \in Node /\ id \in 1 .. N + MaxJoins
  <2>1. id <= N + MaxJoins - 1 /\ id >= 0 /\ id >= 1
    BY <1>1, <1>2, <1>4, <1>5
  <2> QED  BY <1>2, <2>1 DEF Node
<1>7. id # None /\ id # Shared /\ 0 \in Node
  <2>1. 0 \in Node
    BY <1>2 DEF Node
  <2> QED  BY <1>6, <2>1, NodeType
<1>8. old \subseteq Node /\ old \subseteq Started
  BY StartedType DEF Started
<1>9. Running' = old \cup {id} /\ Started' = Started \cup {id}
  <2>1. Len(servers') = Len(servers) + 1 /\ servers'[Len(servers) + 1] = id
    BY <1>1, <1>2
  <2>2. \A j \in 1 .. Len(servers) : servers'[j] = servers[j]
    BY <1>1, <1>2
  <2>3. Running' = old \cup {id}
    <3> DEFINE n == Len(servers)
    <3>1. n \in Nat /\ 1 .. n + 1 = (1 .. n) \cup {n + 1}
      BY <1>2
    <3>2. Running' = {servers'[j] : j \in 1 .. n + 1} /\ old = {servers[j] : j \in 1 .. n}
      BY <2>1 DEF Running
    <3> HIDE DEF n, old
    <3> QED  BY <2>1, <2>2, <3>1, <3>2 DEF n
  <2> QED  BY <1>1, <2>3 DEF Started
<1>10. \A m \in news : m \in Msg /\ m.type = "JOIN_APPLY" /\ m.dst \in old
  <2> SUFFICES ASSUME NEW d \in old \ {id}
               PROVE  LET m == MkMsg("JOIN_APPLY", id, d, 0)
                      IN  m \in Msg /\ m.type = "JOIN_APPLY" /\ m.dst \in old
    OBVIOUS
  <2>1. d \in Node /\ "JOIN_APPLY" \in ConsMsg \cup MgmtMsg /\ 0 \in Nat
    BY <1>8 DEF MgmtMsg
  <2>2. /\ MkMsg("JOIN_APPLY", id, d, 0) \in Msg
        /\ MkMsg("JOIN_APPLY", id, d, 0).type = "JOIN_APPLY"
        /\ MkMsg("JOIN_APPLY", id, d, 0).dst = d
    BY <1>6, <2>1, MkMsgType
  <2> QED  BY <2>2
<1>11. \A s \in Node : /\ node(s) \in [name : Node \cup {None}, chan : Node \cup {None}]
                       /\ node(s).chan = IF s \in old \cup {id} THEN id ELSE newNode[s].chan
                       /\ s # id => node(s).name = newNode[s].name
  <2> SUFFICES ASSUME NEW s \in Node
               PROVE  /\ node(s) \in [name : Node \cup {None}, chan : Node \cup {None}]
                      /\ node(s).chan = IF s \in old \cup {id} THEN id ELSE newNode[s].chan
                      /\ s # id => node(s).name = newNode[s].name
    OBVIOUS
  <2>1. newNode[s] \in [name : Node \cup {None}, chan : Node \cup {None}]
    BY DEF TypeOK
  <2> QED  BY <1>6, <2>1
<1>12. v \in View /\ v.nodes = id
  BY <1>2, <1>6, <1>7 DEF View
<1>13. DOMAIN map = old \cup {id} /\ \A x \in DOMAIN map : map[x] = x
  OBVIOUS
<1> HIDE DEF v, map, node, news, old
<1>14. /\ DOMAIN chans' = DOMAIN chans /\ id \in DOMAIN chans
       /\ \A k \in DOMAIN chans : chans'[k] = IF k = id THEN map ELSE chans[k]
  BY <1>1, <1>6 DEF TypeOK
<1>15. \A x \in Node : newNode'[x] = node(x)
  BY <1>1
<1>16. TypeOK'
  <2>1. ConsType'
    <3>1. view' \in [Node -> View]
      BY <1>1, <1>12 DEF TypeOK
    <3> QED  BY <1>1, <3>1 DEF TypeOK, ConsType, blkVars
  <2>2. MgmtType'
    <3>1. servers' \in Seq(Node) /\ joins' \in 0 .. MaxJoins /\ signersDue' \in Nat
      BY <1>1, <1>2, <1>6 DEF TypeOK
    <3>2. handle' \in [Node -> BOOLEAN] /\ signNum' \in [Node -> Nat]
      BY <1>1 DEF TypeOK
    <3>3. table' \in [Node -> SUBSET Node]
      <4>1. old \cup {id} \in SUBSET Node
        BY <1>6, <1>8
      <4> QED  BY <1>1, <4>1 DEF TypeOK
    <3>4. mapOf' \in [Node -> Node \cup {Shared}] /\ starting' \subseteq Node
      BY <1>1, <1>6 DEF TypeOK
    <3>5. newNode' \in [Node -> [name : Node \cup {None}, chan : Node \cup {None}]]
      BY <1>1, <1>11
    <3>6. net' \subseteq Msg
      BY <1>1, <1>10 DEF TypeOK
    <3> QED  BY <1>1, <3>1, <3>2, <3>3, <3>4, <3>5, <3>6 DEF TypeOK, MgmtType
  <2>3. MapType'
    <3>1. DOMAIN map \subseteq Node /\ \A x \in DOMAIN map : map[x] \in Node \cup {None}
      BY <1>6, <1>8, <1>13
    <3> QED  BY <1>14, <3>1 DEF TypeOK, MapType
  <2>4. link' \in [Node -> [Node -> Seq(Msg)]]
    BY <1>1 DEF TypeOK
  <2> QED  BY <2>1, <2>2, <2>3, <2>4 DEF TypeOK, ConsType, MgmtType, MapType
<1>17. TableInv'
  <2>1. 0 .. N - 1 \subseteq Started'
    BY <1>9 DEF Inv, TableInv
  <2>2. Len(servers') <= N + joins'
    <3>1. Len(servers') = id + 1
      BY <1>1, <1>2 DEF id
    <3> QED  BY <1>1, <1>2, <1>5, <3>1
  <2>3. \A s \in Node : view'[s].nodes \in 1 .. N + MaxJoins
    <3>1. \A s \in Node : view'[s] = IF s = id THEN v ELSE view[s]
      BY <1>1 DEF TypeOK
    <3> QED  BY <1>6, <1>12, <3>1 DEF Inv, TableInv
  <2>4. ASSUME NEW s \in Started' PROVE s \in table'[s] /\ mapOf'[s] = HomeMap(s)
    <3>1. CASE s = id
      <4>1. table'[s] = old \cup {id} /\ mapOf'[s] = id
        BY <1>1, <1>6, <3>1 DEF TypeOK
      <4>2. HomeMap(id) = id
        BY <1>2, <1>4 DEF HomeMap
      <4> QED  BY <3>1, <4>1, <4>2
    <3>2. CASE s # id
      <4>1. s \in Started /\ s \in Node
        BY <1>9, <2>4, <3>2, StartedType
      <4>2. table'[s] = table[s] /\ mapOf'[s] = mapOf[s]
        BY <1>1, <3>2, <4>1 DEF TypeOK
      <4> QED  BY <4>1, <4>2 DEF Inv, TableInv
    <3> QED  BY <3>1, <3>2
  <2> QED  BY <2>1, <2>2, <2>3, <2>4 DEF TableInv, HomeMap
<1>18. ChannelInv'
  <2>1. \A k \in DOMAIN chans' : \A x \in DOMAIN chans'[k] : chans'[k][x] \in Started' \cup {None}
    <3> SUFFICES ASSUME NEW k \in DOMAIN chans', NEW x \in DOMAIN chans'[k]
                 PROVE  chans'[k][x] \in Started' \cup {None}
      OBVIOUS
    <3>1. CASE k = id
      <4>1. chans'[k] = map
        BY <1>14, <3>1
      <4> QED  BY <1>8, <1>9, <1>13, <4>1
    <3>2. CASE k # id
      <4>1. chans'[k] = chans[k] /\ k \in DOMAIN chans
        BY <1>14, <3>2
      <4> QED  BY <1>9, <4>1 DEF Inv, ChannelInv
    <3> QED  BY <3>1, <3>2
  <2>2. ASSUME NEW t \in Node, NEW x \in DOMAIN chans'[HomeMap(t)], chans'[HomeMap(t)][x] = t
        PROVE  x = t
    <3>1. HomeMap(t) \in DOMAIN chans
      BY DEF HomeMap, TypeOK
    <3>2. CASE HomeMap(t) = id
      <4>1. chans'[HomeMap(t)] = map
        BY <1>14, <3>2
      <4> QED  BY <1>13, <2>2, <4>1
    <3>3. CASE HomeMap(t) # id
      <4>1. chans'[HomeMap(t)] = chans[HomeMap(t)]
        BY <1>14, <3>1, <3>3
      <4> QED  BY <2>2, <4>1 DEF Inv, ChannelInv
    <3> QED  BY <3>2, <3>3
  <2> QED  BY <2>1, <2>2 DEF ChannelInv, HomeMap
<1>19. NewNodeInv'
  <2>1. ASSUME NEW s \in Node
        PROVE  /\ newNode'[s].chan \in Started' \cup {None}
               /\ newNode'[s].chan = None \/ newNode'[s].chan >= N \/ busy[s].kind = "EXIT"
               /\ busy[s].kind = "EXIT" => s \in Started' /\ newNode'[s].name # s
    <3>1. newNode'[s].chan \in Started' \cup {None}
      BY <1>9, <1>11, <1>15 DEF Inv, NewNodeInv
    <3>2. newNode'[s].chan = None \/ newNode'[s].chan >= N \/ busy[s].kind = "EXIT"
      BY <1>4, <1>11, <1>15 DEF Inv, NewNodeInv
    <3>3. ASSUME busy[s].kind = "EXIT" PROVE s \in Started' /\ newNode'[s].name # s
      <4>1. s \in Started /\ newNode[s].name # s
        BY <3>3 DEF Inv, NewNodeInv
      <4>2. s # id
        BY <1>3, <4>1
      <4> QED  BY <1>9, <1>11, <1>15, <4>1, <4>2
    <3> QED  BY <3>1, <3>2, <3>3
  <2> QED  BY <1>1, <2>1 DEF NewNodeInv
<1>20. NetInv'
  <2>1. ASSUME NEW m \in net'
        PROVE  /\ m.dst \in Started'
               /\ m.type = "JOIN_APPLY" => newNode'[m.dst].chan # m.dst
               /\ m.type = "EXIT_APPLY" => m.src # m.dst
    <3>1. CASE m \in net
      <4>1. m.dst \in Node /\ m.dst \in Started /\ m.dst # id
        BY <1>3, <3>1, NetMember
      <4>2. newNode'[m.dst].chan = id \/ newNode'[m.dst].chan = newNode[m.dst].chan
        BY <1>11, <1>15, <4>1
      <4> QED  BY <1>9, <3>1, <4>1, <4>2 DEF Inv, NetInv
    <3>2. CASE m \in news
      <4>1. m.type = "JOIN_APPLY" /\ m.dst \in old
        BY <1>10, <3>2
      <4>2. m.dst \in Node /\ m.dst \in Started /\ m.dst # id
        BY <1>3, <1>8, <4>1
      <4>3. newNode'[m.dst].chan = id
        BY <1>11, <1>15, <4>1, <4>2
      <4> QED  BY <1>9, <4>1, <4>2, <4>3
    <3> QED  BY <1>1, <3>1, <3>2
  <2>2. link' = link
    BY <1>1
  <2> QED  BY <2>1, <2>2 DEF Inv, NetInv
<1> QED  BY <1>16, <1>17, <1>18, <1>19, <1>20 DEF Inv

----------------------------------------------------------------------------
(* The theorems *)

LEMMA InitSafe == Init => TypeOK /\ Inv
<1> SUFFICES ASSUME Init PROVE TypeOK /\ Inv
  OBVIOUS
<1>1. N \in Nat /\ N > 0 /\ MaxJoins \in Nat
  BY NAssumption, BoundAssumption
<1>2. /\ 0 .. N - 1 \subseteq Node /\ 0 \in Node /\ N \in 1 .. N + MaxJoins
      /\ \A s \in Node : s \in 0 .. N + MaxJoins - 1 /\ s \in Nat
  BY <1>1, NodeType DEF Node
<1>3. servers \in Seq(Node) /\ Len(servers) = N /\ DOMAIN servers = 1 .. N
      /\ \A i \in 1 .. N : servers[i] = i - 1
  <2>1. \A i \in 1 .. N : i - 1 \in Node
    BY <1>1, <1>2 DEF Node
  <2>2. servers = [i \in 1 .. N |-> i - 1]
    BY DEF Init
  <2> QED  BY <1>1, <2>1, <2>2
<1>4. Started = 0 .. N - 1
  <2>1. Started = {servers[i] : i \in 1 .. Len(servers)}
    BY DEF Init, Started, Running
  <2>2. \A x \in Started : x \in 0 .. N - 1
    BY <1>1, <1>3, <2>1
  <2>3. \A x \in 0 .. N - 1 : x + 1 \in 1 .. N /\ servers[x + 1] = x
    BY <1>1, <1>3
  <2>4. \A x \in 0 .. N - 1 : x \in Started
    BY <1>3, <2>1, <2>3
  <2> QED  BY <2>2, <2>4
<1>5. /\ DOMAIN chans = Node \cup {Shared} /\ chans[Shared] = [y \in 0 .. N - 1 |-> y]
      /\ \A k \in Node : chans[k] = <<>>
  BY NodeType DEF Init
<1>6. /\ \A k \in DOMAIN chans : \A x \in DOMAIN chans[k] :
             k = Shared /\ x \in 0 .. N - 1 /\ chans[k][x] = x
  <2>1. DOMAIN chans[Shared] = 0 .. N - 1 /\ \A x \in 0 .. N - 1 : chans[Shared][x] = x
    BY <1>5
  <2>2. \A k \in Node : DOMAIN chans[k] = {}
    BY <1>5
  <2> QED  BY <1>5, <2>1, <2>2
<1>7. ConsType
  <2>1. view = [s \in Node |-> [num |-> 0, leader |-> 0, nodes |-> N]]
    BY DEF Init
  <2>2. [num |-> 0, leader |-> 0, nodes |-> N] \in View
    BY <1>1, <1>2 DEF View
  <2>3. view \in [Node -> View] /\ \A s \in Node : view[s].nodes = N
    BY <2>1, <2>2
  <2>4. qc \in [Node -> Int] /\ curProposal \in [Node -> BOOLEAN] /\ newViews \in [Node -> Nat]
    BY DEF Init
  <2>5. phase \in [Node -> Phase] /\ ignoreCheckQC \in [Node -> BOOLEAN]
    BY DEF Init, Phase
  <2>6. height \in [Node -> Nat] /\ blk \in [Node -> Nat] /\ votes \in [Node -> SUBSET Node]
    BY DEF Init
  <2> QED  BY <2>3, <2>4, <2>5, <2>6 DEF ConsType
<1>8. MgmtType
  <2>1. handle \in [Node -> BOOLEAN] /\ joins \in 0 .. MaxJoins /\ exited \subseteq Node
        /\ signersDue \in Nat
    BY <1>1 DEF Init
  <2>2. signNum \in [Node -> Nat] /\ mapOf \in [Node -> Node \cup {Shared}]
    BY <1>1 DEF Init
  <2>3. table \in [Node -> SUBSET Node]
    BY <1>2 DEF Init
  <2>4. newNode \in [Node -> [name : Node \cup {None}, chan : Node \cup {None}]]
    BY ConstTypes DEF Init
  <2>5. state \in [Node -> State] /\ starting \subseteq Node /\ net \subseteq Msg
    BY DEF Init, State
  <2>6. busy \in [Node -> BusyState]
    BY ConstTypes DEF Init, BusyState
  <2>7. syncMsgs \in [Node -> Seq(Msg)]
    BY DEF Init
  <2> QED  BY <1>3, <2>1, <2>2, <2>3, <2>4, <2>5, <2>6, <2>7 DEF MgmtType, BusyState
<1>9. MapType
  BY <1>2, <1>5, <1>6 DEF MapType
<1>10. link \in [Node -> [Node -> Seq(Msg)]]
       /\ \A s, d \in Node : link[s][d] = <<>>
  BY DEF Init
<1>11. TypeOK
  BY <1>7, <1>8, <1>9, <1>10, TypeParts
<1>12. TableInv
  <2>1. joins = 0 /\ Len(servers) <= N + joins
    BY <1>1, <1>3 DEF Init
  <2>2. \A s \in Node : view[s].nodes \in 1 .. N + MaxJoins
    BY <1>2 DEF Init
  <2>3. \A s \in 0 .. N - 1 : s \in Node /\ s < N /\ s \in 0 .. N - 1
    BY <1>1, <1>2
  <2>4. \A s \in 0 .. N - 1 : table[s] = 0 .. N - 1 /\ mapOf[s] = Shared /\ HomeMap(s) = Shared
    BY <2>3 DEF Init, HomeMap
  <2> QED  BY <1>4, <2>1, <2>2, <2>4 DEF TableInv
<1>13. ChannelInv
  <2>1. \A k \in DOMAIN chans : \A x \in DOMAIN chans[k] : chans[k][x] \in Started \cup {None}
    BY <1>4, <1>6
  <2>2. \A s \in Node : HomeMap(s) \in DOMAIN chans
    BY <1>5 DEF HomeMap
  <2>3. \A s \in Node : \A x \in DOMAIN chans[HomeMap(s)] : chans[HomeMap(s)][x] = s => x = s
    BY <1>6, <2>2
  <2> QED  BY <2>1, <2>3 DEF ChannelInv
<1>14. NewNodeInv
  <2>1. \A s \in Node : newNode[s] = NoNode /\ busy[s] = Idle
    BY DEF Init
  <2> QED  BY <2>1, ConstTypes DEF NewNodeInv, NoNode
<1>15. NetInv
  <2>1. net = {}
    BY DEF Init
  <2>2. \A s, d \in Node : DOMAIN link[s][d] = {}
    BY <1>10
  <2> QED  BY <2>1, <2>2 DEF NetInv
<1> QED  BY <1>11, <1>12, <1>13, <1>14, <1>15 DEF Inv

LEMMA NextSafe == TypeOK /\ Inv /\ [Next]_vars => TypeOK' /\ Inv'
<1> SUFFICES ASSUME TypeOK, Inv, [Next]_vars PROVE TypeOK' /\ Inv'
  OBVIOUS
<1>1. CASE NewServerJoin   BY <1>1, NewServerJoinSafe
<1>2. ASSUME NEW s \in Node, OriServerExit(s) PROVE TypeOK' /\ Inv'
  BY <1>2, OriServerExitSafe
<1>3. CASE UpdateSigners   BY <1>3, UpdateSignersSafe
<1>4. ASSUME NEW s \in Node, HandleReq(s) PROVE TypeOK' /\ Inv'
  BY <1>4, HandleReqSafe
<1>5. ASSUME NEW s \in Node, SetStateApply(s) PROVE TypeOK' /\ Inv'
  BY <1>5, SetStateApplySafe
<1>6. ASSUME NEW s \in Node, AgreeAndUpdate(s) PROVE TypeOK' /\ Inv'
  BY <1>6, AgreeAndUpdateSafe
<1>7. ASSUME NEW s \in Node, Restart(s) PROVE TypeOK' /\ Inv'
  BY <1>7, RestartSafe
<1>8. ASSUME NEW m \in net, Manage(m) PROVE TypeOK' /\ Inv'
  BY <1>8, ManageSafe
<1>9. ASSUME NEW d \in Node, NEW s \in Node, Receive(d, s) PROVE TypeOK' /\ Inv'
  BY <1>9, ReceiveSafe
<1>10. CASE UNCHANGED vars
  <2>2. TypeOK'
    BY <1>10 DEF vars, driverVars, consVars, nmVars, blkVars, TypeOK
  <2>3. Started' = Started
    BY <1>10 DEF vars, driverVars, Started, Running
  <2>4. TableInv'
    BY <1>10, <2>3 DEF vars, driverVars, consVars, nmVars, Inv, TableInv, HomeMap
  <2>5. ChannelInv' /\ NewNodeInv' /\ NetInv'
    BY <1>10, <2>3 DEF vars, driverVars, consVars, nmVars, Inv, ChannelInv, NewNodeInv, NetInv,
                       HomeMap
  <2> QED  BY <2>2, <2>4, <2>5 DEF Inv
<1>11. Next => \/ NewServerJoin \/ UpdateSigners
               \/ \E s \in Node : OriServerExit(s)
               \/ \E s \in Node : HandleReq(s) \/ SetStateApply(s)
                                                    \/ AgreeAndUpdate(s) \/ Restart(s)
               \/ \E m \in net : Manage(m)
               \/ \E d, s \in Node : Receive(d, s)
  BY DEF Next, Command, Resume
<1> QED  BY <1>1, <1>2, <1>3, <1>4, <1>5, <1>6, <1>7, <1>8, <1>9, <1>10, <1>11

\* However joins and exits overlap with each other and with the consensus, the variables
\* keep their ranges: NextView and RefreshLeader always name a node, GetHighQCIndex finds
\* a message in the list of HandleSync, and no send goes to a node there never was.
THEOREM TypeCorrect == Spec => []TypeOK
<1>1. Init => TypeOK /\ Inv
  BY InitSafe
<1>2. (TypeOK /\ Inv) /\ [Next]_vars => (TypeOK /\ Inv)'
  BY NextSafe
<1> QED  BY <1>1, <1>2, PTL DEF Spec

\* A node is always in its own node table and never deletes itself, so a view counts at
\* least one node and NextView never divides by zero; the map a node uses has the channel
\* of that node under no other name; and no node is told by its own goroutine to handle
\* its own exit.
THEOREM MembershipInvariant == Spec => []Inv
<1>1. Init => TypeOK /\ Inv
  BY InitSafe
<1>2. (TypeOK /\ Inv) /\ [Next]_vars => (TypeOK /\ Inv)'
  BY NextSafe
<1> QED  BY <1>1, <1>2, PTL DEF Spec

=============
