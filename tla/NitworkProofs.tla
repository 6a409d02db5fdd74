--------------------------- MODULE NitworkProofs ---------------------------
(***************************************************************************)
(* Proofs about the reliability layer, for any set of processes and        *)
(* packets, any window and any range of ids.                               *)
(***************************************************************************)
EXTENDS Nitwork, SequenceTheorems, FiniteSetTheorems, TLAPS

-----------------------------------------------------------------------------
(* The operators the specification is built from *)

\* A non-empty set of natural numbers has a least element.
LEMMA LeastElement ==
    ASSUME NEW T \in SUBSET Nat, T # {}
    PROVE  \E x \in T : \A y \in T : x <= y
<1>1. PICK x \in T : \A y \in T : ~(<<y, x>> \in OpToRel(<, Nat))
  BY WFMin, NatLessThanWellFounded
<1>2. \A y \in T : ~(y < x)
  BY <1>1 DEF OpToRel
<1> QED
  BY <1>2

\* The last id received is an id.
LEMMA LastIdReceivedType ==
    ASSUME NEW S \in SUBSET Ids
    PROVE  LastIdReceived(S) \in Ids
<1> USE NitworkAssumption DEF NitworkAssumption, Ids
<1>1. CASE S = {}
  BY <1>1 DEF LastIdReceived
<1>2. CASE S # {}
  <2> DEFINE T == {IdMod - x : x \in S}
  <2>1. T \in SUBSET Nat /\ T # {}
    <3>1. \A x \in S : IdMod - x \in Nat
      OBVIOUS
    <3> QED
      BY <1>2, <3>1
  <2>2. PICK t \in T : \A y \in T : t <= y
    BY <2>1, LeastElement
  <2>3. PICK x \in S : t = IdMod - x
    OBVIOUS
  <2>4. \A y \in S : IdMod - y \in T /\ t <= IdMod - y
    BY <2>2
  <2>5. \A y \in S : y <= x
    BY <2>3, <2>4
  <2> QED
    BY <1>2, <2>5 DEF LastIdReceived
<1> QED
  BY <1>1, <1>2

\* Sorting keeps the elements apart: each place of the result is filled from a
\* place of its own.
LEMMA SortProperties ==
    ASSUME NEW S, \A x \in S : x.id \in Int,
           NEW q \in Seq(S), NEW f \in SortedById(q)
    PROVE  /\ Sort(q, f) \in Seq(S)
           /\ DOMAIN Sort(q, f) = DOMAIN q
           /\ \A i \in DOMAIN q : f[i] \in DOMAIN q /\ Sort(q, f)[i] = q[f[i]]
           /\ \A i, j \in DOMAIN q : f[i] = f[j] => i = j
<1>1. DOMAIN q = 1 .. Len(q) /\ Len(q) \in Nat
  OBVIOUS
<1>2. f \in [DOMAIN q -> DOMAIN q]
  BY DEF SortedById
<1>3. Sort(q, f) \in [1 .. Len(q) -> S]
  BY <1>1, <1>2 DEF Sort
<1>4. Sort(q, f) \in Seq(S)
  BY <1>1, <1>3, SeqDef
<1>5. ASSUME NEW i \in DOMAIN q, NEW j \in DOMAIN q, i < j
      PROVE  f[i] # f[j]
  <2>1. \/ q[f[i]].id < q[f[j]].id
        \/ q[f[i]].id = q[f[j]].id /\ f[i] < f[j]
    BY <1>5 DEF SortedById
  <2>2. f[i] \in 1 .. Len(q) /\ q[f[i]] \in S
    BY <1>1, <1>2
  <2>3. q[f[i]].id \in Int
    BY <2>2
  <2> QED
    BY <2>1, <2>2, <2>3
<1> QED
  BY <1>1, <1>2, <1>3, <1>4, <1>5 DEF Sort

\* The list of sent packets stays as it is when the id of the packet is in it.
LEMMA AddPacketKnownId ==
    ASSUME NEW s \in Seq(Packet), NEW pk \in Packet,
           NEW t, t = AddPacketToSentPackages(s, pk),
           \E i \in DOMAIN s : s[i].id = pk.id
    PROVE  t = s
  BY DEF AddPacketToSentPackages

\* Storing a sent packet keeps the packets there are, or some of them.
LEMMA AddPacketProperties ==
    ASSUME NEW s \in Seq(Packet), NEW pk \in Packet,
           NEW t, t = AddPacketToSentPackages(s, pk)
    PROVE  /\ t \in Seq(Packet)
           /\ t # <<>>
           /\ \A i \in DOMAIN t : t[i] = pk \/ \E j \in DOMAIN s : t[i] = s[j]
<1>1. CASE \E i \in DOMAIN s : s[i].id = pk.id
  <2>1. t = s
    BY <1>1 DEF AddPacketToSentPackages
  <2>2. s # <<>>
    BY <1>1
  <2> QED
    BY <2>1, <2>2
<1>2. CASE ~(\E i \in DOMAIN s : s[i].id = pk.id) /\ Len(s) # Window
  <2>1. t = Append(s, pk)
    BY <1>2 DEF AddPacketToSentPackages
  <2>2. /\ t \in Seq(Packet) /\ t # <<>> /\ DOMAIN t = 1 .. Len(s) + 1
        /\ \A i \in 1 .. Len(s) : t[i] = s[i]
        /\ t[Len(s) + 1] = pk
    BY <2>1, AppendProperties, LenProperties
  <2> QED
    BY <1>2, <2>2
<1>3. CASE ~(\E i \in DOMAIN s : s[i].id = pk.id) /\ Len(s) = Window
  <2> DEFINE u == Tail(s)
  <2>1. t = Append(u, pk)
    BY <1>3 DEF AddPacketToSentPackages
  <2>2. s # <<>>
    BY <1>3, NitworkAssumption DEF NitworkAssumption
  <2>3. /\ u \in Seq(Packet) /\ Len(u) = Len(s) - 1
        /\ \A i \in 1 .. Len(u) : u[i] = s[i + 1]
    BY <2>2, HeadTailProperties
  <2> HIDE DEF u
  <2>4. /\ t \in Seq(Packet) /\ t # <<>> /\ DOMAIN t = 1 .. Len(u) + 1
        /\ \A i \in 1 .. Len(u) : t[i] = u[i]
        /\ t[Len(u) + 1] = pk
    BY <2>1, <2>3, AppendProperties, LenProperties
  <2>5. ASSUME NEW i \in DOMAIN t
        PROVE  t[i] = pk \/ \E j \in DOMAIN s : t[i] = s[j]
    <3>1. CASE i = Len(u) + 1
      BY <2>4, <3>1
    <3>2. CASE i \in 1 .. Len(u)
      <4>1. t[i] = s[i + 1] /\ i + 1 \in DOMAIN s
        BY <2>3, <2>4, <3>2
      <4> QED
        BY <4>1
    <3> QED
      BY <2>3, <2>4, <3>1, <3>2
  <2> QED
    BY <1>3, <2>4, <2>5
<1> QED
  BY <1>1, <1>2, <1>3

\* Whatever is found for a missing id is a stored packet.
LEMMA LookUpProperties ==
    ASSUME NEW s \in Seq(Packet), NEW d, NEW k \in Unacknowledged(s, d)
    PROVE  \E i \in DOMAIN s : LookUp(s, d, k) = s[i]
<1> DEFINE T == {i \in DOMAIN s : s[i].id = d.last - k}
<1>1. T \in SUBSET Nat /\ T # {}
  BY DEF Unacknowledged
<1>2. PICK i \in T : \A j \in T : i <= j
  BY <1>1, LeastElement
<1>3. \A j \in DOMAIN s : j < i => s[j].id # s[i].id
  BY <1>2
<1>4. \E x \in DOMAIN s : s[x].id = d.last - k /\ \A j \in DOMAIN s : j < x => s[j].id # s[x].id
  BY <1>2, <1>3
<1> QED
  BY <1>4 DEF LookUp

\* A walk through the missing packets is a finite sequence of them.
LEMMA InOrderProperties ==
    ASSUME NEW s \in Seq(Packet), NEW d, NEW w \in InOrder(Unacknowledged(s, d))
    PROVE  \E n \in Nat : w \in [1 .. n -> Unacknowledged(s, d)]
<1>1. IsFiniteSet(0 .. Len(s) - 1)
  <2>1. 0 \in Int /\ Len(s) - 1 \in Int
    OBVIOUS
  <2> QED
    BY <2>1, FS_Interval
<1>2. Unacknowledged(s, d) \in SUBSET (0 .. Len(s) - 1)
  BY DEF Unacknowledged
<1>3. Cardinality(Unacknowledged(s, d)) \in Nat
  BY <1>1, <1>2, FS_Subset, FS_CardinalityType
<1> QED
  BY <1>3 DEF InOrder

-----------------------------------------------------------------------------
(* The invariant: what a packet is, wherever it has got to. *)

\* A packet that is not enqueued yet has no id.
UnsentOK == \A p \in unsent : wireId[p] = None

\* A queued packet goes from its sender to its receiver and carries id 0: a
\* fresh one has no id on the wire yet, one that is sent again had id 0 there.
PacketOK(n, m, pk) ==
    /\ From[pk.body] = n /\ To[pk.body] = m /\ pk.dst = m
    /\ pk.id = 0
    /\ pk.body \notin unsent

QueuedOK(n, pk) ==
    /\ PacketOK(n, pk.dst, pk)
    /\ wireId[pk.body] = IF pk.resend THEN 0 ELSE None

QueueOK ==
    \A n \in Nodes : \A i \in DOMAIN outputQueue[n] : QueuedOK(n, outputQueue[n][i])

\* A packet is queued as a fresh one only once.
QueueDistinct ==
    \A n \in Nodes : \A i, j \in DOMAIN outputQueue[n] :
        /\ ~outputQueue[n][i].resend /\ ~outputQueue[n][j].resend
        /\ outputQueue[n][i].body = outputQueue[n][j].body
        => i = j

\* The sent packets kept for a peer have taken id 0, and there is one from the
\* moment an id has been taken.
StoredOK(n, m, pk) == PacketOK(n, m, pk) /\ wireId[pk.body] = 0

SentOK ==
    \A n, m \in Nodes :
        /\ \A i \in DOMAIN packetsSent[n][m] : StoredOK(n, m, packetsSent[n][m][i])
        /\ packetsSent[n][m] = <<>> => nextId[n][m] = 0

\* The packet being built has the id it took, and between two packets there is
\* a next one.
OutOK ==
    \A n \in Nodes :
        /\ out[n].pc \in InSort =>
               LET pk == out[n].pkt IN
               /\ From[pk.body] = n /\ To[pk.body] = pk.dst
               /\ pk.body \notin unsent
               /\ wireId[pk.body] = pk.id
        /\ out[n].pc = "between" => outputQueue[n] # <<>>

\* A valid datagram carries the id its packet took.
NetOK ==
    \A d \in net :
        /\ From[d.body] = d.src /\ To[d.body] = d.dst
        /\ d.body \notin unsent
        /\ d.valid => wireId[d.body] = d.id

\* What a process has accepted: it remembers the id or has lost sight of it.
AcceptedOK(n, src, id, body) ==
    /\ From[body] = src /\ To[body] = n
    /\ body \notin unsent
    /\ wireId[body] = id
    /\ id \in CameIn(n, src)

RxOK ==
    \A n \in Nodes : rx[n] # None =>
        AcceptedOK(n, rx[n].src, rx[n].id, rx[n].body)

ActionsOK ==
    \A n \in Nodes : \A i \in DOMAIN actions[n] :
        AcceptedOK(n, actions[n][i].src, actions[n][i].id, actions[n][i].body)

HandledOK ==
    \A n \in Nodes : \A i \in DOMAIN handled[n] :
        AcceptedOK(n, handled[n][i].src, handled[n][i].id, handled[n][i].body)

\* A body is in one place at most, unless its id was overlooked: with the
\* receive handler, in the queue of the input loop, or handled.
AcceptedOnce ==
    \A n \in Nodes :
        /\ \A i, j \in DOMAIN actions[n] :
               actions[n][i].body = actions[n][j].body =>
                   i = j \/ Overlooked(n, actions[n][i])
        /\ \A i \in DOMAIN actions[n] : \A j \in DOMAIN handled[n] :
               actions[n][i].body = handled[n][j].body => Overlooked(n, actions[n][i])
        /\ rx[n] # None =>
               /\ \A i \in DOMAIN actions[n] :
                      actions[n][i].body = rx[n].body => Overlooked(n, actions[n][i])
               /\ \A i \in DOMAIN handled[n] :
                      handled[n][i].body = rx[n].body => Overlooked(n, handled[n][i])

IInv ==
    /\ TypeOK
    /\ UnsentOK /\ QueueOK /\ QueueDistinct /\ SentOK /\ OutOK /\ NetOK
    /\ RxOK /\ ActionsOK /\ HandledOK
    /\ AcceptedOnce /\ HandledOnceUnlessOverlooked
-----------------------------------------------------------------------------
(* Every step keeps the invariant *)

\* What the assumptions on the constants say in the words of the state.
LEMMA ConstantFacts ==
    /\ 0 \in Ids /\ Ids \subseteq Int /\ None \notin Ids
    /\ 0 \in 0 .. MaxRaces
    /\ \A p \in Payloads : From[p] \in Nodes /\ To[p] \in Nodes
    /\ \A x \in Packet : x.id \in Int
    /\ \A x \in Action : x.id \in Int
  BY NitworkAssumption, NoneAssumption DEF NitworkAssumption, Ids, Packet, Action

\* Nothing is queued, sent or received at the start.
LEMMA InitIInv == Init => IInv
<1> SUFFICES ASSUME Init PROVE IInv
  OBVIOUS
<1> USE DEF Init
<1>1. TypeOK
  <2>1. <<>> \in Seq(Packet) /\ <<>> \in Seq(Action)
    BY EmptySeq
  <2> QED
    BY <2>1, ConstantFacts DEF TypeOK
<1>2. UnsentOK /\ QueueOK /\ QueueDistinct /\ SentOK /\ NetOK
  BY DEF UnsentOK, QueueOK, QueueDistinct, SentOK, NetOK
<1>3. OutOK
  BY DEF OutOK, Idle, InSort
<1>4. RxOK /\ ActionsOK /\ HandledOK /\ AcceptedOnce /\ HandledOnceUnlessOverlooked
  BY DEF RxOK, ActionsOK, HandledOK, AcceptedOnce, HandledOnceUnlessOverlooked
<1> QED
  BY <1>1, <1>2, <1>3, <1>4 DEF IInv

\* What the receiving side knows of a packet does not depend on the packets
\* that are not enqueued yet, nor on ids of packets without one.
LEMMA ReceiverKeeps ==
    ASSUME RxOK, ActionsOK, HandledOK, AcceptedOnce, HandledOnceUnlessOverlooked, TypeOK,
           UNCHANGED <<receivedIds, rx, actions, handled, overlooked>>,
           unsent' \subseteq unsent,
           \A p \in Payloads : wireId[p] # None => wireId'[p] = wireId[p]
    PROVE  (RxOK /\ ActionsOK /\ HandledOK /\ AcceptedOnce /\ HandledOnceUnlessOverlooked)'
<1>1. ASSUME NEW n \in Nodes, rx[n] # None PROVE rx[n].body \in Payloads /\ rx[n].id # None
  BY <1>1, ConstantFacts DEF TypeOK, Datagram
<1>2. ASSUME NEW n \in Nodes, NEW i \in DOMAIN actions[n]
      PROVE  actions[n][i].body \in Payloads /\ actions[n][i].id # None
  <2>1. actions[n][i] \in Action
    BY DEF TypeOK
  <2> QED
    BY <2>1, ConstantFacts DEF Action
<1>3. ASSUME NEW n \in Nodes, NEW i \in DOMAIN handled[n]
      PROVE  handled[n][i].body \in Payloads /\ handled[n][i].id # None
  <2>1. handled[n][i] \in Action
    BY DEF TypeOK
  <2> QED
    BY <2>1, ConstantFacts DEF Action
<1>4. RxOK'
  BY <1>1 DEF RxOK, AcceptedOK, CameIn
<1>5. ActionsOK'
  BY <1>2 DEF ActionsOK, AcceptedOK, CameIn
<1>6. HandledOK'
  BY <1>3 DEF HandledOK, AcceptedOK, CameIn
<1>7. (AcceptedOnce /\ HandledOnceUnlessOverlooked)'
  BY DEF AcceptedOnce, HandledOnceUnlessOverlooked, Overlooked
<1> QED
  BY <1>4, <1>5, <1>6, <1>7

\* A payload is queued as fresh once, without an id.
LEMMA AddPacketToSendKeepsIInv ==
    ASSUME IInv, NEW p \in Payloads, AddPacketToSend(p)
    PROVE  IInv'
<1> USE DEF IInv
<1> DEFINE n == From[p]
           pk == [body |-> p, dst |-> To[p], id |-> 0, resend |-> FALSE]
           q == outputQueue[n]
<1>1. n \in Nodes /\ To[p] \in Nodes /\ pk \in Packet
  BY ConstantFacts DEF Packet
<1>2. /\ p \in unsent /\ unsent' = unsent \ {p}
      /\ outputQueue' = [outputQueue EXCEPT ![n] = Append(q, pk)]
      /\ UNCHANGED <<out, nextId, packetsSent, receivedIds, appended, rx, actions,
                     net, handled, wireId, overlooked, races>>
  BY DEF AddPacketToSend
<1>3. q \in Seq(Packet) /\ DOMAIN q = 1 .. Len(q) /\ Len(q) \in Nat
  BY <1>1 DEF TypeOK
<1>4. /\ Append(q, pk) \in Seq(Packet)
      /\ DOMAIN Append(q, pk) = 1 .. Len(q) + 1
      /\ \A i \in 1 .. Len(q) : Append(q, pk)[i] = q[i]
      /\ Append(q, pk)[Len(q) + 1] = pk
  BY <1>1, <1>3, AppendProperties, LenProperties
<1>5. /\ outputQueue'[n] = Append(q, pk)
      /\ \A m \in Nodes : m # n => outputQueue'[m] = outputQueue[m]
  BY <1>1, <1>2 DEF TypeOK
<1>6. TypeOK'
  BY <1>1, <1>2, <1>4 DEF TypeOK
<1>7. UnsentOK'
  BY <1>2 DEF UnsentOK
<1>8. QueuedOK(n, pk)'
  BY <1>2 DEF QueuedOK, PacketOK, UnsentOK
<1>9. QueueOK'
  <2> SUFFICES ASSUME NEW m \in Nodes, NEW i \in DOMAIN outputQueue'[m]
               PROVE  QueuedOK(m, outputQueue[m][i])'
    BY DEF QueueOK
  <2>1. CASE m = n /\ i = Len(q) + 1
    <3>1. outputQueue'[m][i] = pk
      BY <1>4, <1>5, <2>1
    <3> QED
      BY <1>8, <2>1, <3>1 DEF QueuedOK, PacketOK
  <2>2. CASE m # n \/ i \in 1 .. Len(q)
    <3>1. i \in DOMAIN outputQueue[m] /\ outputQueue'[m][i] = outputQueue[m][i]
      BY <1>3, <1>4, <1>5, <2>2
    <3>2. QueuedOK(m, outputQueue[m][i])
      BY <3>1 DEF QueueOK
    <3>3. outputQueue[m][i].body # p
      BY <1>2, <3>2 DEF QueuedOK, PacketOK
    <3> QED
      BY <1>2, <3>1, <3>2, <3>3 DEF QueuedOK, PacketOK
  <2> QED
    BY <1>3, <1>4, <1>5, <2>1, <2>2
<1>10. QueueDistinct'
  <2> SUFFICES ASSUME NEW m \in Nodes,
                      NEW i \in DOMAIN outputQueue'[m], NEW j \in DOMAIN outputQueue'[m],
                      ~outputQueue'[m][i].resend, ~outputQueue'[m][j].resend,
                      outputQueue'[m][i].body = outputQueue'[m][j].body
               PROVE  i = j
    BY DEF QueueDistinct
  <2>1. CASE m # n
    BY <1>5, <2>1 DEF QueueDistinct
  <2>2. CASE m = n
    <3>1. ASSUME NEW k \in 1 .. Len(q) PROVE q[k].body # p
      BY <1>1, <1>2, <1>3, <3>1 DEF QueueOK, QueuedOK, PacketOK
    <3>2. pk.body = p
      OBVIOUS
    <3>3. /\ i \in 1 .. Len(q) + 1 /\ j \in 1 .. Len(q) + 1
          /\ outputQueue'[m][i] = Append(q, pk)[i]
          /\ outputQueue'[m][j] = Append(q, pk)[j]
      BY <1>4, <1>5, <2>2
    <3>4. CASE i \in 1 .. Len(q) /\ j \in 1 .. Len(q)
      <4>1. outputQueue'[m][i] = q[i] /\ outputQueue'[m][j] = q[j]
        BY <1>4, <3>3, <3>4
      <4> QED
        BY <1>1, <1>3, <3>4, <4>1 DEF QueueDistinct
    <3>5. CASE i = Len(q) + 1 /\ j \in 1 .. Len(q)
      BY <1>4, <3>1, <3>2, <3>3, <3>5
    <3>6. CASE i \in 1 .. Len(q) /\ j = Len(q) + 1
      BY <1>4, <3>1, <3>2, <3>3, <3>6
    <3> QED
      BY <1>3, <3>3, <3>4, <3>5, <3>6
  <2> QED
    BY <2>1, <2>2
<1>11. SentOK'
  BY <1>2 DEF SentOK, StoredOK, PacketOK
<1>12. OutOK' /\ NetOK'
  <2>1. out[n].pc # "between"
    BY DEF AddPacketToSend, Idle
  <2> QED
    BY <1>2, <1>5, <2>1 DEF OutOK, NetOK
<1>13. (RxOK /\ ActionsOK /\ HandledOK /\ AcceptedOnce /\ HandledOnceUnlessOverlooked)'
  BY <1>2, ReceiverKeeps
<1> QED
  BY <1>6, <1>7, <1>9, <1>10, <1>11, <1>12, <1>13

\* Sorting moves packets within the queue.
LEMMA OutputTickKeepsIInv ==
    ASSUME IInv, NEW n \in Nodes, OutputTick(n)
    PROVE  IInv'
<1> USE DEF IInv
<1>1. PICK f \in SortedById(outputQueue[n]) :
          outputQueue' = [outputQueue EXCEPT ![n] = Sort(@, f)]
  BY DEF OutputTick
<1>2. /\ out' = [out EXCEPT ![n] = Between]
      /\ UNCHANGED <<unsent, nextId, packetsSent, receivedIds, appended, rx, actions,
                     net, handled, wireId, overlooked, races>>
  BY DEF OutputTick
<1>3. /\ outputQueue'[n] \in Seq(Packet)
      /\ DOMAIN outputQueue'[n] = DOMAIN outputQueue[n]
      /\ \A i \in DOMAIN outputQueue[n] :
             f[i] \in DOMAIN outputQueue[n] /\ outputQueue'[n][i] = outputQueue[n][f[i]]
      /\ \A i, j \in DOMAIN outputQueue[n] : f[i] = f[j] => i = j
  <2>1. outputQueue[n] \in Seq(Packet) /\ outputQueue'[n] = Sort(outputQueue[n], f)
    BY <1>1 DEF TypeOK
  <2> QED
    BY <2>1, SortProperties, ConstantFacts
<1>4. \A m \in Nodes : m # n => outputQueue'[m] = outputQueue[m]
  BY <1>1 DEF TypeOK
<1>5. TypeOK'
  <2>1. outputQueue' \in [Nodes -> Seq(Packet)]
    BY <1>1, <1>3 DEF TypeOK
  <2> QED
    BY <1>2, <2>1 DEF TypeOK
<1>6. QueueOK'
  <2> SUFFICES ASSUME NEW m \in Nodes, NEW i \in DOMAIN outputQueue'[m]
               PROVE  QueuedOK(m, outputQueue[m][i])'
    BY DEF QueueOK
  <2>1. \E j \in DOMAIN outputQueue[m] : outputQueue'[m][i] = outputQueue[m][j]
    BY <1>3, <1>4
  <2> QED
    BY <1>2, <2>1 DEF QueueOK, QueuedOK, PacketOK
<1>7. QueueDistinct'
  <2> SUFFICES ASSUME NEW m \in Nodes,
                      NEW i \in DOMAIN outputQueue'[m], NEW j \in DOMAIN outputQueue'[m],
                      ~outputQueue'[m][i].resend, ~outputQueue'[m][j].resend,
                      outputQueue'[m][i].body = outputQueue'[m][j].body
               PROVE  i = j
    BY DEF QueueDistinct
  <2>1. CASE m # n
    BY <1>4, <2>1 DEF QueueDistinct
  <2>2. CASE m = n
    <3>1. /\ i \in DOMAIN outputQueue[n] /\ j \in DOMAIN outputQueue[n]
          /\ outputQueue'[m][i] = outputQueue[n][f[i]]
          /\ outputQueue'[m][j] = outputQueue[n][f[j]]
      BY <1>3, <2>2
    <3>2. f[i] \in DOMAIN outputQueue[n] /\ f[j] \in DOMAIN outputQueue[n]
      BY <1>3, <3>1
    <3>3. f[i] = f[j]
      BY <3>1, <3>2 DEF QueueDistinct
    <3> QED
      BY <1>3, <3>1, <3>3
  <2> QED
    BY <2>1, <2>2
<1>8. OutOK'
  <2>1. outputQueue[n] # <<>> /\ outputQueue[n] \in Seq(Packet)
    BY DEF OutputTick, TypeOK
  <2>2. outputQueue'[n] # <<>>
    BY <1>3, <2>1
  <2>3. /\ out'[n] = Between
        /\ \A m \in Nodes : m # n => out'[m] = out[m]
    BY <1>2 DEF TypeOK
  <2> SUFFICES ASSUME NEW m \in Nodes
               PROVE  /\ out'[m].pc \in InSort =>
                             LET pk == out'[m].pkt IN
                             /\ From[pk.body] = m /\ To[pk.body] = pk.dst
                             /\ pk.body \notin unsent'
                             /\ wireId'[pk.body] = pk.id
                      /\ out'[m].pc = "between" => outputQueue'[m] # <<>>
    BY DEF OutOK
  <2>4. CASE m = n
    <3>1. out'[m].pc = "between" /\ out'[m].pc \notin InSort
      <4>1. Between.pc = "between" /\ "between" \notin InSort
        BY DEF Between, InSort
      <4> QED
        BY <2>3, <2>4, <4>1
    <3> QED
      BY <2>2, <2>4, <3>1
  <2>5. CASE m # n
    BY <1>2, <1>4, <2>3, <2>5 DEF OutOK
  <2> QED
    BY <2>4, <2>5
<1>9. UnsentOK' /\ SentOK' /\ NetOK'
  BY <1>2 DEF UnsentOK, SentOK, StoredOK, PacketOK, NetOK
<1>10. (RxOK /\ ActionsOK /\ HandledOK /\ AcceptedOnce /\ HandledOnceUnlessOverlooked)'
  BY <1>2, ReceiverKeeps
<1> QED
  BY <1>5, <1>6, <1>7, <1>8, <1>9, <1>10

\* What is being built is a packet, with the bits of an acknowledgement when
\* the ids are sorted for the second time.
LEMMA BuildingPacket ==
    ASSUME TypeOK, NEW n \in Nodes, out[n].pc \in InSort
    PROVE  /\ out[n].pkt \in Packet
           /\ out[n].pc = "sorting again" => out[n].ids \in SUBSET (0 .. Window - 1)
<1>1. out[n] \in {Idle, Between} \cup Sort1 \cup Sort2
  BY DEF TypeOK
<1>2. Idle.pc = "idle" /\ Between.pc = "between"
  BY DEF Idle, Between
<1>3. out[n] \in Sort1 \cup Sort2
  BY <1>1, <1>2 DEF InSort
<1> QED
  BY <1>3 DEF Sort1, Sort2

\* The last id of a list is an id.
LEMMA LastType ==
    ASSUME TypeOK, NEW n \in Nodes, NEW m \in Nodes, NEW id \in Last(n, m)
    PROVE  id \in Ids
<1>1. receivedIds[n][m] \in SUBSET Ids /\ appended[n] \in Ids \cup {None}
  BY DEF TypeOK
<1> QED
  BY <1>1, LastIdReceivedType DEF Last

\* What a packet that leaves the queue leaves behind.
LEMMA HeadOfQueue ==
    ASSUME IInv, NEW n \in Nodes, out[n] = Between
    PROVE  LET q == outputQueue[n]
               pk == Head(q)
           IN
           /\ q \in Seq(Packet) /\ q # <<>>
           /\ 1 \in DOMAIN q /\ pk = q[1] /\ pk \in Packet
           /\ QueuedOK(n, pk)
           /\ Tail(q) \in Seq(Packet)
           /\ \A i \in DOMAIN Tail(q) : i + 1 \in DOMAIN q /\ i + 1 # 1 /\ Tail(q)[i] = q[i + 1]
<1> DEFINE q == outputQueue[n]
<1>1. q \in Seq(Packet) /\ q # <<>>
  BY DEF IInv, TypeOK, OutOK, Between
<1>2. 1 \in DOMAIN q /\ Head(q) = q[1] /\ Head(q) \in Packet
  BY <1>1
<1>3. QueuedOK(n, Head(q))
  BY <1>2 DEF IInv, QueueOK
<1>4. /\ Tail(q) \in Seq(Packet) /\ Len(Tail(q)) = Len(q) - 1
      /\ \A i \in 1 .. Len(Tail(q)) : Tail(q)[i] = q[i + 1]
  BY <1>1, HeadTailProperties
<1> QED
  BY <1>1, <1>2, <1>3, <1>4

\* The queues stay what they are, when one gives up its head.
LEMMA QueueKeepsWithoutHead ==
    ASSUME IInv, NEW n \in Nodes, out[n] = Between,
           outputQueue' = [outputQueue EXCEPT ![n] = Tail(@)],
           UNCHANGED unsent,
           \A p \in Payloads : p # Head(outputQueue[n]).body => wireId'[p] = wireId[p],
           \/ UNCHANGED wireId
           \/ ~Head(outputQueue[n]).resend
    PROVE  QueueOK' /\ QueueDistinct'
<1> DEFINE q == outputQueue[n]
           pk == Head(q)
<1>1. /\ q \in Seq(Packet) /\ 1 \in DOMAIN q /\ pk = q[1] /\ pk \in Packet
      /\ QueuedOK(n, pk)
      /\ \A i \in DOMAIN Tail(q) : i + 1 \in DOMAIN q /\ i + 1 # 1 /\ Tail(q)[i] = q[i + 1]
  BY HeadOfQueue
<1>2. outputQueue'[n] = Tail(q) /\ \A m \in Nodes : m # n => outputQueue'[m] = outputQueue[m]
  BY DEF IInv, TypeOK
<1>3. QueueOK'
  <2> SUFFICES ASSUME NEW m \in Nodes, NEW i \in DOMAIN outputQueue'[m]
               PROVE  QueuedOK(m, outputQueue[m][i])'
    BY DEF QueueOK
  <2>1. PICK j \in DOMAIN outputQueue[m] :
            outputQueue'[m][i] = outputQueue[m][j] /\ (m = n => j # 1)
    <3>1. CASE m = n
      <4>1. i + 1 \in DOMAIN q /\ i + 1 # 1 /\ outputQueue'[m][i] = q[i + 1]
        BY <1>1, <1>2, <3>1
      <4> QED
        BY <3>1, <4>1
    <3>2. CASE m # n
      BY <1>2, <3>2
    <3> QED
      BY <3>1, <3>2
  <2> DEFINE x == outputQueue[m][j]
  <2>2. QueuedOK(m, x) /\ x \in Packet
    BY DEF IInv, QueueOK, TypeOK
  <2>3. x.body \in Payloads
    BY <2>2 DEF Packet
  <2>4. wireId'[x.body] = wireId[x.body]
    <3>1. CASE UNCHANGED wireId
      BY <3>1
    <3>2. CASE ~pk.resend /\ x.body = pk.body
      <4>1. m = n /\ wireId[x.body] = None
        BY <1>1, <2>2, <3>2 DEF QueuedOK, PacketOK
      <4>2. ~x.resend
        BY <2>2, <4>1, ConstantFacts DEF QueuedOK
      <4> QED
        BY <1>1, <2>1, <3>2, <4>1, <4>2 DEF IInv, QueueDistinct
    <3>3. CASE ~pk.resend /\ x.body # pk.body
      BY <2>3, <3>3
    <3> QED
      BY <3>1, <3>2, <3>3
  <2> QED
    BY <2>1, <2>2, <2>4 DEF QueuedOK, PacketOK
<1>4. QueueDistinct'
  <2> SUFFICES ASSUME NEW m \in Nodes,
                      NEW i \in DOMAIN outputQueue'[m], NEW j \in DOMAIN outputQueue'[m],
                      ~outputQueue'[m][i].resend, ~outputQueue'[m][j].resend,
                      outputQueue'[m][i].body = outputQueue'[m][j].body
               PROVE  i = j
    BY DEF QueueDistinct
  <2>1. CASE m # n
    BY <1>2, <2>1 DEF IInv, QueueDistinct
  <2>2. CASE m = n
    <3>1. /\ i + 1 \in DOMAIN q /\ outputQueue'[m][i] = q[i + 1]
          /\ j + 1 \in DOMAIN q /\ outputQueue'[m][j] = q[j + 1]
      BY <1>1, <1>2, <2>2
    <3>2. i + 1 = j + 1
      BY <3>1 DEF IInv, QueueDistinct
    <3>3. i \in Nat /\ j \in Nat
      BY <1>1, <1>2, <2>2, HeadOfQueue, LenProperties
    <3> QED
      BY <3>2, <3>3
  <2> QED
    BY <2>1, <2>2
<1> QED
  BY <1>3, <1>4

\* The acknowledgement of a header is a set of bits.
LEMMA IdsReceivedType ==
    ASSUME NEW S, NEW last
    PROVE  IdsReceived(S, last) \in SUBSET (0 .. Window - 1)
  BY NitworkAssumption DEF IdsReceived, NitworkAssumption

\* The bits of the acknowledgement are read for the packet being built.
LEMMA GetIdsReceivedKeepsIInv ==
    ASSUME IInv, NEW n \in Nodes, GetIdsReceived(n)
    PROVE  IInv'
<1> USE DEF IInv
<1>1. PICK pk : pk = out[n].pkt
  OBVIOUS
<1>2. PICK id \in Last(n, pk.dst) :
          out' = [out EXCEPT ![n] =
              SortingAgain(pk, IdsReceived(receivedIds[n][pk.dst], id))]
  BY <1>1 DEF GetIdsReceived
<1>3. /\ out[n].pc \in InSort
      /\ appended' = [appended EXCEPT ![n] = None]
      /\ UNCHANGED <<unsent, outputQueue, nextId, packetsSent, receivedIds, rx,
                     actions, net, handled, wireId, overlooked, races>>
  BY DEF GetIdsReceived, InSort
<1>4. pk \in Packet
  BY <1>1, <1>3, BuildingPacket
<1>5. PICK o : o = SortingAgain(pk, IdsReceived(receivedIds[n][pk.dst], id))
  OBVIOUS
<1>6. o \in Sort2 /\ o.pc = "sorting again" /\ o.pkt = pk
  BY <1>4, <1>5, IdsReceivedType DEF SortingAgain, Sort2
<1>7. out'[n] = o /\ \A m \in Nodes : m # n => out'[m] = out[m]
  BY <1>2, <1>5 DEF TypeOK
<1>8. TypeOK'
  <2>1. out' \in [Nodes -> {Idle, Between} \cup Sort1 \cup Sort2]
    BY <1>2, <1>5, <1>6 DEF TypeOK
  <2>2. appended' \in [Nodes -> Ids \cup {None}]
    BY <1>3 DEF TypeOK
  <2> QED
    BY <1>3, <2>1, <2>2 DEF TypeOK
<1>9. OutOK'
  <2>1. /\ From[pk.body] = n /\ To[pk.body] = pk.dst
        /\ pk.body \notin unsent /\ wireId[pk.body] = pk.id
    BY <1>1, <1>3 DEF OutOK
  <2>2. unsent' = unsent /\ wireId' = wireId /\ outputQueue' = outputQueue
    BY <1>3
  <2>3. ASSUME NEW x \in Nodes, x # n
        PROVE  /\ out'[x].pc \in InSort =>
                      LET q == out'[x].pkt IN
                      /\ From[q.body] = x /\ To[q.body] = q.dst
                      /\ q.body \notin unsent'
                      /\ wireId'[q.body] = q.id
               /\ out'[x].pc = "between" => outputQueue'[x] # <<>>
    <3>1. out'[x] = out[x]
      BY <1>7, <2>3
    <3>2. OutOK
      OBVIOUS
    <3> QED
      BY ONLY <2>2, <2>3, <3>1, <3>2 DEF OutOK
  <2> QED
    BY ONLY <1>6, <1>7, <2>1, <2>2, <2>3 DEF OutOK
<1>10. UnsentOK' /\ QueueOK' /\ QueueDistinct' /\ SentOK' /\ NetOK'
  BY <1>3 DEF UnsentOK, QueueOK, QueuedOK, QueueDistinct, SentOK, StoredOK, PacketOK,
              NetOK
<1>11. (RxOK /\ ActionsOK /\ HandledOK /\ AcceptedOnce /\ HandledOnceUnlessOverlooked)'
  BY <1>3, ReceiverKeeps
<1> QED
  BY <1>8, <1>9, <1>10, <1>11

\* A datagram leaves with the id that was taken for it.
LEMMA SendHeaderKeepsIInv ==
    ASSUME IInv, NEW n \in Nodes, SendHeader(n)
    PROVE  IInv'
<1> USE DEF IInv
<1>1. PICK pk : pk = out[n].pkt
  OBVIOUS
<1>2. PICK id \in Last(n, pk.dst) :
          net' = net \cup
              {[src |-> n, dst |-> pk.dst, body |-> pk.body, valid |-> TRUE,
                id |-> pk.id, ids |-> out[n].ids, last |-> id]}
  BY <1>1 DEF SendHeader
<1>3. /\ out[n].pc = "sorting again" /\ out[n].pc \in InSort
      /\ out' = [out EXCEPT ![n] = AfterPacket(outputQueue[n])]
      /\ appended' = [appended EXCEPT ![n] = None]
  BY DEF SendHeader, InSort
<1>4. UNCHANGED <<unsent, outputQueue, nextId, packetsSent, receivedIds, rx,
                   actions, handled, wireId, overlooked, races>>
  BY DEF SendHeader
<1>5. pk \in Packet /\ out[n].ids \in SUBSET (0 .. Window - 1) /\ id \in Ids
  <2>1. pk \in Packet /\ out[n].ids \in SUBSET (0 .. Window - 1)
    BY <1>1, <1>3, BuildingPacket
  <2>2. pk.dst \in Nodes
    BY <2>1 DEF Packet
  <2> QED
    BY <2>1, <2>2, LastType
<1>6. PICK d : d = [src |-> n, dst |-> pk.dst, body |-> pk.body, valid |-> TRUE,
                    id |-> pk.id, ids |-> out[n].ids, last |-> id]
  OBVIOUS
<1>7. /\ out'[n] = AfterPacket(outputQueue[n])
      /\ \A m \in Nodes : m # n => out'[m] = out[m]
  BY <1>3 DEF TypeOK
<1>8. TypeOK'
  <2>1. d \in Datagram
    BY <1>5, <1>6 DEF Datagram, Packet
  <2>2. out' \in [Nodes -> {Idle, Between} \cup Sort1 \cup Sort2]
    BY <1>3 DEF TypeOK, AfterPacket
  <2>3. appended' \in [Nodes -> Ids \cup {None}]
    BY <1>3 DEF TypeOK
  <2> QED
    BY <1>2, <1>4, <1>6, <2>1, <2>2, <2>3 DEF TypeOK
<1>9. NetOK'
  <2>1. /\ From[d.body] = d.src /\ To[d.body] = d.dst
        /\ d.body \notin unsent /\ wireId[d.body] = d.id
    BY <1>1, <1>3, <1>6 DEF OutOK
  <2> QED
    BY <1>2, <1>4, <1>6, <2>1 DEF NetOK
<1>10. OutOK'
  <2>1. /\ out'[n].pc \notin InSort
        /\ out'[n].pc = "between" => outputQueue[n] # <<>>
    BY <1>7 DEF AfterPacket, Idle, Between, InSort
  <2> QED
    BY <1>4, <1>7, <2>1 DEF OutOK
<1>11. UnsentOK' /\ QueueOK' /\ QueueDistinct' /\ SentOK'
  BY <1>4 DEF UnsentOK, QueueOK, QueuedOK, QueueDistinct, SentOK, StoredOK, PacketOK
<1>12. (RxOK /\ ActionsOK /\ HandledOK /\ AcceptedOnce /\ HandledOnceUnlessOverlooked)'
  BY <1>4, ReceiverKeeps
<1> QED
  BY <1>8, <1>9, <1>10, <1>11, <1>12

\* Both kinds of sending store the packet and take an id.
LEMMA SentKeeps ==
    ASSUME IInv, NEW n \in Nodes, out[n] = Between,
           NEW pk, pk = Head(outputQueue[n]),
           NEW m, m = pk.dst,
           packetsSent' = [packetsSent EXCEPT ![n][m] = AddPacketToSentPackages(@, pk)],
           nextId' = [nextId EXCEPT ![n][m] = (@ + 1) % IdMod],
           UNCHANGED unsent,
           nextId[n][m] = 0 => wireId'[pk.body] = 0,
           \A p \in Payloads : wireId[p] = 0 => wireId'[p] = 0
    PROVE  /\ SentOK'
           /\ packetsSent' \in [Nodes -> [Nodes -> Seq(Packet)]]
           /\ nextId' \in [Nodes -> [Nodes -> Ids]]
<1>1. pk \in Packet /\ QueuedOK(n, pk)
  BY HeadOfQueue
<1>2. m \in Nodes /\ pk.body \in Payloads
  BY <1>1 DEF Packet
<1>3. packetsSent[n][m] \in Seq(Packet)
  BY <1>2 DEF IInv, TypeOK
<1>4. PICK t : t = AddPacketToSentPackages(packetsSent[n][m], pk)
  OBVIOUS
<1>5. /\ t \in Seq(Packet) /\ t # <<>>
      /\ \A i \in DOMAIN t : t[i] = pk \/ \E j \in DOMAIN packetsSent[n][m] : t[i] = packetsSent[n][m][j]
  <2>1. PICK s : s = packetsSent[n][m]
    OBVIOUS
  <2>2. s \in Seq(Packet) /\ pk \in Packet /\ t = AddPacketToSentPackages(s, pk)
    BY <1>1, <1>3, <1>4, <2>1
  <2>3. t \in Seq(Packet) /\ t # <<>>
    BY ONLY <2>2, AddPacketProperties
  <2>4. \A i \in DOMAIN t : t[i] = pk \/ \E j \in DOMAIN s : t[i] = s[j]
    BY ONLY <2>2, AddPacketProperties
  <2> QED
    BY <2>1, <2>3, <2>4
<1>6. packetsSent' = [packetsSent EXCEPT ![n] = [packetsSent[n] EXCEPT ![m] = t]]
  BY <1>4
<1>7. /\ packetsSent'[n][m] = t
      /\ \A x, y \in Nodes : x # n \/ y # m => packetsSent'[x][y] = packetsSent[x][y]
  <2>1. packetsSent \in [Nodes -> [Nodes -> Seq(Packet)]]
    BY DEF IInv, TypeOK
  <2>2. packetsSent[n] \in [Nodes -> Seq(Packet)]
    BY <2>1
  <2>3. /\ packetsSent'[n] = [packetsSent[n] EXCEPT ![m] = t]
        /\ \A x \in Nodes : x # n => packetsSent'[x] = packetsSent[x]
    BY ONLY n \in Nodes, <1>6, <2>1
  <2> QED
    BY ONLY n \in Nodes, <1>2, <2>2, <2>3
<1>8. packetsSent' \in [Nodes -> [Nodes -> Seq(Packet)]]
  <2>1. packetsSent \in [Nodes -> [Nodes -> Seq(Packet)]] /\ t \in Seq(Packet)
    BY <1>5 DEF IInv, TypeOK
  <2>2. [packetsSent[n] EXCEPT ![m] = t] \in [Nodes -> Seq(Packet)]
    BY <1>2, <2>1
  <2> QED
    BY <1>6, <2>1, <2>2
<1>9. nextId' \in [Nodes -> [Nodes -> Ids]]
  <2>1. nextId[n][m] \in Ids
    BY <1>2 DEF IInv, TypeOK
  <2>2. (nextId[n][m] + 1) % IdMod \in Ids
    <3> DEFINE k == nextId[n][m] + 1
    <3>1. k \in Int /\ IdMod \in Nat /\ IdMod > 0
      BY <2>1, NitworkAssumption DEF Ids, NitworkAssumption
    <3> HIDE DEF k
    <3>2. k % IdMod \in 0 .. IdMod - 1
      BY <3>1
    <3> QED
      BY <3>2 DEF k, Ids
  <2> QED
    BY <1>2, <2>2 DEF IInv, TypeOK
<1>10. \A x, y \in Nodes : x # n \/ y # m => nextId'[x][y] = nextId[x][y]
  BY <1>2 DEF IInv, TypeOK
<1>11. ASSUME NEW e, NEW x \in Nodes, NEW y \in Nodes, e \in Packet, StoredOK(x, y, e)
       PROVE  StoredOK(x, y, e)'
  <2>1. e.body \in Payloads /\ wireId[e.body] = 0
    BY <1>11 DEF Packet, StoredOK
  <2>2. wireId'[e.body] = 0
    BY <2>1
  <2> QED
    BY <1>11, <2>2 DEF StoredOK, PacketOK
<1>12. ASSUME NEW x \in Nodes, NEW y \in Nodes, NEW j \in DOMAIN packetsSent[x][y]
       PROVE  packetsSent[x][y][j] \in Packet /\ StoredOK(x, y, packetsSent[x][y][j])
  BY DEF IInv, TypeOK, SentOK
<1>13. ASSUME packetsSent[n][m] = <<>>
       PROVE  StoredOK(n, m, pk)'
  <2>1. nextId[n][m] = 0
    BY <1>2, <1>13 DEF IInv, SentOK
  <2>2. wireId'[pk.body] = 0
    BY <1>1, <2>1 DEF QueuedOK
  <2> QED
    BY <1>1, <2>2 DEF QueuedOK, PacketOK, StoredOK
<1>14. ASSUME NEW i \in DOMAIN t
       PROVE  StoredOK(n, m, t[i])'
  <2>1. CASE \E j \in DOMAIN packetsSent[n][m] : t[i] = packetsSent[n][m][j]
    BY <1>2, <1>11, <1>12, <2>1
  <2>2. CASE t[i] = pk /\ packetsSent[n][m] = <<>>
    BY <1>13, <2>2
  <2>3. CASE packetsSent[n][m] # <<>>
    <3>1. 1 \in DOMAIN packetsSent[n][m]
      BY <1>3, <2>3
    <3>2. packetsSent[n][m][1].id = pk.id
      BY <1>1, <1>2, <1>12, <3>1 DEF QueuedOK, StoredOK, PacketOK
    <3>3. t = packetsSent[n][m]
      BY <1>1, <1>3, <1>4, <3>1, <3>2, AddPacketKnownId
    <3> QED
      BY <2>1, <3>3
  <2> QED
    BY <1>5, <2>1, <2>2, <2>3
<1>15. ASSUME NEW x \in Nodes, NEW y \in Nodes, NEW i \in DOMAIN packetsSent'[x][y]
       PROVE  StoredOK(x, y, packetsSent[x][y][i])'
  <2>1. CASE x = n /\ y = m
    BY <1>7, <1>14, <2>1
  <2>2. CASE x # n \/ y # m
    <3>1. packetsSent'[x][y] = packetsSent[x][y]
      BY <1>7, <2>2
    <3>2. i \in DOMAIN packetsSent[x][y]
      BY <3>1
    <3>3. StoredOK(x, y, packetsSent[x][y][i]) /\ packetsSent[x][y][i] \in Packet
      BY <1>12, <3>2
    <3>4. PICK e : e = packetsSent[x][y][i]
      OBVIOUS
    <3>5. StoredOK(x, y, e)'
      BY <1>11, <3>3, <3>4
    <3> QED
      BY <3>1, <3>4, <3>5
  <2> QED
    BY <2>1, <2>2
<1>16. ASSUME NEW x \in Nodes, NEW y \in Nodes, packetsSent'[x][y] = <<>>
       PROVE  nextId'[x][y] = 0
  <2>1. x # n \/ y # m
    BY <1>5, <1>7, <1>16
  <2>2. packetsSent[x][y] = <<>> /\ nextId'[x][y] = nextId[x][y]
    BY <1>7, <1>10, <1>16, <2>1
  <2> QED
    BY <2>2 DEF IInv, SentOK
<1> QED
  BY <1>8, <1>9, <1>15, <1>16 DEF SentOK

\* A fresh packet takes the next id, and only the first to an endpoint is stored.
LEMMA SendFreshKeepsIInv ==
    ASSUME IInv, NEW n \in Nodes, SendFresh(n)
    PROVE  IInv'
<1>1. PICK pk : pk = Head(outputQueue[n])
  OBVIOUS
<1>2. PICK m : m = pk.dst
  OBVIOUS
<1>3. /\ out[n] = Between /\ ~pk.resend
      /\ outputQueue' = [outputQueue EXCEPT ![n] = Tail(@)]
      /\ packetsSent' = [packetsSent EXCEPT ![n][m] = AddPacketToSentPackages(@, pk)]
      /\ nextId' = [nextId EXCEPT ![n][m] = (@ + 1) % IdMod]
      /\ out' = [out EXCEPT ![n] = Sorting([pk EXCEPT !.id = nextId[n][m]])]
      /\ wireId' = [wireId EXCEPT ![pk.body] = nextId[n][m]]
      /\ UNCHANGED <<unsent, receivedIds, appended, rx, actions, net, handled,
                     overlooked, races>>
  BY <1>1, <1>2 DEF SendFresh
<1>4. /\ outputQueue[n] \in Seq(Packet) /\ outputQueue[n] # <<>>
      /\ pk \in Packet /\ QueuedOK(n, pk) /\ Tail(outputQueue[n]) \in Seq(Packet)
  BY <1>1, <1>3, HeadOfQueue
<1>5. /\ m \in Nodes /\ pk.body \in Payloads
      /\ From[pk.body] = n /\ To[pk.body] = m
      /\ pk.body \notin unsent /\ wireId[pk.body] = None
  BY <1>2, <1>3, <1>4 DEF Packet, QueuedOK, PacketOK
<1>6. nextId[n][m] \in Ids
  BY <1>5 DEF IInv, TypeOK
<1>7. /\ wireId'[pk.body] = nextId[n][m]
      /\ \A p \in Payloads : p # pk.body => wireId'[p] = wireId[p]
      /\ \A p \in Payloads : wireId[p] # None => wireId'[p] = wireId[p]
      /\ wireId' \in [Payloads -> Ids \cup {None}]
  BY <1>3, <1>5, <1>6 DEF IInv, TypeOK
<1>8. QueueOK' /\ QueueDistinct'
  BY <1>1, <1>3, <1>7, QueueKeepsWithoutHead
<1>9. /\ SentOK'
      /\ packetsSent' \in [Nodes -> [Nodes -> Seq(Packet)]]
      /\ nextId' \in [Nodes -> [Nodes -> Ids]]
  <2>1. UNCHANGED unsent /\ (nextId[n][m] = 0 => wireId'[pk.body] = 0)
    BY <1>3, <1>7
  <2>2. \A p \in Payloads : wireId[p] = 0 => wireId'[p] = 0
    BY <1>7, ConstantFacts
  <2>3. /\ out[n] = Between
        /\ packetsSent' = [packetsSent EXCEPT ![n][m] = AddPacketToSentPackages(@, pk)]
        /\ nextId' = [nextId EXCEPT ![n][m] = (@ + 1) % IdMod]
    BY <1>3
  <2> QED
    BY <1>1, <1>2, <2>1, <2>2, <2>3, SentKeeps
<1>10. PICK new : new = [pk EXCEPT !.id = nextId[n][m]]
  OBVIOUS
<1>11. /\ new \in Packet /\ new.body = pk.body /\ new.dst = m
       /\ new.id = nextId[n][m]
  BY <1>2, <1>4, <1>6, <1>10 DEF Packet
<1>12. PICK o : o = Sorting(new)
  OBVIOUS
<1>13. o \in Sort1 /\ o.pc = "sorting" /\ o.pkt = new
  BY <1>11, <1>12 DEF Sorting, Sort1
<1>14. out'[n] = o /\ \A x \in Nodes : x # n => out'[x] = out[x]
  BY <1>3, <1>10, <1>12 DEF IInv, TypeOK
<1>15. TypeOK'
  <2>1. out' \in [Nodes -> {Idle, Between} \cup Sort1 \cup Sort2]
    BY <1>3, <1>10, <1>12, <1>13 DEF IInv, TypeOK
  <2>2. outputQueue' \in [Nodes -> Seq(Packet)]
    BY <1>3, <1>4 DEF IInv, TypeOK
  <2> QED
    BY <1>3, <1>7, <1>9, <2>1, <2>2 DEF IInv, TypeOK
<1>16. UnsentOK'
  BY <1>3, <1>5, <1>7 DEF IInv, TypeOK, UnsentOK
<1>17. OutOK'
  <2> SUFFICES ASSUME NEW x \in Nodes
               PROVE  /\ out'[x].pc \in InSort =>
                             /\ From[out'[x].pkt.body] = x
                             /\ To[out'[x].pkt.body] = out'[x].pkt.dst
                             /\ out'[x].pkt.body \notin unsent'
                             /\ wireId'[out'[x].pkt.body] = out'[x].pkt.id
                      /\ out'[x].pc = "between" => outputQueue'[x] # <<>>
    BY DEF OutOK
  <2>1. CASE x = n
    BY <1>3, <1>5, <1>7, <1>11, <1>13, <1>14, <2>1
  <2>2. CASE x # n
    <3>1. out'[x] = out[x] /\ outputQueue'[x] = outputQueue[x]
      BY <1>3, <1>14, <2>2 DEF IInv, TypeOK
    <3>2. CASE out[x].pc \in InSort
      <4>1. out[x].pkt \in Packet
        BY <3>2, BuildingPacket DEF IInv
      <4>2. out[x].pkt.body \in Payloads /\ out[x].pkt.id # None
        BY <4>1, ConstantFacts DEF Packet
      <4>3. /\ From[out[x].pkt.body] = x /\ To[out[x].pkt.body] = out[x].pkt.dst
            /\ out[x].pkt.body \notin unsent
            /\ wireId[out[x].pkt.body] = out[x].pkt.id
            /\ out[x].pc = "between" => outputQueue[x] # <<>>
        BY <3>2 DEF IInv, OutOK
      <4>4. unsent' = unsent
        BY <1>3
      <4>5. wireId'[out[x].pkt.body] = out[x].pkt.id
        BY <1>7, <4>2, <4>3
      <4> QED
        BY <3>1, <4>3, <4>4, <4>5
    <3>3. CASE out[x].pc \notin InSort
      BY <3>1, <3>3 DEF IInv, OutOK
    <3> QED
      BY <3>2, <3>3
  <2> QED
    BY <2>1, <2>2
<1>18. NetOK'
  <2>1. ASSUME NEW d \in net PROVE d.body \in Payloads /\ d.id # None
    BY ConstantFacts DEF IInv, TypeOK, Datagram
  <2> QED
    BY <1>3, <1>7, <2>1 DEF IInv, NetOK
<1>19. (RxOK /\ ActionsOK /\ HandledOK /\ AcceptedOnce /\ HandledOnceUnlessOverlooked)'
  BY <1>3, <1>7, ReceiverKeeps DEF IInv
<1> QED
  BY <1>8, <1>9, <1>15, <1>16, <1>17, <1>18, <1>19 DEF IInv

\* A resent datagram says id 0, the id of the only packet that is stored.
LEMMA SendAgainKeepsIInv ==
    ASSUME IInv, NEW n \in Nodes, SendAgain(n)
    PROVE  IInv'
<1>1. PICK pk : pk = Head(outputQueue[n])
  OBVIOUS
<1>2. PICK m : m = pk.dst
  OBVIOUS
<1>3. /\ out[n] = Between /\ pk.resend
      /\ outputQueue' = [outputQueue EXCEPT ![n] = Tail(@)]
      /\ packetsSent' = [packetsSent EXCEPT ![n][m] = AddPacketToSentPackages(@, pk)]
      /\ nextId' = [nextId EXCEPT ![n][m] = (@ + 1) % IdMod]
      /\ net' = net \cup {ResentDatagram(n, pk)}
      /\ out' = [out EXCEPT ![n] = AfterPacket(Tail(outputQueue[n]))]
      /\ UNCHANGED <<unsent, receivedIds, appended, rx, actions, handled, wireId,
                     overlooked, races>>
  BY <1>1, <1>2 DEF SendAgain
<1>4. /\ pk \in Packet /\ QueuedOK(n, pk) /\ Tail(outputQueue[n]) \in Seq(Packet)
  BY <1>1, <1>3, HeadOfQueue
<1>5. /\ m \in Nodes /\ pk.body \in Payloads
      /\ From[pk.body] = n /\ To[pk.body] = m
      /\ pk.body \notin unsent /\ wireId[pk.body] = 0
  BY <1>2, <1>3, <1>4 DEF Packet, QueuedOK, PacketOK
<1>6. QueueOK' /\ QueueDistinct'
  BY <1>1, <1>3, QueueKeepsWithoutHead
<1>7. /\ SentOK'
      /\ packetsSent' \in [Nodes -> [Nodes -> Seq(Packet)]]
      /\ nextId' \in [Nodes -> [Nodes -> Ids]]
  <2>1. UNCHANGED unsent /\ UNCHANGED wireId /\ wireId[pk.body] = 0
    BY <1>3, <1>5
  <2> QED
    BY <1>1, <1>2, <1>3, <2>1, SentKeeps
<1>8. PICK d : d = ResentDatagram(n, pk)
  OBVIOUS
<1>9. d \in Datagram
  <2>1. 0 \in Ids /\ {} \in SUBSET (0 .. Window - 1) /\ (pk.body \in Keyed) \in BOOLEAN
    BY ConstantFacts
  <2>2. d = [src |-> n, dst |-> m, body |-> pk.body, valid |-> pk.body \in Keyed,
             id |-> 0, ids |-> {}, last |-> 0]
    BY <1>2, <1>8 DEF ResentDatagram
  <2> QED
    BY <1>5, <2>1, <2>2 DEF Datagram
<1>10. d.src = n /\ d.dst = m /\ d.body = pk.body /\ d.id = 0
  BY <1>2, <1>8 DEF ResentDatagram
<1>11. /\ out'[n] = AfterPacket(Tail(outputQueue[n]))
       /\ \A x \in Nodes : x # n => out'[x] = out[x]
       /\ outputQueue'[n] = Tail(outputQueue[n])
       /\ \A x \in Nodes : x # n => outputQueue'[x] = outputQueue[x]
  BY <1>3 DEF IInv, TypeOK
<1>12. TypeOK'
  <2>1. out' \in [Nodes -> {Idle, Between} \cup Sort1 \cup Sort2]
    BY <1>3 DEF IInv, TypeOK, AfterPacket
  <2>2. outputQueue' \in [Nodes -> Seq(Packet)]
    BY <1>3, <1>4 DEF IInv, TypeOK
  <2>3. net' \subseteq Datagram
    BY <1>3, <1>8, <1>9 DEF IInv, TypeOK
  <2> QED
    BY <1>3, <1>7, <2>1, <2>2, <2>3 DEF IInv, TypeOK
<1>13. OutOK'
  <2>1. /\ out'[n].pc \notin InSort
        /\ out'[n].pc = "between" => outputQueue'[n] # <<>>
    BY <1>11 DEF AfterPacket, Idle, Between, InSort
  <2> QED
    BY <1>3, <1>11, <2>1 DEF IInv, OutOK
<1>14. NetOK'
  BY <1>3, <1>5, <1>8, <1>10 DEF IInv, NetOK
<1>15. UnsentOK'
  BY <1>3 DEF IInv, UnsentOK
<1>16. (RxOK /\ ActionsOK /\ HandledOK /\ AcceptedOnce /\ HandledOnceUnlessOverlooked)'
  BY <1>3, ReceiverKeeps DEF IInv
<1> QED
  BY <1>6, <1>7, <1>12, <1>13, <1>14, <1>15, <1>16 DEF IInv

\* A datagram is accepted if its id is not remembered or overlooked, which the
\* history says, and is remembered then.
LEMMA ReceiveHeaderKeepsIInv ==
    ASSUME IInv, NEW n \in Nodes, ReceiveHeader(n)
    PROVE  IInv'
<1> DEFINE Accepts(e, l) ==
          /\ e.dst = n /\ e.valid
          /\ l \cup ({e.id} \cap receivedIds[n][e.src]) # {} => races < MaxRaces
          /\ receivedIds' = [receivedIds EXCEPT ![n][e.src] = (@ \ l) \cup {e.id}]
          /\ NoteAppended(n, e.src, e.id)
          /\ overlooked' = [overlooked EXCEPT ![n][e.src] =
                 @ \cup (l \cup ({e.id} \cap receivedIds[n][e.src]))]
          /\ races' = IF l \cup ({e.id} \cap receivedIds[n][e.src]) = {}
                      THEN races ELSE races + 1
          /\ rx' = [rx EXCEPT ![n] = e]
<1>1. PICK d \in net : \E lost \in Losable(n, d.src) : Accepts(d, lost)
  BY DEF ReceiveHeader
<1>2. PICK lost \in Losable(n, d.src) : Accepts(d, lost)
  BY <1>1
<1>3. /\ rx[n] = None
      /\ UNCHANGED <<unsent, outputQueue, out, nextId, packetsSent, actions, net,
                     handled, wireId>>
  BY DEF ReceiveHeader
<1>4. d \in Datagram /\ d.src \in Nodes /\ d.body \in Payloads /\ d.id \in Ids
  BY DEF IInv, TypeOK, Datagram
<1>5. PICK src : src = d.src
  OBVIOUS
<1>6. /\ From[d.body] = src /\ To[d.body] = n
      /\ d.body \notin unsent /\ wireId[d.body] = d.id
  BY <1>2, <1>5 DEF IInv, NetOK
<1>7. rx'[n] = d /\ \A x \in Nodes : x # n => rx'[x] = rx[x]
  BY <1>2 DEF IInv, TypeOK
<1>8. PICK known, missed :
          /\ known = receivedIds[n][src]
          /\ missed = lost \cup ({d.id} \cap known)
  OBVIOUS
<1>9. lost \subseteq known /\ known \subseteq Ids /\ missed \subseteq Ids
  <2>1. lost \subseteq known
    BY <1>5, <1>8 DEF Losable
  <2>2. known \subseteq Ids
    BY <1>4, <1>5, <1>8 DEF IInv, TypeOK
  <2> QED
    BY <1>4, <1>8, <2>1, <2>2
<1>10. /\ receivedIds'[n][src] = (known \ lost) \cup {d.id}
       /\ \A x, y \in Nodes : x # n \/ y # src => receivedIds'[x][y] = receivedIds[x][y]
       /\ receivedIds' \in [Nodes -> [Nodes -> SUBSET Ids]]
  <2>1. PICK R : R = (known \ lost) \cup {d.id}
    OBVIOUS
  <2>2. receivedIds' = [receivedIds EXCEPT ![n] = [receivedIds[n] EXCEPT ![src] = R]]
    BY <1>2, <1>5, <1>8, <2>1
  <2>3. R \in SUBSET Ids /\ receivedIds \in [Nodes -> [Nodes -> SUBSET Ids]]
    BY <1>4, <1>9, <2>1 DEF IInv, TypeOK
  <2>4. [receivedIds[n] EXCEPT ![src] = R] \in [Nodes -> SUBSET Ids]
    BY <1>4, <1>5, <2>3
  <2> QED
    BY <1>4, <1>5, <2>1, <2>2, <2>3, <2>4
<1>11. /\ overlooked'[n][src] = overlooked[n][src] \cup missed
       /\ \A x, y \in Nodes : x # n \/ y # src => overlooked'[x][y] = overlooked[x][y]
       /\ overlooked' \in [Nodes -> [Nodes -> SUBSET Ids]]
  <2>1. PICK R : R = overlooked[n][src] \cup missed
    OBVIOUS
  <2>2. overlooked' = [overlooked EXCEPT ![n] = [overlooked[n] EXCEPT ![src] = R]]
    BY <1>2, <1>5, <1>8, <2>1
  <2>3. R \in SUBSET Ids /\ overlooked \in [Nodes -> [Nodes -> SUBSET Ids]]
    BY <1>4, <1>5, <1>9, <2>1 DEF IInv, TypeOK
  <2>4. [overlooked[n] EXCEPT ![src] = R] \in [Nodes -> SUBSET Ids]
    BY <1>4, <1>5, <2>3
  <2> QED
    BY <1>4, <1>5, <2>1, <2>2, <2>3, <2>4
<1>12. /\ d.id \in CameIn(n, src)'
       /\ d.id \in CameIn(n, src) => d.id \in overlooked'[n][src]
       /\ \A x, y \in Nodes : /\ CameIn(x, y) \subseteq CameIn(x, y)'
                              /\ overlooked[x][y] \subseteq overlooked'[x][y]
  <2>1. d.id \in CameIn(n, src)'
    BY <1>10 DEF CameIn
  <2>2. d.id \in CameIn(n, src) => d.id \in overlooked'[n][src]
    BY <1>8, <1>11 DEF CameIn
  <2>3. ASSUME NEW x \in Nodes, NEW y \in Nodes
        PROVE  /\ CameIn(x, y) \subseteq CameIn(x, y)'
               /\ overlooked[x][y] \subseteq overlooked'[x][y]
    <3>1. CASE x = n /\ y = src
      BY <1>8, <1>10, <1>11, <3>1 DEF CameIn
    <3>2. CASE x # n \/ y # src
      BY <1>10, <1>11, <3>2 DEF CameIn
    <3> QED
      BY <3>1, <3>2
  <2> QED
    BY <2>1, <2>2, <2>3
<1>13. TypeOK'
  <2>1. races' \in 0 .. MaxRaces
    <3>1. races' = races \/ (races < MaxRaces /\ races' = races + 1)
      BY <1>2
    <3>2. races \in 0 .. MaxRaces /\ MaxRaces \in Nat
      BY NitworkAssumption DEF IInv, TypeOK, NitworkAssumption
    <3> QED
      BY <3>1, <3>2
  <2>2. appended' \in [Nodes -> Ids \cup {None}]
    BY <1>2, <1>4 DEF IInv, TypeOK, NoteAppended
  <2>3. rx' \in [Nodes -> Datagram \cup {None}]
    BY <1>2, <1>4 DEF IInv, TypeOK
  <2> QED
    BY <1>3, <1>10, <1>11, <2>1, <2>2, <2>3 DEF IInv, TypeOK
<1>14. RxOK'
  <2> SUFFICES ASSUME NEW x \in Nodes, rx'[x] # None
               PROVE  AcceptedOK(x, rx[x].src, rx[x].id, rx[x].body)'
    BY DEF RxOK
  <2>1. CASE x = n
    <3>1. rx'[x] = d
      BY <1>7, <2>1
    <3> QED
      BY <1>3, <1>5, <1>6, <1>12, <2>1, <3>1 DEF AcceptedOK
  <2>2. CASE x # n
    <3>1. rx'[x] = rx[x] /\ rx[x] # None
      BY <1>7, <2>2
    <3>2. rx[x].src \in Nodes /\ AcceptedOK(x, rx[x].src, rx[x].id, rx[x].body)
      BY <3>1 DEF IInv, TypeOK, RxOK, Datagram
    <3> QED
      BY <1>3, <1>12, <3>1, <3>2 DEF AcceptedOK
  <2> QED
    BY <2>1, <2>2
<1>15. ActionsOK'
  <2> SUFFICES ASSUME NEW x \in Nodes, NEW i \in DOMAIN actions'[x]
               PROVE  AcceptedOK(x, actions[x][i].src, actions[x][i].id, actions[x][i].body)'
    BY DEF ActionsOK
  <2>1. actions[x][i] \in Action /\ actions'[x][i] = actions[x][i]
    BY <1>3 DEF IInv, TypeOK
  <2>2. /\ actions[x][i].src \in Nodes
        /\ AcceptedOK(x, actions[x][i].src, actions[x][i].id, actions[x][i].body)
    BY <1>3, <2>1 DEF IInv, ActionsOK, Action
  <2> QED
    BY <1>3, <1>12, <2>1, <2>2 DEF AcceptedOK
<1>16. HandledOK'
  <2> SUFFICES ASSUME NEW x \in Nodes, NEW i \in DOMAIN handled'[x]
               PROVE  AcceptedOK(x, handled[x][i].src, handled[x][i].id, handled[x][i].body)'
    BY DEF HandledOK
  <2>1. handled[x][i] \in Action /\ handled'[x][i] = handled[x][i]
    BY <1>3 DEF IInv, TypeOK
  <2>2. /\ handled[x][i].src \in Nodes
        /\ AcceptedOK(x, handled[x][i].src, handled[x][i].id, handled[x][i].body)
    BY <1>3, <2>1 DEF IInv, HandledOK, Action
  <2> QED
    BY <1>3, <1>12, <2>1, <2>2 DEF AcceptedOK
<1> DEFINE Now(x, e) == e.id \in overlooked'[x][e.src]
<1>17. ASSUME NEW e, e \in Action, AcceptedOK(n, e.src, e.id, e.body), e.body = d.body
       PROVE  Now(n, e)
  <2>1. e.src = src /\ e.id = d.id
    BY <1>6, <1>17 DEF AcceptedOK
  <2>2. d.id \in CameIn(n, src)
    BY <1>17, <2>1 DEF AcceptedOK
  <2> QED
    BY <1>12, <2>1, <2>2
<1>18. ASSUME NEW x \in Nodes, NEW e, e \in Action, Overlooked(x, e)
       PROVE  Now(x, e)
  <2>1. e.src \in Nodes
    BY <1>18 DEF Action
  <2> QED
    BY <1>12, <1>18, <2>1 DEF Overlooked
<1>19. ASSUME NEW x \in Nodes
       PROVE  /\ \A i \in DOMAIN actions[x] :
                     /\ actions[x][i] \in Action
                     /\ AcceptedOK(x, actions[x][i].src, actions[x][i].id, actions[x][i].body)
              /\ \A i \in DOMAIN handled[x] :
                     /\ handled[x][i] \in Action
                     /\ AcceptedOK(x, handled[x][i].src, handled[x][i].id, handled[x][i].body)
  BY DEF IInv, TypeOK, ActionsOK, HandledOK
<1>20. HandledOnceUnlessOverlooked'
  <2>1. ASSUME NEW x \in Nodes, NEW i \in DOMAIN handled[x], NEW j \in DOMAIN handled[x],
               handled[x][i].body = handled[x][j].body, i # j
        PROVE  Now(x, handled[x][i])
    BY <1>18, <1>19, <2>1 DEF IInv, HandledOnceUnlessOverlooked
  <2> QED
    BY <1>3, <2>1 DEF HandledOnceUnlessOverlooked, Overlooked
<1>21. AcceptedOnce'
  <2>1. ASSUME NEW x \in Nodes, NEW i \in DOMAIN actions[x], NEW j \in DOMAIN actions[x],
               actions[x][i].body = actions[x][j].body, i # j
        PROVE  Now(x, actions[x][i])
    BY <1>18, <1>19, <2>1 DEF IInv, AcceptedOnce
  <2>2. ASSUME NEW x \in Nodes, NEW i \in DOMAIN actions[x], NEW j \in DOMAIN handled[x],
               actions[x][i].body = handled[x][j].body
        PROVE  Now(x, actions[x][i])
    BY <1>18, <1>19, <2>2 DEF IInv, AcceptedOnce
  <2>3. ASSUME NEW x \in Nodes, rx'[x] # None, NEW i \in DOMAIN actions[x],
               actions[x][i].body = rx'[x].body
        PROVE  Now(x, actions[x][i])
    <3>1. CASE x = n
      BY <1>7, <1>17, <1>19, <2>3, <3>1
    <3>2. CASE x # n
      BY <1>7, <1>18, <1>19, <2>3, <3>2 DEF IInv, AcceptedOnce
    <3> QED
      BY <3>1, <3>2
  <2>4. ASSUME NEW x \in Nodes, rx'[x] # None, NEW i \in DOMAIN handled[x],
               handled[x][i].body = rx'[x].body
        PROVE  Now(x, handled[x][i])
    <3>1. CASE x = n
      BY <1>7, <1>17, <1>19, <2>4, <3>1
    <3>2. CASE x # n
      BY <1>7, <1>18, <1>19, <2>4, <3>2 DEF IInv, AcceptedOnce
    <3> QED
      BY <3>1, <3>2
  <2> QED
    BY <1>3, <2>1, <2>2, <2>3, <2>4 DEF AcceptedOnce, Overlooked
<1>22. UnsentOK' /\ QueueOK' /\ QueueDistinct' /\ SentOK' /\ OutOK' /\ NetOK'
  BY <1>3 DEF IInv, UnsentOK, QueueOK, QueuedOK, QueueDistinct, SentOK, StoredOK,
              PacketOK, OutOK, NetOK
<1> QED
  BY <1>13, <1>14, <1>15, <1>16, <1>20, <1>21, <1>22 DEF IInv

\* Bodies move from the queue of the input loop to the history.
LEMMA InputTickKeepsIInv ==
    ASSUME IInv, NEW n \in Nodes, InputTick(n)
    PROVE  IInv'
<1>1. PICK f \in SortedById(actions[n]) :
          handled' = [handled EXCEPT ![n] = @ \o Sort(actions[n], f)]
  BY DEF InputTick
<1>2. /\ actions' = [actions EXCEPT ![n] = <<>>]
      /\ UNCHANGED <<unsent, outputQueue, out, nextId, packetsSent, receivedIds,
                     appended, rx, net, wireId, overlooked, races>>
  BY DEF InputTick
<1>3. PICK a, h, t : a = actions[n] /\ h = handled[n] /\ t = Sort(a, f)
  OBVIOUS
<1>4. a \in Seq(Action) /\ h \in Seq(Action)
  BY <1>3 DEF IInv, TypeOK
<1>5. /\ t \in Seq(Action) /\ DOMAIN t = DOMAIN a
      /\ \A i \in DOMAIN a : f[i] \in DOMAIN a /\ t[i] = a[f[i]]
      /\ \A i, j \in DOMAIN a : f[i] = f[j] => i = j
  BY <1>1, <1>3, <1>4, SortProperties, ConstantFacts
<1>6. /\ Len(h) \in Nat /\ Len(t) \in Nat /\ DOMAIN h = 1 .. Len(h) /\ DOMAIN t = 1 .. Len(t)
      /\ h \o t \in Seq(Action) /\ DOMAIN (h \o t) = 1 .. Len(h) + Len(t)
      /\ \A i \in 1 .. Len(h) + Len(t) :
             (h \o t)[i] = IF i <= Len(h) THEN h[i] ELSE t[i - Len(h)]
  BY <1>4, <1>5, ConcatProperties, LenProperties
<1>7. PICK g : g = h \o t
  OBVIOUS
<1>8. /\ handled'[n] = g /\ \A x \in Nodes : x # n => handled'[x] = handled[x]
      /\ actions'[n] = <<>> /\ \A x \in Nodes : x # n => actions'[x] = actions[x]
  BY <1>1, <1>2, <1>3, <1>7 DEF IInv, TypeOK
<1>9. ASSUME NEW i \in DOMAIN g
      PROVE  \/ i \in DOMAIN h /\ g[i] = h[i]
             \/ i - Len(h) \in DOMAIN a /\ i > Len(h) /\ g[i] = a[f[i - Len(h)]]
                /\ f[i - Len(h)] \in DOMAIN a
  BY <1>5, <1>6, <1>7
<1>10. TypeOK'
  <2>1. g \in Seq(Action)
    BY <1>6, <1>7
  <2>2. handled' \in [Nodes -> Seq(Action)]
    BY <1>1, <1>3, <1>7, <2>1 DEF IInv, TypeOK
  <2>3. actions' \in [Nodes -> Seq(Action)]
    BY <1>2 DEF IInv, TypeOK
  <2> QED
    BY <1>2, <2>2, <2>3 DEF IInv, TypeOK
<1>11. HandledOK'
  <2> SUFFICES ASSUME NEW x \in Nodes, NEW i \in DOMAIN handled'[x]
               PROVE  AcceptedOK(x, handled[x][i].src, handled[x][i].id, handled[x][i].body)'
    BY DEF HandledOK
  <2>1. PICK e : e = handled'[x][i]
    OBVIOUS
  <2>2. AcceptedOK(x, e.src, e.id, e.body)
    <3>1. CASE x # n
      BY <1>8, <2>1, <3>1 DEF IInv, HandledOK
    <3>2. CASE x = n
      <4>1. i \in DOMAIN g /\ e = g[i]
        BY <1>8, <2>1, <3>2
      <4>2. (\E j \in DOMAIN h : e = h[j]) \/ (\E j \in DOMAIN a : e = a[j])
        BY <1>9, <4>1
      <4> QED
        BY <1>3, <3>2, <4>2 DEF IInv, HandledOK, ActionsOK
    <3> QED
      BY <3>1, <3>2
  <2> QED
    BY <1>2, <2>1, <2>2 DEF AcceptedOK, CameIn
<1>12. ActionsOK'
  BY <1>2, <1>8 DEF IInv, ActionsOK, AcceptedOK, CameIn
<1>13. RxOK'
  BY <1>2 DEF IInv, RxOK, AcceptedOK, CameIn
<1>14. ASSUME NEW x \in Nodes, NEW e, Overlooked(x, e)
       PROVE  Overlooked(x, e)'
  BY <1>2, <1>14 DEF Overlooked
<1>15. \A k, l \in DOMAIN a : a[k].body = a[l].body => k = l \/ Overlooked(n, a[k])
  BY <1>3 DEF IInv, AcceptedOnce
<1>16. \A k \in DOMAIN a : \A l \in DOMAIN h : a[k].body = h[l].body => Overlooked(n, a[k])
  BY <1>3 DEF IInv, AcceptedOnce
<1>17. ASSUME NEW k \in DOMAIN a, NEW l \in DOMAIN h, a[k].body = h[l].body
       PROVE  Overlooked(n, h[l])
  <2>1. /\ AcceptedOK(n, a[k].src, a[k].id, a[k].body)
        /\ AcceptedOK(n, h[l].src, h[l].id, h[l].body)
    BY <1>3 DEF IInv, ActionsOK, HandledOK
  <2>2. a[k].src = h[l].src /\ a[k].id = h[l].id
    BY <1>17, <2>1 DEF AcceptedOK
  <2> QED
    BY <1>16, <1>17, <2>2 DEF Overlooked
<1>18. HandledOnceUnlessOverlooked'
  <2> SUFFICES ASSUME NEW x \in Nodes, NEW i \in DOMAIN handled'[x], NEW j \in DOMAIN handled'[x],
                      handled'[x][i].body = handled'[x][j].body, i # j
               PROVE  Overlooked(x, handled'[x][i])
    BY <1>2 DEF HandledOnceUnlessOverlooked, Overlooked
  <2>1. CASE x # n
    BY <1>8, <2>1 DEF IInv, HandledOnceUnlessOverlooked
  <2>2. CASE x = n
    <3>1. i \in DOMAIN g /\ j \in DOMAIN g /\ g[i].body = g[j].body /\ handled'[x][i] = g[i]
      BY <1>8, <2>2
    <3>2. CASE i \in DOMAIN h /\ g[i] = h[i] /\ j \in DOMAIN h /\ g[j] = h[j]
      BY <1>3, <2>2, <3>1, <3>2 DEF IInv, HandledOnceUnlessOverlooked
    <3>3. CASE /\ i - Len(h) \in DOMAIN a /\ g[i] = a[f[i - Len(h)]] /\ f[i - Len(h)] \in DOMAIN a
               /\ j - Len(h) \in DOMAIN a /\ g[j] = a[f[j - Len(h)]] /\ f[j - Len(h)] \in DOMAIN a
      <4>1. i - Len(h) # j - Len(h)
        BY <1>6, <1>7, <3>1
      <4>2. f[i - Len(h)] # f[j - Len(h)]
        BY <1>5, <3>3, <4>1
      <4> QED
        BY <1>15, <2>2, <3>1, <3>3, <4>2
    <3>4. CASE /\ i - Len(h) \in DOMAIN a /\ g[i] = a[f[i - Len(h)]] /\ f[i - Len(h)] \in DOMAIN a
               /\ j \in DOMAIN h /\ g[j] = h[j]
      BY <1>16, <2>2, <3>1, <3>4
    <3>5. CASE /\ j - Len(h) \in DOMAIN a /\ g[j] = a[f[j - Len(h)]] /\ f[j - Len(h)] \in DOMAIN a
               /\ i \in DOMAIN h /\ g[i] = h[i]
      BY <1>17, <2>2, <3>1, <3>5
    <3> QED
      BY <1>9, <3>1, <3>2, <3>3, <3>4, <3>5
  <2> QED
    BY <2>1, <2>2
<1>19. AcceptedOnce'
  <2>1. ASSUME rx[n] # None, NEW i \in DOMAIN g, g[i].body = rx[n].body
        PROVE  Overlooked(n, g[i])
    BY <1>3, <1>9, <2>1 DEF IInv, AcceptedOnce
  <2>2. actions'[n] = <<>> /\ handled'[n] = g /\ rx' = rx /\ overlooked' = overlooked
    BY <1>2, <1>8
  <2>3. \A x \in Nodes : x # n => actions'[x] = actions[x] /\ handled'[x] = handled[x]
    BY <1>8
  <2>4. DOMAIN actions'[n] = {}
    BY <2>2
  <2> QED
    BY <2>1, <2>2, <2>3, <2>4 DEF IInv, AcceptedOnce, Overlooked
<1>20. UnsentOK' /\ QueueOK' /\ QueueDistinct' /\ SentOK' /\ OutOK' /\ NetOK'
  BY <1>2 DEF IInv, UnsentOK, QueueOK, QueuedOK, QueueDistinct, SentOK, StoredOK,
              PacketOK, OutOK, NetOK
<1> QED
  BY <1>10, <1>11, <1>12, <1>13, <1>18, <1>19, <1>20 DEF IInv

\* What the receive handler queues again after a walk w of the missing packets.
AgainSeq(s, d, w) == [i \in DOMAIN w |-> [LookUp(s, d, w[i]) EXCEPT !.resend = TRUE]]

\* The packets the receive handler queues again are stored packets.
LEMMA AgainProperties ==
    ASSUME IInv, NEW n \in Nodes, NEW m \in Nodes, NEW d,
           NEW w \in InOrder(Unacknowledged(packetsSent[n][m], d)),
           NEW v, v = AgainSeq(packetsSent[n][m], d, w)
    PROVE  /\ v \in Seq(Packet)
           /\ \A i \in DOMAIN v : QueuedOK(n, v[i]) /\ v[i].resend
<1>1. PICK s : s = packetsSent[n][m]
  OBVIOUS
<1>2. s \in Seq(Packet) /\ \A j \in DOMAIN s : s[j] \in Packet /\ StoredOK(n, m, s[j])
  BY <1>1 DEF IInv, TypeOK, SentOK
<1>3. PICK l \in Nat : w \in [1 .. l -> Unacknowledged(s, d)]
  BY <1>1, <1>2, InOrderProperties
<1>4. ASSUME NEW i \in 1 .. l
      PROVE  v[i] \in Packet /\ QueuedOK(n, v[i]) /\ v[i].resend
  <2>1. PICK e : e = LookUp(s, d, w[i])
    OBVIOUS
  <2>2. w[i] \in Unacknowledged(s, d)
    BY <1>3
  <2>3. PICK j \in DOMAIN s : e = s[j]
    BY <1>2, <2>1, <2>2, LookUpProperties
  <2>4. e \in Packet /\ StoredOK(n, m, e)
    BY <1>2, <2>3
  <2>5. v[i] = [e EXCEPT !.resend = TRUE]
    BY <1>1, <1>3, <2>1 DEF AgainSeq
  <2>6. /\ v[i] \in Packet /\ v[i].body = e.body /\ v[i].dst = e.dst /\ v[i].id = e.id
        /\ v[i].resend
    BY <2>4, <2>5 DEF Packet
  <2> QED
    BY <2>4, <2>6 DEF StoredOK, PacketOK, QueuedOK
<1>5. DOMAIN v = 1 .. l
  BY <1>1, <1>3 DEF AgainSeq
<1>6. v = [i \in 1 .. l |-> v[i]]
  BY <1>1, <1>3 DEF AgainSeq
<1>7. v \in [1 .. l -> Packet]
  BY <1>4, <1>6
<1>8. v \in Seq(Packet)
  BY <1>7, SeqDef
<1>9. \A i \in DOMAIN v : QueuedOK(n, v[i]) /\ v[i].resend
  BY <1>4, <1>5, Zenon
<1> QED
  BY <1>8, <1>9, Zenon

\* Stored packets are queued again and the body goes to the input loop.
LEMMA ReceiveBodyKeepsIInv ==
    ASSUME IInv, NEW n \in Nodes, ReceiveBody(n)
    PROVE  IInv'
<1>1. PICK d, m : d = rx[n] /\ m = d.src
  OBVIOUS
<1>2. PICK w \in InOrder(Unacknowledged(packetsSent[n][m], d)) :
          outputQueue' = [outputQueue EXCEPT ![n] =
              @ \o AgainSeq(packetsSent[n][m], d, w)]
  BY <1>1 DEF ReceiveBody, AgainSeq
<1>3. PICK v : v = AgainSeq(packetsSent[n][m], d, w)
  OBVIOUS
<1>4. PICK new : new = [src |-> m, id |-> d.id, body |-> d.body]
  OBVIOUS
<1>5. /\ d # None
      /\ packetsSent' = [packetsSent EXCEPT ![n][m] =
             [i \in DOMAIN @ |->
                 IF \E k \in Unacknowledged(packetsSent[n][m], d) : @[i] = LookUp(@, d, k)
                 THEN [@[i] EXCEPT !.resend = TRUE]
                 ELSE @[i]]]
      /\ actions' = [actions EXCEPT ![n] = Append(@, new)]
      /\ rx' = [rx EXCEPT ![n] = None]
      /\ UNCHANGED <<unsent, out, nextId, receivedIds, appended, net, handled, wireId,
                     overlooked, races>>
  BY <1>1, <1>4 DEF ReceiveBody
<1>6. d \in Datagram /\ m \in Nodes /\ d.id \in Ids /\ d.body \in Payloads
  BY <1>1, <1>5 DEF IInv, TypeOK, Datagram
<1>7. v \in Seq(Packet) /\ \A i \in DOMAIN v : QueuedOK(n, v[i]) /\ v[i].resend
  BY <1>3, <1>6, AgainProperties
<1>8. PICK q, g : q = outputQueue[n] /\ g = q \o v
  OBVIOUS
<1>9. /\ q \in Seq(Packet) /\ g \in Seq(Packet)
      /\ DOMAIN q = 1 .. Len(q) /\ DOMAIN v = 1 .. Len(v) /\ DOMAIN g = 1 .. Len(q) + Len(v)
      /\ Len(q) \in Nat /\ Len(v) \in Nat
      /\ \A i \in 1 .. Len(q) + Len(v) : g[i] = IF i <= Len(q) THEN q[i] ELSE v[i - Len(q)]
  <2>1. q \in Seq(Packet)
    BY <1>8 DEF IInv, TypeOK
  <2> QED
    BY <1>7, <1>8, <2>1, ConcatProperties, LenProperties
<1>10. outputQueue'[n] = g /\ \A x \in Nodes : x # n => outputQueue'[x] = outputQueue[x]
  BY <1>2, <1>3, <1>8 DEF IInv, TypeOK
<1>11. ASSUME NEW i \in DOMAIN g
       PROVE  \/ i \in DOMAIN q /\ g[i] = q[i]
              \/ i - Len(q) \in DOMAIN v /\ g[i] = v[i - Len(q)]
  BY <1>9
<1>12. PICK s, t : /\ s = packetsSent[n][m]
                   /\ t = [i \in DOMAIN s |->
                             IF \E k \in Unacknowledged(s, d) : s[i] = LookUp(s, d, k)
                             THEN [s[i] EXCEPT !.resend = TRUE]
                             ELSE s[i]]
  OBVIOUS
<1>13. s \in Seq(Packet) /\ \A i \in DOMAIN s : s[i] \in Packet /\ StoredOK(n, m, s[i])
  BY <1>6, <1>12 DEF IInv, TypeOK, SentOK
<1>14. /\ t \in Seq(Packet) /\ DOMAIN t = DOMAIN s
       /\ \A i \in DOMAIN t : StoredOK(n, m, t[i])
  <2>1. DOMAIN t = DOMAIN s
    BY <1>12
  <2>2. ASSUME NEW i \in DOMAIN s PROVE t[i] \in Packet /\ StoredOK(n, m, t[i])
    <3>1. t[i] = s[i] \/ t[i] = [s[i] EXCEPT !.resend = TRUE]
      BY <1>12
    <3>2. PICK e : e = s[i]
      OBVIOUS
    <3>3. e \in Packet /\ StoredOK(n, m, e)
      BY <1>13, <3>2
    <3>4. CASE t[i] = e
      BY <3>3, <3>4
    <3>5. CASE t[i] = [e EXCEPT !.resend = TRUE]
      <4>1. /\ t[i] \in Packet /\ t[i].body = e.body /\ t[i].dst = e.dst
            /\ t[i].id = e.id
        BY <3>3, <3>5 DEF Packet
      <4> QED
        BY <3>3, <4>1 DEF StoredOK, PacketOK
    <3> QED
      BY <3>1, <3>2, <3>4, <3>5
  <2>3. DOMAIN s = 1 .. Len(s) /\ Len(s) \in Nat
    BY <1>13
  <2>4. t = [i \in 1 .. Len(s) |-> t[i]]
    BY <1>12, <2>3
  <2>5. t \in [1 .. Len(s) -> Packet]
    BY <2>2, <2>3, <2>4
  <2> QED
    BY <2>1, <2>2, <2>3, <2>5, SeqDef
<1>15. packetsSent' = [packetsSent EXCEPT ![n] = [packetsSent[n] EXCEPT ![m] = t]]
  BY <1>5, <1>12
<1>16. /\ packetsSent'[n][m] = t
       /\ \A x, y \in Nodes : x # n \/ y # m => packetsSent'[x][y] = packetsSent[x][y]
       /\ packetsSent' \in [Nodes -> [Nodes -> Seq(Packet)]]
  <2>1. packetsSent \in [Nodes -> [Nodes -> Seq(Packet)]]
    BY DEF IInv, TypeOK
  <2>2. [packetsSent[n] EXCEPT ![m] = t] \in [Nodes -> Seq(Packet)]
    BY <1>6, <1>14, <2>1
  <2> QED
    BY <1>6, <1>15, <2>1, <2>2
<1>17. PICK a, b : a = actions[n] /\ b = Append(a, new)
  OBVIOUS
<1>18. /\ new \in Action /\ new.src = m /\ new.id = d.id /\ new.body = d.body
       /\ a \in Seq(Action) /\ b \in Seq(Action)
       /\ DOMAIN a = 1 .. Len(a) /\ Len(a) \in Nat /\ DOMAIN b = 1 .. Len(a) + 1
       /\ \A i \in 1 .. Len(a) : b[i] = a[i]
       /\ b[Len(a) + 1] = new
  <2>1. a \in Seq(Action)
    BY <1>17 DEF IInv, TypeOK
  <2>2. new \in Action /\ new.src = m /\ new.id = d.id /\ new.body = d.body
    BY <1>4, <1>6 DEF Action
  <2> QED
    BY <1>17, <2>1, <2>2, AppendProperties, LenProperties
<1>19. /\ actions'[n] = b /\ \A x \in Nodes : x # n => actions'[x] = actions[x]
       /\ rx'[n] = None /\ \A x \in Nodes : x # n => rx'[x] = rx[x]
  BY <1>5, <1>17 DEF IInv, TypeOK
<1>20. TypeOK'
  <2>1. outputQueue' \in [Nodes -> Seq(Packet)]
    BY <1>2, <1>3, <1>8, <1>9 DEF IInv, TypeOK
  <2>2. actions' \in [Nodes -> Seq(Action)]
    BY <1>5, <1>17, <1>18 DEF IInv, TypeOK
  <2>3. rx' \in [Nodes -> Datagram \cup {None}]
    BY <1>5 DEF IInv, TypeOK
  <2> QED
    BY <1>5, <1>16, <2>1, <2>2, <2>3 DEF IInv, TypeOK
<1>21. QueueOK'
  <2> SUFFICES ASSUME NEW x \in Nodes, NEW i \in DOMAIN outputQueue'[x]
               PROVE  QueuedOK(x, outputQueue[x][i])'
    BY DEF QueueOK
  <2>1. PICK e : e = outputQueue'[x][i]
    OBVIOUS
  <2>2. QueuedOK(x, e)
    <3>1. CASE x # n
      BY <1>10, <2>1, <3>1 DEF IInv, QueueOK
    <3>2. CASE x = n
      <4>1. i \in DOMAIN g /\ e = g[i]
        BY <1>10, <2>1, <3>2
      <4>2. (\E j \in DOMAIN q : e = q[j]) \/ (\E j \in DOMAIN v : e = v[j])
        BY <1>11, <4>1
      <4> QED
        BY <1>7, <1>8, <3>2, <4>2 DEF IInv, QueueOK
    <3> QED
      BY <3>1, <3>2
  <2> QED
    BY <1>5, <2>1, <2>2 DEF QueuedOK, PacketOK
<1>22. QueueDistinct'
  <2> SUFFICES ASSUME NEW x \in Nodes,
                      NEW i \in DOMAIN outputQueue'[x], NEW j \in DOMAIN outputQueue'[x],
                      ~outputQueue'[x][i].resend, ~outputQueue'[x][j].resend,
                      outputQueue'[x][i].body = outputQueue'[x][j].body
               PROVE  i = j
    BY DEF QueueDistinct
  <2>1. CASE x # n
    BY <1>10, <2>1 DEF IInv, QueueDistinct
  <2>2. CASE x = n
    <3>1. i \in DOMAIN g /\ j \in DOMAIN g /\ ~g[i].resend /\ ~g[j].resend
          /\ g[i].body = g[j].body
      BY <1>10, <2>2
    <3>2. i \in DOMAIN q /\ g[i] = q[i] /\ j \in DOMAIN q /\ g[j] = q[j]
      BY <1>7, <1>11, <3>1
    <3> QED
      BY <1>8, <3>1, <3>2 DEF IInv, QueueDistinct
  <2> QED
    BY <2>1, <2>2
<1>23. SentOK'
  <2> SUFFICES ASSUME NEW x \in Nodes, NEW y \in Nodes
               PROVE  /\ \A i \in DOMAIN packetsSent'[x][y] : StoredOK(x, y, packetsSent[x][y][i])'
                      /\ packetsSent'[x][y] = <<>> => nextId'[x][y] = 0
    BY DEF SentOK
  <2>1. ASSUME NEW i \in DOMAIN packetsSent'[x][y]
        PROVE  StoredOK(x, y, packetsSent[x][y][i])'
    <3>1. PICK e : e = packetsSent'[x][y][i]
      OBVIOUS
    <3>2. StoredOK(x, y, e)
      <4>1. CASE x = n /\ y = m
        BY <1>14, <1>16, <3>1, <4>1
      <4>2. CASE x # n \/ y # m
        BY <1>16, <3>1, <4>2 DEF IInv, SentOK
      <4> QED
        BY <4>1, <4>2
    <3> QED
      BY <1>5, <3>1, <3>2 DEF StoredOK, PacketOK
  <2>2. ASSUME packetsSent'[x][y] = <<>> PROVE packetsSent[x][y] = <<>>
    <3>1. CASE x = n /\ y = m
      <4>1. DOMAIN s = {}
        BY <1>14, <1>16, <2>2, <3>1
      <4>2. Len(s) = 0
        BY <1>13, <4>1
      <4>3. s = <<>>
        BY <1>13, <4>2, EmptySeq
      <4> QED
        BY <1>12, <3>1, <4>3
    <3>2. CASE x # n \/ y # m
      BY <1>16, <2>2, <3>2
    <3> QED
      BY <3>1, <3>2
  <2> QED
    BY <1>5, <2>1, <2>2 DEF IInv, SentOK
<1>24. OutOK'
  <2>1. ASSUME NEW x \in Nodes, outputQueue[x] # <<>> PROVE outputQueue'[x] # <<>>
    <3>1. CASE x # n
      BY <1>10, <2>1, <3>1
    <3>2. CASE x = n
      <4>1. 1 \in DOMAIN g
        BY <1>8, <1>9, <2>1, <3>2
      <4> QED
        BY <1>10, <3>2, <4>1
    <3> QED
      BY <3>1, <3>2
  <2> QED
    BY <1>5, <2>1 DEF IInv, OutOK
<1>25. AcceptedOK(n, m, d.id, d.body)
  BY <1>1, <1>5 DEF IInv, RxOK
<1>26. ActionsOK'
  <2> SUFFICES ASSUME NEW x \in Nodes, NEW i \in DOMAIN actions'[x]
               PROVE  AcceptedOK(x, actions[x][i].src, actions[x][i].id, actions[x][i].body)'
    BY DEF ActionsOK
  <2>1. PICK e : e = actions'[x][i]
    OBVIOUS
  <2>2. AcceptedOK(x, e.src, e.id, e.body)
    <3>1. CASE x # n
      BY <1>19, <2>1, <3>1 DEF IInv, ActionsOK
    <3>2. CASE x = n
      <4>1. i \in DOMAIN b /\ e = b[i]
        BY <1>19, <2>1, <3>2
      <4>2. e = new \/ \E j \in DOMAIN a : e = a[j]
        BY <1>18, <4>1
      <4> QED
        BY <1>17, <1>18, <1>25, <3>2, <4>2 DEF IInv, ActionsOK
    <3> QED
      BY <3>1, <3>2
  <2> QED
    BY <1>5, <2>1, <2>2 DEF AcceptedOK, CameIn
<1>27. HandledOK' /\ RxOK'
  BY <1>5, <1>19 DEF IInv, HandledOK, RxOK, AcceptedOK, CameIn
<1>28. HandledOnceUnlessOverlooked'
  BY <1>5 DEF IInv, HandledOnceUnlessOverlooked, Overlooked
<1>29. /\ \A i \in DOMAIN a : a[i].body = d.body => Overlooked(n, a[i])
       /\ \A i \in DOMAIN handled[n] :
              handled[n][i].body = d.body => Overlooked(n, handled[n][i])
       /\ \A i, j \in DOMAIN a : a[i].body = a[j].body => i = j \/ Overlooked(n, a[i])
       /\ \A i \in DOMAIN a : \A j \in DOMAIN handled[n] :
              a[i].body = handled[n][j].body => Overlooked(n, a[i])
  BY <1>1, <1>5, <1>17 DEF IInv, AcceptedOnce
<1>30. ASSUME NEW e, AcceptedOK(n, e.src, e.id, e.body), e.body = d.body, Overlooked(n, e)
       PROVE  Overlooked(n, new)
  <2>1. e.src = m /\ e.id = d.id
    BY <1>25, <1>30 DEF AcceptedOK
  <2>2. new.src = m /\ new.id = d.id
    BY <1>4
  <2> QED
    BY <1>30, <2>1, <2>2 DEF Overlooked
<1>31. AcceptedOnce'
  <2>1. ASSUME NEW i \in DOMAIN b
        PROVE  \/ i \in DOMAIN a /\ b[i] = a[i]
               \/ i = Len(a) + 1 /\ b[i] = new /\ b[i].body = d.body
    BY <1>4, <1>18
  <2>2. \A i \in DOMAIN a : AcceptedOK(n, a[i].src, a[i].id, a[i].body)
    BY <1>17 DEF IInv, ActionsOK
  <2>3. \A i \in DOMAIN handled[n] :
            AcceptedOK(n, handled[n][i].src, handled[n][i].id, handled[n][i].body)
    BY DEF IInv, HandledOK
  <2>4. \A i, j \in DOMAIN b : b[i].body = b[j].body => i = j \/ Overlooked(n, b[i])
    <3> SUFFICES ASSUME NEW i \in DOMAIN b, NEW j \in DOMAIN b, b[i].body = b[j].body, i # j
                 PROVE  Overlooked(n, b[i])
      OBVIOUS
    <3>1. CASE i \in DOMAIN a /\ b[i] = a[i] /\ j \in DOMAIN a /\ b[j] = a[j]
      BY <1>29, <3>1
    <3>2. CASE i \in DOMAIN a /\ b[i] = a[i] /\ b[j].body = d.body
      BY <1>29, <3>2
    <3>3. CASE b[i] = new /\ b[i].body = d.body /\ j \in DOMAIN a /\ b[j] = a[j]
      BY <1>29, <1>30, <2>2, <3>3
    <3> QED
      BY <2>1, <3>1, <3>2, <3>3
  <2>5. \A i \in DOMAIN b : \A j \in DOMAIN handled[n] :
            b[i].body = handled[n][j].body => Overlooked(n, b[i])
    BY <1>29, <1>30, <2>1, <2>3
  <2>6. /\ actions'[n] = b /\ rx'[n] = None
        /\ handled' = handled /\ overlooked' = overlooked
        /\ \A x \in Nodes : x # n => actions'[x] = actions[x] /\ rx'[x] = rx[x]
    BY <1>5, <1>19
  <2> QED
    BY <2>4, <2>5, <2>6 DEF IInv, AcceptedOnce, Overlooked
<1>32. UnsentOK' /\ NetOK'
  BY <1>5 DEF IInv, UnsentOK, NetOK
<1> QED
  BY <1>20, <1>21, <1>22, <1>23, <1>24, <1>26, <1>27, <1>28, <1>31, <1>32 DEF IInv

\* Nothing changes.
LEMMA StutterKeepsIInv ==
    ASSUME IInv, UNCHANGED vars
    PROVE  IInv'
<1>1. TypeOK'
  BY DEF IInv, TypeOK, vars
<1>2. (UnsentOK /\ QueueOK /\ QueueDistinct /\ SentOK /\ OutOK /\ NetOK)'
  BY DEF IInv, vars, UnsentOK, QueueOK, QueuedOK, QueueDistinct, SentOK, StoredOK,
         PacketOK, OutOK, NetOK
<1>3. (RxOK /\ ActionsOK /\ HandledOK /\ AcceptedOnce /\ HandledOnceUnlessOverlooked)'
  BY DEF IInv, vars, RxOK, ActionsOK, HandledOK, AcceptedOK, AcceptedOnce, CameIn,
         HandledOnceUnlessOverlooked, Overlooked
<1> QED
  BY <1>1, <1>2, <1>3 DEF IInv

\* Every step keeps the invariant.
LEMMA NextKeepsIInv == IInv /\ [Next]_vars => IInv'
<1> SUFFICES ASSUME IInv, [Next]_vars PROVE IInv'
  OBVIOUS
<1>1. ASSUME NEW p \in Payloads, AddPacketToSend(p) PROVE IInv'
  BY <1>1, AddPacketToSendKeepsIInv
<1>2. ASSUME NEW n \in Nodes, OutputTick(n) PROVE IInv'
  BY <1>2, OutputTickKeepsIInv
<1>3. ASSUME NEW n \in Nodes, SendFresh(n) PROVE IInv'
  BY <1>3, SendFreshKeepsIInv
<1>4. ASSUME NEW n \in Nodes, SendHeader(n) PROVE IInv'
  BY <1>4, SendHeaderKeepsIInv
<1>5. ASSUME NEW n \in Nodes, SendAgain(n) PROVE IInv'
  BY <1>5, SendAgainKeepsIInv
<1>6. ASSUME NEW n \in Nodes, ReceiveHeader(n) PROVE IInv'
  BY <1>6, ReceiveHeaderKeepsIInv
<1>7. ASSUME NEW n \in Nodes, ReceiveBody(n) PROVE IInv'
  BY <1>7, ReceiveBodyKeepsIInv
<1>8. ASSUME NEW n \in Nodes, InputTick(n) PROVE IInv'
  BY <1>8, InputTickKeepsIInv
<1>9. ASSUME NEW n \in Nodes, GetIdsReceived(n) PROVE IInv'
  BY <1>9, GetIdsReceivedKeepsIInv
<1>10. CASE UNCHANGED vars
  BY <1>10, StutterKeepsIInv
<1> QED
  BY <1>1, <1>2, <1>3, <1>4, <1>5, <1>6, <1>7, <1>8, <1>9, <1>10 DEF Next, OutputThread

-----------------------------------------------------------------------------
(* While no id has wrapped *)

\* No process has used up the ids for another one: the last of them is not
\* even the next.
NoWrapYet == \A n, m \in Nodes : nextId[n][m] < IdMod - 1

\* A process has the body of a packet, which is what Arrived says of a datagram.
Has(n, p) ==
    \/ rx[n] # None /\ rx[n].body = p
    \/ \E i \in DOMAIN actions[n] : actions[n][i].body = p
    \/ \E i \in DOMAIN handled[n] : handled[n][i].body = p

\* The id that a packet took is below the next one, and no other packet from
\* the same sender to the same receiver took it.
IdsBelow ==
    \A p \in Payloads : wireId[p] # None => wireId[p] < nextId[From[p]][To[p]]

IdsDistinct ==
    \A p, q \in Payloads :
        From[p] = From[q] /\ To[p] = To[q] /\ wireId[p] # None /\ wireId[p] = wireId[q]
            => p = q

\* An id that is remembered is that of a packet whose body has come.
TookId(m, n, p, id) == From[p] = m /\ To[p] = n /\ wireId[p] = id

Remembered ==
    \A n, m \in Nodes : \A id \in receivedIds[n][m] :
        \E p \in Payloads : TookId(m, n, p, id) /\ Has(n, p)

NoWrapInv == IInv /\ IdsBelow /\ IdsDistinct /\ Remembered

LEMMA InitNoWrap == Init => NoWrapInv
<1> SUFFICES ASSUME Init PROVE NoWrapInv
  OBVIOUS
<1>1. \A p \in Payloads : wireId[p] = None
  BY DEF Init
<1>2. \A n, m \in Nodes : receivedIds[n][m] = {}
  BY DEF Init
<1> QED
  BY <1>1, <1>2, InitIInv DEF NoWrapInv, IdsBelow, IdsDistinct, Remembered

\* The id after one that is not the last.
LEMMA NextIdGrows ==
    ASSUME TypeOK, NoWrapYet, NEW n \in Nodes, NEW m \in Nodes,
           nextId' = [nextId EXCEPT ![n][m] = (@ + 1) % IdMod]
    PROVE  /\ nextId'[n][m] = nextId[n][m] + 1
           /\ \A x, y \in Nodes : /\ nextId[x][y] \in Nat /\ nextId'[x][y] \in Nat
                                  /\ nextId[x][y] <= nextId'[x][y]
<1>1. \A x, y \in Nodes : nextId[x][y] \in Nat
  BY NitworkAssumption DEF TypeOK, Ids, NitworkAssumption
<1>2. nextId[n][m] < IdMod - 1 /\ IdMod \in Nat
  BY NitworkAssumption DEF NoWrapYet, NitworkAssumption
<1>3. (nextId[n][m] + 1) % IdMod = nextId[n][m] + 1
  <2>1. nextId[n][m] + 1 \in 0 .. IdMod - 1
    BY <1>1, <1>2
  <2>2. \A k \in 0 .. IdMod - 1 : k % IdMod = k
    BY <1>2
  <2> QED
    BY <2>1, <2>2
<1>4. nextId'[n][m] = (nextId[n][m] + 1) % IdMod
  BY DEF TypeOK
<1>5. \A x, y \in Nodes : (x # n \/ y # m) => nextId'[x][y] = nextId[x][y]
  BY DEF TypeOK
<1>6. \A x, y \in Nodes : nextId'[x][y] \in Nat /\ nextId[x][y] <= nextId'[x][y]
  <2> TAKE x, y \in Nodes
  <2>1. /\ nextId[x][y] \in Nat /\ nextId[x][y] <= nextId[x][y]
        /\ nextId[n][m] + 1 \in Nat /\ nextId[n][m] <= nextId[n][m] + 1
    BY <1>1
  <2> QED
    BY <1>3, <1>4, <1>5, <2>1
<1> QED
  BY <1>1, <1>3, <1>4, <1>6

\* Ids that were taken stay below the next ones, which only grow.
LEMMA IdsStayBelow ==
    ASSUME TypeOK, IdsBelow, IdsDistinct, UNCHANGED wireId,
           \A x, y \in Nodes : /\ nextId[x][y] \in Nat /\ nextId'[x][y] \in Nat
                               /\ nextId[x][y] <= nextId'[x][y]
    PROVE  IdsBelow' /\ IdsDistinct'
<1>1. ASSUME NEW p \in Payloads, wireId[p] # None
      PROVE  wireId[p] < nextId'[From[p]][To[p]]
  <2>1. wireId[p] \in Nat
    BY <1>1, NitworkAssumption DEF TypeOK, Ids, NitworkAssumption
  <2>2. From[p] \in Nodes /\ To[p] \in Nodes
    BY ConstantFacts
  <2>3. /\ nextId[From[p]][To[p]] \in Nat /\ nextId'[From[p]][To[p]] \in Nat
        /\ nextId[From[p]][To[p]] <= nextId'[From[p]][To[p]]
        /\ wireId[p] < nextId[From[p]][To[p]]
    BY <1>1, <2>2 DEF IdsBelow
  <2> QED
    BY <2>1, <2>3
<1> QED
  BY <1>1 DEF IdsBelow, IdsDistinct

\* What has come stays somewhere.
LEMMA StaysRemembered ==
    ASSUME TypeOK, Remembered, UNCHANGED receivedIds,
           \A p \in Payloads : wireId[p] # None => wireId'[p] = wireId[p],
           \A n \in Nodes : \A p \in Payloads : Has(n, p) => Has(n, p)'
    PROVE  Remembered'
<1> SUFFICES ASSUME NEW n \in Nodes, NEW m \in Nodes, NEW id \in receivedIds[n][m]
             PROVE  \E p \in Payloads : TookId(m, n, p, id)' /\ Has(n, p)'
  BY DEF Remembered
<1>1. id # None
  BY ConstantFacts DEF TypeOK
<1>2. PICK p \in Payloads : TookId(m, n, p, id) /\ Has(n, p)
  BY DEF Remembered
<1>3. TookId(m, n, p, id)' /\ Has(n, p)'
  BY <1>1, <1>2 DEF TookId
<1> QED
  BY <1>3

\* A step that takes no id and brings nothing.
LEMMA QuietKeepsNoWrap ==
    ASSUME NoWrapInv, UNCHANGED <<nextId, wireId, receivedIds, rx, actions, handled>>
    PROVE  IdsBelow' /\ IdsDistinct' /\ Remembered'
<1>1. \A n \in Nodes : \A p \in Payloads : Has(n, p) => Has(n, p)'
  BY DEF Has
<1> QED
  BY <1>1, StaysRemembered DEF NoWrapInv, IInv, IdsBelow, IdsDistinct

\* A fresh packet takes the next id, which nobody has.
LEMMA SendFreshKeepsNoWrap ==
    ASSUME NoWrapInv, NoWrapYet, NEW n \in Nodes, SendFresh(n)
    PROVE  IdsBelow' /\ IdsDistinct' /\ Remembered'
<1>1. PICK pk : pk = Head(outputQueue[n])
  OBVIOUS
<1>2. PICK m : m = pk.dst
  OBVIOUS
<1>3. /\ out[n] = Between /\ ~pk.resend
      /\ nextId' = [nextId EXCEPT ![n][m] = (@ + 1) % IdMod]
      /\ wireId' = [wireId EXCEPT ![pk.body] = nextId[n][m]]
      /\ UNCHANGED <<receivedIds, rx, actions, handled>>
  BY <1>1, <1>2 DEF SendFresh
<1>4. /\ m \in Nodes /\ pk.body \in Payloads
      /\ From[pk.body] = n /\ To[pk.body] = m /\ wireId[pk.body] = None
  BY <1>1, <1>2, <1>3, HeadOfQueue DEF NoWrapInv, QueuedOK, PacketOK, Packet
<1>5. PICK b : b = pk.body
  OBVIOUS
<1>6. /\ wireId'[b] = nextId[n][m]
      /\ \A p \in Payloads : p # b => wireId'[p] = wireId[p]
  BY <1>3, <1>4, <1>5 DEF NoWrapInv, IInv, TypeOK
<1>7. /\ nextId'[n][m] = nextId[n][m] + 1
      /\ \A x, y \in Nodes : /\ nextId[x][y] \in Nat /\ nextId'[x][y] \in Nat
                             /\ nextId[x][y] <= nextId'[x][y]
  BY <1>3, <1>4, NextIdGrows DEF NoWrapInv, IInv
<1>8. \A p \in Payloads : wireId[p] # None => /\ wireId[p] \in Nat
                                              /\ wireId[p] < nextId[From[p]][To[p]]
  BY NitworkAssumption DEF NoWrapInv, IInv, TypeOK, IdsBelow, Ids, NitworkAssumption
<1>9. IdsBelow'
  <2> SUFFICES ASSUME NEW p \in Payloads, wireId'[p] # None
               PROVE  wireId'[p] < nextId'[From[p]][To[p]]
    BY DEF IdsBelow
  <2>1. CASE p = b
    BY <1>4, <1>5, <1>6, <1>7, <2>1
  <2>2. CASE p # b
    <3>1. wireId'[p] = wireId[p] /\ wireId[p] < nextId[From[p]][To[p]] /\ wireId[p] \in Nat
      BY <1>6, <1>8, <2>2
    <3>2. /\ nextId[From[p]][To[p]] \in Nat /\ nextId'[From[p]][To[p]] \in Nat
          /\ nextId[From[p]][To[p]] <= nextId'[From[p]][To[p]]
      BY <1>7, ConstantFacts
    <3> QED
      BY <3>1, <3>2
  <2> QED
    BY <2>1, <2>2
<1>10. IdsDistinct'
  <2> SUFFICES ASSUME NEW p \in Payloads, NEW q \in Payloads,
                      From[p] = From[q], To[p] = To[q],
                      wireId'[p] # None, wireId'[p] = wireId'[q]
               PROVE  p = q
    BY DEF IdsDistinct
  <2>1. \A r \in Payloads : /\ r # b /\ From[r] = n /\ To[r] = m
                            => wireId'[r] # wireId'[b] \/ wireId'[r] = None
    <3> SUFFICES ASSUME NEW r \in Payloads, r # b, From[r] = n, To[r] = m, wireId'[r] # None
                 PROVE  wireId'[r] # wireId'[b]
      OBVIOUS
    <3>1. wireId'[r] = wireId[r] /\ wireId[r] \in Nat /\ wireId[r] < nextId[n][m]
      BY <1>6, <1>8
    <3> QED
      BY <1>4, <1>6, <1>7, <3>1
  <2>2. CASE p # b /\ q # b
    BY <1>6, <2>2 DEF NoWrapInv, IdsDistinct
  <2>3. CASE p = b \/ q = b
    BY <1>4, <1>5, <2>1, <2>3
  <2> QED
    BY <2>2, <2>3
<1>11. Remembered'
  <2>1. \A p \in Payloads : wireId[p] # None => wireId'[p] = wireId[p]
    BY <1>4, <1>5, <1>6
  <2>2. \A x \in Nodes : \A p \in Payloads : Has(x, p) => Has(x, p)'
    BY <1>3 DEF Has
  <2> QED
    BY <1>3, <2>1, <2>2, StaysRemembered DEF NoWrapInv, IInv
<1> QED
  BY <1>9, <1>10, <1>11

\* A packet that is sent again uses an id up.
LEMMA SendAgainKeepsNoWrap ==
    ASSUME NoWrapInv, NoWrapYet, NEW n \in Nodes, SendAgain(n)
    PROVE  IdsBelow' /\ IdsDistinct' /\ Remembered'
<1>1. PICK pk, m : pk = Head(outputQueue[n]) /\ m = pk.dst
  OBVIOUS
<1>2. /\ out[n] = Between
      /\ nextId' = [nextId EXCEPT ![n][m] = (@ + 1) % IdMod]
      /\ UNCHANGED <<wireId, receivedIds, rx, actions, handled>>
  BY <1>1 DEF SendAgain
<1>3. m \in Nodes
  BY <1>1, <1>2, HeadOfQueue DEF NoWrapInv, Packet
<1>4. IdsBelow' /\ IdsDistinct'
  BY <1>2, <1>3, NextIdGrows, IdsStayBelow DEF NoWrapInv, IInv
<1>5. \A x \in Nodes : \A p \in Payloads : Has(x, p) => Has(x, p)'
  BY <1>2 DEF Has
<1> QED
  BY <1>2, <1>4, <1>5, StaysRemembered DEF NoWrapInv, IInv

\* An id is remembered together with the body that comes under it.
LEMMA ReceiveHeaderKeepsNoWrap ==
    ASSUME NoWrapInv, NEW n \in Nodes, ReceiveHeader(n)
    PROVE  IdsBelow' /\ IdsDistinct' /\ Remembered'
<1>1. PICK d \in net :
          /\ d.dst = n /\ d.valid
          /\ \E lost : receivedIds' = [receivedIds EXCEPT ![n][d.src] = (@ \ lost) \cup {d.id}]
          /\ rx' = [rx EXCEPT ![n] = d]
  BY DEF ReceiveHeader
<1>2. rx[n] = None /\ UNCHANGED <<nextId, wireId, actions, handled>>
  BY DEF ReceiveHeader
<1>3. IdsBelow' /\ IdsDistinct'
  BY <1>2 DEF NoWrapInv, IdsBelow, IdsDistinct
<1>4. PICK src, b, i : src = d.src /\ b = d.body /\ i = d.id
  OBVIOUS
<1>5. src \in Nodes /\ b \in Payloads /\ d # None
  <2>1. d \in Datagram
    BY DEF NoWrapInv, IInv, TypeOK
  <2>2. d.src \in Nodes /\ d.body \in Payloads
    BY <2>1 DEF Datagram
  <2> QED
    BY <1>4, <2>1, <2>2, NoneAssumption
<1>6. From[b] = src /\ To[b] = n /\ wireId[b] = i
  BY <1>1, <1>4 DEF NoWrapInv, IInv, NetOK
<1>7. rx'[n] = d /\ \A x \in Nodes : x # n => rx'[x] = rx[x]
  BY <1>1 DEF NoWrapInv, IInv, TypeOK
<1>8. Has(n, b)'
  BY <1>4, <1>5, <1>7 DEF Has
<1>9. \A x \in Nodes : \A p \in Payloads : Has(x, p) => Has(x, p)'
  BY <1>2, <1>7 DEF Has
<1>10. \A x, y \in Nodes : \A k \in receivedIds'[x][y] :
           k \in receivedIds[x][y] \/ (x = n /\ y = src /\ k = i)
  <2>1. PICK lost : receivedIds' = [receivedIds EXCEPT ![n][src] = (@ \ lost) \cup {i}]
    BY <1>1, <1>4
  <2>2. receivedIds \in [Nodes -> [Nodes -> SUBSET Ids]]
    BY DEF NoWrapInv, IInv, TypeOK
  <2>3. /\ receivedIds'[n][src] = (receivedIds[n][src] \ lost) \cup {i}
        /\ \A x, y \in Nodes : x # n \/ y # src => receivedIds'[x][y] = receivedIds[x][y]
    BY <1>5, <2>1, <2>2
  <2> QED
    BY <2>3
<1>11. Remembered'
  <2> SUFFICES ASSUME NEW x \in Nodes, NEW y \in Nodes, NEW k \in receivedIds'[x][y]
               PROVE  \E p \in Payloads : TookId(y, x, p, k)' /\ Has(x, p)'
    BY DEF Remembered
  <2>1. CASE k \in receivedIds[x][y]
    <3>1. PICK p \in Payloads : TookId(y, x, p, k) /\ Has(x, p)
      BY <2>1 DEF NoWrapInv, Remembered
    <3> QED
      BY <1>2, <1>9, <3>1 DEF TookId
  <2>2. CASE x = n /\ y = src /\ k = i
    BY <1>2, <1>5, <1>6, <1>8, <2>2 DEF TookId
  <2> QED
    BY <1>10, <2>1, <2>2
<1> QED
  BY <1>3, <1>11

\* A body goes from the receive handler to the queue of the input loop.
LEMMA ReceiveBodyKeepsNoWrap ==
    ASSUME NoWrapInv, NEW n \in Nodes, ReceiveBody(n)
    PROVE  IdsBelow' /\ IdsDistinct' /\ Remembered'
<1>1. PICK a, b, new : /\ a = actions[n] /\ b = rx[n].body
                       /\ new = [src |-> rx[n].src, id |-> rx[n].id, body |-> b]
  OBVIOUS
<1>2. /\ rx[n] # None
      /\ actions' = [actions EXCEPT ![n] = Append(a, new)]
      /\ rx' = [rx EXCEPT ![n] = None]
      /\ UNCHANGED <<nextId, wireId, receivedIds, handled>>
  BY <1>1 DEF ReceiveBody
<1>3. IdsBelow' /\ IdsDistinct'
  BY <1>2 DEF NoWrapInv, IdsBelow, IdsDistinct
<1>4. a \in Seq(Action) /\ new \in Action /\ new.body = b
  <2>1. rx[n] \in Datagram
    BY <1>2 DEF NoWrapInv, IInv, TypeOK
  <2> QED
    BY <1>1, <2>1 DEF NoWrapInv, IInv, TypeOK, Datagram, Action
<1>5. /\ Append(a, new)[Len(a) + 1] = new /\ Len(a) + 1 \in DOMAIN Append(a, new)
      /\ \A i \in DOMAIN a : i \in DOMAIN Append(a, new) /\ Append(a, new)[i] = a[i]
  <2>1. /\ Append(a, new) \in Seq(Action) /\ Len(Append(a, new)) = Len(a) + 1
        /\ \A i \in 1 .. Len(a) : Append(a, new)[i] = a[i]
        /\ Append(a, new)[Len(a) + 1] = new
    BY <1>4, AppendProperties
  <2>2. Len(a) \in Nat /\ DOMAIN a = 1 .. Len(a) /\ DOMAIN Append(a, new) = 1 .. Len(a) + 1
    BY <1>4, <2>1
  <2> QED
    BY <2>1, <2>2
<1>6. /\ actions'[n] = Append(a, new) /\ \A x \in Nodes : x # n => actions'[x] = actions[x]
      /\ \A x \in Nodes : x # n => rx'[x] = rx[x]
  BY <1>2 DEF NoWrapInv, IInv, TypeOK
<1>7. ASSUME NEW x \in Nodes, NEW p \in Payloads, Has(x, p)
      PROVE  Has(x, p)'
  <2>1. CASE x # n
    BY <1>2, <1>6, <1>7, <2>1 DEF Has
  <2>2. CASE x = n /\ p = b
    <3>1. actions'[n][Len(a) + 1].body = b /\ Len(a) + 1 \in DOMAIN actions'[n]
      BY <1>4, <1>5, <1>6
    <3> QED
      BY <2>2, <3>1 DEF Has
  <2>3. ASSUME x = n, NEW i \in DOMAIN a, a[i].body = p
        PROVE  Has(x, p)'
    <3>1. i \in DOMAIN actions'[n] /\ actions'[n][i].body = p
      BY <1>5, <1>6, <2>3
    <3> QED
      BY <2>3, <3>1 DEF Has
  <2>4. CASE \E i \in DOMAIN handled[x] : handled[x][i].body = p
    BY <1>2, <2>4 DEF Has
  <2> QED
    BY <1>1, <1>7, <2>1, <2>2, <2>3, <2>4 DEF Has
<1>8. Remembered'
  BY <1>2, <1>7, StaysRemembered DEF NoWrapInv, IInv
<1> QED
  BY <1>3, <1>8

\* Sorting a queue loses none of its elements.
LEMMA SortKeepsAll ==
    ASSUME NEW S, \A x \in S : x.id \in Int,
           NEW q \in Seq(S), NEW f \in SortedById(q), NEW i \in DOMAIN q
    PROVE  \E j \in DOMAIN q : Sort(q, f)[j] = q[i]
<1>1. DOMAIN q = 1 .. Len(q) /\ Len(q) \in Nat
  OBVIOUS
<1>2. IsFiniteSet(DOMAIN q)
  BY <1>1, FS_Interval
<1>3. f \in [DOMAIN q -> DOMAIN q]
  BY DEF SortedById
<1>4. \A j, k \in DOMAIN q : f[j] = f[k] => j = k
  BY SortProperties
<1>5. f \in Injection(DOMAIN q, DOMAIN q)
  BY <1>3, <1>4 DEF Injection, IsInjective
<1>6. f \in Surjection(DOMAIN q, DOMAIN q)
  BY <1>2, <1>5, FS_Injection
<1>7. PICK j \in DOMAIN q : f[j] = i
  BY <1>6 DEF Surjection
<1> QED
  BY <1>7 DEF Sort

\* The bodies that waited are handled, all of them.
LEMMA InputTickKeepsNoWrap ==
    ASSUME NoWrapInv, NEW n \in Nodes, InputTick(n)
    PROVE  IdsBelow' /\ IdsDistinct' /\ Remembered'
<1>1. PICK f \in SortedById(actions[n]) :
          handled' = [handled EXCEPT ![n] = @ \o Sort(actions[n], f)]
  BY DEF InputTick
<1>2. /\ actions' = [actions EXCEPT ![n] = <<>>]
      /\ UNCHANGED <<nextId, wireId, receivedIds, rx>>
  BY DEF InputTick
<1>3. IdsBelow' /\ IdsDistinct'
  BY <1>2 DEF NoWrapInv, IdsBelow, IdsDistinct
<1>4. PICK a, h, t : a = actions[n] /\ h = handled[n] /\ t = Sort(a, f)
  OBVIOUS
<1>5. a \in Seq(Action) /\ h \in Seq(Action)
  BY <1>4 DEF NoWrapInv, IInv, TypeOK
<1>6. t \in Seq(Action) /\ DOMAIN t = DOMAIN a
  BY <1>1, <1>4, <1>5, SortProperties, ConstantFacts
<1>7. \A i \in DOMAIN a : \E j \in DOMAIN t : t[j] = a[i]
  BY <1>1, <1>4, <1>5, <1>6, SortKeepsAll, ConstantFacts
<1>8. /\ \A i \in DOMAIN h : i \in DOMAIN (h \o t) /\ (h \o t)[i] = h[i]
      /\ \A j \in DOMAIN t : Len(h) + j \in DOMAIN (h \o t) /\ (h \o t)[Len(h) + j] = t[j]
  <2>1. /\ h \o t \in Seq(Action) /\ Len(h \o t) = Len(h) + Len(t)
        /\ \A i \in 1 .. Len(h) + Len(t) :
               (h \o t)[i] = IF i <= Len(h) THEN h[i] ELSE t[i - Len(h)]
    BY <1>5, <1>6, ConcatProperties
  <2>2. /\ Len(h) \in Nat /\ DOMAIN h = 1 .. Len(h)
        /\ Len(t) \in Nat /\ DOMAIN t = 1 .. Len(t)
        /\ DOMAIN (h \o t) = 1 .. Len(h) + Len(t)
    BY <1>5, <1>6, <2>1
  <2>3. \A i \in DOMAIN h : i \in 1 .. Len(h) + Len(t) /\ i <= Len(h)
    BY <2>2
  <2>4. \A j \in DOMAIN t : /\ Len(h) + j \in 1 .. Len(h) + Len(t)
                            /\ ~ (Len(h) + j <= Len(h)) /\ (Len(h) + j) - Len(h) = j
    BY <2>2
  <2>5. \A i \in DOMAIN h : i \in DOMAIN (h \o t) /\ (h \o t)[i] = h[i]
    BY <2>1, <2>2, <2>3
  <2>6. \A j \in DOMAIN t : Len(h) + j \in DOMAIN (h \o t) /\ (h \o t)[Len(h) + j] = t[j]
    BY <2>1, <2>2, <2>4
  <2> QED
    BY <2>5, <2>6
<1>9. /\ handled'[n] = h \o t /\ \A x \in Nodes : x # n => handled'[x] = handled[x]
      /\ \A x \in Nodes : x # n => actions'[x] = actions[x]
  BY <1>1, <1>2, <1>4 DEF NoWrapInv, IInv, TypeOK
<1>10. ASSUME NEW x \in Nodes, NEW p \in Payloads, Has(x, p)
       PROVE  Has(x, p)'
  <2>1. CASE x # n
    BY <1>2, <1>9, <1>10, <2>1 DEF Has
  <2>2. CASE x = n /\ rx[x] # None /\ rx[x].body = p
    BY <1>2, <2>2 DEF Has
  <2>3. ASSUME x = n, NEW i \in DOMAIN a, a[i].body = p
        PROVE  Has(x, p)'
    <3>1. PICK j \in DOMAIN t : t[j] = a[i]
      BY <1>7
    <3>2. Len(h) + j \in DOMAIN handled'[x] /\ handled'[x][Len(h) + j].body = p
      BY <1>8, <1>9, <2>3, <3>1
    <3> QED
      BY <3>2 DEF Has
  <2>4. ASSUME x = n, NEW i \in DOMAIN h, h[i].body = p
        PROVE  Has(x, p)'
    <3>1. i \in DOMAIN handled'[x] /\ handled'[x][i].body = p
      BY <1>8, <1>9, <2>4
    <3> QED
      BY <3>1 DEF Has
  <2> QED
    BY <1>4, <1>10, <2>1, <2>2, <2>3, <2>4 DEF Has
<1>11. Remembered'
  BY <1>2, <1>10, StaysRemembered DEF NoWrapInv, IInv
<1> QED
  BY <1>3, <1>11

LEMMA NextKeepsNoWrap == NoWrapInv /\ NoWrapYet /\ [Next]_vars => NoWrapInv'
<1> SUFFICES ASSUME NoWrapInv, NoWrapYet, [Next]_vars PROVE NoWrapInv'
  OBVIOUS
<1>1. IInv'
  BY NextKeepsIInv DEF NoWrapInv
<1>2. ASSUME \/ \E p \in Payloads : AddPacketToSend(p)
             \/ \E n \in Nodes : OutputTick(n) \/ GetIdsReceived(n) \/ SendHeader(n)
             \/ UNCHANGED vars
      PROVE  IdsBelow' /\ IdsDistinct' /\ Remembered'
  <2>1. UNCHANGED <<nextId, wireId, receivedIds, rx, actions, handled>>
    BY <1>2 DEF AddPacketToSend, OutputTick, GetIdsReceived, SendHeader, vars
  <2> QED
    BY <2>1, QuietKeepsNoWrap
<1>3. IdsBelow' /\ IdsDistinct' /\ Remembered'
  BY <1>2, SendFreshKeepsNoWrap, SendAgainKeepsNoWrap, ReceiveHeaderKeepsNoWrap,
     ReceiveBodyKeepsNoWrap, InputTickKeepsNoWrap DEF Next, OutputThread
<1> QED
  BY <1>1, <1>3 DEF NoWrapInv

\* The id of a datagram that is remembered is remembered for its own packet.
LEMMA NoWrapInvMeans == NoWrapInv => NoFreshDrop
<1> SUFFICES ASSUME NoWrapInv, NEW d \in net, d.valid, d.id \in receivedIds[d.dst][d.src]
             PROVE  Arrived(d)
  BY DEF NoFreshDrop
<1>1. d.src \in Nodes /\ d.dst \in Nodes /\ d.body \in Payloads /\ d.id # None
  BY ConstantFacts DEF NoWrapInv, IInv, TypeOK, Datagram
<1>2. From[d.body] = d.src /\ To[d.body] = d.dst /\ wireId[d.body] = d.id
  BY DEF NoWrapInv, IInv, NetOK
<1>3. PICK p \in Payloads : TookId(d.src, d.dst, p, d.id) /\ Has(d.dst, p)
  BY <1>1 DEF NoWrapInv, Remembered
<1>4. p = d.body
  BY <1>1, <1>2, <1>3 DEF NoWrapInv, IdsDistinct, TookId
<1> QED
  BY <1>3, <1>4 DEF Has, Arrived

-----------------------------------------------------------------------------
(* The theorems *)

\* The invariant of the reliability layer holds in every reachable state.
THEOREM Invariance == Spec => []IInv
<1>1. Init => IInv
  BY InitIInv
<1>2. IInv /\ [Next]_vars => IInv'
  BY NextKeepsIInv
<1> QED
  BY <1>1, <1>2, PTL DEF Spec

\* The types of the state: whatever arrives, an id stays below IdMod, an
\* acknowledgement has Window bits, and a queue holds packets.
THEOREM TypeCorrect == Spec => []TypeOK
<1>1. IInv => TypeOK
  BY DEF IInv
<1> QED
  BY <1>1, Invariance, PTL

\* However the network duplicates and reorders, however often a packet is sent
\* again and wherever the ids wrap, a packet is handled more than once only if
\* its receiver lost sight of its id while it was sorting the received ids.
THEOREM HandledOnce == Spec => []HandledOnceUnlessOverlooked
<1>1. IInv => HandledOnceUnlessOverlooked
  BY DEF IInv
<1> QED
  BY <1>1, Invariance, PTL

\* The only packets kept to be sent again are those that took id 0, which is
\* the id a resent datagram carries.
THEOREM OnlyFirstIsKept == Spec => []ResentIsFirst
<1>1. IInv => ResentIsFirst
  BY DEF IInv, SentOK, StoredOK, ResentIsFirst
<1> QED
  BY <1>1, Invariance, PTL

\* As long as the ids have not run out, a datagram is dropped as a repetition only
\* if its packet has come: resent packets, which use ids up and say id 0, never
\* take the place of another (isAlreadyReceived, getPacketId).  Without the
\* hypothesis this is false: after a wrap the memory of old ids drops new packets.
THEOREM NothingFreshIsDropped == Spec /\ []NoWrapYet => []NoFreshDrop
<1>1. Spec /\ []NoWrapYet => []NoWrapInv
  BY InitNoWrap, NextKeepsNoWrap, PTL DEF Spec
<1> QED
  BY <1>1, NoWrapInvMeans, PTL
==============================================================================
