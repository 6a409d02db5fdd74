------------------------ MODULE NitworkThreadsProofs ------------------------
(***************************************************************************)
(* Proofs about the threads of a process and their mutexes, for any number *)
(* of packets and datagrams.                                               *)
(***************************************************************************)
EXTENDS NitworkThreads, Induction, SequenceTheorems, TLAPS

-----------------------------------------------------------------------------
(* The order of the mutexes *)

\* Every thread takes its mutexes in this order.
Rank(m) ==
    CASE m = "tick" -> 1
      [] m = "inputQueue" -> 2
      [] m = "registry" -> 3
      [] m = "receivedIds" -> 4
      [] m = "outputQueue" -> 5

\* What a thread works with at a place.
Needs(t, p) ==
    CASE p \in {"test", "towait", "notify", "wake"} -> {"tick"}
      [] p = "pass" -> {"tick", Queue(t)}
      [] p = "handler" -> Mutexes
      [] p = "system" -> {"registry", "receivedIds", "outputQueue"}
      [] p = "header" -> {"receivedIds"}
      [] p = "again" -> {"receivedIds", "outputQueue"}
      [] p = "body" -> {"inputQueue"}
      [] OTHER -> {}

\* What it may still have to take there.
Plans(t, p) ==
    CASE p \in {"test", "notify", "wake"} -> {<<>>, <<"tick">>}
      [] p = "pass" -> {<<>>, <<Queue(t)>>, <<"tick", Queue(t)>>}
      [] p \in {"handler", "system"} ->
            {<<>>, <<"outputQueue">>, <<"receivedIds", "outputQueue">>, Sender}
      [] p = "header" -> {<<>>, <<"receivedIds">>}
      [] p = "again" -> {<<>>, <<"outputQueue">>, <<"receivedIds", "outputQueue">>}
      [] p = "body" -> {<<>>, <<"inputQueue">>}
      [] OTHER -> {<<>>}

\* It holds what comes before the next mutex it wants.
Holding(t, p, s, m) == m \in Needs(t, p) /\ (s = <<>> \/ Rank(m) < Rank(Head(s)))

\* At every place a thread holds the mutexes of the place that it does not want any
\* more, and no others.
LockInv ==
    /\ at \in [Threads -> Places]
    /\ wants \in [Threads -> Seq(Mutexes)]
    /\ owner \in [Mutexes -> Threads \cup {NoOne}]
    /\ \A t \in Threads :
          /\ wants[t] \in Plans(t, at[t])
          /\ \A m \in Mutexes : owner[m] = t <=> Holding(t, at[t], wants[t], m)

-----------------------------------------------------------------------------
(* The threads that are joined *)

\* Who waits for a thread of the pool: everybody in it that has not ended is still to
\* be joined.
PoolInv ==
    /\ pool \in Seq(Pool)
    /\ \A t \in Pool : at[t] = "done" \/ \E i \in DOMAIN pool : pool[i] = t
    /\ at["main"] \in {"game", "system", "context", "wake", "join", "joinclock", "done"}
    /\ pool = <<>> <=> at["main"] \in {"joinclock", "done"}
    /\ isRunning \in BOOLEAN /\ stopped \in BOOLEAN
    /\ isRunning <=> at["main"] \in {"game", "system"}
    /\ stopped <=> at["main"] \notin {"game", "system", "context"}

CountInv ==
    /\ received \in 0 .. MaxReceived
    /\ actions \in Nat
    /\ actions + (IF at["receive"] \in {"header", "again", "body"} THEN 1 ELSE 0) <= received
    /\ enqueued \in 0 .. MaxPackets
    /\ at["main"] = "system" => enqueued < MaxPackets
    /\ sceneStop \in BOOLEAN
    /\ outputQueue \in SUBSET [by : Threads, inTime : BOOLEAN]
    /\ waited \in SUBSET Loops

\* The output loop that has once waited takes the tick mutex again only in its pass,
\* and what a handler enqueues in time finds it there or before it.
SendInv ==
    /\ "output" \in waited =>
          at["output"] \in {"towait", "waiting", "pass", "done"}
              \/ (at["output"] = "test" /\ wants["output"] = <<>>)
    /\ at["output"] = "done" => ~isRunning
    /\ \A p \in outputQueue : p.by = "input" /\ p.inTime => at["output"] \in {"waiting", "pass"}

-----------------------------------------------------------------------------
(* Sequences of up to three mutexes *)

LEMMA One ==
    ASSUME NEW a
    PROVE  <<a>> # <<>> /\ Head(<<a>>) = a /\ Tail(<<a>>) = <<>>
           /\ DOMAIN <<a>> = {1} /\ <<a>>[1] = a
  OBVIOUS

LEMMA Two ==
    ASSUME NEW a, NEW b
    PROVE  <<a, b>> # <<>> /\ Head(<<a, b>>) = a /\ Tail(<<a, b>>) = <<b>>
           /\ DOMAIN <<a, b>> = {1, 2} /\ <<a, b>>[1] = a /\ <<a, b>>[2] = b
  OBVIOUS

LEMMA Three ==
    ASSUME NEW a, NEW b, NEW c
    PROVE  <<a, b, c>> # <<>> /\ Head(<<a, b, c>>) = a /\ Tail(<<a, b, c>>) = <<b, c>>
           /\ DOMAIN <<a, b, c>> = {1, 2, 3}
           /\ <<a, b, c>>[1] = a /\ <<a, b, c>>[2] = b /\ <<a, b, c>>[3] = c
  OBVIOUS

LEMMA RankType ==
    /\ Rank("tick") = 1 /\ Rank("inputQueue") = 2 /\ Rank("registry") = 3
    /\ Rank("receivedIds") = 4 /\ Rank("outputQueue") = 5
    /\ \A m \in Mutexes : Rank(m) \in 1 .. 5
    /\ \A m, n \in Mutexes : Rank(m) = Rank(n) => m = n
<1>1. Rank("tick") = 1
  BY DEF Rank
<1>2. Rank("inputQueue") = 2
  BY DEF Rank
<1>3. Rank("registry") = 3
  BY DEF Rank
<1>4. Rank("receivedIds") = 4
  BY DEF Rank
<1>5. Rank("outputQueue") = 5
  BY DEF Rank
<1>6. Mutexes = {"tick", "inputQueue", "registry", "receivedIds", "outputQueue"}
  BY DEF Mutexes
<1> QED
  BY <1>1, <1>2, <1>3, <1>4, <1>5, <1>6

\* The definitions of Needs and Plans, place by place.
LEMMA NeedsAt ==
    ASSUME NEW t
    PROVE  /\ \A p \in {"test", "towait", "notify", "wake"} : Needs(t, p) = {"tick"}
           /\ Needs(t, "pass") = {"tick", Queue(t)}
           /\ Needs(t, "handler") = Mutexes
           /\ Needs(t, "system") = {"registry", "receivedIds", "outputQueue"}
           /\ Needs(t, "header") = {"receivedIds"}
           /\ Needs(t, "again") = {"receivedIds", "outputQueue"}
           /\ Needs(t, "body") = {"inputQueue"}
           /\ \A p \in {"posted", "waiting", "receiving", "sleep", "game", "context", "join",
                        "joinclock", "done"} : Needs(t, p) = {}
<1>1. \A p \in {"test", "towait", "notify", "wake"} : Needs(t, p) = {"tick"}
  BY DEF Needs
<1>2. Needs(t, "pass") = {"tick", Queue(t)}
  BY DEF Needs
<1>3. Needs(t, "handler") = Mutexes
  BY DEF Needs
<1>4. Needs(t, "system") = {"registry", "receivedIds", "outputQueue"}
  BY DEF Needs
<1>5. Needs(t, "header") = {"receivedIds"}
  BY DEF Needs
<1>6. Needs(t, "again") = {"receivedIds", "outputQueue"}
  BY DEF Needs
<1>7. Needs(t, "body") = {"inputQueue"}
  BY DEF Needs
<1>8. \A p \in {"posted", "waiting", "receiving", "sleep", "game", "context", "join",
                "joinclock", "done"} : Needs(t, p) = {}
  BY DEF Needs
<1> QED
  BY <1>1, <1>2, <1>3, <1>4, <1>5, <1>6, <1>7, <1>8

LEMMA PlansAt ==
    ASSUME NEW t
    PROVE  /\ \A p \in {"test", "notify", "wake"} : Plans(t, p) = {<<>>, <<"tick">>}
           /\ Plans(t, "pass") = {<<>>, <<Queue(t)>>, <<"tick", Queue(t)>>}
           /\ \A p \in {"handler", "system"} : Plans(t, p) =
                 {<<>>, <<"outputQueue">>, <<"receivedIds", "outputQueue">>, Sender}
           /\ Plans(t, "header") = {<<>>, <<"receivedIds">>}
           /\ Plans(t, "again") = {<<>>, <<"outputQueue">>, <<"receivedIds", "outputQueue">>}
           /\ Plans(t, "body") = {<<>>, <<"inputQueue">>}
           /\ \A p \in {"posted", "towait", "waiting", "receiving", "sleep", "game", "context",
                        "join", "joinclock", "done"} : Plans(t, p) = {<<>>}
<1>1. \A p \in {"test", "notify", "wake"} : Plans(t, p) = {<<>>, <<"tick">>}
  BY DEF Plans
<1>2. Plans(t, "pass") = {<<>>, <<Queue(t)>>, <<"tick", Queue(t)>>}
  BY DEF Plans
<1>3. \A p \in {"handler", "system"} : Plans(t, p) =
         {<<>>, <<"outputQueue">>, <<"receivedIds", "outputQueue">>, Sender}
  BY DEF Plans
<1>4. Plans(t, "header") = {<<>>, <<"receivedIds">>}
  BY DEF Plans
<1>5. Plans(t, "again") = {<<>>, <<"outputQueue">>, <<"receivedIds", "outputQueue">>}
  BY DEF Plans
<1>6. Plans(t, "body") = {<<>>, <<"inputQueue">>}
  BY DEF Plans
<1>7. \A p \in {"posted", "towait", "waiting", "receiving", "sleep", "game", "context", "join",
                "joinclock", "done"} : Plans(t, p) = {<<>>}
  BY DEF Plans
<1> QED
  BY <1>1, <1>2, <1>3, <1>4, <1>5, <1>6, <1>7

\* A plan s of mutexes in the set N: what it still holds, its next mutex and the rest.
GoodPlan(t, p, s) ==
    /\ s \in Seq(Mutexes)
    /\ s # <<>> =>
          /\ Head(s) \in Mutexes /\ Head(s) \in Needs(t, p)
          /\ Tail(s) \in Plans(t, p)
          /\ \A m \in Mutexes : Holding(t, p, Tail(s), m) <=> Holding(t, p, s, m) \/ m = Head(s)
    /\ \A i \in DOMAIN s : ~Holding(t, p, s, s[i])

\* Nothing is to be taken.
LEMMA NoPlan ==
    ASSUME NEW t, NEW p
    PROVE  GoodPlan(t, p, <<>>)
  BY DEF GoodPlan

\* The last mutex of the place is to be taken.
LEMMA PlanOfOne ==
    ASSUME NEW t, NEW p, NEW a \in Mutexes, a \in Needs(t, p), <<>> \in Plans(t, p),
           \A m \in Needs(t, p) : m \in Mutexes /\ Rank(m) <= Rank(a)
    PROVE  GoodPlan(t, p, <<a>>)
<1>1. \A m \in Mutexes : Holding(t, p, <<>>, m) <=> m \in Needs(t, p)
  BY DEF Holding
<1>2. \A m \in Mutexes : Holding(t, p, <<a>>, m) <=> m \in Needs(t, p) /\ Rank(m) < Rank(a)
  BY One DEF Holding
<1>3. \A m \in Needs(t, p) : Rank(m) < Rank(a) \/ m = a
  BY RankType
<1>4. ~ (Rank(a) < Rank(a))
  BY RankType
<1>5. <<a>> \in Seq(Mutexes)
  OBVIOUS
<1> QED
  BY <1>1, <1>2, <1>3, <1>4, <1>5, One DEF GoodPlan

\* Mutex a is to be taken, then b and perhaps others, after the rest of the place.
LEMMA PlanOfMore ==
    ASSUME NEW t, NEW p, NEW s \in Seq(Mutexes), NEW a \in Mutexes, NEW b \in Mutexes,
           s # <<>>, Head(s) = a, Head(Tail(s)) = b, Tail(s) # <<>>,
           a \in Needs(t, p), Tail(s) \in Plans(t, p),
           Rank(a) < Rank(b),
           \A m \in Needs(t, p) : m \in Mutexes /\ (Rank(m) <= Rank(a) \/ Rank(b) <= Rank(m)),
           \A i \in DOMAIN s : Rank(a) <= Rank(s[i])
    PROVE  GoodPlan(t, p, s)
<1>1. \A m \in Mutexes : Holding(t, p, s, m) <=> m \in Needs(t, p) /\ Rank(m) < Rank(a)
  BY DEF Holding
<1>2. \A m \in Mutexes : Holding(t, p, Tail(s), m) <=> m \in Needs(t, p) /\ Rank(m) < Rank(b)
  BY DEF Holding
<1>3. \A m \in Mutexes : Rank(m) \in Nat
  BY RankType
<1>4. ASSUME NEW m \in Needs(t, p)
      PROVE  Rank(m) < Rank(b) <=> Rank(m) < Rank(a) \/ m = a
  <2>1. m \in Mutexes /\ Rank(m) \in Nat /\ Rank(a) \in Nat /\ Rank(b) \in Nat
    BY <1>3
  <2>2. Rank(m) = Rank(a) => m = a
    BY <2>1, RankType
  <2>3. Rank(m) <= Rank(a) \/ Rank(b) <= Rank(m)
    OBVIOUS
  <2> QED
    BY <2>1, <2>2, <2>3
<1>5. \A i \in DOMAIN s : s[i] \in Mutexes
  OBVIOUS
<1>6. \A i \in DOMAIN s : ~Holding(t, p, s, s[i])
  BY <1>1, <1>3, <1>5
<1> QED
  BY <1>1, <1>2, <1>4, <1>6 DEF GoodPlan

\* The received ids and the output queue, the last two in the order.
LEMMA LastTwo ==
    ASSUME NEW t, NEW p, Needs(t, p) \subseteq Mutexes, "receivedIds" \in Needs(t, p),
           <<"outputQueue">> \in Plans(t, p)
    PROVE  GoodPlan(t, p, <<"receivedIds", "outputQueue">>)
<1> DEFINE x == <<"receivedIds", "outputQueue">>
<1>0. Mutexes = {"tick", "inputQueue", "registry", "receivedIds", "outputQueue"}
  BY DEF Mutexes
<1>1. /\ x \in Seq(Mutexes) /\ x # <<>> /\ Head(x) = "receivedIds" /\ Tail(x) = <<"outputQueue">>
      /\ Tail(x) # <<>> /\ Head(Tail(x)) = "outputQueue"
      /\ DOMAIN x = {1, 2} /\ x[1] = "receivedIds" /\ x[2] = "outputQueue"
  BY <1>0, One, Two
<1> HIDE DEF x
<1>2. \A i \in DOMAIN x : Rank("receivedIds") <= Rank(x[i])
  BY <1>1, RankType
<1>3. \A m \in Mutexes : Rank(m) <= Rank("receivedIds") \/ Rank("outputQueue") <= Rank(m)
  BY <1>0, RankType
<1>4. /\ "receivedIds" \in Mutexes /\ "outputQueue" \in Mutexes
      /\ Rank("receivedIds") < Rank("outputQueue")
  BY <1>0, RankType
<1>5. GoodPlan(t, p, x)
  BY <1>1, <1>2, <1>3, <1>4, PlanOfMore
<1> QED
  BY <1>5 DEF x

LEMMA QueueType ==
    ASSUME NEW t
    PROVE  Queue(t) \in Mutexes /\ Queue(t) \in {"inputQueue", "outputQueue"}
           /\ Rank(Queue(t)) \in {2, 5}
  BY RankType DEF Queue, Mutexes

\* What a thread still wants at a place comes after what it holds.
LEMMA PlansAreGood ==
    ASSUME NEW t, NEW p \in Places, NEW s \in Plans(t, p)
    PROVE  GoodPlan(t, p, s)
<1>0. Mutexes = {"tick", "inputQueue", "registry", "receivedIds", "outputQueue"}
  BY DEF Mutexes
<1>1. CASE p \in {"test", "notify", "wake"}
  <2>1. Needs(t, p) = {"tick"} /\ Plans(t, p) = {<<>>, <<"tick">>}
    BY <1>1, NeedsAt, PlansAt
  <2>2. GoodPlan(t, p, <<"tick">>)
    BY <1>0, <2>1, PlanOfOne, RankType
  <2> QED
    BY <2>1, <2>2, NoPlan
<1>2. CASE p = "pass"
  <2> DEFINE q == Queue(t)
  <2>1. /\ Needs(t, p) = {"tick", q} /\ Plans(t, p) = {<<>>, <<q>>, <<"tick", q>>}
        /\ q \in Mutexes /\ Rank(q) \in {2, 5}
    BY <1>2, NeedsAt, PlansAt, QueueType
  <2> HIDE DEF q
  <2>2. GoodPlan(t, p, <<q>>)
    BY <1>0, <2>1, PlanOfOne, RankType
  <2>3. GoodPlan(t, p, <<"tick", q>>)
    <3> DEFINE x == <<"tick", q>>
    <3>1. /\ x \in Seq(Mutexes) /\ x # <<>> /\ Head(x) = "tick" /\ Tail(x) = <<q>>
          /\ Tail(x) # <<>> /\ Head(Tail(x)) = q
          /\ DOMAIN x = {1, 2} /\ x[1] = "tick" /\ x[2] = q
      BY <1>0, <2>1, One, Two
    <3> HIDE DEF x
    <3>2. GoodPlan(t, p, x)
      <4>1. \A i \in DOMAIN x : Rank("tick") <= Rank(x[i])
        BY <2>1, <3>1, RankType
      <4>2. \A m \in Needs(t, p) :
               m \in Mutexes /\ (Rank(m) <= Rank("tick") \/ Rank(q) <= Rank(m))
        BY <1>0, <2>1, RankType
      <4>3. Rank("tick") < Rank(q) /\ "tick" \in Mutexes /\ "tick" \in Needs(t, p)
            /\ Tail(x) \in Plans(t, p)
        BY <1>0, <2>1, <3>1, RankType
      <4> QED
        BY <2>1, <3>1, <4>1, <4>2, <4>3, PlanOfMore
    <3> QED
      BY <3>2 DEF x
  <2> QED
    BY <2>1, <2>2, <2>3, NoPlan
<1>3. CASE p \in {"handler", "system"}
  <2>1. /\ Needs(t, p) \subseteq Mutexes
        /\ {"registry", "receivedIds", "outputQueue"} \subseteq Needs(t, p)
        /\ Plans(t, p) =
             {<<>>, <<"outputQueue">>, <<"receivedIds", "outputQueue">>,
              <<"registry", "receivedIds", "outputQueue">>}
    BY <1>0, <1>3, NeedsAt, PlansAt DEF Sender
  <2>2. GoodPlan(t, p, <<"outputQueue">>)
    <3>1. \A m \in Needs(t, p) : m \in Mutexes /\ Rank(m) <= Rank("outputQueue")
      BY <2>1, RankType
    <3> QED
      BY <1>0, <2>1, <3>1, PlanOfOne
  <2>3. GoodPlan(t, p, <<"receivedIds", "outputQueue">>)
    BY <1>0, <2>1, LastTwo
  <2>4. GoodPlan(t, p, <<"registry", "receivedIds", "outputQueue">>)
    <3> DEFINE x == <<"registry", "receivedIds", "outputQueue">>
    <3>1. /\ x \in Seq(Mutexes) /\ x # <<>> /\ Head(x) = "registry"
          /\ Tail(x) = <<"receivedIds", "outputQueue">>
          /\ Tail(x) # <<>> /\ Head(Tail(x)) = "receivedIds"
          /\ DOMAIN x = {1, 2, 3}
          /\ x[1] = "registry" /\ x[2] = "receivedIds" /\ x[3] = "outputQueue"
      BY <1>0, Two, Three
    <3> HIDE DEF x
    <3>2. \A i \in DOMAIN x : Rank("registry") <= Rank(x[i])
      BY <3>1, RankType
    <3>3. \A m \in Mutexes : Rank(m) <= Rank("registry") \/ Rank("receivedIds") <= Rank(m)
      BY <1>0, RankType
    <3>4. "registry" \in Mutexes /\ "receivedIds" \in Mutexes /\ Rank("registry") < Rank("receivedIds")
      BY <1>0, RankType
    <3>5. GoodPlan(t, p, x)
      BY <2>1, <3>1, <3>2, <3>3, <3>4, PlanOfMore
    <3> QED
      BY <3>5 DEF x
  <2> QED
    BY <2>1, <2>2, <2>3, <2>4, NoPlan
<1>4. CASE p = "header"
  <2>1. Needs(t, p) = {"receivedIds"} /\ Plans(t, p) = {<<>>, <<"receivedIds">>}
    BY <1>4, NeedsAt, PlansAt
  <2>2. GoodPlan(t, p, <<"receivedIds">>)
    BY <1>0, <2>1, PlanOfOne, RankType
  <2> QED
    BY <2>1, <2>2, NoPlan
<1>5. CASE p = "again"
  <2>1. /\ Needs(t, p) = {"receivedIds", "outputQueue"}
        /\ Plans(t, p) = {<<>>, <<"outputQueue">>, <<"receivedIds", "outputQueue">>}
    BY <1>5, NeedsAt, PlansAt
  <2>2. GoodPlan(t, p, <<"outputQueue">>)
    BY <1>0, <2>1, PlanOfOne, RankType
  <2>3. GoodPlan(t, p, <<"receivedIds", "outputQueue">>)
    BY <1>0, <2>1, LastTwo
  <2> QED
    BY <2>1, <2>2, <2>3, NoPlan
<1>6. CASE p = "body"
  <2>1. Needs(t, p) = {"inputQueue"} /\ Plans(t, p) = {<<>>, <<"inputQueue">>}
    BY <1>6, NeedsAt, PlansAt
  <2>2. GoodPlan(t, p, <<"inputQueue">>)
    BY <1>0, <2>1, PlanOfOne, RankType
  <2> QED
    BY <2>1, <2>2, NoPlan
<1>7. CASE p \in {"posted", "towait", "waiting", "receiving", "sleep", "game", "context", "join",
                  "joinclock", "done"}
  <2>1. Plans(t, p) = {<<>>}
    BY <1>7, PlansAt
  <2> QED
    BY <2>1, NoPlan
<1> QED
  BY <1>1, <1>2, <1>3, <1>4, <1>5, <1>6, <1>7 DEF Places

-----------------------------------------------------------------------------
(* The steps of a thread and the mutexes *)

\* A thread that has still to take everything its place needs holds nothing.
LEMMA FullPlans ==
    ASSUME NEW t, NEW m \in Mutexes
    PROVE  /\ \A p \in {"test", "notify", "wake"} : ~Holding(t, p, <<"tick">>, m)
           /\ ~Holding(t, "pass", <<"tick", Queue(t)>>, m)
           /\ ~Holding(t, "system", Sender, m)
           /\ ~Holding(t, "header", <<"receivedIds">>, m)
           /\ ~Holding(t, "again", <<"receivedIds", "outputQueue">>, m)
           /\ ~Holding(t, "body", <<"inputQueue">>, m)
           /\ Holding(t, "handler", Sender, m) <=> m \in {"tick", "inputQueue"}
<1>0. /\ Mutexes = {"tick", "inputQueue", "registry", "receivedIds", "outputQueue"}
      /\ Rank(m) \in 1 .. 5
  BY RankType DEF Mutexes
<1>1. \A a : <<a>> # <<>> /\ Head(<<a>>) = a
  BY One
<1>2. <<"tick", Queue(t)>> # <<>> /\ Head(<<"tick", Queue(t)>>) = "tick"
  BY Two
<1>3. /\ <<"receivedIds", "outputQueue">> # <<>>
      /\ Head(<<"receivedIds", "outputQueue">>) = "receivedIds"
  BY Two
<1>4. Sender # <<>> /\ Head(Sender) = "registry"
  BY Three DEF Sender
<1>5. \A p \in {"test", "notify", "wake"} : ~Holding(t, p, <<"tick">>, m)
  BY <1>0, <1>1, RankType DEF Holding
<1>6. ~Holding(t, "pass", <<"tick", Queue(t)>>, m)
  BY <1>0, <1>2, RankType DEF Holding
<1>7. ~Holding(t, "system", Sender, m)
  BY <1>4, NeedsAt, RankType DEF Holding
<1>8. ~Holding(t, "header", <<"receivedIds">>, m)
  BY <1>1, NeedsAt, RankType DEF Holding
<1>9. ~Holding(t, "again", <<"receivedIds", "outputQueue">>, m)
  BY <1>3, NeedsAt, RankType DEF Holding
<1>10. ~Holding(t, "body", <<"inputQueue">>, m)
  BY <1>1, NeedsAt, RankType DEF Holding
<1>11. Holding(t, "handler", Sender, m) <=> m \in {"tick", "inputQueue"}
  <2>1. Holding(t, "handler", Sender, m) <=> Rank(m) < Rank("registry")
    BY <1>4, NeedsAt DEF Holding
  <2>2. Rank(m) < Rank("registry") <=> m \in {"tick", "inputQueue"}
    BY <1>0, RankType
  <2> QED
    BY <2>1, <2>2
<1> QED
  BY <1>5, <1>6, <1>7, <1>8, <1>9, <1>10, <1>11

\* No mutex has two owners, and no thread is called no one.
LEMMA ThreadsNamed == NoOne \notin Threads
  BY DEF NoOne, Threads, Pool, Loops

LEMMA HeldAt ==
    ASSUME LockInv, NEW t \in Threads, NEW p, At(t, p), NEW m \in Mutexes
    PROVE  owner[m] = t <=> m \in Needs(t, p)
  BY DEF LockInv, At, Holding

\* Thread t goes from place p to place q, where it wants s, and lets the mutexes in R go.
LEMMA Moved ==
    ASSUME LockInv, NEW t \in Threads, NEW p, NEW q \in Places, NEW s \in Plans(t, q), NEW R,
           At(t, p), Goto(t, q, s), R \subseteq Needs(t, p),
           Release(R) \/ (R = {} /\ UNCHANGED owner),
           \A m \in Mutexes : Holding(t, q, s, m) <=> m \in Needs(t, p) \ R
    PROVE  LockInv'
<1>1. /\ at' = [at EXCEPT ![t] = q] /\ at \in [Threads -> Places]
      /\ wants' = [wants EXCEPT ![t] = s] /\ wants \in [Threads -> Seq(Mutexes)]
      /\ owner \in [Mutexes -> Threads \cup {NoOne}]
  BY DEF Goto, LockInv
<1>2. /\ DOMAIN owner' = Mutexes
      /\ \A m \in Mutexes : owner'[m] = IF m \in R THEN NoOne ELSE owner[m]
  BY <1>1 DEF Release
<1>3. owner' \in [Mutexes -> Threads \cup {NoOne}]
  <2>1. CASE Release(R)
    BY <1>1, <2>1 DEF Release
  <2>2. CASE UNCHANGED owner
    BY <1>1, <2>2
  <2> QED
    BY <2>1, <2>2
<1>4. \A m \in Mutexes : owner[m] = t <=> m \in Needs(t, p)
  BY HeldAt
<1>5. at'[t] = q /\ wants'[t] = s
      /\ \A u \in Threads \ {t} : at'[u] = at[u] /\ wants'[u] = wants[u]
  BY <1>1
<1>6. ASSUME NEW m \in Mutexes
      PROVE  owner'[m] = t <=> Holding(t, q, s, m)
  BY <1>2, <1>4, ThreadsNamed
<1>7. ASSUME NEW u \in Threads, u # t, NEW m \in Mutexes
      PROVE  owner'[m] = u <=> Holding(u, at[u], wants[u], m)
  <2>1. owner[m] = u <=> Holding(u, at[u], wants[u], m)
    BY DEF LockInv
  <2>2. m \in R => owner[m] = t
    BY <1>4
  <2> QED
    BY <1>2, <1>7, <2>1, <2>2, ThreadsNamed
<1>8. \A u \in Threads : wants'[u] \in Plans(u, at'[u])
  BY <1>5 DEF LockInv
<1>9. \A u \in Threads : \A m \in Mutexes : owner'[m] = u <=> Holding(u, at'[u], wants'[u], m)
  BY <1>5, <1>6, <1>7
<1>10. at' \in [Threads -> Places] /\ s \in Seq(Mutexes)
  BY <1>1, PlansAreGood DEF GoodPlan
<1>11. wants' \in [Threads -> Seq(Mutexes)]
  BY <1>1, <1>10
<1> QED
  BY <1>3, <1>8, <1>9, <1>10, <1>11 DEF LockInv, Plans, Needs, Holding, Rank

LEMMA AcquireLocks ==
    ASSUME LockInv, NEW t \in Threads, Acquire(t)
    PROVE  LockInv'
<1> DEFINE s == wants[t]
           a == Head(wants[t])
<1>1. /\ s # <<>> /\ owner[a] = NoOne
      /\ owner' = [owner EXCEPT ![a] = t]
      /\ wants' = [wants EXCEPT ![t] = Tail(s)] /\ at' = at
  BY DEF Acquire
<1>2. /\ at \in [Threads -> Places] /\ wants \in [Threads -> Seq(Mutexes)]
      /\ owner \in [Mutexes -> Threads \cup {NoOne}] /\ s \in Plans(t, at[t])
      /\ \A u \in Threads : \A m \in Mutexes : owner[m] = u <=> Holding(u, at[u], wants[u], m)
  BY DEF LockInv
<1>3. /\ a \in Mutexes /\ Tail(s) \in Plans(t, at[t])
      /\ \A m \in Mutexes : Holding(t, at[t], Tail(s), m) <=> Holding(t, at[t], s, m) \/ m = a
  BY <1>1, <1>2, PlansAreGood DEF GoodPlan
<1> HIDE DEF a
<1>4. /\ owner' \in [Mutexes -> Threads \cup {NoOne}]
      /\ owner'[a] = t /\ \A m \in Mutexes \ {a} : owner'[m] = owner[m]
  BY <1>1, <1>2, <1>3
<1>5. /\ wants' \in [Threads -> Seq(Mutexes)] /\ wants'[t] = Tail(s)
      /\ \A u \in Threads \ {t} : wants'[u] = wants[u]
  <2>1. s \in Seq(Mutexes) /\ s # <<>>
    BY <1>1, <1>2
  <2> HIDE DEF s
  <2>2. Tail(s) \in Seq(Mutexes)
    BY <2>1
  <2> QED
    BY <1>1, <1>2, <2>2
<1> HIDE DEF s
<1>6. \A m \in Mutexes : owner'[m] = t <=> Holding(t, at[t], Tail(s), m)
  BY <1>2, <1>3, <1>4 DEF s
<1>7. ASSUME NEW u \in Threads \ {t}, NEW m \in Mutexes
      PROVE  owner'[m] = u <=> Holding(u, at[u], wants[u], m)
  BY <1>1, <1>2, <1>4, ThreadsNamed
<1>8. \A u \in Threads : \A m \in Mutexes : owner'[m] = u <=> Holding(u, at'[u], wants'[u], m)
  BY <1>1, <1>5, <1>6, <1>7
<1>9. \A u \in Threads : wants'[u] \in Plans(u, at'[u])
  BY <1>1, <1>3, <1>5 DEF LockInv
<1> QED
  BY <1>1, <1>2, <1>4, <1>5, <1>8, <1>9 DEF LockInv, Plans, Needs, Holding, Rank

\* The clock, or stop(), wakes up the loops and lets the tick mutex go.
LEMMA NotifyLocks ==
    ASSUME LockInv, NEW t \in {"clock", "main"}, NEW p \in {"notify", "wake"},
           NEW q \in {"sleep", "join"}, At(t, p), NotifyAll(t, q, <<>>), Release({"tick"})
    PROVE  LockInv'
<1> DEFINE woken == {l \in Loops : at[l] = "waiting"}
<1>1. /\ at \in [Threads -> Places] /\ wants \in [Threads -> Seq(Mutexes)]
      /\ owner \in [Mutexes -> Threads \cup {NoOne}] /\ t \in Threads
      /\ "tick" \in Mutexes /\ {"sleep", "join", "pass"} \subseteq Places /\ t \notin Loops
      /\ Loops \subseteq Threads
  BY DEF LockInv, Threads, Mutexes, Places, Loops, Pool
<1>2. /\ at' = [x \in Threads |-> IF x = t THEN q ELSE IF x \in woken THEN "pass" ELSE at[x]]
      /\ wants' = [x \in Threads |->
             IF x = t THEN <<>> ELSE IF x \in woken THEN <<"tick", Queue(x)>> ELSE wants[x]]
      /\ owner' = [m \in Mutexes |-> IF m \in {"tick"} THEN NoOne ELSE owner[m]]
  BY DEF NotifyAll, Release
<1> HIDE DEF woken
<1>3. /\ at' \in [Threads -> Places] /\ wants' \in [Threads -> Seq(Mutexes)]
      /\ owner' \in [Mutexes -> Threads \cup {NoOne}]
  <2>1. \A x : <<"tick", Queue(x)>> \in Seq(Mutexes)
    BY <1>1, QueueType
  <2>2. wants' \in [Threads -> Seq(Mutexes)]
    BY <1>1, <1>2, <2>1
  <2> QED
    BY <1>1, <1>2, <2>2
<1>4. \A m \in Mutexes : owner[m] = t <=> m = "tick"
  BY <1>1, HeldAt, NeedsAt
<1>5. \A m \in Mutexes : owner'[m] = IF m = "tick" THEN NoOne ELSE owner[m]
  BY <1>2
<1>6. ASSUME NEW u \in Threads
      PROVE  /\ wants'[u] \in Plans(u, at'[u])
             /\ \A m \in Mutexes : owner'[m] = u <=> Holding(u, at'[u], wants'[u], m)
  <2>1. CASE u = t
    <3>1. at'[u] = q /\ wants'[u] = <<>>
      BY <1>2, <2>1
    <3>2. Plans(u, q) = {<<>>} /\ Needs(u, q) = {}
      BY NeedsAt, PlansAt
    <3>3. \A m \in Mutexes : owner'[m] # u
      BY <1>4, <1>5, <2>1, <1>1, ThreadsNamed
    <3> QED
      BY <3>1, <3>2, <3>3 DEF Holding
  <2>2. CASE u # t /\ u \in woken
    <3>1. at'[u] = "pass" /\ wants'[u] = <<"tick", Queue(u)>> /\ at[u] = "waiting"
      BY <1>2, <2>2 DEF woken
    <3>2. \A m \in Mutexes : owner[m] # u
      <4>1. Needs(u, "waiting") = {}
        BY NeedsAt
      <4> QED
        BY <3>1, <4>1 DEF LockInv, Holding
    <3>3. \A m \in Mutexes : owner'[m] # u
      BY <1>5, <3>2, ThreadsNamed
    <3>4. wants'[u] \in Plans(u, at'[u])
      BY <3>1, PlansAt
    <3> QED
      BY <3>1, <3>3, <3>4, FullPlans
  <2>3. CASE u # t /\ u \notin woken
    <3>1. at'[u] = at[u] /\ wants'[u] = wants[u]
      BY <1>2, <2>3
    <3>2. /\ wants[u] \in Plans(u, at[u])
          /\ \A m \in Mutexes : owner[m] = u <=> Holding(u, at[u], wants[u], m)
      BY DEF LockInv
    <3>3. \A m \in Mutexes : owner'[m] = u <=> owner[m] = u
      BY <1>1, <1>4, <1>5, <2>3, ThreadsNamed
    <3> QED
      BY <3>1, <3>2, <3>3
  <2> QED
    BY <2>1, <2>2, <2>3
<1> QED
  BY <1>3, <1>6 DEF LockInv, Plans, Needs, Holding, Rank

\* A thread that wants nothing more holds all its place needs.
LEMMA MovedFree ==
    ASSUME LockInv, NEW t \in Threads, NEW p, NEW q \in Places, NEW R,
           At(t, p), Goto(t, q, <<>>), Release(R) \/ (R = {} /\ UNCHANGED owner),
           R \subseteq Needs(t, p), Needs(t, q) = Needs(t, p) \ R, Needs(t, p) \subseteq Mutexes
    PROVE  LockInv'
<1>1. <<>> \in Plans(t, q)
  BY PlansAt DEF Places
<1>2. \A m \in Mutexes : Holding(t, q, <<>>, m) <=> m \in Needs(t, p) \ R
  BY DEF Holding
<1> QED
  BY <1>1, <1>2, Moved

\* It goes on to a place where it has everything still to take.
LEMMA MovedFull ==
    ASSUME LockInv, NEW t \in Threads, NEW p, NEW q \in Places, NEW s \in Plans(t, q), NEW R,
           At(t, p), Goto(t, q, s), Release(R) \/ (R = {} /\ UNCHANGED owner),
           R = Needs(t, p), \A m \in Mutexes : ~Holding(t, q, s, m)
    PROVE  LockInv'
  BY Moved

LEMMA LockInit == Init => LockInv
<1> SUFFICES ASSUME Init PROVE LockInv
  OBVIOUS
<1>1. at \in [Threads -> {"posted", "receiving", "sleep", "game"}]
  BY DEF Init, Threads, Pool, Loops
<1>2. wants = [t \in Threads |-> <<>>] /\ owner = [m \in Mutexes |-> NoOne]
  BY DEF Init
<1>3. at \in [Threads -> Places]
  BY <1>1 DEF Places
<1>4. \A t \in Threads : Needs(t, at[t]) = {} /\ Plans(t, at[t]) = {<<>>}
  BY <1>1, NeedsAt, PlansAt
<1> QED
  BY <1>2, <1>3, <1>4, ThreadsNamed DEF LockInv, Holding

LEMMA LockStep == LockInv /\ [Next]_vars => LockInv'
<1> SUFFICES ASSUME LockInv, [Next]_vars PROVE LockInv'
  OBVIOUS
<1>0. /\ Loops \subseteq Threads /\ "receive" \in Threads /\ "clock" \in Threads
      /\ "main" \in Threads /\ "input" \in Loops /\ "output" \in Loops
  BY DEF Threads, Pool, Loops
<1>p. \A p \in {"posted", "test", "towait", "waiting", "pass", "handler", "receiving",
                "header", "again", "body", "sleep", "notify", "game", "system",
                "context", "wake", "join", "joinclock", "done"} : p \in Places
  BY DEF Places
<1>m. Mutexes = {"tick", "inputQueue", "registry", "receivedIds", "outputQueue"}
  BY DEF Mutexes
<1>q. Queue("input") = "inputQueue" /\ Queue("output") = "outputQueue"
  BY DEF Queue
<1>1. ASSUME NEW t \in Loops, StartLoop(t) PROVE LockInv'
  <2>1. At(t, "posted") /\ UNCHANGED owner /\ Needs(t, "posted") = {} /\ t \in Threads
    BY <1>0, <1>1, NeedsAt DEF StartLoop
  <2>2. CASE Goto(t, "done", <<>>)
    BY <1>p, <2>1, <2>2, MovedFree, NeedsAt
  <2>3. CASE Goto(t, "test", <<"tick">>)
    <3>1. <<"tick">> \in Plans(t, "test") /\ \A m \in Mutexes : ~Holding(t, "test", <<"tick">>, m)
      BY PlansAt, FullPlans
    <3> QED
      BY <1>p, <2>1, <2>3, <3>1, MovedFull
  <2> QED
    BY <1>1, <2>2, <2>3 DEF StartLoop
<1>2. ASSUME NEW t \in Loops, TestRunning(t) PROVE LockInv'
  <2>1. /\ At(t, "test") /\ t \in Threads /\ Needs(t, "test") = {"tick"}
        /\ Needs(t, "towait") = {"tick"} /\ Needs(t, "done") = {}
    BY <1>0, <1>2, NeedsAt DEF TestRunning
  <2>2. CASE Goto(t, "towait", <<>>) /\ UNCHANGED owner
    BY <1>p, <1>m, <2>1, <2>2, MovedFree
  <2>3. CASE Goto(t, "done", <<>>) /\ Release({"tick"})
    BY <1>p, <1>m, <2>1, <2>3, MovedFree
  <2> QED
    BY <1>2, <2>2, <2>3 DEF TestRunning
<1>3. ASSUME NEW t \in Loops, Wait(t) PROVE LockInv'
  <2>1. /\ At(t, "towait") /\ Goto(t, "waiting", <<>>) /\ Release({"tick"}) /\ t \in Threads
        /\ Needs(t, "towait") = {"tick"} /\ Needs(t, "waiting") = {}
    BY <1>0, <1>3, NeedsAt DEF Wait
  <2> QED
    BY <1>p, <1>m, <2>1, MovedFree
<1>4. CASE InputAction
  <2>1. /\ At("input", "pass") /\ Goto("input", "handler", Sender) /\ UNCHANGED owner
        /\ Needs("input", "pass") = {"tick", "inputQueue"} /\ Sender \in Plans("input", "handler")
    BY <1>4, <1>q, NeedsAt, PlansAt DEF InputAction
  <2>2. \A m \in Mutexes :
           Holding("input", "handler", Sender, m) <=> m \in Needs("input", "pass") \ {}
    BY <2>1, FullPlans
  <2> QED
    BY <1>0, <1>p, <2>1, <2>2, Moved
<1>5. CASE InputHandler
  <2>1. /\ At("input", "handler") /\ Goto("input", "pass", <<>>)
        /\ Release({"registry", "receivedIds", "outputQueue"})
        /\ Needs("input", "pass") = {"tick", "inputQueue"} /\ Needs("input", "handler") = Mutexes
    BY <1>5, <1>q, NeedsAt DEF InputHandler
  <2>2. Needs("input", "pass") =
           Needs("input", "handler") \ {"registry", "receivedIds", "outputQueue"}
    BY <1>m, <2>1
  <2> QED
    BY <1>0, <1>p, <1>m, <2>1, <2>2, MovedFree
<1>6. CASE InputPassEnds
  <2>1. /\ At("input", "pass") /\ Goto("input", "test", <<>>) /\ Release({"inputQueue"})
        /\ Needs("input", "pass") = {"tick", "inputQueue"} /\ Needs("input", "test") = {"tick"}
    BY <1>6, <1>q, NeedsAt DEF InputPassEnds
  <2> QED
    BY <1>0, <1>p, <1>m, <2>1, MovedFree
<1>7. CASE OutputPass
  <2>1. /\ At("output", "pass") /\ Goto("output", "test", <<>>) /\ Release({"outputQueue"})
        /\ Needs("output", "pass") = {"tick", "outputQueue"} /\ Needs("output", "test") = {"tick"}
    BY <1>7, <1>q, NeedsAt DEF OutputPass
  <2> QED
    BY <1>0, <1>p, <1>m, <2>1, MovedFree
<1>8. CASE ReceiveDatagram
  <2>1. At("receive", "receiving") /\ UNCHANGED owner /\ Needs("receive", "receiving") = {}
    BY <1>8, NeedsAt DEF ReceiveDatagram
  <2>2. CASE Goto("receive", "header", <<"receivedIds">>)
    <3>1. /\ <<"receivedIds">> \in Plans("receive", "header")
          /\ \A m \in Mutexes : ~Holding("receive", "header", <<"receivedIds">>, m)
      BY PlansAt, FullPlans
    <3> QED
      BY <1>0, <1>p, <2>1, <2>2, <3>1, MovedFull
  <2>3. CASE Goto("receive", "again", <<"receivedIds", "outputQueue">>)
    <3>1. /\ <<"receivedIds", "outputQueue">> \in Plans("receive", "again")
          /\ \A m \in Mutexes : ~Holding("receive", "again", <<"receivedIds", "outputQueue">>, m)
      BY PlansAt, FullPlans
    <3> QED
      BY <1>0, <1>p, <2>1, <2>3, <3>1, MovedFull
  <2> QED
    BY <1>8, <2>2, <2>3 DEF ReceiveDatagram
<1>9. CASE HandlePacketIds
  <2>1. /\ Goto("receive", "body", <<"inputQueue">>)
        /\ <<"inputQueue">> \in Plans("receive", "body")
        /\ \A m \in Mutexes : ~Holding("receive", "body", <<"inputQueue">>, m)
    BY <1>9, PlansAt, FullPlans DEF HandlePacketIds
  <2>2. CASE At("receive", "header") /\ Release({"receivedIds"})
    <3>1. Needs("receive", "header") = {"receivedIds"}
      BY NeedsAt
    <3> QED
      BY <1>0, <1>p, <2>1, <2>2, <3>1, MovedFull
  <2>3. CASE At("receive", "again") /\ Release({"receivedIds", "outputQueue"})
    <3>1. Needs("receive", "again") = {"receivedIds", "outputQueue"}
      BY NeedsAt
    <3> QED
      BY <1>0, <1>p, <2>1, <2>3, <3>1, MovedFull
  <2> QED
    BY <1>9, <2>2, <2>3 DEF HandlePacketIds
<1>10. CASE HandleBodyDatas
  <2>1. /\ At("receive", "body") /\ Goto("receive", "receiving", <<>>) /\ Release({"inputQueue"})
        /\ Needs("receive", "body") = {"inputQueue"} /\ Needs("receive", "receiving") = {}
    BY <1>10, NeedsAt DEF HandleBodyDatas
  <2> QED
    BY <1>0, <1>p, <1>m, <2>1, MovedFree
<1>11. CASE ReceiveEnds
  <2>1. /\ At("receive", "receiving") /\ Goto("receive", "done", <<>>) /\ UNCHANGED owner
        /\ Needs("receive", "receiving") = {} /\ Needs("receive", "done") = {}
    BY <1>11, NeedsAt DEF ReceiveEnds
  <2> QED
    BY <1>0, <1>p, <2>1, MovedFree
<1>12. CASE ClockTest
  <2>1. At("clock", "sleep") /\ UNCHANGED owner /\ Needs("clock", "sleep") = {}
    BY <1>12, NeedsAt DEF ClockTest
  <2>2. CASE Goto("clock", "notify", <<"tick">>)
    <3>1. /\ <<"tick">> \in Plans("clock", "notify")
          /\ \A m \in Mutexes : ~Holding("clock", "notify", <<"tick">>, m)
      BY PlansAt, FullPlans
    <3> QED
      BY <1>0, <1>p, <2>1, <2>2, <3>1, MovedFull
  <2>3. CASE Goto("clock", "done", <<>>)
    <3>1. Needs("clock", "done") = {}
      BY NeedsAt
    <3> QED
      BY <1>0, <1>p, <2>1, <2>3, <3>1, MovedFree
  <2> QED
    BY <1>12, <2>2, <2>3 DEF ClockTest
<1>13. CASE ClockNotify
  BY <1>13, NotifyLocks DEF ClockNotify
<1>14. CASE GameSystem
  <2>1. At("main", "game") /\ Goto("main", "system", Sender) /\ UNCHANGED owner
    BY <1>14 DEF GameSystem
  <2>2. Needs("main", "game") = {} /\ Sender \in Plans("main", "system")
    BY NeedsAt, PlansAt
  <2>3. \A m \in Mutexes : ~Holding("main", "system", Sender, m)
    BY FullPlans
  <2> QED
    BY <1>0, <1>p, <2>1, <2>2, <2>3, MovedFull
<1>15. CASE GameSystemEnqueues
  <2>1. /\ At("main", "system") /\ Goto("main", "game", <<>>)
        /\ Release({"registry", "receivedIds", "outputQueue"})
        /\ Needs("main", "system") = {"registry", "receivedIds", "outputQueue"}
        /\ Needs("main", "game") = {}
    BY <1>15, NeedsAt DEF GameSystemEnqueues
  <2> QED
    BY <1>0, <1>p, <1>m, <2>1, MovedFree
<1>16. CASE StopRunning
  <2>1. /\ At("main", "game") /\ Goto("main", "context", <<>>) /\ UNCHANGED owner
        /\ Needs("main", "game") = {} /\ Needs("main", "context") = {}
    BY <1>16, NeedsAt DEF StopRunning
  <2> QED
    BY <1>0, <1>p, <2>1, MovedFree
<1>17. CASE StopContext
  <2>1. At("main", "context") /\ Goto("main", "wake", <<"tick">>) /\ UNCHANGED owner
    BY <1>17 DEF StopContext
  <2>2. Needs("main", "context") = {} /\ <<"tick">> \in Plans("main", "wake")
    BY NeedsAt, PlansAt
  <2>3. \A m \in Mutexes : ~Holding("main", "wake", <<"tick">>, m)
    BY FullPlans
  <2> QED
    BY <1>0, <1>p, <2>1, <2>2, <2>3, MovedFull
<1>18. CASE StopWakes
  BY <1>18, NotifyLocks DEF StopWakes
<1>19. CASE StopJoins
  <2>1. At("main", "join") /\ UNCHANGED owner /\ Needs("main", "join") = {}
    BY <1>19, NeedsAt DEF StopJoins
  <2>2. CASE Goto("main", "joinclock", <<>>)
    <3>1. Needs("main", "joinclock") = {}
      BY NeedsAt
    <3> QED
      BY <1>0, <1>p, <2>1, <2>2, <3>1, MovedFree
  <2>3. CASE Goto("main", "wake", <<"tick">>)
    <3>1. /\ <<"tick">> \in Plans("main", "wake")
          /\ \A m \in Mutexes : ~Holding("main", "wake", <<"tick">>, m)
      BY PlansAt, FullPlans
    <3> QED
      BY <1>0, <1>p, <2>1, <2>3, <3>1, MovedFull
  <2> QED
    BY <1>19, <2>2, <2>3 DEF StopJoins
<1>20. CASE StopJoinsClock
  <2>1. /\ At("main", "joinclock") /\ Goto("main", "done", <<>>) /\ UNCHANGED owner
        /\ Needs("main", "joinclock") = {} /\ Needs("main", "done") = {}
    BY <1>20, NeedsAt DEF StopJoinsClock
  <2> QED
    BY <1>0, <1>p, <2>1, MovedFree
<1>21. CASE UNCHANGED <<at, wants, owner>>
  <2>1. \A t \in Threads :
           /\ wants'[t] \in Plans(t, at'[t])
           /\ \A m \in Mutexes : owner'[m] = t <=> Holding(t, at'[t], wants'[t], m)
    BY <1>21 DEF LockInv
  <2>2. /\ at' \in [Threads -> Places] /\ wants' \in [Threads -> Seq(Mutexes)]
        /\ owner' \in [Mutexes -> Threads \cup {NoOne}]
    BY <1>21 DEF LockInv
  <2> QED
    BY <2>1, <2>2 DEF LockInv, Plans, Needs, Holding, Rank
<1>22. UNCHANGED vars => UNCHANGED <<at, wants, owner>>
  BY DEF vars
<1>23. UserStops \/ Ended => UNCHANGED <<at, wants, owner>>
  BY <1>22 DEF UserStops, Ended
<1>24. CASE Input
  BY <1>0, <1>1, <1>2, <1>3, <1>4, <1>5, <1>6, <1>24, AcquireLocks DEF Input, LoopStep
<1>25. CASE Output
  BY <1>0, <1>1, <1>2, <1>3, <1>7, <1>25, AcquireLocks DEF Output, LoopStep
<1>26. CASE Receive
  BY <1>0, <1>8, <1>9, <1>10, <1>11, <1>26, AcquireLocks DEF Receive
<1>27. CASE Clock
  BY <1>0, <1>12, <1>13, <1>27, AcquireLocks DEF Clock
<1>28. CASE Main
  BY <1>0, <1>14, <1>15, <1>16, <1>17, <1>18, <1>19, <1>20, <1>28, AcquireLocks DEF Main, Stop
<1> QED
  BY <1>21, <1>22, <1>23, <1>24, <1>25, <1>26, <1>27, <1>28 DEF Next

\* Whoever owns a mutex and wants another wants one that comes later.
LEMMA WantsLater ==
    ASSUME LockInv, NEW t \in Threads, wants[t] # <<>>, NEW m \in Mutexes, owner[m] = t
    PROVE  Rank(m) < Rank(Head(wants[t])) /\ Head(wants[t]) \in Mutexes
<1>1. wants[t] \in Plans(t, at[t]) /\ at[t] \in Places /\ Holding(t, at[t], wants[t], m)
  BY DEF LockInv
<1> QED
  BY <1>1, PlansAreGood DEF Holding, GoodPlan

\* Threads that want something: one of them wants what comes last.
LEMMA LastWanted ==
    ASSUME LockInv, NEW T, T \subseteq Threads, T # {}, \A t \in T : wants[t] # <<>>
    PROVE  \E t \in T : \A u \in T : Rank(Head(wants[u])) <= Rank(Head(wants[t]))
<1> DEFINE R(t) == Rank(Head(wants[t]))
           U == {5 - R(t) : t \in T}
<1>1. \A t \in T : R(t) \in 1 .. 5
  <2>1. ASSUME NEW t \in T PROVE Head(wants[t]) \in Mutexes
    <3>1. wants[t] \in Plans(t, at[t]) /\ at[t] \in Places
      BY DEF LockInv
    <3> QED
      BY <3>1, PlansAreGood DEF GoodPlan
  <2> QED
    BY <2>1, RankType
<1> HIDE DEF R
<1>2. U \subseteq Nat /\ U # {}
  BY <1>1
<1>3. PICK x \in U : \A y \in U : x <= y
  BY <1>2, LeastNatural
<1>4. PICK t \in T : x = 5 - R(t)
  OBVIOUS
<1>5. ASSUME NEW u \in T PROVE R(u) <= R(t)
  <2>1. 5 - R(u) \in U
    OBVIOUS
  <2>2. 5 - R(t) <= 5 - R(u)
    BY <1>3, <1>4, <2>1
  <2> QED
    BY <1>1, <2>2
<1> QED
  BY <1>5 DEF R

\* The threads take their mutexes in one order and sleep without any, so that no
\* circle of them wait for each other.
THEOREM NoDeadlock == Spec => []NoLockDeadlock
<1>1. ASSUME LockInv, NEW T \in (SUBSET Threads) \ {{}}
      PROVE  \E t \in T : wants[t] # <<>> => owner[Head(wants[t])] \notin T
  <2> SUFFICES ASSUME \A t \in T : wants[t] # <<>> /\ owner[Head(wants[t])] \in T
               PROVE  FALSE
    OBVIOUS
  <2>0. T \subseteq Threads /\ T # {} /\ \A t \in T : wants[t] # <<>>
    OBVIOUS
  <2>1. PICK t \in T : \A u \in T : Rank(Head(wants[u])) <= Rank(Head(wants[t]))
    BY <1>1, <2>0, LastWanted
  <2> DEFINE m == Head(wants[t])
             u == owner[m]
  <2>2. m \in Mutexes
    <3>1. wants[t] \in Plans(t, at[t]) /\ at[t] \in Places
      BY <1>1 DEF LockInv
    <3> QED
      BY <3>1, PlansAreGood DEF GoodPlan
  <2>3. u \in T /\ wants[u] # <<>>
    OBVIOUS
  <2>4. Rank(m) < Rank(Head(wants[u])) /\ Head(wants[u]) \in Mutexes
    BY <1>1, <2>2, <2>3, WantsLater
  <2>5. Rank(Head(wants[u])) <= Rank(m)
    BY <2>1, <2>3
  <2> HIDE DEF m, u
  <2> QED
    BY <2>2, <2>4, <2>5, RankType
<1>2. ASSUME LockInv, NEW m \in Mutexes, owner[m] # NoOne
      PROVE  at[owner[m]] \notin {"waiting", "sleep", "join", "joinclock", "done"}
  <2>1. owner[m] \in Threads /\ m \in Needs(owner[m], at[owner[m]])
    BY <1>2 DEF LockInv, Holding
  <2> QED
    BY <2>1, NeedsAt
<1>3. LockInv => NoLockDeadlock
  BY <1>1, <1>2 DEF NoLockDeadlock
<1> QED
  BY <1>3, LockInit, LockStep, PTL DEF Spec

-----------------------------------------------------------------------------
(* Stopping, and what is counted *)

LEMMA PoolInit == Init => PoolInv
<1> SUFFICES ASSUME Init PROVE PoolInv
  OBVIOUS
<1>1. at["main"] = "game" /\ isRunning = TRUE /\ stopped = FALSE
  BY DEF Init, Threads, Pool, Loops
<1>2. /\ pool \in [1 .. 3 -> Pool]
      /\ \A i, j \in 1 .. 3 : pool[i] = pool[j] => i = j
  BY DEF Init, PoolOrders
<1>3. pool \in Seq(Pool) /\ pool # <<>> /\ DOMAIN pool = 1 .. 3
  <2>1. DOMAIN pool = 1 .. 3
    BY <1>2
  <2>2. pool \in Seq(Pool)
    <3>1. ASSUME NEW n \in Nat, NEW f \in [1 .. n -> Pool] PROVE f \in Seq(Pool)
      BY SeqDef
    <3> QED
      BY <1>2, <3>1
  <2>3. 1 \in DOMAIN pool
    BY <2>1
  <2> QED
    BY <2>1, <2>2, <2>3
<1>4. \A t \in Pool : \E i \in DOMAIN pool : pool[i] = t
  <2>1. pool[1] \in Pool /\ pool[2] \in Pool /\ pool[3] \in Pool
    BY <1>2
  <2>2. pool[1] # pool[2] /\ pool[1] # pool[3] /\ pool[2] # pool[3]
    BY <1>2
  <2>3. Pool = {"input", "output", "receive"}
    BY DEF Pool, Loops
  <2>4. 1 \in DOMAIN pool /\ 2 \in DOMAIN pool /\ 3 \in DOMAIN pool
    BY <1>3
  <2> QED
    BY <2>1, <2>2, <2>3, <2>4
<1> QED
  BY <1>1, <1>3, <1>4 DEF PoolInv

\* A step of another thread, which ends only for good.
LEMMA PoolKept ==
    ASSUME PoolInv, UNCHANGED <<isRunning, stopped, pool>>, at'["main"] = at["main"],
           \A t \in Pool : at[t] = "done" => at'[t] = "done"
    PROVE  PoolInv'
  BY DEF PoolInv

\* A thread goes from place to place.
LEMMA Went ==
    ASSUME LockInv, NEW t \in Threads, NEW p, NEW s, Goto(t, p, s)
    PROVE  at'[t] = p /\ wants'[t] = s
           /\ \A u \in Threads \ {t} : at'[u] = at[u] /\ wants'[u] = wants[u]
  BY DEF LockInv, Goto

LEMMA Woken ==
    ASSUME NEW t, t \notin Loops, t \in Threads, NEW p, NotifyAll(t, p, <<>>)
    PROVE  /\ at'[t] = p
           /\ \A u \in Threads \ {t} :
                 \/ at'[u] = at[u] /\ wants'[u] = wants[u]
                 \/ u \in Loops /\ at[u] = "waiting" /\ at'[u] = "pass"
  BY DEF NotifyAll

LEMMA ThreadNames ==
    /\ Pool = {"input", "output", "receive"} /\ Loops = {"input", "output"}
    /\ Threads = {"input", "output", "receive", "clock", "main"}
  BY DEF Threads, Pool, Loops

LEMMA PoolStep == LockInv /\ PoolInv /\ [Next]_vars => PoolInv'
<1> SUFFICES ASSUME LockInv, PoolInv, [Next]_vars PROVE PoolInv'
  OBVIOUS
<1> USE DEF lifecycle
<1>1. ASSUME NEW t \in Loops, StartLoop(t) \/ TestRunning(t) \/ Wait(t) PROVE PoolInv'
  <2>1. \E p \in Places, s \in {<<>>, <<"tick">>} : Goto(t, p, s)
    BY <1>1 DEF StartLoop, TestRunning, Wait, Places
  <2>2. UNCHANGED <<isRunning, stopped, pool>> /\ at[t] # "done"
    BY <1>1 DEF StartLoop, TestRunning, Wait, At
  <2> QED
    BY <2>1, <2>2, Went, ThreadNames, PoolKept
<1>2. ASSUME NEW t \in Threads, Acquire(t) PROVE PoolInv'
  BY <1>2, PoolKept DEF Acquire
<1>3. CASE InputAction \/ InputHandler \/ InputPassEnds
  <2>1. \E p \in Places, s \in {<<>>, Sender} : Goto("input", p, s)
    BY <1>3 DEF InputAction, InputHandler, InputPassEnds, Places
  <2>2. UNCHANGED <<isRunning, stopped, pool>> /\ at["input"] # "done"
    BY <1>3 DEF InputAction, InputHandler, InputPassEnds, At
  <2> QED
    BY <2>1, <2>2, Went, ThreadNames, PoolKept
<1>4. CASE OutputPass
  <2>1. /\ Goto("output", "test", <<>>) /\ UNCHANGED <<isRunning, stopped, pool>>
        /\ at["output"] # "done"
    BY <1>4 DEF OutputPass, At
  <2> QED
    BY <2>1, Went, ThreadNames, PoolKept
<1>5. CASE ReceiveDatagram \/ HandlePacketIds \/ HandleBodyDatas \/ ReceiveEnds
  <2>1. \E p \in Places : \E s : Goto("receive", p, s)
    BY <1>5 DEF ReceiveDatagram, HandlePacketIds, HandleBodyDatas, ReceiveEnds, Places
  <2>2. UNCHANGED <<isRunning, stopped, pool>> /\ at["receive"] # "done"
    BY <1>5 DEF ReceiveDatagram, HandlePacketIds, HandleBodyDatas, ReceiveEnds, At
  <2> QED
    BY <2>1, <2>2, Went, ThreadNames, PoolKept
<1>6. CASE ClockTest
  <2>1. \E p \in Places : \E s : Goto("clock", p, s)
    BY <1>6 DEF ClockTest, Places
  <2>2. UNCHANGED <<isRunning, stopped, pool>>
    BY <1>6 DEF ClockTest
  <2> QED
    BY <2>1, <2>2, Went, ThreadNames, PoolKept
<1>7. CASE ClockNotify
  <2>1. NotifyAll("clock", "sleep", <<>>) /\ UNCHANGED <<isRunning, stopped, pool>>
    BY <1>7 DEF ClockNotify
  <2> QED
    BY <2>1, Woken, ThreadNames, PoolKept
<1>8. CASE GameSystem
  <2>1. Goto("main", "system", Sender) /\ at["main"] = "game"
        /\ UNCHANGED <<isRunning, stopped, pool>>
    BY <1>8 DEF GameSystem, At
  <2> QED
    BY <2>1, Went, ThreadNames DEF PoolInv
<1>9. CASE GameSystemEnqueues
  <2>1. Goto("main", "game", <<>>) /\ at["main"] = "system"
        /\ UNCHANGED <<isRunning, stopped, pool>>
    BY <1>9 DEF GameSystemEnqueues, At
  <2> QED
    BY <2>1, Went, ThreadNames DEF PoolInv
<1>10. CASE StopRunning
  <2>1. Goto("main", "context", <<>>) /\ at["main"] = "game" /\ isRunning' = FALSE
        /\ UNCHANGED <<stopped, pool>>
    BY <1>10 DEF StopRunning, At
  <2>2. at'["main"] = "context" /\ \A t \in Pool : at'[t] = at[t]
    BY <2>1, Went, ThreadNames
  <2> QED
    BY <2>1, <2>2 DEF PoolInv
<1>11. CASE StopContext
  <2>1. Goto("main", "wake", <<"tick">>) /\ at["main"] = "context" /\ stopped' = TRUE
        /\ UNCHANGED <<isRunning, pool>>
    BY <1>11 DEF StopContext, At
  <2> QED
    BY <2>1, Went, ThreadNames DEF PoolInv
<1>12. CASE StopWakes
  <2>1. NotifyAll("main", "join", <<>>) /\ UNCHANGED <<isRunning, stopped, pool>>
        /\ at["main"] = "wake"
    BY <1>12 DEF StopWakes, At
  <2>2. at'["main"] = "join" /\ \A t \in Pool : at[t] = "done" => at'[t] = "done"
    BY <2>1, Woken, ThreadNames
  <2> QED
    BY <2>1, <2>2 DEF PoolInv
<1>13. CASE StopJoins
  <2>1. /\ at["main"] = "join" /\ at[Head(pool)] = "done" /\ pool' = Tail(pool)
        /\ UNCHANGED <<isRunning, stopped>>
        /\ IF pool' = <<>> THEN Goto("main", "joinclock", <<>>)
                           ELSE Goto("main", "wake", <<"tick">>)
    BY <1>13 DEF StopJoins, At
  <2>2. pool \in Seq(Pool) /\ pool # <<>>
    BY <2>1 DEF PoolInv
  <2>3. /\ pool' \in Seq(Pool) /\ Head(pool) = pool[1] /\ Len(pool) \in Nat \ {0}
        /\ DOMAIN pool = 1 .. Len(pool) /\ DOMAIN pool' = 1 .. Len(pool) - 1
        /\ \A i \in 1 .. Len(pool) - 1 : pool'[i] = pool[i + 1]
    BY <2>1, <2>2
  <2>4. \A t \in Pool : at'[t] = at[t]
    BY <2>1, Went, ThreadNames
  <2>5. ASSUME NEW t \in Pool, at'[t] # "done" PROVE \E i \in DOMAIN pool' : pool'[i] = t
    <3>1. PICK i \in DOMAIN pool : pool[i] = t
      BY <2>4, <2>5 DEF PoolInv
    <3>2. i # 1
      BY <2>1, <2>3, <2>4, <2>5, <3>1
    <3>3. i - 1 \in 1 .. Len(pool) - 1 /\ i - 1 + 1 = i
      BY <2>3, <3>1, <3>2
    <3> QED
      BY <2>3, <3>1, <3>3
  <2>6. /\ at'["main"] = IF pool' = <<>> THEN "joinclock" ELSE "wake"
    BY <2>1, Went, ThreadNames
  <2> QED
    BY <2>1, <2>3, <2>5, <2>6 DEF PoolInv
<1>14. CASE StopJoinsClock
  <2>1. Goto("main", "done", <<>>) /\ at["main"] = "joinclock"
        /\ UNCHANGED <<isRunning, stopped, pool>>
    BY <1>14 DEF StopJoinsClock, At
  <2> QED
    BY <2>1, Went, ThreadNames DEF PoolInv
<1>15. CASE UserStops \/ Ended \/ UNCHANGED vars
  <2>1. UNCHANGED <<at, isRunning, stopped, pool>>
    BY <1>15 DEF UserStops, Ended, vars
  <2> QED
    BY <2>1, PoolKept
<1>16. CASE Input
  BY <1>1, <1>2, <1>3, <1>16, ThreadNames DEF Input, LoopStep
<1>17. CASE Output
  BY <1>1, <1>2, <1>4, <1>17, ThreadNames DEF Output, LoopStep
<1>18. CASE Receive
  BY <1>2, <1>5, <1>18, ThreadNames DEF Receive
<1>19. CASE Clock
  BY <1>2, <1>6, <1>7, <1>19, ThreadNames DEF Clock
<1>20. CASE Main
  BY <1>2, <1>8, <1>9, <1>10, <1>11, <1>12, <1>13, <1>14, <1>20, ThreadNames DEF Main, Stop
<1> QED
  BY <1>15, <1>16, <1>17, <1>18, <1>19, <1>20 DEF Next

LEMMA CountInit == Init => CountInv
<1> SUFFICES ASSUME Init PROVE CountInv
  OBVIOUS
<1>1. at["receive"] = "receiving"
  BY ThreadNames DEF Init
<1>2. /\ received = 0 /\ actions = 0 /\ enqueued = 0 /\ sceneStop = FALSE
      /\ outputQueue = {} /\ waited = {}
  BY DEF Init
<1>3. 0 \in 0 .. MaxReceived /\ 0 \in 0 .. MaxPackets
  BY ThreadsAssumption
<1>4. at["main"] # "system" /\ 0 \in Nat /\ 0 + 0 <= 0
  BY ThreadNames DEF Init
<1>5. actions + (IF at["receive"] \in {"header", "again", "body"} THEN 1 ELSE 0) <= received
  BY <1>1, <1>2, <1>4
<1>6. received \in 0 .. MaxReceived /\ actions \in Nat /\ enqueued \in 0 .. MaxPackets
  BY <1>2, <1>3, <1>4
<1> QED
  BY <1>2, <1>4, <1>5, <1>6 DEF CountInv

\* A step that counts nothing and leaves the receive handler where it is.
LEMMA CountKept ==
    ASSUME CountInv, UNCHANGED <<received, actions, enqueued>>, at'["receive"] = at["receive"],
           at'["main"] = at["main"] \/ at'["main"] # "system", sceneStop' \in BOOLEAN, waited' \in SUBSET Loops,
           outputQueue' \in SUBSET [by : Threads, inTime : BOOLEAN]
    PROVE  CountInv'
  BY DEF CountInv

LEMMA EnqueueType ==
    ASSUME NEW t \in Threads, CountInv, PoolInv, Enqueue(t)
    PROVE  outputQueue' \in SUBSET [by : Threads, inTime : BOOLEAN]
<1> DEFINE new == [by |-> t, inTime |-> isRunning /\ "output" \in waited]
<1>1. (isRunning /\ "output" \in waited) \in BOOLEAN
  BY DEF PoolInv
<1>2. new \in [by : Threads, inTime : BOOLEAN]
  BY <1>1
<1>3. outputQueue' = outputQueue \cup {new}
  BY DEF Enqueue
<1> HIDE DEF new
<1> QED
  BY <1>2, <1>3 DEF CountInv

LEMMA CountStep == LockInv /\ PoolInv /\ CountInv /\ [Next]_vars => CountInv'
<1> SUFFICES ASSUME LockInv, PoolInv, CountInv, [Next]_vars PROVE CountInv'
  OBVIOUS
<1> USE DEF lifecycle, queues
<1>0. /\ sceneStop \in BOOLEAN /\ waited \in SUBSET Loops
      /\ outputQueue \in SUBSET [by : Threads, inTime : BOOLEAN]
  BY DEF CountInv
<1>1. ASSUME NEW t \in Loops, StartLoop(t) \/ TestRunning(t) \/ Wait(t) PROVE CountInv'
  <2>1. \E p \in Places, s \in {<<>>, <<"tick">>} : Goto(t, p, s)
    BY <1>1 DEF StartLoop, TestRunning, Wait, Places
  <2>2. /\ UNCHANGED <<received, actions, enqueued, sceneStop, outputQueue>>
        /\ waited' \in SUBSET Loops
    BY <1>0, <1>1 DEF StartLoop, TestRunning, Wait
  <2>3. at'["receive"] = at["receive"] /\ at'["main"] = at["main"]
    BY <2>1, Went, ThreadNames
  <2> QED
    BY <1>0, <2>2, <2>3, CountKept
<1>2. ASSUME NEW t \in Threads, Acquire(t) PROVE CountInv'
  BY <1>0, <1>2, CountKept DEF Acquire
<1>3. CASE InputAction
  <2>1. /\ Goto("input", "handler", Sender) /\ actions > 0 /\ actions' = actions - 1
        /\ UNCHANGED <<received, enqueued, sceneStop, outputQueue, waited>>
    BY <1>3 DEF InputAction
  <2>2. at'["receive"] = at["receive"] /\ at'["main"] = at["main"]
    BY <2>1, Went, ThreadNames
  <2> QED
    BY <2>1, <2>2 DEF CountInv
<1>4. CASE InputHandler
  <2>1. /\ Goto("input", "pass", <<>>) /\ Enqueue("input") /\ sceneStop' \in {sceneStop, TRUE}
        /\ UNCHANGED <<received, actions, enqueued, waited>>
    BY <1>4 DEF InputHandler
  <2>2. at'["receive"] = at["receive"] /\ at'["main"] = at["main"]
    BY <2>1, Went, ThreadNames
  <2>3. outputQueue' \in SUBSET [by : Threads, inTime : BOOLEAN]
    BY <2>1, EnqueueType, ThreadNames
  <2> QED
    BY <1>0, <2>1, <2>2, <2>3, CountKept
<1>5. CASE InputPassEnds
  <2>1. /\ Goto("input", "test", <<>>)
        /\ UNCHANGED <<received, actions, enqueued, sceneStop, outputQueue, waited>>
    BY <1>5 DEF InputPassEnds
  <2> QED
    BY <1>0, <2>1, Went, ThreadNames, CountKept
<1>6. CASE OutputPass
  <2>1. /\ Goto("output", "test", <<>>) /\ outputQueue' = {}
        /\ UNCHANGED <<received, actions, enqueued, sceneStop, waited>>
    BY <1>6 DEF OutputPass
  <2> QED
    BY <1>0, <2>1, Went, ThreadNames, CountKept
<1>7. CASE ReceiveDatagram
  <2>1. /\ received < MaxReceived /\ received' = received + 1 /\ at["receive"] = "receiving"
        /\ UNCHANGED <<actions, enqueued, sceneStop, outputQueue, waited>>
    BY <1>7 DEF ReceiveDatagram, At
  <2>2. at'["receive"] \in {"header", "again"} /\ at'["main"] = at["main"]
    BY <1>7, Went, ThreadNames DEF ReceiveDatagram
  <2> QED
    BY <2>1, <2>2, ThreadsAssumption DEF CountInv
<1>8. CASE HandlePacketIds
  <2>1. /\ at["receive"] \in {"header", "again"} /\ at'["receive"] = "body"
        /\ at'["main"] = at["main"]
        /\ UNCHANGED <<received, actions, enqueued, sceneStop, waited>>
    BY <1>8, Went, ThreadNames DEF HandlePacketIds, At
  <2>2. outputQueue' \in SUBSET [by : Threads, inTime : BOOLEAN]
    BY <1>0, <1>8, EnqueueType, ThreadNames DEF HandlePacketIds
  <2> QED
    BY <2>1, <2>2 DEF CountInv
<1>9. CASE HandleBodyDatas
  <2>1. /\ at["receive"] = "body" /\ at'["receive"] = "receiving" /\ actions' = actions + 1
        /\ at'["main"] = at["main"]
        /\ UNCHANGED <<received, enqueued, sceneStop, outputQueue, waited>>
    BY <1>9, Went, ThreadNames DEF HandleBodyDatas, At
  <2> QED
    BY <2>1 DEF CountInv
<1>10. CASE ReceiveEnds
  <2>1. /\ at["receive"] = "receiving" /\ at'["receive"] = "done" /\ at'["main"] = at["main"]
        /\ UNCHANGED <<received, actions, enqueued, sceneStop, outputQueue, waited>>
    BY <1>10, Went, ThreadNames DEF ReceiveEnds, At
  <2> QED
    BY <2>1 DEF CountInv
<1>11. CASE ClockTest \/ ClockNotify
  <2>1. UNCHANGED <<received, actions, enqueued, sceneStop, outputQueue, waited>>
    BY <1>11 DEF ClockTest, ClockNotify
  <2>2. CASE ClockTest
    <3>1. \E p, s : Goto("clock", p, s)
      BY <2>2 DEF ClockTest
    <3> QED
      BY <1>0, <2>1, <3>1, Went, ThreadNames, CountKept
  <2>3. CASE ClockNotify
    <3>1. NotifyAll("clock", "sleep", <<>>)
      BY <2>3 DEF ClockNotify
    <3> QED
      BY <1>0, <2>1, <3>1, Woken, ThreadNames, CountKept
  <2> QED
    BY <1>11, <2>2, <2>3
<1>12. CASE GameSystem
  <2>1. /\ Goto("main", "system", Sender) /\ enqueued < MaxPackets
        /\ UNCHANGED <<received, actions, enqueued, sceneStop, outputQueue, waited>>
    BY <1>12 DEF GameSystem
  <2>2. at'["receive"] = at["receive"]
    BY <2>1, Went, ThreadNames
  <2> QED
    BY <2>1, <2>2 DEF CountInv
<1>13. CASE GameSystemEnqueues
  <2>1. /\ Goto("main", "game", <<>>) /\ Enqueue("main") /\ enqueued' = enqueued + 1
        /\ at["main"] = "system" /\ UNCHANGED <<received, actions, sceneStop, waited>>
    BY <1>13 DEF GameSystemEnqueues, At
  <2>2. at'["receive"] = at["receive"] /\ at'["main"] = "game"
    BY <2>1, Went, ThreadNames
  <2>3. outputQueue' \in SUBSET [by : Threads, inTime : BOOLEAN]
    BY <2>1, EnqueueType, ThreadNames
  <2>4. enqueued' \in 0 .. MaxPackets
    BY <2>1, ThreadsAssumption DEF CountInv
  <2> QED
    BY <2>1, <2>2, <2>3, <2>4 DEF CountInv
<1>14. CASE Stop
  <2>1. /\ UNCHANGED <<received, actions, enqueued, sceneStop, outputQueue, waited>>
        /\ (StopWakes /\ NotifyAll("main", "join", <<>>))
             \/ \E p \in {"context", "wake", "joinclock", "done"} : \E s : Goto("main", p, s)
    BY <1>14 DEF Stop, StopRunning, StopContext, StopWakes, StopJoins, StopJoinsClock
  <2>2. at'["receive"] = at["receive"] /\ at'["main"] # "system"
    BY <2>1, Went, Woken, ThreadNames
  <2> QED
    BY <1>0, <2>1, <2>2, CountKept
<1>15. CASE UserStops \/ Ended \/ UNCHANGED vars
  <2>1. /\ UNCHANGED <<at, received, actions, enqueued, outputQueue, waited>>
        /\ sceneStop' \in BOOLEAN
    BY <1>0, <1>15 DEF UserStops, Ended, vars
  <2> QED
    BY <1>0, <2>1, CountKept
<1>16. CASE Input
  BY <1>1, <1>2, <1>3, <1>4, <1>5, <1>16, ThreadNames DEF Input, LoopStep
<1>17. CASE Output
  BY <1>1, <1>2, <1>6, <1>17, ThreadNames DEF Output, LoopStep
<1>18. CASE Receive
  BY <1>2, <1>7, <1>8, <1>9, <1>10, <1>18, ThreadNames DEF Receive
<1>19. CASE Clock
  BY <1>2, <1>11, <1>19, ThreadNames DEF Clock
<1>20. CASE Main
  BY <1>2, <1>12, <1>13, <1>14, <1>20, ThreadNames DEF Main
<1> QED
  BY <1>15, <1>16, <1>17, <1>18, <1>19, <1>20 DEF Next

\* The types of the state, and that no thread asks for a mutex it holds.
THEOREM TypeCorrect == Spec => []TypeOK
<1>1. ASSUME LockInv, PoolInv, CountInv PROVE TypeOK
  <2>1. ASSUME NEW t \in Threads
        PROVE  /\ wants[t] \in Seq(Mutexes)
               /\ \A i \in DOMAIN wants[t] : owner[wants[t][i]] # t
    <3>1. GoodPlan(t, at[t], wants[t])
      BY <1>1, PlansAreGood DEF LockInv
    <3>2. \A i \in DOMAIN wants[t] : wants[t][i] \in Mutexes
      BY <3>1 DEF GoodPlan
    <3> QED
      BY <1>1, <3>1, <3>2 DEF GoodPlan, LockInv
  <2>2. wants \in [Threads -> Seq(Mutexes)]
    BY <1>1 DEF LockInv
  <2>3. /\ at \in [Threads -> Places] /\ owner \in [Mutexes -> Threads \cup {NoOne}]
    BY <1>1 DEF LockInv
  <2>4. isRunning \in BOOLEAN /\ stopped \in BOOLEAN /\ pool \in Seq(Pool)
    BY <1>1 DEF PoolInv
  <2>5. actions \in 0 .. MaxReceived
    BY <1>1, ThreadsAssumption DEF CountInv
  <2> QED
    BY <1>1, <2>1, <2>2, <2>3, <2>4, <2>5 DEF TypeOK, CountInv
<1> QED
  BY <1>1, LockInit, LockStep, PoolInit, PoolStep, CountInit, CountStep, PTL DEF Spec

-----------------------------------------------------------------------------
(* What the handlers enqueue is sent *)

LEMMA SendInit == Init => SendInv
<1> SUFFICES ASSUME Init PROVE SendInv
  OBVIOUS
<1>1. at["output"] = "posted" /\ waited = {} /\ outputQueue = {}
  BY ThreadNames DEF Init
<1> QED
  BY <1>1 DEF SendInv

\* A step of another thread that enqueues nothing for a handler.
LEMMA SendKept ==
    ASSUME SendInv, isRunning' => isRunning, "output" \in waited' => "output" \in waited,
           \A p \in outputQueue' : p \in outputQueue \/ p.by # "input",
           \/ at'["output"] = at["output"] /\ wants'["output"] = wants["output"]
           \/ at["output"] = "waiting" /\ at'["output"] = "pass"
    PROVE  SendInv'
  BY DEF SendInv

LEMMA EnqueuedBy ==
    ASSUME NEW t, Enqueue(t), NEW p \in outputQueue', p \notin outputQueue
    PROVE  p.by = t /\ (p.inTime => isRunning /\ "output" \in waited)
<1> DEFINE now == isRunning /\ "output" \in waited
<1>1. p = [by |-> t, inTime |-> now]
  BY DEF Enqueue
<1> HIDE DEF now
<1>2. p.by = t /\ p.inTime = now
  BY <1>1
<1>3. p.inTime => now
  BY <1>2, Zenon
<1> QED
  BY <1>2, <1>3 DEF now

LEMMA SendStep == LockInv /\ PoolInv /\ SendInv /\ [Next]_vars => SendInv'
<1> SUFFICES ASSUME LockInv, PoolInv, SendInv, [Next]_vars PROVE SendInv'
  OBVIOUS
<1> USE DEF lifecycle, queues
<1>1. ASSUME NEW t \in Loops, StartLoop(t) PROVE SendInv'
  <2>1. /\ at[t] = "posted" /\ UNCHANGED <<isRunning, outputQueue, waited>>
        /\ IF stopped THEN Goto(t, "done", <<>>) ELSE Goto(t, "test", <<"tick">>)
    BY <1>1 DEF StartLoop, At
  <2>2. CASE t = "output"
    <3>1. "output" \notin waited /\ \A p \in outputQueue : ~(p.by = "input" /\ p.inTime)
      BY <2>1, <2>2 DEF SendInv
    <3>2. at'["output"] = "done" => ~isRunning
      <4>1. stopped => ~isRunning
        BY DEF PoolInv
      <4> QED
        BY <2>1, <2>2, <4>1, Went, ThreadNames
    <3> QED
      BY <2>1, <3>1, <3>2 DEF SendInv
  <2>3. CASE t # "output"
    BY <2>1, <2>3, Went, ThreadNames, SendKept
  <2> QED
    BY <2>2, <2>3
<1>2. ASSUME NEW t \in Loops, TestRunning(t) PROVE SendInv'
  <2>1. /\ at[t] = "test" /\ UNCHANGED <<isRunning, outputQueue, waited>>
        /\ IF isRunning THEN Goto(t, "towait", <<>>) ELSE Goto(t, "done", <<>>)
    BY <1>2 DEF TestRunning, At
  <2>2. CASE t = "output"
    <3>1. \A p \in outputQueue : ~(p.by = "input" /\ p.inTime)
      BY <2>1, <2>2 DEF SendInv
    <3>2. /\ at'["output"] \in {"towait", "done"}
          /\ at'["output"] = "done" => ~isRunning
      BY <2>1, <2>2, Went, ThreadNames
    <3> QED
      BY <2>1, <3>1, <3>2 DEF SendInv
  <2>3. CASE t # "output"
    BY <2>1, <2>3, Went, ThreadNames, SendKept
  <2> QED
    BY <2>2, <2>3
<1>3. ASSUME NEW t \in Loops, Wait(t) PROVE SendInv'
  <2>1. /\ at[t] = "towait" /\ UNCHANGED <<isRunning, outputQueue>>
        /\ Goto(t, "waiting", <<>>) /\ waited' = waited \cup {t}
    BY <1>3 DEF Wait, At
  <2>2. CASE t = "output"
    <3>1. at'["output"] = "waiting"
      BY <2>1, <2>2, Went, ThreadNames
    <3> QED
      BY <2>1, <3>1 DEF SendInv
  <2>3. CASE t # "output"
    BY <2>1, <2>3, Went, ThreadNames, SendKept
  <2> QED
    BY <2>2, <2>3
<1>4. ASSUME NEW t \in Threads, Acquire(t) PROVE SendInv'
  <2>1. /\ wants[t] # <<>> /\ wants' = [wants EXCEPT ![t] = Tail(@)]
        /\ UNCHANGED <<at, isRunning, outputQueue, waited>> /\ wants \in [Threads -> Seq(Mutexes)]
    BY <1>4 DEF Acquire, LockInv
  <2>2. CASE t = "output"
    BY <2>1, <2>2 DEF SendInv
  <2>3. CASE t # "output"
    BY <2>1, <2>3, ThreadNames, SendKept
  <2> QED
    BY <2>2, <2>3
<1>5. CASE InputAction \/ InputPassEnds
  <2>1. /\ UNCHANGED <<isRunning, outputQueue, waited>>
        /\ \E p, s : Goto("input", p, s)
    BY <1>5 DEF InputAction, InputPassEnds
  <2> QED
    BY <2>1, Went, ThreadNames, SendKept
<1>6. CASE InputHandler
  <2>1. /\ At("input", "handler") /\ Enqueue("input") /\ Goto("input", "pass", <<>>)
        /\ UNCHANGED <<isRunning, waited>>
    BY <1>6 DEF InputHandler
  <2>2. at'["output"] = at["output"] /\ wants'["output"] = wants["output"]
    BY <2>1, Went, ThreadNames
  <2>3. ASSUME isRunning, "output" \in waited PROVE at["output"] \in {"waiting", "pass"}
    <3>1. "tick" \in Mutexes /\ "tick" \in Needs("input", "handler")
      BY NeedsAt DEF Mutexes
    <3>2. owner["tick"] = "input"
      BY <2>1, <3>1, HeldAt, ThreadNames
    <3>3. ~Holding("output", at["output"], wants["output"], "tick")
      BY <3>1, <3>2, ThreadNames DEF LockInv
    <3>4. ~(at["output"] \in {"test", "towait"} /\ wants["output"] = <<>>)
      BY <3>3, NeedsAt DEF Holding
    <3>5. at["output"] = "towait" => wants["output"] = <<>>
      BY PlansAt, ThreadNames DEF LockInv
    <3> QED
      BY <2>3, <3>4, <3>5 DEF SendInv
  <2>4. \A p \in outputQueue' : p.by = "input" /\ p.inTime => at["output"] \in {"waiting", "pass"}
    BY <2>1, <2>3, EnqueuedBy DEF SendInv
  <2> QED
    BY <2>1, <2>2, <2>4 DEF SendInv
<1>7. CASE OutputPass
  <2>1. /\ Goto("output", "test", <<>>) /\ outputQueue' = {} /\ UNCHANGED <<isRunning, waited>>
    BY <1>7 DEF OutputPass
  <2>2. at'["output"] = "test" /\ wants'["output"] = <<>>
    BY <2>1, Went, ThreadNames
  <2> QED
    BY <2>1, <2>2 DEF SendInv
<1>8. CASE Receive /\ ~Acquire("receive")
  <2>1. /\ UNCHANGED <<isRunning, waited>> /\ \E p, s : Goto("receive", p, s)
        /\ UNCHANGED outputQueue \/ Enqueue("receive")
    BY <1>8 DEF Receive, ReceiveDatagram, HandlePacketIds, HandleBodyDatas, ReceiveEnds
  <2>2. \A p \in outputQueue' : p \in outputQueue \/ p.by # "input"
    BY <2>1, EnqueuedBy
  <2> QED
    BY <2>1, <2>2, Went, ThreadNames, SendKept
<1>9. CASE ClockTest
  <2>1. UNCHANGED <<isRunning, outputQueue, waited>> /\ \E p, s : Goto("clock", p, s)
    BY <1>9 DEF ClockTest
  <2> QED
    BY <2>1, Went, ThreadNames, SendKept
<1>10. CASE ClockNotify
  <2>1. UNCHANGED <<isRunning, outputQueue, waited>> /\ NotifyAll("clock", "sleep", <<>>)
    BY <1>10 DEF ClockNotify
  <2>2. \/ at'["output"] = at["output"] /\ wants'["output"] = wants["output"]
        \/ at["output"] = "waiting" /\ at'["output"] = "pass"
    <3>1. "clock" \in Threads /\ "clock" \notin Loops /\ "output" \in Threads \ {"clock"}
      BY ThreadNames
    <3> QED
      BY <2>1, <3>1, Woken
  <2> QED
    BY <2>1, <2>2, SendKept
<1>11. CASE GameSystem \/ GameSystemEnqueues
  <2>1. /\ UNCHANGED <<isRunning, waited>> /\ \E p, s : Goto("main", p, s)
        /\ UNCHANGED outputQueue \/ Enqueue("main")
    BY <1>11 DEF GameSystem, GameSystemEnqueues
  <2>2. \A p \in outputQueue' : p \in outputQueue \/ p.by # "input"
    BY <2>1, EnqueuedBy
  <2> QED
    BY <2>1, <2>2, Went, ThreadNames, SendKept
<1>12. CASE StopRunning \/ StopContext \/ StopJoins \/ StopJoinsClock
  <2>1. /\ UNCHANGED <<outputQueue, waited>> /\ \E p, s : Goto("main", p, s)
        /\ isRunning' => isRunning
    BY <1>12 DEF StopRunning, StopContext, StopJoins, StopJoinsClock
  <2> QED
    BY <2>1, Went, ThreadNames, SendKept
<1>13. CASE StopWakes
  <2>1. UNCHANGED <<isRunning, outputQueue, waited>> /\ NotifyAll("main", "join", <<>>)
    BY <1>13 DEF StopWakes
  <2>2. \/ at'["output"] = at["output"] /\ wants'["output"] = wants["output"]
        \/ at["output"] = "waiting" /\ at'["output"] = "pass"
    <3>1. "main" \in Threads /\ "main" \notin Loops /\ "output" \in Threads \ {"main"}
      BY ThreadNames
    <3> QED
      BY <2>1, <3>1, Woken
  <2> QED
    BY <2>1, <2>2, SendKept
<1>14. CASE UserStops \/ Ended \/ UNCHANGED vars
  <2>1. UNCHANGED <<at, wants, isRunning, outputQueue, waited>>
    BY <1>14 DEF UserStops, Ended, vars
  <2> QED
    BY <2>1, SendKept
<1>15. CASE Input
  BY <1>1, <1>2, <1>3, <1>4, <1>5, <1>6, <1>15, ThreadNames DEF Input, LoopStep
<1>16. CASE Output
  BY <1>1, <1>2, <1>3, <1>4, <1>7, <1>16, ThreadNames DEF Output, LoopStep
<1>17. CASE Receive
  BY <1>4, <1>8, <1>17, ThreadNames
<1>18. CASE Clock
  BY <1>4, <1>9, <1>10, <1>18, ThreadNames DEF Clock
<1>19. CASE Main
  BY <1>4, <1>11, <1>12, <1>13, <1>19, ThreadNames DEF Main, Stop
<1> QED
  BY <1>14, <1>15, <1>16, <1>17, <1>18, <1>19 DEF Next

\* stop() leaves nothing in the queue that a handler enqueued in time: the output loop
\* has not ended then, and empties its queue once more before it does.
THEOREM HandlersAreHeard == Spec => []HandlerPacketsAreSent
<1>1. ASSUME PoolInv, SendInv PROVE HandlerPacketsAreSent
  <2>1. at["main"] = "done" => pool = <<>>
    BY <1>1 DEF PoolInv
  <2>2. DOMAIN << >> = {}
    OBVIOUS
  <2>3. at["main"] = "done" => at["output"] = "done"
    BY <1>1, <2>1, <2>2, ThreadNames DEF PoolInv
  <2> QED
    BY <1>1, <2>3 DEF HandlerPacketsAreSent, SendInv
<1> QED
  BY <1>1, LockInit, LockStep, PoolInit, PoolStep, SendInit, SendStep, PTL DEF Spec
==============================================================================
