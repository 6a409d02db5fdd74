----------------------------- MODULE WavesProofs -----------------------------
(***************************************************************************)
(* Proofs about the waves of a game, for any clients, any number and size  *)
(* of waves and any number of enemies counted in earlier games.            *)
(***************************************************************************)
EXTENDS Waves, Induction, SequenceTheorems, TLAPS

-----------------------------------------------------------------------------
(* The sums of the sizes of the waves *)

\* The first n + 1 values of the recursion of Total.
IsTotalTo(f, n) == f = [w \in 0 .. n |-> IF w = 0 THEN 0 ELSE f[w - 1] + Size[w]]

LEMMA TotalToUnique ==
    ASSUME NEW m \in Nat, NEW n \in Nat, NEW f, NEW g, IsTotalTo(f, m), IsTotalTo(g, n),
           NEW w \in Nat, w <= m, w <= n
    PROVE  f[w] = g[w]
<1> DEFINE U == {v \in Nat : v <= m /\ v <= n /\ f[v] # g[v]}
<1> SUFFICES ASSUME U # {} PROVE FALSE
  OBVIOUS
<1>1. PICK v \in U : \A u \in U : v <= u
  BY LeastNatural
<1>2. f[v] = IF v = 0 THEN 0 ELSE f[v - 1] + Size[v]
  BY DEF IsTotalTo
<1>3. g[v] = IF v = 0 THEN 0 ELSE g[v - 1] + Size[v]
  BY DEF IsTotalTo
<1>4. CASE v = 0
  BY <1>2, <1>3, <1>4
<1>5. CASE v # 0
  <2>1. v - 1 \in Nat /\ v - 1 <= m /\ v - 1 <= n /\ v - 1 < v
    BY <1>5
  <2>2. f[v - 1] = g[v - 1]
    BY <1>1, <2>1
  <2> QED
    BY <1>2, <1>3, <1>5, <2>2
<1> QED
  BY <1>4, <1>5

LEMMA TotalToExists ==
    ASSUME NEW n \in Nat
    PROVE  \E f : IsTotalTo(f, n)
<1> DEFINE U == {v \in Nat : ~ \E f : IsTotalTo(f, v)}
<1> SUFFICES ASSUME U # {} PROVE FALSE
  OBVIOUS
<1>1. PICK v \in U : \A u \in U : v <= u
  BY LeastNatural
<1>2. CASE v = 0
  <2> DEFINE f == [w \in 0 .. 0 |-> 0]
  <2>1. IsTotalTo(f, 0)
    BY DEF IsTotalTo
  <2> QED
    BY <1>2, <2>1
<1>3. CASE v # 0
  <2>1. v - 1 \in Nat /\ v - 1 < v
    BY <1>3
  <2>2. PICK g : IsTotalTo(g, v - 1)
    BY <1>1, <2>1
  <2> DEFINE f == [w \in 0 .. v |-> IF w = v THEN g[v - 1] + Size[v] ELSE g[w]]
  <2>3. ASSUME NEW w \in 0 .. v
        PROVE  f[w] = IF w = 0 THEN 0 ELSE f[w - 1] + Size[w]
    <3>1. CASE w = v
      BY <1>3, <3>1
    <3>2. CASE w # v
      <4>1. w \in 0 .. v - 1
        BY <3>2
      <4>2. g[w] = IF w = 0 THEN 0 ELSE g[w - 1] + Size[w]
        BY <2>2, <4>1 DEF IsTotalTo
      <4> QED
        BY <3>2, <4>1, <4>2
    <3> QED
      BY <3>1, <3>2
  <2>4. f = [w \in 0 .. v |-> IF w = 0 THEN 0 ELSE f[w - 1] + Size[w]]
    BY <2>3
  <2> QED
    BY <2>4 DEF IsTotalTo
<1> QED
  BY <1>2, <1>3

\* The recursive function Total is what its definition says.
LEMMA TotalDef == Total = [w \in Nat |-> IF w = 0 THEN 0 ELSE Total[w - 1] + Size[w]]
<1> DEFINE To(n) == CHOOSE f : IsTotalTo(f, n)
           F == [w \in Nat |-> To(w)[w]]
<1>1. ASSUME NEW n \in Nat PROVE IsTotalTo(To(n), n)
  BY TotalToExists
<1> HIDE DEF To
<1>2. ASSUME NEW w \in Nat
      PROVE  F[w] = IF w = 0 THEN 0 ELSE F[w - 1] + Size[w]
  <2>1. To(w)[w] = IF w = 0 THEN 0 ELSE To(w)[w - 1] + Size[w]
    BY <1>1 DEF IsTotalTo
  <2>2. CASE w = 0
    BY <2>1, <2>2
  <2>3. CASE w # 0
    <3>1. w - 1 \in Nat
      BY <2>3
    <3>2. IsTotalTo(To(w), w) /\ IsTotalTo(To(w - 1), w - 1)
      BY <1>1, <3>1
    <3>3. To(w)[w - 1] = To(w - 1)[w - 1]
      BY <3>1, <3>2, TotalToUnique
    <3> QED
      BY <2>1, <2>3, <3>1, <3>3
  <2> QED
    BY <2>2, <2>3
<1> HIDE DEF F
<1>3. F = [w \in Nat |-> IF w = 0 THEN 0 ELSE F[w - 1] + Size[w]]
  <2>1. F = [w \in Nat |-> F[w]]
    BY DEF F
  <2> QED
    BY <1>2, <2>1
<1> QED
  BY <1>3 DEF Total

\* The waves are numbered from 1, and none of them is empty.
LEMMA SizeType ==
    /\ Len(Size) \in Nat
    /\ Waves = 1 .. Len(Size)
    /\ \A w \in Waves : Size[w] \in Nat /\ Size[w] > 0
  BY WavesAssumption, LenProperties DEF Waves

LEMMA TotalStep ==
    /\ Total[0] = 0
    /\ \A w \in Nat \ {0} : Total[w] = Total[w - 1] + Size[w]
<1>1. \A w \in Nat : Total[w] = IF w = 0 THEN 0 ELSE Total[w - 1] + Size[w]
  BY TotalDef, Zenon
<1> QED
  BY <1>1

LEMMA TotalType ==
    ASSUME NEW w \in Nat, w <= Len(Size)
    PROVE  Total[w] \in Nat
<1> DEFINE U == {v \in Nat : v <= Len(Size) /\ Total[v] \notin Nat}
<1> SUFFICES ASSUME U # {} PROVE FALSE
  OBVIOUS
<1>1. PICK v \in U : \A u \in U : v <= u
  BY LeastNatural
<1>2. v # 0
  BY <1>1, TotalStep
<1>3. v - 1 \in Nat /\ v - 1 < v /\ v - 1 <= Len(Size) /\ v \in Waves
  BY <1>2, SizeType
<1>4. Total[v - 1] \in Nat
  BY <1>1, <1>3
<1>5. Total[v] = Total[v - 1] + Size[v]
  BY <1>2, TotalStep
<1> QED
  BY <1>1, <1>3, <1>4, <1>5, SizeType

LEMMA TotalMonotone ==
    ASSUME NEW v \in Nat, NEW w \in Nat, v <= w, w <= Len(Size)
    PROVE  Total[v] <= Total[w]
<1> DEFINE U == {u \in Nat : v <= u /\ u <= Len(Size) /\ ~ (Total[v] <= Total[u])}
<1> SUFFICES ASSUME U # {} PROVE FALSE
  OBVIOUS
<1>1. PICK u \in U : \A x \in U : u <= x
  BY LeastNatural
<1>2. Total[v] \in Nat /\ Total[u] \in Nat
  BY TotalType, SizeType
<1>3. u # v
  BY <1>2
<1>4. u - 1 \in Nat /\ v <= u - 1 /\ u - 1 < u /\ u - 1 <= Len(Size) /\ u \in Waves
  BY <1>3, SizeType
<1>5. Total[v] <= Total[u - 1] /\ Total[u - 1] \in Nat
  BY <1>1, <1>4, TotalType
<1>6. Total[u] = Total[u - 1] + Size[u]
  BY <1>4, TotalStep
<1> QED
  BY <1>2, <1>4, <1>5, <1>6, SizeType

-----------------------------------------------------------------------------
(* The numbers of the enemies *)

\* The number that an enemy of the assets has where every enemy of every wave before
\* it has been counted, once.
Num(e) == Total[e[1] - 1] + e[2] - 1

LEMMA EnemyType ==
    ASSUME NEW e \in Enemies
    PROVE  /\ e[1] \in Waves /\ e[1] - 1 \in Nat /\ e[1] - 1 <= Len(Size)
           /\ e[2] \in 1 .. Size[e[1]]
           /\ e = <<e[1], e[2]>>
           /\ Num(e) \in Nat
           /\ Total[e[1] - 1] <= Num(e) /\ Num(e) < Total[e[1]]
<1>1. e[1] \in Waves /\ e[2] \in 1 .. Size[e[1]] /\ e = <<e[1], e[2]>>
  BY DEF Enemies
<1>2. e[1] - 1 \in Nat /\ e[1] - 1 <= Len(Size) /\ e[1] \in Nat \ {0} /\ Size[e[1]] \in Nat
  BY <1>1, SizeType
<1>3. Total[e[1] - 1] \in Nat /\ Total[e[1]] = Total[e[1] - 1] + Size[e[1]]
  BY <1>2, TotalType, TotalStep
<1> QED
  BY <1>1, <1>2, <1>3 DEF Num

LEMMA NumInjective ==
    ASSUME NEW e \in Enemies, NEW f \in Enemies, Num(e) = Num(f)
    PROVE  e = f
<1>1. ASSUME NEW x \in Enemies, NEW y \in Enemies, x[1] < y[1]
      PROVE  Num(x) < Num(y)
  <2>0. x[1] \in Waves /\ y[1] \in Waves
    BY EnemyType
  <2>1. /\ x[1] \in Nat /\ x[1] <= Len(Size) /\ y[1] - 1 \in Nat
        /\ x[1] <= y[1] - 1 /\ y[1] - 1 <= Len(Size)
    BY <1>1, <2>0, SizeType
  <2>2. Total[x[1]] <= Total[y[1] - 1]
    BY <2>1, TotalMonotone
  <2>3. Total[x[1]] \in Nat /\ Total[y[1] - 1] \in Nat
    BY <2>1, TotalType
  <2>4. Num(x) < Total[x[1]] /\ Total[y[1] - 1] <= Num(y) /\ Num(x) \in Nat /\ Num(y) \in Nat
    BY EnemyType
  <2> QED
    BY <2>2, <2>3, <2>4
<1>2. Num(e) \in Nat /\ e[1] \in Nat /\ f[1] \in Nat
  BY EnemyType, SizeType
<1>3. ~(e[1] < f[1]) /\ ~(f[1] < e[1])
  BY <1>1, <1>2
<1>4. e[1] = f[1]
  BY <1>2, <1>3
<1>5. Total[e[1] - 1] \in Nat /\ e[2] \in Nat /\ f[2] \in Nat
  BY EnemyType, SizeType, TotalType
<1>6. e[2] = f[2]
  BY <1>4, <1>5 DEF Num
<1> QED
  BY <1>4, <1>6, EnemyType

-----------------------------------------------------------------------------
(* Bags *)

\* A bag with one more of x, and one with one less.
LEMMA AddedToBag ==
    ASSUME NEW B, IsABag(B), NEW x
    PROVE  /\ IsABag(BagAdd(B, x))
           /\ BagToSet(BagAdd(B, x)) = BagToSet(B) \cup {x}
           /\ \A y \in BagToSet(B) \ {x} : BagAdd(B, x)[y] = B[y]
           /\ x \notin BagToSet(B) => BagAdd(B, x)[x] = 1
<1>1. CASE x \in DOMAIN B
  <2> DEFINE C == [B EXCEPT ![x] = @ + 1]
  <2>1. BagAdd(B, x) = C
    BY <1>1 DEF BagAdd
  <2>2. DOMAIN C = DOMAIN B /\ \A y \in DOMAIN B : C[y] = IF y = x THEN B[y] + 1 ELSE B[y]
    OBVIOUS
  <2>3. \A y \in DOMAIN B : B[y] \in Nat /\ B[y] > 0
    BY DEF IsABag
  <2>4. \A y \in DOMAIN B : C[y] \in {n \in Nat : n > 0}
    BY <2>2, <2>3
  <2>5. C \in [DOMAIN C -> {n \in Nat : n > 0}]
    BY <2>2, <2>4
  <2> HIDE DEF C
  <2>6. IsABag(C)
    BY <2>5 DEF IsABag
  <2>7. BagToSet(C) = BagToSet(B) \cup {x}
    BY <1>1, <2>2 DEF BagToSet
  <2> QED
    BY <1>1, <2>1, <2>2, <2>6, <2>7 DEF BagToSet
<1>2. CASE x \notin DOMAIN B
  BY <1>2 DEF IsABag, BagAdd, BagToSet
<1> QED
  BY <1>1, <1>2

LEMMA TakenFromBag ==
    ASSUME NEW B, IsABag(B), NEW x \in BagToSet(B)
    PROVE  /\ IsABag(BagRemove(B, x))
           /\ BagToSet(BagRemove(B, x)) = IF B[x] = 1 THEN BagToSet(B) \ {x} ELSE BagToSet(B)
           /\ \A y \in BagToSet(B) \ {x} : BagRemove(B, x)[y] = B[y]
<1>1. CASE B[x] = 1
  BY <1>1 DEF IsABag, BagRemove, BagToSet
<1>2. CASE B[x] # 1
  BY <1>2 DEF IsABag, BagRemove, BagToSet
<1> QED
  BY <1>1, <1>2

LEMMA NoneInEmptyBag ==
    /\ IsABag(EmptyBag)
    /\ BagToSet(EmptyBag) = {}
  BY DEF IsABag, EmptyBag, SetToBag, BagToSet

-----------------------------------------------------------------------------
(* Packets, and the enemies of a wave *)

LEMMA PacketType ==
    ASSUME NEW m \in Packets
    PROVE  /\ m.client \in Clients
           /\ m.kind \in {"START_WAVE", "ENEMY_DEATH", "NEW_ENEMY", "END_GAME"}
           /\ m.kind = "START_WAVE" => m.wave \in Waves
           /\ m.kind = "ENEMY_DEATH" => m.id \in Nat /\ m.from \in Processes
           /\ m.kind = "NEW_ENEMY" => m.entity \in Entities
           /\ m.kind = "NEW_ENEMY" => m = NewEnemy(m.client, m.entity)
           /\ m.kind = "ENEMY_DEATH" => m = EnemyDeath(m.from, m.client, m.id)
<1>1. CASE m \in [kind : {"START_WAVE"}, client : Clients, wave : Waves]
  BY <1>1
<1>2. CASE m \in [kind : {"ENEMY_DEATH"}, from : Processes, client : Clients, id : Nat]
  BY <1>2 DEF EnemyDeath
<1>3. CASE m \in [kind : {"NEW_ENEMY"}, client : Clients, entity : Entities]
  BY <1>3 DEF NewEnemy
<1>4. CASE m \in [kind : {"END_GAME"}, client : Clients]
  BY <1>4
<1> QED
  BY <1>1, <1>2, <1>3, <1>4 DEF Packets

LEMMA PacketsSent ==
    ASSUME NEW c \in Clients
    PROVE  /\ \A w \in Waves : StartWave(c, w) \in Packets
           /\ \A p \in Processes, id \in Nat : EnemyDeath(p, c, id) \in Packets
           /\ \A e \in Entities : NewEnemy(c, e) \in Packets
           /\ EndGame(c) \in Packets
<1>1. \A w \in Waves : StartWave(c, w) \in Packets
  BY DEF Packets, StartWave
<1>2. \A p \in Processes, id \in Nat : EnemyDeath(p, c, id) \in Packets
  BY DEF Packets, EnemyDeath
<1>3. \A e \in Entities : NewEnemy(c, e) \in Packets
  BY DEF Packets, NewEnemy
<1>4. EndGame(c) \in Packets
  BY DEF Packets, EndGame
<1> QED
  BY <1>1, <1>2, <1>3, <1>4

\* What initWave adds to the enemies that remain to be created.
Unfolded(w) == [i \in 1 .. Size[w] |-> <<w, i>>]

LEMMA UnfoldedType ==
    ASSUME NEW w \in Waves
    PROVE  /\ Unfolded(w) \in Seq(Enemies)
           /\ Len(Unfolded(w)) = Size[w]
           /\ \A i \in 1 .. Size[w] : Unfolded(w)[i] = <<w, i>>
<1>1. Size[w] \in Nat
  BY SizeType
<1>2. \A i \in 1 .. Size[w] : <<w, i>> \in Enemies
  BY <1>1 DEF Enemies
<1>3. Unfolded(w) \in [1 .. Size[w] -> Enemies]
  BY <1>2 DEF Unfolded
<1>4. Unfolded(w) \in Seq(Enemies)
  BY <1>1, <1>3, SeqDef
<1>5. DOMAIN Unfolded(w) = 1 .. Size[w]
  BY DEF Unfolded
<1>6. Len(Unfolded(w)) = Size[w]
  BY <1>1, <1>4, <1>5, LenProperties
<1> QED
  BY <1>4, <1>6 DEF Unfolded

-----------------------------------------------------------------------------
(* The types of the state *)

\* A process that is to unfold a wave knows of one.
TypeInv ==
    /\ TypeOK
    /\ \A p \in Processes : pending[p] > 0 => waveId[p] # NoWave

LEMMA TypeInit == Init => TypeInv
<1> SUFFICES ASSUME Init PROVE TypeInv
  OBVIOUS
<1> USE DEF Init
<1>1. \A p \in Processes : IsABag(enemies[p]) /\ BagToSet(enemies[p]) \subseteq Entities
  BY NoneInEmptyBag
<1>2. enemyNb \in [Processes -> Nat]
  BY WavesAssumption DEF Processes
<1>3. waveIndex \in 0 .. Len(Size)
  BY SizeType
<1>4. remaining \in [Processes -> Seq(Enemies)] /\ ran \in [Processes -> Seq(Waves)]
  BY EmptySeq
<1>5. waveId \in [Processes -> Waves \cup {NoWave}] /\ pending \in [Processes -> Nat]
  OBVIOUS
<1>6. \A p \in Processes : ~(pending[p] > 0)
  OBVIOUS
<1> QED
  BY <1>1, <1>2, <1>3, <1>4, <1>5, <1>6 DEF TypeInv, TypeOK

LEMMA StartNextWaveType ==
    ASSUME TypeInv, StartNextWave
    PROVE  /\ waveIndex' \in 0 .. Len(Size)
           /\ gameEnded' \in BOOLEAN
           /\ waveId' \in [Processes -> Waves \cup {NoWave}]
           /\ pending' \in [Processes -> Nat]
           /\ net' \subseteq Packets
           /\ \A p \in Processes : pending'[p] > 0 => waveId'[p] # NoWave
<1> USE DEF TypeInv, TypeOK
<1>0. waveIndex \in Nat /\ Len(Size) \in Nat /\ Server \in Processes
  BY SizeType DEF Processes
<1>1. CASE NoWaveLeft
  BY <1>1 DEF StartNextWave
<1>2. CASE ~NoWaveLeft
  <2>1. waveIndex + 1 \in Waves /\ waveIndex + 1 \in 0 .. Len(Size) /\ waveIndex + 1 # NoWave
    BY <1>0, <1>2, SizeType DEF NoWaveLeft, NoWave
  <2>2. /\ waveIndex' = waveIndex + 1
        /\ waveId' = [waveId EXCEPT ![Server] = waveIndex + 1]
        /\ pending' = [pending EXCEPT ![Server] = @ + 1]
        /\ net' = net \cup {StartWave(c, waveIndex + 1) : c \in Clients}
        /\ gameEnded' = gameEnded
    BY <1>2 DEF StartNextWave
  <2>3. net' \subseteq Packets
    BY <2>1, <2>2, PacketsSent
  <2> QED
    BY <1>0, <2>1, <2>2, <2>3
<1> QED
  BY <1>1, <1>2

\* What is left of TypeInv when a step changes no more than the enemies and packets.
LEMMA TypeOfChange ==
    ASSUME TypeInv, UNCHANGED <<handlerVars, infoVars, enemyNb, earlier, ran>>,
           net' \subseteq Packets,
           DOMAIN enemies' = Processes,
           \A p \in Processes : IsABag(enemies'[p]) /\ BagToSet(enemies'[p]) \subseteq Entities
    PROVE  TypeInv'
<1>1. TypeOK'
  BY DEF TypeInv, TypeOK, handlerVars, infoVars
<1>2. (\A p \in Processes : pending[p] > 0 => waveId[p] # NoWave)'
  BY DEF TypeInv, infoVars
<1> QED
  BY <1>1, <1>2 DEF TypeInv

\* The enemies of one process change.
LEMMA EnemiesOf ==
    ASSUME TypeOK, NEW p \in Processes, NEW B, enemies' = [enemies EXCEPT ![p] = B]
    PROVE  /\ DOMAIN enemies' = Processes
           /\ enemies'[p] = B
           /\ \A q \in Processes \ {p} : enemies'[q] = enemies[q]
  BY DEF TypeOK

LEMMA BagsTyped ==
    ASSUME TypeOK, NEW p \in Processes, NEW B, enemies' = [enemies EXCEPT ![p] = B],
           IsABag(B), BagToSet(B) \subseteq Entities
    PROVE  \A q \in Processes : IsABag(enemies'[q]) /\ BagToSet(enemies'[q]) \subseteq Entities
<1>1. \A q \in Processes : IsABag(enemies[q]) /\ BagToSet(enemies[q]) \subseteq Entities
  BY DEF TypeOK
<1> QED
  BY <1>1, EnemiesOf

LEMMA EntityType ==
    ASSUME NEW e \in Entities
    PROVE  /\ e.enemy \in Enemies /\ e.id \in Nat /\ e.dying \in BOOLEAN
           /\ e = [enemy |-> e.enemy, id |-> e.id, dying |-> e.dying]
           /\ [e EXCEPT !.dying = TRUE] \in Entities
           /\ [e EXCEPT !.dying = TRUE].enemy = e.enemy
           /\ [e EXCEPT !.dying = TRUE].id = e.id
<1>1. /\ e.enemy \in Enemies /\ e.id \in Nat /\ e.dying \in BOOLEAN
      /\ e = [enemy |-> e.enemy, id |-> e.id, dying |-> e.dying]
  BY DEF Entities
<1>2. [e EXCEPT !.dying = TRUE] \in Entities
  BY DEF Entities
<1>3. /\ [e EXCEPT !.dying = TRUE].enemy = e.enemy
      /\ [e EXCEPT !.dying = TRUE].id = e.id
  BY DEF Entities
<1> QED
  BY <1>1, <1>2, <1>3

LEMMA TypeStep == TypeInv /\ [Next]_vars => TypeInv'
<1> SUFFICES ASSUME TypeInv, [Next]_vars PROVE TypeInv'
  OBVIOUS
<1>0. /\ TypeOK /\ Server \in Processes
      /\ \A c \in Clients : c \in Processes
      /\ \A p \in Processes : pending[p] > 0 => waveId[p] # NoWave
      /\ \A p \in Processes : IsABag(enemies[p]) /\ BagToSet(enemies[p]) \subseteq Entities
  BY DEF TypeInv, TypeOK, Processes
<1>1. CASE WaveHandlerFirst
  <2>1. StartNextWave /\ handler' = "running"
        /\ UNCHANGED <<between, remaining, firstCreated, waiting, enemyNb, enemies, earlier, ran>>
    BY <1>1 DEF WaveHandlerFirst
  <2> QED
    BY <2>1, StartNextWaveType DEF TypeInv, TypeOK
<1>2. CASE WaveHandlerPause
  BY <1>2 DEF WaveHandlerPause, infoVars, TypeInv, TypeOK
<1>3. CASE WaveHandlerNext
  <2>1. /\ StartNextWave /\ between' = FALSE /\ waiting' = [waiting EXCEPT ![Server] = FALSE]
        /\ UNCHANGED <<handler, remaining, firstCreated, enemyNb, enemies, earlier, ran>>
    BY <1>3 DEF WaveHandlerNext
  <2>2. waiting' \in [Processes -> BOOLEAN]
    BY <2>1 DEF TypeInv, TypeOK
  <2> QED
    BY <2>1, <2>2, StartNextWaveType DEF TypeInv, TypeOK
<1>4. CASE WaveHandlerEnd
  <2>1. /\ handler' = "removed"
        /\ net' = net \cup {EndGame(c) : c \in Clients}
        /\ UNCHANGED <<waveIndex, gameEnded, between, infoVars, enemyNb, enemies, earlier, ran>>
    BY <1>4 DEF WaveHandlerEnd
  <2>2. net' \subseteq Packets
    BY <2>1, <1>0, PacketsSent DEF TypeOK
  <2> QED
    BY <2>1, <2>2 DEF TypeInv, TypeOK, infoVars
<1>5. ASSUME NEW p \in Processes, InitWave(p) PROVE TypeInv'
  <2>1. waveId[p] \in Waves
    BY <1>5, <1>0 DEF InitWave, TypeOK
  <2>2. /\ pending[p] > 0
        /\ pending' = [pending EXCEPT ![p] = @ - 1]
        /\ remaining' = [remaining EXCEPT ![p] = @ \o Unfolded(waveId[p])]
        /\ ran' = [ran EXCEPT ![p] = Append(@, waveId[p])]
        /\ UNCHANGED <<handlerVars, waveId, firstCreated, waiting, enemyNb, enemies, net, earlier>>
    BY <1>5 DEF InitWave, Unfolded
  <2>3. remaining[p] \o Unfolded(waveId[p]) \in Seq(Enemies)
    <3>1. remaining[p] \in Seq(Enemies)
      BY <1>0 DEF TypeOK
    <3> QED
      BY <2>1, <3>1, UnfoldedType, ConcatProperties
  <2>4. Append(ran[p], waveId[p]) \in Seq(Waves)
    <3>1. ran[p] \in Seq(Waves)
      BY <1>0 DEF TypeOK
    <3> QED
      BY <2>1, <3>1, AppendProperties
  <2>5. remaining' \in [Processes -> Seq(Enemies)] /\ ran' \in [Processes -> Seq(Waves)]
    BY <2>2, <2>3, <2>4, <1>0 DEF TypeOK
  <2>6. pending' \in [Processes -> Nat]
    BY <2>2, <1>0 DEF TypeOK
  <2>7. \A q \in Processes : pending'[q] > 0 => pending[q] > 0
    BY <2>2, <1>0 DEF TypeOK
  <2>8. TypeOK'
    BY <2>2, <2>5, <2>6, <1>0 DEF TypeOK, handlerVars
  <2> QED
    BY <2>2, <2>7, <2>8, <1>0 DEF TypeInv
<1>6. ASSUME NEW p \in Processes, UpdateWaveEnd(p) PROVE TypeInv'
  <2>1. firstCreated' \in [Processes -> BOOLEAN] /\ waiting' \in [Processes -> BOOLEAN]
    BY <1>6, <1>0 DEF UpdateWaveEnd, TypeOK
  <2> QED
    BY <2>1, <1>6 DEF UpdateWaveEnd, handlerVars, TypeInv, TypeOK
<1>7. ASSUME NEW p \in Processes, UpdateWaveCreate(p) PROVE TypeInv'
  <2> DEFINE new == [enemy |-> Head(remaining[p]), id |-> enemyNb[p], dying |-> FALSE]
  <2>1. remaining[p] \in Seq(Enemies) /\ remaining[p] # <<>>
    BY <1>7, <1>0 DEF UpdateWaveCreate, TypeOK
  <2>2. Head(remaining[p]) \in Enemies /\ Tail(remaining[p]) \in Seq(Enemies)
    BY <2>1, HeadTailProperties
  <2>3. new \in Entities
    BY <2>2, <1>0 DEF TypeOK, Entities
  <2>4. /\ enemies' = [enemies EXCEPT ![p] = BagAdd(enemies[p], new)]
        /\ enemyNb' = [enemyNb EXCEPT ![p] = @ + 1]
        /\ remaining' = [remaining EXCEPT ![p] = Tail(remaining[p])]
        /\ firstCreated' = [firstCreated EXCEPT ![p] = TRUE]
        /\ UNCHANGED <<handlerVars, waveId, pending, waiting, net, earlier, ran>>
    BY <1>7 DEF UpdateWaveCreate
  <2> HIDE DEF new
  <2>5. IsABag(BagAdd(enemies[p], new)) /\ BagToSet(BagAdd(enemies[p], new)) \subseteq Entities
    BY <2>3, <1>0, AddedToBag
  <2>6. /\ DOMAIN enemies' = Processes
        /\ \A q \in Processes : IsABag(enemies'[q]) /\ BagToSet(enemies'[q]) \subseteq Entities
    BY <2>4, <2>5, <1>0, EnemiesOf, BagsTyped
  <2>7. /\ enemyNb' \in [Processes -> Nat]
        /\ remaining' \in [Processes -> Seq(Enemies)]
        /\ firstCreated' \in [Processes -> BOOLEAN]
    BY <2>2, <2>4, <1>0 DEF TypeOK
  <2>8. TypeOK'
    BY <2>4, <2>6, <2>7, <1>0 DEF TypeOK, handlerVars
  <2> QED
    BY <2>4, <2>8, <1>0 DEF TypeInv
<1>8. ASSUME NEW p \in Processes, NEW e \in BagToSet(enemies[p]), EnemyDies(p, e)
      PROVE  TypeInv'
  <2>1. e \in Entities
    BY <1>0
  <2>2. IsABag(BagRemove(enemies[p], e)) /\ BagToSet(BagRemove(enemies[p], e)) \subseteq Entities
    BY <1>0, TakenFromBag
  <2>3. enemies' = [enemies EXCEPT ![p] = BagRemove(enemies[p], e)]
    BY <1>8 DEF EnemyDies
  <2>4. Deaths(p, e) \subseteq Packets
    <3>1. e.id \in Nat
      BY <2>1, EntityType
    <3>2. CASE p = Server
      BY <3>1, <3>2, <1>0, PacketsSent DEF Deaths
    <3>3. CASE p # Server
      <4>1. p \in Clients
        BY <3>3 DEF Processes
      <4> QED
        BY <3>1, <3>3, <4>1, <1>0, PacketsSent DEF Deaths
    <3> QED
      BY <3>2, <3>3
  <2>5. net' \subseteq Packets /\ UNCHANGED <<handlerVars, infoVars, enemyNb, earlier, ran>>
    BY <1>8, <2>4, <1>0 DEF EnemyDies, TypeOK
  <2>6. /\ DOMAIN enemies' = Processes
        /\ \A q \in Processes : IsABag(enemies'[q]) /\ BagToSet(enemies'[q]) \subseteq Entities
    BY <2>2, <2>3, <1>0, EnemiesOf, BagsTyped
  <2> QED
    BY <2>5, <2>6, TypeOfChange
<1>9. ASSUME NEW m \in net, HandleClientEnemyDeath(m) PROVE TypeInv'
  <2>1. m.client \in Clients
    BY <1>0, PacketType DEF TypeOK
  <2>2. \A e \in AliveUnder(m.id) : e \in Entities
    BY <1>0 DEF AliveUnder
  <2>3. {NewEnemy(m.client, e) : e \in AliveUnder(m.id)} \subseteq Packets
    BY <2>1, <2>2, PacketsSent
  <2>4. net' \subseteq Packets /\ UNCHANGED <<handlerVars, infoVars, enemyNb, enemies, earlier, ran>>
    BY <1>9, <2>3, <1>0 DEF HandleClientEnemyDeath, TypeOK
  <2>5. DOMAIN enemies' = Processes
    BY <2>4, <1>0 DEF TypeOK
  <2> QED
    BY <2>4, <2>5, <1>0, TypeOfChange
<1>10. ASSUME NEW m \in net, HandleStartWave(m) PROVE TypeInv'
  <2>1. m.client \in Processes /\ m.wave \in Waves
    BY <1>10, <1>0, PacketType DEF TypeOK, HandleStartWave
  <2>2. /\ net' = net \ {m}
        /\ waveId' = [waveId EXCEPT ![m.client] = m.wave]
        /\ waiting' = [waiting EXCEPT ![m.client] = FALSE]
        /\ pending' = [pending EXCEPT ![m.client] = @ + 1]
        /\ UNCHANGED <<handlerVars, remaining, firstCreated, enemyNb, enemies, earlier, ran>>
    BY <1>10 DEF HandleStartWave
  <2>3. /\ waveId' \in [Processes -> Waves \cup {NoWave}]
        /\ waiting' \in [Processes -> BOOLEAN]
        /\ pending' \in [Processes -> Nat]
        /\ net' \subseteq Packets
    BY <2>1, <2>2, <1>0 DEF TypeOK
  <2>4. m.wave # NoWave
    BY <2>1, SizeType DEF NoWave
  <2>5. \A q \in Processes : pending'[q] > 0 => waveId'[q] # NoWave
    BY <2>1, <2>2, <2>4, <1>0 DEF TypeOK
  <2>6. TypeOK'
    BY <2>2, <2>3, <1>0 DEF TypeOK, handlerVars
  <2> QED
    BY <2>5, <2>6 DEF TypeInv
<1>11. ASSUME NEW m \in net, ReceiveNewEnemy(m) PROVE TypeInv'
  <2>1. m.client \in Processes /\ m.entity \in Entities
    BY <1>11, <1>0, PacketType DEF TypeOK, ReceiveNewEnemy
  <2>2. /\ net' = net \ {m}
        /\ enemies' = [enemies EXCEPT ![m.client] = BagAdd(enemies[m.client], m.entity)]
        /\ UNCHANGED <<handlerVars, infoVars, enemyNb, earlier, ran>>
    BY <1>11 DEF ReceiveNewEnemy
  <2>3. /\ IsABag(BagAdd(enemies[m.client], m.entity))
        /\ BagToSet(BagAdd(enemies[m.client], m.entity)) \subseteq Entities
    BY <2>1, <1>0, AddedToBag
  <2>4. /\ DOMAIN enemies' = Processes
        /\ \A q \in Processes : IsABag(enemies'[q]) /\ BagToSet(enemies'[q]) \subseteq Entities
    BY <2>1, <2>2, <2>3, <1>0, EnemiesOf, BagsTyped
  <2>5. net' \subseteq Packets
    BY <2>2, <1>0 DEF TypeOK
  <2> QED
    BY <2>2, <2>4, <2>5, TypeOfChange
<1>12. ASSUME NEW m \in net, ReceiveEnemyDeath(m) PROVE TypeInv'
  <2>1. m.client \in Processes
    BY <1>0, PacketType DEF TypeOK
  <2>2. net' \subseteq Packets /\ UNCHANGED <<handlerVars, infoVars, enemyNb, earlier, ran>>
    BY <1>12, <1>0 DEF ReceiveEnemyDeath, TypeOK
  <2>3. CASE UNCHANGED enemies
    BY <2>2, <2>3, <1>0, TypeOfChange DEF TypeOK
  <2>4. ASSUME NEW e \in BagToSet(enemies[m.client]),
               enemies' = [enemies EXCEPT ![m.client] =
                               BagAdd(BagRemove(@, e), [e EXCEPT !.dying = TRUE])]
        PROVE  TypeInv'
    <3> DEFINE d == [e EXCEPT !.dying = TRUE]
               R == BagRemove(enemies[m.client], e)
    <3>1. d \in Entities
      BY <2>1, <1>0, EntityType
    <3>2. IsABag(R) /\ BagToSet(R) \subseteq Entities
      BY <2>1, <1>0, TakenFromBag
    <3>3. enemies' = [enemies EXCEPT ![m.client] = BagAdd(R, d)]
      BY <2>4
    <3> HIDE DEF d, R
    <3>4. IsABag(BagAdd(R, d)) /\ BagToSet(BagAdd(R, d)) \subseteq Entities
      BY <3>1, <3>2, AddedToBag
    <3>5. /\ DOMAIN enemies' = Processes
          /\ \A q \in Processes : IsABag(enemies'[q]) /\ BagToSet(enemies'[q]) \subseteq Entities
      BY <3>3, <3>4, <2>1, <1>0, EnemiesOf, BagsTyped
    <3> QED
      BY <3>5, <2>2, TypeOfChange
  <2> QED
    BY <1>12, <2>3, <2>4 DEF ReceiveEnemyDeath
<1>13. CASE UNCHANGED vars
  BY <1>13 DEF vars, handlerVars, infoVars, TypeInv, TypeOK
<1> QED
  BY <1>1, <1>2, <1>3, <1>4, <1>5, <1>6, <1>7, <1>8, <1>9, <1>10, <1>11, <1>12, <1>13
     DEF Next, WaveHandler, System

\* The waves a server may reach exist, every bag is a bag of enemies of the assets
\* with a number, and every packet is one that somebody sends.
THEOREM TypeCorrect == Spec => []TypeOK
<1>1. TypeInv => TypeOK
  BY DEF TypeInv
<1> QED
  BY <1>1, TypeInit, TypeStep, PTL DEF Spec

-----------------------------------------------------------------------------
(* The stages of a wave at the server *)

\* No enemy remains to be created, and none that has been created lives.
Resting(p) == remaining[p] = <<>> /\ ~firstCreated[p] /\ enemies[p] = EmptyBag

\* Between the step that starts a wave and the system that unfolds it, and between
\* the end of a wave and the next start, the server has nothing to create.
Stage ==
    /\ waveId[Server] = waveIndex
    /\ pending[Server] \in {0, 1}
    /\ InStep(Server)
    /\ Len(ran[Server]) + pending[Server] = waveIndex
    /\ pending[Server] = 1 => Resting(Server) /\ ~waiting[Server]
    /\ waiting[Server] => Resting(Server)
    /\ handler = "added" => Resting(Server) /\ ~waiting[Server] /\ waveIndex = 0

LEMMA StageInit == Init => Stage
  BY DEF Init, Stage, Resting, InStep, Processes, NoWave

\* A step of a client.
LEMMA StageKept ==
    ASSUME Stage, UNCHANGED <<handler, waveIndex>>,
           waveId'[Server] = waveId[Server], pending'[Server] = pending[Server],
           remaining'[Server] = remaining[Server],
           firstCreated'[Server] = firstCreated[Server],
           waiting'[Server] = waiting[Server], enemies'[Server] = enemies[Server],
           ran'[Server] = ran[Server]
    PROVE  Stage'
  BY DEF Stage, Resting, InStep

\* A bag with something in it is not empty.
LEMMA NotEmptyBag ==
    ASSUME NEW B, NEW x \in BagToSet(B)
    PROVE  B # EmptyBag
  BY NoneInEmptyBag

LEMMA StageStart ==
    ASSUME TypeInv, Stage, StartNextWave, pending[Server] = 0, Resting(Server),
           handler' = "running", waiting'[Server] = FALSE,
           UNCHANGED <<remaining, firstCreated, enemies, ran>>
    PROVE  Stage'
<1>0. /\ Server \in Processes /\ waveIndex \in Nat /\ Len(ran[Server]) \in Nat
      /\ waveId \in [Processes -> Waves \cup {NoWave}] /\ pending \in [Processes -> Nat]
  BY LenProperties DEF TypeInv, TypeOK, Processes
<1>1. Resting(Server)' /\ InStep(Server)'
  BY DEF Resting, Stage, InStep
<1>2. Len(ran[Server]) = waveIndex
  BY <1>0 DEF Stage
<1>3. CASE NoWaveLeft
  <2>1. UNCHANGED <<waveIndex, waveId, pending>>
    BY <1>3 DEF StartNextWave
  <2> QED
    BY <1>0, <1>1, <1>2, <2>1 DEF Stage
<1>4. CASE ~NoWaveLeft
  <2>1. waveIndex' = waveIndex + 1 /\ waveId'[Server] = waveIndex + 1 /\ pending'[Server] = 1
    BY <1>0, <1>4 DEF StartNextWave
  <2>2. ran'[Server] = ran[Server]
    OBVIOUS
  <2> QED
    BY <1>0, <1>1, <1>2, <2>1, <2>2 DEF Stage
<1> QED
  BY <1>3, <1>4

LEMMA StageStep == TypeInv /\ Stage /\ [Next]_vars => Stage'
<1> SUFFICES ASSUME TypeInv, Stage, [Next]_vars PROVE Stage'
  OBVIOUS
<1>0. /\ TypeOK /\ Server \in Processes /\ waveIndex \in Nat
      /\ \A c \in Clients : c \in Processes /\ c # Server
      /\ Len(ran[Server]) \in Nat
      /\ \A m \in net : m.client \in Clients
  BY LenProperties, WavesAssumption, PacketType DEF TypeInv, TypeOK, Processes
<1>1. CASE WaveHandlerFirst
  <2>1. StartNextWave /\ handler = "added" /\ handler' = "running"
        /\ UNCHANGED <<between, remaining, firstCreated, waiting, enemyNb, enemies, earlier, ran>>
    BY <1>1 DEF WaveHandlerFirst
  <2>2. Resting(Server) /\ ~waiting[Server] /\ pending[Server] = 0
    BY <2>1, <1>0 DEF Stage
  <2>3. waiting'[Server] = FALSE
    BY <2>1, <2>2, <1>0 DEF TypeOK
  <2> QED
    BY <2>1, <2>2, <2>3, StageStart
<1>2. CASE WaveHandlerPause
  BY <1>2, StageKept DEF WaveHandlerPause, infoVars
<1>3. CASE WaveHandlerNext
  <2>1. /\ StartNextWave /\ handler' = "running" /\ waiting[Server]
        /\ waiting' = [waiting EXCEPT ![Server] = FALSE]
        /\ UNCHANGED <<remaining, firstCreated, enemyNb, enemies, earlier, ran>>
    BY <1>3 DEF WaveHandlerNext, IsWaveEnded
  <2>2. Resting(Server) /\ pending[Server] = 0
    BY <2>1 DEF Stage
  <2>3. waiting'[Server] = FALSE
    BY <2>1, <1>0 DEF TypeOK
  <2> QED
    BY <2>1, <2>2, <2>3, StageStart
<1>4. CASE WaveHandlerEnd
  BY <1>4 DEF WaveHandlerEnd, infoVars, Stage, Resting, InStep
<1>5. ASSUME NEW p \in Processes, InitWave(p) PROVE Stage'
  <2>1. CASE p # Server
    BY <1>5, <2>1, <1>0, StageKept DEF InitWave, handlerVars, TypeOK
  <2>2. CASE p = Server
    <3>1. /\ pending[Server] > 0
          /\ pending' = [pending EXCEPT ![Server] = @ - 1]
          /\ ran' = [ran EXCEPT ![Server] = Append(@, waveId[Server])]
          /\ UNCHANGED <<handler, waveIndex, waveId, firstCreated, waiting, enemies>>
      BY <1>5, <2>2 DEF InitWave, handlerVars
    <3>2. pending[Server] = 1 /\ ~waiting[Server]
      BY <3>1 DEF Stage
    <3>3. pending'[Server] = 0 /\ ran'[Server] = Append(ran[Server], waveIndex)
      BY <3>1, <3>2, <1>0 DEF Stage, TypeOK
    <3>4. waveIndex = Len(ran[Server]) + 1
      BY <3>2, <1>0 DEF Stage
    <3>5. /\ Len(Append(ran[Server], waveIndex)) = Len(ran[Server]) + 1
          /\ \A i \in 1 .. Len(ran[Server]) + 1 : Append(ran[Server], waveIndex)[i] = i
          /\ DOMAIN Append(ran[Server], waveIndex) = 1 .. Len(ran[Server]) + 1
      <4>1. ran[Server] \in Seq(Waves) /\ \A i \in 1 .. Len(ran[Server]) : ran[Server][i] = i
        BY <1>0, LenProperties DEF Stage, InStep, TypeOK
      <4>2. Append(ran[Server], waveIndex) \in Seq(Waves \cup {waveIndex})
            /\ ran[Server] \in Seq(Waves \cup {waveIndex})
        BY <4>1, SeqDef
      <4> QED
        BY <4>1, <4>2, <3>4, <1>0, AppendProperties, LenProperties
    <3>6. InStep(Server)'
      BY <3>3, <3>5 DEF InStep
    <3>7. handler' # "added" /\ ~waiting'[Server] /\ waveId'[Server] = waveIndex'
      BY <3>1, <3>2, <3>4, <1>0 DEF Stage
    <3> QED
      BY <3>1, <3>3, <3>4, <3>5, <3>6, <3>7, <1>0 DEF Stage
  <2> QED
    BY <2>1, <2>2
<1>6. ASSUME NEW p \in Processes, UpdateWaveEnd(p) PROVE Stage'
  <2>1. CASE p # Server
    BY <1>6, <2>1, <1>0, StageKept DEF UpdateWaveEnd, handlerVars, TypeOK
  <2>2. CASE p = Server
    <3>1. ~Resting(Server) /\ remaining[Server] = <<>> /\ enemies[Server] = EmptyBag
      BY <1>6, <2>2 DEF UpdateWaveEnd, Resting
    <3>2. UNCHANGED <<handler, waveIndex, waveId, pending, remaining, enemies, ran>>
      BY <1>6 DEF UpdateWaveEnd, handlerVars
    <3>3. firstCreated'[Server] = FALSE
      BY <1>6, <2>2, <1>0 DEF UpdateWaveEnd, TypeOK
    <3>4. Resting(Server)'
      BY <3>1, <3>2, <3>3 DEF Resting
    <3> QED
      BY <3>1, <3>2, <3>4 DEF Stage, InStep
  <2> QED
    BY <2>1, <2>2
<1>7. ASSUME NEW p \in Processes, UpdateWaveCreate(p) PROVE Stage'
  <2>1. CASE p # Server
    BY <1>7, <2>1, <1>0, StageKept, EnemiesOf DEF UpdateWaveCreate, handlerVars, TypeOK
  <2>2. CASE p = Server
    <3>1. ~Resting(Server)
      BY <1>7, <2>2 DEF UpdateWaveCreate, Resting
    <3>2. UNCHANGED <<handler, waveIndex, waveId, pending, waiting, ran>>
      BY <1>7 DEF UpdateWaveCreate, handlerVars
    <3> QED
      BY <3>1, <3>2 DEF Stage, InStep
  <2> QED
    BY <2>1, <2>2
<1>8. ASSUME NEW p \in Processes, NEW e \in BagToSet(enemies[p]), EnemyDies(p, e)
      PROVE  Stage'
  <2>0. UNCHANGED <<handler, waveIndex, waveId, pending, remaining, firstCreated, waiting, ran>>
    BY <1>8 DEF EnemyDies, handlerVars, infoVars
  <2>1. CASE p # Server
    <3>1. enemies'[Server] = enemies[Server]
      BY <1>8, <2>1, <1>0, EnemiesOf DEF EnemyDies
    <3> QED
      BY <2>0, <3>1, StageKept
  <2>2. CASE p = Server
    <3>1. ~Resting(Server)
      BY <2>2, NotEmptyBag DEF Resting
    <3> QED
      BY <2>0, <3>1 DEF Stage, InStep
  <2> QED
    BY <2>1, <2>2
<1>9. ASSUME NEW m \in net, HandleClientEnemyDeath(m) PROVE Stage'
  BY <1>9, StageKept DEF HandleClientEnemyDeath, handlerVars, infoVars
<1>10. ASSUME NEW m \in net, HandleStartWave(m) PROVE Stage'
  <2>1. m.client \in Processes /\ m.client # Server
    BY <1>0
  <2> QED
    BY <1>10, <2>1, <1>0, StageKept DEF HandleStartWave, handlerVars, TypeOK
<1>11. ASSUME NEW m \in net, ReceiveNewEnemy(m) PROVE Stage'
  <2>1. m.client \in Processes /\ m.client # Server
    BY <1>0
  <2>2. enemies'[Server] = enemies[Server]
    BY <1>11, <2>1, <1>0, EnemiesOf DEF ReceiveNewEnemy
  <2> QED
    BY <1>11, <2>2, StageKept DEF ReceiveNewEnemy, handlerVars, infoVars
<1>12. ASSUME NEW m \in net, ReceiveEnemyDeath(m) PROVE Stage'
  <2>1. m.client \in Processes /\ m.client # Server
    BY <1>0
  <2>2. enemies'[Server] = enemies[Server]
    BY <1>12, <2>1, <1>0, EnemiesOf DEF ReceiveEnemyDeath
  <2> QED
    BY <1>12, <2>2, StageKept DEF ReceiveEnemyDeath, handlerVars, infoVars
<1>13. CASE UNCHANGED vars
  BY <1>13, StageKept DEF vars, handlerVars, infoVars
<1> QED
  BY <1>1, <1>2, <1>3, <1>4, <1>5, <1>6, <1>7, <1>8, <1>9, <1>10, <1>11, <1>12, <1>13
     DEF Next, WaveHandler, System

-----------------------------------------------------------------------------
(* Who holds an enemy: it lives, or it is reported dead, or it comes back *)

Ids(B) == {e.id : e \in BagToSet(B)}

\* No two enemies of a bag have the same number.
Distinct(B) == \A e, f \in BagToSet(B) : e.id = f.id => e = f /\ B[e] = 1

LEMMA DistinctAdded ==
    ASSUME NEW B, IsABag(B), Distinct(B), NEW x, x.id \notin Ids(B)
    PROVE  /\ BagToSet(BagAdd(B, x)) = BagToSet(B) \cup {x}
           /\ Distinct(BagAdd(B, x))
           /\ Ids(BagAdd(B, x)) = Ids(B) \cup {x.id}
<1> DEFINE C == BagAdd(B, x)
<1>1. x \notin BagToSet(B)
  BY DEF Ids
<1>2. /\ BagToSet(C) = BagToSet(B) \cup {x} /\ C[x] = 1
      /\ \A y \in BagToSet(B) : C[y] = B[y]
  BY <1>1, AddedToBag
<1> HIDE DEF C
<1>3. ASSUME NEW e \in BagToSet(C), NEW f \in BagToSet(C), e.id = f.id
      PROVE  e = f /\ C[e] = 1
  <2>1. CASE e = x
    BY <1>2, <1>3, <2>1 DEF Ids
  <2>2. CASE e # x
    BY <1>2, <1>3, <2>2 DEF Ids, Distinct
  <2> QED
    BY <2>1, <2>2
<1>4. Distinct(C)
  BY <1>3 DEF Distinct
<1>5. Ids(C) = Ids(B) \cup {x.id}
  BY <1>2 DEF Ids
<1> QED
  BY <1>2, <1>4, <1>5 DEF C

LEMMA DistinctTaken ==
    ASSUME NEW B, IsABag(B), Distinct(B), NEW x \in BagToSet(B)
    PROVE  /\ IsABag(BagRemove(B, x))
           /\ BagToSet(BagRemove(B, x)) = BagToSet(B) \ {x}
           /\ Distinct(BagRemove(B, x))
           /\ Ids(BagRemove(B, x)) = Ids(B) \ {x.id}
<1> DEFINE C == BagRemove(B, x)
<1>1. B[x] = 1
  BY DEF Distinct
<1>2. /\ IsABag(C) /\ BagToSet(C) = BagToSet(B) \ {x}
      /\ \A y \in BagToSet(B) \ {x} : C[y] = B[y]
  BY <1>1, TakenFromBag
<1> HIDE DEF C
<1>3. Distinct(C)
  BY <1>2 DEF Distinct
<1>4. Ids(C) = Ids(B) \ {x.id}
  BY <1>2 DEF Ids, Distinct
<1> QED
  BY <1>2, <1>3, <1>4 DEF C

\* A client reports an enemy dead; the server lets one come back.
Report(m) == m.kind = "ENEMY_DEATH" /\ m.from # Server
Return(m) == m.kind = "NEW_ENEMY"

\* For every number a client has given, the enemy lives there, or is reported dead
\* by it, or comes back to it, or is gone, and is so once.
Tokens ==
    /\ \A p \in Processes :
          /\ Distinct(enemies[p])
          /\ \A id \in Ids(enemies[p]) : id < enemyNb[p]
    /\ \A m \in net : Report(m) =>
          m.from = m.client /\ m.id < enemyNb[m.client] /\ m.id \notin Ids(enemies[m.client])
    /\ \A m \in net : Return(m) =>
          m.entity.id < enemyNb[m.client] /\ m.entity.id \notin Ids(enemies[m.client])
    /\ \A m, n \in net :
          Return(m) /\ Return(n) /\ m.client = n.client /\ m.entity.id = n.entity.id => m = n
    /\ \A m, n \in net :
          Report(m) /\ Return(n) /\ m.client = n.client => m.id # n.entity.id

LEMMA TokensInit == Init => Tokens
<1> SUFFICES ASSUME Init PROVE Tokens
  OBVIOUS
<1>1. \A p \in Processes : enemies[p] = EmptyBag
  BY DEF Init
<1>2. \A p \in Processes : BagToSet(enemies[p]) = {}
  BY <1>1, NoneInEmptyBag
<1>3. net = {}
  BY DEF Init
<1> QED
  BY <1>2, <1>3 DEF Tokens, Distinct, Ids

\* A step that sends and takes nothing of the kind.
LEMMA TokensKept ==
    ASSUME Tokens, UNCHANGED <<enemies, enemyNb>>,
           \A m \in net' : (Report(m) \/ Return(m)) => m \in net
    PROVE  Tokens'
<1>1. ~ \E m \in net' \ net : Report(m) \/ Return(m)
  OBVIOUS
<1>2. (\A p \in Processes : Distinct(enemies[p]) /\ \A id \in Ids(enemies[p]) : id < enemyNb[p])'
  BY DEF Tokens, Distinct, Ids
<1>3. \A p : Ids(enemies[p])' = Ids(enemies[p])
  BY DEF Ids
<1> QED
  BY <1>2, <1>3 DEF Tokens, Report, Return

LEMMA StartNextWaveSends ==
    ASSUME StartNextWave, NEW m \in net'
    PROVE  m \in net \/ m.kind = "START_WAVE"
  BY DEF StartNextWave, StartWave

LEMMA IdsType ==
    ASSUME TypeInv, NEW p \in Processes, NEW id \in Ids(enemies[p])
    PROVE  id \in Nat
<1>1. \A e \in BagToSet(enemies[p]) : e \in Entities
  BY DEF TypeInv, TypeOK
<1> QED
  BY <1>1, EntityType DEF Ids

\* One process has other enemies than before.
LEMMA TokensOf ==
    ASSUME TypeInv, Tokens, NEW p \in Processes, NEW B,
           enemies' = [enemies EXCEPT ![p] = B], Distinct(B),
           enemyNb' \in [Processes -> Nat],
           \A q \in Processes : enemyNb[q] <= enemyNb'[q],
           \A id \in Ids(B) : id < enemyNb'[p]
    PROVE  (\A q \in Processes :
               Distinct(enemies[q]) /\ \A id \in Ids(enemies[q]) : id < enemyNb[q])'
<1>1. enemies'[p] = B /\ \A q \in Processes \ {p} : enemies'[q] = enemies[q]
  BY EnemiesOf DEF TypeInv
<1>2. \A q \in Processes : \A id \in Ids(enemies[q]) : id \in Nat
  BY IdsType
<1>3. ASSUME NEW q \in Processes, q # p, NEW id \in Ids(enemies'[q])
      PROVE  id < enemyNb'[q]
  <2>1. id \in Nat /\ id < enemyNb[q] /\ enemyNb[q] \in Nat /\ enemyNb'[q] \in Nat
        /\ enemyNb[q] <= enemyNb'[q]
    BY <1>1, <1>2, <1>3 DEF Tokens, TypeInv, TypeOK
  <2> QED
    BY <2>1
<1>4. \A q \in Processes : Distinct(enemies'[q]) /\ \A id \in Ids(enemies'[q]) : id < enemyNb'[q]
  BY <1>1, <1>3 DEF Tokens
<1> QED
  BY <1>4 DEF Distinct, Ids

LEMMA TokensCreate ==
    ASSUME TypeInv, Tokens, NEW p \in Processes, UpdateWaveCreate(p)
    PROVE  Tokens'
<1> DEFINE new == [enemy |-> Head(remaining[p]), id |-> enemyNb[p], dying |-> FALSE]
           B == BagAdd(enemies[p], new)
<1>1. /\ enemies' = [enemies EXCEPT ![p] = B]
      /\ enemyNb' = [enemyNb EXCEPT ![p] = @ + 1]
      /\ net' = net
  BY DEF UpdateWaveCreate
<1>2. /\ enemyNb \in [Processes -> Nat] /\ IsABag(enemies[p]) /\ Distinct(enemies[p])
      /\ \A id \in Ids(enemies[p]) : id \in Nat /\ id < enemyNb[p]
  BY IdsType DEF TypeInv, TypeOK, Tokens
<1>3. new.id = enemyNb[p] /\ new.id \notin Ids(enemies[p])
  BY <1>2
<1> HIDE DEF new
<1>4. Distinct(B) /\ Ids(B) = Ids(enemies[p]) \cup {enemyNb[p]}
  BY <1>2, <1>3, DistinctAdded
<1> HIDE DEF B
<1>5. /\ enemyNb' \in [Processes -> Nat] /\ enemyNb'[p] = enemyNb[p] + 1
      /\ \A q \in Processes \ {p} : enemyNb'[q] = enemyNb[q]
  BY <1>1, <1>2
<1>6. /\ \A q \in Processes : enemyNb[q] <= enemyNb'[q]
      /\ \A id \in Ids(B) : id < enemyNb'[p]
  BY <1>2, <1>4, <1>5
<1>7. (\A q \in Processes :
          Distinct(enemies[q]) /\ \A id \in Ids(enemies[q]) : id < enemyNb[q])'
  BY <1>1, <1>4, <1>5, <1>6, TokensOf
<1>8. enemies'[p] = B /\ \A q \in Processes \ {p} : enemies'[q] = enemies[q]
  BY <1>1, EnemiesOf DEF TypeInv
<1>9. ASSUME NEW c \in Clients, NEW id \in Nat, id < enemyNb[c], id \notin Ids(enemies[c])
      PROVE  id < enemyNb'[c] /\ id \notin Ids(enemies'[c])
  <2>1. c \in Processes
    BY DEF Processes
  <2>2. CASE c = p
    BY <1>2, <1>4, <1>5, <1>8, <1>9, <2>1, <2>2
  <2>3. CASE c # p
    BY <1>2, <1>5, <1>8, <1>9, <2>1, <2>3
  <2> QED
    BY <2>2, <2>3
<1>10. \A m \in net : m.client \in Clients
       /\ (Report(m) => m.id \in Nat) /\ (Return(m) => m.entity.id \in Nat)
  BY PacketType, EntityType DEF TypeInv, TypeOK, Report, Return
<1>11. \A m \in net : Report(m) =>
          m.from = m.client /\ m.id < enemyNb'[m.client] /\ m.id \notin Ids(enemies'[m.client])
  BY <1>9, <1>10 DEF Tokens
<1>12. \A m \in net : Return(m) =>
          m.entity.id < enemyNb'[m.client] /\ m.entity.id \notin Ids(enemies'[m.client])
  BY <1>9, <1>10 DEF Tokens
<1> QED
  BY <1>1, <1>7, <1>11, <1>12 DEF Tokens, Report, Return, Ids

LEMMA TokensDies ==
    ASSUME TypeInv, Tokens, NEW p \in Processes, NEW e \in BagToSet(enemies[p]),
           EnemyDies(p, e)
    PROVE  Tokens'
<1> DEFINE B == BagRemove(enemies[p], e)
<1>1. enemies' = [enemies EXCEPT ![p] = B] /\ enemyNb' = enemyNb
  BY DEF EnemyDies
<1>2. /\ enemyNb \in [Processes -> Nat] /\ IsABag(enemies[p]) /\ Distinct(enemies[p])
      /\ \A id \in Ids(enemies[p]) : id \in Nat /\ id < enemyNb[p]
  BY IdsType DEF TypeInv, TypeOK, Tokens
<1>3. Distinct(B) /\ Ids(B) = Ids(enemies[p]) \ {e.id}
  BY <1>2, DistinctTaken
<1>4. e.id \in Ids(enemies[p]) /\ e.id \in Nat /\ e.id < enemyNb[p]
  BY <1>2 DEF Ids
<1> HIDE DEF B
<1>5. (\A q \in Processes :
          Distinct(enemies[q]) /\ \A id \in Ids(enemies[q]) : id < enemyNb[q])'
  <2>1. \A q \in Processes : enemyNb[q] <= enemyNb'[q]
    BY <1>1, <1>2
  <2>2. \A id \in Ids(B) : id < enemyNb'[p]
    BY <1>1, <1>2, <1>3
  <2> QED
    BY <1>1, <1>2, <1>3, <2>1, <2>2, TokensOf
<1>6. enemies'[p] = B /\ \A q \in Processes \ {p} : enemies'[q] = enemies[q]
  BY <1>1, EnemiesOf DEF TypeInv
<1>7. \A c \in Clients : Ids(enemies'[c]) \subseteq Ids(enemies[c])
  BY <1>3, <1>6 DEF Processes
<1>8. \A m \in net : m.client \in Clients
  BY PacketType DEF TypeInv, TypeOK
<1>9. \A m \in net : Report(m) =>
         m.from = m.client /\ m.id < enemyNb'[m.client] /\ m.id \notin Ids(enemies'[m.client])
  BY <1>1, <1>7, <1>8 DEF Tokens
<1>10. \A m \in net : Return(m) =>
         m.entity.id < enemyNb'[m.client] /\ m.entity.id \notin Ids(enemies'[m.client])
  BY <1>1, <1>7, <1>8 DEF Tokens
<1>11. CASE \A m \in net' : (Report(m) \/ Return(m)) => m \in net
  BY <1>5, <1>9, <1>10, <1>11 DEF Tokens, Report, Return, Ids
<1>12. CASE \E m \in net' : (Report(m) \/ Return(m)) /\ m \notin net
  <2>1. p # Server /\ net' = net \cup {EnemyDeath(p, p, e.id)}
    BY <1>12 DEF EnemyDies, Deaths, EnemyDeath, Report, Return
  <2> DEFINE d == EnemyDeath(p, p, e.id)
  <2>2. p \in Clients /\ d.kind = "ENEMY_DEATH" /\ d.from = p /\ d.client = p /\ d.id = e.id
    BY <2>1 DEF Processes, EnemyDeath
  <2>3. Report(d) /\ ~Return(d) /\ net' = net \cup {d}
    BY <2>1, <2>2 DEF Report, Return
  <2>4. d.id < enemyNb'[d.client] /\ d.id \notin Ids(enemies'[d.client])
    BY <1>1, <1>3, <1>4, <1>6, <2>2
  <2>5. \A n \in net : Return(n) /\ n.client = d.client => n.entity.id # d.id
    BY <1>4, <2>2 DEF Tokens
  <2> HIDE DEF d
  <2>6. \A m \in net' : Report(m) =>
           m.from = m.client /\ m.id < enemyNb'[m.client] /\ m.id \notin Ids(enemies'[m.client])
    BY <1>9, <2>2, <2>3, <2>4
  <2>7. \A m \in net' : Return(m) => m \in net
    BY <2>3
  <2>8. \A m, n \in net' :
          Report(m) /\ Return(n) /\ m.client = n.client => m.id # n.entity.id
    BY <2>3, <2>5, <2>7 DEF Tokens
  <2> QED
    BY <1>5, <1>10, <2>6, <2>7, <2>8 DEF Tokens, Report, Return, Ids
<1> QED
  BY <1>11, <1>12

LEMMA TokensTold ==
    ASSUME TypeInv, Tokens, NEW m \in net, HandleClientEnemyDeath(m)
    PROVE  Tokens'
<1>1. /\ Report(m) /\ m.kind = "ENEMY_DEATH"
      /\ net' = (net \ {m}) \cup {NewEnemy(m.client, e) : e \in AliveUnder(m.id)}
      /\ UNCHANGED <<enemies, enemyNb>>
  BY DEF HandleClientEnemyDeath, Report
<1>2. m.from = m.client /\ m.id < enemyNb[m.client] /\ m.id \notin Ids(enemies[m.client])
  BY <1>1 DEF Tokens
<1>3. ASSUME NEW n \in net', n \notin net
      PROVE  /\ Return(n) /\ ~Report(n) /\ n.client = m.client /\ n.entity.id = m.id
             /\ n = NewEnemy(m.client, n.entity) /\ n.entity \in AliveUnder(m.id)
  <2>1. PICK e \in AliveUnder(m.id) : n = NewEnemy(m.client, e)
    BY <1>1, <1>3
  <2> QED
    BY <2>1 DEF NewEnemy, Return, Report, AliveUnder
<1>4. \A e, f \in AliveUnder(m.id) : e = f
  <2>1. Distinct(enemies[Server])
    BY DEF Tokens, Processes
  <2> QED
    BY <2>1 DEF AliveUnder, Distinct
<1>5. \A n \in net' : n # m
  BY <1>1 DEF NewEnemy
<1>6. ASSUME NEW n \in net', Report(n)
      PROVE  /\ n \in net /\ n.from = n.client
             /\ n.id < enemyNb[n.client] /\ n.id \notin Ids(enemies[n.client])
             /\ ~(n.client = m.client /\ n.id = m.id)
  <2>1. n \in net /\ n.from = n.client
    BY <1>3, <1>6 DEF Tokens
  <2>2. n = EnemyDeath(n.from, n.client, n.id) /\ m = EnemyDeath(m.from, m.client, m.id)
    BY <1>1, <1>6, <2>1, PacketType DEF TypeInv, TypeOK, Report
  <2> QED
    BY <1>2, <1>5, <1>6, <2>1, <2>2 DEF Tokens
<1>7. ASSUME NEW n \in net', Return(n)
      PROVE  n.entity.id < enemyNb[n.client] /\ n.entity.id \notin Ids(enemies[n.client])
  BY <1>2, <1>3, <1>7 DEF Tokens
<1>8. ASSUME NEW n \in net', NEW o \in net', Return(n), Return(o), n.client = o.client,
             n.entity.id = o.entity.id
      PROVE  n = o
  <2>1. \A q \in net : Return(q) => ~(q.client = m.client /\ q.entity.id = m.id)
    BY <1>1 DEF Tokens
  <2>2. CASE n \in net /\ o \in net
    BY <1>8, <2>2 DEF Tokens
  <2>3. CASE n \notin net /\ o \notin net
    BY <1>3, <1>4, <2>3
  <2> QED
    BY <1>3, <1>8, <2>1, <2>2, <2>3
<1>9. ASSUME NEW n \in net', NEW o \in net', Report(n), Return(o), n.client = o.client
      PROVE  n.id # o.entity.id
  <2>1. CASE o \in net
    BY <1>6, <1>9, <2>1 DEF Tokens
  <2>2. CASE o \notin net
    BY <1>3, <1>6, <1>9, <2>2
  <2> QED
    BY <2>1, <2>2
<1>10. (\A p \in Processes :
           Distinct(enemies[p]) /\ \A id \in Ids(enemies[p]) : id < enemyNb[p])'
  BY <1>1 DEF Tokens, Distinct, Ids
<1> QED
  BY <1>1, <1>6, <1>7, <1>8, <1>9, <1>10 DEF Tokens, Report, Return, Ids

LEMMA TokensBack ==
    ASSUME TypeInv, Tokens, NEW m \in net, ReceiveNewEnemy(m)
    PROVE  Tokens'
<1> DEFINE c == m.client
           B == BagAdd(enemies[c], m.entity)
<1>1. /\ Return(m) /\ net' = net \ {m} /\ enemyNb' = enemyNb
      /\ enemies' = [enemies EXCEPT ![c] = B]
  BY DEF ReceiveNewEnemy, Return
<1>2. /\ c \in Processes /\ enemyNb \in [Processes -> Nat] /\ IsABag(enemies[c])
      /\ Distinct(enemies[c]) /\ \A id \in Ids(enemies[c]) : id < enemyNb[c]
  BY PacketType DEF TypeInv, TypeOK, Tokens, Processes
<1>3. m.entity.id < enemyNb[c] /\ m.entity.id \notin Ids(enemies[c])
  BY <1>1 DEF Tokens
<1>4. Distinct(B) /\ Ids(B) = Ids(enemies[c]) \cup {m.entity.id}
  BY <1>2, <1>3, DistinctAdded
<1> HIDE DEF B
<1>5. (\A q \in Processes :
          Distinct(enemies[q]) /\ \A id \in Ids(enemies[q]) : id < enemyNb[q])'
  <2>1. \A q \in Processes : enemyNb[q] <= enemyNb'[q]
    BY <1>1, <1>2
  <2>2. \A id \in Ids(B) : id < enemyNb'[c]
    BY <1>1, <1>2, <1>3, <1>4
  <2> HIDE DEF c
  <2> QED
    BY <1>1, <1>2, <1>4, <2>1, <2>2, TokensOf
<1>6. enemies'[c] = B /\ \A q \in Processes \ {c} : enemies'[q] = enemies[q]
  BY <1>1, <1>2, EnemiesOf DEF TypeInv
<1>7. \A n \in net : n.client \in Processes
  BY PacketType DEF TypeInv, TypeOK, Processes
<1>8. ASSUME NEW n \in net', Report(n)
      PROVE  n.from = n.client /\ n.id < enemyNb'[n.client] /\ n.id \notin Ids(enemies'[n.client])
  <2>1. /\ n.from = n.client /\ n.id < enemyNb[n.client] /\ n.id \notin Ids(enemies[n.client])
        /\ (n.client = c => n.id # m.entity.id)
    BY <1>1, <1>8 DEF Tokens
  <2> QED
    BY <1>1, <1>4, <1>6, <1>7, <2>1
<1>9. ASSUME NEW n \in net', Return(n)
      PROVE  n.entity.id < enemyNb'[n.client] /\ n.entity.id \notin Ids(enemies'[n.client])
  <2>1. /\ n.entity.id < enemyNb[n.client] /\ n.entity.id \notin Ids(enemies[n.client])
        /\ (n.client = c => n.entity.id # m.entity.id)
    BY <1>1, <1>9 DEF Tokens
  <2> QED
    BY <1>1, <1>4, <1>6, <1>7, <2>1
<1> QED
  BY <1>1, <1>5, <1>8, <1>9 DEF Tokens, Report, Return, Ids

\* An enemy of a client is told to be dead: it keeps its number until it dies.
LEMMA Marked ==
    ASSUME TypeInv, Tokens, NEW c \in Clients, NEW e \in BagToSet(enemies[c]),
           enemies' = [enemies EXCEPT ![c] =
                           BagAdd(BagRemove(@, e), [e EXCEPT !.dying = TRUE])]
    PROVE  /\ \A p \in Processes \ {c} : enemies'[p] = enemies[p]
           /\ BagToSet(enemies'[c]) = (BagToSet(enemies[c]) \ {e}) \cup {[e EXCEPT !.dying = TRUE]}
           /\ Distinct(enemies'[c]) /\ Ids(enemies'[c]) = Ids(enemies[c])
<1> DEFINE d == [e EXCEPT !.dying = TRUE]
           R == BagRemove(enemies[c], e)
<1>1. c \in Processes /\ IsABag(enemies[c]) /\ Distinct(enemies[c]) /\ e \in Entities
  BY DEF TypeInv, TypeOK, Tokens, Processes
<1>2. d.id = e.id
  BY <1>1, EntityType
<1>3. /\ IsABag(R) /\ Distinct(R) /\ Ids(R) = Ids(enemies[c]) \ {e.id}
      /\ BagToSet(R) = BagToSet(enemies[c]) \ {e}
  BY <1>1, DistinctTaken
<1>4. enemies' = [enemies EXCEPT ![c] = BagAdd(R, d)]
  OBVIOUS
<1>5. e.id \in Ids(enemies[c])
  BY DEF Ids
<1> HIDE DEF d, R
<1>6. /\ BagToSet(BagAdd(R, d)) = BagToSet(R) \cup {d} /\ Distinct(BagAdd(R, d))
      /\ Ids(BagAdd(R, d)) = Ids(R) \cup {d.id}
  BY <1>2, <1>3, DistinctAdded
<1>7. enemies'[c] = BagAdd(R, d) /\ \A p \in Processes \ {c} : enemies'[p] = enemies[p]
  BY <1>1, <1>4, EnemiesOf DEF TypeInv
<1>8. Ids(enemies'[c]) = Ids(enemies[c])
  BY <1>2, <1>3, <1>5, <1>6, <1>7
<1>9. BagToSet(enemies'[c]) = (BagToSet(enemies[c]) \ {e}) \cup {d} /\ Distinct(enemies'[c])
  BY <1>3, <1>6, <1>7
<1> QED
  BY <1>7, <1>8, <1>9 DEF d

LEMMA TokensMarked ==
    ASSUME TypeInv, Tokens, NEW m \in net, ReceiveEnemyDeath(m)
    PROVE  Tokens'
<1>1. enemyNb' = enemyNb /\ net' = net \ {m}
  BY DEF ReceiveEnemyDeath
<1>2. CASE UNCHANGED enemies
  BY <1>1, <1>2, TokensKept
<1>3. ASSUME NEW e \in BagToSet(enemies[m.client]),
             enemies' = [enemies EXCEPT ![m.client] =
                             BagAdd(BagRemove(@, e), [e EXCEPT !.dying = TRUE])]
      PROVE  Tokens'
  <2>1. m.client \in Clients /\ \A n \in net : n.client \in Processes
    BY PacketType DEF TypeInv, TypeOK, Processes
  <2>2. /\ \A p \in Processes \ {m.client} : enemies'[p] = enemies[p]
        /\ Distinct(enemies'[m.client]) /\ Ids(enemies'[m.client]) = Ids(enemies[m.client])
    BY <1>3, <2>1, Marked
  <2>3. \A p \in Processes : Distinct(enemies'[p]) /\ Ids(enemies'[p]) = Ids(enemies[p])
    BY <2>2 DEF Tokens
  <2>4. (\A p \in Processes :
            Distinct(enemies[p]) /\ \A id \in Ids(enemies[p]) : id < enemyNb[p])'
    <3>1. \A p \in Processes : \A id \in Ids(enemies'[p]) : id < enemyNb'[p]
      BY <1>1, <2>3 DEF Tokens
    <3> QED
      BY <2>3, <3>1 DEF Distinct, Ids
  <2>5. \A n \in net : Ids(enemies'[n.client]) = Ids(enemies[n.client])
    BY <2>1, <2>3
  <2>6. \A n \in net' : Report(n) =>
          n.from = n.client /\ n.id < enemyNb'[n.client] /\ n.id \notin Ids(enemies'[n.client])
    BY <1>1, <2>5 DEF Tokens
  <2>7. \A n \in net' : Return(n) =>
          n.entity.id < enemyNb'[n.client] /\ n.entity.id \notin Ids(enemies'[n.client])
    BY <1>1, <2>5 DEF Tokens
  <2> QED
    BY <1>1, <2>4, <2>6, <2>7 DEF Tokens, Report, Return, Ids
<1> QED
  BY <1>2, <1>3 DEF ReceiveEnemyDeath

LEMMA TokensStep == TypeInv /\ Tokens /\ [Next]_vars => Tokens'
<1> SUFFICES ASSUME TypeInv, Tokens, [Next]_vars PROVE Tokens'
  OBVIOUS
<1> USE DEF Report, Return
<1>1. CASE WaveHandlerFirst
  BY <1>1, StartNextWaveSends, TokensKept DEF WaveHandlerFirst
<1>2. CASE WaveHandlerPause
  BY <1>2, TokensKept DEF WaveHandlerPause
<1>3. CASE WaveHandlerNext
  BY <1>3, StartNextWaveSends, TokensKept DEF WaveHandlerNext
<1>4. CASE WaveHandlerEnd
  BY <1>4, TokensKept DEF WaveHandlerEnd, EndGame
<1>5. ASSUME NEW p \in Processes, InitWave(p) PROVE Tokens'
  BY <1>5, TokensKept DEF InitWave
<1>6. ASSUME NEW p \in Processes, UpdateWaveEnd(p) PROVE Tokens'
  BY <1>6, TokensKept DEF UpdateWaveEnd
<1>7. ASSUME NEW m \in net, HandleStartWave(m) PROVE Tokens'
  BY <1>7, TokensKept DEF HandleStartWave
<1>8. CASE UNCHANGED vars
  BY <1>8, TokensKept DEF vars
<1> QED
  BY <1>1, <1>2, <1>3, <1>4, <1>5, <1>6, <1>7, <1>8, TokensCreate, TokensDies, TokensTold,
     TokensBack, TokensMarked
     DEF Next, WaveHandler, System

\* No client ever has an enemy twice.
THEOREM NoEnemyTwice == Spec => []NoDoubleEnemy
<1>1. TypeInv /\ Tokens => NoDoubleEnemy
  BY DEF Tokens, NoDoubleEnemy, Distinct, Processes
<1> QED
  BY <1>1, TypeInit, TypeStep, TokensInit, TokensStep, PTL DEF Spec

-----------------------------------------------------------------------------
(* The numbers that are given *)

\* The processes that count from 0 and have missed no wave.
InPhase(p) == (p = Server \/ earlier[p] = 0) /\ InStep(p)

\* Every enemy that has been created got its own number, and those that remain to be
\* created will.
Numbered(p) ==
    /\ enemyNb[p] + Len(remaining[p]) = Total[Len(ran[p])]
    /\ \A k \in 1 .. Len(remaining[p]) : Num(remaining[p][k]) = enemyNb[p] + k - 1
    /\ \A e \in BagToSet(enemies[p]) : Num(e.enemy) = e.id

Numbering ==
    /\ \A p \in Processes : InPhase(p) => Numbered(p)
    /\ \A m \in net : Return(m) => Num(m.entity.enemy) = m.entity.id /\ ~m.entity.dying
    /\ \A e \in BagToSet(enemies[Server]) : ~e.dying

LEMMA NumberingInit == Init => Numbering
<1> SUFFICES ASSUME Init PROVE Numbering
  OBVIOUS
<1>1. /\ net = {}
      /\ \A p \in Processes : enemies[p] = EmptyBag /\ remaining[p] = <<>> /\ ran[p] = <<>>
      /\ \A p \in Processes : enemyNb[p] = IF p = Server THEN 0 ELSE earlier[p]
  BY DEF Init
<1>2. \A p \in Processes : BagToSet(enemies[p]) = {}
  BY <1>1, NoneInEmptyBag
<1>3. \A p \in Processes : InPhase(p) => enemyNb[p] = 0
  BY <1>1 DEF InPhase
<1>4. ASSUME NEW p \in Processes, InPhase(p) PROVE Numbered(p)
  <2>1. /\ enemyNb[p] = 0 /\ remaining[p] = <<>> /\ ran[p] = <<>> /\ BagToSet(enemies[p]) = {}
    BY <1>1, <1>2, <1>3, <1>4
  <2>2. Len(remaining[p]) = 0 /\ Len(ran[p]) = 0
    BY <2>1, LenProperties, EmptySeq
  <2> QED
    BY <2>1, <2>2, TotalStep DEF Numbered
<1>5. BagToSet(enemies[Server]) = {}
  BY <1>2 DEF Processes
<1> QED
  BY <1>1, <1>4, <1>5 DEF Numbering

\* A step that creates no enemy and unfolds no wave.
LEMMA NumberedKept ==
    ASSUME NEW p, Numbered(p), enemyNb'[p] = enemyNb[p], remaining'[p] = remaining[p],
           ran'[p] = ran[p],
           \A e \in BagToSet(enemies'[p]) : e \in BagToSet(enemies[p]) \/ Num(e.enemy) = e.id
    PROVE  Numbered(p)'
  BY DEF Numbered, Num

LEMMA InPhaseKept ==
    ASSUME NEW p, earlier' = earlier, ran'[p] = ran[p]
    PROVE  InPhase(p)' <=> InPhase(p)
  BY DEF InPhase, InStep

LEMMA NumberingKept ==
    ASSUME Numbering, UNCHANGED <<enemyNb, remaining, ran, earlier, enemies>>,
           \A m \in net' : Return(m) => m \in net
    PROVE  Numbering'
<1>1. \A p \in Processes : InPhase(p)' => Numbered(p)'
  BY NumberedKept, InPhaseKept DEF Numbering
<1> QED
  BY <1>1 DEF Numbering, Num, Return

LEMMA NumberingUnfold ==
    ASSUME TypeInv, Numbering, NEW p \in Processes, InitWave(p)
    PROVE  Numbering'
<1> DEFINE w == waveId[p]
           n == Len(ran[p])
           old == remaining[p]
           new == Unfolded(w)
<1>1. /\ waveId[p] \in Waves
      /\ remaining \in [Processes -> Seq(Enemies)] /\ ran \in [Processes -> Seq(Waves)]
      /\ enemyNb \in [Processes -> Nat]
  BY DEF InitWave, TypeInv, TypeOK
<1>2. /\ remaining' = [remaining EXCEPT ![p] = @ \o Unfolded(waveId[p])]
      /\ ran' = [ran EXCEPT ![p] = Append(@, waveId[p])]
      /\ UNCHANGED <<enemyNb, enemies, net, earlier>>
  BY DEF InitWave, Unfolded
<1>3. /\ remaining'[p] = old \o new /\ ran'[p] = Append(ran[p], w)
      /\ \A q \in Processes \ {p} : remaining'[q] = remaining[q] /\ ran'[q] = ran[q]
  BY <1>1, <1>2
<1>4. ASSUME NEW q \in Processes, q # p, InPhase(q)' PROVE Numbered(q)'
  BY <1>2, <1>3, <1>4, NumberedKept, InPhaseKept DEF Numbering
<1>5. ASSUME InPhase(p)' PROVE Numbered(p)'
  <2>1. /\ ran[p] \in Seq(Waves) /\ w \in Waves /\ n \in Nat
        /\ Len(Append(ran[p], w)) = n + 1
        /\ DOMAIN Append(ran[p], w) = 1 .. n + 1
        /\ \A i \in 1 .. n : Append(ran[p], w)[i] = ran[p][i]
        /\ Append(ran[p], w)[n + 1] = w
        /\ DOMAIN ran[p] = 1 .. n
    BY <1>1, AppendProperties, LenProperties
  <2>2. \A i \in 1 .. n + 1 : Append(ran[p], w)[i] = i
    BY <1>3, <1>5, <2>1 DEF InPhase, InStep
  <2>3. w = n + 1 /\ InStep(p)
    BY <2>1, <2>2 DEF InStep
  <2>4. InPhase(p)
    BY <1>2, <1>5, <2>3 DEF InPhase
  <2>5. Numbered(p)
    BY <2>4 DEF Numbering
  <2>6. /\ old \in Seq(Enemies) /\ new \in Seq(Enemies)
        /\ Len(new) = Size[w] /\ \A i \in 1 .. Size[w] : new[i] = <<w, i>>
        /\ Len(old) \in Nat /\ Size[w] \in Nat
    BY <1>1, UnfoldedType, SizeType, LenProperties
  <2>7. /\ Len(old \o new) = Len(old) + Size[w]
        /\ \A k \in 1 .. Len(old) : (old \o new)[k] = old[k]
        /\ \A k \in Len(old) + 1 .. Len(old) + Size[w] : (old \o new)[k] = <<w, k - Len(old)>>
    <3>1. /\ Len(old \o new) = Len(old) + Len(new)
          /\ \A k \in 1 .. Len(old) + Len(new) :
                (old \o new)[k] = IF k <= Len(old) THEN old[k] ELSE new[k - Len(old)]
      BY <2>6, ConcatProperties
    <3>2. \A k \in Len(old) + 1 .. Len(old) + Size[w] :
             k - Len(old) \in 1 .. Size[w] /\ ~(k <= Len(old)) /\ k \in 1 .. Len(old) + Len(new)
      BY <2>6
    <3> HIDE DEF old, new, w
    <3> QED
      BY <2>6, <3>1, <3>2
  <2>8. /\ Total[n + 1] = Total[n] + Size[w] /\ Total[n] \in Nat /\ enemyNb[p] \in Nat
        /\ enemyNb[p] + Len(old) = Total[n]
    <3>1. n <= Len(Size) /\ n + 1 \in Nat \ {0} /\ n + 1 - 1 = n
      BY <2>1, <2>3, SizeType
    <3> QED
      BY <1>1, <2>1, <2>3, <2>5, <3>1, TotalStep, TotalType DEF Numbered
  <2>9. \A k \in 1 .. Len(old) : Num((old \o new)[k]) = enemyNb[p] + k - 1
    BY <2>5, <2>7 DEF Numbered
  <2>10. ASSUME NEW k \in Len(old) + 1 .. Len(old) + Size[w]
         PROVE  Num((old \o new)[k]) = enemyNb[p] + k - 1
    <3>1. Num(<<w, k - Len(old)>>) = Total[w - 1] + (k - Len(old)) - 1
      BY DEF Num
    <3> HIDE DEF old, new, w, n
    <3>2. Total[w - 1] = enemyNb[p] + Len(old)
      BY <2>1, <2>3, <2>8
    <3>3. k \in Int /\ Len(old) \in Nat /\ (old \o new)[k] = <<w, k - Len(old)>>
      <4>1. Len(old) \in Nat /\ Size[w] \in Nat
        BY <2>6
      <4>2. k \in Int
        BY <4>1
      <4>3. (old \o new)[k] = <<w, k - Len(old)>>
        BY <2>7
      <4> QED
        BY <4>1, <4>2, <4>3
    <3>4. enemyNb[p] \in Nat
      BY <2>8
    <3>5. Num((old \o new)[k]) = (enemyNb[p] + Len(old)) + (k - Len(old)) - 1
      BY <3>1, <3>2, <3>3
    <3> QED
      BY <3>3, <3>4, <3>5
  <2>11. /\ enemyNb[p] + Len(old \o new) = Total[Len(Append(ran[p], w))]
         /\ \A k \in 1 .. Len(old \o new) : Num((old \o new)[k]) = enemyNb[p] + k - 1
    <3>1. \A k \in 1 .. Len(old) + Size[w] :
             k \in 1 .. Len(old) \/ k \in Len(old) + 1 .. Len(old) + Size[w]
      BY <2>6
    <3> HIDE DEF old, new, w, n
    <3>2. \A k \in 1 .. Len(old \o new) : Num((old \o new)[k]) = enemyNb[p] + k - 1
      BY <2>7, <2>9, <2>10, <3>1
    <3>3. enemyNb[p] + Len(old \o new) = Total[Len(Append(ran[p], w))]
      BY <2>1, <2>6, <2>7, <2>8
    <3> QED
      BY <3>2, <3>3
  <2>12. \A e \in BagToSet(enemies[p]) : Num(e.enemy) = e.id
    BY <2>5 DEF Numbered
  <2> HIDE DEF old, new, w, n
  <2> QED
    BY <1>2, <1>3, <2>11, <2>12 DEF Numbered, Num
<1>6. \A q \in Processes : InPhase(q)' => Numbered(q)'
  BY <1>4, <1>5
<1> QED
  BY <1>2, <1>6 DEF Numbering, Num, Return

LEMMA NumberingCreate ==
    ASSUME TypeInv, Numbering, NEW p \in Processes, UpdateWaveCreate(p)
    PROVE  Numbering'
<1> DEFINE old == remaining[p]
           new == [enemy |-> Head(remaining[p]), id |-> enemyNb[p], dying |-> FALSE]
           B == BagAdd(enemies[p], new)
<1>1. /\ enemies' = [enemies EXCEPT ![p] = B]
      /\ enemyNb' = [enemyNb EXCEPT ![p] = @ + 1]
      /\ remaining' = [remaining EXCEPT ![p] = Tail(@)]
      /\ UNCHANGED <<net, earlier, ran>> /\ remaining[p] # <<>>
  BY DEF UpdateWaveCreate
<1>2. /\ enemyNb \in [Processes -> Nat] /\ remaining \in [Processes -> Seq(Enemies)]
      /\ IsABag(enemies[p])
  BY DEF TypeInv, TypeOK
<1>3. BagToSet(B) = BagToSet(enemies[p]) \cup {new}
  BY <1>2, AddedToBag
<1>4. /\ enemies'[p] = B /\ enemyNb'[p] = enemyNb[p] + 1 /\ remaining'[p] = Tail(old)
      /\ \A q \in Processes \ {p} : enemies'[q] = enemies[q] /\ enemyNb'[q] = enemyNb[q]
                                    /\ remaining'[q] = remaining[q]
  BY <1>1, <1>2, EnemiesOf DEF TypeInv
<1>5. new.enemy = Head(old) /\ new.id = enemyNb[p] /\ ~new.dying
  OBVIOUS
<1>6. /\ old \in Seq(Enemies) /\ Len(old) \in Nat /\ Len(old) # 0 /\ Head(old) = old[1]
      /\ Len(Tail(old)) = Len(old) - 1
      /\ \A k \in 1 .. Len(Tail(old)) : Tail(old)[k] = old[k + 1]
  <2>1. old \in Seq(Enemies) /\ old # <<>>
    BY <1>1, <1>2
  <2> HIDE DEF old
  <2>2. Len(old) \in Nat /\ Len(old) # 0
    BY <2>1, LenProperties, EmptySeq
  <2> QED
    BY <2>1, <2>2, HeadTailProperties
<1> HIDE DEF new, B
<1>7. ASSUME NEW q \in Processes, q # p, InPhase(q)' PROVE Numbered(q)'
  <2>1. Numbered(q) /\ ran'[q] = ran[q]
    BY <1>1, <1>7, InPhaseKept DEF Numbering
  <2> QED
    BY <1>4, <1>7, <2>1, NumberedKept
<1>8. ASSUME InPhase(p)' PROVE Numbered(p)'
  <2>1. Numbered(p)
    BY <1>1, <1>8, InPhaseKept DEF Numbering
  <2> HIDE DEF old
  <2>2. enemyNb'[p] + Len(Tail(old)) = Total[Len(ran'[p])]
    <3>1. enemyNb[p] + Len(old) = Total[Len(ran[p])]
      BY <2>1 DEF Numbered, old
    <3> QED
      BY <1>1, <1>2, <1>4, <1>6, <3>1
  <2>3. ASSUME NEW k \in 1 .. Len(Tail(old))
        PROVE  Num(Tail(old)[k]) = enemyNb'[p] + k - 1
    <3>1. k + 1 \in 1 .. Len(old) /\ k \in Nat
      BY <1>6
    <3>2. Num(old[k + 1]) = enemyNb[p] + (k + 1) - 1
      BY <2>1, <3>1 DEF Numbered, old
    <3> QED
      BY <1>2, <1>4, <1>6, <3>1, <3>2
  <2>4. Num(Head(old)) = enemyNb[p]
    <3>1. Num(old[1]) = enemyNb[p] + 1 - 1
      BY <1>6, <2>1 DEF Numbered, old
    <3> QED
      BY <1>2, <1>6, <3>1
  <2>5. \A e \in BagToSet(enemies'[p]) : Num(e.enemy) = e.id
    BY <1>3, <1>4, <1>5, <2>1, <2>4 DEF Numbered
  <2> QED
    BY <1>4, <2>2, <2>3, <2>5 DEF Numbered, Num
<1>9. \A e \in BagToSet(enemies'[Server]) : ~e.dying
  <2>1. \A e \in BagToSet(enemies[Server]) : ~e.dying
    BY DEF Numbering
  <2> QED
    BY <1>3, <1>4, <1>5, <2>1 DEF Processes
<1>10. \A q \in Processes : InPhase(q)' => Numbered(q)'
  BY <1>7, <1>8
<1> QED
  BY <1>1, <1>9, <1>10 DEF Numbering, Num, Return

LEMMA NumberingStep == TypeInv /\ Stage /\ Tokens /\ Numbering /\ [Next]_vars => Numbering'
<1> SUFFICES ASSUME TypeInv, Stage, Tokens, Numbering, [Next]_vars PROVE Numbering'
  OBVIOUS
<1>1. CASE WaveHandlerFirst
  BY <1>1, StartNextWaveSends, NumberingKept DEF WaveHandlerFirst, Return
<1>2. CASE WaveHandlerPause
  BY <1>2, NumberingKept DEF WaveHandlerPause, infoVars
<1>3. CASE WaveHandlerNext
  BY <1>3, StartNextWaveSends, NumberingKept DEF WaveHandlerNext, Return
<1>4. CASE WaveHandlerEnd
  BY <1>4, NumberingKept DEF WaveHandlerEnd, EndGame, infoVars, Return
<1>5. ASSUME NEW p \in Processes, UpdateWaveEnd(p) PROVE Numbering'
  BY <1>5, NumberingKept DEF UpdateWaveEnd
<1>6. ASSUME NEW m \in net, HandleStartWave(m) PROVE Numbering'
  BY <1>6, NumberingKept DEF HandleStartWave
<1>7. ASSUME NEW p \in Processes, NEW e \in BagToSet(enemies[p]), EnemyDies(p, e)
      PROVE  Numbering'
  <2>1. /\ enemies' = [enemies EXCEPT ![p] = BagRemove(enemies[p], e)]
        /\ UNCHANGED <<enemyNb, remaining, ran, earlier>>
    BY <1>7 DEF EnemyDies, infoVars
  <2>2. IsABag(enemies[p]) /\ Distinct(enemies[p])
    BY DEF TypeInv, TypeOK, Tokens
  <2>3. \A q \in Processes : BagToSet(enemies'[q]) \subseteq BagToSet(enemies[q])
    BY <2>1, <2>2, DistinctTaken, EnemiesOf DEF TypeInv
  <2>4. \A q \in Processes : InPhase(q)' => Numbered(q)'
    BY <2>1, <2>3, NumberedKept, InPhaseKept DEF Numbering
  <2>5. \A m \in net' : Return(m) => m \in net
    BY <1>7 DEF EnemyDies, Deaths, EnemyDeath, Return
  <2> QED
    BY <2>3, <2>4, <2>5 DEF Numbering, Num, Return, Processes
<1>8. ASSUME NEW m \in net, HandleClientEnemyDeath(m) PROVE Numbering'
  <2>1. /\ net' = (net \ {m}) \cup {NewEnemy(m.client, e) : e \in AliveUnder(m.id)}
        /\ UNCHANGED <<enemyNb, remaining, ran, earlier, enemies>>
    BY <1>8 DEF HandleClientEnemyDeath, infoVars
  <2>2. \A q \in Processes : InPhase(q)' => Numbered(q)'
    BY <2>1, NumberedKept, InPhaseKept DEF Numbering
  <2>3. Numbered(Server)
    BY DEF Numbering, InPhase, Stage, Processes
  <2>4. ASSUME NEW n \in net', n \notin net
        PROVE  Num(n.entity.enemy) = n.entity.id /\ ~n.entity.dying
    <3>1. PICK e \in AliveUnder(m.id) : n = NewEnemy(m.client, e)
      BY <2>1, <2>4
    <3>2. n.entity = e /\ e \in BagToSet(enemies[Server])
      BY <3>1 DEF NewEnemy, AliveUnder
    <3> QED
      BY <2>3, <3>2 DEF Numbered, Numbering
  <2>5. \A n \in net' : Return(n) => Num(n.entity.enemy) = n.entity.id /\ ~n.entity.dying
    BY <2>4 DEF Numbering
  <2> QED
    BY <2>1, <2>2, <2>5 DEF Numbering, Num, Return
<1>9. ASSUME NEW m \in net, ReceiveNewEnemy(m) PROVE Numbering'
  <2>1. /\ net' = net \ {m} /\ Return(m)
        /\ enemies' = [enemies EXCEPT ![m.client] = BagAdd(enemies[m.client], m.entity)]
        /\ UNCHANGED <<enemyNb, remaining, ran, earlier>>
    BY <1>9 DEF ReceiveNewEnemy, infoVars, Return
  <2>2. m.client \in Processes /\ m.client # Server /\ IsABag(enemies[m.client])
    BY PacketType, WavesAssumption DEF TypeInv, TypeOK, Processes
  <2>3. BagToSet(BagAdd(enemies[m.client], m.entity)) = BagToSet(enemies[m.client]) \cup {m.entity}
    BY <2>2, AddedToBag
  <2>4. /\ \A q \in Processes \ {m.client} : enemies'[q] = enemies[q]
        /\ BagToSet(enemies'[m.client]) = BagToSet(enemies[m.client]) \cup {m.entity}
    BY <2>1, <2>2, <2>3, EnemiesOf DEF TypeInv
  <2>5. Num(m.entity.enemy) = m.entity.id
    BY <2>1 DEF Numbering
  <2>6. \A q \in Processes : \A e \in BagToSet(enemies'[q]) :
            e \in BagToSet(enemies[q]) \/ Num(e.enemy) = e.id
    BY <2>4, <2>5
  <2>7. \A q \in Processes : InPhase(q)' => Numbered(q)'
    BY <2>1, <2>6, NumberedKept, InPhaseKept DEF Numbering
  <2>8. enemies'[Server] = enemies[Server]
    BY <2>2, <2>4 DEF Processes
  <2> QED
    BY <2>1, <2>7, <2>8 DEF Numbering, Num, Return
<1>10. ASSUME NEW m \in net, ReceiveEnemyDeath(m) PROVE Numbering'
  <2>1. net' = net \ {m} /\ UNCHANGED <<enemyNb, remaining, ran, earlier>>
    BY <1>10 DEF ReceiveEnemyDeath, infoVars
  <2>2. CASE UNCHANGED enemies
    BY <2>1, <2>2, NumberingKept
  <2>3. ASSUME NEW e \in BagToSet(enemies[m.client]),
               enemies' = [enemies EXCEPT ![m.client] =
                               BagAdd(BagRemove(@, e), [e EXCEPT !.dying = TRUE])]
        PROVE  Numbering'
    <3> DEFINE d == [e EXCEPT !.dying = TRUE]
    <3>1. m.client \in Clients /\ m.client \in Processes /\ m.client # Server
      BY PacketType, WavesAssumption DEF TypeInv, TypeOK, Processes
    <3>2. e \in Entities
      BY <3>1 DEF TypeInv, TypeOK
    <3>3. d.enemy = e.enemy /\ d.id = e.id
      BY <3>2, EntityType
    <3>4. /\ \A p \in Processes \ {m.client} : enemies'[p] = enemies[p]
          /\ BagToSet(enemies'[m.client]) = (BagToSet(enemies[m.client]) \ {e}) \cup {d}
      BY <2>3, <3>1, Marked
    <3> HIDE DEF d
    <3>5. ASSUME NEW q \in Processes, InPhase(q)' PROVE Numbered(q)'
      <4>1. Numbered(q) /\ ran'[q] = ran[q]
        BY <2>1, <3>5, InPhaseKept DEF Numbering
      <4>2. \A x \in BagToSet(enemies'[q]) : x \in BagToSet(enemies[q]) \/ Num(x.enemy) = x.id
        BY <3>3, <3>4, <4>1 DEF Numbered
      <4> QED
        BY <2>1, <4>1, <4>2, NumberedKept
    <3>6. enemies'[Server] = enemies[Server]
      BY <3>1, <3>4 DEF Processes
    <3> QED
      BY <2>1, <3>5, <3>6 DEF Numbering, Num, Return
  <2> QED
    BY <1>10, <2>2, <2>3 DEF ReceiveEnemyDeath
<1>11. CASE UNCHANGED vars
  BY <1>11, NumberingKept DEF vars, infoVars
<1> QED
  BY <1>1, <1>2, <1>3, <1>4, <1>5, <1>6, <1>7, <1>8, <1>9, <1>10, <1>11, NumberingUnfold,
     NumberingCreate
     DEF Next, WaveHandler, System

\* When the server starts a wave, or ends the game, it has created every enemy of
\* the waves before, each once, and none of them lives.
LEMMA StartsAfterLast ==
    ASSUME TypeInv, Stage, Numbering, [Next]_vars,
           waveIndex' # waveIndex \/ gameEnded' # gameEnded
    PROVE  enemyNb[Server] = Total[waveIndex] /\ enemies[Server] = EmptyBag
<1>1. Resting(Server) /\ pending[Server] = 0
  <2>1. CASE WaveHandlerFirst
    <3>1. handler = "added" /\ Len(ran[Server]) \in Nat
      BY <2>1, LenProperties DEF WaveHandlerFirst, TypeInv, TypeOK, Processes
    <3> QED
      BY <3>1 DEF Stage
  <2>2. CASE WaveHandlerNext
    BY <2>2 DEF WaveHandlerNext, IsWaveEnded, Stage
  <2>3. WaveHandlerFirst \/ WaveHandlerNext
    <3> USE DEF handlerVars
    <3>1. ~WaveHandlerPause /\ ~WaveHandlerEnd
      BY DEF WaveHandlerPause, WaveHandlerEnd
    <3>2. \A p \in Processes : ~System(p)
      BY DEF System, InitWave, UpdateWaveEnd, UpdateWaveCreate
    <3>3. \A p \in Processes : \A e \in BagToSet(enemies[p]) : ~EnemyDies(p, e)
      BY DEF EnemyDies
    <3>4. \A m \in net : /\ ~HandleClientEnemyDeath(m) /\ ~HandleStartWave(m)
                         /\ ~ReceiveNewEnemy(m) /\ ~ReceiveEnemyDeath(m)
      BY DEF HandleClientEnemyDeath, HandleStartWave, ReceiveNewEnemy, ReceiveEnemyDeath
    <3>5. vars' # vars
      BY DEF vars
    <3> QED
      BY <3>1, <3>2, <3>3, <3>4, <3>5 DEF Next, WaveHandler
  <2> QED
    BY <2>1, <2>2, <2>3
<1>2. /\ enemyNb[Server] \in Nat /\ Len(ran[Server]) = waveIndex
      /\ remaining[Server] = <<>> /\ enemies[Server] = EmptyBag
  <2>1. enemyNb[Server] \in Nat /\ Len(ran[Server]) \in Nat
    BY LenProperties DEF TypeInv, TypeOK, Processes
  <2> QED
    BY <1>1, <2>1 DEF Stage, Resting
<1>3. enemyNb[Server] + Len(remaining[Server]) = Total[waveIndex]
  BY <1>2 DEF Numbering, Numbered, InPhase, Stage, Processes
<1>4. Len(remaining[Server]) = 0
  BY <1>2, EmptySeq
<1> QED
  BY <1>2, <1>3, <1>4

\* A wave starts, and the game ends, only when the waves before are over.
THEOREM WavesInOrder == Spec => WaveStartsAfterLast
<1>1. TypeInv /\ Stage /\ Numbering /\ [Next]_vars =>
          [waveIndex' # waveIndex \/ gameEnded' # gameEnded =>
               /\ enemyNb[Server] = Total[waveIndex]
               /\ enemies[Server] = EmptyBag]_vars
  BY StartsAfterLast
<1> QED
  BY <1>1, TypeInit, TypeStep, StageInit, StageStep, TokensInit, TokensStep,
     NumberingInit, NumberingStep, PTL DEF Spec, WaveStartsAfterLast

-----------------------------------------------------------------------------
(* What is dead at the server stays dead *)

Gone(id) == id < enemyNb[Server] /\ id \notin Ids(enemies[Server])

\* The server tells only of the death of what is gone, and an enemy that a client was
\* told to be dead is gone too.
Dead ==
    /\ \A m \in net : m.kind = "ENEMY_DEATH" /\ m.from = Server => Gone(m.id)
    /\ \A c \in Clients : \A e \in BagToSet(enemies[c]) : e.dying => Gone(e.id)

LEMMA DeadInit == Init => Dead
<1> SUFFICES ASSUME Init PROVE Dead
  OBVIOUS
<1>1. net = {} /\ \A p \in Processes : BagToSet(enemies[p]) = {}
  BY NoneInEmptyBag DEF Init
<1> QED
  BY <1>1 DEF Dead, Processes

LEMMA GoneKept ==
    ASSUME enemyNb'[Server] = enemyNb[Server],
           Ids(enemies'[Server]) \subseteq Ids(enemies[Server]), NEW id, Gone(id)
    PROVE  Gone(id)'
  BY DEF Gone, Ids

\* A step that marks no enemy, creates none that is marked and tells of no death.
LEMMA DeadKept ==
    ASSUME Dead, \A id \in Nat : Gone(id) => Gone(id)', TypeInv,
           \A m \in net' : m.kind = "ENEMY_DEATH" /\ m.from = Server => m \in net \/ Gone(m.id)',
           \A c \in Clients : \A e \in BagToSet(enemies'[c]) :
               e \in BagToSet(enemies[c]) \/ ~e.dying
    PROVE  Dead'
<1>1. \A m \in net : m.kind = "ENEMY_DEATH" => m.id \in Nat
  BY PacketType DEF TypeInv, TypeOK
<1>2. ASSUME NEW c \in Clients, NEW e \in BagToSet(enemies[c]) PROVE e.id \in Nat
  BY EntityType DEF TypeInv, TypeOK, Processes
<1> QED
  BY <1>1, <1>2 DEF Dead

LEMMA DeadSame ==
    ASSUME Dead, TypeInv, UNCHANGED <<enemies, enemyNb>>,
           \A m \in net' : m.kind = "ENEMY_DEATH" /\ m.from = Server => m \in net
    PROVE  Dead'
<1>1. \A id \in Nat : Gone(id) => Gone(id)'
  BY GoneKept
<1> QED
  BY <1>1, DeadKept

LEMMA DeadStep == TypeInv /\ Tokens /\ Numbering /\ Dead /\ [Next]_vars => Dead'
<1> SUFFICES ASSUME TypeInv, Tokens, Numbering, Dead, [Next]_vars PROVE Dead'
  OBVIOUS
<1>0. /\ enemyNb \in [Processes -> Nat] /\ Server \in Processes
      /\ \A c \in Clients : c \in Processes /\ c # Server
      /\ \A p \in Processes : IsABag(enemies[p]) /\ Distinct(enemies[p])
      /\ \A m \in net : m.client \in Clients
  BY PacketType, WavesAssumption DEF TypeInv, TypeOK, Tokens, Processes
<1>1. CASE WaveHandlerFirst
  BY <1>1, StartNextWaveSends, DeadSame DEF WaveHandlerFirst
<1>2. CASE WaveHandlerPause
  BY <1>2, DeadSame DEF WaveHandlerPause
<1>3. CASE WaveHandlerNext
  BY <1>3, StartNextWaveSends, DeadSame DEF WaveHandlerNext
<1>4. CASE WaveHandlerEnd
  BY <1>4, DeadSame DEF WaveHandlerEnd, EndGame
<1>5. ASSUME NEW p \in Processes, InitWave(p) PROVE Dead'
  BY <1>5, DeadSame DEF InitWave
<1>6. ASSUME NEW p \in Processes, UpdateWaveEnd(p) PROVE Dead'
  BY <1>6, DeadSame DEF UpdateWaveEnd
<1>7. ASSUME NEW m \in net, HandleStartWave(m) PROVE Dead'
  BY <1>7, DeadSame DEF HandleStartWave
<1>8. ASSUME NEW p \in Processes, UpdateWaveCreate(p) PROVE Dead'
  <2> DEFINE new == [enemy |-> Head(remaining[p]), id |-> enemyNb[p], dying |-> FALSE]
             B == BagAdd(enemies[p], new)
  <2>1. /\ enemies' = [enemies EXCEPT ![p] = B]
        /\ enemyNb' = [enemyNb EXCEPT ![p] = @ + 1] /\ net' = net
    BY <1>8 DEF UpdateWaveCreate
  <2>2. new.id = enemyNb[p] /\ ~new.dying
    OBVIOUS
  <2> HIDE DEF new
  <2>3. BagToSet(B) = BagToSet(enemies[p]) \cup {new}
    BY <1>0, AddedToBag
  <2> HIDE DEF B
  <2>4. enemies'[p] = B /\ \A q \in Processes \ {p} : enemies'[q] = enemies[q]
    BY <2>1, EnemiesOf DEF TypeInv
  <2>5. ASSUME NEW id \in Nat, Gone(id) PROVE Gone(id)'
    <3>1. CASE p = Server
      <4>1. enemyNb'[Server] = enemyNb[Server] + 1 /\ enemyNb[Server] \in Nat
        BY <1>0, <2>1, <3>1
      <4>2. id < enemyNb'[Server] /\ id # new.id
        BY <2>2, <2>5, <3>1, <4>1 DEF Gone
      <4>3. id \notin Ids(enemies'[Server])
        BY <2>3, <2>4, <2>5, <3>1, <4>2 DEF Gone, Ids
      <4> QED
        BY <4>2, <4>3 DEF Gone, Ids
    <3>2. CASE p # Server
      BY <1>0, <2>1, <2>4, <2>5, <3>2, GoneKept
    <3> QED
      BY <3>1, <3>2
  <2>6. \A c \in Clients : \A e \in BagToSet(enemies'[c]) :
            e \in BagToSet(enemies[c]) \/ ~e.dying
    BY <1>0, <2>2, <2>3, <2>4
  <2> QED
    BY <2>1, <2>5, <2>6, DeadKept
<1>9. ASSUME NEW p \in Processes, NEW e \in BagToSet(enemies[p]), EnemyDies(p, e)
      PROVE  Dead'
  <2> DEFINE B == BagRemove(enemies[p], e)
  <2>1. enemies' = [enemies EXCEPT ![p] = B] /\ enemyNb' = enemyNb
    BY <1>9 DEF EnemyDies
  <2>2. BagToSet(B) = BagToSet(enemies[p]) \ {e} /\ Ids(B) = Ids(enemies[p]) \ {e.id}
    BY <1>0, DistinctTaken
  <2> HIDE DEF B
  <2>3. enemies'[p] = B /\ \A q \in Processes \ {p} : enemies'[q] = enemies[q]
    BY <2>1, EnemiesOf DEF TypeInv
  <2>4. Ids(enemies'[Server]) \subseteq Ids(enemies[Server])
    BY <1>0, <2>2, <2>3
  <2>5. \A id \in Nat : Gone(id) => Gone(id)'
    BY <2>1, <2>4, GoneKept
  <2>6. \A c \in Clients : BagToSet(enemies'[c]) \subseteq BagToSet(enemies[c])
    BY <1>0, <2>2, <2>3
  <2>7. ASSUME NEW m \in net', m.kind = "ENEMY_DEATH", m.from = Server, m \notin net
        PROVE  Gone(m.id)'
    <3>1. p = Server /\ m.id = e.id
      BY <1>9, <2>7, <1>0 DEF EnemyDies, Deaths, EnemyDeath
    <3>2. e.id \in Ids(enemies[Server])
      BY <3>1 DEF Ids
    <3>3. e.id < enemyNb[Server]
      BY <1>0, <3>2 DEF Tokens
    <3>4. e.id \notin Ids(enemies'[Server])
      BY <2>2, <2>3, <3>1
    <3> QED
      BY <2>1, <3>1, <3>3, <3>4 DEF Gone, Ids
  <2> QED
    BY <2>5, <2>6, <2>7, DeadKept
<1>10. ASSUME NEW m \in net, HandleClientEnemyDeath(m) PROVE Dead'
  <2>1. /\ net' = (net \ {m}) \cup {NewEnemy(m.client, e) : e \in AliveUnder(m.id)}
        /\ UNCHANGED <<enemyNb, enemies>>
    BY <1>10 DEF HandleClientEnemyDeath
  <2>2. \A n \in net' : n.kind = "ENEMY_DEATH" => n \in net
    BY <2>1 DEF NewEnemy
  <2> QED
    BY <2>1, <2>2, DeadSame
<1>11. ASSUME NEW m \in net, ReceiveNewEnemy(m) PROVE Dead'
  <2>1. /\ net' = net \ {m} /\ Return(m) /\ enemyNb' = enemyNb
        /\ enemies' = [enemies EXCEPT ![m.client] = BagAdd(enemies[m.client], m.entity)]
    BY <1>11 DEF ReceiveNewEnemy, Return
  <2>2. BagToSet(BagAdd(enemies[m.client], m.entity)) = BagToSet(enemies[m.client]) \cup {m.entity}
    BY <1>0, AddedToBag
  <2>3. /\ \A q \in Processes \ {m.client} : enemies'[q] = enemies[q]
        /\ BagToSet(enemies'[m.client]) = BagToSet(enemies[m.client]) \cup {m.entity}
    BY <1>0, <2>1, <2>2, EnemiesOf DEF TypeInv
  <2>4. ~m.entity.dying
    BY <2>1 DEF Numbering
  <2>5. \A c \in Clients : \A e \in BagToSet(enemies'[c]) :
            e \in BagToSet(enemies[c]) \/ ~e.dying
    BY <1>0, <2>3, <2>4
  <2>6. enemies'[Server] = enemies[Server]
    BY <1>0, <2>3
  <2>7. \A id \in Nat : Gone(id) => Gone(id)'
    BY <2>1, <2>6, GoneKept
  <2> QED
    BY <2>1, <2>5, <2>7, DeadKept
<1>12. ASSUME NEW m \in net, ReceiveEnemyDeath(m) PROVE Dead'
  <2>1. /\ net' = net \ {m} /\ enemyNb' = enemyNb /\ m.kind = "ENEMY_DEATH" /\ m.from = Server
    BY <1>12 DEF ReceiveEnemyDeath
  <2>2. CASE UNCHANGED enemies
    BY <2>1, <2>2, DeadSame
  <2>3. ASSUME NEW e \in BagToSet(enemies[m.client]), e.id = m.id,
               enemies' = [enemies EXCEPT ![m.client] =
                               BagAdd(BagRemove(@, e), [e EXCEPT !.dying = TRUE])]
        PROVE  Dead'
    <3> DEFINE d == [e EXCEPT !.dying = TRUE]
    <3>1. e \in Entities
      BY <1>0 DEF TypeInv, TypeOK
    <3>2. d.id = m.id /\ m.id \in Nat
      BY <2>1, <2>3, <3>1, EntityType
    <3>3. /\ \A p \in Processes \ {m.client} : enemies'[p] = enemies[p]
          /\ BagToSet(enemies'[m.client]) = (BagToSet(enemies[m.client]) \ {e}) \cup {d}
      BY <1>0, <2>3, Marked
    <3> HIDE DEF d
    <3>4. enemies'[Server] = enemies[Server]
      BY <1>0, <3>3
    <3>5. \A id : Gone(id) => Gone(id)'
      BY <2>1, <3>4, GoneKept
    <3>6. Gone(m.id)
      BY <2>1 DEF Dead
    <3>7. ASSUME NEW c \in Clients, NEW x \in BagToSet(enemies'[c]), x.dying
          PROVE  Gone(x.id)
      <4>1. CASE x \in BagToSet(enemies[c])
        BY <3>7, <4>1 DEF Dead
      <4>2. CASE x \notin BagToSet(enemies[c])
        <5>1. x = d
          BY <1>0, <3>3, <3>7, <4>2
        <5> QED
          BY <3>2, <3>6, <5>1
      <4> QED
        BY <4>1, <4>2
    <3>8. \A n \in net' : n.kind = "ENEMY_DEATH" /\ n.from = Server => Gone(n.id)
      BY <2>1 DEF Dead
    <3> QED
      BY <3>5, <3>7, <3>8 DEF Dead
  <2> QED
    BY <1>12, <2>2, <2>3 DEF ReceiveEnemyDeath
<1>13. CASE UNCHANGED vars
  BY <1>13, DeadSame DEF vars
<1> QED
  BY <1>1, <1>2, <1>3, <1>4, <1>5, <1>6, <1>7, <1>8, <1>9, <1>10, <1>11, <1>12, <1>13
     DEF Next, WaveHandler, System

\* The numbers of a client that counts from 0 and has missed no wave mean the enemies
\* they mean at the server, and none that lives there is marked as dead.
LEMMA SameNumbers ==
    ASSUME TypeInv, Stage, Numbering, Dead, NEW c \in Clients, earlier[c] = 0, InStep(c)
    PROVE  Agrees(c)
<1>1. Numbered(c) /\ Numbered(Server)
  BY DEF Numbering, InPhase, Stage, Processes
<1>2. ASSUME NEW e \in BagToSet(enemies[c]), NEW f \in BagToSet(enemies[Server])
      PROVE  (e.id = f.id <=> e.enemy = f.enemy) /\ (e.enemy = f.enemy => ~e.dying)
  <2>1. e \in Entities /\ f \in Entities
    BY DEF TypeInv, TypeOK, Processes
  <2>2. e.enemy \in Enemies /\ f.enemy \in Enemies
    BY <2>1, EntityType
  <2>3. Num(e.enemy) = e.id /\ Num(f.enemy) = f.id
    BY <1>1 DEF Numbered
  <2>4. e.id = f.id => e.enemy = f.enemy
    BY <2>2, <2>3, NumInjective
  <2>5. e.enemy = f.enemy => e.id = f.id
    BY <2>3
  <2>6. f.id \in Ids(enemies[Server])
    BY DEF Ids
  <2>7. e.id = f.id => ~e.dying
    BY <2>6 DEF Dead, Gone
  <2> QED
    BY <2>4, <2>5, <2>7
<1> QED
  BY <1>2 DEF Agrees

\* Who plays the first game of the process and has missed no wave agrees with the
\* server about the numbers of the enemies, whatever came back.
THEOREM NumbersAgree == Spec => []EnemyIdsAgree
<1>1. TypeInv /\ Stage /\ Numbering /\ Dead => EnemyIdsAgree
  BY SameNumbers DEF EnemyIdsAgree
<1> QED
  BY <1>1, TypeInit, TypeStep, StageInit, StageStep, TokensInit, TokensStep,
     NumberingInit, NumberingStep, DeadInit, DeadStep, PTL DEF Spec
==============================================================================
