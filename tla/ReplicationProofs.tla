-------------------------- MODULE ReplicationProofs --------------------------
(***************************************************************************)
(* Proofs about the end of a game, about what each process knows of the    *)
(* players, about a client's own player and about players that die at one  *)
(* place alone: for any set of clients, any health of a player, any number *)
(* of sessions and any number of hits.                                     *)
(***************************************************************************)
EXTENDS Replication, Induction, FiniteSetTheorems, SequenceTheorems, TLAPS

-----------------------------------------------------------------------------
(* Bags and sequences *)

\* A bag to which a packet is added holds it and what it held before.
LEMMA AddedToBag ==
    ASSUME NEW B, NEW m
    PROVE  BagToSet(B (+) SetToBag({m})) = BagToSet(B) \cup {m}
  BY DEF BagToSet, SetToBag, (+)

\* A bag from which packets are taken holds nothing it did not hold before.
LEMMA TakenFromBag ==
    ASSUME NEW B, NEW C
    PROVE  BagToSet(B (-) C) \subseteq BagToSet(B)
  BY DEF BagToSet, (-)

\* Without shortens a sequence by one.
LEMMA WithoutProperties ==
    ASSUME NEW S, NEW s \in Seq(S), NEW i \in DOMAIN s
    PROVE  /\ Without(s, i) \in Seq(S)
           /\ Len(Without(s, i)) = Len(s) - 1
<1>1. Len(s) - 1 \in Nat
  OBVIOUS
<1>2. \A j \in 1 .. Len(s) - 1 : (IF j < i THEN s[j] ELSE s[j + 1]) \in S
  OBVIOUS
<1>3. Without(s, i) \in [1 .. Len(s) - 1 -> S]
  BY <1>2 DEF Without
<1>4. Without(s, i) \in Seq(S)
  BY <1>1, <1>3, SeqDef
<1> QED
  BY <1>1, <1>3, <1>4, LenProperties

-----------------------------------------------------------------------------
(* The invariant *)

\* The entities of the lobby are a sequence: of what matters nowhere below.
PlayersAreListed == \E S : players \in Seq(S)

\* Before the game nobody has died or can die: health changes only in a started
\* game, so no LIFE_UPDATE is under way.  A lobby with members has players.
NobodyDiesBefore ==
    ~isGameStarted =>
        /\ endGame = 0
        /\ \A i \in DOMAIN players : players[i].hp > 0
        /\ \A m \in BagToSet(requests) : m.kind # "LIFE_UPDATE"
        /\ endpoints # <<>> => players # <<>>

IInv == PlayersAreListed /\ NobodyDiesBefore /\ LastDeathEndsGame

\* The variables the invariant is about, but for the requests.
gameVars == <<isGameStarted, endpoints, players, endGame>>

LEMMA InitIInv == Init => IInv
  BY EmptySeq DEF Init, IInv, PlayersAreListed, NobodyDiesBefore, LastDeathEndsGame,
     EmptyBag, SetToBag, BagToSet

\* A step that leaves the game alone and sends no health.
LEMMA QuietStep ==
    ASSUME IInv, UNCHANGED gameVars,
           \A m \in BagToSet(requests') \ BagToSet(requests) : m.kind # "LIFE_UPDATE"
    PROVE  IInv'
  BY DEF IInv, PlayersAreListed, NobodyDiesBefore, LastDeathEndsGame, gameVars

\* A step of a started game that keeps the number of the players.
LEMMA StartedStep ==
    ASSUME IInv, isGameStarted, UNCHANGED <<isGameStarted, endGame>>,
           PlayersAreListed', players' = <<>> <=> players = <<>>
    PROVE  IInv'
  BY DEF IInv, NobodyDiesBefore, LastDeathEndsGame

\* The health of one player, if it is there, is overwritten.
LEMMA HealthWritten ==
    ASSUME PlayersAreListed, NEW i, NEW hp,
           players' = [players EXCEPT ![i].hp = hp]
    PROVE  PlayersAreListed' /\ (players' = <<>> <=> players = <<>>)
<1> PICK S : players \in Seq(S)
  BY DEF PlayersAreListed
<1> DEFINE e == [players[i] EXCEPT !.hp = hp]
<1>1. players' = [players EXCEPT ![i] = e]
  OBVIOUS
<1>2. players \in Seq(S \cup {e})
  BY SeqMonotonic
<1> HIDE DEF e
<1>3. players' \in Seq(S \cup {e}) /\ Len(players') = Len(players)
  <2>1. CASE i \in DOMAIN players
    BY <2>1, <1>1, <1>2, ExceptSeq
  <2>2. CASE i \notin DOMAIN players
    <3>1. players' = players
      BY <2>2, <1>1
    <3> QED
      BY <3>1, <1>2
  <2> QED
    BY <2>1, <2>2
<1> QED
  BY <1>2, <1>3, EmptySeq DEF PlayersAreListed

-----------------------------------------------------------------------------
(* The handlers of the lobby *)

LEMMA HandleInitKeepsIInv ==
    ASSUME IInv, NEW m \in BagToSet(requests), HandleInitMsg(m)
    PROVE  IInv'
<1>1. /\ BagToSet(requests') \subseteq BagToSet(requests)
      /\ UNCHANGED <<isGameStarted, endGame>>
  BY TakenFromBag DEF HandleInitMsg, Handle
<1>2. CASE UNCHANGED <<endpoints, players>>
  BY <1>1, <1>2, QuietStep DEF gameVars
<1>3. CASE MayInit(m.from) /\ ~UNCHANGED <<endpoints, players>>
  <2> DEFINE e == [id |-> AssignedId, hp |-> MaxLife]
  <2>1. ~isGameStarted /\ players' = Append(players, e)
    BY <1>3 DEF HandleInitMsg, MayInit
  <2> PICK S : players \in Seq(S)
    BY DEF IInv, PlayersAreListed
  <2>2. players \in Seq(S \cup {e})
    BY SeqMonotonic
  <2> HIDE DEF e
  <2>3. /\ players' \in Seq(S \cup {e})
        /\ DOMAIN players' = DOMAIN players \cup {Len(players) + 1}
        /\ \A i \in DOMAIN players : players'[i] = players[i]
        /\ players'[Len(players) + 1] = e
        /\ players' # <<>>
    BY <2>1, <2>2, AppendProperties
  <2>4. e.hp > 0
    BY ReplicationAssumption DEF e
  <2>5. PlayersAreListed'
    BY <2>3 DEF PlayersAreListed
  <2>6. NobodyDiesBefore'
    BY <1>1, <2>1, <2>3, <2>4 DEF IInv, NobodyDiesBefore
  <2>7. LastDeathEndsGame'
    BY <1>1, <2>1 DEF LastDeathEndsGame
  <2> QED
    BY <2>5, <2>6, <2>7 DEF IInv
<1> QED
  BY <1>2, <1>3 DEF HandleInitMsg

LEMMA HandleLastReadyKeepsIInv ==
    ASSUME IInv, HandleLastReadyMsg
    PROVE  IInv'
<1>1. /\ endGame = 0 /\ players # <<>>
      /\ isGameStarted' = TRUE
      /\ UNCHANGED <<players, endGame>>
  BY DEF HandleLastReadyMsg, IInv, NobodyDiesBefore
<1> QED
  BY <1>1 DEF IInv, PlayersAreListed, NobodyDiesBefore, LastDeathEndsGame

LEMMA HandleDisconnectKeepsIInv ==
    ASSUME IInv, NEW m \in BagToSet(requests), HandleDisconnectMsg(m)
    PROVE  IInv'
<1>1. /\ BagToSet(requests') \subseteq BagToSet(requests)
      /\ UNCHANGED <<isGameStarted, endGame, players>>
  BY TakenFromBag DEF HandleDisconnectMsg, Handle
<1>2. endpoints # <<>>
  BY DEF HandleDisconnectMsg
<1> QED
  BY <1>1, <1>2 DEF IInv, PlayersAreListed, NobodyDiesBefore, LastDeathEndsGame

LEMMA HandleLifeUpdateKeepsIInv ==
    ASSUME IInv, NEW m \in BagToSet(requests), HandleLifeUpdateMsg(m)
    PROVE  IInv'
<1>1. isGameStarted /\ UNCHANGED <<isGameStarted, endGame>>
  BY DEF HandleLifeUpdateMsg, Handle, IInv, NobodyDiesBefore, memberVars
<1>2. PlayersAreListed
  BY DEF IInv
<1> DEFINE differ == {i \in WithId(players, m.id) : players[i].hp # m.hp}
<1>3. CASE differ = {}
  <2>1. UNCHANGED players
    BY <1>3 DEF HandleLifeUpdateMsg
  <2> QED
    BY <1>1, <1>2, <2>1, StartedStep DEF PlayersAreListed
<1>4. CASE differ # {}
  <2>1. players' = [players EXCEPT ![Min(differ)].hp = m.hp]
    BY <1>4 DEF HandleLifeUpdateMsg
  <2> QED
    BY <1>1, <1>2, <2>1, HealthWritten, StartedStep
<1> QED
  BY <1>3, <1>4

LEMMA ServerDamageKeepsIInv ==
    ASSUME IInv, NEW i \in DOMAIN players, ServerDamage(i)
    PROVE  IInv'
<1>1. isGameStarted /\ UNCHANGED <<isGameStarted, endGame>>
  BY DEF ServerDamage, memberVars
<1>2. PICK hp : players' = [players EXCEPT ![i].hp = hp]
  BY DEF ServerDamage
<1> QED
  BY <1>1, <1>2, HealthWritten, StartedStep DEF IInv

\* Only a started game has a player with no health left; END_GAME is sent when
\* the sequence that the death empties has one element.
LEMMA ServerDiesKeepsIInv ==
    ASSUME IInv, NEW i \in DOMAIN players, ServerDies(i)
    PROVE  IInv'
<1> PICK S : players \in Seq(S)
  BY DEF IInv, PlayersAreListed
<1>1. isGameStarted
  BY DEF ServerDies, IInv, NobodyDiesBefore
<1>2. endGame = 0 /\ players # <<>>
  BY <1>1 DEF IInv, LastDeathEndsGame
<1>3. /\ players' \in Seq(S)
      /\ Len(players') = Len(players) - 1
  BY WithoutProperties DEF ServerDies
<1>4. players' = <<>> <=> Len(players) = 1
  BY <1>3, EmptySeq
<1>5. endGame' = IF Len(players) = 1 THEN 1 ELSE 0
  BY <1>2 DEF ServerDies, IsLast
<1>6. UNCHANGED isGameStarted
  BY DEF ServerDies, memberVars
<1> QED
  BY <1>1, <1>3, <1>4, <1>5, <1>6
     DEF IInv, PlayersAreListed, NobodyDiesBefore, LastDeathEndsGame

LEMMA LobbyKeepsIInv ==
    ASSUME IInv, LobbyStep
    PROVE  IInv'
<1>1. ASSUME NEW m \in BagToSet(requests),
             HandleDisconnectStranger(m) \/ ReceivePlayerDeathMsg(m)
      PROVE  IInv'
  <2>1. BagToSet(requests') \subseteq BagToSet(requests)
    BY <1>1, TakenFromBag DEF HandleDisconnectStranger, ReceivePlayerDeathMsg, Handle
  <2>2. UNCHANGED gameVars
    BY <1>1 DEF HandleDisconnectStranger, ReceivePlayerDeathMsg, serverVars, memberVars, gameVars
  <2> QED
    BY <2>1, <2>2, QuietStep
<1>2. CASE MainThreadStops
  <2>1. UNCHANGED requests /\ UNCHANGED gameVars
    BY <1>2 DEF MainThreadStops, gameVars
  <2> QED
    BY <2>1, QuietStep
<1> QED
  BY <1>1, <1>2, HandleInitKeepsIInv, HandleLastReadyKeepsIInv, HandleDisconnectKeepsIInv,
     HandleLifeUpdateKeepsIInv, ServerDamageKeepsIInv, ServerDiesKeepsIInv DEF LobbyStep

-----------------------------------------------------------------------------
(* The clients *)

\* A client touches nothing of the lobby, and sends a health only in a started
\* game.
LEMMA ClientKeepsIInv ==
    ASSUME IInv, ClientStep
    PROVE  IInv'
<1> USE DEF serverVars, memberVars, gameVars
<1>1. ASSUME NEW m \in BagToSet(replies),
             ReceiveNewPlayer(m) \/ ReceivePlayerDeath(m) \/ ReceiveLifeUpdate(m)
      PROVE  IInv'
  <2>1. UNCHANGED requests /\ UNCHANGED gameVars
    BY <1>1 DEF ReceiveNewPlayer, ReceivePlayerDeath, ReceiveLifeUpdate, Receive
  <2> QED
    BY <2>1, QuietStep
<1>2. ASSUME NEW c \in Clients, EnterGame(c) \/ LeaveGame(c)
      PROVE  IInv'
  <2>1. \E m : m.kind # "LIFE_UPDATE" /\ BagToSet(requests') = BagToSet(requests) \cup {m}
    <3>1. CASE EnterGame(c)
      BY <3>1, AddedToBag DEF EnterGame, InitMsg
    <3>2. CASE LeaveGame(c)
      BY <3>2, AddedToBag DEF LeaveGame, DisconnectMsg
    <3> QED
      BY <1>2, <3>1, <3>2
  <2>2. UNCHANGED gameVars
    BY <1>2 DEF EnterGame, LeaveGame
  <2> QED
    BY <2>1, <2>2, QuietStep
<1>3. ASSUME NEW c \in Clients, NEW i \in DOMAIN copies[c], ClientDamage(c, i)
      PROVE  IInv'
  <2>1. isGameStarted /\ UNCHANGED gameVars
    BY <1>3 DEF ClientDamage
  <2> QED
    BY <2>1 DEF IInv, PlayersAreListed, NobodyDiesBefore, LastDeathEndsGame
<1>4. ASSUME NEW c \in Clients, NEW i \in DOMAIN copies[c], ClientDies(c, i)
      PROVE  IInv'
  <2> DEFINE m == DeathMsg(c, copies[c][i].id)
  <2>1. BagToSet(requests') \subseteq BagToSet(requests) \cup {m}
    <3>1. UNCHANGED requests \/ requests' = requests (+) SetToBag({m})
      BY <1>4 DEF ClientDies
    <3> QED
      BY <3>1, AddedToBag
  <2>2. m.kind # "LIFE_UPDATE"
    BY DEF DeathMsg
  <2>3. UNCHANGED gameVars
    BY <1>4 DEF ClientDies
  <2> QED
    BY <2>1, <2>2, <2>3, QuietStep
<1>5. ASSUME NEW c \in Clients, RemoveEntities(c)
      PROVE  IInv'
  <2>1. UNCHANGED requests /\ UNCHANGED gameVars
    BY <1>5 DEF RemoveEntities
  <2> QED
    BY <2>1, QuietStep
<1> QED
  BY <1>1, <1>2, <1>3, <1>4, <1>5 DEF ClientStep

-----------------------------------------------------------------------------
(* The theorem *)

\* The game ends with the death of its last player, once, and only then: however
\* many clients join, leave, report deaths and send healths that come late.
THEOREM EndWithTheLast == Spec => []LastDeathEndsGame
<1>1. IInv /\ [Next]_vars => IInv'
  <2>1. ASSUME IInv, UNCHANGED vars PROVE IInv'
    <3>1. UNCHANGED requests /\ UNCHANGED gameVars
      BY <2>1 DEF vars, serverVars, memberVars, gameVars
    <3> QED
      BY <2>1, <3>1, QuietStep
  <2> QED
    BY <2>1, LobbyKeepsIInv, ClientKeepsIInv DEF Next
<1>2. IInv => LastDeathEndsGame
  BY DEF IInv
<1> QED
  BY InitIInv, <1>1, <1>2, PTL DEF Spec

-----------------------------------------------------------------------------
(* Bags, minima, and sequences from which elements are taken *)

LEMMA SetToBagProperties ==
    ASSUME NEW S
    PROVE  IsABag(SetToBag(S)) /\ BagToSet(SetToBag(S)) = S
  BY DEF IsABag, BagToSet, SetToBag

LEMMA BagSum ==
    ASSUME NEW B, NEW C, IsABag(B), IsABag(C)
    PROVE  /\ IsABag(B (+) C)
           /\ BagToSet(B (+) C) = BagToSet(B) \cup BagToSet(C)
<1> DEFINE D == DOMAIN B \cup DOMAIN C
<1>1. \A x \in DOMAIN B : B[x] \in Nat /\ B[x] > 0
  BY DEF IsABag
<1>2. \A x \in DOMAIN C : C[x] \in Nat /\ C[x] > 0
  BY DEF IsABag
<1>3. \A x \in D : LET n == (IF x \in DOMAIN B THEN B[x] ELSE 0)
                                + (IF x \in DOMAIN C THEN C[x] ELSE 0)
                   IN  n \in Nat /\ n > 0
  BY <1>1, <1>2
<1>4. B (+) C \in [D -> {n \in Nat : n > 0}]
  BY <1>3 DEF (+)
<1> QED
  BY <1>4 DEF IsABag, BagToSet

\* One copy of a packet is taken: all the other packets are still there.
LEMMA BagRest ==
    ASSUME NEW B, NEW m, IsABag(B)
    PROVE  /\ IsABag(B (-) SetToBag({m}))
           /\ BagToSet(B (-) SetToBag({m})) \subseteq BagToSet(B)
           /\ BagToSet(B) \ {m} \subseteq BagToSet(B (-) SetToBag({m}))
<1> DEFINE R == [x \in DOMAIN B |-> IF x \in DOMAIN SetToBag({m}) THEN B[x] - SetToBag({m})[x]
                                    ELSE B[x]]
           D == {x \in DOMAIN B : R[x] > 0}
<1>1. \A x \in DOMAIN B : B[x] \in Nat /\ B[x] > 0
  BY DEF IsABag
<1>2. DOMAIN SetToBag({m}) = {m} /\ SetToBag({m})[m] = 1
  BY DEF SetToBag
<1>3. \A x \in DOMAIN B : R[x] \in Nat /\ (x # m => R[x] > 0)
  BY <1>1, <1>2
<1>4. B (-) SetToBag({m}) = [x \in D |-> R[x]]
  BY DEF (-)
<1>5. DOMAIN R = DOMAIN B
  OBVIOUS
<1> HIDE DEF R
<1>6. [x \in D |-> R[x]] \in [D -> {n \in Nat : n > 0}]
  BY <1>3
<1>7. IsABag([x \in D |-> R[x]])
  BY <1>6 DEF IsABag
<1>8. D \subseteq DOMAIN B /\ DOMAIN B \ {m} \subseteq D
  BY <1>3
<1> QED
  BY <1>4, <1>7, <1>8 DEF BagToSet

\* A search that finds something finds a place.
LEMMA MinIsMember ==
    ASSUME NEW S, S \subseteq Nat, S # {}
    PROVE  Min(S) \in S
<1>1. \E x \in S : \A y \in S : x <= y
  BY LeastNatural
<1> QED
  BY <1>1 DEF Min

\* What Without leaves is every element but the i-th.
LEMMA WithoutElements ==
    ASSUME NEW S, NEW s \in Seq(S), NEW i \in DOMAIN s
    PROVE  /\ \A j \in DOMAIN Without(s, i) :
                 \E k \in DOMAIN s \ {i} : /\ Without(s, i)[j] = s[k]
                                           /\ k = IF j < i THEN j ELSE j + 1
           /\ \A k \in DOMAIN s \ {i} :
                 \E j \in DOMAIN Without(s, i) : Without(s, i)[j] = s[k]
<1>1. Len(s) \in Nat /\ DOMAIN s = 1 .. Len(s) /\ i \in 1 .. Len(s)
  OBVIOUS
<1>2. DOMAIN Without(s, i) = 1 .. Len(s) - 1
  BY DEF Without
<1>3. \A j \in 1 .. Len(s) - 1 : Without(s, i)[j] = IF j < i THEN s[j] ELSE s[j + 1]
  BY DEF Without
<1>4. ASSUME NEW j \in DOMAIN Without(s, i)
      PROVE  \E k \in DOMAIN s \ {i} : /\ Without(s, i)[j] = s[k]
                                       /\ k = IF j < i THEN j ELSE j + 1
  <2>1. CASE j < i
    <3>1. j \in DOMAIN s \ {i} /\ Without(s, i)[j] = s[j]
      BY <1>1, <1>2, <1>3, <2>1
    <3> QED
      BY <2>1, <3>1
  <2>2. CASE ~ (j < i)
    <3>1. j + 1 \in DOMAIN s \ {i} /\ Without(s, i)[j] = s[j + 1]
      BY <1>1, <1>2, <1>3, <2>2
    <3> QED
      BY <2>2, <3>1
  <2> QED
    BY <2>1, <2>2
<1>5. ASSUME NEW k \in DOMAIN s \ {i}
      PROVE  \E j \in DOMAIN Without(s, i) : Without(s, i)[j] = s[k]
  <2>1. CASE k < i
    <3>1. k \in DOMAIN Without(s, i) /\ Without(s, i)[k] = s[k]
      BY <1>1, <1>2, <1>3, <2>1
    <3> QED
      BY <3>1
  <2>2. CASE ~ (k < i)
    <3>1. k - 1 \in 1 .. Len(s) - 1 /\ ~ (k - 1 < i) /\ (k - 1) + 1 = k
      BY <1>1, <2>2
    <3>2. Without(s, i)[k - 1] = s[k]
      BY <1>3, <3>1
    <3> QED
      BY <1>2, <3>1, <3>2
  <2> QED
    BY <2>1, <2>2
<1> QED
  BY <1>4, <1>5

\* Ranks of those that stay: each rank up to their number is one element's.
LEMMA Ranked ==
    ASSUME NEW S, NEW s \in Seq(S)
    PROVE  /\ Cardinality(Stay(s)) \in Nat
           /\ \A i \in Stay(s) : Rank(s, i) \in 1 .. Cardinality(Stay(s))
           /\ \A i, k \in Stay(s) : Rank(s, i) = Rank(s, k) => i = k
           /\ \A j \in 1 .. Cardinality(Stay(s)) : \E i \in Stay(s) : Rank(s, i) = j
<1> DEFINE T == Stay(s)
           UpTo(i) == {k \in T : k <= i}
           n == Cardinality(T)
<1>1. T \subseteq 1 .. Len(s) /\ Len(s) \in Nat
  BY DEF Stay
<1>2. IsFiniteSet(T) /\ n \in Nat
  <2>1. IsFiniteSet(1 .. Len(s))
    BY <1>1, FS_Interval
  <2>2. IsFiniteSet(T)
    BY <1>1, <2>1, FS_Subset
  <2> QED
    BY <2>2, FS_CardinalityType
<1>3. \A i \in T : Rank(s, i) = Cardinality(UpTo(i))
  BY DEF Rank
<1> HIDE DEF T
<1>4. \A i \in T : IsFiniteSet(UpTo(i)) /\ Cardinality(UpTo(i)) \in Nat
  BY <1>2, FS_Subset, FS_CardinalityType
<1>5. ASSUME NEW i \in T PROVE Rank(s, i) \in 1 .. n
  <2>1. i \in UpTo(i)
    BY <1>1
  <2>2. Cardinality(UpTo(i)) # 0
    BY <1>4, <2>1, FS_EmptySet
  <2>3. Cardinality(UpTo(i)) <= n
    BY <1>2, FS_Subset
  <2> QED
    BY <1>2, <1>3, <1>4, <2>2, <2>3
<1>6. ASSUME NEW i \in T, NEW k \in T, i < k PROVE Rank(s, i) # Rank(s, k)
  <2>1. UpTo(i) \subseteq UpTo(k) /\ k \in UpTo(k) /\ k \notin UpTo(i)
    <3>1. i \in Nat /\ k \in Nat /\ \A x \in T : x \in Nat
      BY <1>1
    <3>2. \A x \in T : x <= i => x <= k
      BY <1>6, <3>1
    <3>3. k <= k /\ ~ (k <= i)
      BY <1>6, <3>1
    <3> QED
      BY <3>2, <3>3
  <2>2. UpTo(i) # UpTo(k)
    BY <2>1
  <2>3. Cardinality(UpTo(i)) # Cardinality(UpTo(k))
    BY <1>4, <2>1, <2>2, FS_Subset
  <2> QED
    BY <1>3, <2>3
<1>7. ASSUME NEW i \in T, NEW k \in T, Rank(s, i) = Rank(s, k) PROVE i = k
  BY <1>1, <1>6, <1>7
<1>8. ASSUME NEW j \in 1 .. n PROVE \E i \in T : Rank(s, i) = j
  <2> DEFINE f == [i \in T |-> Rank(s, i)]
  <2>1. f \in [T -> 1 .. n]
    BY <1>5
  <2>2. f \in Injection(T, 1 .. n)
    BY <1>7, <2>1 DEF Injection, IsInjective
  <2>3. IsFiniteSet(1 .. n) /\ Cardinality(1 .. n) = n
    BY <1>2, FS_Interval
  <2>4. f \in Surjection(T, 1 .. n)
    BY <2>2, <2>3, FS_Injection
  <2>5. \E i \in T : f[i] = j
    BY <2>4 DEF Surjection
  <2> QED
    BY <2>5
<1> QED
  BY <1>2, <1>5, <1>7, <1>8 DEF T

\* What the end of a frame keeps is what was not to be removed.
LEMMA KeptProperties ==
    ASSUME NEW S, NEW s \in Seq(S)
    PROVE  /\ Kept(s) \in Seq(S)
           /\ \A j \in DOMAIN Kept(s) : \E i \in Stay(s) : Kept(s)[j] = s[i]
           /\ \A i \in Stay(s) : \E j \in DOMAIN Kept(s) : Kept(s)[j] = s[i]
<1> DEFINE n == Cardinality(Stay(s))
           Nth(j) == CHOOSE i \in Stay(s) : Rank(s, i) = j
<1>1. n \in Nat
  BY Ranked
<1>2. \A j \in 1 .. n : Nth(j) \in Stay(s) /\ Rank(s, Nth(j)) = j
  BY Ranked
<1>3. Kept(s) = [j \in 1 .. n |-> s[Nth(j)]]
  BY DEF Kept
<1>4. \A i \in Stay(s) : Rank(s, i) \in 1 .. n /\ Nth(Rank(s, i)) = i
  <2> TAKE i \in Stay(s)
  <2>1. Rank(s, i) \in 1 .. n
    BY Ranked
  <2>2. Nth(Rank(s, i)) \in Stay(s) /\ Rank(s, Nth(Rank(s, i))) = Rank(s, i)
    BY <1>2, <2>1
  <2> HIDE DEF Nth
  <2> QED
    BY <2>1, <2>2, Ranked
<1> HIDE DEF Nth
<1>5. \A i \in Stay(s) : s[i] \in S
  BY DEF Stay
<1>6. Kept(s) \in [1 .. n -> S]
  BY <1>2, <1>3, <1>5
<1>7. Kept(s) \in Seq(S)
  BY <1>1, <1>6, SeqDef
<1>8. DOMAIN Kept(s) = 1 .. n
  BY <1>3
<1>9. \A j \in DOMAIN Kept(s) : Nth(j) \in Stay(s) /\ Kept(s)[j] = s[Nth(j)]
  BY <1>2, <1>3, <1>8
<1>10. \A i \in Stay(s) : Rank(s, i) \in DOMAIN Kept(s) /\ Kept(s)[Rank(s, i)] = s[i]
  BY <1>3, <1>4, <1>8
<1> QED
  BY <1>7, <1>9, <1>10

-----------------------------------------------------------------------------
(* What the packets, the entities and the history know of the sessions *)

\* The ids that were given, and the clients that were given one.
Given == {sessions[i].id : i \in DOMAIN sessions}
Served(c) == playersIds[c] # None

PlayersOf(G) == [id : G, hp : Hp]
CopiesOf(G) == [id : G, hp : Hp, own : BOOLEAN, removed : BOOLEAN]

\* A health, a death, a player of which a packet speaks.
RequestOK(m) ==
    /\ m.from \in Clients
    /\ m.kind = "LIFE_UPDATE" => m.id \in Given /\ m.hp \in Hp
    /\ m.kind = "PLAYER_DEATH" => m.id \in Given /\ Served(m.from)

ReplyOK(m) ==
    /\ m.to \in Clients
    /\ m.kind = "LIFE_UPDATE" => m.hp \in Hp
    /\ m.kind = "NEW_PLAYER" =>
           m.id \in Given /\ m.hp \in Hp /\ m.isOther \in BOOLEAN /\ Served(m.to)

RequestsOK == IsABag(requests) /\ \A m \in BagToSet(requests) : RequestOK(m)
RepliesOK == IsABag(replies) /\ \A m \in BagToSet(replies) : ReplyOK(m)

\* Who has an id has had a session with it, and the other way round.
SessionsOK ==
    /\ sessions \in Seq([of : Clients, id : Ids])
    /\ playersIds \in [Clients -> Ids \cup {None}]
    /\ \A c \in Clients : Served(c) =>
           \E i \in DOMAIN sessions : sessions[i].of = c /\ sessions[i].id = playersIds[c]
    /\ \A i \in DOMAIN sessions : Served(sessions[i].of)

MembersOK ==
    /\ endpoints \in Seq(Clients)
    /\ \A i \in DOMAIN endpoints : Served(endpoints[i])

PlayersOK == players \in Seq(PlayersOf(Given))

CopiesOK ==
    /\ copies \in [Clients -> Seq(CopiesOf(Given))]
    /\ \A c \in Clients : copies[c] # <<>> => Served(c)

ToldOK == told \in [Clients -> SUBSET Given]

RestOK ==
    /\ isGameStarted \in BOOLEAN
    /\ status \in {"running", "stopping", "ended"}
    /\ endGame \in Nat
    /\ scene \in [Clients -> {"menu", "game"}]
    /\ inits \in 0 .. MaxInits
    /\ damage \in 0 .. MaxDamage
    /\ revived \subseteq Ids

TypeInv ==
    /\ RequestsOK
    /\ RepliesOK
    /\ SessionsOK
    /\ MembersOK
    /\ PlayersOK
    /\ CopiesOK
    /\ ToldOK
    /\ RestOK

LEMMA ConstantTypes ==
    /\ MaxPlayers \in Nat \ {0} /\ MaxLife \in Nat \ {0}
    /\ MaxInits \in Nat /\ MaxDamage \in Nat
    /\ Ids \subseteq Nat /\ Hp \subseteq Nat
    /\ 0 \in Hp /\ MaxLife \in Hp
    /\ None \notin Ids
  BY ReplicationAssumption, NoneAssumption DEF Ids, Hp

LEMMA ElementAtIndex ==
    ASSUME NEW S, NEW s \in Seq(S), NEW i \in DOMAIN s
    PROVE  s[i] \in S
  OBVIOUS

LEMMA GivenAreIds ==
    ASSUME SessionsOK
    PROVE  Given \subseteq Ids
<1> DEFINE R == [of : Clients, id : Ids]
<1>1. sessions \in Seq(R)
  BY DEF SessionsOK
<1> HIDE DEF R
<1>2. \A i \in DOMAIN sessions : sessions[i] \in R
  BY <1>1, ElementAtIndex
<1>3. \A i \in DOMAIN sessions : sessions[i].id \in Ids
  BY <1>2 DEF R
<1> QED
  BY <1>3 DEF Given

LEMMA InitTypeInv == Init => TypeInv
<1> SUFFICES ASSUME Init PROVE TypeInv
  OBVIOUS
<1>1. IsABag(EmptyBag) /\ BagToSet(EmptyBag) = {}
  BY SetToBagProperties DEF EmptyBag
<1>2. \A S : <<>> \in Seq(S)
  OBVIOUS
<1>3. \A c \in Clients : playersIds[c] = None /\ copies[c] = <<>> /\ told[c] = {}
  BY DEF Init
<1>4. RequestsOK /\ RepliesOK
  BY <1>1 DEF Init, RequestsOK, RepliesOK
<1>5. SessionsOK
  BY <1>2, <1>3 DEF Init, SessionsOK, Served
<1>6. MembersOK /\ PlayersOK
  BY <1>2 DEF Init, MembersOK, PlayersOK
<1>7. CopiesOK /\ ToldOK
  BY <1>2, <1>3 DEF Init, CopiesOK, ToldOK
<1>8. RestOK
  <2>1. 0 \in 0 .. MaxInits /\ 0 \in 0 .. MaxDamage
    BY ConstantTypes
  <2> QED
    BY <2>1 DEF Init, RestOK
<1> QED
  BY <1>4, <1>5, <1>6, <1>7, <1>8 DEF TypeInv

LEMMA TypeInvTypes == TypeInv => TypeOK
<1> SUFFICES ASSUME TypeInv PROVE TypeOK
  OBVIOUS
<1>1. Given \subseteq Ids
  BY GivenAreIds DEF TypeInv
<1>2. PlayersOf(Given) \subseteq Player /\ CopiesOf(Given) \subseteq Copy
  BY <1>1 DEF PlayersOf, CopiesOf, Player, Copy
<1>3. players \in Seq(Player)
  BY <1>2, SeqMonotonic DEF TypeInv, PlayersOK
<1>4. copies \in [Clients -> Seq(Copy)]
  <2>1. Seq(CopiesOf(Given)) \subseteq Seq(Copy)
    BY <1>2, SeqMonotonic
  <2> QED
    BY <2>1 DEF TypeInv, CopiesOK
<1>5. told \in [Clients -> SUBSET Ids]
  BY <1>1 DEF TypeInv, ToldOK
<1> QED
  BY <1>3, <1>4, <1>5
     DEF TypeInv, TypeOK, RequestsOK, RepliesOK, SessionsOK, MembersOK, RestOK

-----------------------------------------------------------------------------
(* Entities whose health changes, that are created, and that go *)

\* The same entities, but for their health.
Alike(s, t) ==
    /\ DOMAIN t = DOMAIN s
    /\ \A i \in DOMAIN s : t[i].id = s[i].id /\ t[i].own = s[i].own /\ t[i].removed = s[i].removed

LEMMA PlayerHealth ==
    ASSUME NEW G, NEW s \in Seq(PlayersOf(G)), NEW i \in DOMAIN s, NEW hp \in Hp,
           NEW t, t = [s EXCEPT ![i].hp = hp]
    PROVE  /\ t \in Seq(PlayersOf(G))
           /\ DOMAIN t = DOMAIN s
           /\ \A j \in DOMAIN s : t[j].id = s[j].id /\ t[j].hp = IF j = i THEN hp ELSE s[j].hp
<1> DEFINE e == [s[i] EXCEPT !.hp = hp]
<1>1. s[i] \in PlayersOf(G)
  OBVIOUS
<1>2. e \in PlayersOf(G) /\ e.id = s[i].id /\ e.hp = hp
  BY <1>1 DEF PlayersOf
<1>3. t = [s EXCEPT ![i] = e]
  OBVIOUS
<1> HIDE DEF e
<1> QED
  BY <1>2, <1>3, ExceptSeq

LEMMA CopyHealth ==
    ASSUME NEW G, NEW s \in Seq(CopiesOf(G)), NEW i \in DOMAIN s, NEW hp \in Hp,
           NEW t, t = [s EXCEPT ![i].hp = hp]
    PROVE  t \in Seq(CopiesOf(G)) /\ Alike(s, t)
<1> DEFINE e == [s[i] EXCEPT !.hp = hp]
<1>1. s[i] \in CopiesOf(G)
  OBVIOUS
<1>2. e \in CopiesOf(G) /\ e.id = s[i].id /\ e.own = s[i].own /\ e.removed = s[i].removed
  BY <1>1 DEF CopiesOf
<1>3. t = [s EXCEPT ![i] = e]
  OBVIOUS
<1> HIDE DEF e
<1> QED
  BY <1>2, <1>3, ExceptSeq DEF Alike

\* A function on the places of a sequence is a sequence.
LEMMA MappedSeq ==
    ASSUME NEW S, NEW T, NEW s \in Seq(S), NEW t, t \in [DOMAIN s -> T]
    PROVE  t \in Seq(T) /\ Len(t) = Len(s)
<1>1. DOMAIN s = 1 .. Len(s) /\ Len(s) \in Nat
  OBVIOUS
<1>2. t \in Seq(T)
  BY <1>1, SeqDef
<1> QED
  BY <1>1, <1>2, LenProperties

LEMMA CopiesDie ==
    ASSUME NEW G, NEW s \in Seq(CopiesOf(G)), NEW F,
           NEW t, t = Killed(s, F)
    PROVE  t \in Seq(CopiesOf(G)) /\ Alike(s, t)
<1>1. \A i \in DOMAIN s : s[i] \in CopiesOf(G)
  OBVIOUS
<1>2. \A i \in DOMAIN s : /\ t[i] \in CopiesOf(G)
                          /\ t[i].id = s[i].id
                          /\ t[i].own = s[i].own
                          /\ t[i].removed = s[i].removed
  BY <1>1, ConstantTypes DEF CopiesOf, Killed
<1>3. t \in [DOMAIN s -> CopiesOf(G)]
  BY <1>2 DEF Killed
<1> QED
  BY <1>2, <1>3, MappedSeq DEF Alike

\* Some copies are marked, one is added.
MarkedAndAdded(s, t, F, e) ==
    /\ DOMAIN t = DOMAIN s \cup {Len(s) + 1}
    /\ t[Len(s) + 1] = e
    /\ \A i \in DOMAIN s : /\ t[i].id = s[i].id
                           /\ t[i].own = s[i].own
                           /\ i \notin F /\ ~ s[i].removed => ~ t[i].removed

LEMMA CopyCreated ==
    ASSUME NEW G, NEW s \in Seq(CopiesOf(G)), NEW F, NEW e \in CopiesOf(G),
           NEW t, t = Append(Marked(s, F), e)
    PROVE  t \in Seq(CopiesOf(G)) /\ MarkedAndAdded(s, t, F, e)
<1> DEFINE u == Marked(s, F)
<1>1. \A i \in DOMAIN s : s[i] \in CopiesOf(G)
  OBVIOUS
<1>2. /\ DOMAIN u = DOMAIN s /\ u = [i \in DOMAIN s |-> u[i]]
      /\ \A i \in DOMAIN s : u[i] = [s[i] EXCEPT !.removed = s[i].removed \/ i \in F]
  BY DEF Marked
<1>3. ASSUME NEW i \in DOMAIN s
      PROVE  u[i] \in CopiesOf(G) /\ u[i].id = s[i].id /\ u[i].own = s[i].own
  <2>1. (s[i].removed \/ i \in F) \in BOOLEAN
    OBVIOUS
  <2> DEFINE b == s[i].removed \/ i \in F
  <2>2. u[i] = [s[i] EXCEPT !.removed = b] /\ b \in BOOLEAN
    BY <1>2, <2>1
  <2> HIDE DEF b, u
  <2> QED
    BY <1>1, <2>2 DEF CopiesOf
<1>4. ASSUME NEW i \in DOMAIN s, i \notin F, ~ s[i].removed
      PROVE  ~ u[i].removed
  <2>1. "removed" \in DOMAIN s[i]
    BY <1>1 DEF CopiesOf
  <2> QED
    BY <1>2, <1>4, <2>1, Zenon
<1>5. DOMAIN u = DOMAIN s /\ t = Append(u, e)
  BY <1>2
<1> HIDE DEF u
<1>6. u \in [DOMAIN s -> CopiesOf(G)]
  BY <1>2, <1>3
<1>7. u \in Seq(CopiesOf(G)) /\ Len(u) = Len(s)
  BY <1>6, MappedSeq
<1>8. Append(u, e) \in Seq(CopiesOf(G)) /\ Len(Append(u, e)) = Len(u) + 1
  BY <1>7, AppendProperties
<1>9. DOMAIN u = 1 .. Len(u) /\ Len(u) \in Nat
  BY <1>7
<1>10. \A i \in 1 .. Len(u) : Append(u, e)[i] = u[i]
  BY <1>7, AppendProperties
<1>11. Append(u, e)[Len(u) + 1] = e
  BY <1>7, AppendProperties
<1>12. DOMAIN Append(u, e) = 1 .. Len(u) + 1
  BY <1>8
<1>13. 1 .. Len(u) + 1 = (1 .. Len(u)) \cup {Len(u) + 1}
  BY <1>9
<1> QED
  BY <1>3, <1>4, <1>5, <1>7, <1>8, <1>9, <1>10, <1>11, <1>12, <1>13 DEF MarkedAndAdded

-----------------------------------------------------------------------------
(* What a step does to the packets *)

\* Ids that were given stay given, and who was served stays served.
Grows == Given \subseteq Given' /\ \A c \in Clients : Served(c) => Served(c)'

LEMMA SameSessionsGrow ==
    ASSUME UNCHANGED <<sessions, playersIds>>
    PROVE  Grows /\ Given' = Given
  BY DEF Grows, Given, Served

LEMMA OldPacketsOK ==
    ASSUME Grows
    PROVE  /\ \A m : RequestOK(m) => RequestOK(m)'
           /\ \A m : ReplyOK(m) => ReplyOK(m)'
  BY DEF Grows, RequestOK, ReplyOK

LEMMA RequestsKept ==
    ASSUME RequestsOK, Grows, UNCHANGED requests
    PROVE  RequestsOK'
<1>1. \A m \in BagToSet(requests) : RequestOK(m)'
  BY OldPacketsOK DEF RequestsOK
<1> QED
  BY <1>1 DEF RequestsOK

LEMMA RequestTaken ==
    ASSUME RequestsOK, Grows, NEW m, requests' = requests (-) SetToBag({m})
    PROVE  RequestsOK'
<1>1. IsABag(requests') /\ BagToSet(requests') \subseteq BagToSet(requests)
  BY BagRest DEF RequestsOK
<1>2. \A n \in BagToSet(requests') : RequestOK(n)'
  BY <1>1, OldPacketsOK DEF RequestsOK
<1> QED
  BY <1>1, <1>2 DEF RequestsOK

LEMMA RequestSent ==
    ASSUME RequestsOK, Grows, NEW m, RequestOK(m), requests' = requests (+) SetToBag({m})
    PROVE  RequestsOK'
<1>1. IsABag(requests') /\ BagToSet(requests') = BagToSet(requests) \cup {m}
  BY BagSum, SetToBagProperties DEF RequestsOK
<1>2. \A n \in BagToSet(requests') : RequestOK(n)'
  BY <1>1, OldPacketsOK DEF RequestsOK
<1> QED
  BY <1>1, <1>2 DEF RequestsOK

LEMMA RepliesKept ==
    ASSUME RepliesOK, Grows, UNCHANGED replies
    PROVE  RepliesOK'
<1>1. \A m \in BagToSet(replies) : ReplyOK(m)'
  BY OldPacketsOK DEF RepliesOK
<1> QED
  BY <1>1 DEF RepliesOK

LEMMA ReplyTaken ==
    ASSUME RepliesOK, Grows, NEW m, replies' = replies (-) SetToBag({m})
    PROVE  RepliesOK'
<1>1. IsABag(replies') /\ BagToSet(replies') \subseteq BagToSet(replies)
  BY BagRest DEF RepliesOK
<1>2. \A n \in BagToSet(replies') : ReplyOK(n)'
  BY <1>1, OldPacketsOK DEF RepliesOK
<1> QED
  BY <1>1, <1>2 DEF RepliesOK

\* The lobby tells clients what is known.
LEMMA RepliesTold ==
    ASSUME RepliesOK, ToldOK, Grows, NEW P, IsABag(P), Tell(P),
           \A m \in BagToSet(P) : ReplyOK(m)'
    PROVE  RepliesOK' /\ ToldOK'
<1>1. IsABag(replies') /\ BagToSet(replies') = BagToSet(replies) \cup BagToSet(P)
  BY BagSum DEF RepliesOK, Tell
<1>2. \A n \in BagToSet(replies') : ReplyOK(n)'
  BY <1>1, OldPacketsOK DEF RepliesOK
<1>3. ASSUME NEW c \in Clients
      PROVE  {m.id : m \in {n \in BagToSet(P) : n.kind = "NEW_PLAYER" /\ n.to = c}}
                 \subseteq Given'
  BY DEF ReplyOK
<1>4. \A c \in Clients : told[c] \subseteq Given'
  BY DEF ToldOK, Grows
<1>5. ToldOK'
  BY <1>3, <1>4 DEF Tell, ToldOK
<1> QED
  BY <1>1, <1>2, <1>5 DEF RepliesOK

\* One packet.
LEMMA OneTold ==
    ASSUME RepliesOK, ToldOK, Grows, NEW m, ReplyOK(m), Tell(SetToBag({m}))
    PROVE  RepliesOK' /\ ToldOK'
<1>1. IsABag(SetToBag({m})) /\ BagToSet(SetToBag({m})) = {m}
  BY SetToBagProperties
<1>2. ReplyOK(m)'
  BY OldPacketsOK
<1> QED
  BY <1>1, <1>2, RepliesTold

\* A leaver is reported, and the death of a player: packets that say no id to
\* be kept.
LEMMA DeathsTold ==
    ASSUME RepliesOK, ToldOK, MembersOK, Grows, NEW S, S \subseteq Members, NEW id,
           Tell(SetToBag({PlayerDeath(c, id) : c \in S}))
    PROVE  RepliesOK' /\ ToldOK'
<1> DEFINE P == SetToBag({PlayerDeath(c, id) : c \in S})
<1>1. IsABag(P) /\ BagToSet(P) = {PlayerDeath(c, id) : c \in S}
  BY SetToBagProperties
<1>2. S \subseteq Clients
  BY ElementAtIndex DEF MembersOK, Members
<1>3. \A c \in S : ReplyOK(PlayerDeath(c, id))'
  <2> TAKE c \in S
  <2>1. /\ PlayerDeath(c, id).kind = "PLAYER_DEATH"
        /\ PlayerDeath(c, id).to = c
    BY DEF PlayerDeath
  <2> DEFINE m == PlayerDeath(c, id)
  <2>2. m.kind # "NEW_PLAYER" /\ m.kind # "LIFE_UPDATE" /\ m.to \in Clients
    BY <1>2, <2>1
  <2> HIDE DEF m
  <2>3. ReplyOK(m)'
    BY <2>2 DEF ReplyOK
  <2> QED
    BY <2>3 DEF m
<1>4. \A m \in BagToSet(P) : ReplyOK(m)'
  BY <1>1, <1>3
<1> HIDE DEF P
<1>5. Tell(P)
  BY DEF P
<1> QED
  BY <1>1, <1>4, <1>5, RepliesTold

\* Entities whose ids were given are entities whose ids are given.
LEMMA OldEntities ==
    ASSUME Grows
    PROVE  /\ Seq(PlayersOf(Given)) \subseteq Seq(PlayersOf(Given'))
           /\ Seq(CopiesOf(Given)) \subseteq Seq(CopiesOf(Given'))
           /\ PlayersOK /\ UNCHANGED players => PlayersOK'
           /\ CopiesOK /\ UNCHANGED copies => CopiesOK'
           /\ ToldOK /\ UNCHANGED told => ToldOK'
<1>1. PlayersOf(Given) \subseteq PlayersOf(Given') /\ CopiesOf(Given) \subseteq CopiesOf(Given')
  BY DEF Grows, PlayersOf, CopiesOf
<1>2. /\ Seq(PlayersOf(Given)) \subseteq Seq(PlayersOf(Given'))
      /\ Seq(CopiesOf(Given)) \subseteq Seq(CopiesOf(Given'))
  BY <1>1, SeqMonotonic
<1>3. PlayersOf(Given)' = PlayersOf(Given') /\ CopiesOf(Given)' = CopiesOf(Given')
  BY DEF PlayersOf, CopiesOf, Hp, Ids
<1>4. PlayersOK /\ UNCHANGED players => PlayersOK'
  BY <1>2, <1>3 DEF PlayersOK
<1>5. CopiesOK /\ UNCHANGED copies => CopiesOK'
  BY <1>2, <1>3 DEF CopiesOK, Grows
<1>6. ToldOK /\ UNCHANGED told => ToldOK'
  BY DEF ToldOK, Grows
<1> QED
  BY <1>2, <1>4, <1>5, <1>6

-----------------------------------------------------------------------------
(* The beginning of a session *)

\* The places of a sequence to which something is appended.
LEMMA Appended ==
    ASSUME NEW S, NEW s \in Seq(S), NEW e \in S
    PROVE  /\ Append(s, e) \in Seq(S)
           /\ Len(s) \in Nat
           /\ DOMAIN s = 1 .. Len(s)
           /\ DOMAIN Append(s, e) = DOMAIN s \cup {Len(s) + 1}
           /\ \A i \in DOMAIN s : i # Len(s) + 1 /\ Append(s, e)[i] = s[i]
           /\ Append(s, e)[Len(s) + 1] = e
<1>1. Append(s, e) \in Seq(S) /\ Len(Append(s, e)) = Len(s) + 1
  BY AppendProperties
<1>2. DOMAIN s = 1 .. Len(s) /\ Len(s) \in Nat
  OBVIOUS
<1>3. \A i \in 1 .. Len(s) : Append(s, e)[i] = s[i]
  BY AppendProperties
<1>4. Append(s, e)[Len(s) + 1] = e
  BY AppendProperties
<1>5. DOMAIN Append(s, e) = 1 .. Len(s) + 1
  BY <1>1
<1>6. 1 .. Len(s) + 1 = (1 .. Len(s)) \cup {Len(s) + 1} /\ \A i \in 1 .. Len(s) : i # Len(s) + 1
  BY <1>2
<1> QED
  BY <1>1, <1>2, <1>3, <1>4, <1>5, <1>6

\* What handleInitMsg does to the members when it takes the client in.
Begins(c) ==
    /\ MayInit(c)
    /\ endpoints' = Append(endpoints, c)
    /\ playersIds' = [playersIds EXCEPT ![c] = AssignedId]
    /\ sessions' = Append(sessions, [of |-> c, id |-> AssignedId])

LEMMA IdFits ==
    ASSUME MembersOK, NEW c, MayInit(c)
    PROVE  AssignedId \in Ids
<1>1. Len(endpoints) \in Nat
  BY DEF MembersOK
<1> QED
  BY <1>1, ConstantTypes DEF MayInit, AssignedId, Ids

\* The session that begins is added to the others, which stay as they are.
LEMMA SessionAdded ==
    ASSUME SessionsOK, MembersOK, NEW c \in Clients, Begins(c)
    PROVE  /\ sessions' \in Seq([of : Clients, id : Ids])
           /\ Len(sessions) \in Nat
           /\ DOMAIN sessions' = DOMAIN sessions \cup {Len(sessions) + 1}
           /\ \A i \in DOMAIN sessions : i # Len(sessions) + 1 /\ sessions'[i] = sessions[i]
           /\ sessions'[Len(sessions) + 1].of = c
           /\ sessions'[Len(sessions) + 1].id = AssignedId
           /\ playersIds' \in [Clients -> Ids \cup {None}]
           /\ playersIds'[c] = AssignedId
           /\ \A d \in Clients \ {c} : playersIds'[d] = playersIds[d]
           /\ AssignedId # None
<1> DEFINE e == [of |-> c, id |-> AssignedId]
           R == [of : Clients, id : Ids]
<1>1. AssignedId \in Ids
  BY IdFits DEF Begins
<1>2. e \in R /\ e.of = c /\ e.id = AssignedId
  BY <1>1
<1>3. sessions \in Seq(R) /\ sessions' = Append(sessions, e)
  BY DEF SessionsOK, Begins
<1> HIDE DEF e
<1>4. sessions' \in Seq(R)
  BY <1>2, <1>3, Appended
<1> HIDE DEF R
<1>5. /\ Len(sessions) \in Nat
      /\ DOMAIN sessions' = DOMAIN sessions \cup {Len(sessions) + 1}
      /\ \A i \in DOMAIN sessions : i # Len(sessions) + 1 /\ sessions'[i] = sessions[i]
      /\ sessions'[Len(sessions) + 1] = e
  BY <1>2, <1>3, Appended
<1>6. /\ playersIds' \in [Clients -> Ids \cup {None}]
      /\ playersIds'[c] = AssignedId
      /\ \A d \in Clients \ {c} : playersIds'[d] = playersIds[d]
  BY <1>1 DEF SessionsOK, Begins
<1>7. AssignedId # None
  BY <1>1, ConstantTypes
<1> QED
  BY <1>2, <1>4, <1>5, <1>6, <1>7 DEF R

LEMMA GivenAdded ==
    ASSUME SessionsOK, MembersOK, NEW c \in Clients, Begins(c)
    PROVE  Grows /\ Given' = Given \cup {AssignedId} /\ Served(c)'
<1>1. Given' = Given \cup {AssignedId}
  BY SessionAdded DEF Given
<1>2. \A d \in Clients : Served(d) => Served(d)'
  BY SessionAdded DEF Served
<1>3. Served(c)'
  BY SessionAdded DEF Served
<1> QED
  BY <1>1, <1>2, <1>3 DEF Grows

LEMMA BeginsKeepsSessions ==
    ASSUME SessionsOK, MembersOK, NEW c \in Clients, Begins(c)
    PROVE  SessionsOK' /\ MembersOK'
<1> DEFINE n == Len(sessions) + 1
<1>1. /\ DOMAIN sessions' = DOMAIN sessions \cup {n}
      /\ \A i \in DOMAIN sessions : sessions'[i] = sessions[i]
      /\ sessions'[n].of = c /\ sessions'[n].id = AssignedId
      /\ playersIds'[c] = AssignedId
      /\ \A d \in Clients \ {c} : playersIds'[d] = playersIds[d]
  BY SessionAdded
<1> HIDE DEF n
<1>2. ASSUME NEW d \in Clients, playersIds'[d] # None
      PROVE  \E i \in DOMAIN sessions' :
                 sessions'[i].of = d /\ sessions'[i].id = playersIds'[d]
  <2>1. CASE d = c
    BY <1>1, <2>1
  <2>2. CASE d # c
    <3>1. PICK i \in DOMAIN sessions :
                 sessions[i].of = d /\ sessions[i].id = playersIds[d]
      BY <1>1, <1>2, <2>2 DEF SessionsOK, Served
    <3>2. sessions'[i].of = d /\ sessions'[i].id = playersIds'[d] /\ i \in DOMAIN sessions'
      BY <1>1, <2>2, <3>1
    <3> QED
      BY <3>2
  <2> QED
    BY <2>1, <2>2
<1>3. ASSUME NEW i \in DOMAIN sessions'
      PROVE  playersIds'[sessions'[i].of] # None
  <2>1. CASE sessions'[i].of = c
    BY <2>1, SessionAdded
  <2>2. CASE sessions'[i].of # c
    <3>1. i \in DOMAIN sessions /\ sessions'[i] = sessions[i]
      BY <1>1, <2>2
    <3>2. sessions[i].of \in Clients /\ playersIds[sessions[i].of] # None
      <4> DEFINE R == [of : Clients, id : Ids]
      <4>1. sessions \in Seq(R)
        BY DEF SessionsOK
      <4> HIDE DEF R
      <4>2. sessions[i] \in R
        BY <3>1, <4>1, ElementAtIndex
      <4>3. sessions[i].of \in Clients
        BY <4>2 DEF R
      <4> QED
        BY <3>1, <4>3 DEF SessionsOK, Served
    <3> QED
      BY <1>1, <2>2, <3>1, <3>2
  <2> QED
    BY <2>1, <2>2
<1>4. SessionsOK'
  BY <1>2, <1>3, SessionAdded DEF SessionsOK, Served
<1>5. /\ endpoints' \in Seq(Clients)
      /\ DOMAIN endpoints' = DOMAIN endpoints \cup {Len(endpoints) + 1}
      /\ \A i \in DOMAIN endpoints : endpoints'[i] = endpoints[i]
      /\ endpoints'[Len(endpoints) + 1] = c
  BY Appended DEF MembersOK, Begins
<1>6. \A i \in DOMAIN endpoints : endpoints[i] \in Clients /\ Served(endpoints[i])
  BY ElementAtIndex DEF MembersOK
<1>7. \A d \in Clients : Served(d) => Served(d)'
  BY GivenAdded DEF Grows
<1>8. Served(c)'
  BY GivenAdded
<1>9. \A i \in DOMAIN endpoints' : playersIds'[endpoints'[i]] # None
  BY <1>5, <1>6, <1>7, <1>8 DEF Served
<1>10. MembersOK'
  BY <1>5, <1>9 DEF MembersOK, Served
<1> QED
  BY <1>4, <1>10

\* The entity that a search by id finds.
LEMMA FirstIsOne ==
    ASSUME PlayersOK, NEW id, WithId(players, id) # {}
    PROVE  /\ \E i \in WithId(players, id) : First(players, id) = players[i]
           /\ First(players, id).hp \in Hp
           /\ id \in Given
<1> DEFINE W == WithId(players, id)
<1>1. W \subseteq DOMAIN players /\ \A i \in W : players[i].id = id
  BY DEF WithId
<1>2. W \subseteq Nat
  BY <1>1 DEF PlayersOK
<1>3. Min(W) \in W /\ First(players, id) = players[Min(W)]
  BY <1>2, MinIsMember DEF First
<1>4. players[Min(W)] \in PlayersOf(Given)
  BY <1>1, <1>3, ElementAtIndex DEF PlayersOK
<1>5. players[Min(W)].hp \in Hp /\ players[Min(W)].id \in Given
  BY <1>4 DEF PlayersOf
<1> QED
  BY <1>1, <1>3, <1>5

\* Only clients that had a session have an id, and sessions are finitely many.
LEMMA ServedAreFinite ==
    ASSUME SessionsOK
    PROVE  IsFiniteSet({d \in Clients : Served(d)})
<1> DEFINE n == Len(sessions)
           S == {d \in Clients : Served(d)}
           f == [i \in 1 .. n |-> sessions[i].of]
           T == {f[i] : i \in 1 .. n}
<1>1. n \in Nat /\ DOMAIN sessions = 1 .. n
  BY DEF SessionsOK
<1> HIDE DEF n
<1>2. IsFiniteSet(1 .. n)
  BY <1>1, FS_Interval
<1>3. f \in [1 .. n -> T] /\ \A t \in T : \E i \in 1 .. n : f[i] = t
  OBVIOUS
<1>4. f \in Surjection(1 .. n, T)
  BY <1>3 DEF Surjection
<1>5. IsFiniteSet(T)
  BY <1>2, <1>4, FS_Surjection
<1>6. S \subseteq T
  BY <1>1 DEF SessionsOK
<1> QED
  BY <1>5, <1>6, FS_Subset

\* The allies of whom the client is told are players that are there.
LEMMA AlliesArePlayers ==
    ASSUME SessionsOK, NEW c, NEW id
    PROVE  /\ IsABag(AlliesAlreadyPresent(c, id))
           /\ \A m \in BagToSet(AlliesAlreadyPresent(c, id)) :
                 \E d \in Clients \ {c} :
                     /\ playersIds[d] # None /\ playersIds[d] # id
                     /\ WithId(players, playersIds[d]) # {}
                     /\ m = NewPlayer(c, playersIds[d], First(players, playersIds[d]).hp, TRUE)
<1> DEFINE known == {d \in Clients \ {c} : /\ playersIds[d] \notin {None, id}
                                           /\ WithId(players, playersIds[d]) # {}}
           Of(d) == NewPlayer(c, playersIds[d], First(players, playersIds[d]).hp, TRUE)
           A == {Of(d) : d \in known}
           B == [m \in A |-> Cardinality({d \in known : Of(d) = m})]
<1>1. AlliesAlreadyPresent(c, id) = B
  BY DEF AlliesAlreadyPresent
<1>2. known \subseteq {d \in Clients : Served(d)}
  BY DEF Served
<1>3. ASSUME NEW m \in A
      PROVE  B[m] \in Nat /\ B[m] > 0
  <2> DEFINE K == {d \in known : Of(d) = m}
  <2>1. K \subseteq {d \in Clients : Served(d)} /\ K # {}
    BY <1>2
  <2>2. IsFiniteSet(K)
    BY <2>1, ServedAreFinite, FS_Subset
  <2>3. Cardinality(K) \in Nat /\ Cardinality(K) # 0
    BY <2>1, <2>2, FS_CardinalityType, FS_EmptySet
  <2>4. B[m] = Cardinality(K)
    OBVIOUS
  <2> HIDE DEF B, K
  <2> QED
    BY <2>3, <2>4
<1>4. \A m \in A : \E d \in known : m = Of(d)
  OBVIOUS
<1>5. DOMAIN B = A /\ B = [m \in A |-> B[m]]
  OBVIOUS
<1> HIDE DEF B
<1>6. B \in [A -> {n \in Nat : n > 0}]
  BY <1>3, <1>5
<1>7. IsABag(B) /\ BagToSet(B) = A
  BY <1>5, <1>6 DEF IsABag, BagToSet
<1>8. \A d \in known : /\ d \in Clients \ {c}
                       /\ playersIds[d] # None /\ playersIds[d] # id
                       /\ WithId(players, playersIds[d]) # {}
  OBVIOUS
<1> HIDE DEF A, known
<1> QED
  BY <1>1, <1>4, <1>7, <1>8

IsOneOf(m, c, id) ==
    \/ m = NewPlayer(c, id, MaxLife, FALSE)
    \/ \E d \in Members : m = NewPlayer(d, id, MaxLife, TRUE)
    \/ \E d \in Clients \ {c} :
          /\ playersIds[d] # None /\ playersIds[d] # id
          /\ WithId(players, playersIds[d]) # {}
          /\ m = NewPlayer(c, playersIds[d], First(players, playersIds[d]).hp, TRUE)

\* A NEW_PLAYER is of the session that begins, or of a player who is there.
LEMMA WhoIsNew ==
    ASSUME SessionsOK, NEW c, NEW id
    PROVE  /\ IsABag(NewPlayers(c, id))
           /\ \A m \in BagToSet(NewPlayers(c, id)) : IsOneOf(m, c, id)
           /\ NewPlayer(c, id, MaxLife, FALSE) \in BagToSet(NewPlayers(c, id))
           /\ \A d \in Members : NewPlayer(d, id, MaxLife, TRUE) \in BagToSet(NewPlayers(c, id))
<1> DEFINE S == {NewPlayer(c, id, MaxLife, FALSE)}
                    \cup {NewPlayer(d, id, MaxLife, TRUE) : d \in Members}
<1>1. IsABag(SetToBag(S)) /\ BagToSet(SetToBag(S)) = S
  BY SetToBagProperties
<1>2. NewPlayers(c, id) = SetToBag(S) (+) AlliesAlreadyPresent(c, id)
  BY DEF NewPlayers
<1>3. \A m \in S : \/ m = NewPlayer(c, id, MaxLife, FALSE)
                   \/ \E d \in Members : m = NewPlayer(d, id, MaxLife, TRUE)
  OBVIOUS
<1>4. /\ NewPlayer(c, id, MaxLife, FALSE) \in S
      /\ \A d \in Members : NewPlayer(d, id, MaxLife, TRUE) \in S
  OBVIOUS
<1> HIDE DEF S
<1>5. IsABag(AlliesAlreadyPresent(c, id))
  BY AlliesArePlayers
<1>6. /\ IsABag(NewPlayers(c, id))
      /\ BagToSet(NewPlayers(c, id)) = S \cup BagToSet(AlliesAlreadyPresent(c, id))
  BY <1>1, <1>2, <1>5, BagSum
<1>7. \A m \in BagToSet(AlliesAlreadyPresent(c, id)) :
         \E d \in Clients \ {c} :
             /\ playersIds[d] # None /\ playersIds[d] # id
             /\ WithId(players, playersIds[d]) # {}
             /\ m = NewPlayer(c, playersIds[d], First(players, playersIds[d]).hp, TRUE)
  BY AlliesArePlayers
<1> QED
  BY <1>3, <1>4, <1>6, <1>7, Zenon DEF IsOneOf

\* The fields of those packets.
Announces(m, c, id) ==
    \/ m.to = c /\ m.id = id /\ m.hp = MaxLife /\ m.isOther = FALSE
    \/ m.to \in Members /\ m.id = id /\ m.hp = MaxLife /\ m.isOther = TRUE
    \/ \E d \in Clients \ {c} :
          /\ playersIds[d] # None /\ playersIds[d] # id
          /\ WithId(players, playersIds[d]) # {}
          /\ m.to = c /\ m.id = playersIds[d]
          /\ m.hp = First(players, playersIds[d]).hp /\ m.isOther = TRUE

LEMMA NewPlayerFields ==
    ASSUME SessionsOK, NEW c, NEW id, NEW m \in BagToSet(NewPlayers(c, id))
    PROVE  m.kind = "NEW_PLAYER" /\ Announces(m, c, id)
<1>1. ASSUME m = NewPlayer(c, id, MaxLife, FALSE)
      PROVE  /\ m.kind = "NEW_PLAYER" /\ m.to = c
             /\ m.id = id /\ m.hp = MaxLife /\ m.isOther = FALSE
  BY <1>1 DEF NewPlayer
<1>2. ASSUME NEW d \in Members, m = NewPlayer(d, id, MaxLife, TRUE)
      PROVE  /\ m.kind = "NEW_PLAYER" /\ m.to \in Members
             /\ m.id = id /\ m.hp = MaxLife /\ m.isOther = TRUE
  BY <1>2 DEF NewPlayer
<1>3. ASSUME NEW d \in Clients \ {c},
             m = NewPlayer(c, playersIds[d], First(players, playersIds[d]).hp, TRUE)
      PROVE  /\ m.kind = "NEW_PLAYER" /\ m.to = c /\ m.id = playersIds[d]
             /\ m.hp = First(players, playersIds[d]).hp /\ m.isOther = TRUE
  BY <1>3 DEF NewPlayer
<1>4. IsOneOf(m, c, id)
  BY WhoIsNew
<1> QED
  BY <1>1, <1>2, <1>3, <1>4, Zenon DEF IsOneOf, Announces

-----------------------------------------------------------------------------
(* Each step keeps the types: the lobby *)

LEMMA SameSessions ==
    ASSUME TypeInv, UNCHANGED <<sessions, playersIds>>
    PROVE  /\ Grows /\ Given' = Given
           /\ SessionsOK'
           /\ UNCHANGED endpoints => MembersOK'
           /\ UNCHANGED players => PlayersOK'
           /\ UNCHANGED copies => CopiesOK'
           /\ UNCHANGED told => ToldOK'
           /\ UNCHANGED requests => RequestsOK'
           /\ UNCHANGED replies => RepliesOK'
<1>1. Grows /\ Given' = Given
  BY SameSessionsGrow
<1>2. SessionsOK' /\ (UNCHANGED endpoints => MembersOK')
  BY DEF TypeInv, SessionsOK, MembersOK, Served
<1> QED
  BY <1>1, <1>2, OldEntities, RequestsKept, RepliesKept DEF TypeInv

LEMMA HandleInitType ==
    ASSUME TypeInv, NEW m \in BagToSet(requests), HandleInitMsg(m)
    PROVE  TypeInv'
<1>1. /\ requests' = requests (-) SetToBag({m})
      /\ UNCHANGED <<isGameStarted, status, endGame, scene, copies, inits, damage, revived>>
  BY DEF HandleInitMsg, Handle, clientVars
<1>2. RestOK'
  BY <1>1 DEF TypeInv, RestOK
<1>3. CASE UNCHANGED <<endpoints, playersIds, players, replies, sessions, told>>
  <2>1. RequestsOK'
    BY <1>1, <1>3, SameSessions, RequestTaken DEF TypeInv
  <2> QED
    BY <1>1, <1>2, <1>3, <2>1, SameSessions DEF TypeInv
<1>4. CASE MayInit(m.from) /\ ~ UNCHANGED <<endpoints, playersIds, players, replies, sessions, told>>
  <2> DEFINE c == m.from
             id == AssignedId
             e == [id |-> id, hp |-> MaxLife]
             P == NewPlayers(c, id)
  <2>1. /\ Begins(c)
        /\ players' = Append(players, e)
        /\ Tell(P)
    BY <1>4 DEF HandleInitMsg, Begins
  <2>2. c \in Clients
    BY DEF TypeInv, RequestsOK, RequestOK
  <2>3. SessionsOK /\ MembersOK /\ PlayersOK /\ RequestsOK /\ RepliesOK /\ ToldOK /\ CopiesOK
    BY DEF TypeInv
  <2>4. Grows /\ Given' = Given \cup {id} /\ Served(c)' /\ SessionsOK' /\ MembersOK'
    BY <2>1, <2>2, <2>3, GivenAdded, BeginsKeepsSessions
  <2>5. PlayersOK'
    <3>1. players \in Seq(PlayersOf(Given'))
      BY <2>3, <2>4, OldEntities DEF PlayersOK
    <3>2. e \in PlayersOf(Given')
      BY <2>4, ConstantTypes DEF PlayersOf
    <3> HIDE DEF e
    <3>3. players' \in Seq(PlayersOf(Given'))
      BY <2>1, <3>1, <3>2, Appended
    <3>4. PlayersOf(Given)' = PlayersOf(Given')
      BY DEF PlayersOf, Hp
    <3> QED
      BY <3>3, <3>4 DEF PlayersOK
  <2>6. \A n \in BagToSet(P) : /\ n.kind = "NEW_PLAYER"
                               /\ n.to \in Clients /\ Served(n.to)'
                               /\ n.id \in Given'
                               /\ n.hp \in Hp
                               /\ n.isOther \in BOOLEAN
    <3> TAKE n \in BagToSet(P)
    <3> HIDE DEF c, id
    <3>4. n.kind = "NEW_PLAYER" /\ Announces(n, c, id)
      BY <2>3, NewPlayerFields
    <3>1. ASSUME n.to = c, n.id = id, n.hp = MaxLife, n.isOther = FALSE
          PROVE  /\ n.to \in Clients /\ Served(n.to)'
                 /\ n.id \in Given' /\ n.hp \in Hp /\ n.isOther \in BOOLEAN
      BY <2>2, <2>4, <3>1, ConstantTypes
    <3>2. ASSUME n.to \in Members, n.id = id, n.hp = MaxLife, n.isOther = TRUE
          PROVE  /\ n.to \in Clients /\ Served(n.to)'
                 /\ n.id \in Given' /\ n.hp \in Hp /\ n.isOther \in BOOLEAN
      <4>1. n.to \in Clients /\ Served(n.to)
        BY <2>3, <3>2, ElementAtIndex DEF MembersOK, Members
      <4>2. Served(n.to)'
        BY <2>4, <4>1 DEF Grows
      <4> QED
        BY <2>4, <3>2, <4>1, <4>2, ConstantTypes
    <3>3. ASSUME NEW d \in Clients \ {c},
                 WithId(players, playersIds[d]) # {},
                 n.to = c, n.id = playersIds[d],
                 n.hp = First(players, playersIds[d]).hp, n.isOther = TRUE
          PROVE  /\ n.to \in Clients /\ Served(n.to)'
                 /\ n.id \in Given' /\ n.hp \in Hp /\ n.isOther \in BOOLEAN
      <4>1. playersIds[d] \in Given /\ First(players, playersIds[d]).hp \in Hp
        BY <2>3, <3>3, FirstIsOne
      <4> QED
        BY <2>2, <2>4, <3>3, <4>1 DEF Grows
    <3> QED
      BY <3>1, <3>2, <3>3, <3>4, Zenon DEF Announces
  <2>7. \A n \in BagToSet(P) : ReplyOK(n)'
    BY <2>6 DEF ReplyOK, Hp
  <2>8. IsABag(P)
    BY <2>3, WhoIsNew
  <2> HIDE DEF P, c, id
  <2>9. RepliesOK' /\ ToldOK'
    BY <2>1, <2>3, <2>4, <2>7, <2>8, RepliesTold
  <2>10. RequestsOK' /\ CopiesOK'
    BY <1>1, <2>3, <2>4, RequestTaken, OldEntities
  <2> QED
    BY <1>2, <2>4, <2>5, <2>9, <2>10 DEF TypeInv
<1> QED
  BY <1>3, <1>4 DEF HandleInitMsg

LEMMA HandleDisconnectType ==
    ASSUME TypeInv, NEW m \in BagToSet(requests), HandleDisconnectMsg(m)
    PROVE  TypeInv'
<1>1. /\ requests' = requests (-) SetToBag({m})
      /\ UNCHANGED <<playersIds, isGameStarted, players, endGame, scene, copies, inits, damage,
                     sessions, revived>>
      /\ status' \in {status, "stopping"}
  BY DEF HandleDisconnectMsg, Handle, clientVars
<1>2. RestOK'
  BY <1>1 DEF TypeInv, RestOK
<1>3. RequestsOK' /\ Grows
  BY <1>1, SameSessions, RequestTaken DEF TypeInv
<1>4. PICK i \in DOMAIN endpoints : endpoints' = Without(endpoints, i)
  BY DEF HandleDisconnectMsg
<1>5. MembersOK'
  <2>1. endpoints \in Seq(Clients)
    BY DEF TypeInv, MembersOK
  <2>2. endpoints' \in Seq(Clients)
    BY <1>4, <2>1, WithoutProperties
  <2>3. \A j \in DOMAIN endpoints' : \E k \in DOMAIN endpoints : endpoints'[j] = endpoints[k]
    BY <1>4, <2>1, WithoutElements
  <2>4. \A k \in DOMAIN endpoints : playersIds[endpoints[k]] # None
    BY DEF TypeInv, MembersOK, Served
  <2>5. \A j \in DOMAIN endpoints' : playersIds'[endpoints'[j]] # None
    BY <1>1, <2>3, <2>4
  <2> QED
    BY <2>2, <2>5 DEF MembersOK, Served
<1>6. RepliesOK' /\ ToldOK'
  <2>1. Members \ {m.from} \subseteq Members
    OBVIOUS
  <2> QED
    BY <1>3, <2>1, DeathsTold DEF HandleDisconnectMsg, TypeInv
<1> QED
  BY <1>1, <1>2, <1>3, <1>5, <1>6, SameSessions DEF TypeInv

\* The fields of a request of a kind.
LEMMA RequestFields ==
    ASSUME TypeInv, NEW m \in BagToSet(requests)
    PROVE  /\ m.from \in Clients
           /\ m.kind = "LIFE_UPDATE" => m.id \in Given /\ m.hp \in Hp
           /\ m.kind = "PLAYER_DEATH" => m.id \in Given /\ Served(m.from)
  BY DEF TypeInv, RequestsOK, RequestOK

\* What a LIFE_UPDATE does to the players: the health of one of that id.
LEMMA LifeWritten ==
    ASSUME TypeInv, NEW m \in BagToSet(requests), HandleLifeUpdateMsg(m)
    PROVE  \/ UNCHANGED <<players, replies, told, revived>>
           \/ \E i \in DOMAIN players :
                 /\ players[i].id = m.id /\ players[i].hp # m.hp
                 /\ players' = [players EXCEPT ![i].hp = m.hp]
                 /\ Tell(SetToBag({LifeUpdate(m.from, m.hp)}))
                 /\ revived' = revived \cup (IF players[i].hp = 0 THEN {m.id} ELSE {})
<1> DEFINE differ == {i \in WithId(players, m.id) : players[i].hp # m.hp}
<1>1. CASE differ = {}
  BY <1>1 DEF HandleLifeUpdateMsg
<1>2. CASE differ # {}
  <2>1. differ \subseteq DOMAIN players /\ DOMAIN players \subseteq Nat
    BY DEF WithId, TypeInv, PlayersOK
  <2>2. Min(differ) \in differ
    BY <1>2, <2>1, MinIsMember
  <2>3. /\ Min(differ) \in DOMAIN players
        /\ players[Min(differ)].id = m.id /\ players[Min(differ)].hp # m.hp
    BY <2>2 DEF WithId
  <2>4. /\ players' = [players EXCEPT ![Min(differ)].hp = m.hp]
        /\ Tell(SetToBag({LifeUpdate(m.from, m.hp)}))
        /\ revived' = revived \cup (IF players[Min(differ)].hp = 0 THEN {m.id} ELSE {})
    BY <1>2 DEF HandleLifeUpdateMsg
  <2> HIDE DEF differ
  <2> QED
    BY <2>3, <2>4
<1> QED
  BY <1>1, <1>2

LEMMA HandleLifeUpdateType ==
    ASSUME TypeInv, NEW m \in BagToSet(requests), HandleLifeUpdateMsg(m)
    PROVE  TypeInv'
<1>1. /\ requests' = requests (-) SetToBag({m}) /\ m.kind = "LIFE_UPDATE"
      /\ UNCHANGED <<endpoints, playersIds, isGameStarted, status, endGame, scene, copies,
                     inits, damage, sessions>>
  BY DEF HandleLifeUpdateMsg, Handle, memberVars, clientVars
<1>2. m.id \in Given /\ m.hp \in Hp /\ m.from \in Clients
  BY <1>1, RequestFields
<1>3. RequestsOK' /\ Grows
  BY <1>1, SameSessions, RequestTaken DEF TypeInv
<1>4. CASE UNCHANGED <<players, replies, told, revived>>
  <2>1. RestOK'
    BY <1>1, <1>4 DEF TypeInv, RestOK
  <2> QED
    BY <1>1, <1>3, <1>4, <2>1, SameSessions DEF TypeInv
<1>5. ASSUME NEW i \in DOMAIN players,
             players' = [players EXCEPT ![i].hp = m.hp],
             Tell(SetToBag({LifeUpdate(m.from, m.hp)})),
             revived' = revived \cup (IF players[i].hp = 0 THEN {m.id} ELSE {})
      PROVE  TypeInv'
  <2>1. PlayersOK'
    <3>1. players' \in Seq(PlayersOf(Given))
      BY <1>2, <1>5, PlayerHealth DEF TypeInv, PlayersOK
    <3>2. PlayersOf(Given)' = PlayersOf(Given)
      BY <1>1, SameSessions DEF PlayersOf, Hp
    <3> QED
      BY <3>1, <3>2 DEF PlayersOK
  <2>2. revived' \subseteq Ids
    BY <1>2, <1>5, GivenAreIds DEF TypeInv, RestOK
  <2>3. RestOK'
    BY <1>1, <2>2 DEF TypeInv, RestOK
  <2>4. RepliesOK' /\ ToldOK'
    <3> DEFINE n == LifeUpdate(m.from, m.hp)
    <3>1. n.kind = "LIFE_UPDATE" /\ n.to = m.from /\ n.hp = m.hp
      BY DEF LifeUpdate
    <3>2. Tell(SetToBag({n}))
      BY <1>5
    <3> HIDE DEF n
    <3>3. ReplyOK(n)
      BY <1>2, <3>1 DEF ReplyOK
    <3> QED
      BY <1>3, <3>2, <3>3, OneTold DEF TypeInv
  <2> QED
    BY <1>1, <1>3, <2>1, <2>3, <2>4, SameSessions DEF TypeInv
<1> QED
  BY <1>4, <1>5, LifeWritten

\* A death that the lobby does not know of is taken back.
LEMMA ReceivePlayerDeathMsgType ==
    ASSUME TypeInv, NEW m \in BagToSet(requests), ReceivePlayerDeathMsg(m)
    PROVE  TypeInv'
<1>1. /\ requests' = requests (-) SetToBag({m}) /\ m.kind = "PLAYER_DEATH"
      /\ UNCHANGED <<endpoints, playersIds, isGameStarted, status, players, endGame, scene,
                     copies, inits, damage, sessions, revived>>
  BY DEF ReceivePlayerDeathMsg, Handle, serverVars, memberVars, clientVars
<1>2. m.id \in Given /\ m.from \in Clients /\ Served(m.from)
  BY <1>1, RequestFields
<1>3. RequestsOK' /\ Grows /\ RestOK'
  BY <1>1, SameSessions, RequestTaken DEF TypeInv, RestOK
<1>4. RepliesOK' /\ ToldOK'
  <2>1. CASE Tell(SetToBag({PlayerDeath(c, m.id) : c \in Members}))
    BY <1>3, <2>1, DeathsTold DEF TypeInv
  <2>2. CASE Tell(EmptyBag)
    <3>1. IsABag(EmptyBag) /\ BagToSet(EmptyBag) = {}
      BY SetToBagProperties DEF EmptyBag
    <3> QED
      BY <1>3, <2>2, <3>1, RepliesTold DEF TypeInv
  <2>3. ASSUME WithId(players, m.id) # {},
               Tell(SetToBag({NewPlayer(m.from, m.id, First(players, m.id).hp,
                                        playersIds[m.from] # m.id)}))
        PROVE  RepliesOK' /\ ToldOK'
    <3> DEFINE n == NewPlayer(m.from, m.id, First(players, m.id).hp, playersIds[m.from] # m.id)
    <3>1. /\ n.kind = "NEW_PLAYER" /\ n.to = m.from /\ n.id = m.id
          /\ n.hp = First(players, m.id).hp /\ n.isOther \in BOOLEAN
      BY DEF NewPlayer
    <3>2. Tell(SetToBag({n}))
      BY <2>3
    <3> HIDE DEF n
    <3>3. First(players, m.id).hp \in Hp
      BY <2>3, FirstIsOne DEF TypeInv
    <3>4. ReplyOK(n)
      BY <1>2, <3>1, <3>3 DEF ReplyOK
    <3> QED
      BY <1>3, <3>2, <3>4, OneTold DEF TypeInv
  <2> QED
    BY <2>1, <2>2, <2>3 DEF ReceivePlayerDeathMsg
<1> QED
  BY <1>1, <1>3, <1>4, SameSessions DEF TypeInv

\* Steps of the lobby that send nothing.
LEMMA QuietLobbyType ==
    ASSUME TypeInv,
           \/ \E m \in BagToSet(requests) : HandleDisconnectStranger(m)
           \/ HandleLastReadyMsg
           \/ MainThreadStops
    PROVE  TypeInv'
<1>1. UNCHANGED <<endpoints, playersIds, players, endGame, scene, copies, inits, damage,
                  replies, sessions, revived, told>>
  BY DEF HandleDisconnectStranger, HandleLastReadyMsg, MainThreadStops, clientVars, history
<1>2. isGameStarted' \in BOOLEAN /\ status' \in {"running", "stopping", "ended"}
  BY DEF HandleDisconnectStranger, HandleLastReadyMsg, MainThreadStops, TypeInv, RestOK
<1>3. RestOK'
  BY <1>1, <1>2 DEF TypeInv, RestOK
<1>4. RequestsOK'
  <2>1. UNCHANGED requests \/ \E m : requests' = requests (-) SetToBag({m})
    BY DEF HandleDisconnectStranger, HandleLastReadyMsg, MainThreadStops, Handle
  <2> QED
    BY <1>1, <2>1, SameSessions, RequestTaken DEF TypeInv
<1> QED
  BY <1>1, <1>3, <1>4, SameSessions DEF TypeInv

LEMMA ServerDamageType ==
    ASSUME TypeInv, NEW i \in DOMAIN players, ServerDamage(i)
    PROVE  TypeInv'
<1>1. /\ damage < MaxDamage /\ damage' = damage + 1
      /\ UNCHANGED <<endpoints, playersIds, isGameStarted, status, endGame, scene, copies,
                     inits, requests, replies, sessions, revived, told>>
  BY DEF ServerDamage, memberVars, clientVars, history
<1>2. damage' \in 0 .. MaxDamage
  BY <1>1, ConstantTypes DEF TypeInv, RestOK
<1>3. RestOK'
  BY <1>1, <1>2 DEF TypeInv, RestOK
<1>4. PICK hp \in 0 .. players[i].hp - 1 : players' = [players EXCEPT ![i].hp = hp]
  BY DEF ServerDamage
<1>5. hp \in Hp
  <2>1. players[i] \in PlayersOf(Given)
    BY ElementAtIndex DEF TypeInv, PlayersOK
  <2>2. players[i].hp \in Hp
    BY <2>1 DEF PlayersOf
  <2> QED
    BY <2>2, ConstantTypes DEF Hp
<1>6. players' \in Seq(PlayersOf(Given))
  BY <1>4, <1>5, PlayerHealth DEF TypeInv, PlayersOK
<1>7. PlayersOf(Given)' = PlayersOf(Given)
  BY <1>1, SameSessions DEF PlayersOf, Hp
<1> QED
  BY <1>1, <1>3, <1>6, <1>7, SameSessions DEF TypeInv, PlayersOK

LEMMA ServerDiesType ==
    ASSUME TypeInv, NEW i \in DOMAIN players, ServerDies(i)
    PROVE  TypeInv'
<1>1. /\ players' = Without(players, i)
      /\ endGame' = endGame + (IF IsLast THEN 1 ELSE 0)
      /\ Tell(SetToBag({PlayerDeath(c, players[i].id) : c \in Members}))
      /\ UNCHANGED <<endpoints, playersIds, isGameStarted, status, scene, copies, inits, damage,
                     requests, sessions, revived>>
  BY DEF ServerDies, memberVars, clientVars
<1>2. endGame' \in Nat
  BY <1>1 DEF TypeInv, RestOK
<1>3. RestOK'
  BY <1>1, <1>2 DEF TypeInv, RestOK
<1>4. players' \in Seq(PlayersOf(Given))
  BY <1>1, WithoutProperties DEF TypeInv, PlayersOK
<1>5. PlayersOf(Given)' = PlayersOf(Given)
  BY <1>1, SameSessions DEF PlayersOf, Hp
<1>6. RepliesOK' /\ ToldOK'
  BY <1>1, SameSessions, DeathsTold DEF TypeInv
<1> QED
  BY <1>1, <1>3, <1>4, <1>5, <1>6, SameSessions DEF TypeInv, PlayersOK

LEMMA LobbyType ==
    ASSUME TypeInv, LobbyStep
    PROVE  TypeInv'
  BY HandleInitType, HandleDisconnectType, HandleLifeUpdateType, ReceivePlayerDeathMsgType,
     QuietLobbyType, ServerDamageType, ServerDiesType DEF LobbyStep

-----------------------------------------------------------------------------
(* Each step keeps the types: the clients *)

\* A step of a client changes nothing of the lobby, and its own copies.
LEMMA ClientTypes ==
    ASSUME TypeInv, UNCHANGED <<serverVars, sessions, revived>>, RequestsOK', RepliesOK',
           CopiesOK', ToldOK', scene' \in [Clients -> {"menu", "game"}],
           inits' \in 0 .. MaxInits, damage' \in 0 .. MaxDamage
    PROVE  TypeInv'
<1>1. UNCHANGED <<endpoints, playersIds, isGameStarted, status, players, endGame, sessions, revived>>
  BY DEF serverVars, memberVars
<1>2. RestOK'
  BY <1>1 DEF TypeInv, RestOK
<1> QED
  BY <1>1, <1>2, SameSessions DEF TypeInv

\* The copies of one client are replaced, of a client that was served.
LEMMA CopiesOfOne ==
    ASSUME TypeInv, NEW c \in Clients, NEW t \in Seq(CopiesOf(Given)),
           t # <<>> => Served(c), copies' = [copies EXCEPT ![c] = t],
           UNCHANGED <<sessions, playersIds>>
    PROVE  CopiesOK' /\ copies'[c] = t /\ \A d \in Clients \ {c} : copies'[d] = copies[d]
<1>1. /\ copies' \in [Clients -> Seq(CopiesOf(Given))]
      /\ copies'[c] = t
      /\ \A d \in Clients \ {c} : copies'[d] = copies[d]
  BY DEF TypeInv, CopiesOK
<1>2. \A d \in Clients : copies'[d] # <<>> => Served(d)
  BY <1>1 DEF TypeInv, CopiesOK
<1>3. CopiesOf(Given)' = CopiesOf(Given)
  BY SameSessionsGrow DEF CopiesOf, Hp
<1>4. CopiesOK'
  BY <1>1, <1>2, <1>3 DEF CopiesOK, Served
<1> QED
  BY <1>1, <1>4

LEMMA EnterSceneType ==
    ASSUME TypeInv, NEW c \in Clients, EnterGame(c) \/ LeaveGame(c)
    PROVE  TypeInv'
<1>1. /\ UNCHANGED <<serverVars, damage, replies, sessions, revived>>
      /\ UNCHANGED <<sessions, playersIds>>
  BY DEF EnterGame, LeaveGame, serverVars, memberVars
<1>2. /\ scene' \in [Clients -> {"menu", "game"}]
      /\ copies' = [copies EXCEPT ![c] = <<>>]
      /\ told' = [told EXCEPT ![c] = {}]
  BY DEF EnterGame, LeaveGame, EnterScene, TypeInv, RestOK
<1>3. <<>> \in Seq(CopiesOf(Given))
  OBVIOUS
<1>4. CopiesOK'
  BY <1>1, <1>2, <1>3, CopiesOfOne
<1>5. ToldOK'
  BY <1>1, <1>2, SameSessionsGrow DEF TypeInv, ToldOK
<1>6. inits' \in 0 .. MaxInits
  <2>1. inits' = inits \/ (inits < MaxInits /\ inits' = inits + 1)
    BY DEF EnterGame, LeaveGame
  <2>2. inits \in 0 .. MaxInits
    BY DEF TypeInv, RestOK
  <2> QED
    BY <2>1, <2>2, ConstantTypes
<1>7. RequestsOK'
  <2>1. PICK m \in {InitMsg(c), DisconnectMsg(c)} : requests' = requests (+) SetToBag({m})
    BY DEF EnterGame, LeaveGame
  <2>2. m.from = c /\ m.kind \in {"INIT", "DISCONNECT_LOBBY"}
    BY <2>1 DEF InitMsg, DisconnectMsg
  <2>3. RequestOK(m)
    BY <2>2 DEF RequestOK
  <2> QED
    BY <1>1, <2>1, <2>3, SameSessionsGrow, RequestSent DEF TypeInv
<1>8. RepliesOK'
  BY <1>1, SameSessionsGrow, RepliesKept DEF TypeInv
<1>9. damage' \in 0 .. MaxDamage
  BY <1>1 DEF TypeInv, RestOK
<1> QED
  BY <1>1, <1>2, <1>4, <1>5, <1>6, <1>7, <1>8, <1>9, ClientTypes

LEMMA ReplyFields ==
    ASSUME TypeInv, NEW m \in BagToSet(replies)
    PROVE  /\ m.to \in Clients
           /\ m.kind = "LIFE_UPDATE" => m.hp \in Hp
           /\ m.kind = "NEW_PLAYER" =>
                  m.id \in Given /\ m.hp \in Hp /\ m.isOther \in BOOLEAN /\ Served(m.to)
  BY DEF TypeInv, RepliesOK, ReplyOK

\* A packet that a client handles changes its copies alone.
LEMMA ReceiveType ==
    ASSUME TypeInv, NEW m \in BagToSet(replies), NEW k, Receive(m, k), CopiesOK'
    PROVE  TypeInv'
<1>1. /\ replies' = replies (-) SetToBag({m})
      /\ UNCHANGED <<serverVars, scene, inits, damage, requests, sessions, revived, told>>
      /\ UNCHANGED <<sessions, playersIds>>
  BY DEF Receive, serverVars, memberVars, history
<1>2. RequestsOK' /\ RepliesOK' /\ ToldOK'
  BY <1>1, SameSessions, ReplyTaken DEF TypeInv
<1>3. /\ scene' \in [Clients -> {"menu", "game"}]
      /\ inits' \in 0 .. MaxInits /\ damage' \in 0 .. MaxDamage
  BY <1>1 DEF TypeInv, RestOK
<1> QED
  BY <1>1, <1>2, <1>3, ClientTypes

\* Steps of a client's own simulation.
LEMMA SimulationType ==
    ASSUME TypeInv, UNCHANGED <<serverVars, scene, inits, replies, history>>,
           RequestsOK', CopiesOK', damage' \in 0 .. MaxDamage
    PROVE  TypeInv'
<1>1. UNCHANGED <<serverVars, sessions, revived>> /\ UNCHANGED <<sessions, playersIds, told>>
  BY DEF serverVars, memberVars, history
<1>2. RepliesOK' /\ ToldOK'
  BY <1>1, SameSessions DEF TypeInv
<1>3. scene' \in [Clients -> {"menu", "game"}] /\ inits' \in 0 .. MaxInits
  BY DEF TypeInv, RestOK
<1> QED
  BY <1>1, <1>2, <1>3, ClientTypes

\* Sequences with the same places are empty together.
LEMMA EmptyTogether ==
    ASSUME NEW S, NEW T, NEW s \in Seq(S), NEW t \in Seq(T), DOMAIN t \subseteq DOMAIN s
    PROVE  t # <<>> => s # <<>>
<1>1. t # <<>> => 1 \in DOMAIN t
  <2>1. Len(t) \in Nat /\ DOMAIN t = 1 .. Len(t)
    OBVIOUS
  <2>2. t # <<>> => Len(t) # 0
    BY EmptySeq
  <2> QED
    BY <2>1, <2>2
<1>2. s = <<>> => DOMAIN s = {}
  OBVIOUS
<1> QED
  BY <1>1, <1>2

\* Entities of one client whose health alone changes.
LEMMA AlikeCopies ==
    ASSUME TypeInv, NEW c \in Clients, NEW t \in Seq(CopiesOf(Given)), Alike(copies[c], t),
           copies' = [copies EXCEPT ![c] = t], UNCHANGED <<sessions, playersIds>>
    PROVE  CopiesOK' /\ \A d \in Clients : Alike(copies[d], copies'[d])
<1>1. copies[c] \in Seq(CopiesOf(Given)) /\ (copies[c] # <<>> => Served(c))
  BY DEF TypeInv, CopiesOK
<1>2. DOMAIN t = DOMAIN copies[c]
  BY DEF Alike
<1>3. t # <<>> => Served(c)
  BY <1>1, <1>2, EmptyTogether
<1>4. CopiesOK' /\ copies'[c] = t /\ \A d \in Clients \ {c} : copies'[d] = copies[d]
  BY <1>3, CopiesOfOne
<1>5. \A d \in Clients : Alike(copies[d], copies[d])
  BY DEF Alike
<1> QED
  BY <1>4, <1>5

LEMMA PlayerDeathAlike ==
    ASSUME TypeInv, NEW m \in BagToSet(replies), ReceivePlayerDeath(m)
    PROVE  CopiesOK' /\ \A d \in Clients : Alike(copies[d], copies'[d])
<1> DEFINE c == m.to
           t == Killed(copies[c], Found(c, m.id))
<1>1. c \in Clients /\ copies[c] \in Seq(CopiesOf(Given))
  BY ReplyFields DEF TypeInv, CopiesOK
<1>2. copies' = [copies EXCEPT ![c] = t] /\ UNCHANGED <<sessions, playersIds>>
  BY DEF ReceivePlayerDeath, Receive, serverVars, memberVars, history
<1>3. t \in Seq(CopiesOf(Given)) /\ Alike(copies[c], t)
  BY <1>1, CopiesDie
<1> HIDE DEF t, c
<1> QED
  BY <1>1, <1>2, <1>3, AlikeCopies

LEMMA LifeUpdateAlike ==
    ASSUME TypeInv, NEW m \in BagToSet(replies), ReceiveLifeUpdate(m)
    PROVE  CopiesOK' /\ \A d \in Clients : Alike(copies[d], copies'[d])
<1> DEFINE c == m.to
           own == {i \in DOMAIN copies[c] : copies[c][i].own}
           t == [copies[c] EXCEPT ![Min(own)].hp = m.hp]
<1>1. c \in Clients /\ copies[c] \in Seq(CopiesOf(Given)) /\ m.hp \in Hp
  BY ReplyFields DEF TypeInv, CopiesOK, ReceiveLifeUpdate, Receive
<1>2. UNCHANGED <<sessions, playersIds>>
  BY DEF ReceiveLifeUpdate, Receive, serverVars, memberVars, history
<1>3. CASE own = {}
  <2>1. UNCHANGED copies
    BY <1>3 DEF ReceiveLifeUpdate
  <2> QED
    BY <1>2, <2>1, SameSessions DEF Alike
<1>4. CASE own # {}
  <2>1. own \subseteq DOMAIN copies[c] /\ own \subseteq Nat
    BY <1>1
  <2>2. Min(own) \in DOMAIN copies[c]
    BY <1>4, <2>1, MinIsMember
  <2>3. copies' = [copies EXCEPT ![c] = t]
    BY <1>4 DEF ReceiveLifeUpdate
  <2> HIDE DEF own
  <2>4. t \in Seq(CopiesOf(Given)) /\ Alike(copies[c], t)
    BY <1>1, <2>2, CopyHealth
  <2> HIDE DEF t, c
  <2> QED
    BY <1>1, <1>2, <2>3, <2>4, AlikeCopies
<1> QED
  BY <1>3, <1>4

\* A hit, of which the lobby is told if it is the client's own player.
LEMMA ClientDamageAlike ==
    ASSUME TypeInv, NEW c \in Clients, NEW i \in DOMAIN copies[c], ClientDamage(c, i)
    PROVE  /\ CopiesOK' /\ \A d \in Clients : Alike(copies[d], copies'[d])
           /\ RequestsOK' /\ BagToSet(requests) \subseteq BagToSet(requests')
           /\ damage' \in 0 .. MaxDamage
<1>1. PICK hp \in 0 .. copies[c][i].hp - 1 :
          /\ copies' = [copies EXCEPT ![c][i].hp = hp]
          /\ requests' = IF copies[c][i].own
                         THEN requests (+) SetToBag({LifeMsg(c, copies[c][i].id, hp)})
                         ELSE requests
  BY DEF ClientDamage
<1>2. UNCHANGED <<sessions, playersIds>> /\ damage < MaxDamage /\ damage' = damage + 1
  BY DEF ClientDamage, serverVars, memberVars, history
<1>3. damage' \in 0 .. MaxDamage
  BY <1>2, ConstantTypes DEF TypeInv, RestOK
<1>4. copies[c] \in Seq(CopiesOf(Given))
  BY DEF TypeInv, CopiesOK
<1>5. copies[c][i].id \in Given /\ hp \in Hp
  <2>1. copies[c][i] \in CopiesOf(Given)
    BY <1>4, ElementAtIndex
  <2>2. copies[c][i].id \in Given /\ copies[c][i].hp \in Hp
    BY <2>1 DEF CopiesOf
  <2> QED
    BY <2>2, ConstantTypes DEF Hp
<1> DEFINE t == [copies[c] EXCEPT ![i].hp = hp]
<1>6. copies' = [copies EXCEPT ![c] = t]
  BY <1>1
<1>7. t \in Seq(CopiesOf(Given)) /\ Alike(copies[c], t)
  BY <1>4, <1>5, CopyHealth
<1> HIDE DEF t
<1>8. CopiesOK' /\ \A d \in Clients : Alike(copies[d], copies'[d])
  BY <1>2, <1>6, <1>7, AlikeCopies
<1>9. RequestsOK' /\ BagToSet(requests) \subseteq BagToSet(requests')
  <2>1. CASE requests' = requests
    BY <1>2, <2>1, SameSessions DEF TypeInv
  <2>2. CASE requests' = requests (+) SetToBag({LifeMsg(c, copies[c][i].id, hp)})
    <3> DEFINE m == LifeMsg(c, copies[c][i].id, hp)
    <3>1. m.kind = "LIFE_UPDATE" /\ m.from = c /\ m.id = copies[c][i].id /\ m.hp = hp
      BY DEF LifeMsg
    <3>2. requests' = requests (+) SetToBag({m})
      BY <2>2
    <3> HIDE DEF m
    <3>3. RequestOK(m)
      BY <1>5, <3>1 DEF RequestOK
    <3> QED
      BY <1>2, <3>2, <3>3, SameSessionsGrow, RequestSent, AddedToBag DEF TypeInv
  <2> QED
    BY <1>1, <2>1, <2>2
<1> QED
  BY <1>3, <1>8, <1>9

\* The copy that NEW_PLAYER creates, and what it leaves of the others.
LEMMA NewPlayerCopies ==
    ASSUME TypeInv, NEW m \in BagToSet(replies), ReceiveNewPlayer(m)
    PROVE  /\ CopiesOK'
           /\ m.to \in Clients
           /\ \A d \in Clients \ {m.to} : copies'[d] = copies[d]
           /\ \E n \in DOMAIN copies'[m.to] :
                 /\ DOMAIN copies'[m.to] = DOMAIN copies[m.to] \cup {n}
                 /\ copies'[m.to][n].id = m.id
                 /\ copies'[m.to][n].own = ~ m.isOther
                 /\ ~ copies'[m.to][n].removed
           /\ \A i \in DOMAIN copies[m.to] :
                 /\ copies'[m.to][i].id = copies[m.to][i].id
                 /\ copies'[m.to][i].own = copies[m.to][i].own
                 /\ i \notin Found(m.to, m.id) /\ ~ copies[m.to][i].removed
                        => ~ copies'[m.to][i].removed
<1> DEFINE c == m.to
           e == [id |-> m.id, hp |-> m.hp, own |-> ~m.isOther, removed |-> FALSE]
           t == CreateNewPlayer(m)
<1>1. /\ c \in Clients /\ Served(c)
      /\ m.id \in Given /\ m.hp \in Hp /\ m.isOther \in BOOLEAN
  BY ReplyFields DEF ReceiveNewPlayer, Receive
<1>2. copies[c] \in Seq(CopiesOf(Given))
  BY <1>1 DEF TypeInv, CopiesOK
<1>3. copies' = [copies EXCEPT ![c] = t] /\ UNCHANGED <<sessions, playersIds>>
  BY DEF ReceiveNewPlayer, Receive, serverVars, memberVars, history
<1>4. e \in CopiesOf(Given)
  BY <1>1 DEF CopiesOf
<1>5. e.id = m.id /\ e.own = ~m.isOther /\ e.removed = FALSE
  OBVIOUS
<1>6. t = Append(Marked(copies[c], Found(c, m.id)), e)
  BY DEF CreateNewPlayer
<1> HIDE DEF t, e, c
<1>7. t \in Seq(CopiesOf(Given)) /\ MarkedAndAdded(copies[c], t, Found(c, m.id), e)
  BY <1>2, <1>4, <1>6, CopyCreated
<1>8. /\ DOMAIN t = DOMAIN copies[c] \cup {Len(copies[c]) + 1}
      /\ t[Len(copies[c]) + 1] = e
      /\ \A i \in DOMAIN copies[c] :
            /\ t[i].id = copies[c][i].id
            /\ t[i].own = copies[c][i].own
            /\ i \notin Found(c, m.id) /\ ~ copies[c][i].removed => ~ t[i].removed
  BY <1>7, Zenon DEF MarkedAndAdded
<1>9. CopiesOK' /\ copies'[c] = t /\ \A d \in Clients \ {c} : copies'[d] = copies[d]
  BY <1>1, <1>3, <1>7, CopiesOfOne
<1>10. \E n \in DOMAIN t : /\ DOMAIN t = DOMAIN copies[c] \cup {n}
                           /\ t[n].id = m.id /\ t[n].own = ~ m.isOther /\ ~ t[n].removed
  BY <1>5, <1>8
<1> QED
  BY <1>1, <1>8, <1>9, <1>10 DEF c

\* A copy dies: it is gone, and reported.
LEMMA ClientDiesCopies ==
    ASSUME TypeInv, NEW c \in Clients, NEW i \in DOMAIN copies[c], ClientDies(c, i)
    PROVE  /\ CopiesOK' /\ RequestsOK'
           /\ BagToSet(requests') = BagToSet(requests) \cup {DeathMsg(c, copies[c][i].id)}
           /\ copies'[c] = Without(copies[c], i)
           /\ \A d \in Clients \ {c} : copies'[d] = copies[d]
<1>1. UNCHANGED <<sessions, playersIds>> /\ copies' = [copies EXCEPT ![c] = Without(copies[c], i)]
  BY DEF ClientDies, serverVars, memberVars, history
<1>2. copies[c] \in Seq(CopiesOf(Given)) /\ copies[c] # <<>> /\ Served(c)
  BY DEF TypeInv, CopiesOK
<1>3. Without(copies[c], i) \in Seq(CopiesOf(Given))
  BY <1>2, WithoutProperties
<1>4. /\ CopiesOK' /\ copies'[c] = Without(copies[c], i)
      /\ \A d \in Clients \ {c} : copies'[d] = copies[d]
  BY <1>1, <1>2, <1>3, CopiesOfOne
<1>5. copies[c][i].id \in Given /\ copies[c][i].own \in BOOLEAN
  <2>1. copies[c][i] \in CopiesOf(Given)
    BY <1>2, ElementAtIndex
  <2> QED
    BY <2>1, Zenon DEF CopiesOf
<1> DEFINE m == DeathMsg(c, copies[c][i].id)
<1>6. requests' = requests (+) SetToBag({m})
  BY <1>5 DEF ClientDies, ReportsDeath
<1>7. m.kind = "PLAYER_DEATH" /\ m.from = c /\ m.id = copies[c][i].id
  BY DEF DeathMsg
<1> HIDE DEF m
<1>8. RequestOK(m)
  BY <1>2, <1>5, <1>7 DEF RequestOK
<1>9. RequestsOK' /\ BagToSet(requests') = BagToSet(requests) \cup {m}
  BY <1>1, <1>6, <1>8, SameSessionsGrow, RequestSent, AddedToBag DEF TypeInv
<1> QED
  BY <1>4, <1>9 DEF m

LEMMA RemoveEntitiesCopies ==
    ASSUME TypeInv, NEW c \in Clients, RemoveEntities(c)
    PROVE  /\ CopiesOK'
           /\ copies'[c] = Kept(copies[c])
           /\ \A d \in Clients \ {c} : copies'[d] = copies[d]
<1>1. /\ UNCHANGED <<sessions, playersIds>> /\ copies' = [copies EXCEPT ![c] = Kept(copies[c])]
      /\ DOMAIN copies[c] # {}
  BY DEF RemoveEntities, serverVars, memberVars, history
<1>2. copies[c] \in Seq(CopiesOf(Given)) /\ copies[c] # <<>> /\ Served(c)
  BY <1>1 DEF TypeInv, CopiesOK
<1>3. Kept(copies[c]) \in Seq(CopiesOf(Given))
  BY <1>2, KeptProperties
<1> QED
  BY <1>1, <1>2, <1>3, CopiesOfOne

LEMMA ClientType ==
    ASSUME TypeInv, ClientStep
    PROVE  TypeInv'
<1>1. ASSUME NEW m \in BagToSet(replies), ReceiveNewPlayer(m)
      PROVE  TypeInv'
  BY <1>1, NewPlayerCopies, ReceiveType DEF ReceiveNewPlayer
<1>2. ASSUME NEW m \in BagToSet(replies), ReceivePlayerDeath(m)
      PROVE  TypeInv'
  BY <1>2, PlayerDeathAlike, ReceiveType DEF ReceivePlayerDeath
<1>3. ASSUME NEW m \in BagToSet(replies), ReceiveLifeUpdate(m)
      PROVE  TypeInv'
  BY <1>3, LifeUpdateAlike, ReceiveType DEF ReceiveLifeUpdate
<1>4. ASSUME NEW c \in Clients, NEW i \in DOMAIN copies[c], ClientDamage(c, i)
      PROVE  TypeInv'
  BY <1>4, ClientDamageAlike, SimulationType DEF ClientDamage
<1>5. damage \in 0 .. MaxDamage
  BY DEF TypeInv, RestOK
<1>6. ASSUME NEW c \in Clients, NEW i \in DOMAIN copies[c], ClientDies(c, i)
      PROVE  TypeInv'
  BY <1>5, <1>6, ClientDiesCopies, SimulationType DEF ClientDies
<1>7. ASSUME NEW c \in Clients, RemoveEntities(c)
      PROVE  TypeInv'
  <2>1. RequestsOK'
    BY <1>7, SameSessions DEF RemoveEntities, serverVars, memberVars, history, TypeInv
  <2> QED
    BY <1>5, <1>7, <2>1, RemoveEntitiesCopies, SimulationType DEF RemoveEntities
<1> QED
  BY <1>1, <1>2, <1>3, <1>4, <1>6, <1>7, EnterSceneType DEF ClientStep

LEMMA TypeStep ==
    ASSUME TypeInv, [Next]_vars
    PROVE  TypeInv'
<1>1. CASE UNCHANGED vars
  <2>1. UNCHANGED <<serverVars, scene, inits, damage, requests, replies, history>>
            /\ UNCHANGED <<copies, sessions, playersIds>>
    BY <1>1 DEF vars, serverVars, memberVars, clientVars, history
  <2>2. RequestsOK' /\ CopiesOK'
    BY <2>1, SameSessions DEF TypeInv
  <2>3. damage' \in 0 .. MaxDamage
    BY <2>1 DEF TypeInv, RestOK
  <2> QED
    BY <2>1, <2>2, <2>3, SimulationType
<1> QED
  BY <1>1, LobbyType, ClientType DEF Next

-----------------------------------------------------------------------------
(* Ids that are one session's, clients that had one *)

LEMMA OnePlace ==
    ASSUME NEW S, NEW s \in Seq(S), NEW I, I \subseteq DOMAIN s
    PROVE  Cardinality(I) = 1 <=> \E i \in I : \A j \in I : j = i
<1>1. DOMAIN s = 1 .. Len(s) /\ Len(s) \in Nat
  OBVIOUS
<1>2. IsFiniteSet(1 .. Len(s))
  BY <1>1, FS_Interval
<1>3. IsFiniteSet(I)
  BY <1>1, <1>2, FS_Subset
<1>4. Cardinality(I) = 1 <=> \E x : I = {x}
  BY <1>3, FS_Singleton
<1>5. ASSUME NEW x, I = {x}
      PROVE  \E i \in I : \A j \in I : j = i
  BY <1>5
<1>6. ASSUME NEW i \in I, \A j \in I : j = i
      PROVE  \E x : I = {x}
  <2>1. I = {i}
    BY <1>6
  <2> QED
    BY <2>1
<1> QED
  BY <1>4, <1>5, <1>6

SoleAt(id, i) ==
    sessions[i].id = id /\ \A j \in DOMAIN sessions : sessions[j].id = id => j = i

OneAt(c, i) ==
    sessions[i].of = c /\ \A j \in DOMAIN sessions : sessions[j].of = c => j = i

LEMMA SoleMeans ==
    ASSUME SessionsOK, NEW id
    PROVE  Sole(id) <=> \E i \in DOMAIN sessions : SoleAt(id, i)
<1> DEFINE I == {i \in DOMAIN sessions : sessions[i].id = id}
           R == [of : Clients, id : Ids]
<1>1. Cardinality(I) = 1 <=> \E i \in I : \A j \in I : j = i
  <2>1. I \subseteq DOMAIN sessions
    OBVIOUS
  <2>2. sessions \in Seq(R)
    BY DEF SessionsOK, Ids
  <2> HIDE DEF I, R
  <2> QED
    BY <2>1, <2>2, OnePlace
<1> QED
  BY <1>1 DEF Sole, SoleAt

LEMMA OneMeans ==
    ASSUME SessionsOK, NEW c
    PROVE  OneSession(c) <=> \E i \in DOMAIN sessions : OneAt(c, i)
<1> DEFINE I == {i \in DOMAIN sessions : sessions[i].of = c}
           R == [of : Clients, id : Ids]
<1>1. Cardinality(I) = 1 <=> \E i \in I : \A j \in I : j = i
  <2>1. I \subseteq DOMAIN sessions
    OBVIOUS
  <2>2. sessions \in Seq(R)
    BY DEF SessionsOK, Ids
  <2> HIDE DEF I, R
  <2> QED
    BY <2>1, <2>2, OnePlace
<1> QED
  BY <1>1 DEF OneSession, OneAt

LEMMA SoleMeansNext ==
    ASSUME SessionsOK', NEW id, Sole(id)'
    PROVE  \E i \in DOMAIN sessions' :
               sessions'[i].id = id /\ \A j \in DOMAIN sessions' : sessions'[j].id = id => j = i
<1> DEFINE I == {i \in DOMAIN sessions' : sessions'[i].id = id}
           R == [of : Clients, id : Ids]
<1>1. Cardinality(I) = 1 <=> \E i \in I : \A j \in I : j = i
  <2>1. I \subseteq DOMAIN sessions'
    OBVIOUS
  <2>2. sessions' \in Seq(R)
    BY DEF SessionsOK, Ids
  <2> HIDE DEF I, R
  <2> QED
    BY <2>1, <2>2, OnePlace
<1>2. Cardinality(I) = 1
  BY DEF Sole
<1> QED
  BY <1>1, <1>2

LEMMA OneMeansNext ==
    ASSUME SessionsOK', NEW c, OneSession(c)'
    PROVE  \E i \in DOMAIN sessions' :
               sessions'[i].of = c /\ \A j \in DOMAIN sessions' : sessions'[j].of = c => j = i
<1> DEFINE I == {i \in DOMAIN sessions' : sessions'[i].of = c}
           R == [of : Clients, id : Ids]
<1>1. Cardinality(I) = 1 <=> \E i \in I : \A j \in I : j = i
  <2>1. I \subseteq DOMAIN sessions'
    OBVIOUS
  <2>2. sessions' \in Seq(R)
    BY DEF SessionsOK, Ids
  <2> HIDE DEF I, R
  <2> QED
    BY <2>1, <2>2, OnePlace
<1>2. Cardinality(I) = 1
  BY DEF OneSession
<1> QED
  BY <1>1, <1>2

\* An id that is one session's after a session began was so before, or is new;
\* a client that had one session by then had it before, or had none.
LEMMA SoleBefore ==
    ASSUME SessionsOK, MembersOK, NEW c \in Clients, Begins(c), NEW id, Sole(id)'
    PROVE  IF id = AssignedId THEN id \notin Given ELSE Sole(id)
<1> DEFINE n == Len(sessions) + 1
<1>1. /\ DOMAIN sessions' = DOMAIN sessions \cup {n}
      /\ \A i \in DOMAIN sessions : i # n /\ sessions'[i] = sessions[i]
      /\ sessions'[n].id = AssignedId
  BY SessionAdded
<1> HIDE DEF n
<1>2. SessionsOK'
  BY BeginsKeepsSessions
<1>3. PICK i \in DOMAIN sessions' :
          sessions'[i].id = id /\ \A j \in DOMAIN sessions' : sessions'[j].id = id => j = i
  BY <1>2, SoleMeansNext
<1>4. CASE id = AssignedId
  <2>1. i = n
    BY <1>1, <1>3, <1>4
  <2>2. \A j \in DOMAIN sessions : sessions[j].id # id
    BY <1>1, <1>3, <2>1
  <2> QED
    BY <1>4, <2>2 DEF Given
<1>5. CASE id # AssignedId
  <2>1. i \in DOMAIN sessions /\ SoleAt(id, i)
    BY <1>1, <1>3, <1>5 DEF SoleAt
  <2> QED
    BY <1>5, <2>1, SoleMeans
<1> QED
  BY <1>4, <1>5

LEMMA OneBefore ==
    ASSUME SessionsOK, MembersOK, NEW c \in Clients, Begins(c),
           NEW d \in Clients, OneSession(d)'
    PROVE  IF d = c THEN ~ Served(c) ELSE OneSession(d)
<1> DEFINE n == Len(sessions) + 1
<1>1. /\ DOMAIN sessions' = DOMAIN sessions \cup {n}
      /\ \A i \in DOMAIN sessions : i # n /\ sessions'[i] = sessions[i]
      /\ sessions'[n].of = c
  BY SessionAdded
<1> HIDE DEF n
<1>2. SessionsOK'
  BY BeginsKeepsSessions
<1>3. PICK i \in DOMAIN sessions' :
          sessions'[i].of = d /\ \A j \in DOMAIN sessions' : sessions'[j].of = d => j = i
  BY <1>2, OneMeansNext
<1>4. CASE d = c
  <2>1. i = n
    BY <1>1, <1>3, <1>4
  <2>2. \A j \in DOMAIN sessions : sessions[j].of # c
    BY <1>1, <1>3, <1>4, <2>1
  <2> QED
    BY <1>4, <2>2 DEF SessionsOK
<1>5. CASE d # c
  <2>1. i \in DOMAIN sessions /\ OneAt(d, i)
    BY <1>1, <1>3, <1>5 DEF OneAt
  <2> QED
    BY <1>5, <2>1, OneMeans
<1> QED
  BY <1>4, <1>5

-----------------------------------------------------------------------------
(* One session, one entity at the lobby *)

\* An id that one session has is the id of one entity at most.
SoleIsAlone ==
    \A i, j \in DOMAIN players :
        players[i].id = players[j].id /\ Sole(players[i].id) => i = j

\* Whether an id is one session's, while no session begins.
LEMMA SoleStays ==
    ASSUME UNCHANGED sessions
    PROVE  /\ \A id : Sole(id)' <=> Sole(id)
           /\ \A c : OneSession(c)' <=> OneSession(c)
  BY DEF Sole, OneSession

LEMMA InitAlone == Init => SoleIsAlone
  BY DEF Init, SoleIsAlone

\* The same entities with other healths.
LEMMA AloneSame ==
    ASSUME SoleIsAlone, UNCHANGED sessions, DOMAIN players' = DOMAIN players,
           \A i \in DOMAIN players : players'[i].id = players[i].id
    PROVE  SoleIsAlone'
<1>1. \A i, j \in DOMAIN players' :
          players'[i].id = players'[j].id /\ Sole(players'[i].id) => i = j
  BY DEF SoleIsAlone
<1>2. \A id : Sole(id)' <=> Sole(id)
  BY SoleStays
<1> QED
  BY <1>1, <1>2 DEF SoleIsAlone, Sole

\* An INIT is refused, and changes nothing, or begins a session.
LEMMA InitTaken ==
    ASSUME TypeInv, NEW m \in BagToSet(requests), HandleInitMsg(m)
    PROVE  /\ m.from \in Clients
           /\ requests' = requests (-) SetToBag({m}) /\ m.kind = "INIT"
           /\ UNCHANGED <<isGameStarted, status, endGame, scene, copies, inits, damage, revived>>
           /\ \/ UNCHANGED <<endpoints, playersIds, players, replies, sessions, told>>
              \/ /\ Begins(m.from)
                 /\ players' = Append(players, [id |-> AssignedId, hp |-> MaxLife])
                 /\ Tell(NewPlayers(m.from, AssignedId))
<1>1. m.from \in Clients
  BY RequestFields
<1> QED
  BY <1>1 DEF HandleInitMsg, Handle, Begins, clientVars

LEMMA PlayerAdded ==
    ASSUME PlayersOK, NEW c, Begins(c),
           players' = Append(players, [id |-> AssignedId, hp |-> MaxLife])
    PROVE  /\ Len(players) \in Nat
           /\ DOMAIN players' = DOMAIN players \cup {Len(players) + 1}
           /\ players'[Len(players) + 1].id = AssignedId
           /\ \A i \in DOMAIN players : i # Len(players) + 1 /\ players'[i] = players[i]
           /\ \A i \in DOMAIN players : players[i].id \in Given
<1> DEFINE e == [id |-> AssignedId, hp |-> MaxLife]
           S == PlayersOf(Given) \cup {e}
<1>1. players \in Seq(S)
  BY SeqMonotonic DEF PlayersOK
<1>2. e \in S /\ e.id = AssignedId /\ players' = Append(players, e)
  OBVIOUS
<1> HIDE DEF S, e
<1>3. /\ Len(players) \in Nat
      /\ DOMAIN players' = DOMAIN players \cup {Len(players) + 1}
      /\ \A i \in DOMAIN players : i # Len(players) + 1 /\ players'[i] = players[i]
      /\ players'[Len(players) + 1] = e
  BY <1>1, <1>2, Appended
<1>4. \A i \in DOMAIN players : players[i] \in PlayersOf(Given)
  BY ElementAtIndex DEF PlayersOK
<1>5. \A i \in DOMAIN players : players[i].id \in Given
  BY <1>4 DEF PlayersOf
<1> QED
  BY <1>2, <1>3, <1>5

LEMMA HandleInitAlone ==
    ASSUME TypeInv, SoleIsAlone, NEW m \in BagToSet(requests), HandleInitMsg(m)
    PROVE  SoleIsAlone'
<1>1. CASE UNCHANGED <<sessions, players>>
  BY <1>1, AloneSame
<1>2. ASSUME Begins(m.from),
             players' = Append(players, [id |-> AssignedId, hp |-> MaxLife])
      PROVE  SoleIsAlone'
  <2> DEFINE n == Len(players) + 1
  <2>1. m.from \in Clients /\ SessionsOK /\ MembersOK
    BY InitTaken DEF TypeInv
  <2>2. /\ DOMAIN players' = DOMAIN players \cup {n}
        /\ players'[n].id = AssignedId
        /\ \A i \in DOMAIN players : players'[i] = players[i]
        /\ \A i \in DOMAIN players : players[i].id \in Given
    BY <1>2, PlayerAdded DEF TypeInv
  <2> HIDE DEF n
  <2>3. \A id : Sole(id)' => IF id = AssignedId THEN id \notin Given ELSE Sole(id)
    BY <1>2, <2>1, SoleBefore
  <2>4. ASSUME NEW i \in DOMAIN players', NEW j \in DOMAIN players', NEW id,
               players'[i].id = id, players'[j].id = id, Sole(id)'
        PROVE  i = j
    <3>1. CASE id = AssignedId
      <4>1. id \notin Given
        BY <2>3, <2>4, <3>1
      <4> QED
        BY <2>2, <2>4, <4>1
    <3>2. CASE id # AssignedId
      <4>1. Sole(id)
        BY <2>3, <2>4, <3>2
      <4>2. i \in DOMAIN players /\ j \in DOMAIN players
        BY <2>2, <2>4, <3>2
      <4> QED
        BY <2>2, <2>4, <4>1, <4>2 DEF SoleIsAlone
    <3> QED
      BY <3>1, <3>2
  <2> QED
    BY <2>4 DEF SoleIsAlone, Sole
<1> QED
  BY <1>1, <1>2, InitTaken

LEMMA ServerDiesAlone ==
    ASSUME TypeInv, SoleIsAlone, NEW i \in DOMAIN players, ServerDies(i)
    PROVE  SoleIsAlone'
<1>1. players' = Without(players, i) /\ UNCHANGED sessions /\ players \in Seq(PlayersOf(Given))
  BY DEF ServerDies, TypeInv, PlayersOK
<1>2. \A j \in DOMAIN players' :
          \E k \in DOMAIN players \ {i} : /\ players'[j] = players[k]
                                          /\ k = IF j < i THEN j ELSE j + 1
  BY <1>1, WithoutElements
<1>3. DOMAIN players' \subseteq Nat /\ i \in Nat
  BY <1>1 DEF Without
<1>4. ASSUME NEW j \in DOMAIN players', NEW l \in DOMAIN players',
             players'[j].id = players'[l].id, Sole(players'[j].id)
      PROVE  j = l
  <2>1. PICK k \in DOMAIN players : players'[j] = players[k] /\ k = IF j < i THEN j ELSE j + 1
    BY <1>2
  <2>2. PICK h \in DOMAIN players : players'[l] = players[h] /\ h = IF l < i THEN l ELSE l + 1
    BY <1>2
  <2>3. k = h
    BY <1>4, <2>1, <2>2 DEF SoleIsAlone
  <2>4. j \in Nat /\ l \in Nat
    BY <1>3
  <2> QED
    BY <1>3, <2>1, <2>2, <2>3, <2>4
<1>5. \A id : Sole(id)' <=> Sole(id)
  BY <1>1, SoleStays
<1> QED
  BY <1>4, <1>5 DEF SoleIsAlone, Sole

\* A client changes nothing of the lobby.
LEMMA ClientsLeaveLobby ==
    ASSUME ClientStep
    PROVE  UNCHANGED <<endpoints, playersIds, isGameStarted, status, players, endGame,
                       sessions, revived>>
<1> USE DEF serverVars, memberVars, history
<1>1. ASSUME NEW m \in BagToSet(replies),
             ReceiveNewPlayer(m) \/ ReceivePlayerDeath(m) \/ ReceiveLifeUpdate(m)
      PROVE  UNCHANGED <<serverVars, sessions, revived>>
  BY <1>1 DEF ReceiveNewPlayer, ReceivePlayerDeath, ReceiveLifeUpdate, Receive
<1>2. ASSUME NEW c \in Clients, EnterGame(c) \/ LeaveGame(c) \/ RemoveEntities(c)
      PROVE  UNCHANGED <<serverVars, sessions, revived>>
  BY <1>2 DEF EnterGame, LeaveGame, RemoveEntities
<1>3. ASSUME NEW c \in Clients, NEW i \in DOMAIN copies[c], ClientDamage(c, i) \/ ClientDies(c, i)
      PROVE  UNCHANGED <<serverVars, sessions, revived>>
  BY <1>3 DEF ClientDamage, ClientDies
<1>4. UNCHANGED <<serverVars, sessions, revived>>
  BY <1>1, <1>2, <1>3 DEF ClientStep
<1> QED
  BY <1>4

\* Handlers of the lobby that leave the players and the sessions alone.
LEMMA LobbyLeavesPlayers ==
    ASSUME \/ \E m \in BagToSet(requests) :
                 HandleDisconnectMsg(m) \/ HandleDisconnectStranger(m) \/ ReceivePlayerDeathMsg(m)
           \/ HandleLastReadyMsg
           \/ MainThreadStops
    PROVE  UNCHANGED <<players, sessions, playersIds, scene, copies, revived>>
  BY DEF HandleDisconnectMsg, HandleDisconnectStranger, ReceivePlayerDeathMsg, HandleLastReadyMsg,
     MainThreadStops, serverVars, memberVars, clientVars, history

\* Hits and healths that arrive, at the lobby.
LEMMA LobbyHits ==
    ASSUME TypeInv,
           \/ \E m \in BagToSet(requests) : HandleLifeUpdateMsg(m)
           \/ \E i \in DOMAIN players : ServerDamage(i)
    PROVE  /\ UNCHANGED <<sessions, playersIds, scene, copies>> /\ revived \subseteq revived'
           /\ DOMAIN players' = DOMAIN players
           /\ \A i \in DOMAIN players : players'[i].id = players[i].id
           /\ \A i \in DOMAIN players : players'[i].hp > 0 =>
                  players[i].hp > 0 \/ players[i].id \in revived'
<1>1. ASSUME NEW m \in BagToSet(requests), HandleLifeUpdateMsg(m)
      PROVE  /\ UNCHANGED <<sessions, playersIds, scene, copies>> /\ revived \subseteq revived'
             /\ DOMAIN players' = DOMAIN players
             /\ \A i \in DOMAIN players : players'[i].id = players[i].id
             /\ \A i \in DOMAIN players : players'[i].hp > 0 =>
                    players[i].hp > 0 \/ players[i].id \in revived'
  <2>1. UNCHANGED <<sessions, playersIds, scene, copies>>
    BY <1>1 DEF HandleLifeUpdateMsg, memberVars, clientVars
  <2>2. CASE UNCHANGED <<players, revived>>
    BY <2>1, <2>2
  <2>3. ASSUME NEW i \in DOMAIN players, players[i].id = m.id,
               players' = [players EXCEPT ![i].hp = m.hp],
               revived' = revived \cup (IF players[i].hp = 0 THEN {m.id} ELSE {})
        PROVE  /\ revived \subseteq revived'
               /\ DOMAIN players' = DOMAIN players
               /\ \A j \in DOMAIN players : players'[j].id = players[j].id
               /\ \A j \in DOMAIN players : players'[j].hp > 0 =>
                      players[j].hp > 0 \/ players[j].id \in revived'
    <3>1. m.hp \in Hp
      BY <1>1, RequestFields DEF HandleLifeUpdateMsg, Handle
    <3>2. /\ DOMAIN players' = DOMAIN players
          /\ \A j \in DOMAIN players : /\ players'[j].id = players[j].id
                                       /\ players'[j].hp = IF j = i THEN m.hp ELSE players[j].hp
      BY <2>3, <3>1, PlayerHealth DEF TypeInv, PlayersOK
    <3>3. players[i].hp \in Hp
      <4>1. players[i] \in PlayersOf(Given)
        BY ElementAtIndex DEF TypeInv, PlayersOK
      <4> QED
        BY <4>1 DEF PlayersOf
    <3>4. players[i].hp > 0 \/ players[i].hp = 0
      <4>1. players[i].hp \in Nat
        BY <3>3, ConstantTypes
      <4> QED
        BY <4>1
    <3>5. players[i].hp > 0 \/ players[i].id \in revived'
      BY <2>3, <3>4
    <3> QED
      BY <2>3, <3>2, <3>5
  <2> QED
    BY <1>1, <2>1, <2>2, <2>3, LifeWritten
<1>2. ASSUME NEW i \in DOMAIN players, ServerDamage(i)
      PROVE  /\ UNCHANGED <<sessions, playersIds, scene, copies, revived>>
             /\ DOMAIN players' = DOMAIN players
             /\ \A j \in DOMAIN players : players'[j].id = players[j].id
             /\ \A j \in DOMAIN players : players'[j].hp > 0 => players[j].hp > 0
  <2>1. UNCHANGED <<sessions, playersIds, scene, copies, revived>>
    BY <1>2 DEF ServerDamage, memberVars, clientVars, history
  <2>2. PICK hp \in 0 .. players[i].hp - 1 : players' = [players EXCEPT ![i].hp = hp]
    BY <1>2 DEF ServerDamage
  <2>3. players[i].hp \in Hp
    <3>1. players[i] \in PlayersOf(Given)
      BY ElementAtIndex DEF TypeInv, PlayersOK
    <3> QED
      BY <3>1 DEF PlayersOf
  <2>4. hp \in Hp /\ (hp > 0 => players[i].hp > 0)
    BY <2>3, ConstantTypes DEF Hp
  <2>5. /\ DOMAIN players' = DOMAIN players
        /\ \A j \in DOMAIN players : /\ players'[j].id = players[j].id
                                     /\ players'[j].hp = IF j = i THEN hp ELSE players[j].hp
    BY <2>2, <2>4, PlayerHealth DEF TypeInv, PlayersOK
  <2> QED
    BY <2>1, <2>4, <2>5
<1> QED
  BY <1>1, <1>2

LEMMA AloneStep ==
    ASSUME TypeInv, SoleIsAlone, [Next]_vars
    PROVE  SoleIsAlone'
<1>1. CASE UNCHANGED vars
  <2>1. UNCHANGED <<sessions, players>>
    BY <1>1 DEF vars, serverVars, history
  <2> QED
    BY <2>1, AloneSame
<1>2. CASE ClientStep
  BY <1>2, ClientsLeaveLobby, AloneSame
<1>3. CASE LobbyStep
  <2>1. CASE \/ \E m \in BagToSet(requests) : HandleLifeUpdateMsg(m)
             \/ \E i \in DOMAIN players : ServerDamage(i)
    BY <2>1, LobbyHits, AloneSame
  <2>2. CASE \/ \E m \in BagToSet(requests) : \/ HandleDisconnectMsg(m)
                                              \/ HandleDisconnectStranger(m)
                                              \/ ReceivePlayerDeathMsg(m)
             \/ HandleLastReadyMsg
             \/ MainThreadStops
    BY <2>2, LobbyLeavesPlayers, AloneSame
  <2> QED
    BY <1>3, <2>1, <2>2, HandleInitAlone, ServerDiesAlone DEF LobbyStep
<1> QED
  BY <1>1, <1>2, <1>3 DEF Next

-----------------------------------------------------------------------------
(* A client's own player *)

\* Of such clients alone the property speaks.
Settled(c) == OneSession(c) /\ Sole(playersIds[c])

\* A NEW_PLAYER tells its client whether the player is its own.
TellsOwn(m) == m.kind = "NEW_PLAYER" => (m.isOther <=> m.id # playersIds[m.to])

OwnCopy(c, e) == e.own = (e.id = playersIds[c])

OwnInv ==
    /\ \A m \in BagToSet(replies) : Settled(m.to) => TellsOwn(m)
    /\ \A c \in Clients : Settled(c) => \A i \in DOMAIN copies[c] : OwnCopy(c, copies[c][i])

LEMMA OwnInvMeans == OwnInv => OwnStaysOwn
  BY Zenon DEF OwnInv, OwnStaysOwn, Settled, OwnCopy

LEMMA InitOwn == Init => OwnInv
<1> SUFFICES ASSUME Init PROVE OwnInv
  OBVIOUS
<1>1. BagToSet(replies) = {}
  BY SetToBagProperties DEF Init, EmptyBag
<1>2. \A c \in Clients : DOMAIN copies[c] = {}
  BY DEF Init
<1> QED
  BY <1>1, <1>2 DEF OwnInv

\* While no session begins, who is settled stays so, and what is said of the
\* own player is said of the same.
LEMMA OwnSame ==
    ASSUME UNCHANGED <<sessions, playersIds>>
    PROVE  /\ \A c : Settled(c)' <=> Settled(c)
           /\ \A m : TellsOwn(m)' <=> TellsOwn(m)
  BY Zenon DEF Settled, TellsOwn, Sole, OneSession

\* The copies of a client are some it had, but for their health, or right ones.
CopiesFollow ==
    \A c \in Clients : \A i \in DOMAIN copies'[c] :
        \/ \E j \in DOMAIN copies[c] : /\ copies'[c][i].id = copies[c][j].id
                                       /\ copies'[c][i].own = copies[c][j].own
        \/ Settled(c) => OwnCopy(c, copies'[c][i])

LEMMA OwnKept ==
    ASSUME OwnInv, UNCHANGED <<sessions, playersIds>>, CopiesFollow,
           \A m \in BagToSet(replies') \ BagToSet(replies) : TellsOwn(m)
    PROVE  OwnInv'
<1>1. \A m \in BagToSet(replies') : Settled(m.to) => TellsOwn(m)
  BY DEF OwnInv
<1>2. ASSUME NEW c \in Clients, Settled(c), NEW i \in DOMAIN copies'[c]
      PROVE  OwnCopy(c, copies'[c][i])
  <2>1. CASE Settled(c) => OwnCopy(c, copies'[c][i])
    BY <1>2, <2>1
  <2>2. ASSUME NEW j \in DOMAIN copies[c],
               copies'[c][i].id = copies[c][j].id, copies'[c][i].own = copies[c][j].own
        PROVE  OwnCopy(c, copies'[c][i])
    <3>1. OwnCopy(c, copies[c][j])
      BY <1>2 DEF OwnInv
    <3> QED
      BY <2>2, <3>1, Zenon DEF OwnCopy
  <2> QED
    BY <1>2, <2>1, <2>2 DEF CopiesFollow
<1>3. /\ \A c : Settled(c)' <=> Settled(c)
      /\ \A m : TellsOwn(m)' <=> TellsOwn(m)
  BY OwnSame
<1>4. \A c \in Clients : \A i \in DOMAIN copies'[c] :
          Settled(c) => copies'[c][i].own = (copies'[c][i].id = playersIds'[c])
  BY <1>2, Zenon DEF OwnCopy
<1> QED
  BY <1>1, <1>3, <1>4, Zenon DEF OwnInv, OwnCopy

LEMMA TellAdds ==
    ASSUME TypeInv, NEW P, IsABag(P), Tell(P)
    PROVE  BagToSet(replies') = BagToSet(replies) \cup BagToSet(P)
  BY BagSum DEF Tell, TypeInv, RepliesOK

LEMMA DeathsAdd ==
    ASSUME TypeInv, NEW S, NEW id, Tell(SetToBag({PlayerDeath(c, id) : c \in S}))
    PROVE  /\ BagToSet(replies) \subseteq BagToSet(replies')
           /\ \A m \in BagToSet(replies') \ BagToSet(replies) : m.kind = "PLAYER_DEATH"
<1> DEFINE P == SetToBag({PlayerDeath(c, id) : c \in S})
<1>1. IsABag(P) /\ BagToSet(P) = {PlayerDeath(c, id) : c \in S}
  BY SetToBagProperties
<1>2. \A c : PlayerDeath(c, id).kind = "PLAYER_DEATH"
  BY DEF PlayerDeath
<1>3. Tell(P)
  OBVIOUS
<1> HIDE DEF P
<1> QED
  BY <1>1, <1>2, <1>3, TellAdds

LEMMA OneAdds ==
    ASSUME TypeInv, NEW m, Tell(SetToBag({m}))
    PROVE  BagToSet(replies') = BagToSet(replies) \cup {m}
  BY SetToBagProperties, TellAdds

\* A session that begins: the client is told that the player is its own, all
\* others that it is not.
LEMMA HandleInitOwn ==
    ASSUME TypeInv, OwnInv, NEW m \in BagToSet(requests), HandleInitMsg(m)
    PROVE  OwnInv'
<1>1. CASE UNCHANGED <<endpoints, playersIds, players, replies, sessions, told>>
  <2>1. UNCHANGED copies
    BY InitTaken
  <2>2. CopiesFollow
    BY <2>1 DEF CopiesFollow
  <2> QED
    BY <1>1, <2>2, OwnKept
<1>2. ASSUME Begins(m.from), Tell(NewPlayers(m.from, AssignedId))
      PROVE  OwnInv'
  <2> DEFINE c == m.from
             id == AssignedId
  <2>1. c \in Clients /\ SessionsOK /\ MembersOK /\ UNCHANGED copies
    BY InitTaken DEF TypeInv
  <2>2. Begins(c)
    BY <1>2
  <2>3. playersIds'[c] = id /\ \A d \in Clients \ {c} : playersIds'[d] = playersIds[d]
    BY <2>1, <2>2, SessionAdded
  <2>4. \A x : Sole(x)' => IF x = id THEN x \notin Given ELSE Sole(x)
    BY <2>1, <2>2, SoleBefore
  <2>5. \A d \in Clients : OneSession(d)' => IF d = c THEN ~ Served(c) ELSE OneSession(d)
    BY <2>1, <2>2, OneBefore
  <2>6. \A d \in Clients : Served(d) => playersIds[d] \in Given
    BY <2>1 DEF SessionsOK, Given
  <2>7. \A d \in Clients : Settled(d)' => /\ OneSession(d)'
                                         /\ Cardinality({i \in DOMAIN sessions' :
                                               sessions'[i].id = playersIds'[d]}) = 1
    BY DEF Settled, Sole
  <2>8. ASSUME NEW d \in Clients, Settled(d)', Served(d)
        PROVE  d # c /\ Settled(d) /\ playersIds'[d] = playersIds[d] /\ playersIds[d] # id
    <3>1. d # c /\ OneSession(d)
      BY <2>5, <2>7, <2>8
    <3>2. playersIds'[d] = playersIds[d]
      BY <2>3, <3>1
    <3>3. Sole(playersIds[d]) /\ playersIds[d] # id
      <4>1. Cardinality({i \in DOMAIN sessions' : sessions'[i].id = playersIds[d]}) = 1
        BY <2>7, <2>8, <3>2
      <4>2. \A y : Cardinality({i \in DOMAIN sessions' : sessions'[i].id = y}) = 1
                      => IF y = id THEN y \notin Given ELSE Sole(y)
        BY <2>4 DEF Sole
      <4> HIDE DEF id
      <4> QED
        BY <2>6, <2>8, <4>1, <4>2
    <3> QED
      BY <3>1, <3>2, <3>3 DEF Settled
  <2>9. ASSUME NEW n \in BagToSet(replies'), n.kind = "NEW_PLAYER", Settled(n.to)'
        PROVE  n.isOther <=> n.id # playersIds'[n.to]
    <3>1. IsABag(NewPlayers(c, id))
      BY <2>1, WhoIsNew
    <3>2. CASE n \in BagToSet(replies)
      <4>1. n.to \in Clients /\ Served(n.to)
        BY <2>9, <3>2, ReplyFields
      <4>2. Settled(n.to) /\ playersIds'[n.to] = playersIds[n.to]
        BY <2>8, <2>9, <4>1
      <4>3. TellsOwn(n)
        BY <3>2, <4>2 DEF OwnInv
      <4> QED
        BY <2>9, <4>2, <4>3, Zenon DEF TellsOwn
    <3>3. CASE n \in BagToSet(NewPlayers(c, id))
      <4>1. Announces(n, c, id)
        BY <2>1, <3>3, NewPlayerFields
      <4>2. ASSUME n.to = c, n.id = id, n.isOther = FALSE
            PROVE  n.isOther <=> n.id # playersIds'[n.to]
        BY <2>3, <4>2, Zenon
      <4>3. ASSUME n.to \in Members, n.id = id, n.isOther = TRUE
            PROVE  n.isOther <=> n.id # playersIds'[n.to]
        <5>1. n.to \in Clients /\ Served(n.to)
          BY <2>1, <4>3, ElementAtIndex DEF MembersOK, Members
        <5>2. playersIds'[n.to] # id
          BY <2>8, <2>9, <5>1
        <5> QED
          BY <4>3, <5>2, Zenon
      <4>4. ASSUME n.to = c, n.id # id, n.isOther = TRUE
            PROVE  n.isOther <=> n.id # playersIds'[n.to]
        BY <2>3, <4>4, Zenon
      <4> QED
        BY <4>1, <4>2, <4>3, <4>4, Zenon DEF Announces
    <3> HIDE DEF c, id
    <3> QED
      BY <1>2, <3>1, <3>2, <3>3, TellAdds DEF c, id
  <2>10. ASSUME NEW d \in Clients, Settled(d)', NEW i \in DOMAIN copies'[d]
         PROVE  copies'[d][i].own = (copies'[d][i].id = playersIds'[d])
    <3>1. Served(d) /\ copies'[d] = copies[d]
      BY <2>1, <2>10 DEF TypeInv, CopiesOK
    <3>2. Settled(d) /\ playersIds'[d] = playersIds[d]
      BY <2>8, <2>10, <3>1
    <3>3. OwnCopy(d, copies[d][i])
      BY <2>10, <3>1, <3>2 DEF OwnInv
    <3> QED
      BY <3>1, <3>2, <3>3, Zenon DEF OwnCopy
  <2> QED
    BY <2>9, <2>10, Zenon DEF OwnInv, TellsOwn, OwnCopy
<1> QED
  BY <1>1, <1>2, InitTaken

\* What a death that a client reports is answered with.
LEMMA DeathAnswered ==
    ASSUME NEW m, ReceivePlayerDeathMsg(m)
    PROVE  /\ UNCHANGED <<players, sessions, playersIds, scene, copies, revived>>
           /\ requests' = requests (-) SetToBag({m}) /\ m.kind = "PLAYER_DEATH"
           /\ \/ WithId(players, m.id) = {}
                     /\ Tell(SetToBag({PlayerDeath(c, m.id) : c \in Members}))
              \/ WithId(players, m.id) # {} /\ First(players, m.id).hp = 0 /\ Tell(EmptyBag)
              \/ /\ WithId(players, m.id) # {} /\ First(players, m.id).hp # 0
                 /\ Tell(SetToBag({NewPlayer(m.from, m.id, First(players, m.id).hp,
                                             playersIds[m.from] # m.id)}))
  BY DEF ReceivePlayerDeathMsg, Handle, serverVars, memberVars, clientVars

\* A player that comes back is the client's own if the id is.
LEMMA DeathAnswerOwn ==
    ASSUME TypeInv, NEW m \in BagToSet(requests), ReceivePlayerDeathMsg(m)
    PROVE  \A n \in BagToSet(replies') \ BagToSet(replies) : TellsOwn(n)
<1>1. CASE Tell(SetToBag({PlayerDeath(c, m.id) : c \in Members}))
  BY <1>1, DeathsAdd DEF TellsOwn
<1>2. CASE Tell(EmptyBag)
  <2>1. IsABag(EmptyBag) /\ BagToSet(EmptyBag) = {}
    BY SetToBagProperties DEF EmptyBag
  <2> QED
    BY <1>2, <2>1, TellAdds
<1>3. CASE Tell(SetToBag({NewPlayer(m.from, m.id, First(players, m.id).hp,
                                    playersIds[m.from] # m.id)}))
  <2> DEFINE hp == First(players, m.id).hp
             n == NewPlayer(m.from, m.id, hp, playersIds[m.from] # m.id)
  <2>1. n.to = m.from /\ n.id = m.id /\ n.isOther = (playersIds[m.from] # m.id)
    BY DEF NewPlayer
  <2>2. Tell(SetToBag({n}))
    BY <1>3
  <2> HIDE DEF n
  <2>3. TellsOwn(n)
    BY <2>1, Zenon DEF TellsOwn
  <2> QED
    BY <2>2, <2>3, OneAdds
<1> QED
  BY <1>1, <1>2, <1>3, DeathAnswered

LEMMA LobbyOwn ==
    ASSUME TypeInv, OwnInv, LobbyStep
    PROVE  OwnInv'
<1>1. ASSUME UNCHANGED <<sessions, playersIds, copies>>,
             \A n \in BagToSet(replies') \ BagToSet(replies) : TellsOwn(n)
      PROVE  OwnInv'
  <2>1. CopiesFollow
    BY <1>1 DEF CopiesFollow
  <2> QED
    BY <1>1, <2>1, OwnKept
<1>2. ASSUME NEW m \in BagToSet(requests), HandleDisconnectMsg(m)
      PROVE  OwnInv'
  <2>1. /\ UNCHANGED <<sessions, playersIds, copies>>
        /\ Tell(SetToBag({PlayerDeath(c, playersIds[m.from]) : c \in Members \ {m.from}}))
    BY <1>2 DEF HandleDisconnectMsg, clientVars
  <2>2. \A n \in BagToSet(replies') \ BagToSet(replies) : TellsOwn(n)
    BY <2>1, DeathsAdd DEF TellsOwn
  <2> QED
    BY <1>1, <2>1, <2>2
<1>3. ASSUME NEW m \in BagToSet(requests), HandleLifeUpdateMsg(m)
      PROVE  OwnInv'
  <2>1. UNCHANGED <<sessions, playersIds, copies>>
    BY <1>3, LobbyHits
  <2>2. LifeUpdate(m.from, m.hp).kind # "NEW_PLAYER"
    BY DEF LifeUpdate
  <2>3. \/ UNCHANGED replies
        \/ BagToSet(replies') = BagToSet(replies) \cup {LifeUpdate(m.from, m.hp)}
    <3>1. UNCHANGED replies \/ Tell(SetToBag({LifeUpdate(m.from, m.hp)}))
      BY <1>3, LifeWritten
    <3> QED
      BY <3>1, OneAdds
  <2>4. \A n \in BagToSet(replies') \ BagToSet(replies) : TellsOwn(n)
    BY <2>2, <2>3 DEF TellsOwn
  <2> QED
    BY <1>1, <2>1, <2>4
<1>4. ASSUME NEW m \in BagToSet(requests), ReceivePlayerDeathMsg(m)
      PROVE  OwnInv'
  BY <1>1, <1>4, DeathAnswered, DeathAnswerOwn
<1>5. ASSUME NEW i \in DOMAIN players, ServerDies(i)
      PROVE  OwnInv'
  <2>1. /\ UNCHANGED <<sessions, playersIds, copies>>
        /\ Tell(SetToBag({PlayerDeath(c, players[i].id) : c \in Members}))
    BY <1>5 DEF ServerDies, memberVars, clientVars
  <2>2. \A n \in BagToSet(replies') \ BagToSet(replies) : TellsOwn(n)
    BY <2>1, DeathsAdd DEF TellsOwn
  <2> QED
    BY <1>1, <2>1, <2>2
<1>6. CASE \/ \E m \in BagToSet(requests) : HandleDisconnectStranger(m)
           \/ \E i \in DOMAIN players : ServerDamage(i)
           \/ HandleLastReadyMsg
           \/ MainThreadStops
  <2>1. UNCHANGED <<sessions, playersIds, copies, replies>>
    BY <1>6 DEF HandleDisconnectStranger, ServerDamage, HandleLastReadyMsg, MainThreadStops,
       memberVars, clientVars, history
  <2> QED
    BY <1>1, <2>1
<1> QED
  BY <1>2, <1>3, <1>4, <1>5, <1>6, HandleInitOwn DEF LobbyStep

LEMMA ClientOwn ==
    ASSUME TypeInv, OwnInv, ClientStep
    PROVE  OwnInv'
<1> DEFINE Follow(c) == \A i \in DOMAIN copies'[c] :
               \/ \E j \in DOMAIN copies[c] : /\ copies'[c][i].id = copies[c][j].id
                                              /\ copies'[c][i].own = copies[c][j].own
               \/ Settled(c) => OwnCopy(c, copies'[c][i])
<1>1. ASSUME \A c \in Clients : Follow(c), BagToSet(replies') \subseteq BagToSet(replies)
      PROVE  OwnInv'
  <2>1. UNCHANGED <<sessions, playersIds>>
    BY ClientsLeaveLobby
  <2>2. CopiesFollow
    BY <1>1 DEF CopiesFollow
  <2> QED
    BY <1>1, <2>1, <2>2, OwnKept
<1>2. ASSUME NEW c \in Clients, \A d \in Clients \ {c} : copies'[d] = copies[d], Follow(c)
      PROVE  \A d \in Clients : Follow(d)
  BY <1>2
<1>3. ASSUME NEW c \in Clients, Alike(copies[c], copies'[c])
      PROVE  Follow(c)
  BY <1>3 DEF Alike
<1>4. ASSUME NEW m \in BagToSet(replies), NEW k, Receive(m, k)
      PROVE  BagToSet(replies') \subseteq BagToSet(replies)
  BY <1>4, BagRest DEF Receive, TypeInv, RepliesOK
<1> HIDE DEF Follow
<1>5. ASSUME NEW m \in BagToSet(replies), ReceiveNewPlayer(m)
      PROVE  OwnInv'
  <2> DEFINE c == m.to
  <2>1. c \in Clients /\ m.kind = "NEW_PLAYER" /\ m.isOther \in BOOLEAN
    BY <1>5, ReplyFields DEF ReceiveNewPlayer, Receive
  <2>2. /\ \A d \in Clients \ {c} : copies'[d] = copies[d]
        /\ \A i \in DOMAIN copies[c] : /\ copies'[c][i].id = copies[c][i].id
                                       /\ copies'[c][i].own = copies[c][i].own
    BY <1>5, NewPlayerCopies
  <2>3. PICK n \in DOMAIN copies'[c] : /\ DOMAIN copies'[c] = DOMAIN copies[c] \cup {n}
                                       /\ copies'[c][n].id = m.id
                                       /\ copies'[c][n].own = ~ m.isOther
    BY <1>5, NewPlayerCopies
  <2>4. Settled(c) => OwnCopy(c, copies'[c][n])
    <3>1. Settled(c) => TellsOwn(m)
      BY DEF OwnInv
    <3>2. Settled(c) => (m.isOther <=> m.id # playersIds[c])
      BY <2>1, <3>1, Zenon DEF TellsOwn
    <3>3. Settled(c) => ((~ m.isOther) = (m.id = playersIds[c]))
      BY <3>2, Zenon
    <3> QED
      BY <2>3, <3>3 DEF OwnCopy
  <2> HIDE DEF c
  <2>5. Follow(c)
    BY <2>2, <2>3, <2>4, Zenon DEF Follow
  <2> QED
    BY <1>1, <1>2, <1>4, <1>5, <2>1, <2>2, <2>5 DEF ReceiveNewPlayer
<1>6. ASSUME NEW m \in BagToSet(replies), ReceivePlayerDeath(m) \/ ReceiveLifeUpdate(m)
      PROVE  OwnInv'
  <2>1. \A d \in Clients : Follow(d)
    BY <1>3, <1>6, PlayerDeathAlike, LifeUpdateAlike
  <2> QED
    BY <1>1, <1>4, <1>6, <2>1 DEF ReceivePlayerDeath, ReceiveLifeUpdate
<1>7. ASSUME NEW c \in Clients, NEW i \in DOMAIN copies[c], ClientDamage(c, i)
      PROVE  OwnInv'
  <2>1. \A d \in Clients : Follow(d)
    BY <1>3, <1>7, ClientDamageAlike
  <2> QED
    BY <1>1, <1>7, <2>1 DEF ClientDamage
<1>8. ASSUME NEW c \in Clients, NEW i \in DOMAIN copies[c], ClientDies(c, i)
      PROVE  OwnInv'
  <2>1. copies[c] \in Seq(CopiesOf(Given))
    BY DEF TypeInv, CopiesOK
  <2>2. copies'[c] = Without(copies[c], i) /\ \A d \in Clients \ {c} : copies'[d] = copies[d]
    BY <1>8, ClientDiesCopies
  <2>3. \A j \in DOMAIN copies'[c] : \E k \in DOMAIN copies[c] : copies'[c][j] = copies[c][k]
    BY <2>1, <2>2, WithoutElements
  <2>4. Follow(c)
    BY <2>3, Zenon DEF Follow
  <2> QED
    BY <1>1, <1>2, <1>8, <2>2, <2>4 DEF ClientDies
<1>9. ASSUME NEW c \in Clients, RemoveEntities(c)
      PROVE  OwnInv'
  <2>1. copies[c] \in Seq(CopiesOf(Given))
    BY DEF TypeInv, CopiesOK
  <2>2. copies'[c] = Kept(copies[c]) /\ \A d \in Clients \ {c} : copies'[d] = copies[d]
    BY <1>9, RemoveEntitiesCopies
  <2>3. \A j \in DOMAIN copies'[c] : \E i \in DOMAIN copies[c] : copies'[c][j] = copies[c][i]
    BY <2>1, <2>2, KeptProperties DEF Stay
  <2>4. Follow(c)
    BY <2>3, Zenon DEF Follow
  <2> QED
    BY <1>1, <1>2, <1>9, <2>2, <2>4 DEF RemoveEntities
<1>10. ASSUME NEW c \in Clients, EnterGame(c) \/ LeaveGame(c)
       PROVE  OwnInv'
  <2>1. copies' = [copies EXCEPT ![c] = <<>>] /\ UNCHANGED replies
    BY <1>10 DEF EnterGame, LeaveGame, EnterScene
  <2>2. copies'[c] = <<>> /\ \A d \in Clients \ {c} : copies'[d] = copies[d]
    BY <2>1 DEF TypeInv, CopiesOK
  <2>3. Follow(c)
    BY <2>2 DEF Follow
  <2> QED
    BY <1>1, <1>2, <2>1, <2>2, <2>3
<1> QED
  BY <1>5, <1>6, <1>7, <1>8, <1>9, <1>10 DEF ClientStep

LEMMA OwnStep ==
    ASSUME TypeInv, OwnInv, [Next]_vars
    PROVE  OwnInv'
<1>1. CASE UNCHANGED vars
  <2>1. UNCHANGED <<sessions, playersIds, copies, replies>>
    BY <1>1 DEF vars, serverVars, memberVars, clientVars, history
  <2>2. CopiesFollow
    BY <2>1 DEF CopiesFollow
  <2> QED
    BY <2>1, <2>2, OwnKept
<1> QED
  BY <1>1, LobbyOwn, ClientOwn DEF Next

-----------------------------------------------------------------------------
(* Nobody is lost *)

Alive(id) == \E i \in WithId(players, id) : players[i].hp > 0
InSight(c, id) == LivesAt(c, id) # {} \/ OnItsWay(c, id)

LEMMA LostMeans ==
    NoPlayerLost <=>
        \A c \in Clients : scene[c] = "game" =>
            \A id \in told[c] : id \notin revived /\ Sole(id) /\ Alive(id) => InSight(c, id)
  BY Zenon DEF NoPlayerLost, Alive, InSight

LEMMA InitNotLost == Init => NoPlayerLost
  BY DEF Init, NoPlayerLost

\* What a copy that lives, or a packet under way, is followed by.
LEMMA SightKept ==
    ASSUME NEW c, NEW id,
           \A i \in DOMAIN copies[c] : copies[c][i].id = id /\ ~ copies[c][i].removed =>
               \/ \E j \in DOMAIN copies'[c] : copies'[c][j].id = id /\ ~ copies'[c][j].removed
               \/ OnItsWay(c, id)',
           OnItsWay(c, id) =>
               \/ \E j \in DOMAIN copies'[c] : copies'[c][j].id = id /\ ~ copies'[c][j].removed
               \/ OnItsWay(c, id)'
    PROVE  InSight(c, id) => InSight(c, id)'
<1>1. LivesAt(c, id) # {} => \E i \in DOMAIN copies[c] :
                                 copies[c][i].id = id /\ ~ copies[c][i].removed
  BY DEF LivesAt, WithId
<1>2. (\E j \in DOMAIN copies'[c] : copies'[c][j].id = id /\ ~ copies'[c][j].removed)
          => LivesAt(c, id)' # {}
  BY DEF LivesAt, WithId
<1> QED
  BY <1>1, <1>2, Zenon DEF InSight

\* Packets of which none that matters is taken.
LEMMA WayKept ==
    ASSUME NEW c, NEW id, OnItsWay(c, id),
           \A n \in BagToSet(replies) : n.kind = "NEW_PLAYER" => n \in BagToSet(replies'),
           \A n \in BagToSet(requests) : n.kind = "PLAYER_DEATH" => n \in BagToSet(requests')
    PROVE  OnItsWay(c, id)'
<1>1. DeathMsg(c, id).kind = "PLAYER_DEATH"
  BY DEF DeathMsg
<1>2. CASE \E m \in BagToSet(replies) : m.kind = "NEW_PLAYER" /\ m.to = c /\ m.id = id
  BY <1>2, Zenon DEF OnItsWay
<1>3. CASE DeathMsg(c, id) \in BagToSet(requests)
  <2>1. DeathMsg(c, id) \in BagToSet(requests')
    BY <1>1, <1>3
  <2>2. DeathMsg(c, id)' = DeathMsg(c, id)
    BY DEF DeathMsg
  <2> QED
    BY <2>1, <2>2 DEF OnItsWay
<1> QED
  BY <1>2, <1>3 DEF OnItsWay

\* A step of the lobby: who lives lived before, what a client is told of is on
\* its way, and a report of somebody who lives is answered.
LEMMA LobbyKeepsSight ==
    ASSUME TypeInv, NoPlayerLost, UNCHANGED <<scene, copies>>, revived \subseteq revived',
           \A c \in Clients : \A id \in told'[c] : id \in told[c] \/ OnItsWay(c, id)',
           \A id \in Given : id \notin revived' /\ Sole(id)' /\ Alive(id)' => Sole(id) /\ Alive(id),
           \A c \in Clients : \A id \in Given :
               Sole(id) /\ Alive(id) /\ OnItsWay(c, id) => OnItsWay(c, id)'
    PROVE  NoPlayerLost'
<1>1. ASSUME NEW c \in Clients, scene'[c] = "game", NEW id \in told'[c],
             id \notin revived', Sole(id)', Alive(id)'
      PROVE  InSight(c, id)'
  <2>1. CASE id \in told[c]
    <3>1. id \in Given
      BY <2>1 DEF TypeInv, ToldOK
    <3>2. Sole(id) /\ Alive(id) /\ id \notin revived
      BY <1>1, <3>1
    <3>3. InSight(c, id)
      BY <1>1, <2>1, <3>2, LostMeans
    <3>4. OnItsWay(c, id) => OnItsWay(c, id)'
      BY <3>1, <3>2
    <3> QED
      BY <3>3, <3>4, SightKept
  <2>2. CASE OnItsWay(c, id)'
    BY <2>2 DEF InSight
  <2> QED
    BY <1>1, <2>1, <2>2
<1> QED
  BY <1>1, Zenon DEF NoPlayerLost, Alive, InSight

\* What the lobby tells clients of is on its way.
LEMMA ToldIsOnItsWay ==
    ASSUME TypeInv, NEW P, IsABag(P), Tell(P)
    PROVE  /\ BagToSet(replies) \subseteq BagToSet(replies')
           /\ \A c \in Clients : \A id \in told'[c] : id \in told[c] \/ OnItsWay(c, id)'
<1>1. BagToSet(replies') = BagToSet(replies) \cup BagToSet(P)
  BY TellAdds
<1>2. ASSUME NEW c \in Clients, NEW id \in told'[c], id \notin told[c]
      PROVE  OnItsWay(c, id)'
  <2>1. told'[c] = told[c] \cup {m.id : m \in {n \in BagToSet(P) :
                                                  n.kind = "NEW_PLAYER" /\ n.to = c}}
    BY DEF Tell
  <2>2. PICK m \in BagToSet(P) : m.kind = "NEW_PLAYER" /\ m.to = c /\ m.id = id
    BY <1>2, <2>1
  <2> QED
    BY <1>1, <2>2, Zenon DEF OnItsWay
<1> QED
  BY <1>1, <1>2

\* A packet that says nothing of a death is taken.
LEMMA ReportsStay ==
    ASSUME TypeInv, NEW m, m.kind # "PLAYER_DEATH", requests' = requests (-) SetToBag({m})
    PROVE  \A n \in BagToSet(requests) : n.kind = "PLAYER_DEATH" => n \in BagToSet(requests')
  BY BagRest DEF TypeInv, RequestsOK

\* Handlers that tell at most a bag of packets, and take no report.
LEMMA OthersKeepSight ==
    ASSUME TypeInv, NoPlayerLost, UNCHANGED <<scene, copies>>, revived \subseteq revived',
           UNCHANGED <<replies, told>> \/ \E P : IsABag(P) /\ Tell(P),
           \/ UNCHANGED requests
           \/ \E m : m.kind # "PLAYER_DEATH" /\ requests' = requests (-) SetToBag({m}),
           \A id \in Given : id \notin revived' /\ Sole(id)' /\ Alive(id)' => Sole(id) /\ Alive(id)
    PROVE  NoPlayerLost'
<1>1. /\ BagToSet(replies) \subseteq BagToSet(replies')
      /\ \A c \in Clients : \A id \in told'[c] : id \in told[c] \/ OnItsWay(c, id)'
  <2>1. CASE UNCHANGED <<replies, told>>
    BY <2>1
  <2> QED
    BY <2>1, ToldIsOnItsWay
<1>2. \A n \in BagToSet(requests) : n.kind = "PLAYER_DEATH" => n \in BagToSet(requests')
  BY ReportsStay
<1>3. \A c \in Clients : \A id \in Given : OnItsWay(c, id) => OnItsWay(c, id)'
  BY <1>1, <1>2, WayKept
<1> QED
  BY <1>1, <1>3, LobbyKeepsSight

\* Who lives is an entity of that id with a health.
LEMMA AliveBefore ==
    ASSUME NEW id, Alive(id)',
           \A j \in DOMAIN players' : players'[j].id = id /\ players'[j].hp > 0 =>
               \E i \in DOMAIN players : players[i].id = id /\ players[i].hp > 0
    PROVE  Alive(id)
<1>1. \E j \in DOMAIN players' : players'[j].id = id /\ players'[j].hp > 0
  BY DEF Alive, WithId
<1> QED
  BY <1>1 DEF Alive, WithId

\* A session that begins: an id that is sole and was told before is not the new one.
LEMMA HandleInitKeepsSight ==
    ASSUME TypeInv, NoPlayerLost, NEW m \in BagToSet(requests), HandleInitMsg(m)
    PROVE  NoPlayerLost'
<1>1. /\ requests' = requests (-) SetToBag({m}) /\ m.kind # "PLAYER_DEATH"
      /\ UNCHANGED <<scene, copies, revived>>
      /\ m.from \in Clients /\ SessionsOK /\ MembersOK /\ PlayersOK
  BY InitTaken DEF TypeInv
<1>2. CASE UNCHANGED <<players, replies, sessions, told>>
  <2>1. \A id : Sole(id)' /\ Alive(id)' => Sole(id) /\ Alive(id)
    BY <1>2, SoleStays, AliveBefore
  <2> QED
    BY <1>1, <1>2, <2>1, OthersKeepSight
<1>3. ASSUME Begins(m.from),
             players' = Append(players, [id |-> AssignedId, hp |-> MaxLife]),
             Tell(NewPlayers(m.from, AssignedId))
      PROVE  NoPlayerLost'
  <2> DEFINE n == Len(players) + 1
  <2>1. IsABag(NewPlayers(m.from, AssignedId))
    BY <1>1, WhoIsNew
  <2>2. /\ DOMAIN players' = DOMAIN players \cup {n}
        /\ players'[n].id = AssignedId
        /\ \A i \in DOMAIN players : players'[i] = players[i]
    BY <1>1, <1>3, PlayerAdded
  <2> HIDE DEF n
  <2>3. ASSUME NEW id \in Given, Sole(id)', Alive(id)'
        PROVE  Sole(id) /\ Alive(id)
    <3>1. id # AssignedId /\ Sole(id)
      BY <1>1, <1>3, <2>3, SoleBefore
    <3>2. Alive(id)
      BY <2>2, <2>3, <3>1, AliveBefore
    <3> QED
      BY <3>1, <3>2
  <2> QED
    BY <1>1, <1>3, <2>1, <2>3, OthersKeepSight
<1> QED
  BY <1>2, <1>3, InitTaken

\* A hit, a health that arrives: nobody comes back but those who are noted.
LEMMA HitsKeepSight ==
    ASSUME TypeInv, NoPlayerLost,
           \/ \E m \in BagToSet(requests) : HandleLifeUpdateMsg(m)
           \/ \E i \in DOMAIN players : ServerDamage(i)
    PROVE  NoPlayerLost'
<1>1. /\ UNCHANGED <<sessions, scene, copies>> /\ revived \subseteq revived'
      /\ DOMAIN players' = DOMAIN players
      /\ \A i \in DOMAIN players : players'[i].id = players[i].id
      /\ \A i \in DOMAIN players : players'[i].hp > 0 =>
             players[i].hp > 0 \/ players[i].id \in revived'
  BY LobbyHits
<1>2. \A id : id \notin revived' /\ Sole(id)' /\ Alive(id)' => Sole(id) /\ Alive(id)
  <2> SUFFICES ASSUME NEW id, id \notin revived', Sole(id)', Alive(id)'
               PROVE  Sole(id) /\ Alive(id)
    OBVIOUS
  <2>1. Sole(id)
    BY <1>1, SoleStays
  <2>2. Alive(id)
    BY <1>1, AliveBefore
  <2> QED
    BY <2>1, <2>2
<1>3. ASSUME NEW m \in BagToSet(requests), HandleLifeUpdateMsg(m)
      PROVE  NoPlayerLost'
  <2>1. m.kind # "PLAYER_DEATH" /\ requests' = requests (-) SetToBag({m})
    BY <1>3 DEF HandleLifeUpdateMsg, Handle
  <2>2. UNCHANGED <<replies, told>> \/ \E P : IsABag(P) /\ Tell(P)
    BY <1>3, LifeWritten, SetToBagProperties
  <2> QED
    BY <1>1, <1>2, <2>1, <2>2, OthersKeepSight
<1>4. ASSUME NEW i \in DOMAIN players, ServerDamage(i)
      PROVE  NoPlayerLost'
  <2>1. UNCHANGED <<replies, told, requests>>
    BY <1>4 DEF ServerDamage, history
  <2> QED
    BY <1>1, <1>2, <2>1, OthersKeepSight
<1> QED
  BY <1>3, <1>4

LEMMA ServerDiesKeepsSight ==
    ASSUME TypeInv, NoPlayerLost, NEW i \in DOMAIN players, ServerDies(i)
    PROVE  NoPlayerLost'
<1>1. /\ players' = Without(players, i) /\ players \in Seq(PlayersOf(Given))
      /\ UNCHANGED <<sessions, scene, copies, revived, requests>>
      /\ Tell(SetToBag({PlayerDeath(c, players[i].id) : c \in Members}))
  BY DEF ServerDies, clientVars, TypeInv, PlayersOK
<1>2. \A j \in DOMAIN players' : \E k \in DOMAIN players : players'[j] = players[k]
  BY <1>1, WithoutElements
<1>3. \A id : Sole(id)' /\ Alive(id)' => Sole(id) /\ Alive(id)
  <2> SUFFICES ASSUME NEW id, Sole(id)', Alive(id)'
               PROVE  Sole(id) /\ Alive(id)
    OBVIOUS
  <2>1. Sole(id)
    BY <1>1, SoleStays
  <2>2. Alive(id)
    BY <1>2, AliveBefore
  <2> QED
    BY <2>1, <2>2
<1> QED
  BY <1>1, <1>3, SetToBagProperties, OthersKeepSight

\* Members come and go, the game starts, the lobby stops.
LEMMA QuietKeepsSight ==
    ASSUME TypeInv, NoPlayerLost,
           \/ \E m \in BagToSet(requests) : HandleDisconnectMsg(m) \/ HandleDisconnectStranger(m)
           \/ HandleLastReadyMsg
           \/ MainThreadStops
    PROVE  NoPlayerLost'
<1>1. UNCHANGED <<players, sessions, scene, copies, revived>>
  BY LobbyLeavesPlayers
<1>2. \A id : Sole(id)' /\ Alive(id)' => Sole(id) /\ Alive(id)
  BY <1>1, SoleStays, AliveBefore
<1>3. UNCHANGED <<replies, told>> \/ \E P : IsABag(P) /\ Tell(P)
  <2>1. ASSUME NEW m \in BagToSet(requests), HandleDisconnectMsg(m)
        PROVE  \E P : IsABag(P) /\ Tell(P)
    BY <2>1, SetToBagProperties DEF HandleDisconnectMsg
  <2> QED
    BY <2>1 DEF HandleDisconnectStranger, HandleLastReadyMsg, MainThreadStops, history
<1>4. \/ UNCHANGED requests
      \/ \E m : m.kind # "PLAYER_DEATH" /\ requests' = requests (-) SetToBag({m})
  BY DEF HandleDisconnectMsg, HandleDisconnectStranger, Handle, HandleLastReadyMsg,
     MainThreadStops
<1> QED
  BY <1>1, <1>2, <1>3, <1>4, OthersKeepSight

\* A report: who lives here and is the only one of the id is created anew.
LEMMA DeathAnswerKeepsSight ==
    ASSUME TypeInv, SoleIsAlone, NoPlayerLost,
           NEW m \in BagToSet(requests), ReceivePlayerDeathMsg(m)
    PROVE  NoPlayerLost'
<1>1. /\ UNCHANGED <<players, sessions, playersIds, scene, copies, revived>>
      /\ requests' = requests (-) SetToBag({m}) /\ m.kind = "PLAYER_DEATH"
      /\ IsABag(requests)
  BY DeathAnswered DEF TypeInv, RequestsOK
<1>2. \E P : IsABag(P) /\ Tell(P)
  <2>1. IsABag(EmptyBag)
    BY SetToBagProperties DEF EmptyBag
  <2> QED
    BY <2>1, DeathAnswered, SetToBagProperties
<1>3. /\ BagToSet(replies) \subseteq BagToSet(replies')
      /\ \A c \in Clients : \A id \in told'[c] : id \in told[c] \/ OnItsWay(c, id)'
  BY <1>2, ToldIsOnItsWay
<1>4. \A id : Sole(id)' /\ Alive(id)' => Sole(id) /\ Alive(id)
  BY <1>1, SoleStays, AliveBefore
<1>5. ASSUME NEW c \in Clients, NEW id \in Given, Sole(id), Alive(id), OnItsWay(c, id)
      PROVE  OnItsWay(c, id)'
  <2>1. CASE m = DeathMsg(c, id)
    <3>1. m.from = c /\ m.id = id
      BY <2>1 DEF DeathMsg
    <3>2. PICK i \in WithId(players, id) : players[i].hp > 0
      BY <1>5 DEF Alive
    <3>3. First(players, id) = players[i]
      <4>1. PICK j \in WithId(players, id) : First(players, id) = players[j]
        BY <3>2, FirstIsOne DEF TypeInv
      <4>2. j = i
        BY <1>5, <3>2, <4>1 DEF SoleIsAlone, WithId
      <4> QED
        BY <4>1, <4>2
    <3>4. WithId(players, id) # {} /\ First(players, id).hp # 0
      BY <3>2, <3>3
    <3> DEFINE hp == First(players, m.id).hp
               n == NewPlayer(m.from, m.id, hp, playersIds[m.from] # m.id)
    <3>5. n.kind = "NEW_PLAYER" /\ n.to = m.from /\ n.id = m.id
      BY DEF NewPlayer
    <3>6. Tell(SetToBag({n}))
      BY <3>1, <3>4, DeathAnswered
    <3> HIDE DEF n
    <3>7. n \in BagToSet(replies')
      BY <3>6, OneAdds
    <3> QED
      BY <3>1, <3>5, <3>7, Zenon DEF OnItsWay
  <2>2. CASE m # DeathMsg(c, id)
    <3>1. CASE \E n \in BagToSet(replies) : n.kind = "NEW_PLAYER" /\ n.to = c /\ n.id = id
      BY <1>3, <3>1, Zenon DEF OnItsWay
    <3>2. CASE DeathMsg(c, id) \in BagToSet(requests)
      <4>1. DeathMsg(c, id) \in BagToSet(requests')
        BY <1>1, <2>2, <3>2, BagRest
      <4>2. DeathMsg(c, id)' = DeathMsg(c, id)
        BY DEF DeathMsg
      <4> QED
        BY <4>1, <4>2 DEF OnItsWay
    <3> QED
      BY <1>5, <3>1, <3>2 DEF OnItsWay
  <2> QED
    BY <2>1, <2>2
<1> QED
  BY <1>1, <1>3, <1>4, <1>5, LobbyKeepsSight

LEMMA LobbyLosesNobody ==
    ASSUME TypeInv, SoleIsAlone, NoPlayerLost, LobbyStep
    PROVE  NoPlayerLost'
  BY HandleInitKeepsSight, HitsKeepSight, ServerDiesKeepsSight, QuietKeepsSight,
     DeathAnswerKeepsSight DEF LobbyStep

\* A step of the clients: a client that stays in its game sees whom it saw.
LEMMA ClientsKeepSight ==
    ASSUME NoPlayerLost, UNCHANGED <<players, sessions, revived, scene, told>>,
           \A c \in Clients : \A id : InSight(c, id) => InSight(c, id)'
    PROVE  NoPlayerLost'
<1>1. \A id : Sole(id)' /\ Alive(id)' => Sole(id) /\ Alive(id)
  BY SoleStays, AliveBefore
<1>2. ASSUME NEW c \in Clients, scene'[c] = "game", NEW id \in told'[c],
             id \notin revived', Sole(id)', Alive(id)'
      PROVE  InSight(c, id)'
  <2>1. InSight(c, id)
    BY <1>1, <1>2, LostMeans
  <2> QED
    BY <2>1
<1> QED
  BY <1>2, Zenon DEF NoPlayerLost, Alive, InSight

\* A copy of a client that lives is one after the step.
LiveCopiesKept(c) ==
    \A i \in DOMAIN copies[c] : ~ copies[c][i].removed =>
        \E j \in DOMAIN copies'[c] : /\ copies'[c][j].id = copies[c][i].id
                                     /\ ~ copies'[c][j].removed

LEMMA LiveCopiesSeen ==
    ASSUME NEW c, LiveCopiesKept(c), NEW id, OnItsWay(c, id) => OnItsWay(c, id)'
    PROVE  InSight(c, id) => InSight(c, id)'
<1>1. \A i \in DOMAIN copies[c] : copies[c][i].id = id /\ ~ copies[c][i].removed =>
          \E j \in DOMAIN copies'[c] : copies'[c][j].id = id /\ ~ copies'[c][j].removed
  BY DEF LiveCopiesKept
<1> QED
  BY <1>1, SightKept

\* The entities of the id that are removed for the new one are of that id.
LEMMA FoundIsOfThatId ==
    ASSUME NEW c, NEW S, copies[c] \in Seq(S), NEW id, NEW i \in Found(c, id)
    PROVE  i \in DOMAIN copies[c] /\ copies[c][i].id = id
<1> DEFINE W == WithId(copies[c], id)
           own == {j \in W : copies[c][j].own}
<1>1. /\ W \subseteq DOMAIN copies[c] /\ W \subseteq Nat
      /\ \A j \in W : copies[c][j].id = id
  BY DEF WithId
<1>2. Found(c, id) = IF own # {} THEN {Min(own)} ELSE IF W # {} THEN {Min(W)} ELSE {}
  BY DEF Found
<1>3. own \subseteq W
  OBVIOUS
<1> HIDE DEF W, own
<1>4. (own # {} => Min(own) \in own) /\ (W # {} => Min(W) \in W)
  <2>1. own \subseteq Nat
    BY <1>1, <1>3
  <2> QED
    BY <1>1, <2>1, MinIsMember
<1>5. i \in W
  BY <1>2, <1>3, <1>4
<1> QED
  BY <1>1, <1>5

\* The report of a death is kept while a client receives.
LEMMA ReceiptKeepsWay ==
    ASSUME TypeInv, NEW m, replies' = replies (-) SetToBag({m}), UNCHANGED requests,
           NEW c, NEW id, OnItsWay(c, id),
           ~ (m.kind = "NEW_PLAYER" /\ m.to = c /\ m.id = id)
    PROVE  OnItsWay(c, id)'
<1>1. BagToSet(replies) \ {m} \subseteq BagToSet(replies')
  BY BagRest DEF TypeInv, RepliesOK
<1>2. CASE \E n \in BagToSet(replies) : n.kind = "NEW_PLAYER" /\ n.to = c /\ n.id = id
  <2>1. PICK n \in BagToSet(replies) : n.kind = "NEW_PLAYER" /\ n.to = c /\ n.id = id
    BY <1>2
  <2>2. n \in BagToSet(replies')
    BY <1>1, <2>1
  <2> QED
    BY <2>1, <2>2, Zenon DEF OnItsWay
<1>3. CASE DeathMsg(c, id) \in BagToSet(requests)
  <2>1. DeathMsg(c, id)' = DeathMsg(c, id)
    BY DEF DeathMsg
  <2> QED
    BY <1>3, <2>1 DEF OnItsWay
<1> QED
  BY <1>2, <1>3 DEF OnItsWay

LEMMA ReceiveNewPlayerKeepsSight ==
    ASSUME TypeInv, NoPlayerLost, NEW m \in BagToSet(replies), ReceiveNewPlayer(m)
    PROVE  NoPlayerLost'
<1> DEFINE c == m.to
<1>1. /\ UNCHANGED <<players, sessions, revived, scene, told, requests>>
      /\ replies' = replies (-) SetToBag({m})
  BY DEF ReceiveNewPlayer, Receive, serverVars, history
<1>2. /\ c \in Clients
      /\ \A d \in Clients \ {c} : copies'[d] = copies[d]
      /\ \A i \in DOMAIN copies[c] :
            /\ copies'[c][i].id = copies[c][i].id
            /\ i \notin Found(c, m.id) /\ ~ copies[c][i].removed => ~ copies'[c][i].removed
  BY NewPlayerCopies
<1>3. PICK n \in DOMAIN copies'[c] : /\ DOMAIN copies'[c] = DOMAIN copies[c] \cup {n}
                                     /\ copies'[c][n].id = m.id
                                     /\ ~ copies'[c][n].removed
  BY NewPlayerCopies
<1>4. \A i \in Found(c, m.id) : copies[c][i].id = m.id
  BY <1>2, FoundIsOfThatId DEF TypeInv, CopiesOK
<1> HIDE DEF c
<1>5. LiveCopiesKept(c)
  <2> SUFFICES ASSUME NEW i \in DOMAIN copies[c], ~ copies[c][i].removed
               PROVE  \E j \in DOMAIN copies'[c] : /\ copies'[c][j].id = copies[c][i].id
                                                   /\ ~ copies'[c][j].removed
    BY DEF LiveCopiesKept
  <2>1. CASE i \in Found(c, m.id)
    BY <1>3, <1>4, <2>1
  <2>2. CASE i \notin Found(c, m.id)
    BY <1>2, <1>3, <2>2
  <2> QED
    BY <2>1, <2>2
<1>6. \A d \in Clients \ {c} : LiveCopiesKept(d)
  BY <1>2 DEF LiveCopiesKept
<1>7. ASSUME NEW d \in Clients, NEW id, InSight(d, id)
      PROVE  InSight(d, id)'
  <2>1. CASE d = c /\ id = m.id
    <3>1. n \in LivesAt(d, id)'
      BY <1>3, <2>1 DEF LivesAt, WithId
    <3> QED
      BY <3>1 DEF InSight
  <2>2. CASE ~ (d = c /\ id = m.id)
    <3>1. OnItsWay(d, id) => OnItsWay(d, id)'
      BY <1>1, <2>2, ReceiptKeepsWay DEF c
    <3> QED
      BY <1>5, <1>6, <1>7, <3>1, LiveCopiesSeen
  <2> QED
    BY <2>1, <2>2
<1> QED
  BY <1>1, <1>7, ClientsKeepSight

LEMMA AlikeCopiesKept ==
    ASSUME NEW c, Alike(copies[c], copies'[c])
    PROVE  LiveCopiesKept(c)
  BY DEF Alike, LiveCopiesKept

LEMMA ReceiveOtherKeepsSight ==
    ASSUME TypeInv, NoPlayerLost, NEW m \in BagToSet(replies),
           ReceivePlayerDeath(m) \/ ReceiveLifeUpdate(m)
    PROVE  NoPlayerLost'
<1>1. /\ UNCHANGED <<players, sessions, revived, scene, told, requests>>
      /\ replies' = replies (-) SetToBag({m}) /\ m.kind # "NEW_PLAYER"
  BY DEF ReceivePlayerDeath, ReceiveLifeUpdate, Receive, serverVars, history
<1>2. \A d \in Clients : LiveCopiesKept(d)
  BY PlayerDeathAlike, LifeUpdateAlike, AlikeCopiesKept
<1>3. \A d \in Clients : \A id : InSight(d, id) => InSight(d, id)'
  BY <1>1, <1>2, ReceiptKeepsWay, LiveCopiesSeen
<1> QED
  BY <1>1, <1>3, ClientsKeepSight

\* Of the copies of a client, one dies and is reported, or the others stay.
LEMMA SimulationKeepsSight ==
    ASSUME TypeInv, NoPlayerLost, NEW c \in Clients,
           RemoveEntities(c) \/ \E i \in DOMAIN copies[c] : ClientDamage(c, i) \/ ClientDies(c, i)
    PROVE  NoPlayerLost'
<1>1. UNCHANGED <<players, sessions, revived, scene, told, replies>>
  BY DEF RemoveEntities, ClientDamage, ClientDies, serverVars, history
<1>2. copies[c] \in Seq(CopiesOf(Given))
  BY DEF TypeInv, CopiesOK
<1>3. CASE RemoveEntities(c)
  <2>1. copies'[c] = Kept(copies[c]) /\ \A d \in Clients \ {c} : copies'[d] = copies[d]
    BY <1>3, RemoveEntitiesCopies
  <2>2. UNCHANGED requests
    BY <1>3 DEF RemoveEntities
  <2>3. LiveCopiesKept(c)
    <3> SUFFICES ASSUME NEW i \in DOMAIN copies[c], ~ copies[c][i].removed
                 PROVE  \E j \in DOMAIN copies'[c] : /\ copies'[c][j].id = copies[c][i].id
                                                     /\ ~ copies'[c][j].removed
      BY DEF LiveCopiesKept
    <3>1. PICK j \in DOMAIN copies'[c] : copies'[c][j] = copies[c][i]
      BY <1>2, <2>1, KeptProperties DEF Stay
    <3> QED
      BY <3>1
  <2>4. \A d \in Clients : LiveCopiesKept(d)
    BY <2>1, <2>3 DEF LiveCopiesKept
  <2>5. \A d \in Clients : \A id : InSight(d, id) => InSight(d, id)'
    BY <1>1, <2>2, <2>4, WayKept, LiveCopiesSeen
  <2> QED
    BY <1>1, <2>5, ClientsKeepSight
<1>4. ASSUME NEW i \in DOMAIN copies[c], ClientDamage(c, i)
      PROVE  NoPlayerLost'
  <2>1. BagToSet(requests) \subseteq BagToSet(requests') /\ \A d \in Clients : LiveCopiesKept(d)
    BY <1>4, ClientDamageAlike, AlikeCopiesKept
  <2>2. \A d \in Clients : \A id : InSight(d, id) => InSight(d, id)'
    BY <1>1, <2>1, WayKept, LiveCopiesSeen
  <2> QED
    BY <1>1, <2>2, ClientsKeepSight
<1>5. ASSUME NEW i \in DOMAIN copies[c], ClientDies(c, i)
      PROVE  NoPlayerLost'
  <2>1. /\ BagToSet(requests') = BagToSet(requests) \cup {DeathMsg(c, copies[c][i].id)}
        /\ copies'[c] = Without(copies[c], i)
        /\ \A d \in Clients \ {c} : copies'[d] = copies[d]
    BY <1>5, ClientDiesCopies
  <2>2. ASSUME NEW d \in Clients, NEW id, InSight(d, id)
        PROVE  InSight(d, id)'
    <3>1. OnItsWay(d, id) => OnItsWay(d, id)'
      BY <1>1, <2>1, WayKept
    <3>2. CASE d = c /\ id = copies[c][i].id
      <4>1. DeathMsg(d, id)' \in BagToSet(requests')
        BY <2>1, <3>2 DEF DeathMsg
      <4> QED
        BY <4>1 DEF InSight, OnItsWay
    <3>3. CASE d = c /\ id # copies[c][i].id
      <4>1. ASSUME NEW k \in DOMAIN copies[c], copies[c][k].id = id, ~ copies[c][k].removed
            PROVE  \E j \in DOMAIN copies'[c] : copies'[c][j].id = id /\ ~ copies'[c][j].removed
        <5>1. k \in DOMAIN copies[c] \ {i}
          BY <3>3, <4>1
        <5>2. PICK j \in DOMAIN copies'[c] : copies'[c][j] = copies[c][k]
          BY <1>2, <2>1, <5>1, WithoutElements
        <5> QED
          BY <4>1, <5>2
      <4> QED
        BY <2>2, <3>1, <3>3, <4>1, SightKept
    <3>4. CASE d # c
      <4>1. LiveCopiesKept(d)
        BY <2>1, <3>4 DEF LiveCopiesKept
      <4> QED
        BY <2>2, <3>1, <4>1, LiveCopiesSeen
    <3> QED
      BY <3>2, <3>3, <3>4
  <2> QED
    BY <1>1, <2>2, ClientsKeepSight
<1> QED
  BY <1>3, <1>4, <1>5

\* A client that enters or leaves the game was told of nobody in it.
LEMMA EnterSceneKeepsSight ==
    ASSUME TypeInv, NoPlayerLost, NEW c \in Clients, EnterGame(c) \/ LeaveGame(c)
    PROVE  NoPlayerLost'
<1>1. /\ UNCHANGED <<players, sessions, revived, replies>>
      /\ \E s : scene' = [scene EXCEPT ![c] = s]
      /\ copies' = [copies EXCEPT ![c] = <<>>]
      /\ told' = [told EXCEPT ![c] = {}]
      /\ \E m : requests' = requests (+) SetToBag({m})
  BY DEF EnterGame, LeaveGame, EnterScene, serverVars
<1>2. /\ told'[c] = {}
      /\ \A d \in Clients \ {c} : /\ scene'[d] = scene[d]
                                  /\ copies'[d] = copies[d]
                                  /\ told'[d] = told[d]
  BY <1>1 DEF TypeInv, RestOK, CopiesOK, ToldOK
<1>3. BagToSet(requests) \subseteq BagToSet(requests')
  BY <1>1, BagSum, SetToBagProperties DEF TypeInv, RequestsOK
<1>4. ASSUME NEW d \in Clients, scene'[d] = "game", NEW id \in told'[d],
             id \notin revived', Sole(id)', Alive(id)'
      PROVE  InSight(d, id)'
  <2>1. d # c /\ scene[d] = "game" /\ id \in told[d] /\ id \notin revived
    BY <1>1, <1>2, <1>4
  <2>2. Sole(id) /\ Alive(id)
    BY <1>1, <1>4, SoleStays, AliveBefore
  <2>3. InSight(d, id)
    BY <2>1, <2>2, LostMeans
  <2>4. OnItsWay(d, id) => OnItsWay(d, id)'
    BY <1>1, <1>3, WayKept
  <2>5. LiveCopiesKept(d)
    BY <1>2, <2>1 DEF LiveCopiesKept
  <2> QED
    BY <2>3, <2>4, <2>5, LiveCopiesSeen
<1> QED
  BY <1>4, Zenon DEF NoPlayerLost, Alive, InSight

LEMMA LostStep ==
    ASSUME TypeInv, SoleIsAlone, NoPlayerLost, [Next]_vars
    PROVE  NoPlayerLost'
<1>1. CASE UNCHANGED vars
  <2>1. UNCHANGED <<players, sessions, revived, scene, told, copies, replies, requests>>
    BY <1>1 DEF vars, serverVars, clientVars, history
  <2>2. \A c \in Clients : \A id : InSight(c, id) => InSight(c, id)'
    BY <2>1, WayKept, SightKept
  <2> QED
    BY <2>1, <2>2, ClientsKeepSight
<1>2. CASE ClientStep
  BY <1>2, ReceiveNewPlayerKeepsSight, ReceiveOtherKeepsSight, SimulationKeepsSight,
     EnterSceneKeepsSight DEF ClientStep
<1> QED
  BY <1>1, <1>2, LobbyLosesNobody DEF Next

-----------------------------------------------------------------------------
(* The theorems *)

KnownInv == TypeInv /\ SoleIsAlone /\ OwnInv /\ NoPlayerLost

LEMMA AlwaysKnown == Spec => []KnownInv
<1>1. Init => KnownInv
  BY InitTypeInv, InitAlone, InitOwn, InitNotLost DEF KnownInv
<1>2. KnownInv /\ [Next]_vars => KnownInv'
  BY TypeStep, AloneStep, OwnStep, LostStep DEF KnownInv
<1> QED
  BY <1>1, <1>2, PTL DEF Spec

\* The state is of its types: bags whose packets are of clients, ids below the
\* number of places, bounded histories (TypeOK).
THEOREM TypeCorrect == Spec => []TypeOK
<1>1. KnownInv => TypeOK
  BY TypeInvTypes DEF KnownInv
<1> QED
  BY <1>1, AlwaysKnown, PTL

\* A client in its first game whose id is its alone holds as its own exactly the
\* entities of that id, whatever NEW_PLAYER packets crossed (createNewPlayer,
\* receivePlayerDeathMsg, sendAlliesAlreadyPresent).
THEOREM OwnPlayerStays == Spec => []OwnStaysOwn
<1>1. KnownInv => OwnStaysOwn
  BY OwnInvMeans DEF KnownInv
<1> QED
  BY <1>1, AlwaysKnown, PTL

\* A player that lives in the lobby, with an id of its own and a health that no late
\* update brought back, is held by every client in the game that was told of it, or
\* the report of its death there, or the NEW_PLAYER that answers it, is under way.
THEOREM NobodyIsLost == Spec => []NoPlayerLost
<1>1. KnownInv => NoPlayerLost
  BY DEF KnownInv
<1> QED
  BY <1>1, AlwaysKnown, PTL
==============================================================================
