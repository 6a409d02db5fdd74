---------------------------- MODULE LobbyProofs ----------------------------
(***************************************************************************)
(* Proofs about the membership of a lobby, for any set of clients, any     *)
(* number of places and any bound on what a client sends.                  *)
(***************************************************************************)
EXTENDS Lobby, SequenceTheorems, FiniteSetTheorems, TLAPS

-----------------------------------------------------------------------------
(* The list of the members *)

\* Erase shortens a list by one and moves the elements behind the erased one.
LEMMA EraseProperties ==
    ASSUME NEW S, NEW s \in Seq(S), NEW i \in DOMAIN s
    PROVE  /\ Erase(s, i) \in Seq(S)
           /\ Len(Erase(s, i)) = Len(s) - 1
           /\ DOMAIN Erase(s, i) = 1 .. Len(s) - 1
           /\ \A j \in DOMAIN Erase(s, i) :
                  Erase(s, i)[j] = IF j < i THEN s[j] ELSE s[j + 1]
<1>1. Len(s) - 1 \in Nat
  OBVIOUS
<1>2. \A j \in 1 .. Len(s) - 1 : (IF j < i THEN s[j] ELSE s[j + 1]) \in S
  OBVIOUS
<1>3. Erase(s, i) \in [1 .. Len(s) - 1 -> S]
  BY <1>2 DEF Erase
<1>4. Erase(s, i) \in Seq(S)
  BY <1>1, <1>3, SeqDef
<1>5. Len(Erase(s, i)) = Len(s) - 1
  BY <1>1, <1>3, <1>4, LenProperties
<1> QED
  BY <1>3, <1>4, <1>5 DEF Erase

\* Erasing the only occurrence of an element removes it, and nothing else, and
\* leaves a list without duplicates.
LEMMA EraseDistinct ==
    ASSUME NEW S, NEW s \in Seq(S), NEW i \in DOMAIN s,
           \A j, k \in DOMAIN s : s[j] = s[k] => j = k
    PROVE  LET e == Erase(s, i) IN
           /\ {e[j] : j \in DOMAIN e} = {s[j] : j \in DOMAIN s} \ {s[i]}
           /\ \A j, k \in DOMAIN e : e[j] = e[k] => j = k
<1> DEFINE e == Erase(s, i)
<1>1. /\ DOMAIN e = 1 .. Len(s) - 1
      /\ \A j \in DOMAIN e : e[j] = IF j < i THEN s[j] ELSE s[j + 1]
  BY EraseProperties
<1>2. DOMAIN s = 1 .. Len(s) /\ Len(s) \in Nat /\ i \in 1 .. Len(s)
  OBVIOUS
<1> HIDE DEF e
<1>3. \A j, k \in DOMAIN e : e[j] = e[k] => j = k
  <2> SUFFICES ASSUME NEW j \in DOMAIN e, NEW k \in DOMAIN e, e[j] = e[k]
               PROVE  j = k
    OBVIOUS
  <2> DEFINE at(x) == IF x < i THEN x ELSE x + 1
  <2>1. at(j) \in DOMAIN s /\ at(k) \in DOMAIN s /\ e[j] = s[at(j)] /\ e[k] = s[at(k)]
    BY <1>1, <1>2
  <2>2. at(j) = at(k)
    BY <2>1
  <2> QED
    BY <2>2, <1>1, <1>2
<1>4. ASSUME NEW j \in DOMAIN e
      PROVE  \E k \in DOMAIN s : k # i /\ s[k] = e[j]
  BY <1>1, <1>2
<1>5. ASSUME NEW k \in DOMAIN s, k # i
      PROVE  \E j \in DOMAIN e : e[j] = s[k]
  <2>1. CASE k < i
    BY <2>1, <1>1, <1>2
  <2>2. CASE k > i
    <3>1. k - 1 \in DOMAIN e /\ e[k - 1] = s[k]
      BY <2>2, <1>1, <1>2
    <3> QED
      BY <3>1
  <2> QED
    BY <1>2, <1>5, <2>1, <2>2
<1>6. {e[j] : j \in DOMAIN e} = {s[j] : j \in DOMAIN s} \ {s[i]}
  BY <1>4, <1>5
<1> QED
  BY <1>3, <1>6 DEF e

\* A list without duplicates is as long as the set of its elements is large.
LEMMA MembersCardinality ==
    ASSUME endpoints \in Seq(Clients), MembersDistinct
    PROVE  IsFiniteSet(Members) /\ Cardinality(Members) = Len(endpoints)
<1> DEFINE I == 1 .. Len(endpoints)
<1>0. Len(endpoints) \in Nat
  BY LenProperties
<1>1. IsFiniteSet(I) /\ Cardinality(I) = Len(endpoints)
  BY <1>0, FS_Interval, 1 \in Int, Len(endpoints) \in Int
<1>2. endpoints \in Bijection(I, Members)
  BY DEF Bijection, Injection, IsInjective, Surjection, Members, MembersDistinct
<1> QED
  BY <1>1, <1>2, FS_Bijection DEF ExistsBijection

-----------------------------------------------------------------------------
(* The invariant *)

\* What a step needs to know of the state before it: the list has no
\* duplicates, so erasing a member removes him, so the ready stay members.
IInv ==
    /\ TypeOK
    /\ MembersDistinct
    /\ NeverOverfull
    /\ ReadyAreMembers
    /\ EmptiedIsReplaced

\* An empty lobby satisfies the invariant.
LEMMA InitIInv == Init => IInv
<1> SUFFICES ASSUME Init PROVE IInv
  OBVIOUS
<1> USE LobbyAssumption DEF LobbyAssumption, Init
<1>1. TypeOK
  <2>1. endpoints \in Seq(Clients)
    BY EmptySeq
  <2>2. 0 \in 0 .. MaxSent
    OBVIOUS
  <2> QED
    BY <2>1, <2>2 DEF TypeOK, Statuses, Scenes
<1>2. MembersDistinct /\ ReadyAreMembers /\ EmptiedIsReplaced
  BY DEF MembersDistinct, ReadyAreMembers, EmptiedIsReplaced, Members
<1>3. NeverOverfull
  BY DEF NeverOverfull
<1> QED
  BY <1>1, <1>2, <1>3 DEF IInv

\* A client does nothing to the lobby.
LEMMA ClientKeepsIInv ==
    ASSUME IInv, NEW c \in Clients, Client(c)
    PROVE  IInv' /\ UNCHANGED serverVars
<1> USE LobbyAssumption DEF LobbyAssumption, IInv, TypeOK
<1>1. UNCHANGED serverVars
  BY DEF Client, ConnectLobbySelected, ReceiveConnectLobbyResp, SendInitPacket,
         SendReadyPacket, QuitGame, Crash, serverVars
<1>2. ASSUME NEW k \in Kinds, Send(c, k)
      PROVE  sent' \in 0 .. MaxSent /\ requests' \in SUBSET Request
  <2>1. sent \in 0 .. MaxSent /\ sent + 1 \in 0 .. MaxSent
    BY <1>2 DEF Send
  <2> QED
    BY <1>2, <2>1 DEF Send, Request
<1>3. TypeOK'
  <2>1. CASE ConnectLobbySelected(c)
    BY <1>1, <1>2, <2>1 DEF ConnectLobbySelected, Kinds, serverVars
  <2>2. CASE ReceiveConnectLobbyResp(c)
    BY <1>1, <2>2 DEF ReceiveConnectLobbyResp, serverVars, Response, Scenes
  <2>3. CASE SendInitPacket(c)
    BY <1>1, <1>2, <2>3 DEF SendInitPacket, Kinds, serverVars
  <2>4. CASE SendReadyPacket(c)
    BY <1>1, <1>2, <2>4 DEF SendReadyPacket, Kinds, serverVars
  <2>5. CASE QuitGame(c)
    BY <1>1, <1>2, <2>5 DEF QuitGame, Kinds, Scenes, serverVars
  <2>6. CASE Crash(c)
    BY <1>1, <2>6 DEF Crash, Scenes, serverVars
  <2> QED
    BY <2>1, <2>2, <2>3, <2>4, <2>5, <2>6 DEF Client
<1>4. (MembersDistinct /\ NeverOverfull /\ ReadyAreMembers /\ EmptiedIsReplaced)'
  BY <1>1 DEF serverVars, MembersDistinct, NeverOverfull, ReadyAreMembers,
              EmptiedIsReplaced, Members
<1> QED
  BY <1>1, <1>3, <1>4

\* The answer to CONNECT_LOBBY promises a place and gives none away.
LEMMA HandleConnectLobbyKeepsIInv ==
    ASSUME IInv, NEW r \in requests, HandleConnectLobbyMsg(r)
    PROVE  IInv'
<1> USE DEF IInv
<1>1. UNCHANGED <<serverVars, clientVars>> /\ requests' \subseteq requests
  BY DEF HandleConnectLobbyMsg, Handle
<1>2. r \in Request
  BY DEF TypeOK
<1>3. [to |-> r.from, nb |-> r.nb, isOk |-> Len(endpoints) < MaxPlayers] \in Response
  BY <1>2 DEF Request, Response
<1>4. responses' \subseteq Response
  BY <1>3 DEF HandleConnectLobbyMsg, TypeOK
<1>5. TypeOK'
  BY <1>1, <1>4 DEF TypeOK, serverVars, clientVars
<1>6. (MembersDistinct /\ NeverOverfull /\ ReadyAreMembers /\ EmptiedIsReplaced)'
  BY <1>1 DEF serverVars, MembersDistinct, NeverOverfull, ReadyAreMembers,
              EmptiedIsReplaced, Members
<1> QED
  BY <1>5, <1>6

\* INIT: the room and the list are looked at again by the handler that appends.
LEMMA HandleInitKeepsIInv ==
    ASSUME IInv, NEW r \in requests, HandleInitMsg(r)
    PROVE  IInv'
<1> USE LobbyAssumption DEF LobbyAssumption, IInv
<1>1. UNCHANGED <<playersReady, isGameStarted, status, recreated, clientVars, responses>>
  BY DEF HandleInitMsg
<1>2. requests' \subseteq requests /\ InputThreadRuns
  BY DEF HandleInitMsg, Handle
<1>3. r.from \in Clients
  BY DEF TypeOK, Request
<1>4. CASE ~MayInit(r.from)
  <2>1. UNCHANGED <<endpoints, playersIds>>
    BY <1>4 DEF HandleInitMsg
  <2>2. TypeOK'
    BY <1>1, <1>2, <2>1 DEF TypeOK, clientVars
  <2>3. (MembersDistinct /\ NeverOverfull /\ ReadyAreMembers /\ EmptiedIsReplaced)'
    BY <1>1, <2>1 DEF MembersDistinct, NeverOverfull, ReadyAreMembers,
                      EmptiedIsReplaced, Members
  <2> QED
    BY <2>2, <2>3
<1>5. CASE MayInit(r.from)
  <2>1. /\ endpoints' = Append(endpoints, r.from)
        /\ playersIds' = [playersIds EXCEPT ![r.from] = Len(endpoints)]
    BY <1>5 DEF HandleInitMsg, AssignedId
  <2>2. endpoints \in Seq(Clients) /\ Len(endpoints) \in 0 .. MaxPlayers - 1
    BY <1>5, LenProperties DEF MayInit, TypeOK
  <2>3. /\ endpoints' \in Seq(Clients)
        /\ Len(endpoints') = Len(endpoints) + 1
        /\ DOMAIN endpoints' = 1 .. Len(endpoints) + 1
        /\ \A i \in 1 .. Len(endpoints) : endpoints'[i] = endpoints[i]
        /\ endpoints'[Len(endpoints) + 1] = r.from
    BY <1>3, <2>1, <2>2, AppendProperties, LenProperties
  <2>4. DOMAIN endpoints = 1 .. Len(endpoints)
    BY <2>2
  <2>5. \A i \in DOMAIN endpoints : endpoints[i] # r.from
    BY <1>5 DEF MayInit, IsClientAlreadyConnected, Members
  <2>6. TypeOK'
    <3>1. playersIds' \in [Clients -> (0 .. MaxPlayers - 1) \cup {None}]
      BY <2>1, <2>2 DEF TypeOK
    <3> QED
      BY <1>1, <1>2, <2>3, <3>1 DEF TypeOK, clientVars
  <2>7. MembersDistinct'
    BY <2>2, <2>3, <2>4, <2>5 DEF MembersDistinct
  <2>8. NeverOverfull'
    BY <2>2, <2>3 DEF NeverOverfull
  <2>9. ReadyAreMembers'
    <3>1. Members \subseteq Members'
      BY <2>2, <2>3, <2>4 DEF Members
    <3> QED
      BY <1>1, <3>1 DEF ReadyAreMembers
  <2>10. EmptiedIsReplaced'
    <3>1. endpoints' # <<>>
      BY <2>2, <2>3
    <3> QED
      BY <3>1 DEF EmptiedIsReplaced
  <2> QED
    BY <2>6, <2>7, <2>8, <2>9, <2>10
<1> QED
  BY <1>4, <1>5

\* READY marks a member only.
LEMMA HandleReadyKeepsIInv ==
    ASSUME IInv, NEW r \in requests, HandleReadyMsg(r)
    PROVE  IInv'
<1> USE DEF IInv
<1>1. UNCHANGED <<endpoints, playersIds, status, recreated, clientVars, responses>>
  BY DEF HandleReadyMsg
<1>2. requests' \subseteq requests
  BY DEF HandleReadyMsg, Handle
<1>3. playersReady' \subseteq playersReady \cup Members
  BY DEF HandleReadyMsg, IsClientAlreadyConnected
<1>4. isGameStarted' \in BOOLEAN
  BY DEF HandleReadyMsg, TypeOK
<1>5. Members \subseteq Clients
  BY DEF Members, TypeOK
<1>6. TypeOK'
  BY <1>1, <1>2, <1>3, <1>4, <1>5 DEF TypeOK, clientVars
<1>7. ReadyAreMembers'
  BY <1>1, <1>3 DEF ReadyAreMembers, Members
<1>8. (MembersDistinct /\ NeverOverfull /\ EmptiedIsReplaced)'
  BY <1>1 DEF MembersDistinct, NeverOverfull, EmptiedIsReplaced
<1> QED
  BY <1>6, <1>7, <1>8

\* DISCONNECT_LOBBY of a member: it leaves the list once and for all.
LEMMA HandleDisconnectKeepsIInv ==
    ASSUME IInv, NEW r \in requests, HandleDisconnectMsg(r)
    PROVE  IInv'
<1> USE DEF IInv
<1>1. UNCHANGED <<playersIds, isGameStarted, clientVars>> /\ requests' \subseteq requests
  BY DEF HandleDisconnectMsg, Handle
<1>2. PICK i \in DOMAIN endpoints :
          endpoints[i] = r.from /\ endpoints' = Erase(endpoints, i)
  BY DEF HandleDisconnectMsg, HandleDisconnectMember
<1>3. playersReady' = playersReady \ {r.from} /\ responses' \subseteq responses
  BY DEF HandleDisconnectMsg, HandleDisconnectMember
<1>4. \/ endpoints' = <<>> /\ recreated' = recreated + 1 /\ status' = "stopping"
      \/ endpoints' # <<>> /\ UNCHANGED <<recreated, status>>
  BY DEF HandleDisconnectMsg, HandleDisconnectMember
<1>5. endpoints \in Seq(Clients) /\ recreated \in Nat
  BY DEF TypeOK
<1>6. endpoints' \in Seq(Clients) /\ Len(endpoints') = Len(endpoints) - 1
  BY <1>2, <1>5, EraseProperties
<1>7. Members' = Members \ {r.from} /\ MembersDistinct'
  <2>1. \A j, k \in DOMAIN endpoints : endpoints[j] = endpoints[k] => j = k
    BY DEF MembersDistinct
  <2>2. LET e == Erase(endpoints, i) IN
        /\ {e[j] : j \in DOMAIN e} =
               {endpoints[j] : j \in DOMAIN endpoints} \ {endpoints[i]}
        /\ \A j, k \in DOMAIN e : e[j] = e[k] => j = k
    BY <1>5, <2>1, EraseDistinct
  <2> QED
    BY <1>2, <2>2 DEF MembersDistinct, Members
<1>8. TypeOK'
  BY <1>1, <1>3, <1>4, <1>6 DEF TypeOK, clientVars, Statuses
<1>9. NeverOverfull'
  <2>1. Len(endpoints) \in Nat
    BY <1>5
  <2> QED
    BY <1>6, <2>1, LobbyAssumption DEF NeverOverfull, LobbyAssumption
<1>10. ReadyAreMembers'
  BY <1>3, <1>7 DEF ReadyAreMembers
<1>11. EmptiedIsReplaced'
  BY <1>4, <1>5 DEF EmptiedIsReplaced
<1> QED
  BY <1>7, <1>8, <1>9, <1>10, <1>11

\* The two steps that only change the status of the process.
LEMMA StatusKeepsIInv ==
    ASSUME IInv,
           MainThreadStops \/ \E r \in requests : HandleDisconnectStranger(r)
    PROVE  IInv'
<1> USE DEF IInv
<1>1. /\ UNCHANGED <<endpoints, playersIds, playersReady, isGameStarted, recreated,
                     clientVars, responses>>
      /\ requests' \subseteq requests
      /\ \/ status' = "aborted"
         \/ status = "stopping" /\ status' = "stopped"
  BY DEF MainThreadStops, HandleDisconnectStranger, Handle
<1>2. TypeOK'
  BY <1>1 DEF TypeOK, Statuses, clientVars
<1>3. EmptiedIsReplaced'
  BY <1>1 DEF EmptiedIsReplaced
<1>4. (MembersDistinct /\ NeverOverfull /\ ReadyAreMembers)'
  BY <1>1 DEF MembersDistinct, NeverOverfull, ReadyAreMembers, Members
<1> QED
  BY <1>2, <1>3, <1>4

\* Every step keeps the invariant.
LEMMA NextKeepsIInv == IInv /\ [Next]_vars => IInv'
<1> SUFFICES ASSUME IInv, [Next]_vars PROVE IInv'
  OBVIOUS
<1>1. ASSUME NEW c \in Clients, Client(c) PROVE IInv'
  BY <1>1, ClientKeepsIInv
<1>2. ASSUME NEW r \in requests, Handler(r) PROVE IInv'
  BY <1>2, HandleConnectLobbyKeepsIInv, HandleInitKeepsIInv, HandleReadyKeepsIInv,
     HandleDisconnectKeepsIInv, StatusKeepsIInv DEF Handler
<1>3. CASE MainThreadStops
  BY <1>3, StatusKeepsIInv
<1>4. CASE UNCHANGED vars
  BY <1>4 DEF IInv, TypeOK, MembersDistinct, NeverOverfull, ReadyAreMembers,
              EmptiedIsReplaced, Members, vars, serverVars, clientVars
<1> QED
  BY <1>1, <1>2, <1>3, <1>4 DEF Next

-----------------------------------------------------------------------------
(* The theorems *)

\* The invariant holds in every state the lobby and its clients can reach.
THEOREM Invariance == Spec => []IInv
  BY InitIInv, NextKeepsIInv, PTL DEF Spec

\* The state keeps its types; the ids of the players are places of the lobby.
THEOREM TypeCorrect == Spec => []TypeOK
<1>1. IInv => TypeOK
  BY DEF IInv
<1> QED
  BY Invariance, <1>1, PTL

\* However many sessions a client has and in whatever order its packets come,
\* it is in the list once, and one DISCONNECT_LOBBY removes it.
THEOREM NobodyTwice == Spec => []MembersDistinct
<1>1. IInv => MembersDistinct
  BY DEF IInv
<1> QED
  BY Invariance, <1>1, PTL

\* Any number of clients that were all told there is room never fill a lobby
\* beyond its maxNbPlayer places.
THEOREM RoomForAll == Spec => []NeverOverfull
<1>1. IInv => NeverOverfull
  BY DEF IInv
<1> QED
  BY Invariance, <1>1, PTL

\* The entries handleReadyMsg counts are entries of members.
THEOREM OnlyMembersReady == Spec => []ReadyAreMembers
<1>1. IInv => ReadyAreMembers
  BY DEF IInv
<1> QED
  BY Invariance, <1>1, PTL

\* A lobby that all have left has asked for its replacement and is stopping.
THEOREM EmptiedReplaced == Spec => []EmptiedIsReplaced
<1>1. IInv => EmptiedIsReplaced
  BY DEF IInv
<1> QED
  BY Invariance, <1>1, PTL

\* The comparison of two sizes in handleReadyMsg is right: as many ready
\* entries as members means that every member is ready.
LEMMA StartStep ==
    ASSUME IInv, IInv', NEW r \in requests, HandleReadyMsg(r),
           ~isGameStarted, isGameStarted'
    PROVE  Members' \subseteq playersReady'
<1>1. Cardinality(playersReady') = Len(endpoints) /\ UNCHANGED endpoints
  BY DEF HandleReadyMsg
<1>2. IsFiniteSet(Members) /\ Cardinality(Members) = Len(endpoints)
  BY MembersCardinality DEF IInv, TypeOK
<1>3. playersReady' \in SUBSET Members
  BY <1>1 DEF IInv, ReadyAreMembers, Members
<1>4. Members = playersReady'
  BY <1>1, <1>2, <1>3, FS_Subset
<1> QED
  BY <1>1, <1>4 DEF Members

\* The game starts only when every member is ready.
THEOREM StartWhenAllReady == Spec => StartOnlyWhenAllReady
<1>1. ASSUME IInv, IInv', Next, ~isGameStarted, isGameStarted'
      PROVE  Members' \subseteq playersReady'
  <2>1. ASSUME NEW c \in Clients, Client(c) PROVE FALSE
    BY <1>1, <2>1, ClientKeepsIInv DEF serverVars
  <2>2. ASSUME NEW r \in requests, Handler(r) PROVE HandleReadyMsg(r)
    BY <1>1, <2>2 DEF Handler, HandleConnectLobbyMsg, HandleInitMsg,
       HandleDisconnectMsg, HandleDisconnectStranger, serverVars
  <2>3. ~MainThreadStops
    BY <1>1 DEF MainThreadStops
  <2> QED
    BY <1>1, <2>1, <2>2, <2>3, StartStep DEF Next
<1>2. IInv /\ IInv' /\ [Next]_vars =>
          [~isGameStarted /\ isGameStarted' => Members' \subseteq playersReady']_vars
  BY <1>1
<1> QED
  BY Invariance, <1>2, PTL DEF Spec, StartOnlyWhenAllReady

-----------------------------------------------------------------------------
(* The lobby implements its abstract specification *)

\* What the abstract lobby calls full, ready and left is what the sizes and the
\* positions of the list say.
LEMMA InitImplements == Init => Service!Init
  BY DEF Init, Service!Init, Members

LEMMA InitMsgImplements ==
    ASSUME IInv, NEW r \in requests, HandleInitMsg(r)
    PROVE  Service!Join(r.from) \/ UNCHANGED Service!vars
<1>1. UNCHANGED <<playersReady, isGameStarted, status, recreated>> /\ Service!Serves
  BY DEF HandleInitMsg, Handle, InputThreadRuns, Service!Serves
<1>2. CASE ~MayInit(r.from)
  BY <1>1, <1>2 DEF HandleInitMsg, Service!vars, Members
<1>3. CASE MayInit(r.from)
  <2>1. r.from \in Clients /\ endpoints \in Seq(Clients) /\ Len(endpoints) \in Nat
    BY LenProperties DEF IInv, TypeOK, Request
  <2>2. /\ endpoints' = Append(endpoints, r.from)
        /\ DOMAIN endpoints = 1 .. Len(endpoints)
        /\ DOMAIN endpoints' = 1 .. Len(endpoints) + 1
        /\ \A i \in 1 .. Len(endpoints) : endpoints'[i] = endpoints[i]
        /\ endpoints'[Len(endpoints) + 1] = r.from
    BY <1>3, <2>1, AppendProperties, LenProperties DEF HandleInitMsg
  <2>3. Members' = Members \cup {r.from}
    <3>1. ASSUME NEW i \in DOMAIN endpoints PROVE endpoints[i] \in Members'
      BY <2>1, <2>2 DEF Members
    <3>2. r.from \in Members'
      BY <2>1, <2>2 DEF Members
    <3>3. ASSUME NEW i \in DOMAIN endpoints' PROVE endpoints'[i] \in Members \cup {r.from}
      BY <2>1, <2>2 DEF Members
    <3> QED
      BY <3>1, <3>2, <3>3 DEF Members
  <2>4. Cardinality(Members) < MaxPlayers
    BY <1>3, <2>1, MembersCardinality DEF IInv, MayInit
  <2>5. ~isGameStarted /\ r.from \notin Members
    BY <1>3 DEF MayInit, IsClientAlreadyConnected
  <2>6. Service!Cardinality(Members) = Cardinality(Members)
    BY DEF Service!Cardinality, Cardinality
  <2> QED
    BY <1>1, <2>3, <2>4, <2>5, <2>6 DEF Service!Join
<1> QED
  BY <1>2, <1>3

LEMMA ReadyMsgImplements ==
    ASSUME IInv, IInv', NEW r \in requests, HandleReadyMsg(r)
    PROVE  Service!GetReady(r.from) \/ UNCHANGED Service!vars
<1>1. UNCHANGED <<endpoints, status, recreated>> /\ Service!Serves /\ Members' = Members
  BY DEF HandleReadyMsg, Handle, InputThreadRuns, Service!Serves, Members
<1>2. CASE ~(~isGameStarted /\ IsClientAlreadyConnected(r.from))
  BY <1>1, <1>2 DEF HandleReadyMsg, Service!vars
<1>3. CASE ~isGameStarted /\ IsClientAlreadyConnected(r.from)
  <2>1. /\ playersReady' = playersReady \cup {r.from}
        /\ isGameStarted' = (Cardinality(playersReady') = Len(endpoints))
    BY <1>3 DEF HandleReadyMsg
  <2>2. IsFiniteSet(Members) /\ Cardinality(Members) = Len(endpoints)
    BY MembersCardinality DEF IInv, TypeOK
  <2>3. playersReady' \in SUBSET Members
    BY <1>1 DEF IInv, ReadyAreMembers
  <2>4. Cardinality(playersReady') = Len(endpoints) <=> playersReady' = Members
    BY <2>2, <2>3, FS_Subset
  <2>5. isGameStarted' = (playersReady' = Members)
    BY <2>1, <2>4
  <2> QED
    BY <1>1, <1>3, <2>1, <2>5 DEF Service!GetReady, IsClientAlreadyConnected
<1> QED
  BY <1>2, <1>3

LEMMA DisconnectMsgImplements ==
    ASSUME IInv, IInv', NEW r \in requests, HandleDisconnectMsg(r)
    PROVE  Service!Leave(r.from) \/ Service!LeaveLast(r.from)
<1>1. UNCHANGED isGameStarted /\ Service!Serves
  BY DEF HandleDisconnectMsg, Handle, InputThreadRuns, Service!Serves
<1>2. PICK i \in DOMAIN endpoints :
          endpoints[i] = r.from /\ endpoints' = Erase(endpoints, i)
  BY DEF HandleDisconnectMsg, HandleDisconnectMember
<1>3. playersReady' = playersReady \ {r.from}
  BY DEF HandleDisconnectMsg, HandleDisconnectMember
<1>4. \/ endpoints' = <<>> /\ recreated' = recreated + 1 /\ status' = "stopping"
      \/ endpoints' # <<>> /\ UNCHANGED <<recreated, status>>
  BY DEF HandleDisconnectMsg, HandleDisconnectMember
<1>5. r.from \in Members
  BY <1>2 DEF Members
<1>6. Members' = Members \ {r.from}
  <2>1. \A j, k \in DOMAIN endpoints : endpoints[j] = endpoints[k] => j = k
    BY DEF IInv, MembersDistinct
  <2>2. LET e == Erase(endpoints, i) IN
        {e[j] : j \in DOMAIN e} = {endpoints[j] : j \in DOMAIN endpoints} \ {endpoints[i]}
    BY <2>1, EraseDistinct DEF IInv, TypeOK
  <2> QED
    BY <1>2, <2>2 DEF Members
<1>7. endpoints' = <<>> <=> Members' = {}
  <2>1. endpoints' \in Seq(Clients)
    BY DEF IInv, TypeOK
  <2>2. ASSUME endpoints' # <<>> PROVE Members' # {}
    <3>1. 1 \in DOMAIN endpoints'
      BY <2>1, <2>2, EmptySeq, LenProperties
    <3> QED
      BY <3>1 DEF Members
  <2>3. ASSUME endpoints' = <<>> PROVE Members' = {}
    BY <2>3 DEF Members
  <2> QED
    BY <2>2, <2>3
<1>8. Members' = {} <=> Members = {r.from}
  BY <1>5, <1>6
<1>9. CASE endpoints' = <<>>
  BY <1>1, <1>3, <1>4, <1>7, <1>8, <1>9 DEF Service!LeaveLast
<1>10. CASE endpoints' # <<>>
  BY <1>1, <1>3, <1>4, <1>5, <1>6, <1>7, <1>8, <1>10 DEF Service!Leave
<1> QED
  BY <1>9, <1>10

\* Every step of the lobby and its clients is one of the abstract lobby or none.
LEMMA StepImplements ==
    ASSUME IInv, IInv', [Next]_vars
    PROVE  [Service!Next]_(Service!vars)
<1>1. ASSUME NEW c \in Clients, Client(c) PROVE UNCHANGED Service!vars
  BY <1>1, ClientKeepsIInv DEF serverVars, Service!vars, Members
<1>2. ASSUME NEW r \in requests, Handler(r) PROVE Service!Next \/ UNCHANGED Service!vars
  <2>0. r.from \in Clients
    BY DEF IInv, TypeOK, Request
  <2>1. CASE HandleConnectLobbyMsg(r)
    BY <2>1 DEF HandleConnectLobbyMsg, serverVars, Service!vars, Members
  <2>2. CASE HandleInitMsg(r)
    BY <2>0, <2>2, InitMsgImplements DEF Service!Next
  <2>3. CASE HandleReadyMsg(r)
    BY <2>0, <2>3, ReadyMsgImplements DEF Service!Next
  <2>4. CASE HandleDisconnectMsg(r)
    BY <2>0, <2>4, DisconnectMsgImplements DEF Service!Next
  <2>5. CASE HandleDisconnectStranger(r)
    <3>1. Service!Abort(r.from)
      BY <2>5 DEF HandleDisconnectStranger, Handle, InputThreadRuns, IsClientAlreadyConnected,
         Service!Abort, Service!Serves, Members
    <3> QED
      BY <2>0, <3>1 DEF Service!Next
  <2> QED
    BY <1>2, <2>1, <2>2, <2>3, <2>4, <2>5 DEF Handler
<1>3. CASE MainThreadStops
  BY <1>3 DEF MainThreadStops, Service!Next, Service!Stop, Members
<1>4. CASE UNCHANGED vars
  BY <1>4 DEF vars, serverVars, Service!vars, Members
<1> QED
  BY <1>1, <1>2, <1>3, <1>4 DEF Next

\* A lobby is a set that clients join, get ready in and leave: for any clients and
\* any number of places, whatever is lost, repeated or reordered on the way.
THEOREM LobbyImplementsService == Spec => ImplementsService
<1>1. Init => Service!Init
  BY InitImplements
<1>2. IInv /\ IInv' /\ [Next]_vars => [Service!Next]_(Service!vars)
  BY StepImplements
<1> QED
  BY Invariance, <1>1, <1>2, PTL DEF Spec, ImplementsService, Service!Spec
=============================================================================
