----------------------------- MODULE Replication -----------------------------
(***************************************************************************)
(* The players of a game as the lobby server and its clients hold them:    *)
(* the entities that INIT creates everywhere, the health that each process *)
(* takes from them in its own simulation, the deaths that a client reports *)
(* and the server takes back, the end of the game with the last player.    *)
(*                                                                         *)
(* Handlers run one by one in the input thread and systems one by one in   *)
(* the main thread, each with the registry locked: each is one step.  The  *)
(* transport delivers a packet at most once, in any order, or never.  How  *)
(* a lobby is entered and started is the Lobby module's; here a client is  *)
(* in the menus or in the game, and a game starts when it has members.     *)
(***************************************************************************)
EXTENDS Integers, Bags, SequencesExt

CONSTANTS
    Clients,     \* endpoints of the players
    MaxPlayers,  \* _serverInfos.maxNbPlayer
    MaxLife,     \* health of a new player, from the assets
    MaxInits,    \* bound: sessions, over all clients
    MaxDamage,   \* bound: hits taken, of any size, over all processes
    None         \* no player id

ASSUME ReplicationAssumption ==
    /\ MaxPlayers \in Nat \ {0}
    /\ MaxLife \in Nat \ {0}
    /\ MaxInits \in Nat
    /\ MaxDamage \in Nat

ASSUME NoneAssumption == None \notin Nat

VARIABLES
    endpoints,     \* _endpoints of the lobby
    playersIds,    \* _playersIds: kept when a member leaves
    isGameStarted, \* _isGameStarted
    status,        \* the lobby: running, stopping, ended
    players,       \* its entities with OtherPlayer, in their order
    endGame,       \* history: END_GAME broadcasts for the death of the last player
    scene,         \* of each client: menu or game
    copies,        \* the entities with Player or OtherPlayer of each client
    inits,         \* sessions so far
    damage,        \* hits so far
    requests,      \* bag of packets to the lobby, under way or lost
    replies,       \* bag of packets to the clients
    sessions,      \* history: who was given which id, in that order
    revived,       \* history: ids whose health a LIFE_UPDATE brought back from 0
    told           \* history: ids each client was told of in its present session

memberVars == <<endpoints, playersIds, isGameStarted, status>>
serverVars == <<memberVars, players, endGame>>
clientVars == <<scene, copies>>
history == <<sessions, revived, told>>
vars == <<serverVars, clientVars, inits, damage, requests, replies, history>>

-----------------------------------------------------------------------------

Ids == 0 .. MaxPlayers - 1
Hp == 0 .. MaxLife

\* hp of 0 stands for every health that is not positive.
Player == [id : Ids, hp : Hp]
Copy == [id : Ids, hp : Hp, own : BOOLEAN, removed : BOOLEAN]

\* Packets of a client.
InitMsg(c) == [kind |-> "INIT", from |-> c]
DisconnectMsg(c) == [kind |-> "DISCONNECT_LOBBY", from |-> c]
LifeMsg(c, id, hp) == [kind |-> "LIFE_UPDATE", from |-> c, id |-> id, hp |-> hp]
DeathMsg(c, id) == [kind |-> "PLAYER_DEATH", from |-> c, id |-> id]

\* Packets of the lobby.
NewPlayer(c, id, hp, isOther) ==
    [kind |-> "NEW_PLAYER", to |-> c, id |-> id, hp |-> hp, isOther |-> isOther]
PlayerDeath(c, id) == [kind |-> "PLAYER_DEATH", to |-> c, id |-> id]
LifeUpdate(c, hp) == [kind |-> "LIFE_UPDATE", to |-> c, hp |-> hp]

Members == {endpoints[i] : i \in DOMAIN endpoints}

\* The entities of that id, and the one a search finds first.
WithId(s, id) == {i \in DOMAIN s : s[i].id = id}
First(s, id) == s[Min(WithId(s, id))]

\* Without the i-th element; the others keep their order.
Without(s, i) == [j \in 1 .. Len(s) - 1 |-> IF j < i THEN s[j] ELSE s[j + 1]]

Init ==
    /\ endpoints = <<>>
    /\ playersIds = [c \in Clients |-> None]
    /\ isGameStarted = FALSE
    /\ status = "running"
    /\ players = <<>>
    /\ endGame = 0
    /\ scene = [c \in Clients |-> "menu"]
    /\ copies = [c \in Clients |-> <<>>]
    /\ inits = 0
    /\ damage = 0
    /\ requests = EmptyBag
    /\ replies = EmptyBag
    /\ sessions = <<>>
    /\ revived = {}
    /\ told = [c \in Clients |-> {}]

-----------------------------------------------------------------------------
(* The lobby *)

Handle(m, k) ==
    /\ status # "ended"
    /\ m.kind = k
    /\ requests' = requests (-) SetToBag({m})

\* The lobby enqueues packets.
Tell(packets) ==
    /\ replies' = replies (+) packets
    /\ told' = [c \in Clients |-> told[c] \cup
                   {m.id : m \in {n \in BagToSet(packets) :
                                      n.kind = "NEW_PLAYER" /\ n.to = c}}]

\* Mutant of MayInit: a game that has started lets players in.
MayInitStarted(c) == Len(endpoints) < MaxPlayers /\ c \notin Members

MayInit(c) ==
    /\ ~isGameStarted
    /\ Len(endpoints) < MaxPlayers
    /\ c \notin Members

\* sendAlliesAlreadyPresent: a NEW_PLAYER for every client that was ever given
\* an id other than this one and whose entity is there, member or not.
AlliesAlreadyPresent(c, id) ==
    LET known == {d \in Clients \ {c} :
                      /\ playersIds[d] \notin {None, id}
                      /\ WithId(players, playersIds[d]) # {}}
        Of(d) == NewPlayer(c, playersIds[d], First(players, playersIds[d]).hp, TRUE)
    IN  [m \in {Of(d) : d \in known} |-> Cardinality({d \in known : Of(d) = m})]

\* Mutant of NewPlayers: the broadcast does not leave the joiner out.
NewPlayersToAll(c, id) ==
    SetToBag({NewPlayer(c, id, MaxLife, FALSE)}
                 \cup {NewPlayer(d, id, MaxLife, TRUE) : d \in Members \cup {c}})
        (+) AlliesAlreadyPresent(c, id)

\* What INIT makes the lobby send: its own player to the joiner, the joiner to
\* the others, the others to the joiner.
NewPlayers(c, id) ==
    SetToBag({NewPlayer(c, id, MaxLife, FALSE)}
                 \cup {NewPlayer(d, id, MaxLife, TRUE) : d \in Members})
        (+) AlliesAlreadyPresent(c, id)

\* Mutant of AssignedId: the size of the list after the insertion.
AssignedIdAfter == Len(endpoints) + 1

\* The number of members there were, whoever had it before.
AssignedId == Len(endpoints)

HandleInitMsg(m) ==
    /\ Handle(m, "INIT")
    /\ \/ /\ ~MayInit(m.from)
          /\ UNCHANGED <<endpoints, playersIds, players, replies, sessions, told>>
       \/ LET c == m.from
              id == AssignedId
          IN  /\ MayInit(c)
              /\ endpoints' = Append(endpoints, c)
              /\ playersIds' = [playersIds EXCEPT ![c] = id]
              /\ players' = Append(players, [id |-> id, hp |-> MaxLife])
              /\ sessions' = Append(sessions, [of |-> c, id |-> id])
              /\ Tell(NewPlayers(c, id))
    /\ UNCHANGED <<isGameStarted, status, endGame, clientVars, inits, damage, revived>>

\* handleReadyMsg of the last member that was not ready.
HandleLastReadyMsg ==
    /\ status # "ended"
    /\ ~isGameStarted
    /\ endpoints # <<>>
    /\ isGameStarted' = TRUE
    /\ UNCHANGED <<endpoints, playersIds, status, players, endGame, clientVars, inits, damage,
                   requests, replies, history>>

\* The member's entity stays; the clients that remain are told that it is dead.
\* A packet to the leaver that is deleted from the queue is one that is lost.
HandleDisconnectMsg(m) ==
    /\ Handle(m, "DISCONNECT_LOBBY")
    /\ \E i \in DOMAIN endpoints :
        /\ endpoints[i] = m.from
        /\ endpoints' = Without(endpoints, i)
    /\ Tell(SetToBag({PlayerDeath(c, playersIds[m.from]) : c \in Members \ {m.from}}))
    /\ status' = IF endpoints' = <<>> THEN "stopping" ELSE status
    /\ UNCHANGED <<playersIds, isGameStarted, players, endGame, clientVars, inits, damage,
                   sessions, revived>>

\* Nobody leaves twice: list::erase of the end iterator aborts the lobby.
HandleDisconnectStranger(m) ==
    /\ Handle(m, "DISCONNECT_LOBBY")
    /\ m.from \notin Members
    /\ status' = "ended"
    /\ UNCHANGED <<endpoints, playersIds, isGameStarted, players, endGame, clientVars, inits,
                   damage, replies, history>>

\* handleLifeUpdateMsg: any client, any id, any order.  The first entity of that
\* id whose health differs takes the health, which is echoed.
HandleLifeUpdateMsg(m) ==
    /\ Handle(m, "LIFE_UPDATE")
    /\ LET differ == {i \in WithId(players, m.id) : players[i].hp # m.hp}
       IN  \/ /\ differ = {}
              /\ UNCHANGED <<players, replies, told, revived>>
           \/ /\ differ # {}
              /\ players' = [players EXCEPT ![Min(differ)].hp = m.hp]
              /\ Tell(SetToBag({LifeUpdate(m.from, m.hp)}))
              /\ revived' = revived \cup
                     (IF players[Min(differ)].hp = 0 THEN {m.id} ELSE {})
    /\ UNCHANGED <<memberVars, endGame, clientVars, inits, damage, sessions>>

\* receivePlayerDeathMsg: a player that lives here is created anew at the client
\* that reports it dead; of one that is gone everybody is told.
ReceivePlayerDeathMsg(m) ==
    /\ Handle(m, "PLAYER_DEATH")
    /\ \/ /\ WithId(players, m.id) = {}
          /\ Tell(SetToBag({PlayerDeath(c, m.id) : c \in Members}))
       \/ /\ WithId(players, m.id) # {}
          /\ LET hp == First(players, m.id).hp
             IN  Tell(IF hp = 0 THEN EmptyBag
                      ELSE SetToBag({NewPlayer(m.from, m.id, hp, playersIds[m.from] # m.id)}))
    /\ UNCHANGED <<serverVars, clientVars, inits, damage, sessions, revived>>

\* The simulation of the lobby hits a player: no packet.
ServerDamage(i) ==
    /\ status # "ended"
    /\ isGameStarted
    /\ damage < MaxDamage
    /\ \E hp \in 0 .. players[i].hp - 1 : players' = [players EXCEPT ![i].hp = hp]
    /\ damage' = damage + 1
    /\ UNCHANGED <<memberVars, endGame, clientVars, inits, requests, replies, history>>

\* The entity is still registered while the callbacks of its death run.
IsLast == Len(players) = 1

\* A player dies in the lobby: sendPlayerDeath at the event ENTITY_DEATH.
ServerDies(i) ==
    /\ status # "ended"
    /\ players[i].hp = 0
    /\ players' = Without(players, i)
    /\ endGame' = endGame + (IF IsLast THEN 1 ELSE 0)
    /\ Tell(SetToBag({PlayerDeath(c, players[i].id) : c \in Members}))
    /\ UNCHANGED <<memberVars, clientVars, inits, damage, requests, sessions, revived>>

\* The main thread of a lobby that emptied stops it.
MainThreadStops ==
    /\ status = "stopping"
    /\ status' = "ended"
    /\ UNCHANGED <<endpoints, playersIds, isGameStarted, players, endGame, clientVars, inits,
                   damage, requests, replies, history>>

-----------------------------------------------------------------------------
(* The clients *)

\* A change of scene clears the registry.
EnterScene(c, s) ==
    /\ scene' = [scene EXCEPT ![c] = s]
    /\ copies' = [copies EXCEPT ![c] = <<>>]
    /\ told' = [told EXCEPT ![c] = {}]

\* The game scene begins and its first frame sends INIT.
EnterGame(c) ==
    /\ scene[c] = "menu"
    /\ inits < MaxInits
    /\ inits' = inits + 1
    /\ EnterScene(c, "game")
    /\ requests' = requests (+) SetToBag({InitMsg(c)})
    /\ UNCHANGED <<serverVars, damage, replies, sessions, revived>>

\* Escape, or the countdown after END_GAME: disconnectLobby.
LeaveGame(c) ==
    /\ scene[c] = "game"
    /\ EnterScene(c, "menu")
    /\ requests' = requests (+) SetToBag({DisconnectMsg(c)})
    /\ UNCHANGED <<serverVars, inits, damage, replies, sessions, revived>>

Receive(m, k) ==
    /\ m.kind = k
    /\ replies' = replies (-) SetToBag({m})
    /\ UNCHANGED <<serverVars, scene, inits, damage, requests, history>>

\* The entity that a search by id finds: a Player before any OtherPlayer.
Found(c, id) ==
    LET own == {i \in WithId(copies[c], id) : copies[c][i].own}
    IN  IF own # {} THEN {Min(own)}
        ELSE IF WithId(copies[c], id) # {} THEN {Min(WithId(copies[c], id))} ELSE {}

\* Entities of which some are to be removed, or have no health left.
Marked(s, F) == [i \in DOMAIN s |-> [s[i] EXCEPT !.removed = @ \/ i \in F]]
Killed(s, F) == [i \in DOMAIN s |-> IF i \in F THEN [s[i] EXCEPT !.hp = 0] ELSE s[i]]

\* createNewPlayer: the entity there is of that id goes at the end of the frame.
CreateNewPlayer(m) ==
    Append(Marked(copies[m.to], Found(m.to, m.id)),
           [id |-> m.id, hp |-> m.hp, own |-> ~m.isOther, removed |-> FALSE])

\* Whatever scene the client is in.
ReceiveNewPlayer(m) ==
    /\ Receive(m, "NEW_PLAYER")
    /\ copies' = [copies EXCEPT ![m.to] = CreateNewPlayer(m)]

ReceivePlayerDeath(m) ==
    /\ Receive(m, "PLAYER_DEATH")
    /\ copies' = [copies EXCEPT ![m.to] = Killed(@, Found(m.to, m.id))]

\* The first Player takes the health: the id in the packet is not looked at.
ReceiveLifeUpdate(m) ==
    /\ Receive(m, "LIFE_UPDATE")
    /\ LET own == {i \in DOMAIN copies[m.to] : copies[m.to][i].own}
       IN  copies' = IF own = {} THEN copies
                     ELSE [copies EXCEPT ![m.to][Min(own)].hp = m.hp]

\* The simulation of the client hits a player: TAKE_DAMAGE, of which the lobby is
\* told if it is the client's own.
ClientDamage(c, i) ==
    /\ isGameStarted
    /\ damage < MaxDamage
    /\ damage' = damage + 1
    /\ \E hp \in 0 .. copies[c][i].hp - 1 :
        /\ copies' = [copies EXCEPT ![c][i].hp = hp]
        /\ requests' = IF copies[c][i].own
                       THEN requests (+) SetToBag({LifeMsg(c, copies[c][i].id, hp)})
                       ELSE requests
    /\ UNCHANGED <<serverVars, scene, inits, replies, history>>

\* Mutant of ReportsDeath: only the death of the own player is reported.
ReportsDeathOwnOnly(e) == e.own

\* sendPlayerDeath of a client reports its own player and those of the others:
\* every entity here is one or the other.
ReportsDeath(e) == e.own \in BOOLEAN

\* A player dies at a client: the event, then the entity is removed.
ClientDies(c, i) ==
    /\ copies[c][i].hp = 0
    /\ copies' = [copies EXCEPT ![c] = Without(@, i)]
    /\ requests' = IF ReportsDeath(copies[c][i])
                   THEN requests (+) SetToBag({DeathMsg(c, copies[c][i].id)})
                   ELSE requests
    /\ UNCHANGED <<serverVars, scene, inits, damage, replies, history>>

\* The entities that are not to be removed, in their order.
Stay(s) == {i \in DOMAIN s : ~s[i].removed}
Rank(s, i) == Cardinality({k \in Stay(s) : k <= i})
Kept(s) == [j \in 1 .. Cardinality(Stay(s)) |-> s[CHOOSE i \in Stay(s) : Rank(s, i) = j]]

\* The end of a frame: what was to be removed is.
RemoveEntities(c) ==
    /\ \E i \in DOMAIN copies[c] : copies[c][i].removed
    /\ copies' = [copies EXCEPT ![c] = Kept(@)]
    /\ UNCHANGED <<serverVars, scene, inits, damage, requests, replies, history>>

-----------------------------------------------------------------------------

LobbyStep ==
    \/ \E m \in BagToSet(requests) :
          \/ HandleInitMsg(m)
          \/ HandleDisconnectMsg(m)
          \/ HandleDisconnectStranger(m)
          \/ HandleLifeUpdateMsg(m)
          \/ ReceivePlayerDeathMsg(m)
    \/ HandleLastReadyMsg
    \/ \E i \in DOMAIN players : ServerDamage(i) \/ ServerDies(i)
    \/ MainThreadStops

ClientStep ==
    \/ \E m \in BagToSet(replies) :
          \/ ReceiveNewPlayer(m)
          \/ ReceivePlayerDeath(m)
          \/ ReceiveLifeUpdate(m)
    \/ \E c \in Clients :
          \/ EnterGame(c)
          \/ LeaveGame(c)
          \/ \E i \in DOMAIN copies[c] : ClientDamage(c, i) \/ ClientDies(c, i)
          \/ RemoveEntities(c)

Next == LobbyStep \/ ClientStep

Spec == Init /\ [][Next]_vars

-----------------------------------------------------------------------------
(* Properties *)

\* The types of the state.
TypeOK ==
    /\ endpoints \in Seq(Clients)
    /\ playersIds \in [Clients -> Ids \cup {None}]
    /\ isGameStarted \in BOOLEAN
    /\ status \in {"running", "stopping", "ended"}
    /\ players \in Seq(Player)
    /\ endGame \in Nat
    /\ scene \in [Clients -> {"menu", "game"}]
    /\ copies \in [Clients -> Seq(Copy)]
    /\ inits \in 0 .. MaxInits
    /\ damage \in 0 .. MaxDamage
    /\ IsABag(requests)
    /\ IsABag(replies)
    /\ sessions \in Seq([of : Clients, id : Ids])
    /\ revived \subseteq Ids
    /\ told \in [Clients -> SUBSET Ids]

\* The game of a lobby ends with its last player, once, although players join and
\* leave, die in any order and are hit and healed by updates that come late: the
\* death of the last sends END_GAME, and no player is there ever after.
LastDeathEndsGame ==
    isGameStarted => endGame = (IF players = <<>> THEN 1 ELSE 0)

\* An id that was given to one session only, and a client that had one session.
Sole(id) == Cardinality({i \in DOMAIN sessions : sessions[i].id = id}) = 1
OneSession(c) == Cardinality({i \in DOMAIN sessions : sessions[i].of = c}) = 1

LivesAt(c, id) == {i \in WithId(copies[c], id) : ~copies[c][i].removed}
OnItsWay(c, id) ==
    \/ \E m \in BagToSet(replies) : m.kind = "NEW_PLAYER" /\ m.to = c /\ m.id = id
    \/ \E m \in BagToSet(requests) : m = DeathMsg(c, id)

\* A client does not lose sight of a player that lives in the lobby: what dies at
\* the client alone comes back.  Either the client has it, or it has reported the
\* death, or the answer is on its way, however deaths, leaves and updates cross.
\* Not so for an id that two players share, nor for a player whose health was
\* taken back from 0 by an update that came late: its report is not answered.
NoPlayerLost ==
    \A c \in Clients : scene[c] = "game" =>
        \A id \in told[c] \ revived :
            /\ Sole(id)
            /\ \E i \in WithId(players, id) : players[i].hp > 0
            => LivesAt(c, id) # {} \/ OnItsWay(c, id)

\* A client steers its own player and no other, however often deaths are taken
\* back and NEW_PLAYER packets cross: in its first game and as long as its id is its
\* alone, the entities it holds as its own are exactly those of the id it was given.
OwnStaysOwn ==
    \A c \in Clients : OneSession(c) /\ Sole(playersIds[c]) =>
        \A i \in DOMAIN copies[c] : copies[c][i].own = (copies[c][i].id = playersIds[c])
=============================================================================
