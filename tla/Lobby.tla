------------------------------- MODULE Lobby -------------------------------
(***************************************************************************)
(* Membership of one lobby server (NitworkServer: CONNECT_LOBBY, INIT,     *)
(* READY, DISCONNECT_LOBBY) and the clients that join, get ready and leave.*)
(*                                                                         *)
(* Every handler of the server runs in its input thread, so one handler is *)
(* one step.  What the Nitwork module shows of the transport is assumed of *)
(* it here: a packet is handled at most once, in any order, perhaps never. *)
(* A lobby that empties calls recreateLobby, which forks a replacement and *)
(* may fail, and tells its main thread to stop; until the main thread      *)
(* does, the handlers still run.                                           *)
(***************************************************************************)
EXTENDS Integers, Sequences, FiniteSets

CONSTANTS
    Clients,     \* endpoints of the players
    MaxPlayers,  \* _serverInfos.maxNbPlayer
    MaxSent,     \* bound: packets the clients send
    None         \* no player id

ASSUME LobbyAssumption ==
    /\ MaxPlayers \in Nat \ {0}
    /\ MaxSent \in Nat

ASSUME NoneAssumption == None \notin Nat

VARIABLES
    endpoints,      \* _endpoints: the members, in the order they joined
    playersIds,     \* _playersIds: kept when a member leaves
    playersReady,   \* the keys of _playersReady
    isGameStarted,  \* _isGameStarted
    status,         \* the process of the lobby
    recreated,      \* how often it has called recreateLobby, which forks
    scene,          \* scene of each client
    toInit,         \* client: sendInitPacket has yet to run
    readyButton,    \* client: the READY button is on screen
    sent,           \* packets the clients have sent so far
    requests,       \* packets to the lobby, handled or lost one by one
    responses       \* CONNECT_LOBBY_RESP packets to the clients

serverVars == <<endpoints, playersIds, playersReady, isGameStarted, status, recreated>>
clientVars == <<scene, toInit, readyButton, sent>>
vars == <<serverVars, clientVars, requests, responses>>

-----------------------------------------------------------------------------

Kinds == {"CONNECT_LOBBY", "INIT", "READY", "DISCONNECT_LOBBY"}
Request == [kind : Kinds, from : Clients, nb : 0 .. MaxSent]
Response == [to : Clients, nb : 0 .. MaxSent, isOk : BOOLEAN]

\* running, told to stop by handleDisconnectMsg, stopped, or aborted by an
\* erase of the end iterator.
Statuses == {"running", "stopping", "stopped", "aborted"}
Scenes == {"SELECT_LOBBY", "GAME", "crashed"}

Members == {endpoints[i] : i \in DOMAIN endpoints}
IsClientAlreadyConnected(c) == c \in Members
InputThreadRuns == status \in {"running", "stopping"}

\* The list without its i-th element.
Erase(s, i) == [j \in 1 .. Len(s) - 1 |-> IF j < i THEN s[j] ELSE s[j + 1]]

Init ==
    /\ endpoints = <<>>
    /\ playersIds = [c \in Clients |-> None]
    /\ playersReady = {}
    /\ isGameStarted = FALSE
    /\ status = "running"
    /\ recreated = 0
    /\ scene = [c \in Clients |-> "SELECT_LOBBY"]
    /\ toInit = [c \in Clients |-> FALSE]
    /\ readyButton = [c \in Clients |-> FALSE]
    /\ sent = 0
    /\ requests = {}
    /\ responses = {}

-----------------------------------------------------------------------------
(* The clients *)

Send(c, k) ==
    /\ sent < MaxSent
    /\ sent' = sent + 1
    /\ requests' = requests \cup {[kind |-> k, from |-> c, nb |-> sent]}

\* A click on the connect button with this lobby selected.
ConnectLobbySelected(c) ==
    /\ scene[c] = "SELECT_LOBBY"
    /\ Send(c, "CONNECT_LOBBY")
    /\ UNCHANGED <<serverVars, scene, toInit, readyButton, responses>>

\* receiveConnectLobbyResp: a lobby that accepts puts the client in the game
\* scene, which starts afresh; one that is full changes nothing.
ReceiveConnectLobbyResp(c) ==
    /\ scene[c] # "crashed"
    /\ \E r \in responses :
        /\ r.to = c
        /\ responses' = responses \ {r}
        /\ scene' = [scene EXCEPT ![c] = IF r.isOk THEN "GAME" ELSE @]
        /\ toInit' = [toInit EXCEPT ![c] = r.isOk \/ @]
        /\ readyButton' = [readyButton EXCEPT ![c] = r.isOk \/ @]
    /\ UNCHANGED <<serverVars, sent, requests>>

\* The first frame of the game scene.
SendInitPacket(c) ==
    /\ scene[c] = "GAME"
    /\ toInit[c]
    /\ Send(c, "INIT")
    /\ toInit' = [toInit EXCEPT ![c] = FALSE]
    /\ UNCHANGED <<serverVars, scene, readyButton, responses>>

\* The READY button sends once and removes itself.
SendReadyPacket(c) ==
    /\ scene[c] = "GAME"
    /\ readyButton[c]
    /\ Send(c, "READY")
    /\ readyButton' = [readyButton EXCEPT ![c] = FALSE]
    /\ UNCHANGED <<serverVars, scene, toInit, responses>>

\* Escape in the game scene, or the countdown after END_GAME.
QuitGame(c) ==
    /\ scene[c] = "GAME"
    /\ Send(c, "DISCONNECT_LOBBY")
    /\ scene' = [scene EXCEPT ![c] = "SELECT_LOBBY"]
    /\ toInit' = [toInit EXCEPT ![c] = FALSE]
    /\ readyButton' = [readyButton EXCEPT ![c] = FALSE]
    /\ UNCHANGED <<serverVars, responses>>

\* A client dies without a word.
Crash(c) ==
    /\ scene[c] # "crashed"
    /\ scene' = [scene EXCEPT ![c] = "crashed"]
    /\ UNCHANGED <<serverVars, toInit, readyButton, sent, requests, responses>>

-----------------------------------------------------------------------------
(* The handlers of the lobby *)

Handle(r, k) ==
    /\ InputThreadRuns
    /\ r.kind = k
    /\ requests' = requests \ {r}

\* A started lobby stays silent; otherwise the answer says whether there is
\* room, and reserves none.
HandleConnectLobbyMsg(r) ==
    /\ Handle(r, "CONNECT_LOBBY")
    /\ responses' =
           IF isGameStarted THEN responses
           ELSE responses \cup {[to |-> r.from, nb |-> r.nb,
                                 isOk |-> Len(endpoints) < MaxPlayers]}
    /\ UNCHANGED <<serverVars, clientVars>>

\* Mutant of MayInit: the answer to CONNECT_LOBBY is trusted, the room is not
\* checked again.
MayInitWithoutRoom(c) == ~isGameStarted /\ ~IsClientAlreadyConnected(c)

\* Mutant of MayInit: a client that is already connected is not refused.
MayInitTwice(c) == ~isGameStarted /\ Len(endpoints) < MaxPlayers

MayInit(c) ==
    /\ ~isGameStarted
    /\ Len(endpoints) < MaxPlayers
    /\ ~IsClientAlreadyConnected(c)

\* Mutant of AssignedId: the id is the size after the insertion.
AssignedIdOffByOne == Len(endpoints) + 1

\* The id of the client about to be appended: its position, from 0.
AssignedId == Len(endpoints)

HandleInitMsg(r) ==
    /\ Handle(r, "INIT")
    /\ IF MayInit(r.from)
       THEN /\ endpoints' = Append(endpoints, r.from)
            /\ playersIds' = [playersIds EXCEPT ![r.from] = AssignedId]
       ELSE UNCHANGED <<endpoints, playersIds>>
    /\ UNCHANGED <<playersReady, isGameStarted, status, recreated, clientVars, responses>>

\* Mutant of HandleReadyMsg: the game starts when half the members are ready.
HandleReadyMsgHalf(r) ==
    /\ Handle(r, "READY")
    /\ IF ~isGameStarted /\ IsClientAlreadyConnected(r.from)
       THEN /\ playersReady' = playersReady \cup {r.from}
            /\ isGameStarted' = (2 * Cardinality(playersReady') >= Len(endpoints))
       ELSE UNCHANGED <<playersReady, isGameStarted>>
    /\ UNCHANGED <<endpoints, playersIds, status, recreated, clientVars, responses>>

\* The number of ready entries is compared with the number of members.
HandleReadyMsg(r) ==
    /\ Handle(r, "READY")
    /\ IF ~isGameStarted /\ IsClientAlreadyConnected(r.from)
       THEN /\ playersReady' = playersReady \cup {r.from}
            /\ isGameStarted' = (Cardinality(playersReady') = Len(endpoints))
       ELSE UNCHANGED <<playersReady, isGameStarted>>
    /\ UNCHANGED <<endpoints, playersIds, status, recreated, clientVars, responses>>

\* Mutant of HandleDisconnectMember: the entry in _playersReady stays.
HandleDisconnectMemberStillReady(c) ==
    /\ \E i \in DOMAIN endpoints :
        /\ endpoints[i] = c
        /\ endpoints' = Erase(endpoints, i)
    /\ \E deleted \in SUBSET {p \in responses : p.to = c} :
           responses' = responses \ deleted
    /\ UNCHANGED playersReady
    /\ IF endpoints' = <<>>
       THEN recreated' = recreated + 1 /\ status' = "stopping"
       ELSE UNCHANGED <<recreated, status>>

\* Mutant of HandleDisconnectMember: the list is tested before the erasure.
HandleDisconnectMemberTestFirst(c) ==
    /\ \E i \in DOMAIN endpoints :
        /\ endpoints[i] = c
        /\ endpoints' = Erase(endpoints, i)
    /\ \E deleted \in SUBSET {p \in responses : p.to = c} :
           responses' = responses \ deleted
    /\ playersReady' = playersReady \ {c}
    /\ IF endpoints = <<>>
       THEN recreated' = recreated + 1 /\ status' = "stopping"
       ELSE UNCHANGED <<recreated, status>>

\* A member leaves: its packets still in the output queue are deleted, and the
\* lobby it leaves empty is recreated and told to stop.
HandleDisconnectMember(c) ==
    /\ \E i \in DOMAIN endpoints :
        /\ endpoints[i] = c
        /\ endpoints' = Erase(endpoints, i)
    /\ \E deleted \in SUBSET {p \in responses : p.to = c} :
           responses' = responses \ deleted
    /\ playersReady' = playersReady \ {c}
    /\ IF endpoints' = <<>>
       THEN recreated' = recreated + 1 /\ status' = "stopping"
       ELSE UNCHANGED <<recreated, status>>

HandleDisconnectMsg(r) ==
    /\ Handle(r, "DISCONNECT_LOBBY")
    /\ HandleDisconnectMember(r.from)
    /\ UNCHANGED <<playersIds, isGameStarted, clientVars>>

\* A client that is not a member: std::remove finds nothing, list::erase is
\* given the end iterator and frees a node that was never allocated.
HandleDisconnectStranger(r) ==
    /\ Handle(r, "DISCONNECT_LOBBY")
    /\ ~IsClientAlreadyConnected(r.from)
    /\ status' = "aborted"
    /\ UNCHANGED <<endpoints, playersIds, playersReady, isGameStarted, recreated,
                   clientVars, responses>>

\* SceneManager::run returns in the main thread, which stops the transport.
MainThreadStops ==
    /\ status = "stopping"
    /\ status' = "stopped"
    /\ UNCHANGED <<endpoints, playersIds, playersReady, isGameStarted, recreated,
                   clientVars, requests, responses>>

-----------------------------------------------------------------------------

Client(c) ==
    \/ ConnectLobbySelected(c)
    \/ ReceiveConnectLobbyResp(c)
    \/ SendInitPacket(c)
    \/ SendReadyPacket(c)
    \/ QuitGame(c)
    \/ Crash(c)

Handler(r) ==
    \/ HandleConnectLobbyMsg(r)
    \/ HandleInitMsg(r)
    \/ HandleReadyMsg(r)
    \/ HandleDisconnectMsg(r)
    \/ HandleDisconnectStranger(r)

Next ==
    \/ \E c \in Clients : Client(c)
    \/ \E r \in requests : Handler(r)
    \/ MainThreadStops

Spec == Init /\ [][Next]_vars

-----------------------------------------------------------------------------
(* Properties *)

\* The types of the state.  An id is a position in a lobby of MaxPlayers.
TypeOK ==
    /\ endpoints \in Seq(Clients)
    /\ playersIds \in [Clients -> (0 .. MaxPlayers - 1) \cup {None}]
    /\ playersReady \in SUBSET Clients
    /\ isGameStarted \in BOOLEAN
    /\ status \in Statuses
    /\ recreated \in Nat
    /\ scene \in [Clients -> Scenes]
    /\ toInit \in [Clients -> BOOLEAN]
    /\ readyButton \in [Clients -> BOOLEAN]
    /\ sent \in 0 .. MaxSent
    /\ requests \in SUBSET Request
    /\ responses \in SUBSET Response

\* Two sessions of a client, or two INIT packets of one session, never leave
\* it in the list twice: erasing a member removes it.
MembersDistinct ==
    \A i, j \in DOMAIN endpoints : endpoints[i] = endpoints[j] => i = j

\* Clients that were told there is room race for it, and the lobby never takes
\* more than it has.
NeverOverfull == Len(endpoints) <= MaxPlayers

\* handleReadyMsg compares two sizes.  That says something only because
\* whoever leaves takes his entry along: the ready are members.
ReadyAreMembers == playersReady \subseteq Members

\* The game starts only when every member at that moment is ready, although
\* members leave, come back and are ready twice.
StartOnlyWhenAllReady ==
    [][~isGameStarted /\ isGameStarted' => Members' \subseteq playersReady']_vars

\* A lobby that players have joined and all have left has called recreateLobby
\* for its replacement and is on its way out: it never lingers, empty and perhaps
\* started, where the main server still lists it.
EmptiedIsReplaced ==
    /\ endpoints = <<>>
    /\ \E c \in Clients : playersIds[c] # None
    /\ status # "aborted"
    => status \in {"stopping", "stopped"} /\ recreated > 0

\* What the protocol says of the id of a player: it is unique for each client.
MemberIdsUnique ==
    \A c, d \in Members : playersIds[c] = playersIds[d] => c = d

\* What the protocol says of READY: the lobby waits that all players connected
\* are ready to start the game, so a lobby does not wait when they are.
AllReadyIsStarted ==
    status = "running" /\ endpoints # <<>> /\ Members \subseteq playersReady =>
        isGameStarted

\* Lost, reordered and repeated requests, answers that promise a place and keep
\* none, a list that members are erased from and two sizes that are compared come
\* to no more than LobbyService: the lobby is a set that clients join, get ready
\* in and leave, whose game starts when the ready are the members.
Service == INSTANCE LobbyService WITH
    members <- Members,
    ready <- playersReady,
    started <- isGameStarted,
    process <- status,
    forks <- recreated

ImplementsService == Service!Spec
=============================================================================
