------------------------------- MODULE Client --------------------------------
(***************************************************************************)
(* The session of one client: its scenes, the list of the lobbies it pages *)
(* through, the lobby it joins and leaves, the countdown that ends a game, *)
(* and as much of the servers as answers it.                               *)
(*                                                                         *)
(* Buttons, keys and systems run in the main thread, handlers of packets   *)
(* in the input thread; a handler runs whatever the scene is, for the only *)
(* thing that handleBodyAction looks at is the address of the sender.      *)
(* Packets are handled at most once, in any order, perhaps never: those of *)
(* a kind are alike, so the ones under way are counted.                    *)
(***************************************************************************)
EXTENDS Integers, Sequences

CONSTANTS
    Lobbies,    \* endpoints of the lobbies the main server may list
    RowNb,      \* rows of a page, 5 in the code
    Countdown,  \* secondBeforeEnd, 5 in the code
    MaxClicks,  \* bound: clicks on the connect buttons
    None        \* no lobby, no clock

ASSUME ClientAssumption ==
    /\ RowNb \in Nat \ {0}
    /\ Countdown \in Nat \ {0}
    /\ MaxClicks \in Nat

ASSUME NoneAssumption == None \notin Lobbies /\ None \notin Nat

VARIABLES
    scene,         \* the current scene, or closed
    lobbyEndpoint, \* _serverEndpoint
    toInit,        \* sendInitPacket is among the systems
    asked,         \* the main server has been asked for its lobbies
    listed,        \* the entities with a lobby_s, in their order
    rows,          \* the LobbyStatus of each row
    pageNbr,       \* LobbyStatus::pageNbr, static
    pageMax,       \* LobbyStatus::pageMax, static
    endHandlers,   \* how often handleEndGameEvent is among the systems
    restart,       \* its static restart
    clock,         \* its static clock: elapsed seconds, up to Countdown
    shown,         \* history: seconds since END_GAME in this scene
    clicks,        \* clicks so far
    toMain,        \* CONNECT_MAIN_SERVER packets under way
    fromMain,      \* CONNECT_MAIN_SERVER_RESP packets under way
    connects,      \* CONNECT_LOBBY packets under way, by lobby
    accepts,       \* CONNECT_LOBBY_RESP packets that say yes, by lobby
    inits,         \* INIT packets, by lobby
    disconnects,   \* DISCONNECT_LOBBY packets, by lobby
    endGames,      \* END_GAME packets, by lobby
    member,        \* lobbies that have this client among their endpoints
    up,            \* lobbies that run
    ended,         \* lobbies whose game is over
    late,          \* history: an answer that changes the scene came in a game
    disturbed      \* history: a countdown did not run alone to its end

listVars == <<asked, listed, rows, pageNbr, pageMax>>
countVars == <<endHandlers, restart, clock, shown, disturbed>>
lobbyVars == <<member, up, ended>>
mainPackets == <<toMain, fromMain>>
lobbyPackets == <<connects, accepts, inits, disconnects, endGames>>
vars == <<scene, lobbyEndpoint, toInit, listVars, countVars, clicks, mainPackets,
          lobbyPackets, lobbyVars, late>>

Scenes == {"LOADING_SCREEN", "MENU", "CREATE_SERVER_SCENE", "SELECT_LOBBY",
           "CREATE_LOBBY_SCENE", "GAME"}

\* resetSelectedLobby: rows that offer nothing.
Blank == [i \in 1 .. RowNb |-> None]
NoPackets == [l \in Lobbies |-> 0]

Init ==
    /\ scene = "LOADING_SCREEN"
    /\ lobbyEndpoint = None
    /\ toInit = FALSE
    /\ asked = FALSE
    /\ listed = <<>>
    /\ rows = Blank
    /\ pageNbr = 1
    /\ pageMax = 1
    /\ endHandlers = 0
    /\ restart = FALSE
    /\ clock = None
    /\ shown = 0
    /\ clicks = 0
    /\ toMain = 0
    /\ fromMain = 0
    /\ connects = NoPackets
    /\ accepts = NoPackets
    /\ inits = NoPackets
    /\ disconnects = NoPackets
    /\ endGames = NoPackets
    /\ member = {}
    /\ up = Lobbies
    /\ ended = {}
    /\ late = FALSE
    /\ disturbed = FALSE

-----------------------------------------------------------------------------
(* Scenes *)

\* SceneManager::changeScene: the registry is cleared and every system manager
\* has its own systems again, those of a game with sendInitPacket.
ChangeScene(s) ==
    /\ scene' = s
    /\ toInit' = (s = "GAME")
    /\ listed' = <<>>
    /\ rows' = Blank
    /\ endHandlers' = 0
    /\ shown' = 0
    /\ UNCHANGED <<asked, pageNbr, pageMax, clock>>

\* A change of scene that is not the end of a countdown.
GoTo(s) ==
    /\ ChangeScene(s)
    /\ disturbed' = (disturbed \/ endHandlers > 0)
    /\ UNCHANGED restart

\* initTextures has loaded the last texture.
Loaded ==
    /\ scene = "LOADING_SCREEN"
    /\ GoTo("MENU")
    /\ UNCHANGED <<lobbyEndpoint, clicks, mainPackets, lobbyPackets, lobbyVars, late>>

\* The buttons that only go somewhere: goCreateServer, goMenu,
\* onButtonGotoCreateLobbyClicked, gotToSelectLobby.
GoButton ==
    /\ \/ scene = "MENU" /\ GoTo("CREATE_SERVER_SCENE")
       \/ scene = "CREATE_SERVER_SCENE" /\ GoTo("MENU")
       \/ scene = "SELECT_LOBBY" /\ GoTo("CREATE_LOBBY_SCENE")
       \/ scene = "CREATE_LOBBY_SCENE" /\ GoTo("SELECT_LOBBY")
    /\ UNCHANGED <<lobbyEndpoint, clicks, mainPackets, lobbyPackets, lobbyVars, late>>

\* disconnectLobby
SendDisconnect == disconnects' = [disconnects EXCEPT ![lobbyEndpoint] = @ + 1]

\* Mutant of LeaveLobby: the lobby is not told.
LeaveLobbySilently == UNCHANGED <<connects, accepts, inits, disconnects, endGames>>

LeaveLobby == SendDisconnect /\ UNCHANGED <<connects, accepts, inits, endGames>>

\* quitScene: Escape.
QuitScene ==
    /\ \/ /\ scene \in {"MENU", "LOADING_SCREEN"}
          /\ scene' = "closed"
          /\ UNCHANGED <<toInit, listVars, countVars, lobbyPackets>>
       \/ scene = "CREATE_LOBBY_SCENE" /\ GoTo("SELECT_LOBBY") /\ UNCHANGED lobbyPackets
       \/ scene \in {"SELECT_LOBBY", "CREATE_SERVER_SCENE"} /\ GoTo("MENU") /\ UNCHANGED lobbyPackets
       \/ scene = "GAME" /\ GoTo("SELECT_LOBBY") /\ LeaveLobby
    /\ UNCHANGED <<lobbyEndpoint, clicks, mainPackets, lobbyVars, late>>

-----------------------------------------------------------------------------
(* The main server and the list of the lobbies *)

Click == clicks < MaxClicks /\ clicks' = clicks + 1

\* The connect button of the menu.
InitConnection ==
    /\ scene = "MENU"
    /\ Click
    /\ toMain' = toMain + 1
    /\ UNCHANGED <<scene, lobbyEndpoint, toInit, listVars, countVars, fromMain, lobbyPackets,
                   lobbyVars, late>>

\* The main server answers whoever connects, each time.
HandleConnectMainServer ==
    /\ toMain > 0
    /\ toMain' = toMain - 1
    /\ fromMain' = fromMain + 1
    /\ UNCHANGED <<scene, lobbyEndpoint, toInit, listVars, countVars, clicks, lobbyPackets,
                   lobbyVars, late>>

\* receiveConnectMainServerResp, in any scene.
ReceiveConnectMainServerResp ==
    /\ scene # "closed"
    /\ fromMain > 0
    /\ fromMain' = fromMain - 1
    /\ GoTo("SELECT_LOBBY")
    /\ late' = (late \/ scene = "GAME")
    /\ UNCHANGED <<lobbyEndpoint, clicks, toMain, lobbyPackets, lobbyVars>>

\* sendListLobby, every two seconds.
SendListLobby ==
    /\ scene = "SELECT_LOBBY"
    /\ asked' = TRUE
    /\ UNCHANGED <<scene, lobbyEndpoint, toInit, listed, rows, pageNbr, pageMax, countVars, clicks,
                   mainPackets, lobbyPackets, lobbyVars, late>>

IsListed(l) == \E i \in DOMAIN listed : listed[i] = l

\* handleNewLobbyMsg: an answer to some LIST_LOBBY, whichever, in any scene.
HandleNewLobbyMsg(l) ==
    /\ scene # "closed"
    /\ asked
    /\ ~IsListed(l)
    /\ listed' = Append(listed, l)
    /\ UNCHANGED <<scene, lobbyEndpoint, toInit, asked, rows, pageNbr, pageMax, countVars, clicks,
                   mainPackets, lobbyPackets, lobbyVars, late>>

\* The lobbies before the current page, and the lobby of a row on it.
Before == pageNbr * RowNb - RowNb
OnPage(i) == IF Before + i <= Len(listed) THEN listed[Before + i] ELSE None

\* updateLobbyRow: a page on which there is no lobby is left as it is.
UpdateLobbyRow ==
    /\ scene = "SELECT_LOBBY"
    /\ pageMax' = 1 + Len(listed) \div RowNb
    /\ rows' = IF Before < Len(listed) THEN [i \in 1 .. RowNb |-> OnPage(i)] ELSE rows
    /\ UNCHANGED <<scene, lobbyEndpoint, toInit, asked, listed, pageNbr, countVars, clicks,
                   mainPackets, lobbyPackets, lobbyVars, late>>

\* Mutant of ResetSelectedLobby: the rows keep what they offered.
ResetSelectedLobbyNot == UNCHANGED rows

ResetSelectedLobby == rows' = Blank

\* Mutant of HasPageBefore: goBackPage stops one page late.
HasPageBeforeLate == pageNbr > 0

HasPageBefore == pageNbr > 1

\* goNextPage and goBackPage
TurnPage ==
    /\ scene = "SELECT_LOBBY"
    /\ \/ pageNbr < pageMax /\ pageNbr' = pageNbr + 1
       \/ HasPageBefore /\ pageNbr' = pageNbr - 1
    /\ ResetSelectedLobby
    /\ UNCHANGED <<scene, lobbyEndpoint, toInit, asked, listed, pageMax, countVars, clicks,
                   mainPackets, lobbyPackets, lobbyVars, late>>

-----------------------------------------------------------------------------
(* A lobby *)

\* setLobbyEndpoint: the lobby there was is no peer any more.
SetLobbyEndpoint(l) == lobbyEndpoint' = l

\* connectLobbySelected: setLobbyEndpoint, then CONNECT_LOBBY.
ConnectLobbySelected(i) ==
    /\ scene = "SELECT_LOBBY"
    /\ rows[i] # None
    /\ Click
    /\ SetLobbyEndpoint(rows[i])
    /\ connects' = [connects EXCEPT ![rows[i]] = @ + 1]
    /\ UNCHANGED <<scene, toInit, listVars, countVars, mainPackets, accepts, inits, disconnects,
                   endGames, lobbyVars, late>>

\* The lobby has room, or it has none, has started or is gone.
HandleConnectLobbyMsg(l) ==
    /\ connects[l] > 0
    /\ connects' = [connects EXCEPT ![l] = @ - 1]
    /\ \/ l \in up /\ accepts' = [accepts EXCEPT ![l] = @ + 1]
       \/ UNCHANGED accepts
    /\ UNCHANGED <<scene, lobbyEndpoint, toInit, listVars, countVars, clicks, mainPackets, inits,
                   disconnects, endGames, lobbyVars, late>>

\* receiveConnectLobbyResp, in any scene and from any lobby.
ReceiveConnectLobbyResp(l) ==
    /\ scene # "closed"
    /\ accepts[l] > 0
    /\ accepts' = [accepts EXCEPT ![l] = @ - 1]
    /\ GoTo("GAME")
    /\ late' = (late \/ scene = "GAME")
    /\ UNCHANGED <<lobbyEndpoint, clicks, mainPackets, connects, inits, disconnects, endGames,
                   lobbyVars>>

\* sendInitPacket: to the endpoint there is by now.
SendInitPacket ==
    /\ scene = "GAME"
    /\ toInit
    /\ inits' = [inits EXCEPT ![lobbyEndpoint] = @ + 1]
    /\ toInit' = FALSE
    /\ UNCHANGED <<scene, lobbyEndpoint, listVars, countVars, clicks, mainPackets, connects, accepts,
                   disconnects, endGames, lobbyVars, late>>

\* The lobby takes the client, or it has no room, has started or has it already.
HandleInitMsg(l) ==
    /\ inits[l] > 0
    /\ inits' = [inits EXCEPT ![l] = @ - 1]
    /\ \/ l \in up /\ member' = member \cup {l}
       \/ UNCHANGED member
    /\ UNCHANGED <<scene, lobbyEndpoint, toInit, listVars, countVars, clicks, mainPackets, connects,
                   accepts, disconnects, endGames, up, ended, late>>

\* The lobby strikes the client off, or aborts if it has no such client.
HandleDisconnectMsg(l) ==
    /\ disconnects[l] > 0
    /\ l \in up
    /\ disconnects' = [disconnects EXCEPT ![l] = @ - 1]
    /\ member' = member \ {l}
    /\ up' = IF l \in member THEN up ELSE up \ {l}
    /\ UNCHANGED <<scene, lobbyEndpoint, toInit, listVars, countVars, clicks, mainPackets, connects,
                   accepts, inits, endGames, ended, late>>

-----------------------------------------------------------------------------
(* The end of a game *)

\* The last player dies, once: END_GAME to every member.
EndOfGame(l) ==
    /\ l \in up \ ended
    /\ ended' = ended \cup {l}
    /\ endGames' = [endGames EXCEPT ![l] = IF l \in member THEN @ + 1 ELSE @]
    /\ UNCHANGED <<scene, lobbyEndpoint, toInit, listVars, countVars, clicks, mainPackets, connects,
                   accepts, inits, disconnects, member, up, late>>

\* receiveEndGame: one more handleEndGameEvent, in any scene and from any lobby.
ReceiveEndGame(l) ==
    /\ scene # "closed"
    /\ endGames[l] > 0
    /\ endGames' = [endGames EXCEPT ![l] = @ - 1]
    /\ endHandlers' = endHandlers + 1
    /\ disturbed' = (disturbed \/ endHandlers > 0)
    /\ UNCHANGED <<scene, lobbyEndpoint, toInit, listVars, restart, clock, shown, clicks, mainPackets,
                   connects, accepts, inits, disconnects, lobbyVars, late>>

\* The clock of this call: made by the first call, restarted after a countdown.
Elapsed == IF clock = None \/ restart THEN 0 ELSE clock

\* A call of handleEndGameEvent during the countdown.
HandleEndGameEvent ==
    /\ scene = "GAME"
    /\ endHandlers > 0
    /\ Elapsed < Countdown
    /\ clock' = Elapsed
    /\ restart' = FALSE
    /\ UNCHANGED <<scene, lobbyEndpoint, toInit, listVars, endHandlers, shown, disturbed, clicks,
                   mainPackets, lobbyPackets, lobbyVars, late>>

\* Mutant of RestartNextTime: the next countdown goes on where this one ended.
RestartNextTimeNot == UNCHANGED restart

RestartNextTime == restart' = TRUE

\* The call that finds the countdown over.
EndGameRedirect ==
    /\ scene = "GAME"
    /\ endHandlers > 0
    /\ Elapsed >= Countdown
    /\ LeaveLobby
    /\ RestartNextTime
    /\ ChangeScene("SELECT_LOBBY")
    /\ UNCHANGED <<lobbyEndpoint, disturbed, clicks, mainPackets, lobbyVars, late>>

\* A second passes.
UpTo(n) == IF n < Countdown THEN n + 1 ELSE n

Tick ==
    /\ clock # None \/ endHandlers > 0
    /\ clock' = IF clock = None THEN None ELSE UpTo(clock)
    /\ shown' = IF endHandlers > 0 THEN UpTo(shown) ELSE shown
    /\ UNCHANGED <<scene, lobbyEndpoint, toInit, listVars, endHandlers, restart, disturbed, clicks,
                   mainPackets, lobbyPackets, lobbyVars, late>>

-----------------------------------------------------------------------------

Next ==
    \/ Loaded \/ GoButton \/ QuitScene
    \/ InitConnection \/ HandleConnectMainServer \/ ReceiveConnectMainServerResp
    \/ SendListLobby \/ UpdateLobbyRow \/ TurnPage
    \/ SendInitPacket
    \/ HandleEndGameEvent \/ EndGameRedirect \/ Tick
    \/ \E i \in 1 .. RowNb : ConnectLobbySelected(i)
    \/ \E l \in Lobbies :
          \/ HandleNewLobbyMsg(l)
          \/ HandleConnectLobbyMsg(l) \/ ReceiveConnectLobbyResp(l)
          \/ HandleInitMsg(l) \/ HandleDisconnectMsg(l)
          \/ EndOfGame(l) \/ ReceiveEndGame(l)

Spec == Init /\ [][Next]_vars

-----------------------------------------------------------------------------
(* Properties *)

\* The types of the state.
TypeOK ==
    /\ scene \in Scenes \cup {"closed"}
    /\ lobbyEndpoint \in Lobbies \cup {None}
    /\ toInit \in BOOLEAN
    /\ asked \in BOOLEAN
    /\ listed \in Seq(Lobbies)
    /\ rows \in [1 .. RowNb -> Lobbies \cup {None}]
    /\ pageNbr \in Nat \ {0}
    /\ pageMax \in Nat \ {0}
    /\ endHandlers \in Nat
    /\ restart \in BOOLEAN
    /\ clock \in 0 .. Countdown \cup {None}
    /\ shown \in 0 .. Countdown
    /\ clicks \in 0 .. MaxClicks
    /\ toMain \in Nat
    /\ fromMain \in Nat
    /\ connects \in [Lobbies -> Nat]
    /\ accepts \in [Lobbies -> Nat]
    /\ inits \in [Lobbies -> Nat]
    /\ disconnects \in [Lobbies -> Nat]
    /\ endGames \in [Lobbies -> Nat]
    /\ member \subseteq Lobbies
    /\ up \subseteq Lobbies
    /\ ended \subseteq Lobbies
    /\ late \in BOOLEAN
    /\ disturbed \in BOOLEAN

\* A lobby that counts the client among its players is the one whose game it is
\* in, or a DISCONNECT_LOBBY is under way to it: nobody waits for a client that has
\* moved on, although the answers to its clicks come in any order and from lobbies
\* it no longer wants.  Not so once such an answer comes in the middle of a game.
OneLobbyAtATime ==
    ~late => \A l \in member \cap up :
        (scene = "GAME" /\ lobbyEndpoint = l) \/ disconnects[l] > 0

\* A row offers the lobby that stands there on the page shown, or nothing: a click
\* never connects to a lobby of another page or of an earlier visit, although page
\* and rows are updated apart and the number of the page outlives the scene.
RowsOfPage ==
    scene = "SELECT_LOBBY" =>
        \A i \in 1 .. RowNb : rows[i] # None => rows[i] = OnPage(i)

\* The end of a game is on screen for the whole countdown before the client leaves,
\* in every game, although the clock is static and has run since the last one;
\* unless a countdown was cut short by Escape or an answer, or two ran at once.
CountdownIsFull == [][EndGameRedirect /\ ~disturbed => shown = Countdown]_vars
=============================================================================
