---------------------------- MODULE ClientProofs ----------------------------
(***************************************************************************)
(* Proofs about the session of a client, for any lobbies, any number of    *)
(* rows on a page, any length of the countdown and any number of clicks.   *)
(***************************************************************************)
EXTENDS Client, SequenceTheorems, TLAPS

-----------------------------------------------------------------------------
(* Types *)

\* The scenes, and what a change of scene leaves of the types.
LEMMA ChangeSceneTypes ==
    ASSUME TypeOK, NEW s \in Scenes, ChangeScene(s)
    PROVE  /\ scene' \in Scenes
           /\ toInit' \in BOOLEAN
           /\ asked' \in BOOLEAN
           /\ listed' \in Seq(Lobbies)
           /\ rows' \in [1 .. RowNb -> Lobbies \cup {None}]
           /\ pageNbr' \in Nat \ {0}
           /\ pageMax' \in Nat \ {0}
           /\ endHandlers' \in Nat
           /\ shown' \in 0 .. Countdown
           /\ clock' \in 0 .. Countdown \cup {None}
  BY ClientAssumption, EmptySeq DEF ChangeScene, TypeOK, Blank

\* GoTo keeps the types of the list and of the countdown.
LEMMA GoToTypes ==
    ASSUME TypeOK, NEW s \in Scenes, GoTo(s),
           UNCHANGED <<lobbyEndpoint, clicks, toMain, connects, inits, endGames, lobbyVars>>,
           fromMain' \in Nat, late' \in BOOLEAN,
           accepts' \in [Lobbies -> Nat], disconnects' \in [Lobbies -> Nat]
    PROVE  TypeOK'
<1>1. ChangeScene(s) /\ disturbed' \in BOOLEAN /\ UNCHANGED restart
  BY DEF GoTo, TypeOK
<1> QED
  BY <1>1, ChangeSceneTypes DEF TypeOK, lobbyVars

\* A packet more or less, of those that are counted.
LEMMA CountTypes ==
    ASSUME NEW f \in [Lobbies -> Nat], NEW l
    PROVE  /\ [f EXCEPT ![l] = @ + 1] \in [Lobbies -> Nat]
           /\ f[l] > 0 => [f EXCEPT ![l] = @ - 1] \in [Lobbies -> Nat]
<1>1. CASE l \in Lobbies
  <2>1. f[l] \in Nat
    BY <1>1
  <2>2. f[l] + 1 \in Nat /\ (f[l] > 0 => f[l] - 1 \in Nat)
    BY <2>1
  <2> QED
    BY <1>1, <2>2
<1>2. CASE l \notin Lobbies
  BY <1>2
<1> QED
  BY <1>1, <1>2

\* A product is no less than a factor.
LEMMA Multiple ==
    ASSUME NEW n \in Nat, n >= 1, NEW m \in Nat
    PROVE  n * m \in Nat /\ n * m >= m
<1>1. n * m = m + (n - 1) * m
  OBVIOUS
<1>2. (n - 1) * m \in Nat
  OBVIOUS
<1> QED
  BY <1>1, <1>2

LEMMA InitTypeOK == Init => TypeOK
<1> SUFFICES ASSUME Init PROVE TypeOK
  OBVIOUS
<1>1. listed \in Seq(Lobbies)
  BY EmptySeq DEF Init
<1>2. rows \in [1 .. RowNb -> Lobbies \cup {None}]
  BY DEF Init, Blank
<1>3. NoPackets \in [Lobbies -> Nat]
  BY DEF NoPackets
<1>4. shown \in 0 .. Countdown /\ clicks \in 0 .. MaxClicks
  BY ClientAssumption DEF Init
<1>5. clock \in 0 .. Countdown \cup {None}
  BY DEF Init
<1>6. scene \in Scenes /\ member \subseteq Lobbies /\ up \subseteq Lobbies /\ ended \subseteq Lobbies
  BY DEF Init, Scenes
<1>7. /\ connects \in [Lobbies -> Nat]
      /\ accepts \in [Lobbies -> Nat]
      /\ inits \in [Lobbies -> Nat]
      /\ disconnects \in [Lobbies -> Nat]
      /\ endGames \in [Lobbies -> Nat]
  BY <1>3 DEF Init
<1>8. /\ pageNbr \in Nat \ {0}
      /\ pageMax \in Nat \ {0}
      /\ endHandlers \in Nat
      /\ toMain \in Nat
      /\ fromMain \in Nat
  BY DEF Init
<1>9. lobbyEndpoint \in Lobbies \cup {None}
  BY DEF Init
<1>10. {toInit, asked, restart, late, disturbed} \subseteq BOOLEAN
  BY DEF Init
<1> QED
  BY <1>1, <1>2, <1>4, <1>5, <1>6, <1>7, <1>8, <1>9, <1>10 DEF TypeOK

LEMMA NextTypeOK ==
    ASSUME TypeOK, [Next]_vars
    PROVE  TypeOK'
<1> USE DEF vars, listVars, countVars, lobbyVars, mainPackets, lobbyPackets
<1>1. CASE UNCHANGED vars
  BY <1>1 DEF TypeOK
<1>0. /\ fromMain \in Nat /\ late \in BOOLEAN
      /\ accepts \in [Lobbies -> Nat] /\ disconnects \in [Lobbies -> Nat]
      /\ connects \in [Lobbies -> Nat] /\ inits \in [Lobbies -> Nat]
      /\ endGames \in [Lobbies -> Nat]
  BY DEF TypeOK
<1>2. CASE Loaded
  <2>1. GoTo("MENU") /\ "MENU" \in Scenes
    BY <1>2 DEF Loaded, Scenes
  <2>2. UNCHANGED <<lobbyEndpoint, clicks, mainPackets, lobbyPackets, lobbyVars, late>>
    BY <1>2 DEF Loaded
  <2> QED
    BY <1>0, <2>1, <2>2, GoToTypes
<1>3. CASE GoButton
  <2>1. PICK s \in Scenes : GoTo(s)
    BY <1>3 DEF GoButton, Scenes
  <2>2. UNCHANGED <<lobbyEndpoint, clicks, mainPackets, lobbyPackets, lobbyVars, late>>
    BY <1>3 DEF GoButton
  <2> QED
    BY <1>0, <2>1, <2>2, GoToTypes
<1>4. CASE QuitScene
  <2>1. CASE scene' = "closed" /\ UNCHANGED <<toInit, listVars, countVars, lobbyPackets>>
    BY <1>4, <2>1 DEF QuitScene, TypeOK
  <2>2. CASE scene = "GAME" /\ GoTo("SELECT_LOBBY") /\ LeaveLobby
    <3>1. disconnects' \in [Lobbies -> Nat]
      BY <1>0, <2>2, CountTypes DEF LeaveLobby, SendDisconnect
    <3>2. UNCHANGED <<lobbyEndpoint, clicks, mainPackets, lobbyVars, late,
                      connects, accepts, inits, endGames>>
      BY <1>4, <2>2 DEF QuitScene, LeaveLobby
    <3>3. "SELECT_LOBBY" \in Scenes
      BY DEF Scenes
    <3> QED
      BY <1>0, <2>2, <3>1, <3>2, <3>3, GoToTypes
  <2>3. CASE \E s \in Scenes : GoTo(s) /\ UNCHANGED lobbyPackets
    <3>1. PICK s \in Scenes : GoTo(s) /\ UNCHANGED lobbyPackets
      BY <2>3
    <3>2. UNCHANGED <<lobbyEndpoint, clicks, mainPackets, lobbyVars, late>>
      BY <1>4 DEF QuitScene
    <3> QED
      BY <1>0, <3>1, <3>2, GoToTypes
  <2> QED
    BY <1>4, <2>1, <2>2, <2>3 DEF QuitScene, Scenes
<1>5. CASE InitConnection \/ HandleConnectMainServer \/ SendListLobby
  <2>1. CASE InitConnection
    <3>1. clicks' \in 0 .. MaxClicks /\ toMain' \in Nat
      BY <2>1, ClientAssumption DEF InitConnection, Click, TypeOK
    <3> QED
      BY <2>1, <3>1 DEF InitConnection, TypeOK
  <2>2. CASE HandleConnectMainServer
    <3>1. toMain' \in Nat /\ fromMain' \in Nat
      BY <2>2 DEF HandleConnectMainServer, TypeOK
    <3> QED
      BY <2>2, <3>1 DEF HandleConnectMainServer, TypeOK
  <2>3. CASE SendListLobby
    BY <2>3 DEF SendListLobby, TypeOK
  <2> QED
    BY <1>5, <2>1, <2>2, <2>3
<1>6. CASE ReceiveConnectMainServerResp
  <2>1. GoTo("SELECT_LOBBY") /\ "SELECT_LOBBY" \in Scenes
    BY <1>6 DEF ReceiveConnectMainServerResp, Scenes
  <2>2. UNCHANGED <<lobbyEndpoint, clicks, toMain, lobbyPackets, lobbyVars>>
    BY <1>6 DEF ReceiveConnectMainServerResp
  <2>3. fromMain' \in Nat /\ late' \in BOOLEAN
    BY <1>0, <1>6 DEF ReceiveConnectMainServerResp
  <2> QED
    BY <1>0, <2>1, <2>2, <2>3, GoToTypes
<1>7. CASE UpdateLobbyRow
  <2>1. pageMax' \in Nat \ {0}
    <3>1. Len(listed) \in Nat
      BY LenProperties DEF TypeOK
    <3>2. Len(listed) \div RowNb \in Nat
      BY <3>1, ClientAssumption
    <3> QED
      BY <1>7, <3>2 DEF UpdateLobbyRow
  <2>2. rows' \in [1 .. RowNb -> Lobbies \cup {None}]
    <3>1. ASSUME NEW i \in 1 .. RowNb PROVE OnPage(i) \in Lobbies \cup {None}
      <4>1. Before + i \in Nat \ {0}
        <5>1. pageNbr \in Nat /\ pageNbr >= 1 /\ RowNb \in Nat
          BY ClientAssumption DEF TypeOK
        <5>2. pageNbr * RowNb \in Nat /\ pageNbr * RowNb >= RowNb
          BY <5>1, Multiple
        <5> QED
          BY <5>1, <5>2 DEF Before
      <4> QED
        BY <4>1, ElementOfSeq DEF OnPage, TypeOK
    <3> QED
      BY <1>7, <3>1 DEF UpdateLobbyRow, TypeOK
  <2> QED
    BY <1>7, <2>1, <2>2 DEF UpdateLobbyRow, TypeOK
<1>8. CASE TurnPage
  <2>1. pageNbr' \in Nat \ {0} /\ rows' \in [1 .. RowNb -> Lobbies \cup {None}]
    BY <1>8 DEF TurnPage, HasPageBefore, ResetSelectedLobby, Blank, TypeOK
  <2> QED
    BY <1>8, <2>1 DEF TurnPage, TypeOK
<1>9. CASE SendInitPacket
  <2>1. inits' \in [Lobbies -> Nat]
    <3>1. inits' = [inits EXCEPT ![lobbyEndpoint] = @ + 1]
      BY <1>9 DEF SendInitPacket
    <3> QED
      BY <1>0, <3>1, CountTypes
  <2> QED
    BY <1>9, <2>1 DEF SendInitPacket, TypeOK
<1>10. CASE HandleEndGameEvent
  <2>1. clock' \in 0 .. Countdown \cup {None}
    BY <1>10, ClientAssumption DEF HandleEndGameEvent, Elapsed, TypeOK
  <2> QED
    BY <1>10, <2>1 DEF HandleEndGameEvent, TypeOK
<1>11. CASE EndGameRedirect
  <2>1. disconnects' \in [Lobbies -> Nat]
    <3>1. disconnects' = [disconnects EXCEPT ![lobbyEndpoint] = @ + 1]
      BY <1>11 DEF EndGameRedirect, LeaveLobby, SendDisconnect
    <3> QED
      BY <1>0, <3>1, CountTypes
  <2>2. ChangeScene("SELECT_LOBBY") /\ restart' \in BOOLEAN
    BY <1>11 DEF EndGameRedirect, RestartNextTime
  <2>3. "SELECT_LOBBY" \in Scenes
    BY DEF Scenes
  <2> QED
    BY <1>11, <2>1, <2>2, <2>3, ChangeSceneTypes DEF EndGameRedirect, LeaveLobby, TypeOK
<1>12. CASE Tick
  <2>1. ASSUME NEW n \in 0 .. Countdown PROVE UpTo(n) \in 0 .. Countdown
    BY ClientAssumption DEF UpTo
  <2>2. clock \in 0 .. Countdown \cup {None} /\ shown \in 0 .. Countdown
    BY DEF TypeOK
  <2>3. clock' \in 0 .. Countdown \cup {None}
    <3>1. clock' = IF clock = None THEN None ELSE UpTo(clock)
      BY <1>12 DEF Tick
    <3> QED
      BY <2>1, <2>2, <3>1
  <2>4. shown' \in 0 .. Countdown
    <3>1. shown' = IF endHandlers > 0 THEN UpTo(shown) ELSE shown
      BY <1>12 DEF Tick
    <3> QED
      BY <2>1, <2>2, <3>1
  <2> QED
    BY <1>12, <2>3, <2>4 DEF Tick, TypeOK
<1>13. ASSUME NEW i \in 1 .. RowNb, ConnectLobbySelected(i) PROVE TypeOK'
  <2>1. rows[i] \in Lobbies
    BY <1>13 DEF ConnectLobbySelected, TypeOK
  <2>2. connects' \in [Lobbies -> Nat]
    <3>1. connects' = [connects EXCEPT ![rows[i]] = @ + 1]
      BY <1>13 DEF ConnectLobbySelected
    <3> QED
      BY <1>0, <3>1, CountTypes
  <2>3. clicks' \in 0 .. MaxClicks
    BY <1>13, ClientAssumption DEF ConnectLobbySelected, Click, TypeOK
  <2> QED
    BY <1>13, <2>1, <2>2, <2>3 DEF ConnectLobbySelected, SetLobbyEndpoint, TypeOK
<1>14. ASSUME NEW l \in Lobbies, HandleNewLobbyMsg(l) PROVE TypeOK'
  BY <1>14, AppendProperties DEF HandleNewLobbyMsg, TypeOK
<1>15. ASSUME NEW l \in Lobbies,
              \/ HandleConnectLobbyMsg(l)
              \/ HandleInitMsg(l)
              \/ HandleDisconnectMsg(l)
       PROVE  TypeOK'
  <2>1. CASE HandleConnectLobbyMsg(l)
    <3>1. connects' \in [Lobbies -> Nat]
      <4>1. connects[l] > 0 /\ connects' = [connects EXCEPT ![l] = @ - 1]
        BY <2>1 DEF HandleConnectLobbyMsg
      <4> QED
        BY <1>0, <4>1, CountTypes
    <3>2. accepts' \in [Lobbies -> Nat]
      <4>1. accepts' = [accepts EXCEPT ![l] = @ + 1] \/ accepts' = accepts
        BY <2>1 DEF HandleConnectLobbyMsg
      <4> QED
        BY <1>0, <4>1, CountTypes
    <3> QED
      BY <2>1, <3>1, <3>2 DEF HandleConnectLobbyMsg, TypeOK
  <2>2. CASE HandleInitMsg(l)
    <3>1. inits' \in [Lobbies -> Nat]
      <4>1. inits[l] > 0 /\ inits' = [inits EXCEPT ![l] = @ - 1]
        BY <2>2 DEF HandleInitMsg
      <4> QED
        BY <1>0, <4>1, CountTypes
    <3> QED
      BY <2>2, <3>1 DEF HandleInitMsg, TypeOK
  <2>3. CASE HandleDisconnectMsg(l)
    <3>1. disconnects' \in [Lobbies -> Nat]
      <4>1. disconnects[l] > 0 /\ disconnects' = [disconnects EXCEPT ![l] = @ - 1]
        BY <2>3 DEF HandleDisconnectMsg
      <4> QED
        BY <1>0, <4>1, CountTypes
    <3> QED
      BY <2>3, <3>1 DEF HandleDisconnectMsg, TypeOK
  <2> QED
    BY <1>15, <2>1, <2>2, <2>3
<1>16. ASSUME NEW l \in Lobbies, ReceiveConnectLobbyResp(l) PROVE TypeOK'
  <2>1. GoTo("GAME") /\ "GAME" \in Scenes
    BY <1>16 DEF ReceiveConnectLobbyResp, Scenes
  <2>2. UNCHANGED <<lobbyEndpoint, clicks, mainPackets, connects, inits, disconnects, endGames,
                    lobbyVars>>
    BY <1>16 DEF ReceiveConnectLobbyResp
  <2>3. accepts' \in [Lobbies -> Nat]
    <3>1. accepts[l] > 0 /\ accepts' = [accepts EXCEPT ![l] = @ - 1]
      BY <1>16 DEF ReceiveConnectLobbyResp
    <3> QED
      BY <1>0, <3>1, CountTypes
  <2>4. late' \in BOOLEAN
    BY <1>0, <1>16 DEF ReceiveConnectLobbyResp
  <2> QED
    BY <1>0, <2>1, <2>2, <2>3, <2>4, GoToTypes
<1>17. ASSUME NEW l \in Lobbies, EndOfGame(l) \/ ReceiveEndGame(l) PROVE TypeOK'
  <2>1. CASE EndOfGame(l)
    <3>1. endGames' \in [Lobbies -> Nat]
      <4>1. endGames' = [endGames EXCEPT ![l] = IF l \in member THEN @ + 1 ELSE @]
        BY <2>1 DEF EndOfGame
      <4> QED
        BY <1>0, <4>1
    <3> QED
      BY <2>1, <3>1 DEF EndOfGame, TypeOK
  <2>2. CASE ReceiveEndGame(l)
    <3>1. endGames' \in [Lobbies -> Nat]
      <4>1. endGames[l] > 0 /\ endGames' = [endGames EXCEPT ![l] = @ - 1]
        BY <2>2 DEF ReceiveEndGame
      <4> QED
        BY <1>0, <4>1, CountTypes
    <3>2. endHandlers' \in Nat /\ disturbed' \in BOOLEAN
      BY <2>2 DEF ReceiveEndGame, TypeOK
    <3> QED
      BY <2>2, <3>1, <3>2 DEF ReceiveEndGame, TypeOK
  <2> QED
    BY <1>17, <2>1, <2>2
<1> QED
  BY <1>1, <1>2, <1>3, <1>4, <1>5, <1>6, <1>7, <1>8, <1>9, <1>10, <1>11, <1>12, <1>13, <1>14,
     <1>15, <1>16, <1>17 DEF Next

\* The state of the client and of what it knows of the servers keeps its types.
THEOREM TypeCorrect == Spec => []TypeOK
  BY InitTypeOK, NextTypeOK, PTL DEF Spec

-----------------------------------------------------------------------------
(* One lobby at a time *)

\* The client is in a game of the lobby and has sent INIT from there.
InGameOf(l) == scene = "GAME" /\ lobbyEndpoint = l /\ ~toInit
GameNb(l) == IF InGameOf(l) THEN 1 ELSE 0
MemberNb(l) == IF l \in member THEN 1 ELSE 0

\* Every INIT that made the client a member or still may is matched by a
\* DISCONNECT_LOBBY under way or by the one that will end the present game.
Balance(l) == MemberNb(l) + inits[l] <= disconnects[l] + GameNb(l)

Balanced == ~late => \A l \in up : Balance(l)

LEMMA InitBalanced == Init => Balanced
<1> SUFFICES ASSUME Init, NEW l \in up PROVE Balance(l)
  BY DEF Balanced
<1>1. l \in Lobbies /\ inits[l] = 0 /\ disconnects[l] = 0
  BY DEF Init, NoPackets
<1>2. MemberNb(l) = 0 /\ GameNb(l) = 0
  BY DEF Init, MemberNb, GameNb, InGameOf
<1> QED
  BY <1>1, <1>2 DEF Balance

\* Steps that touch none of the four.
LEMMA StillBalanced ==
    ASSUME Balanced, UNCHANGED <<member, inits, disconnects, late>>, up' \subseteq up,
           \/ UNCHANGED <<scene, lobbyEndpoint, toInit>>
           \/ scene # "GAME" /\ scene' # "GAME"
           \/ scene # "GAME" /\ scene' = "GAME" /\ toInit'
    PROVE  Balanced'
<1>1. ASSUME NEW l \in up PROVE GameNb(l)' = GameNb(l)
  BY DEF GameNb, MemberNb, InGameOf
<1> QED
  BY <1>1 DEF Balanced, Balance, GameNb, MemberNb

\* Leaving a game: the DISCONNECT_LOBBY takes the place of the game.
LEMMA LeavingBalanced ==
    ASSUME TypeOK, Balanced, scene = "GAME", scene' = "SELECT_LOBBY", LeaveLobby,
           UNCHANGED <<late, lobbyEndpoint, member, up>>
    PROVE  Balanced'
<1> SUFFICES ASSUME ~late, NEW l \in up PROVE Balance(l)'
  BY DEF Balanced
<1>1. Balance(l) /\ GameNb(l) \in {0, 1} /\ MemberNb(l) \in {0, 1}
  BY DEF Balanced, GameNb, MemberNb
<1>2. /\ GameNb(l)' = 0
      /\ MemberNb(l)' = MemberNb(l)
      /\ inits' = inits
      /\ inits[l] \in Nat
      /\ disconnects[l] \in Nat
  BY DEF GameNb, MemberNb, InGameOf, LeaveLobby, TypeOK
<1>3. CASE lobbyEndpoint = l
  <2>1. disconnects'[l] = disconnects[l] + 1
    BY <1>3 DEF LeaveLobby, SendDisconnect, TypeOK
  <2> QED
    BY <1>1, <1>2, <2>1 DEF Balance
<1>4. CASE lobbyEndpoint # l
  <2>1. disconnects'[l] = disconnects[l] /\ GameNb(l) = 0
    BY <1>4 DEF LeaveLobby, SendDisconnect, TypeOK, GameNb, MemberNb, InGameOf
  <2> QED
    BY <1>1, <1>2, <2>1 DEF Balance
<1> QED
  BY <1>3, <1>4

LEMMA SendInitBalanced ==
    ASSUME TypeOK, Balanced, SendInitPacket
    PROVE  Balanced'
<1> USE DEF lobbyVars
<1> SUFFICES ASSUME ~late, NEW l \in up PROVE Balance(l)'
  BY DEF Balanced, SendInitPacket
<1> DEFINE SentNb == IF lobbyEndpoint = l THEN 1 ELSE 0
<1>1. Balance(l) /\ MemberNb(l) \in {0, 1}
  BY DEF Balanced, GameNb, MemberNb
<1>2. /\ GameNb(l) = 0
      /\ GameNb(l)' = SentNb
      /\ MemberNb(l)' = MemberNb(l)
      /\ inits'[l] = inits[l] + SentNb
      /\ disconnects' = disconnects
      /\ inits[l] \in Nat
      /\ disconnects[l] \in Nat
      /\ SentNb \in {0, 1}
  BY DEF GameNb, MemberNb, InGameOf, SendInitPacket, TypeOK
<1> QED
  BY <1>1, <1>2 DEF Balance

LEMMA HandleInitBalanced ==
    ASSUME TypeOK, Balanced, NEW k \in Lobbies, HandleInitMsg(k)
    PROVE  Balanced'
<1> SUFFICES ASSUME ~late, NEW l \in up PROVE Balance(l)'
  BY DEF Balanced, HandleInitMsg
<1>1. Balance(l) /\ GameNb(l) \in {0, 1} /\ MemberNb(l) \in {0, 1}
  BY DEF Balanced, GameNb, MemberNb
<1>2. /\ GameNb(l)' = GameNb(l)
      /\ disconnects' = disconnects
      /\ inits[l] \in Nat
      /\ disconnects[l] \in Nat
  BY DEF GameNb, MemberNb, InGameOf, HandleInitMsg, TypeOK
<1>3. MemberNb(l)' + inits'[l] <= MemberNb(l) + inits[l]
  <2>1. CASE k = l
    <3>1. inits'[l] = inits[l] - 1
      BY <2>1 DEF HandleInitMsg, TypeOK
    <3>2. MemberNb(l) \in {0, 1} /\ MemberNb(l)' \in {0, 1}
      BY DEF MemberNb
    <3>3. MemberNb(l)' <= MemberNb(l) + 1
      BY <3>2
    <3> QED
      BY <1>2, <3>1, <3>2, <3>3
  <2>2. CASE k # l
    <3>1. inits'[l] = inits[l] /\ (l \in member' <=> l \in member)
      BY <2>2 DEF HandleInitMsg, TypeOK
    <3>2. MemberNb(l)' = MemberNb(l) /\ MemberNb(l) \in {0, 1}
      BY <3>1 DEF MemberNb
    <3> QED
      BY <1>2, <3>1, <3>2
  <2> QED
    BY <2>1, <2>2
<1>4. inits'[l] \in Int /\ MemberNb(l)' \in Int
  BY <1>2 DEF HandleInitMsg, TypeOK, GameNb, MemberNb
<1> QED
  BY <1>1, <1>2, <1>3, <1>4 DEF Balance

LEMMA HandleDisconnectBalanced ==
    ASSUME TypeOK, Balanced, NEW k \in Lobbies, HandleDisconnectMsg(k)
    PROVE  Balanced'
<1> SUFFICES ASSUME ~late, NEW l \in up, l \in up' PROVE Balance(l)'
  BY DEF Balanced, HandleDisconnectMsg
<1>1. Balance(l) /\ GameNb(l) \in {0, 1} /\ MemberNb(l) \in {0, 1}
  BY DEF Balanced, GameNb, MemberNb
<1>2. /\ GameNb(l)' = GameNb(l)
      /\ inits' = inits
      /\ inits[l] \in Nat
      /\ disconnects[l] \in Nat
  BY DEF GameNb, MemberNb, InGameOf, HandleDisconnectMsg, TypeOK
<1>3. CASE k = l
  <2>1. l \in member
    BY <1>3 DEF HandleDisconnectMsg
  <2>2. /\ disconnects'[l] = disconnects[l] - 1
        /\ MemberNb(l) = 1
        /\ MemberNb(l)' = 0
    BY <1>3, <2>1 DEF HandleDisconnectMsg, TypeOK, GameNb, MemberNb
  <2> QED
    BY <1>1, <1>2, <2>2 DEF Balance
<1>4. CASE k # l
  <2>1. /\ disconnects'[l] = disconnects[l]
        /\ MemberNb(l)' = MemberNb(l)
    BY <1>4 DEF HandleDisconnectMsg, TypeOK, GameNb, MemberNb
  <2> QED
    BY <1>1, <1>2, <2>1 DEF Balance
<1> QED
  BY <1>3, <1>4

LEMMA NextBalanced ==
    ASSUME TypeOK, Balanced, [Next]_vars
    PROVE  Balanced'
<1> USE DEF listVars, countVars, lobbyVars, mainPackets, lobbyPackets
<1>1. CASE UNCHANGED vars
  BY <1>1, StillBalanced DEF vars
<1>2. CASE Loaded \/ GoButton
  BY <1>2, StillBalanced DEF Loaded, GoButton, GoTo, ChangeScene
<1>3. CASE QuitScene
  <2>1. CASE scene = "GAME"
    <3>1. scene' = "SELECT_LOBBY" /\ LeaveLobby
      BY <1>3, <2>1 DEF QuitScene, GoTo, ChangeScene
    <3> QED
      BY <1>3, <2>1, <3>1, LeavingBalanced DEF QuitScene
  <2>2. CASE scene # "GAME"
    BY <1>3, <2>2, StillBalanced DEF QuitScene, GoTo, ChangeScene
  <2> QED
    BY <2>1, <2>2
<1>4. CASE \/ InitConnection \/ HandleConnectMainServer \/ SendListLobby \/ UpdateLobbyRow
           \/ TurnPage \/ HandleEndGameEvent \/ Tick
  BY <1>4, StillBalanced DEF InitConnection, HandleConnectMainServer, SendListLobby, UpdateLobbyRow,
     TurnPage, HandleEndGameEvent, Tick
<1>5. CASE ReceiveConnectMainServerResp
  <2>1. CASE scene = "GAME"
    BY <1>5, <2>1 DEF ReceiveConnectMainServerResp, Balanced
  <2>2. CASE scene # "GAME"
    <3>1. scene' = "SELECT_LOBBY" /\ (late' <=> late)
      BY <1>5, <2>2 DEF ReceiveConnectMainServerResp, GoTo, ChangeScene
    <3>2. late' = late
      BY <3>1, <1>5, <2>2 DEF ReceiveConnectMainServerResp, TypeOK
    <3> QED
      BY <1>5, <2>2, <3>1, <3>2, StillBalanced DEF ReceiveConnectMainServerResp
  <2> QED
    BY <2>1, <2>2
<1>6. CASE SendInitPacket
  BY <1>6, SendInitBalanced
<1>7. CASE EndGameRedirect
  BY <1>7, LeavingBalanced DEF EndGameRedirect, ChangeScene
<1>8. ASSUME NEW i \in 1 .. RowNb, ConnectLobbySelected(i) PROVE Balanced'
  BY <1>8, StillBalanced DEF ConnectLobbySelected, SetLobbyEndpoint
<1>9. ASSUME NEW l \in Lobbies,
             \/ HandleNewLobbyMsg(l) \/ HandleConnectLobbyMsg(l)
             \/ EndOfGame(l) \/ ReceiveEndGame(l)
      PROVE  Balanced'
  BY <1>9, StillBalanced DEF HandleNewLobbyMsg, HandleConnectLobbyMsg, EndOfGame, ReceiveEndGame
<1>10. ASSUME NEW l \in Lobbies, ReceiveConnectLobbyResp(l) PROVE Balanced'
  <2>1. CASE scene = "GAME"
    BY <1>10, <2>1 DEF ReceiveConnectLobbyResp, Balanced
  <2>2. CASE scene # "GAME"
    <3>1. scene' = "GAME" /\ toInit' = TRUE
      BY <1>10 DEF ReceiveConnectLobbyResp, GoTo, ChangeScene
    <3>2. late' = late
      BY <1>10, <2>2 DEF ReceiveConnectLobbyResp, TypeOK
    <3> QED
      BY <1>10, <2>2, <3>1, <3>2, StillBalanced DEF ReceiveConnectLobbyResp
  <2> QED
    BY <2>1, <2>2
<1> QED
  BY <1>1, <1>2, <1>3, <1>4, <1>5, <1>6, <1>7, <1>8, <1>9, <1>10, HandleInitBalanced,
     HandleDisconnectBalanced DEF Next

\* No lobby waits for a client that has moved on, unless an answer came in the
\* middle of a game.
THEOREM OneLobby == Spec => []OneLobbyAtATime
<1>1. TypeOK /\ Balanced => OneLobbyAtATime
  <2> SUFFICES ASSUME TypeOK, Balanced, ~late, NEW l \in member \cap up,
                      ~(scene = "GAME" /\ lobbyEndpoint = l)
               PROVE  disconnects[l] > 0
    BY DEF OneLobbyAtATime
  <2>1. MemberNb(l) = 1 /\ GameNb(l) = 0
    BY DEF GameNb, MemberNb, InGameOf
  <2>2. Balance(l) /\ inits[l] \in Nat /\ disconnects[l] \in Nat
    BY DEF Balanced, TypeOK
  <2> QED
    BY <2>1, <2>2 DEF Balance
<1>2. TypeOK /\ Balanced /\ [Next]_vars => Balanced'
  BY NextBalanced
<1> QED
  BY TypeCorrect, InitBalanced, <1>1, <1>2, PTL DEF Spec

-----------------------------------------------------------------------------
(* The rows of the page *)

\* RowsOfPage in every scene: the rows of the others are blank.
RowsAgree == \A i \in 1 .. RowNb : rows[i] # None => rows[i] = OnPage(i)

BlankRows == \A i \in 1 .. RowNb : rows[i] = None

\* The lobby of a row stays where it is when another one is listed behind it.
LEMMA ListingAgrees ==
    ASSUME TypeOK, RowsAgree, NEW l \in Lobbies, HandleNewLobbyMsg(l)
    PROVE  RowsAgree'
<1> SUFFICES ASSUME NEW i \in 1 .. RowNb, rows[i] # None PROVE rows[i] = OnPage(i)'
  BY DEF RowsAgree, HandleNewLobbyMsg
<1>1. rows[i] = OnPage(i)
  BY DEF RowsAgree
<1>2. Before + i <= Len(listed) /\ rows[i] = listed[Before + i]
  BY <1>1 DEF OnPage
<1>3. Before' = Before /\ listed' = Append(listed, l)
  BY DEF HandleNewLobbyMsg, Before, listVars
<1>4. Before + i \in 1 .. Len(listed)
  <2>1. pageNbr \in Nat /\ pageNbr >= 1 /\ RowNb \in Nat
    BY ClientAssumption DEF TypeOK
  <2>2. pageNbr * RowNb \in Nat /\ pageNbr * RowNb >= RowNb
    BY <2>1, Multiple
  <2>3. Before + i \in Nat \ {0}
    BY <2>1, <2>2 DEF Before
  <2> QED
    BY <1>2, <2>3, LenProperties DEF TypeOK
<1>5. /\ Len(listed') = Len(listed) + 1
      /\ listed'[Before + i] = listed[Before + i]
  BY <1>3, <1>4, AppendProperties DEF TypeOK
<1>6. Before + i <= Len(listed')
  BY <1>2, <1>4, <1>5, LenProperties DEF TypeOK
<1> QED
  BY <1>2, <1>3, <1>5, <1>6 DEF OnPage

\* Every action but two blanks the rows or leaves them and the page alone.
LEMMA RowsOrPage ==
    ASSUME TypeOK, [Next]_vars
    PROVE  \/ BlankRows'
           \/ UNCHANGED <<listed, rows, pageNbr>>
           \/ \E l \in Lobbies : HandleNewLobbyMsg(l)
           \/ UpdateLobbyRow
<1> USE DEF listVars
<1>1. ASSUME NEW s, ChangeScene(s) PROVE BlankRows'
  BY <1>1 DEF ChangeScene, Blank, BlankRows
<1>2. CASE UNCHANGED vars
  BY <1>2 DEF vars
<1>3. CASE Loaded \/ GoButton \/ QuitScene
  BY <1>1, <1>3 DEF Loaded, GoButton, QuitScene, GoTo
<1>4. CASE \/ InitConnection \/ HandleConnectMainServer \/ SendListLobby \/ SendInitPacket
           \/ HandleEndGameEvent \/ Tick
  BY <1>4 DEF InitConnection, HandleConnectMainServer, SendListLobby, SendInitPacket,
     HandleEndGameEvent, Tick
<1>5. CASE ReceiveConnectMainServerResp
  BY <1>1, <1>5 DEF ReceiveConnectMainServerResp, GoTo
<1>6. CASE TurnPage
  BY <1>6 DEF TurnPage, ResetSelectedLobby, Blank, BlankRows
<1>7. CASE EndGameRedirect
  BY <1>1, <1>7 DEF EndGameRedirect
<1>8. ASSUME NEW i \in 1 .. RowNb, ConnectLobbySelected(i)
      PROVE  UNCHANGED <<listed, rows, pageNbr>>
  BY <1>8 DEF ConnectLobbySelected, SetLobbyEndpoint
<1>9. ASSUME NEW l \in Lobbies,
             \/ HandleConnectLobbyMsg(l) \/ HandleInitMsg(l) \/ HandleDisconnectMsg(l)
             \/ EndOfGame(l) \/ ReceiveEndGame(l)
      PROVE  UNCHANGED <<listed, rows, pageNbr>>
  BY <1>9 DEF HandleConnectLobbyMsg, HandleInitMsg, HandleDisconnectMsg, EndOfGame, ReceiveEndGame
<1>10. ASSUME NEW l \in Lobbies, ReceiveConnectLobbyResp(l) PROVE BlankRows'
  BY <1>1, <1>10 DEF ReceiveConnectLobbyResp, GoTo
<1> QED
  BY <1>2, <1>3, <1>4, <1>5, <1>6, <1>7, <1>8, <1>9, <1>10 DEF Next

LEMMA NextRowsAgree ==
    ASSUME TypeOK, RowsAgree, [Next]_vars
    PROVE  RowsAgree'
<1>1. CASE BlankRows'
  BY <1>1 DEF BlankRows, RowsAgree
<1>2. CASE UNCHANGED <<listed, rows, pageNbr>>
  BY <1>2 DEF RowsAgree, OnPage, Before
<1>3. CASE UpdateLobbyRow
  <2>1. \A i \in 1 .. RowNb : OnPage(i)' = OnPage(i)
    BY <1>3 DEF UpdateLobbyRow, OnPage, Before
  <2>2. CASE Before < Len(listed)
    BY <1>3, <2>1, <2>2 DEF UpdateLobbyRow, RowsAgree
  <2>3. CASE ~(Before < Len(listed))
    BY <1>3, <2>1, <2>3 DEF UpdateLobbyRow, RowsAgree
  <2> QED
    BY <2>2, <2>3
<1> QED
  BY <1>1, <1>2, <1>3, ListingAgrees, RowsOrPage

\* A row never offers a lobby of another page or of an earlier visit.
THEOREM RowsAreOfThePage == Spec => []RowsOfPage
<1>1. Init => RowsAgree
  BY DEF Init, Blank, RowsAgree
<1>2. RowsAgree => RowsOfPage
  BY DEF RowsAgree, RowsOfPage
<1>3. TypeOK /\ RowsAgree /\ [Next]_vars => RowsAgree'
  BY NextRowsAgree
<1> QED
  BY TypeCorrect, <1>1, <1>2, <1>3, PTL DEF Spec

-----------------------------------------------------------------------------
(* The countdown *)

\* While nothing disturbs a countdown, its clock is either to be restarted or made,
\* or is no further than the end of the game has been on screen.
ClockBehind ==
    ~disturbed =>
        /\ endHandlers = 0 => restart \/ clock = None
        /\ endHandlers > 0 /\ ~restart /\ clock # None => shown >= clock

\* A change of scene that is not the end of a countdown, or a step that leaves
\* the countdown alone.
LEMMA StillBehind ==
    ASSUME TypeOK, ClockBehind,
           \/ UNCHANGED countVars
           \/ \E s \in Scenes : GoTo(s)
    PROVE  ClockBehind'
<1>1. CASE UNCHANGED countVars
  BY <1>1 DEF countVars, ClockBehind
<1>2. CASE \E s \in Scenes : GoTo(s)
  <2>1. endHandlers' = 0 /\ restart' = restart /\ clock' = clock
    BY <1>2 DEF GoTo, ChangeScene
  <2>2. ~disturbed' => ~disturbed /\ ~(endHandlers > 0)
    BY <1>2 DEF GoTo
  <2>3. ~(endHandlers > 0) => endHandlers = 0
    BY DEF TypeOK
  <2> QED
    BY <2>1, <2>2, <2>3 DEF ClockBehind
<1> QED
  BY <1>1, <1>2

LEMMA EndGameBehind ==
    ASSUME TypeOK, ClockBehind, NEW l \in Lobbies, ReceiveEndGame(l)
    PROVE  ClockBehind'
<1>1. endHandlers' = endHandlers + 1 /\ restart' = restart /\ clock' = clock
  BY DEF ReceiveEndGame
<1>2. ~disturbed' => ~disturbed /\ endHandlers = 0
  <2>1. ~disturbed' => ~disturbed /\ ~(endHandlers > 0)
    BY DEF ReceiveEndGame
  <2> QED
    BY <2>1 DEF TypeOK
<1>3. endHandlers' # 0
  BY <1>1 DEF TypeOK
<1> QED
  BY <1>1, <1>2, <1>3 DEF ClockBehind

LEMMA HandlingBehind ==
    ASSUME TypeOK, ClockBehind, HandleEndGameEvent
    PROVE  ClockBehind'
<1>1. endHandlers' = endHandlers /\ endHandlers > 0 /\ shown' = shown /\ disturbed' = disturbed
  BY DEF HandleEndGameEvent
<1>2. endHandlers # 0 /\ shown >= 0
  BY <1>1, ClientAssumption DEF TypeOK
<1>3. CASE clock = None \/ restart
  <2>1. clock' = 0
    BY <1>3 DEF HandleEndGameEvent, Elapsed
  <2> QED
    BY <1>1, <1>2, <2>1 DEF ClockBehind
<1>4. CASE ~(clock = None \/ restart)
  <2>1. clock' = clock
    BY <1>4 DEF HandleEndGameEvent, Elapsed
  <2> QED
    BY <1>1, <1>2, <1>4, <2>1 DEF ClockBehind
<1> QED
  BY <1>3, <1>4

LEMMA TickBehind ==
    ASSUME TypeOK, ClockBehind, Tick
    PROVE  ClockBehind'
<1>1. endHandlers' = endHandlers /\ restart' = restart /\ disturbed' = disturbed
  BY DEF Tick
<1>2. clock = None => clock' = None
  BY DEF Tick
<1>3. ASSUME endHandlers > 0, clock # None, shown >= clock PROVE shown' >= clock'
  <2>1. clock \in Nat /\ shown \in Nat /\ Countdown \in Nat
    BY <1>3, ClientAssumption DEF TypeOK
  <2>2. clock' = UpTo(clock) /\ shown' = UpTo(shown)
    BY <1>3 DEF Tick
  <2>3. shown <= Countdown /\ clock <= Countdown
    BY <1>3, ClientAssumption DEF TypeOK
  <2> QED
    BY <1>3, <2>1, <2>2, <2>3 DEF UpTo
<1> QED
  BY <1>1, <1>2, <1>3 DEF ClockBehind

LEMMA NextClockBehind ==
    ASSUME TypeOK, ClockBehind, [Next]_vars
    PROVE  ClockBehind'
<1>1. CASE UNCHANGED vars
  BY <1>1, StillBehind DEF vars
<1>2. CASE Loaded \/ GoButton
  BY <1>2, StillBehind DEF Loaded, GoButton, Scenes
<1>3. CASE QuitScene
  BY <1>3, StillBehind DEF QuitScene, Scenes
<1>4. CASE \/ InitConnection \/ HandleConnectMainServer \/ SendListLobby \/ UpdateLobbyRow
           \/ TurnPage \/ SendInitPacket
  BY <1>4, StillBehind DEF InitConnection, HandleConnectMainServer, SendListLobby, UpdateLobbyRow,
     TurnPage, SendInitPacket
<1>5. CASE ReceiveConnectMainServerResp
  BY <1>5, StillBehind DEF ReceiveConnectMainServerResp, Scenes
<1>6. CASE EndGameRedirect
  BY <1>6 DEF EndGameRedirect, RestartNextTime, ChangeScene, ClockBehind
<1>7. ASSUME NEW i \in 1 .. RowNb, ConnectLobbySelected(i) PROVE ClockBehind'
  BY <1>7, StillBehind DEF ConnectLobbySelected, SetLobbyEndpoint
<1>8. ASSUME NEW l \in Lobbies,
             \/ HandleNewLobbyMsg(l) \/ HandleConnectLobbyMsg(l) \/ HandleInitMsg(l)
             \/ HandleDisconnectMsg(l) \/ EndOfGame(l)
      PROVE  ClockBehind'
  BY <1>8, StillBehind DEF HandleNewLobbyMsg, HandleConnectLobbyMsg, HandleInitMsg,
     HandleDisconnectMsg, EndOfGame
<1>9. ASSUME NEW l \in Lobbies, ReceiveConnectLobbyResp(l) PROVE ClockBehind'
  BY <1>9, StillBehind DEF ReceiveConnectLobbyResp, Scenes
<1> QED
  BY <1>1, <1>2, <1>3, <1>4, <1>5, <1>6, <1>7, <1>8, <1>9, HandlingBehind, TickBehind,
     EndGameBehind DEF Next

\* Nobody is taken out of a game that is over before the countdown is.
THEOREM CountdownRunsOut == Spec => CountdownIsFull
<1>1. Init => ClockBehind
  BY DEF Init, ClockBehind
<1>2. TypeOK /\ ClockBehind /\ [Next]_vars => ClockBehind'
  BY NextClockBehind
<1>3. TypeOK /\ ClockBehind => [EndGameRedirect /\ ~disturbed => shown = Countdown]_vars
  <2> SUFFICES ASSUME TypeOK, ClockBehind, EndGameRedirect, ~disturbed PROVE shown = Countdown
    OBVIOUS
  <2>1. clock # None /\ ~restart /\ clock >= Countdown
    BY ClientAssumption DEF EndGameRedirect, Elapsed
  <2>2. shown >= clock
    BY <2>1 DEF ClockBehind, EndGameRedirect
  <2>3. clock \in Nat /\ shown \in Nat /\ shown <= Countdown /\ Countdown \in Nat
    BY <2>1, ClientAssumption DEF TypeOK
  <2> QED
    BY <2>1, <2>2, <2>3
<1> QED
  BY TypeCorrect, <1>1, <1>2, <1>3, PTL DEF Spec, CountdownIsFull

=============================================================================
