-------------------------------- MODULE Waves --------------------------------
(***************************************************************************)
(* The waves of a game: the server starts them one after the other and     *)
(* tells the clients; server and clients then create the enemies of a wave *)
(* each for itself and number them each for itself.  An enemy that dies at *)
(* a client only is created again from what the server answers.            *)
(*                                                                         *)
(* The systems of a process run in its main thread, each a step; handlers  *)
(* run in its input thread, each a step too.  The registry is external and *)
(* taken to be safe between the two.  The transport delivers a packet at   *)
(* most once, in any order, or never.                                      *)
(***************************************************************************)
EXTENDS Integers, Sequences, Bags, BagsExt

CONSTANTS
    Clients,   \* clients in the game
    Server,    \* the lobby server
    Size,      \* the number of enemies of each wave, from the assets
    MaxEarlier \* bound: enemies a client may have numbered in earlier games

ASSUME WavesAssumption ==
    /\ Server \notin Clients
    /\ Size \in Seq(Nat \ {0})
    /\ Size # <<>>
    /\ MaxEarlier \in Nat

VARIABLES
    handler,      \* the system waveHandler: added, running, removed
    waveIndex,    \* Wave::_waveIndex, the waves started
    gameEnded,    \* Wave::_isGameEnded
    between,      \* Wave::_isTimeBetweenWaves
    waveId,       \* WaveInfos::_waveId of each process
    pending,      \* initWave systems added and not yet run
    remaining,    \* _remainingEnemies
    firstCreated, \* _isFirstEnemyCreated
    waiting,      \* _waitingForNextWave
    enemyNb,      \* Enemy::_enemyNb
    enemies,      \* the bag of enemies that live in each process
    net,          \* packets under way, or lost
    earlier,      \* _enemyNb of each client when the game started
    ran           \* history: the waves initWave has unfolded at each process

handlerVars == <<handler, waveIndex, gameEnded, between>>
infoVars == <<waveId, pending, remaining, firstCreated, waiting>>
vars == <<handlerVars, infoVars, enemyNb, enemies, net, earlier, ran>>

-----------------------------------------------------------------------------

Processes == Clients \cup {Server}
Waves == DOMAIN Size
NoWave == 0

\* An enemy of the assets: the wave it belongs to and its place there.
Enemies == {e \in Waves \X Nat : e[2] \in 1 .. Size[e[1]]}

\* The entities that are enemies: which one, its number constId, and whether its
\* hp are used up, in which case it dies soon.
Entities == [enemy : Enemies, id : Nat, dying : BOOLEAN]

\* How many enemies waves 1 to w have.
Total[w \in Nat] == IF w = 0 THEN 0 ELSE Total[w - 1] + Size[w]

StartWave(c, w) == [kind |-> "START_WAVE", client |-> c, wave |-> w]
EnemyDeath(from, c, id) ==
    [kind |-> "ENEMY_DEATH", from |-> from, client |-> c, id |-> id]
NewEnemy(c, e) == [kind |-> "NEW_ENEMY", client |-> c, entity |-> e]

\* Nothing here handles END_GAME: it ends the game of the client.
EndGame(c) == [kind |-> "END_GAME", client |-> c]

Init ==
    /\ handler = "added"
    /\ waveIndex = 0
    /\ gameEnded = FALSE
    /\ between = FALSE
    /\ waveId = [p \in Processes |-> NoWave]
    /\ pending = [p \in Processes |-> 0]
    /\ remaining = [p \in Processes |-> <<>>]
    /\ firstCreated = [p \in Processes |-> FALSE]
    /\ waiting = [p \in Processes |-> FALSE]
    /\ earlier \in [Clients -> 0 .. MaxEarlier]
    /\ enemyNb = [p \in Processes |-> IF p = Server THEN 0 ELSE earlier[p]]
    /\ enemies = [p \in Processes |-> EmptyBag]
    /\ net = {}
    /\ ran = [p \in Processes |-> <<>>]

-----------------------------------------------------------------------------
(* The wave handler of the server *)

\* Mutant of NoWaveLeft: off by one.
NoWaveLeftOffByOne == waveIndex > Len(Size)

NoWaveLeft == waveIndex >= Len(Size)

\* Wave::startNextWave, of which the last call finds no wave.
StartNextWave ==
    \/ /\ NoWaveLeft
       /\ gameEnded' = TRUE
       /\ UNCHANGED <<waveIndex, waveId, pending, net>>
    \/ /\ ~NoWaveLeft
       /\ waveIndex' = waveIndex + 1
       /\ waveId' = [waveId EXCEPT ![Server] = waveIndex + 1]
       /\ pending' = [pending EXCEPT ![Server] = @ + 1]
       /\ net' = net \cup {StartWave(c, waveIndex + 1) : c \in Clients}
       /\ UNCHANGED gameEnded

\* Mutant of IsWaveEnded: the flag of the end of a wave is not looked at.
IsWaveEndedUnflagged ==
    /\ remaining[Server] = <<>>
    /\ enemies[Server] = EmptyBag

\* Wave::isWaveEnded: updateWave has seen the end of the wave.
IsWaveEnded ==
    /\ waiting[Server]
    /\ remaining[Server] = <<>>
    /\ enemies[Server] = EmptyBag

\* The first call constructs the static Wave, which starts the first wave.
WaveHandlerFirst ==
    /\ handler = "added"
    /\ handler' = "running"
    /\ StartNextWave
    /\ UNCHANGED <<between, remaining, firstCreated, waiting, enemyNb, enemies, earlier, ran>>

\* A wave has ended: the time until the next begins to run.
WaveHandlerPause ==
    /\ handler = "running"
    /\ ~gameEnded
    /\ IsWaveEnded
    /\ ~between
    /\ between' = TRUE
    /\ UNCHANGED <<handler, waveIndex, gameEnded, infoVars, enemyNb, enemies, net, earlier, ran>>

\* The time between waves is over.
WaveHandlerNext ==
    /\ handler = "running"
    /\ ~gameEnded
    /\ IsWaveEnded
    /\ between
    /\ between' = FALSE
    /\ StartNextWave
    /\ waiting' = [waiting EXCEPT ![Server] = FALSE]
    /\ UNCHANGED <<handler, remaining, firstCreated, enemyNb, enemies, earlier, ran>>

\* END_GAME is sent once, for the handler then removes itself.
WaveHandlerEnd ==
    /\ handler = "running"
    /\ gameEnded
    /\ handler' = "removed"
    /\ net' = net \cup {EndGame(c) : c \in Clients}
    /\ UNCHANGED <<waveIndex, gameEnded, between, infoVars, enemyNb, enemies, earlier, ran>>

-----------------------------------------------------------------------------
(* The systems that server and clients share *)

\* initWave unfolds the wave the process knows of now.
InitWave(p) ==
    /\ pending[p] > 0
    /\ pending' = [pending EXCEPT ![p] = @ - 1]
    /\ remaining' = [remaining EXCEPT ![p] =
                         @ \o [i \in 1 .. Size[waveId[p]] |-> <<waveId[p], i>>]]
    /\ ran' = [ran EXCEPT ![p] = Append(@, waveId[p])]
    /\ UNCHANGED <<handlerVars, waveId, firstCreated, waiting, enemyNb, enemies, net, earlier>>

\* Mutant of UpdateWaveEnd: prepareNextWave does not raise the flag.
UpdateWaveEndUnflagged(p) ==
    /\ firstCreated[p]
    /\ enemies[p] = EmptyBag
    /\ remaining[p] = <<>>
    /\ firstCreated' = [firstCreated EXCEPT ![p] = FALSE]
    /\ UNCHANGED <<handlerVars, waveId, pending, remaining, waiting, enemyNb, enemies, net,
                   earlier, ran>>

\* updateWave when all enemies have been created and are dead: prepareNextWave.
UpdateWaveEnd(p) ==
    /\ firstCreated[p]
    /\ enemies[p] = EmptyBag
    /\ remaining[p] = <<>>
    /\ firstCreated' = [firstCreated EXCEPT ![p] = FALSE]
    /\ waiting' = [waiting EXCEPT ![p] = TRUE]
    /\ UNCHANGED <<handlerVars, waveId, pending, remaining, enemyNb, enemies, net, earlier, ran>>

\* updateWave when it is time for the next enemy, which gets the next number.
UpdateWaveCreate(p) ==
    /\ remaining[p] # <<>>
    /\ enemies' = [enemies EXCEPT ![p] =
           BagAdd(@, [enemy |-> Head(remaining[p]), id |-> enemyNb[p],
                                                dying |-> FALSE])]
    /\ enemyNb' = [enemyNb EXCEPT ![p] = @ + 1]
    /\ remaining' = [remaining EXCEPT ![p] = Tail(@)]
    /\ firstCreated' = [firstCreated EXCEPT ![p] = TRUE]
    /\ UNCHANGED <<handlerVars, waveId, pending, waiting, net, earlier, ran>>

\* What a process tells of the death of an entity, at the event ENTITY_DEATH: the
\* server tells the clients, a client the server.
Deaths(p, e) ==
    IF p = Server THEN {EnemyDeath(Server, c, e.id) : c \in Clients}
                  ELSE {EnemyDeath(p, p, e.id)}

\* An enemy is shot or its hp were taken, which is an event; or it leaves the
\* screen, where the engine may remove it without one.
EnemyDies(p, e) ==
    /\ BagIn(e, enemies[p])
    /\ enemies' = [enemies EXCEPT ![p] = BagRemove(@, e)]
    /\ net' \in {net, net \cup Deaths(p, e)}
    /\ UNCHANGED <<handlerVars, infoVars, enemyNb, earlier, ran>>

-----------------------------------------------------------------------------
(* The handlers *)

\* Mutant of AliveUnder: the number is not compared.
AliveUnderAny(id) == BagToSet(enemies[Server])

\* The enemy that lives at the server under a number.
AliveUnder(id) == {e \in BagToSet(enemies[Server]) : e.id = id}

\* handleClientEnemyDeath: the client is told again of an enemy that lives here.
HandleClientEnemyDeath(m) ==
    /\ m.kind = "ENEMY_DEATH" /\ m.from # Server
    /\ net' = (net \ {m}) \cup {NewEnemy(m.client, e) : e \in AliveUnder(m.id)}
    /\ UNCHANGED <<handlerVars, infoVars, enemyNb, enemies, earlier, ran>>

\* The wave the client will unfold, whatever it has still to do for the last one.
HandleStartWave(m) ==
    /\ m.kind = "START_WAVE"
    /\ net' = net \ {m}
    /\ waveId' = [waveId EXCEPT ![m.client] = m.wave]
    /\ waiting' = [waiting EXCEPT ![m.client] = FALSE]
    /\ pending' = [pending EXCEPT ![m.client] = @ + 1]
    /\ UNCHANGED <<handlerVars, remaining, firstCreated, enemyNb, enemies, earlier, ran>>

\* Mutant of ReceiveNewEnemy: the enemy is numbered like those of a wave.
ReceiveNewEnemyRenumbered(m) ==
    /\ m.kind = "NEW_ENEMY"
    /\ net' = net \ {m}
    /\ enemies' = [enemies EXCEPT ![m.client] =
                       BagAdd(@, [m.entity EXCEPT !.id = enemyNb[m.client]])]
    /\ enemyNb' = [enemyNb EXCEPT ![m.client] = @ + 1]
    /\ UNCHANGED <<handlerVars, infoVars, earlier, ran>>

\* receiveNewEnemy: the enemy keeps the number it had.
ReceiveNewEnemy(m) ==
    /\ m.kind = "NEW_ENEMY"
    /\ net' = net \ {m}
    /\ enemies' = [enemies EXCEPT ![m.client] = BagAdd(@, m.entity)]
    /\ UNCHANGED <<handlerVars, infoVars, enemyNb, earlier, ran>>

\* The client takes the hp of the enemy with that number, if it has one.
ReceiveEnemyDeath(m) ==
    /\ m.kind = "ENEMY_DEATH" /\ m.from = Server
    /\ net' = net \ {m}
    /\ LET found == {e \in BagToSet(enemies[m.client]) : e.id = m.id}
       IN  \/ /\ found = {}
              /\ UNCHANGED enemies
           \/ \E e \in found :
                 enemies' = [enemies EXCEPT ![m.client] =
                                 BagAdd(BagRemove(@, e), [e EXCEPT !.dying = TRUE])]
    /\ UNCHANGED <<handlerVars, infoVars, enemyNb, earlier, ran>>

-----------------------------------------------------------------------------

System(p) ==
    \/ InitWave(p)
    \/ UpdateWaveEnd(p)
    \/ UpdateWaveCreate(p)

WaveHandler ==
    \/ WaveHandlerFirst
    \/ WaveHandlerPause
    \/ WaveHandlerNext
    \/ WaveHandlerEnd

Next ==
    \/ WaveHandler
    \/ \E p \in Processes : System(p)
    \/ \E p \in Processes : \E e \in BagToSet(enemies[p]) : EnemyDies(p, e)
    \/ \E m \in net : HandleClientEnemyDeath(m)
    \/ \E m \in net : HandleStartWave(m)
    \/ \E m \in net : ReceiveNewEnemy(m)
    \/ \E m \in net : ReceiveEnemyDeath(m)

Spec == Init /\ [][Next]_vars

\* The main thread of the server runs its systems again and again, and its
\* enemies do not live for ever: who is not shot leaves the screen.
Fairness ==
    /\ WF_vars(WaveHandler)
    /\ WF_vars(InitWave(Server))
    /\ WF_vars(UpdateWaveEnd(Server))
    /\ WF_vars(UpdateWaveCreate(Server))
    /\ WF_vars(\E e \in BagToSet(enemies[Server]) : EnemyDies(Server, e))

FairSpec == Spec /\ Fairness

-----------------------------------------------------------------------------
(* Properties *)

\* The packets that can be under way.
Packets ==
    [kind : {"START_WAVE"}, client : Clients, wave : Waves]
        \cup [kind : {"ENEMY_DEATH"}, from : Processes, client : Clients, id : Nat]
        \cup [kind : {"NEW_ENEMY"}, client : Clients, entity : Entities]
        \cup [kind : {"END_GAME"}, client : Clients]

\* The types of the state.
TypeOK ==
    /\ handler \in {"added", "running", "removed"}
    /\ waveIndex \in 0 .. Len(Size)
    /\ gameEnded \in BOOLEAN
    /\ between \in BOOLEAN
    /\ waveId \in [Processes -> Waves \cup {NoWave}]
    /\ pending \in [Processes -> Nat]
    /\ remaining \in [Processes -> Seq(Enemies)]
    /\ firstCreated \in [Processes -> BOOLEAN]
    /\ waiting \in [Processes -> BOOLEAN]
    /\ enemyNb \in [Processes -> Nat]
    /\ DOMAIN enemies = Processes
    /\ \A p \in Processes : IsABag(enemies[p]) /\ BagToSet(enemies[p]) \subseteq Entities
    /\ earlier \in [Clients -> 0 .. MaxEarlier]
    /\ net \subseteq Packets
    /\ ran \in [Processes -> Seq(Waves)]

\* A wave starts, and the game ends, only when every enemy of the waves before
\* has been created and is dead, although the wave itself is unfolded later, by
\* another system, and its end is passed on through three flags.
WaveStartsAfterLast ==
    [][waveIndex' # waveIndex \/ gameEnded' # gameEnded =>
           /\ enemyNb[Server] = Total[waveIndex]
           /\ enemies[Server] = EmptyBag]_vars

\* No client has an enemy twice: who is told again of an enemy that is dead at
\* the client only has reported it dead before, once for each time it lived.
NoDoubleEnemy ==
    \A c \in Clients :
        \A e, f \in BagToSet(enemies[c]) :
            e.id = f.id => e = f /\ enemies[c][e] = 1

\* The waves a client has unfolded are the first ones, in their order.
InStep(c) == \A i \in DOMAIN ran[c] : ran[c][i] = i

\* A client that plays its first game and has missed no wave so far gives its
\* enemies the numbers the server gives them, so that no death the server reports
\* hits an enemy that lives there, in spite of enemies that come back.
Agrees(c) ==
    \A e \in BagToSet(enemies[c]), f \in BagToSet(enemies[Server]) :
        /\ e.id = f.id <=> e.enemy = f.enemy
        /\ e.enemy = f.enemy => ~e.dying

EnemyIdsAgree ==
    \A c \in Clients : earlier[c] = 0 /\ InStep(c) => Agrees(c)

\* The game comes to its end: no wave waits for ever, neither for its enemies
\* nor for the next one.
GameEnds == <>(handler = "removed")
==============================================================================
