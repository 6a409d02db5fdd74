# R-Bus in TLA+

Models, model-checking runs and machine-checked proofs of R-Bus, a networked shoot'em up: a main
server that lists lobbies, one process per lobby, and a client for each player, all of them talking
over UDP through one reliability layer (`src/src/Nitwork`).

Line numbers are those of the repository at the commit this project was written for; `PROJECT.json`
maps every definition to the lines it stands for.

## The system

| component | code | state | operations | talks to |
|---|---|---|---|---|
| Reliability layer | `ANitwork.cpp/.hpp`, `INitwork.hpp`, `Nitwork.h` | next id, received ids and sent packets of each endpoint; input and output queue | enqueue, output pass (store, number, acknowledge, send), receive a header, answer its acknowledgement, input pass (call the handlers) | the network; the handlers above it |
| Threads of a process | `ANitwork::start`, `stop` and the loops | `_isRunning`, the pool, the tick condition variable, five mutexes | input loop, output loop, receive handler, clock, main thread | each other, by shared state |
| Lobby membership | `NitworkServer` | `_endpoints`, `_playersIds`, `_playersReady`, `_isGameStarted` | CONNECT_LOBBY, INIT, READY, DISCONNECT_LOBBY; start of the game; fork of a replacement | clients, main server |
| Client session | `NitworkClient`, `ClientNetwork.cpp`, `MenuSystems.cpp`, `EventsSystems.cpp` | the scene, the endpoint of its lobby, the pending INIT, the list of the lobbies, rows and page, the countdown after a game | connect to the main server, ask for the list, turn pages, join, init, quit, end of a game | lobby, main server |
| Main server directory | `NitworkMainServer`, `MainServerNetwork.cpp` | `_lobbies`, `_lobbyPids`, `_endpoints` | CREATE_LOBBY (fork), INFO_LOBBY, LOBBY_PID, REQUEST_LIST_LOBBY, stop (kills the lobbies) | lobbies, clients |
| Waves | `WaveSystem.cpp`, `WaveSystemsAll.cpp` | current wave, enemies left, time between waves | start a wave, create its enemies, end the game | clients, by START_WAVE and NEW_ENEMY |
| Replication of the game | `ServerNetwork.cpp`, `ClientNetwork.cpp`, `GameSystems.cpp` | players and their health, enemies and missiles, as each process holds them | a player is created, hit, dies, is brought back; the game ends; positions, bullets | each other, through the lobby |
| Graphics, audio, parallax, resources, arguments, compression | the rest | textures, JSON | input and output | nothing but the player and the disk |

What is hard in it: two loops and a receive handler that share state through several mutexes, one of
which they forget; a network that loses, duplicates and reorders; acknowledgements computed from a
list that changes; a directory of processes that is told of them by messages without an order; a
stop that has to wake up threads through a condition variable without a predicate; membership
messages of two sessions of one player that meet; players who leave, or die without a word, in the
middle of a negotiation that compares sizes; a lobby that forks its own replacement while it shuts
down; a client that handles an answer in whatever scene it has gone to meanwhile; a player whose
life each process takes in its own simulation, and whose death a client reports on its own and the
lobby takes back. `PROJECT.json` lists these hazards one by one, at their lines.

What makes each component correct:

* *Reliability layer*: a handler runs at most once per packet (false of the code while it sorts the
  received ids; what holds is said at *Nitwork*); no packet is dropped for another's sake; an
  acknowledgement tells the truth; what it acknowledges gets handled; what it reports missing is
  sent again (the third and the last are false of the code, see *Findings*).
* *Threads*: nobody waits for ever; `stop()` returns; what a handler sent goes out first.
* *Lobby*: never more members than places, nobody in the list twice, ids of their own, a game that
  starts exactly when all members are ready, a replacement for a lobby that empties; all of it what
  a set of members would do, without packets and without an order.
* *Main server*: a lobby that was replaced is off the list for good, replacing it costs no other
  lobby its entry (false of the code, see *Findings*; what holds is that no other *name* loses an
  entry), and `stop()` ends every lobby it was told of.
* *Client session*: no lobby keeps a client it has not been told goodbye by; a click on a row
  connects to the lobby the row shows; the end of a game is shown for as long as it is meant to be.
* *Waves*: the clients create the enemies the server counts, each enemy has one life, and the game
  ends with its last wave.
* *Replication*: the game ends once, with the death of its last player; no client loses a player
  that lives; a client steers its own player and no other.

## Modules

| module | what it is |
|---|---|
| `Nitwork` | the reliability layer of several processes and the network between them |
| `NitworkProofs` | its inductive invariant and theorems |
| `NitworkThreads` | the threads of one process, one step per lock taken, wait, wake-up and join |
| `NitworkThreadsProofs` | its lock order, inductive invariants and theorems |
| `Lobby` | one lobby server and its clients |
| `LobbyService` | what a lobby promises: a set of members, the ready ones, a start, a replacement |
| `LobbyProofs` | the inductive invariant and theorems of `Lobby`, and that it implements `LobbyService` |
| `MainServer` | the main server's directory and the lobby processes behind it |
| `MainServerProofs` | its inductive invariant and theorems |
| `Waves` | the waves of a game and the enemies of the server and of each client |
| `WavesProofs` | its inductive invariants and theorems |
| `Replication` | the players of a game, at the lobby and at each client |
| `ReplicationProofs` | its inductive invariants and theorems |
| `Client` | the session of one client: scenes, list of lobbies, joining, leaving, countdown |
| `ClientProofs` | its inductive invariants and theorems |
| `Induction` | induction over the natural numbers, for the proofs about sums, ranks and longest waits |
| `MCNitwork`, `MCNitworkThreads`, `MCLobby`, `MCMainServer`, `MCWaves`, `MCReplication`, `MCClient` | the instances TLC checks |

All but the first three rest on `Nitwork`: their networks promise that a packet is handled at most
once, and no more. `Nitwork` proves this of all packets but those whose id the receiver loses sight
of while it sorts the ids; what a handler does that runs twice because of it is modelled nowhere.
They meet in `recreateLobby`: what `Lobby` counts in `recreated`
when its last member leaves is, in `MainServer`, the action `LobbyEmpties`, with a fork and a
LOBBY_PID. `Waves` begins where `Lobby` starts the game: its `handler` is the system that
`handleReadyMsg` adds. `Client` and `Replication` look at a lobby from outside and keep of it what
answers them. `Client` has one client and many lobbies, each of which takes the client or does not,
where `Lobby` has one lobby and many clients, and says when it may. `Replication` has the members
and their ids as `Lobby` has them, adds the entities, and leaves the negotiation of the ready out: a
game starts at any moment when there are members.

### Nitwork

A *payload* is one packet the application builds: its sender, receiver and content are fixed and it
is sent once. The action `AddPacketToSend` enqueues it (`addPacketToSend`). `OutputTick` is the
wake-up of the output loop: it locks the queue and sorts it. The queue's packets are then sent one
by one. A fresh packet takes three steps, because `sendData` goes through the received ids twice
without their mutex and sorts them in place each time: `SendFresh` stores the packet, takes an id
and starts the first sort; `GetIdsReceived` ends it, computes the acknowledgement bits and starts
the second; `SendHeader` ends that one, reads the last id and lets the datagram go. A packet that is
sent again takes one step, `SendAgain`: it consumes an id but leaves with the header it was built
with, which is zero for every message except those few (`Keyed`) that were built with the header
codes; all others are dropped at once by the receiver. `ReceiveHeader` is `headerHandler` up to the
push of the id; `ReceiveBody` is `handlePacketIdsReceived` and the handling of the body; `InputTick`
is one pass of the input loop. `out[n] = Idle` in a guard is a mutex the output loop holds through
its pass: `_tickMutex` for the input loop, `_outputQueueMutex` for whoever enqueues.

The sort and the receive handler work on one list at the same time, since `_receivedPacketsIdsMutex`
guards only the append. What the handler may then see is a choice (`ReceiveHeader`): the scan does
not find an id although it is there, because the sort has it in a temporary or moves it behind the
scan; the append reallocates and copies the elements while they are being moved, so that some ids
are lost for good (`Losable`: never all of them, since each place of the list holds one of them at
any time); or the appended id is the last element although it is not the largest (`appended`,
`Last`). Nothing of this happens unless the list holds two ids (`Moves`). The order of the list is
not modelled, so the model lets a sort move what may be in order already. `overlooked` remembers
which ids were missed or lost, and `races` counts the datagrams that met it: up to `MaxRaces`.
`HandledOnceUnlessOverlooked` says what is left of "a handler runs at most once": without its
condition it is false of the code. Left out are the outcomes the program does not define: the memory
an append frees under the sort or under a scan of the output loop, and the first insertion of an
endpoint in the map. Each access to the stored packets is one step, although the output loop guards
them with `_packetsSentMutex` and the receive handler with `_receivedPacketsIdsMutex`: one packet is
stored per endpoint, so the two meet once.

`net` is the set of all datagrams ever sent and nothing leaves it: a datagram that is never received
was lost, one received twice was duplicated, and any order is possible. `handled` and `wireId` are
history variables. The bits of the acknowledgement are a set of positions, position i standing for
the i-th bit from the high end of the window (the receiver of the header reverses the bits it takes
out).

### NitworkThreads

Every thread is *at* a place of its code and *wants* a sequence of mutexes, taken one by one in the
order the code takes them. The places are those between which another thread may step: before and
after a lock, at the wait, at a join. `waited` is history: it records which loop has reached its
wait for the first time. The handlers are the ones that exist: each of them may send a packet with
the registry and the received ids locked, and may tell the scene manager to stop. The pool is joined
in the order its threads were created, but which thread runs which job is not determined: `Init`
chooses. `DEFAULT_THREAD_NB` is 4 and three jobs exist; the fourth thread has nothing to do but to
end, and is left out. The clock does not sleep in the model: its period is 0 ms in the code
(128/128/1000 in integers).

### Lobby

Handlers of the lobby run one after the other in its input thread, so each is one step, with
everything it calls. The transport is abstracted to what `Nitwork` guarantees: a set of requests
from which one is handled (at most once, in any order) or never. A client is its scene, whether the
game scene has still to send INIT, and whether the READY button is there. It can quit at any time
and come back, and crash at any time; the lobby has no timeout, so a crash is just silence.
`recreated` counts the calls of `recreateLobby`. A DISCONNECT_LOBBY from somebody who is not a
member makes `std::list::erase` free the end node; the lobby aborts (`HandleDisconnectStranger`).

`LobbyService` says the same without packets, lists and sizes: a set of members with room for some,
a subset of ready ones, a game that starts when the two are the same, a process that stops and a
count of the replacements asked for. In the refinement mapping (`Lobby!Service`) `members` is the
set of the elements of `endpoints`, `ready` is `playersReady`, `started` is `isGameStarted`,
`process` is `status` and `forks` is `recreated`; what clients do is a stutter, and a handler is a
step or, if it refuses, a stutter. That `Lobby` implements it is `ImplementsService`.

### MainServer

The processes are `Procs`, each with a status (`proc`), the name it was given on its command line
and the process that forked it; a process is forked once, so a pid is not used again. `lobbies` and
`lobbyPids` are the two lists of `NitworkMainServer`; an entry of the first has a name and the
address of a lobby, for which the model takes the process. A handler of the main server is one step,
like those of `Lobby`, since its input thread runs them one after the other and nobody else writes
the lists. `stop()` is different: it runs in the main thread while the handlers go on until
`ANitwork::stop`, and goes through `_lobbyPids` without a lock. `KillLobby` is one turn of its loop,
`toKill` what is left of it, and `stale` says that a handler has made the vector move its elements
meanwhile: from then on the loop may miss any pid it has not reached.

`Signal` is the SIGINT of that loop. A lobby that runs its scenes will stop; one that has not
installed its handler ends, or, between `fork` and `execl`, spends the signal on the handler it
inherited (nothing changes); one that has the handler but not yet its scenes stops as soon as it
runs (`sigint`). `AddInfoLobbyMsg` ends the start of a lobby: its announcement is queued and its
scenes run. `known` is the set of lobbies that some client has been told of, and is there because
`LobbyEmpties` needs it: who leaves a lobby has joined it, who has joined it has seen it listed.
`fork` may fail wherever it is called. `parent` is history.

### Waves

`Size` is what the assets say of the waves: how many enemies each has. An *entity* is an enemy of a
process: which one of the assets it is, its number `constId`, and whether its health has been taken.
The server's `Wave` object is `waveIndex`, `gameEnded` and `between`; `waveHandler` is four actions,
one for each way through it. `waveId`, `remaining`, `firstCreated` and `waiting` are the `WaveInfos`
of every process, `pending` counts the `initWave` systems that were added and have not run,
`enemyNb` is the static counter from which enemies are numbered, server and clients each from their
own. Systems run in the main thread and handlers in the input thread; each is one step, because the
registry's mutex or the order in which components are added keeps the others from seeing half of it
(`updateWave` does not take that mutex: that it may add its entity in the middle of a handler's is
left out, since what comes of it is the engine's). An enemy may die at any time, by a shot or
because it leaves the screen; the engine decides whether that is an event. A wave is created enemy
by enemy, with any time between. `earlier` is what a client's counter stands at from earlier games:
the counter is static and never reset. START_WAVE carries the id of the wave, and a client in a
later game numbers its enemies from where it stopped, whence the condition of `EnemyIdsAgree`. `ran`
is history.

### Replication

`players` are the player entities of the lobby, `copies` those of each client, both in the order of
creation, because a search by id takes the first it meets. The packets under way are bags: two
LIFE_UPDATE that say the same are two. A handler of the lobby is one step, with all it sends:
`HandleInitMsg` creates the entity and tells everybody of it (`NewPlayers`, with the allies that are
there already, members or not); `HandleDisconnectMsg` reports the leaver dead but keeps its entity;
`HandleLifeUpdateMsg` takes whatever health a client claims; `ReceivePlayerDeathMsg` answers a death
that the lobby does not know of with the NEW_PLAYER that takes it back. `ServerDamage`,
`ServerDies`, `ClientDamage` and `ClientDies` are the simulations, in which any hit may happen from
the start of the game on; `isGameStarted` of the lobby stands, in the guard of `ClientDamage`, for
START_WAVE having reached the client, which is later. A health of 0 stands for every health that is
not positive. `RemoveEntities` is the end of a frame, when what `createNewPlayer` has replaced goes.
`sessions`, `revived` and `told` are history.

The model shows what the conditions of the properties leave out. Ids are the size of a list that
shrinks, so two players may share one, and then the client replaces its own player by the other's. A
LIFE_UPDATE that comes late gives health to a player that has died (`revived`). The entity of a
player who left stays at the lobby, where only enemies can end it: until then it keeps END_GAME from
coming. A client that reports the death of a leaver to the lobby gets it back by NEW_PLAYER.

### Client

One client, as its scene, the endpoint of its lobby, its list, the rows of the page and the
countdown. Buttons and systems run in the main thread and handlers in the input thread, each one
step. `ChangeScene` is `SceneManager::changeScene` with what it removes and adds; `GoTo` is every
change of scene but the one that ends a game. Handlers of packets do not look at the scene:
`ReceiveConnectMainServerResp`, `HandleNewLobbyMsg`, `ReceiveConnectLobbyResp` and `ReceiveEndGame`
are possible in every scene until the window is closed. What is static in the code outlives the
scenes in the model too: the number of the page, its maximum, the clock of the countdown and its
`restart`. `HandleEndGameEvent` and `EndGameRedirect` are two ways through one system, `Tick` is a
second of its clock. Packets of a kind are alike and counted; `asked` stands for any number of
LIST_LOBBY and its answers. A lobby is in `up`, has the client (`member`) and may end its game once;
it takes or refuses, at its choice, what `Lobby` would decide by its places and its other members.
READY is not here: the button and its packet are in `Lobby`. `late`, `disturbed` and `shown` are
history: an answer that changed the scene in the middle of a game; a countdown that was cut short or
ran twice at once; the seconds of the present one.

Again the conditions of the properties say what goes wrong without them. A second
CONNECT_LOBBY_RESP, or a CONNECT_MAIN_SERVER_RESP, that comes in a game changes the scene and tells
the lobby nothing: the client remains its member (`late`). Escape before the first frame of a game
sends DISCONNECT_LOBBY without an INIT, which aborts the lobby. Escape during the countdown leaves
the clock as it is, so that the next countdown may be over at once; an END_GAME that comes late ends
a game that has just begun (`disturbed`).

## Runs

| run | bounds | what it shows |
|---|---|---|
| `nitwork` | 2 processes, 2 packets one way and 1 back, window 2, 6 ids, 1 datagram that meets a sort | a handler runs twice for a packet only if its id was overlooked during a sort (`HandledOnceUnlessOverlooked`), nothing is dropped in another packet's place (`NoFreshDrop`), all that is kept for resending is the packet with id 0 (`ResentIsFirst`), what is acknowledged is handled (`AcknowledgedIsHandled`, under `Fairness`), and `TypeOK` |
| `nitwork_torn_ack` | 5 packets, window 3, no race of a sort | violates `AcknowledgedWasReceived` |
| `nitwork_lost` | 4 packets, window 3, no race of a sort | violates `MissingIsSentAgain` |
| `lobby` | 3 clients, 2 places, 6 packets in all | `MembersDistinct`, `NeverOverfull`, `ReadyAreMembers`, `EmptiedIsReplaced`, `StartOnlyWhenAllReady`, that every step is one of the abstract lobby or none (`ImplementsService`), and `TypeOK` |
| `lobby_ids` | 2 clients, 2 places, 7 packets in all | violates `MemberIdsUnique` |
| `lobby_ready_stuck` | 2 clients, 2 places, 6 packets in all | violates `AllReadyIsStarted` |
| `main_server` | 3 lobby processes, 2 names, 2 CREATE_LOBBY | a replaced lobby is never listed again (`ReplacedIsDelisted`), a lobby leaves the list only if one of its name was replaced (`OnlyReplacedNamesVanish`), `stop()` ends every lobby it signals (`StopEndsLobbies`, under `Fairness`), and `TypeOK` |
| `main_server_unlisted` | 3 lobby processes, 1 name, 1 CREATE_LOBBY | violates `AnnouncedIsListed` |
| `threads` | 1 packet of the main thread, 1 datagram | no deadlock, no circle of threads that wait for each other (`NoLockDeadlock`), `HandlerPacketsAreSent`, `TypeOK`, and `StopReturns` under `Fairness` |
| `waves` | 1 client, which has numbered no enemy before or one; waves of 2 enemies and 1 | a wave starts when the last is over (`WaveStartsAfterLast`), the game ends (`GameEnds`, under `Fairness`), no enemy lives twice at a client (`NoDoubleEnemy`), numbers mean the same everywhere in a first game without lost waves (`EnemyIdsAgree`), and `TypeOK` |
| `replication` | 2 clients, 2 places, 2 points of life, 2 sessions, 2 hits, 4 packets under way | the game ends once, with its last player (`LastDeathEndsGame`), no client loses a player that lives (`NoPlayerLost`), a client's own player is its own (`OwnStaysOwn`), and `TypeOK` |
| `client` | 3 lobbies, 2 rows, a countdown of 2 seconds, 3 clicks on a connect button | no lobby is left without being told (`OneLobbyAtATime`), rows are those of the page shown (`RowsOfPage`), a countdown that is not disturbed is shown to its end (`CountdownIsFull`), and `TypeOK` |

Why the bounds are enough. *Nitwork*: two packets and what is sent again of the first, each lost,
late, overtaken or received, make every pattern that two acknowledgement bits can show; two ids are
the fewest a sort can move, and one datagram that meets a sort is enough to handle a packet twice:
the run reaches a state in which this has happened, with an id that was missed and with one that was
lost. A third packet in one direction beside the race makes more than a million states, too many for
the liveness property. The ids stay below `IdMod`, so no run mistakes a wrap for something else. The
theorems hold with a wrap, with any number of packets and any `MaxRaces`. The two violations do
without the race (`MaxRaces = 0`), so that their traces show nothing but the fault they are about.
*Lobby*: three clients and two places are the smallest race for the last place; six packets in all
let all three join and send INIT, or two of them join, send INIT and get ready, or one of them join,
get ready, leave and begin again while another one joins. The theorems have no such bound. *Main
server*: of three processes one can be forked by the main server, replaced, and its replacement
replaced again; or two can share a name, or one of each name be forked and one of them replaced.
Symmetry is not sound for liveness; `InOrder` instead has processes born in the order of their
names, which loses nothing, since they are alike until they are born. *Threads*: one handler that
sends and stops is enough to meet every place where `stop()` can find the loops. *Waves*: clients do
not touch each other, so one is enough; two waves make the next one start, two enemies make one die
while the other is still to come. *Replication*: two sessions are two players, or one who leaves and
comes back; a hit may take any part of a life, so two hits kill two players, or one by halves, at
the lobby and at a client; four packets let a death, its answer, a leave and a health cross.
`FewPackets` bounds how many are under way, not how many are sent, and counts the lost;
`LobbyIsThere` follows nothing after the lobby's end. *Client*: three lobbies in rows of two make a
second page that is not full; three clicks are one to connect and two to join, the second of them
while answers of the first are on their way, or after a game. `CHECK_DEADLOCK FALSE` is said where
the system may really stop: everybody has sent all that the bound allows, or the lobby is gone. The
thread runs do check deadlock; a process that has ended stutters explicitly (`Ended`).

Fairness. `Nitwork!Fairness` says that the output loop, the input loop and the end of a receive
handler that has started run: the clock wakes both loops all the time and every handler is finite.
It says nothing of the network: `ReceiveHeader` is not fair, so every datagram may be lost. That the
two loops compete for one mutex is modelled by the guards; weak fairness is what they get, because a
pass ends and both wait again. `NitworkThreads!Fairness` schedules every thread; whether a mutex is
handed to a thread that waits for it is not assumed beyond that. It does not make the main thread
play the game, the user stop it, or a datagram arrive. `MainServer!Fairness` schedules the loop of
`stop()` and the main thread of every lobby: that a lobby which was told to stop does end is what
`StopReturns` of `NitworkThreads` checks of each process. It makes no lobby start, announce itself
or empty, and no packet arrive. `Waves!Fairness` runs the systems of the server and lets its enemies
die: all of the assets fly to the left until they have left the screen. It says nothing of the
clients.

## Findings

* `nitwork_torn_ack`: the bits and the last id of a header are read separately and without the mutex
  (`ANitwork.hpp:60-61`); an id pushed between them makes the header acknowledge ids that never
  came.
* `nitwork_lost`: the copy of a sent packet is stored before it has its id, so all have id 0 and
  only the first packet to an endpoint is stored or found: a lost packet is not sent again.
* `lobby_ids`: the id of a player is the size of a list that shrinks: two members can share one.
* `lobby_ready_stuck`: when the last unready member leaves, nobody checks readiness again.
* `main_server_unlisted`: the replacement of a lobby has its name and announces itself from its own
  process; if that INFO_LOBBY comes before the LOBBY_PID of the old lobby, the erasure by name takes
  the new entry too. The same happens to a second lobby of one name, which CREATE_LOBBY does not
  refuse while the first has not announced itself.

## What is proved

The theorems hold for every number of clients, processes, names, lobbies, packets, datagrams,
sessions, hits and clicks, every number and size of waves, every number of places and rows, every
health and countdown, every window and every range of ids. TLAPS checks each proof to its leaves.
They assume only what the modules state of their constants: `LobbyAssumption` (there is at least one
place), `NitworkAssumption` (senders and receivers of packets are processes, window and range of ids
are positive, `MaxRaces` is a number), `MainServerAssumption` (the main server is not one of the
lobby processes, `None` is not a name), `ReplicationAssumption` and `ClientAssumption` (places,
life, rows and countdown are positive, the bounds are numbers), `WavesAssumption` (the server is not
a client, the assets have a wave, and no wave without enemies), `ThreadsAssumption` (the bounds are
numbers) and that `None` is not one of the values it stands in for (`NoneAssumption`).

*Lobby.* The invariant `IInv` is the conjunction of `TypeOK`, `MembersDistinct`, `NeverOverfull`,
`ReadyAreMembers` and `EmptiedIsReplaced`. They need each other: a member who leaves is erased from
the list once, so that he is out of it only because he was in it once (`MembersDistinct`), and only
then do his ready entry and his membership end together (`ReadyAreMembers`); the range of the ids
needs that there is room (`NeverOverfull` by the guard of INIT). `StartWhenAllReady` then compares
cardinalities: the ready are a subset of the members, the members are as many as the list is long,
and a subset of the same size is the whole.

The refinement (`LobbyImplementsService`) uses the same invariant for what the mapping forgets. A
leave erases one element of the list, which takes the member out of the set because it was there
once; the list is empty afterwards exactly if the set is. An INIT that finds room in the list finds
it in the set, since both have one size. The comparison of sizes that starts the game is the
equality of two sets by the argument above.

*Nitwork.* `HandledOnceUnlessOverlooked` is far from inductive. A body is handled once because its
id is accepted once, and its id is its own because a payload is queued as fresh once and takes its
id when it leaves the queue. So the invariant follows a packet on its way: an unsent payload has no
id (`UnsentOK`); a queued packet has none either, or it is sent again and had id 0 (`QueueOK`,
`QueueDistinct`, `SentOK`); what is being built and every valid datagram carry the id the payload
took (`OutOK`, `NetOK`); the receive handler, the queue of the input loop and the history hold
bodies whose ids are remembered (`RxOK`, `ActionsOK`, `HandledOK`), each body in one place
(`AcceptedOnce`, unless its id was overlooked). The sort takes ids from `receivedIds` only into
`overlooked`, so an accepted id stays in one of the two, and a datagram is accepted a second time
only by leaving its id in the second. That resends do not break it is the subtle part: a resent
datagram always says id 0, and this is true of it because only the packet that took id 0 is ever
stored. The invariant says so (`SentOK`: stored packets took id 0, and if an id was taken one is
stored), and `ResentIsFirst` follows. With the fix that `nitwork_lost` calls for, this is the part
of the argument that has to be redone.

`NoFreshDrop` is false once ids wrap, for the memory of the old ones then drops new packets. What is
proved (`NothingFreshIsDropped`) is that it holds as long as no process has used up its ids for
another (`NoWrapYet`), as it has in every state of the run `nitwork`. Three facts are added to the
invariant: an id that was taken is below the next one (`IdsBelow`), so the next packet takes one of
its own (`IdsDistinct`), and an id that is remembered is that of a packet whose body has come
(`Remembered`). The last is where a resend could do harm, since it says id 0 whatever it carries;
that the body it carries is that of the packet which took id 0 comes from `NetOK`.

*NitworkThreads.* A deadlock of mutexes is a circle of waiting threads, and there is none because
all five mutexes are taken in one order (`Rank`): tick, input queue, registry, received ids, output
queue. Three more are left out: `_packetsSentMutex`, under which no other is taken; that of `Wave`,
under which at most the output queue's is; and that of the systems' director, which handlers take
for themselves, `initScenes` before the registry's (before the threads start), and the engine
(external) perhaps elsewhere. Nothing in `src/` takes one of them against the order. `LockInv` says
it place by place: at a place a thread works with certain mutexes (`Needs`), still wants some of
them, in an order that ascends (`Plans`), and holds exactly those that come before the first one it
wants (`Holding`). Of a set of waiting threads, one wants a mutex that is last in the order; who
owns it wants a later one, so the owner is not in the set (`NoDeadlock`). At the places where a
thread sleeps, waits or joins it needs none. `HandlersAreHeard` needs, besides, who is still to be
joined (`PoolInv`) and that a packet which a handler enqueued in time finds the output loop asleep
or in its pass (`SendInv`), so that it goes through its queue once more before it ends.

*MainServer.* Whether a replaced lobby can come back into the list depends on its INFO_LOBBY: if it
could still be under way when the LOBBY_PID is handled, the lobby would be listed after its own
replacement. It cannot, and the reason passes through the clients: only a lobby that players have
left forks, players only know what was listed (`KnownOK`), what is listed has used up its
announcement (`ListedOK`), and a process announces itself once. So the invariant ties `known`,
`net`, `parent` and `name` together: a parent was known and has the name of its child (`ParentOK`),
a LOBBY_PID carries the name that both share (`NetOK`), and therefore the erasure by name hits the
parent. A process that is not born is nobody's child and in no list (`UnbornOK`), which is what a
fork needs. `OnlyReplacedNamesVanish` is then kept by each handler with the entries of the others.

*Replication.* `LastDeathEndsGame` speaks of a started game, and is false at the start if somebody
can die before: the invariant adds `NobodyDiesBefore`, that until then END_GAME has not been sent,
every player has health, no LIFE_UPDATE is under way and a lobby with members has players. The last
is what makes the start of the game find a player; that an INIT is refused from then on, what keeps
the list empty once it is.

`NobodyIsLost` and `OwnPlayerStays` rest on what packets may speak of. `TypeInv` says it: every id
in an entity, a report, an answer or a memory was given to a session (`Given`), and who reports or
is told was given one (`Served`). An id that is one session's is one entity's (`SoleIsAlone`), so
that a search by id finds it. Then `OwnInv` only has to say that each NEW_PLAYER tells its receiver
truly whether the player is its own, the one it created included, for `CreateNewPlayer` copies what
the packet says. `NoPlayerLost` is inductive with these: the step in which a player dies at a client
sends the report; the report is answered by a NEW_PLAYER if the player lives in the lobby; the
NEW_PLAYER marks what is there for removal and adds what lives. The work is in the order of
entities: a removal at the end of a frame keeps the others and their order (`Kept`, by a rank that
counts), so nothing that lives goes with it. Ids in `revived` are left out because the lobby does
not answer a report of a player that was dead when it came, even if a late LIFE_UPDATE makes it live
again.

*Waves.* The sizes of the waves are summed by a recursive function (`Total`). That it satisfies its
own definition is proved first, by the least number at which two such functions would differ or at
which there is none (`LeastNatural`), and from it that the sums never decrease and that the enemies
of the assets are numbered without gaps (`Num`). `Tokens` is the argument for
`NoEnemyTwice`: each number a process has given is in one place, an enemy that lives there, a
report of its death, or the answer that brings it back, or it is gone; each step moves it or ends
it. `Stage` says what the server's `Wave` object and its `WaveInfos` have to do with each other: in
which phases nothing remains to be created and nothing lives. `Numbering` counts: what has been
numbered and what remains are the sum of the waves begun, and each enemy has the number of its
position. So a wave that starts finds the counter at the sum of the waves before and nobody alive
(`WavesInOrder`). `NumbersAgree` needs, last, that what the server reports dead has no entity there
and gets none (`Dead`).

*Client.* Each property has its invariant. `Balanced` counts: unless an answer came late, the INITs
under way to a lobby and its having the client are, together, no more than the DISCONNECT_LOBBYs
under way and the client's being in its game. Every scene change out of a game pays one
DISCONNECT_LOBBY, every game one INIT, and both may be lost or refused in favour of the inequality;
a stranger's DISCONNECT_LOBBY ends the lobby, so that it need not hold of it. `RowsAgree` is
`RowsOfPage` in every scene, for the list only grows and what it has stands where it stood.
`ClockBehind` says that the clock, once it is restarted, is not ahead of what has been shown in this
scene, unless a countdown was disturbed.

Only model-checked: liveness, which TLAPS does not do here (`AcknowledgedIsHandled`, `StopReturns`,
`StopEndsLobbies`, `GameEnds`), and the violations, which are counterexamples. The
deadlock check of the run `threads` goes beyond mutexes, to the condition variable and the joins,
and is not proved. Every other property of a run is a
theorem, `NoFreshDrop` with the hypothesis above.

## Not modelled, and the plan

Left out for good: compression, rendering, audio, the menus that only draw, resources, arguments,
the ECS and the network library (external). `Crash` stands for the operating system.

Left out of the modelled parts: positions and missiles, whose values no guard reads (a missile's
death is not even sent: `addMissileDeathMsg` builds the packet and enqueues nothing); a server the
client forks for itself, which is the main server of `MainServer`; a datagram with several actions,
which only the answer to LIST_LOBBY is; a peer that restarts on its old port; ids that wrap, outside
`Nitwork`.

Next, in this order:

1. `MainServer` with `LobbyService` as its processes, so that a lobby empties in it when it does in
   `Lobby`.
2. `Waves` with clients that leave and play again in the same process, whose counter goes on.
3. An abstract specification of the reliability layer, a set of packets of which each is handled at
   most once unless its id was overlooked, and a proof that `Nitwork` implements it:
   `HandledOnceUnlessOverlooked` and `NothingFreshIsDropped` are what it needs.
