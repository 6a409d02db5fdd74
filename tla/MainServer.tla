----------------------------- MODULE MainServer -----------------------------
(***************************************************************************)
(* The directory of lobbies (NitworkMainServer) and the lobby processes    *)
(* behind it: players have lobbies forked, a lobby announces itself with   *)
(* INFO_LOBBY, one that its players have left forks a replacement and      *)
(* reports it with LOBBY_PID, and stop() signals every pid it knows.       *)
(*                                                                         *)
(* A handler is one step, as in Lobby; the transport delivers a packet at  *)
(* most once, in any order, or never.  What a lobby does between its       *)
(* announcement and the departure of its last player is the Lobby module.  *)
(***************************************************************************)
EXTENDS Integers, FiniteSets

CONSTANTS
    Names,       \* names of lobbies
    Procs,       \* pids of lobby processes, never used again
    MaxCreates,  \* bound: CREATE_LOBBY packets
    Main,        \* the main server, parent of the processes it forks
    None         \* the name of a process that is not born

ASSUME MainServerAssumption ==
    /\ Main \notin Procs
    /\ None \notin Names
    /\ MaxCreates \in Nat

VARIABLES
    lobbies,    \* _lobbies of the main server
    lobbyPids,  \* _lobbyPids
    main,       \* where the main thread of the main server is
    toKill,     \* pids the loop of stop() has yet to signal
    stale,      \* that loop runs on a buffer the vector has left
    proc,       \* status of each lobby process
    name,       \* _serverInfos.name of each lobby process
    parent,     \* the process that forked it
    sigint,     \* processes that took a SIGINT before their scenes run
    known,      \* lobbies some client has in its list
    creates,    \* CREATE_LOBBY packets sent so far
    net         \* packets to the main server, handled or lost one by one

mainVars == <<lobbies, lobbyPids, main, toKill, stale>>
lobbyVars == <<proc, name, parent, sigint>>
vars == <<mainVars, lobbyVars, known, creates, net>>

-----------------------------------------------------------------------------

\* A process is unborn, then starts, runs its scenes, has been told to stop
\* and has ended.
Statuses == {"unborn", "starting", "running", "stopping", "ended"}

Create == [kind : {"CREATE_LOBBY"}, name : Names, nb : 0 .. MaxCreates]
Info == [kind : {"INFO_LOBBY"}, proc : Procs]
LobbyPid == [kind : {"LOBBY_PID"}, name : Names, pid : Procs]

Entry == [name : Names, proc : Procs]
Listed(p) == \E e \in lobbies : e.proc = p

InfoOf(p) == [kind |-> "INFO_LOBBY", proc |-> p]

Init ==
    /\ lobbies = {}
    /\ lobbyPids = {}
    /\ main = "running"
    /\ toKill = {}
    /\ stale = FALSE
    /\ proc = [p \in Procs |-> "unborn"]
    /\ name = [p \in Procs |-> None]
    /\ parent = [p \in Procs |-> Main]
    /\ sigint = {}
    /\ known = {}
    /\ creates = 0
    /\ net = {}

-----------------------------------------------------------------------------
(* Forks *)

\* fork and execl succeed: the child is a lobby of that name.
Fork(q, n, by) ==
    /\ proc[q] = "unborn"
    /\ proc' = [proc EXCEPT ![q] = "starting"]
    /\ name' = [name EXCEPT ![q] = n]
    /\ parent' = [parent EXCEPT ![q] = by]
    /\ UNCHANGED sigint

\* emplace_back of a pid.  While stop() iterates, the vector may move its
\* elements and leave the loop on the old buffer.
EmplacePid(p) ==
    /\ lobbyPids' = lobbyPids \cup {p}
    /\ stale' \in {stale, stale \/ toKill # {}}
    /\ UNCHANGED <<main, toKill>>

-----------------------------------------------------------------------------
(* The handlers of the main server and its stop *)

HandlersRun == main \in {"running", "killing", "joining"}

\* A player asks for a lobby, twice perhaps, or two players for the same name.
AddCreateLobbyMsg(n) ==
    /\ creates < MaxCreates
    /\ creates' = creates + 1
    /\ net' = net \cup {[kind |-> "CREATE_LOBBY", name |-> n, nb |-> creates]}
    /\ UNCHANGED <<mainVars, lobbyVars, known>>

\* A name that is listed is refused; nothing is known of one whose process has
\* not announced itself yet.  fork may fail.
HandleCreateLobbyMsg(m) ==
    /\ HandlersRun
    /\ m.kind = "CREATE_LOBBY"
    /\ net' = net \ {m}
    /\ \/ UNCHANGED <<mainVars, lobbyVars>>
       \/ /\ ~ \E e \in lobbies : e.name = m.name
          /\ \E p \in Procs : Fork(p, m.name, Main) /\ EmplacePid(p)
          /\ UNCHANGED lobbies
    /\ UNCHANGED <<known, creates>>

HandleInfoLobbyMsg(m) ==
    /\ HandlersRun
    /\ m.kind = "INFO_LOBBY"
    /\ net' = net \ {m}
    /\ lobbies' = lobbies \cup {[name |-> name[m.proc], proc |-> m.proc]}
    /\ UNCHANGED <<lobbyPids, main, toKill, stale, lobbyVars, known, creates>>

\* Mutant of Remaining: only one lobby of that name is erased.
RemainingAllButOne(n) ==
    LET named == {e \in lobbies : e.name = n}
    IN  IF named = {} THEN lobbies ELSE lobbies \ {CHOOSE e \in named : TRUE}

\* Mutant of Remaining: the comparison of the names is the wrong way round.
RemainingSameName(n) == {e \in lobbies : e.name = n}

\* The lobbies that the erasure of a name leaves.
Remaining(n) == {e \in lobbies : e.name # n}

HandleLobbyPidMsg(m) ==
    /\ HandlersRun
    /\ m.kind = "LOBBY_PID"
    /\ net' = net \ {m}
    /\ lobbies' = Remaining(m.name)
    /\ EmplacePid(m.pid)
    /\ UNCHANGED <<lobbyVars, known, creates>>

\* The list goes out in several packets, each of which a client gets or not.
HandleRequestListLobbyMsg ==
    /\ HandlersRun
    /\ \E told \in SUBSET {e.proc : e \in lobbies} : known' = known \cup told
    /\ UNCHANGED <<mainVars, lobbyVars, creates, net>>

\* SIGINT to the main server: its main thread enters stop().
StopMain ==
    /\ main = "running"
    /\ main' = "killing"
    /\ toKill' = lobbyPids
    /\ UNCHANGED <<lobbies, lobbyPids, stale, lobbyVars, known, creates, net>>

\* Mutant of Signal: the handler only ends the loop of a main server.
SignalNotTheScenes(p) ==
    \/ /\ proc[p] = "starting"
       /\ proc' = [proc EXCEPT ![p] = "ended"]
       /\ UNCHANGED sigint
    \/ UNCHANGED <<proc, sigint>>

\* SIGINT to a lobby.  Its handler tells the scenes to stop, at once or as soon
\* as they run; before the handler is installed the process ends, or the fork
\* not yet replaced by execl takes the signal with the handler of its parent.
Signal(p) ==
    \/ /\ proc[p] = "starting"
       /\ proc' = [proc EXCEPT ![p] = "ended"]
       /\ UNCHANGED sigint
    \/ /\ proc[p] = "starting"
       /\ sigint' \in {sigint, sigint \cup {p}}
       /\ UNCHANGED proc
    \/ /\ proc[p] = "running"
       /\ proc' = [proc EXCEPT ![p] = "stopping"]
       /\ UNCHANGED sigint
    \/ /\ proc[p] \in {"stopping", "ended"}
       /\ UNCHANGED <<proc, sigint>>

\* One turn of the loop of stop(), which on a stale buffer may miss the pid.
KillLobby(p) ==
    /\ main = "killing"
    /\ p \in toKill
    /\ toKill' = toKill \ {p}
    /\ \/ Signal(p)
       \/ stale /\ UNCHANGED <<proc, sigint>>
    /\ UNCHANGED <<lobbies, lobbyPids, main, stale, name, parent, known, creates, net>>

\* The loop is over; ANitwork::stop ends the handlers, then the process.
MainThread ==
    /\ \/ main = "killing" /\ toKill = {} /\ main' = "joining"
       \/ main = "joining" /\ main' = "stopped"
    /\ UNCHANGED <<lobbies, lobbyPids, toKill, stale, lobbyVars, known, creates, net>>

-----------------------------------------------------------------------------
(* The lobby processes *)

\* mainLobbyServer: the transport is up, the lobby announces itself and runs.
AddInfoLobbyMsg(p) ==
    /\ proc[p] = "starting"
    /\ proc' = [proc EXCEPT ![p] = IF p \in sigint THEN "stopping" ELSE "running"]
    /\ net' = net \cup {InfoOf(p)}
    /\ UNCHANGED <<mainVars, name, parent, sigint, known, creates>>

\* Mutant of ReplacementName: recreateLobby is called before the name is set.
ReplacementNameUnset(p) == None

ReplacementName(p) == name[p]

\* The last player leaves (Lobby!HandleDisconnectMember): the replacement is
\* forked, or fork fails, and the lobby is told to stop.  This can happen again
\* until its main thread has stopped it.  Who plays in it has seen it listed.
LobbyEmpties(p) ==
    /\ proc[p] \in {"running", "stopping"}
    /\ p \in known
    /\ \/ /\ proc' = [proc EXCEPT ![p] = "stopping"]
          /\ UNCHANGED <<name, parent, sigint, net>>
       \/ \E q \in Procs :
            /\ proc[q] = "unborn"
            /\ proc' = [proc EXCEPT ![q] = "starting", ![p] = "stopping"]
            /\ name' = [name EXCEPT ![q] = ReplacementName(p)]
            /\ parent' = [parent EXCEPT ![q] = p]
            /\ net' = net \cup {[kind |-> "LOBBY_PID", name |-> name[p], pid |-> q]}
            /\ UNCHANGED sigint
    /\ UNCHANGED <<mainVars, known, creates>>

\* The main thread of a lobby that was told to stop ends the process.
LobbyStops(p) ==
    /\ proc[p] = "stopping"
    /\ proc' = [proc EXCEPT ![p] = "ended"]
    /\ UNCHANGED <<mainVars, name, parent, sigint, known, creates, net>>

\* A lobby cannot start, or aborts (Lobby!HandleDisconnectStranger), or is
\* killed by somebody else.
LobbyDies(p) ==
    /\ proc[p] \in {"starting", "running", "stopping"}
    /\ proc' = [proc EXCEPT ![p] = "ended"]
    /\ UNCHANGED <<mainVars, name, parent, sigint, known, creates, net>>

-----------------------------------------------------------------------------

MainServer ==
    \/ \E m \in net : HandleCreateLobbyMsg(m)
    \/ \E m \in net : HandleInfoLobbyMsg(m)
    \/ \E m \in net : HandleLobbyPidMsg(m)
    \/ HandleRequestListLobbyMsg
    \/ StopMain
    \/ \E p \in Procs : KillLobby(p)
    \/ MainThread

Lobbies ==
    \E p \in Procs :
        \/ AddInfoLobbyMsg(p)
        \/ LobbyEmpties(p)
        \/ LobbyStops(p)
        \/ LobbyDies(p)

Next ==
    \/ \E n \in Names : AddCreateLobbyMsg(n)
    \/ MainServer
    \/ Lobbies

Spec == Init /\ [][Next]_vars

\* The loop of stop() and the main threads of the lobbies are scheduled.
Fairness ==
    /\ WF_vars(MainThread)
    /\ \A p \in Procs : WF_vars(KillLobby(p)) /\ WF_vars(LobbyStops(p))

FairSpec == Spec /\ Fairness

-----------------------------------------------------------------------------
(* Properties *)

\* The types of the state; a process that is born has a name.
TypeOK ==
    /\ lobbies \in SUBSET Entry
    /\ lobbyPids \in SUBSET Procs
    /\ main \in {"running", "killing", "joining", "stopped"}
    /\ toKill \in SUBSET Procs
    /\ stale \in BOOLEAN
    /\ proc \in [Procs -> Statuses]
    /\ name \in [Procs -> Names \cup {None}]
    /\ \A p \in Procs : proc[p] # "unborn" => name[p] \in Names
    /\ parent \in [Procs -> Procs \cup {Main}]
    /\ sigint \in SUBSET Procs
    /\ known \in SUBSET Procs
    /\ creates \in 0 .. MaxCreates
    /\ net \in SUBSET (Create \cup Info \cup LobbyPid)

\* Once the main server knows the pid of the replacement of a lobby, that lobby
\* is listed no more and never again, although its packets come in any order,
\* names are used twice and a lobby may be replaced twice: players are not sent
\* to a server that shuts down.
ReplacedIsDelisted ==
    \A p, q \in Procs : parent[q] = p /\ q \in lobbyPids => ~Listed(p)

\* The erasure of a name takes no other name along: a lobby that is not listed
\* although it announced itself, or although players were told of it, has a name
\* of which a lobby was replaced.
OnlyReplacedNamesVanish ==
    \A p \in Procs :
        /\ proc[p] \in {"running", "stopping"} \/ p \in known
        /\ InfoOf(p) \notin net
        /\ ~Listed(p)
        => \E q \in lobbyPids : parent[q] # Main /\ name[q] = name[p]

\* stop() ends every lobby that runs when the loop gets to its pid, in spite of
\* players who leave and of handlers that go on adding pids meanwhile, unless
\* they make the loop read a buffer that is gone.
StopEndsLobbies ==
    \A p \in Procs :
        p \in toKill /\ proc[p] \in {"running", "stopping"} ~>
            proc[p] = "ended" \/ stale

\* What the protocol says of INFO_LOBBY: it lets the main server know that the
\* lobby exists.  A lobby that runs and whose INFO_LOBBY was handled is listed.
AnnouncedIsListed ==
    \A p \in Procs :
        proc[p] = "running" /\ InfoOf(p) \notin net => Listed(p)
=============================================================================
