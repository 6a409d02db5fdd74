---------------------------- MODULE LobbyService ----------------------------
(***************************************************************************)
(* What a lobby promises: a set of members with room for MaxPlayers, a     *)
(* game that starts when the ready are the members, a replacement when the *)
(* last member leaves.  No packets, no order, no ids of players: each      *)
(* request takes effect once, when the lobby handles it, or never.  The    *)
(* Lobby module implements it.                                             *)
(***************************************************************************)
EXTENDS Integers, FiniteSets

CONSTANTS Clients, MaxPlayers

VARIABLES
    members,   \* the clients of the lobby
    ready,     \* the members that are ready
    started,   \* the game has begun
    process,   \* running, stopping, stopped or aborted
    forks      \* replacements asked for

vars == <<members, ready, started, process, forks>>

Init ==
    /\ members = {}
    /\ ready = {}
    /\ started = FALSE
    /\ process = "running"
    /\ forks = 0

\* A lobby that was told to stop serves until it does.
Serves == process \in {"running", "stopping"}

Join(c) ==
    /\ Serves
    /\ ~started
    /\ c \notin members
    /\ Cardinality(members) < MaxPlayers
    /\ members' = members \cup {c}
    /\ UNCHANGED <<ready, started, process, forks>>

\* The one that makes the ready the members starts the game.
GetReady(c) ==
    /\ Serves
    /\ ~started
    /\ c \in members
    /\ ready' = ready \cup {c}
    /\ started' = (ready' = members)
    /\ UNCHANGED <<members, process, forks>>

Leave(c) ==
    /\ Serves
    /\ c \in members
    /\ members # {c}
    /\ members' = members \ {c}
    /\ ready' = ready \ {c}
    /\ UNCHANGED <<started, process, forks>>

LeaveLast(c) ==
    /\ Serves
    /\ members = {c}
    /\ members' = {}
    /\ ready' = ready \ {c}
    /\ process' = "stopping"
    /\ forks' = forks + 1
    /\ UNCHANGED started

Stop ==
    /\ process = "stopping"
    /\ process' = "stopped"
    /\ UNCHANGED <<members, ready, started, forks>>

\* Somebody who is no member asks to leave.
Abort(c) ==
    /\ Serves
    /\ c \notin members
    /\ process' = "aborted"
    /\ UNCHANGED <<members, ready, started, forks>>

Next ==
    \/ \E c \in Clients : Join(c) \/ GetReady(c) \/ Leave(c) \/ LeaveLast(c) \/ Abort(c)
    \/ Stop

Spec == Init /\ [][Next]_vars
=============================================================================
