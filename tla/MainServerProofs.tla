-------------------------- MODULE MainServerProofs --------------------------
(***************************************************************************)
(* Proofs about the directory of lobbies, for any set of names and of      *)
(* processes and any number of requests.                                   *)
(***************************************************************************)
EXTENDS MainServer, TLAPS

\* A process that has announced itself, or died before.
Announced(p) == proc[p] \in {"running", "stopping", "ended"}

\* Whoever is listed announced itself under its name, and the announcement is
\* used up.
ListedOK ==
    \A e \in lobbies :
        Announced(e.proc) /\ InfoOf(e.proc) \notin net /\ e.name = name[e.proc]

\* So is the announcement of a lobby that players know.
KnownOK == \A p \in known : Announced(p) /\ InfoOf(p) \notin net

\* Packets come from lobbies that sent them: an announcement from one that is
\* up, a pid from one that forked it under its own name.
NetOK ==
    \A m \in net :
        /\ m.kind = "INFO_LOBBY" => Announced(m.proc)
        /\ m.kind = "LOBBY_PID" =>
               /\ proc[m.pid] # "unborn"
               /\ parent[m.pid] # Main
               /\ name[m.pid] = m.name

\* A lobby that forked another was known to players and has the same name.
ParentOK ==
    \A p, q \in Procs : parent[q] = p => p \in known /\ name[p] = name[q]

\* A process that is not born has no parent but the default and no entry.
UnbornOK ==
    \A p \in Procs :
        proc[p] = "unborn" => parent[p] = Main /\ p \notin lobbyPids

IInv ==
    /\ TypeOK
    /\ ListedOK
    /\ KnownOK
    /\ NetOK
    /\ ParentOK
    /\ UnbornOK
    /\ ReplacedIsDelisted
    /\ OnlyReplacedNamesVanish
-----------------------------------------------------------------------------
(* Facts used by several steps *)

\* What the fields of a packet are.
LEMMA PacketTypes ==
    ASSUME TypeOK, NEW m \in net
    PROVE  /\ m.kind = "CREATE_LOBBY" => m.name \in Names
           /\ m.kind = "INFO_LOBBY" => m.proc \in Procs /\ m = InfoOf(m.proc)
           /\ m.kind = "LOBBY_PID" => m.name \in Names /\ m.pid \in Procs
BY DEF TypeOK, Create, Info, LobbyPid, InfoOf

\* A process that is told to stop, or ends, stays announced if it was, is not
\* unborn again and does not run again.
Advance(p) ==
    /\ proc' \in [Procs -> Statuses]
    /\ \A q \in Procs :
        /\ Announced(q) => Announced(q)'
        /\ proc'[q] = "unborn" <=> proc[q] = "unborn"
        /\ proc'[q] \in {"running", "stopping"} => q = p \/ proc[q] = proc'[q]
    /\ proc'[p] \in {"running", "stopping"} => proc[p] \in {"running", "stopping"}

\* The invariant does not care for the status of a process otherwise.
LEMMA AdvanceInv ==
    ASSUME IInv, NEW p \in Procs, Advance(p),
           toKill' \in SUBSET Procs, sigint' \in SUBSET Procs,
           UNCHANGED <<lobbies, lobbyPids, main, stale, name, parent, known, creates, net>>
    PROVE  IInv'
<1>1. TypeOK'
  BY DEF IInv, TypeOK, Advance
<1>2. \A q \in Procs : Announced(q) => Announced(q)'
  BY DEF Advance
<1>3. ListedOK'
  <2>1. \A e \in lobbies : e.proc \in Procs
    BY DEF IInv, TypeOK, Entry
  <2> QED
    BY <1>2, <2>1 DEF IInv, ListedOK, InfoOf
<1>4. KnownOK'
  BY <1>2 DEF IInv, TypeOK, KnownOK, InfoOf
<1>5. NetOK'
  BY <1>2, PacketTypes DEF IInv, NetOK, Advance
<1>6. ParentOK' /\ UnbornOK'
  BY DEF IInv, ParentOK, UnbornOK, Advance
<1>7. ReplacedIsDelisted'
  BY DEF IInv, ReplacedIsDelisted, Listed
<1>8. OnlyReplacedNamesVanish'
  BY DEF IInv, OnlyReplacedNamesVanish, Listed, InfoOf, Advance
<1> QED
  BY <1>1, <1>3, <1>4, <1>5, <1>6, <1>7, <1>8 DEF IInv

\* A fork gives a process that was not born a name and a parent, and touches no
\* other; whatever the invariant says of announced processes is not about it.
LEMMA ForkFrame ==
    ASSUME IInv, NEW q \in Procs, proc[q] = "unborn"
    PROVE  /\ q \notin known /\ q \notin lobbyPids
           /\ \A e \in lobbies : e.proc \in Procs /\ e.proc # q
           /\ \A r \in Procs : parent[r] # q
           /\ \A m \in net : m.kind = "INFO_LOBBY" => m.proc # q
           /\ \A m \in net : m.kind = "LOBBY_PID" => m.pid # q
<1>1. ~Announced(q)
  BY DEF Announced
<1>2. q \notin known
  BY <1>1 DEF IInv, KnownOK
<1> QED
  BY <1>1, <1>2 DEF IInv, TypeOK, Entry, ListedOK, NetOK, ParentOK, UnbornOK

-----------------------------------------------------------------------------
(* The invariant *)

\* At the start there are no lobbies and no packets to say anything of.
LEMMA InitInv == Init => IInv
<1> SUFFICES ASSUME Init PROVE IInv
  OBVIOUS
<1>1. TypeOK
  <2>1. proc \in [Procs -> Statuses] /\ \A p \in Procs : proc[p] = "unborn"
    BY DEF Init, Statuses
  <2>2. name \in [Procs -> Names \cup {None}] /\ parent \in [Procs -> Procs \cup {Main}]
    BY DEF Init
  <2>3. creates \in 0 .. MaxCreates
    BY MainServerAssumption DEF Init
  <2> QED
    BY <2>1, <2>2, <2>3 DEF Init, TypeOK
<1>2. ListedOK /\ KnownOK /\ NetOK
  BY DEF Init, ListedOK, KnownOK, NetOK
<1>3. ParentOK /\ UnbornOK
  BY MainServerAssumption DEF Init, ParentOK, UnbornOK
<1>4. ReplacedIsDelisted /\ OnlyReplacedNamesVanish
  BY DEF Init, ReplacedIsDelisted, OnlyReplacedNamesVanish, Listed
<1> QED
  BY <1>1, <1>2, <1>3, <1>4 DEF IInv

\* A CREATE_LOBBY forks a process that nobody knows yet, or changes nothing.
LEMMA CreateInv ==
    ASSUME IInv, NEW m \in net, HandleCreateLobbyMsg(m)
    PROVE  IInv'
<1>1. /\ m.kind = "CREATE_LOBBY" /\ m.name \in Names
      /\ net' = net \ {m}
      /\ UNCHANGED <<known, creates>>
  BY PacketTypes DEF HandleCreateLobbyMsg, IInv
<1>2. \A p \in Procs : InfoOf(p) \in net' <=> InfoOf(p) \in net
  BY <1>1 DEF InfoOf
<1>3. CASE UNCHANGED <<mainVars, lobbyVars>>
  <2>1. TypeOK' /\ ListedOK' /\ KnownOK'
    BY <1>1, <1>3 DEF IInv, TypeOK, ListedOK, KnownOK, Announced, InfoOf, mainVars, lobbyVars
  <2>2. NetOK' /\ ParentOK' /\ UnbornOK'
    BY <1>1, <1>3 DEF IInv, NetOK, ParentOK, UnbornOK, Announced, mainVars, lobbyVars
  <2>3. ReplacedIsDelisted'
    BY <1>3 DEF IInv, ReplacedIsDelisted, Listed, mainVars, lobbyVars
  <2>4. OnlyReplacedNamesVanish'
    BY <1>1, <1>2, <1>3 DEF IInv, OnlyReplacedNamesVanish, Listed, mainVars, lobbyVars
  <2> QED
    BY <2>1, <2>2, <2>3, <2>4 DEF IInv
<1>4. ASSUME NEW q \in Procs, Fork(q, m.name, Main), EmplacePid(q), UNCHANGED lobbies
      PROVE  IInv'
  <2>1. /\ proc[q] = "unborn"
        /\ proc' = [proc EXCEPT ![q] = "starting"]
        /\ name' = [name EXCEPT ![q] = m.name]
        /\ parent' = [parent EXCEPT ![q] = Main]
        /\ lobbyPids' = lobbyPids \cup {q}
    BY <1>4 DEF Fork, EmplacePid
  <2>2. TypeOK
    BY DEF IInv
  <2>3. \A p \in Procs : p # q =>
            proc'[p] = proc[p] /\ name'[p] = name[p] /\ parent'[p] = parent[p]
    BY <2>1, <2>2 DEF TypeOK
  <2>4. proc'[q] = "starting" /\ name'[q] = m.name /\ parent'[q] = Main
    BY <2>1, <2>2 DEF TypeOK
  <2>5. TypeOK'
    BY <1>1, <1>4, <2>1, <2>2 DEF TypeOK, EmplacePid, Fork, Statuses
  <2>6. ListedOK'
    BY <1>2, <1>4, <2>1, <2>3, ForkFrame DEF IInv, ListedOK, Announced
  <2>7. KnownOK'
    BY <1>1, <1>2, <2>1, <2>2, <2>3, ForkFrame DEF IInv, TypeOK, KnownOK, Announced
  <2>8. NetOK'
    BY <1>1, <2>1, <2>2, <2>3, ForkFrame, PacketTypes DEF IInv, NetOK, Announced
  <2>9. ParentOK'
    BY <1>1, <2>1, <2>3, <2>4, ForkFrame, MainServerAssumption DEF IInv, ParentOK
  <2>10. UnbornOK'
    BY <2>1, <2>3, <2>4 DEF IInv, UnbornOK
  <2>11. ReplacedIsDelisted'
    BY <1>4, <2>1, <2>3, <2>4, MainServerAssumption DEF IInv, ReplacedIsDelisted, Listed
  <2>12. OnlyReplacedNamesVanish'
    BY <1>1, <1>2, <1>4, <2>1, <2>2, <2>3, <2>4, ForkFrame
    DEF IInv, TypeOK, OnlyReplacedNamesVanish, Listed
  <2> QED
    BY <2>5, <2>6, <2>7, <2>8, <2>9, <2>10, <2>11, <2>12 DEF IInv
<1> QED
  BY <1>3, <1>4 DEF HandleCreateLobbyMsg

\* The one INFO_LOBBY of a process lists it while no player can know it, hence
\* before it can have been replaced.
LEMMA InfoInv ==
    ASSUME IInv, NEW m \in net, HandleInfoLobbyMsg(m)
    PROVE  IInv'
<1>1. /\ m.proc \in Procs /\ m = InfoOf(m.proc)
      /\ net' = net \ {m}
      /\ lobbies' = lobbies \cup {[name |-> name[m.proc], proc |-> m.proc]}
      /\ UNCHANGED <<lobbyPids, main, toKill, stale, lobbyVars, known, creates>>
  BY PacketTypes DEF HandleInfoLobbyMsg, IInv
<1>2. Announced(m.proc)
  BY DEF IInv, NetOK, HandleInfoLobbyMsg
<1>3. \A p \in Procs : Listed(p)' <=> Listed(p) \/ p = m.proc
  <2> DEFINE new == [name |-> name[m.proc], proc |-> m.proc]
  <2>1. new.proc = m.proc /\ lobbies' = lobbies \cup {new}
    BY <1>1
  <2> HIDE DEF new
  <2> QED
    BY <2>1 DEF Listed
<1>4. TypeOK'
  BY <1>1, <1>2 DEF IInv, TypeOK, Entry, Announced, lobbyVars
<1>5. ListedOK'
  <2> SUFFICES ASSUME NEW e \in lobbies'
               PROVE  Announced(e.proc)' /\ InfoOf(e.proc) \notin net' /\ e.name = name'[e.proc]
    BY DEF ListedOK, InfoOf
  <2>1. CASE e \in lobbies
    BY <1>1, <2>1 DEF IInv, ListedOK, Announced, lobbyVars
  <2>2. CASE e = [name |-> name[m.proc], proc |-> m.proc]
    <3>1. e.proc = m.proc /\ e.name = name[m.proc]
      BY <2>2
    <3> QED
      BY <1>1, <1>2, <3>1 DEF Announced, lobbyVars
  <2> QED
    BY <1>1, <2>1, <2>2
<1>6. KnownOK' /\ NetOK' /\ ParentOK' /\ UnbornOK'
  BY <1>1 DEF IInv, KnownOK, NetOK, ParentOK, UnbornOK, Announced, InfoOf, lobbyVars
<1>7. ReplacedIsDelisted'
  <2>1. m.proc \notin known
    BY <1>1 DEF IInv, KnownOK
  <2>2. \A q \in Procs : parent[q] # m.proc
    BY <1>1, <2>1 DEF IInv, ParentOK
  <2> QED
    BY <1>1, <1>3, <2>2 DEF IInv, ReplacedIsDelisted, lobbyVars
<1>8. OnlyReplacedNamesVanish'
  <2>1. \A p \in Procs : p # m.proc => (InfoOf(p) \in net' <=> InfoOf(p) \in net)
    BY <1>1 DEF InfoOf
  <2> QED
    BY <1>1, <1>3, <2>1 DEF IInv, OnlyReplacedNamesVanish, InfoOf, lobbyVars
<1> QED
  BY <1>4, <1>5, <1>6, <1>7, <1>8 DEF IInv

\* A LOBBY_PID erases the name that the reported process and its parent share.
LEMMA LobbyPidInv ==
    ASSUME IInv, NEW m \in net, HandleLobbyPidMsg(m)
    PROVE  IInv'
<1>1. /\ m.kind = "LOBBY_PID" /\ m.name \in Names /\ m.pid \in Procs
      /\ net' = net \ {m}
      /\ lobbies' = {e \in lobbies : e.name # m.name}
      /\ lobbyPids' = lobbyPids \cup {m.pid}
      /\ stale' \in BOOLEAN
      /\ UNCHANGED <<main, toKill, lobbyVars, known, creates>>
  BY PacketTypes DEF HandleLobbyPidMsg, Remaining, EmplacePid, IInv, TypeOK
<1>2. /\ proc[m.pid] # "unborn" /\ parent[m.pid] # Main /\ name[m.pid] = m.name
  BY <1>1 DEF IInv, NetOK
<1>3. \A p \in Procs : InfoOf(p) \in net' <=> InfoOf(p) \in net
  BY <1>1 DEF InfoOf
<1>4. TypeOK'
  BY <1>1 DEF IInv, TypeOK, lobbyVars
<1>5. ListedOK' /\ KnownOK' /\ NetOK'
  BY <1>1 DEF IInv, ListedOK, KnownOK, NetOK, Announced, InfoOf, lobbyVars
<1>6. ParentOK' /\ UnbornOK'
  BY <1>1, <1>2 DEF IInv, ParentOK, UnbornOK, lobbyVars
<1>7. ReplacedIsDelisted'
  <2> SUFFICES ASSUME NEW p \in Procs, NEW q \in Procs, parent[q] = p, q \in lobbyPids',
                      NEW e \in lobbies', e.proc = p
               PROVE  FALSE
    BY <1>1 DEF ReplacedIsDelisted, Listed, lobbyVars
  <2>1. e \in lobbies /\ e.name # m.name
    BY <1>1
  <2>2. q = m.pid
    BY <1>1, <2>1 DEF IInv, ReplacedIsDelisted, Listed
  <2>3. name[p] = m.name
    BY <1>2, <2>2 DEF IInv, ParentOK
  <2> QED
    BY <2>1, <2>3 DEF IInv, ListedOK
<1>8. OnlyReplacedNamesVanish'
  <2> SUFFICES ASSUME NEW p \in Procs,
                      proc[p] \in {"running", "stopping"} \/ p \in known,
                      InfoOf(p) \notin net, ~Listed(p)'
               PROVE  \E q \in lobbyPids' : parent[q] # Main /\ name[q] = name[p]
    BY <1>1, <1>3 DEF OnlyReplacedNamesVanish, InfoOf, lobbyVars
  <2>1. CASE ~Listed(p)
    BY <1>1, <2>1 DEF IInv, OnlyReplacedNamesVanish
  <2>2. CASE Listed(p)
    <3>1. PICK e \in lobbies : e.proc = p
      BY <2>2 DEF Listed
    <3>2. e.name = m.name
      BY <1>1, <3>1 DEF Listed
    <3>3. name[p] = m.name
      BY <3>1, <3>2 DEF IInv, ListedOK
    <3> QED
      BY <1>1, <1>2, <3>3
  <2> QED
    BY <2>1, <2>2
<1> QED
  BY <1>4, <1>5, <1>6, <1>7, <1>8 DEF IInv

\* A process announces itself once, when it ceases to start.
LEMMA AddInfoInv ==
    ASSUME IInv, NEW p \in Procs, AddInfoLobbyMsg(p)
    PROVE  IInv'
<1>1. /\ proc[p] = "starting"
      /\ proc' \in [Procs -> Statuses]
      /\ proc'[p] \in {"running", "stopping"}
      /\ \A q \in Procs : q # p => proc'[q] = proc[q]
      /\ net' = net \cup {InfoOf(p)}
      /\ UNCHANGED <<mainVars, name, parent, sigint, known, creates>>
  BY DEF AddInfoLobbyMsg, IInv, TypeOK, Statuses
<1>2. ~Announced(p) /\ \A q \in Procs : Announced(q) => Announced(q)'
  BY <1>1 DEF Announced
<1>3. \A q \in Procs : q # p => (InfoOf(q) \in net' <=> InfoOf(q) \in net)
  BY <1>1 DEF InfoOf
<1>4. TypeOK'
  BY <1>1 DEF IInv, TypeOK, Info, InfoOf, mainVars
<1>5. ListedOK'
  <2>1. \A e \in lobbies : e.proc \in Procs /\ e.proc # p
    BY <1>2 DEF IInv, TypeOK, Entry, ListedOK
  <2> QED
    BY <1>1, <1>2, <1>3, <2>1 DEF IInv, ListedOK, InfoOf, mainVars
<1>6. KnownOK'
  <2>1. \A q \in known : q \in Procs /\ q # p
    BY <1>2 DEF IInv, TypeOK, KnownOK
  <2> QED
    BY <1>1, <1>2, <1>3, <2>1 DEF IInv, KnownOK, InfoOf
<1>7. NetOK'
  <2> SUFFICES ASSUME NEW m \in net'
               PROVE  /\ m.kind = "INFO_LOBBY" => Announced(m.proc)'
                      /\ m.kind = "LOBBY_PID" =>
                             proc'[m.pid] # "unborn" /\ parent'[m.pid] # Main
                                 /\ name'[m.pid] = m.name
    BY DEF NetOK
  <2>1. CASE m \in net
    <3>1. m.kind = "INFO_LOBBY" => Announced(m.proc)'
      BY <1>2, <2>1, PacketTypes DEF IInv, NetOK
    <3>2. m.kind = "LOBBY_PID" =>
              m.pid \in Procs /\ proc[m.pid] # "unborn" /\ parent[m.pid] # Main
                  /\ name[m.pid] = m.name
      BY <2>1, PacketTypes DEF IInv, NetOK
    <3> QED
      BY <1>1, <3>1, <3>2
  <2>2. CASE m = InfoOf(p)
    <3>1. m.kind = "INFO_LOBBY" /\ m.proc = p
      BY <2>2 DEF InfoOf
    <3> QED
      BY <1>1, <3>1 DEF Announced
  <2> QED
    BY <1>1, <2>1, <2>2
<1>8. ParentOK' /\ UnbornOK'
  BY <1>1 DEF IInv, ParentOK, UnbornOK, mainVars
<1>9. ReplacedIsDelisted'
  BY <1>1 DEF IInv, ReplacedIsDelisted, Listed, mainVars
<1>10. OnlyReplacedNamesVanish'
  BY <1>1, <1>3 DEF IInv, OnlyReplacedNamesVanish, Listed, InfoOf, mainVars
<1> QED
  BY <1>4, <1>5, <1>6, <1>7, <1>8, <1>9, <1>10 DEF IInv

\* A replacement has the name of its parent, which players know, so that the
\* INFO_LOBBY of the parent is used up.
LEMMA EmptiesInv ==
    ASSUME IInv, NEW p \in Procs, LobbyEmpties(p)
    PROVE  IInv'
<1>1. /\ proc[p] \in {"running", "stopping"} /\ p \in known
      /\ UNCHANGED <<mainVars, known, creates>>
      /\ TypeOK
  BY DEF LobbyEmpties, IInv
<1>2. CASE proc' = [proc EXCEPT ![p] = "stopping"] /\ UNCHANGED <<name, parent, sigint, net>>
  <2>1. Advance(p)
    BY <1>1, <1>2 DEF TypeOK, Advance, Announced, Statuses
  <2> QED
    BY <1>1, <1>2, <2>1, AdvanceInv DEF mainVars, TypeOK
<1>3. ASSUME NEW q \in Procs, proc[q] = "unborn",
             proc' = [proc EXCEPT ![q] = "starting", ![p] = "stopping"],
             name' = [name EXCEPT ![q] = name[p]],
             parent' = [parent EXCEPT ![q] = p],
             net' = net \cup {[kind |-> "LOBBY_PID", name |-> name[p], pid |-> q]},
             UNCHANGED sigint
      PROVE  IInv'
  <2>1. p # q /\ name[p] \in Names
    BY <1>1, <1>3 DEF TypeOK
  <2>2. /\ proc'[q] = "starting" /\ proc'[p] = "stopping"
        /\ name'[q] = name[p] /\ parent'[q] = p
        /\ \A r \in Procs : r # q =>
               /\ name'[r] = name[r] /\ parent'[r] = parent[r]
               /\ r # p => proc'[r] = proc[r]
    BY <1>1, <1>3, <2>1 DEF TypeOK
  <2>3. \A r \in Procs : r # q => (Announced(r)' <=> Announced(r))
    BY <1>1, <2>2 DEF Announced
  <2>4. \A r \in Procs : InfoOf(r) \in net' <=> InfoOf(r) \in net
    BY <1>3 DEF InfoOf
  <2>5. TypeOK'
    <3>1. proc' \in [Procs -> Statuses] /\ name' \in [Procs -> Names \cup {None}]
             /\ parent' \in [Procs -> Procs \cup {Main}]
      BY <1>1, <1>3, <2>1 DEF TypeOK, Statuses
    <3>2. net' \in SUBSET (Create \cup Info \cup LobbyPid)
      BY <1>1, <1>3, <2>1 DEF TypeOK, LobbyPid
    <3>3. \A r \in Procs : proc'[r] # "unborn" => name'[r] \in Names
      BY <1>1, <2>1, <2>2 DEF TypeOK
    <3> QED
      BY <1>1, <1>3, <3>1, <3>2, <3>3 DEF TypeOK, mainVars
  <2>6. ListedOK'
    <3>1. \A e \in lobbies :
              /\ e.proc \in Procs /\ e.proc # q
              /\ Announced(e.proc) /\ InfoOf(e.proc) \notin net /\ e.name = name[e.proc]
      BY <1>3, ForkFrame DEF IInv, ListedOK
    <3>2. lobbies' = lobbies
      BY <1>1 DEF mainVars
    <3> QED
      BY <2>2, <2>3, <2>4, <3>1, <3>2 DEF ListedOK, InfoOf
  <2>7. KnownOK'
    <3>1. \A r \in known : r \in Procs /\ r # q
      BY <1>1, <1>3, ForkFrame DEF TypeOK
    <3> QED
      BY <1>1, <2>3, <2>4, <3>1 DEF IInv, KnownOK, InfoOf
  <2>8. NetOK'
    <3> SUFFICES ASSUME NEW m \in net'
                 PROVE  /\ m.kind = "INFO_LOBBY" => Announced(m.proc)'
                        /\ m.kind = "LOBBY_PID" =>
                               proc'[m.pid] # "unborn" /\ parent'[m.pid] # Main
                                   /\ name'[m.pid] = m.name
      BY DEF NetOK
    <3>1. CASE m \in net
      <4>1. m.kind = "INFO_LOBBY" => Announced(m.proc)'
        BY <1>1, <1>3, <2>3, <3>1, ForkFrame, PacketTypes DEF IInv, NetOK
      <4>2. m.kind = "LOBBY_PID" =>
                m.pid \in Procs /\ m.pid # q /\ proc[m.pid] # "unborn"
                    /\ parent[m.pid] # Main /\ name[m.pid] = m.name
        BY <1>1, <1>3, <3>1, ForkFrame, PacketTypes DEF IInv, NetOK
      <4> QED
        BY <2>2, <4>1, <4>2
    <3>2. CASE m = [kind |-> "LOBBY_PID", name |-> name[p], pid |-> q]
      <4>1. m.kind = "LOBBY_PID" /\ m.name = name[p] /\ m.pid = q
        BY <3>2
      <4> QED
        BY <2>2, <4>1, MainServerAssumption
    <3> QED
      BY <1>3, <3>1, <3>2
  <2>9. ParentOK'
    BY <1>1, <1>3, <2>1, <2>2, ForkFrame DEF IInv, ParentOK
  <2>10. UnbornOK'
    BY <1>1, <2>2 DEF IInv, UnbornOK, mainVars
  <2>11. ReplacedIsDelisted'
    BY <1>1, <1>3, <2>2, ForkFrame DEF IInv, ReplacedIsDelisted, Listed, mainVars
  <2>12. OnlyReplacedNamesVanish'
    <3> SUFFICES ASSUME NEW r \in Procs,
                        proc'[r] \in {"running", "stopping"} \/ r \in known,
                        InfoOf(r) \notin net, ~Listed(r)
                 PROVE  \E s \in lobbyPids : parent'[s] # Main /\ name'[s] = name'[r]
      BY <1>1, <2>4 DEF OnlyReplacedNamesVanish, Listed, InfoOf, mainVars
    <3>1. r # q
      BY <1>3, <2>2, ForkFrame
    <3>2. proc[r] \in {"running", "stopping"} \/ r \in known
      BY <1>1, <2>2, <3>1
    <3>3. PICK s \in lobbyPids : parent[s] # Main /\ name[s] = name[r]
      BY <3>2 DEF IInv, OnlyReplacedNamesVanish
    <3>4. s # q /\ s \in Procs
      BY <1>1, <1>3, ForkFrame DEF TypeOK
    <3> QED
      BY <2>2, <3>1, <3>3, <3>4
  <2> QED
    BY <2>5, <2>6, <2>7, <2>8, <2>9, <2>10, <2>11, <2>12 DEF IInv
<1> QED
  BY <1>2, <1>3 DEF LobbyEmpties, ReplacementName

\* Every step keeps the invariant.
LEMMA NextInv == IInv /\ [Next]_vars => IInv'
<1> SUFFICES ASSUME IInv, [Next]_vars PROVE IInv'
  OBVIOUS
<1>1. ASSUME NEW n \in Names, AddCreateLobbyMsg(n) PROVE IInv'
  <2> DEFINE m == [kind |-> "CREATE_LOBBY", name |-> n, nb |-> creates]
  <2>1. net' = net \cup {m} /\ creates' = creates + 1 /\ creates < MaxCreates
           /\ UNCHANGED <<mainVars, lobbyVars, known>>
    BY <1>1 DEF AddCreateLobbyMsg
  <2>2. m \in Create
    BY MainServerAssumption DEF IInv, TypeOK, Create
  <2>3. TypeOK'
    BY <2>1, <2>2, MainServerAssumption DEF IInv, TypeOK, mainVars, lobbyVars
  <2>4. m.kind = "CREATE_LOBBY" /\ \A p \in Procs : InfoOf(p) # m
    BY DEF InfoOf
  <2> HIDE DEF m
  <2>5. ListedOK' /\ KnownOK'
    BY <2>1, <2>4 DEF IInv, TypeOK, Entry, ListedOK, KnownOK, Announced, InfoOf, mainVars, lobbyVars
  <2>6. NetOK' /\ ParentOK' /\ UnbornOK'
    BY <2>1, <2>4 DEF IInv, NetOK, ParentOK, UnbornOK, Announced, mainVars, lobbyVars
  <2>7. ReplacedIsDelisted' /\ OnlyReplacedNamesVanish'
    BY <2>1, <2>4 DEF IInv, ReplacedIsDelisted, OnlyReplacedNamesVanish, Listed, InfoOf, mainVars, lobbyVars
  <2> QED
    BY <2>3, <2>5, <2>6, <2>7 DEF IInv
<1>2. ASSUME NEW m \in net, HandleCreateLobbyMsg(m) PROVE IInv'
  BY <1>2, CreateInv
<1>3. ASSUME NEW m \in net, HandleInfoLobbyMsg(m) PROVE IInv'
  BY <1>3, InfoInv
<1>4. ASSUME NEW m \in net, HandleLobbyPidMsg(m) PROVE IInv'
  BY <1>4, LobbyPidInv
<1>5. ASSUME HandleRequestListLobbyMsg PROVE IInv'
  <2>1. PICK told \in SUBSET {e.proc : e \in lobbies} : known' = known \cup told
    BY <1>5 DEF HandleRequestListLobbyMsg
  <2>2. UNCHANGED <<mainVars, lobbyVars, creates, net>>
    BY <1>5 DEF HandleRequestListLobbyMsg
  <2>3. \A p \in told : p \in Procs /\ Listed(p) /\ Announced(p) /\ InfoOf(p) \notin net
    BY DEF IInv, TypeOK, Entry, ListedOK, Listed
  <2>4. TypeOK'
    BY <2>1, <2>2, <2>3 DEF IInv, TypeOK, mainVars, lobbyVars
  <2>5. KnownOK'
    BY <2>1, <2>2, <2>3 DEF IInv, KnownOK, Announced, InfoOf, lobbyVars
  <2>6. ListedOK' /\ NetOK' /\ ParentOK' /\ UnbornOK'
    BY <2>1, <2>2 DEF IInv, ListedOK, NetOK, ParentOK, UnbornOK, Announced, InfoOf, mainVars, lobbyVars
  <2>7. ReplacedIsDelisted'
    BY <2>2 DEF IInv, ReplacedIsDelisted, Listed, mainVars, lobbyVars
  <2>8. OnlyReplacedNamesVanish'
    BY <2>1, <2>2, <2>3 DEF IInv, OnlyReplacedNamesVanish, Listed, InfoOf, mainVars, lobbyVars
  <2> QED
    BY <2>4, <2>5, <2>6, <2>7, <2>8 DEF IInv
<1>6. ASSUME StopMain PROVE IInv'
  <2>1. TypeOK' /\ ListedOK' /\ KnownOK'
    BY <1>6 DEF StopMain, IInv, TypeOK, ListedOK, KnownOK, Announced, InfoOf, lobbyVars
  <2>2. NetOK' /\ ParentOK' /\ UnbornOK'
    BY <1>6 DEF StopMain, IInv, NetOK, ParentOK, UnbornOK, Announced, lobbyVars
  <2>3. ReplacedIsDelisted' /\ OnlyReplacedNamesVanish'
    BY <1>6 DEF StopMain, IInv, ReplacedIsDelisted, OnlyReplacedNamesVanish, Listed, InfoOf, lobbyVars
  <2> QED
    BY <2>1, <2>2, <2>3 DEF IInv
<1>7. ASSUME NEW p \in Procs, KillLobby(p) PROVE IInv'
  <2>1. /\ toKill' \in SUBSET Procs
        /\ UNCHANGED <<lobbies, lobbyPids, main, stale, name, parent, known, creates, net>>
    BY <1>7 DEF KillLobby, IInv, TypeOK
  <2>2. Signal(p) \/ UNCHANGED <<proc, sigint>>
    BY <1>7 DEF KillLobby
  <2>3. sigint' \in SUBSET Procs
    BY <2>2 DEF Signal, IInv, TypeOK
  <2>4. Advance(p)
    BY <2>2 DEF Signal, IInv, TypeOK, Advance, Announced, Statuses
  <2> QED
    BY <2>1, <2>3, <2>4, AdvanceInv
<1>8. ASSUME MainThread PROVE IInv'
  <2>1. TypeOK' /\ ListedOK' /\ KnownOK'
    BY <1>8 DEF MainThread, IInv, TypeOK, ListedOK, KnownOK, Announced, InfoOf, lobbyVars
  <2>2. NetOK' /\ ParentOK' /\ UnbornOK'
    BY <1>8 DEF MainThread, IInv, NetOK, ParentOK, UnbornOK, Announced, lobbyVars
  <2>3. ReplacedIsDelisted' /\ OnlyReplacedNamesVanish'
    BY <1>8 DEF MainThread, IInv, ReplacedIsDelisted, OnlyReplacedNamesVanish, Listed, InfoOf, lobbyVars
  <2> QED
    BY <2>1, <2>2, <2>3 DEF IInv
<1>9. ASSUME NEW p \in Procs, AddInfoLobbyMsg(p) PROVE IInv'
  BY <1>9, AddInfoInv
<1>10. ASSUME NEW p \in Procs, LobbyEmpties(p) PROVE IInv'
  BY <1>10, EmptiesInv
<1>11. ASSUME NEW p \in Procs, LobbyStops(p) \/ LobbyDies(p) PROVE IInv'
  <2>1. Advance(p)
    BY <1>11 DEF LobbyStops, LobbyDies, IInv, TypeOK, Advance, Announced, Statuses
  <2>2. /\ toKill' \in SUBSET Procs /\ sigint' \in SUBSET Procs
        /\ UNCHANGED <<lobbies, lobbyPids, main, stale, name, parent, known, creates, net>>
    BY <1>11 DEF LobbyStops, LobbyDies, IInv, TypeOK, mainVars
  <2> QED
    BY <2>1, <2>2, AdvanceInv
<1>12. CASE UNCHANGED vars
  <2>1. TypeOK' /\ ListedOK' /\ KnownOK'
    BY <1>12 DEF vars, mainVars, lobbyVars, IInv, TypeOK, ListedOK, KnownOK, Announced, InfoOf
  <2>2. NetOK' /\ ParentOK' /\ UnbornOK'
    BY <1>12 DEF vars, mainVars, lobbyVars, IInv, NetOK, ParentOK, UnbornOK, Announced
  <2>3. ReplacedIsDelisted' /\ OnlyReplacedNamesVanish'
    BY <1>12 DEF vars, mainVars, lobbyVars, IInv, ReplacedIsDelisted, OnlyReplacedNamesVanish, Listed, InfoOf
  <2> QED
    BY <2>1, <2>2, <2>3 DEF IInv
<1> QED
  BY <1>1, <1>2, <1>3, <1>4, <1>5, <1>6, <1>7, <1>8, <1>9, <1>10, <1>11, <1>12
  DEF Next, MainServer, Lobbies

-----------------------------------------------------------------------------
(* The theorems *)

\* The invariant holds, for any names, processes and number of requests.
THEOREM Invariance == Spec => []IInv
<1>1. Init => IInv
  BY InitInv
<1>2. IInv /\ [Next]_vars => IInv'
  BY NextInv
<1> QED
  BY <1>1, <1>2, PTL DEF Spec

\* The state of main server and lobbies is of its types, and every process that
\* is born has a name: replacements inherit one.
THEOREM TypeCorrect == Spec => []TypeOK
<1>1. IInv => TypeOK
  BY DEF IInv
<1> QED
  BY <1>1, Invariance, PTL

\* handleLobbyPidMsg takes a lobby that was replaced out of the list for good.
THEOREM NeverListedAgain == Spec => []ReplacedIsDelisted
<1>1. IInv => ReplacedIsDelisted
  BY DEF IInv
<1> QED
  BY <1>1, Invariance, PTL

\* handleLobbyPidMsg takes only lobbies out of the list of whose name one was
\* replaced.
THEOREM OthersStayListed == Spec => []OnlyReplacedNamesVanish
<1>1. IInv => OnlyReplacedNamesVanish
  BY DEF IInv
<1> QED
  BY <1>1, Invariance, PTL
=============================================================================
