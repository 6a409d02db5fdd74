------------------------------ MODULE Nitwork ------------------------------
(***************************************************************************)
(* The reliability layer every R-Bus process runs (class ANitwork): packet *)
(* ids, the memory of received ids, the acknowledgement header, the buffer *)
(* of sent packets and the input and output queues, over a UDP network     *)
(* that loses, delays, reorders and duplicates datagrams.                  *)
(*                                                                         *)
(* Threads.  The receive handler (one async_receive at a time) is rx; the  *)
(* output loop is out; one input tick is one step.  Both loops hold        *)
(* _tickMutex, so an input tick and an output loop exclude each other; the *)
(* output loop also holds _outputQueueMutex, so nobody enqueues during it. *)
(* The receive handler runs beside them.                                   *)
(*                                                                         *)
(* The race on the received ids.  For every fresh packet the output loop   *)
(* sorts the list of received ids twice, in place (getLastIdsReceived),    *)
(* and scans it once per acknowledgement bit; the receive handler scans    *)
(* the same list and appends to it.  _receivedPacketsIdsMutex guards only  *)
(* the append, so nothing is excluded.  Here a sort lasts from one step of *)
(* the output loop to the next, and a datagram that comes in meanwhile may *)
(*   - not find its id in the list although it is there, because the sort  *)
(*     has it in a temporary or moves it behind the scan;                  *)
(*   - lose ids: an append that reallocates copies the elements while they *)
(*     are being moved, and a copy may hold one twice and another never;   *)
(*   - become the last element, behind the part that is sorted.            *)
(* Left out: the freed memory the sort and the scans of the output loop    *)
(* then work on and the first insertion of an endpoint in the map, whose   *)
(* outcomes the program does not define; the scans of the acknowledgement  *)
(* bits are one step.  So is each access to the packets sent, which the    *)
(* two threads guard with different mutexes.                               *)
(***************************************************************************)
EXTENDS Integers, Sequences, FiniteSets

CONSTANTS
    Nodes,      \* the processes, each with one UDP endpoint
    Payloads,   \* packets the application sends, each once
    From, To,   \* sender and receiver of each payload
    Keyed,      \* payloads built with HEADER_CODE1/2 in their own header
    Window,     \* MAX_NB_ACTION: acknowledgement bits, and sent packets kept
    IdMod,      \* ids are unsigned: they wrap here (2^32 in the code)
    MaxRaces,   \* bound: datagrams to which a sort of the ids hides some
    None        \* no datagram, no packet, no id

ASSUME NitworkAssumption ==
    /\ From \in [Payloads -> Nodes]
    /\ To \in [Payloads -> Nodes]
    /\ Keyed \subseteq Payloads
    /\ Window \in Nat \ {0}
    /\ IdMod \in Nat \ {0}
    /\ MaxRaces \in Nat

Ids == 0 .. IdMod - 1

VARIABLES
    unsent,       \* payloads the application has not handed over yet
    outputQueue,  \* _outputQueue of each node
    out,          \* the output loop: is it running, which packet is being built
    nextId,       \* _packetsIds[endpoint]
    packetsSent,  \* _packetsSent[endpoint]
    receivedIds,  \* the ids in _receivedPacketsIdsMap[endpoint]
    appended,     \* the id appended to that list since its sort began, or None
    rx,           \* datagram between the check of its header and its body
    actions,      \* _actions: bodies waiting for the next input tick
    net,          \* every datagram ever sent; a lost one is never received
    handled,      \* history: what the handlers of each node were called with
    wireId,       \* history: the id each payload was first sent under
    overlooked,   \* history: ids that a scan or an append met by a sort missed
    races         \* history: how many datagrams missed some

vars == <<unsent, outputQueue, out, nextId, packetsSent, receivedIds, appended,
          rx, actions, net, handled, wireId, overlooked, races>>

-----------------------------------------------------------------------------
(* Data *)

Packet == [body : Payloads, dst : Nodes, id : Ids, resend : BOOLEAN]

Datagram == [src : Nodes, dst : Nodes, body : Payloads, valid : BOOLEAN,
             id : Ids, ids : SUBSET (0 .. Window - 1), last : Ids]

Action == [src : Nodes, id : Ids, body : Payloads]

ASSUME NoneAssumption == None \notin Ids /\ None \notin Datagram

\* The two loops of a node: neither runs, the output loop is between two
\* packets, or it is in sendData with the fresh packet pkt: it sorts the
\* received ids for the bits, or once more for the last id.
Idle == [pc |-> "idle"]
Between == [pc |-> "between"]
Sort1 == [pc : {"sorting"}, pkt : Packet]
Sort2 == [pc : {"sorting again"}, pkt : Packet, ids : SUBSET (0 .. Window - 1)]
InSort == {"sorting", "sorting again"}
Sorting(pk) == [pc |-> "sorting", pkt |-> pk]
SortingAgain(pk, bits) == [pc |-> "sorting again", pkt |-> pk, ids |-> bits]

\* A queue sorted by id as std::list::sort does it, stably.
SortedById(q) ==
    {f \in [DOMAIN q -> DOMAIN q] :
        \A i, j \in DOMAIN q : i < j =>
            \/ q[f[i]].id < q[f[j]].id
            \/ q[f[i]].id = q[f[j]].id /\ f[i] < f[j]}

Sort(q, f) == [i \in DOMAIN q |-> q[f[i]]]

LastIdReceived(S) == IF S = {} THEN 0 ELSE CHOOSE x \in S : \A y \in S : y <= x

\* Mutant of IdsReceived: each bit is added before the shift, not after it.
IdsReceivedShiftedLate(S, last) ==
    IF S = {} THEN {} ELSE {i \in -1 .. Window - 2 : (last - i - 1) % IdMod \in S}

\* Bit i, from the high end, says whether the i-th id before the last is there.
IdsReceived(S, last) ==
    IF S = {} THEN {} ELSE {i \in 0 .. Window - 1 : (last - i) % IdMod \in S}

\* Mutant of AddPacketToSentPackages: the check for a stored id is missing.
AddPacketToSentPackagesAlways(s, pk) ==
    IF Len(s) = Window THEN Append(Tail(s), pk) ELSE Append(s, pk)

\* A stored copy has the id the packet had before sendData ran: 0 when fresh.
AddPacketToSentPackages(s, pk) ==
    IF \E i \in DOMAIN s : s[i].id = pk.id THEN s
    ELSE IF Len(s) = Window THEN Append(Tail(s), pk) ELSE Append(s, pk)

\* A resent body leaves with the header it was built with.
ResentDatagram(n, pk) ==
    [src |-> n, dst |-> pk.dst, body |-> pk.body, valid |-> pk.body \in Keyed,
     id |-> 0, ids |-> {}, last |-> 0]

\* Positions in the buffer of sent packets whose ack bit is clear and for
\* which a packet is found (the subtraction is done on 64 bits and does not
\* wrap like the ids do), the ways to walk them in order (there is one), and the
\* packet found.
Unacknowledged(s, d) ==
    {k \in 0 .. Len(s) - 1 :
        /\ k \notin d.ids
        /\ \E i \in DOMAIN s : s[i].id = d.last - k}

InOrder(K) ==
    {w \in [1 .. Cardinality(K) -> K] : \A i, j \in DOMAIN w : i < j => w[i] < w[j]}

LookUp(s, d, k) ==
    s[CHOOSE i \in DOMAIN s :
        /\ s[i].id = d.last - k
        /\ \A j \in DOMAIN s : j < i => s[j].id # s[i].id]

-----------------------------------------------------------------------------
(* Enqueueing and the output loop *)

Init ==
    /\ unsent = Payloads
    /\ outputQueue = [n \in Nodes |-> <<>>]
    /\ out = [n \in Nodes |-> Idle]
    /\ nextId = [n \in Nodes |-> [m \in Nodes |-> 0]]
    /\ packetsSent = [n \in Nodes |-> [m \in Nodes |-> <<>>]]
    /\ receivedIds = [n \in Nodes |-> [m \in Nodes |-> {}]]
    /\ appended = [n \in Nodes |-> None]
    /\ rx = [n \in Nodes |-> None]
    /\ actions = [n \in Nodes |-> <<>>]
    /\ net = {}
    /\ handled = [n \in Nodes |-> <<>>]
    /\ wireId = [p \in Payloads |-> None]
    /\ overlooked = [n \in Nodes |-> [m \in Nodes |-> {}]]
    /\ races = 0

\* A handler or a game system enqueues a packet it has just built.
AddPacketToSend(p) ==
    LET n == From[p] IN
    /\ p \in unsent
    /\ out[n] = Idle
    /\ unsent' = unsent \ {p}
    /\ outputQueue' = [outputQueue EXCEPT ![n] =
           Append(@, [body |-> p, dst |-> To[p], id |-> 0, resend |-> FALSE])]
    /\ UNCHANGED <<out, nextId, packetsSent, receivedIds, appended, rx, actions, net,
                   handled, wireId, overlooked, races>>

\* The output loop wakes up, locks the queue and sorts it.
OutputTick(n) ==
    /\ out[n] = Idle
    /\ outputQueue[n] # <<>>
    /\ \E f \in SortedById(outputQueue[n]) :
           outputQueue' = [outputQueue EXCEPT ![n] = Sort(@, f)]
    /\ out' = [out EXCEPT ![n] = Between]
    /\ UNCHANGED <<unsent, nextId, packetsSent, receivedIds, appended, rx, actions,
                   net, handled, wireId, overlooked, races>>

\* What follows a packet of the loop: the next one, or the end of the pass.
AfterPacket(q) == IF q = <<>> THEN Idle ELSE Between

\* What back() returns after the sort: the largest id, or one appended since.
Last(n, m) == {LastIdReceived(receivedIds[n][m]), appended[n]} \ {None}

\* Mutant of SendFresh: getPacketId reads the id and does not increment it.
SendFreshSameId(n) ==
    LET pk == Head(outputQueue[n])
        m == pk.dst
    IN
    /\ out[n] = Between
    /\ ~pk.resend
    /\ outputQueue' = [outputQueue EXCEPT ![n] = Tail(@)]
    /\ packetsSent' = [packetsSent EXCEPT ![n][m] = AddPacketToSentPackages(@, pk)]
    /\ out' = [out EXCEPT ![n] = Sorting([pk EXCEPT !.id = nextId[n][m]])]
    /\ wireId' = [wireId EXCEPT ![pk.body] = nextId[n][m]]
    /\ UNCHANGED <<unsent, nextId, receivedIds, appended, rx, actions, net,
                   handled, overlooked, races>>

\* One packet of sendPackages that is sent for the first time: it is stored
\* as it is, takes the next id, and getIdsReceived starts to sort.
SendFresh(n) ==
    LET pk == Head(outputQueue[n])
        m == pk.dst
    IN
    /\ out[n] = Between
    /\ ~pk.resend
    /\ outputQueue' = [outputQueue EXCEPT ![n] = Tail(@)]
    /\ packetsSent' = [packetsSent EXCEPT ![n][m] = AddPacketToSentPackages(@, pk)]
    /\ nextId' = [nextId EXCEPT ![n][m] = (@ + 1) % IdMod]
    /\ out' = [out EXCEPT ![n] = Sorting([pk EXCEPT !.id = nextId[n][m]])]
    /\ wireId' = [wireId EXCEPT ![pk.body] = nextId[n][m]]
    /\ UNCHANGED <<unsent, receivedIds, appended, rx, actions, net, handled,
                   overlooked, races>>

\* The sort ends, the bits are read, and getLastIdsReceived sorts once more.
GetIdsReceived(n) ==
    LET pk == out[n].pkt IN
    /\ out[n].pc = "sorting"
    /\ \E id \in Last(n, pk.dst) :
           out' = [out EXCEPT ![n] =
               SortingAgain(pk, IdsReceived(receivedIds[n][pk.dst], id))]
    /\ appended' = [appended EXCEPT ![n] = None]
    /\ UNCHANGED <<unsent, outputQueue, nextId, packetsSent, receivedIds, rx,
                   actions, net, handled, wireId, overlooked, races>>

\* The rest of sendData: the sort ends, the datagram leaves with the last id.
SendHeader(n) ==
    LET pk == out[n].pkt IN
    /\ out[n].pc = "sorting again"
    /\ \E id \in Last(n, pk.dst) :
           net' = net \cup
               {[src |-> n, dst |-> pk.dst, body |-> pk.body, valid |-> TRUE,
                 id |-> pk.id, ids |-> out[n].ids, last |-> id]}
    /\ out' = [out EXCEPT ![n] = AfterPacket(outputQueue[n])]
    /\ appended' = [appended EXCEPT ![n] = None]
    /\ UNCHANGED <<unsent, outputQueue, nextId, packetsSent, receivedIds, rx,
                   actions, handled, wireId, overlooked, races>>

\* One packet of sendPackages that is sent again: it consumes an id too.
SendAgain(n) ==
    LET pk == Head(outputQueue[n])
        m == pk.dst
    IN
    /\ out[n] = Between
    /\ pk.resend
    /\ outputQueue' = [outputQueue EXCEPT ![n] = Tail(@)]
    /\ packetsSent' = [packetsSent EXCEPT ![n][m] = AddPacketToSentPackages(@, pk)]
    /\ nextId' = [nextId EXCEPT ![n][m] = (@ + 1) % IdMod]
    /\ net' = net \cup {ResentDatagram(n, pk)}
    /\ out' = [out EXCEPT ![n] = AfterPacket(Tail(outputQueue[n]))]
    /\ UNCHANGED <<unsent, receivedIds, appended, rx, actions, handled, wireId,
                   overlooked, races>>

-----------------------------------------------------------------------------
(* The receive handler and the input loop *)

\* The output loop is sorting the ids received from m, and there are two or
\* more to move (the order of the list is not modelled; std::sort moves the
\* elements of a list of up to 16 only when they are out of order).
Sorts(n, m) == out[n].pc \in InSort /\ out[n].pkt.dst = m
Moves(n, m) == Sorts(n, m) /\ \E x, y \in receivedIds[n][m] : x # y

\* An id received from m is appended behind the part that is sorted.
NoteAppended(n, m, id) ==
    appended' = IF Sorts(n, m) THEN [appended EXCEPT ![n] = id] ELSE appended

\* The ids an append can lose to the sort: never all, since every place of
\* the list holds one of them at any time.
Losable(n, m) ==
    IF Moves(n, m) THEN SUBSET receivedIds[n][m] \ {receivedIds[n][m]} ELSE {{}}

\* Mutant of ReceiveHeader: isAlreadyReceived is not asked.
ReceiveHeaderAgain(n) ==
    /\ rx[n] = None
    /\ \E d \in net :
        /\ d.dst = n
        /\ d.valid
        /\ receivedIds' = [receivedIds EXCEPT ![n][d.src] = @ \cup {d.id}]
        /\ NoteAppended(n, d.src, d.id)
        /\ rx' = [rx EXCEPT ![n] = d]
    /\ UNCHANGED <<unsent, outputQueue, out, nextId, packetsSent, actions, net,
                   handled, wireId, overlooked, races>>

\* headerHandler up to the push of the id: a datagram with a bad header or an
\* id the scan finds is dropped, which changes nothing.  While the ids are
\* being sorted the scan may overlook the id, and the push may lose others.
ReceiveHeader(n) ==
    /\ rx[n] = None
    /\ \E d \in net : \E lost \in Losable(n, d.src) :
        LET missed == lost \cup ({d.id} \cap receivedIds[n][d.src]) IN
        /\ d.dst = n
        /\ d.valid
        /\ d.id \in receivedIds[n][d.src] => Moves(n, d.src)
        /\ missed # {} => races < MaxRaces
        /\ receivedIds' = [receivedIds EXCEPT ![n][d.src] = (@ \ lost) \cup {d.id}]
        /\ NoteAppended(n, d.src, d.id)
        /\ overlooked' = [overlooked EXCEPT ![n][d.src] = @ \cup missed]
        /\ races' = IF missed = {} THEN races ELSE races + 1
        /\ rx' = [rx EXCEPT ![n] = d]
    /\ UNCHANGED <<unsent, outputQueue, out, nextId, packetsSent, actions, net,
                   handled, wireId>>

\* Mutant of ReceiveBody: a packet to send again is queued and the handler
\* returns before it has pushed the body.
ReceiveBodyOrResend(n) ==
    LET d == rx[n]
        m == d.src
        missing == Unacknowledged(packetsSent[n][m], d)
        again(k) == [LookUp(packetsSent[n][m], d, k) EXCEPT !.resend = TRUE]
    IN
    /\ d # None
    /\ missing # {} => out[n] = Idle
    /\ \E w \in InOrder(missing) :
           outputQueue' = [outputQueue EXCEPT ![n] =
               @ \o [i \in DOMAIN w |-> again(w[i])]]
    /\ actions' = [actions EXCEPT ![n] =
           IF missing = {}
           THEN Append(@, [src |-> m, id |-> d.id, body |-> d.body])
           ELSE @]
    /\ rx' = [rx EXCEPT ![n] = None]
    /\ UNCHANGED <<unsent, out, nextId, packetsSent, receivedIds, appended, net,
                   handled, wireId, overlooked, races>>

\* handlePacketIdsReceived, which needs the output queue only when it has a
\* packet to send again, then handleBodyAction.
ReceiveBody(n) ==
    LET d == rx[n]
        m == d.src
        missing == Unacknowledged(packetsSent[n][m], d)
        again(k) == [LookUp(packetsSent[n][m], d, k) EXCEPT !.resend = TRUE]
    IN
    /\ d # None
    /\ missing # {} => out[n] = Idle
    /\ \E w \in InOrder(missing) :
           outputQueue' = [outputQueue EXCEPT ![n] =
               @ \o [i \in DOMAIN w |-> again(w[i])]]
    /\ packetsSent' = [packetsSent EXCEPT ![n][m] =
           [i \in DOMAIN @ |->
               IF \E k \in missing : @[i] = LookUp(@, d, k)
               THEN [@[i] EXCEPT !.resend = TRUE]
               ELSE @[i]]]
    /\ actions' = [actions EXCEPT ![n] =
           Append(@, [src |-> m, id |-> d.id, body |-> d.body])]
    /\ rx' = [rx EXCEPT ![n] = None]
    /\ UNCHANGED <<unsent, out, nextId, receivedIds, appended, net, handled, wireId,
                   overlooked, races>>

\* One pass of the input loop: every waiting action, in the order of the ids.
InputTick(n) ==
    /\ out[n] = Idle
    /\ actions[n] # <<>>
    /\ \E f \in SortedById(actions[n]) :
           handled' = [handled EXCEPT ![n] = @ \o Sort(actions[n], f)]
    /\ actions' = [actions EXCEPT ![n] = <<>>]
    /\ UNCHANGED <<unsent, outputQueue, out, nextId, packetsSent, receivedIds, appended,
                   rx, net, wireId, overlooked, races>>

-----------------------------------------------------------------------------

\* The thread of the output loop.
OutputThread(n) ==
    \/ OutputTick(n)
    \/ SendFresh(n)
    \/ GetIdsReceived(n)
    \/ SendHeader(n)
    \/ SendAgain(n)

Next ==
    \/ \E p \in Payloads : AddPacketToSend(p)
    \/ \E n \in Nodes :
        \/ OutputThread(n)
        \/ ReceiveHeader(n)
        \/ ReceiveBody(n)
        \/ InputTick(n)

Spec == Init /\ [][Next]_vars

\* The clock thread wakes both loops every tick and the receive handler runs
\* to its end; the network promises nothing.
Fairness ==
    \A n \in Nodes :
        /\ WF_vars(OutputThread(n))
        /\ WF_vars(ReceiveBody(n))
        /\ WF_vars(InputTick(n))

FairSpec == Spec /\ Fairness

-----------------------------------------------------------------------------
(* Properties *)

\* The types of the state: an acknowledgement has Window bits, an id is below
\* IdMod, a queue holds packets and nothing else.
TypeOK ==
    /\ unsent \in SUBSET Payloads
    /\ outputQueue \in [Nodes -> Seq(Packet)]
    /\ out \in [Nodes -> {Idle, Between} \cup Sort1 \cup Sort2]
    /\ nextId \in [Nodes -> [Nodes -> Ids]]
    /\ packetsSent \in [Nodes -> [Nodes -> Seq(Packet)]]
    /\ receivedIds \in [Nodes -> [Nodes -> SUBSET Ids]]
    /\ appended \in [Nodes -> Ids \cup {None}]
    /\ rx \in [Nodes -> Datagram \cup {None}]
    /\ actions \in [Nodes -> Seq(Action)]
    /\ net \subseteq Datagram
    /\ handled \in [Nodes -> Seq(Action)]
    /\ wireId \in [Payloads -> Ids \cup {None}]
    /\ overlooked \in [Nodes -> [Nodes -> SUBSET Ids]]
    /\ races \in 0 .. MaxRaces

\* The receiver lost sight of the id of an accepted packet during a sort.
Overlooked(n, e) == e.id \in overlooked[n][e.src]

\* However the network duplicates datagrams and however often the layer sends
\* a packet again, its handler runs a second time only if the receiver lost
\* sight of the packet's id while its output loop was sorting the ids.
HandledOnceUnlessOverlooked ==
    \A n \in Nodes : \A i, j \in DOMAIN handled[n] :
        handled[n][i].body = handled[n][j].body =>
            i = j \/ Overlooked(n, handled[n][i])

\* Whatever is sent again is the packet that took id 0: a resent datagram
\* carries id 0, so it can only stand for that one.
ResentIsFirst ==
    \A n, m \in Nodes : \A i \in DOMAIN packetsSent[n][m] :
        wireId[packetsSent[n][m][i].body] = 0

\* The body of a datagram has reached the receiver's queue or its handler.
Arrived(d) ==
    \/ rx[d.dst] # None /\ rx[d.dst].body = d.body
    \/ \E i \in DOMAIN actions[d.dst] : actions[d.dst][i].body = d.body
    \/ \E i \in DOMAIN handled[d.dst] : handled[d.dst][i].body = d.body

\* A datagram is dropped as "already received" only when its packet was: no
\* packet is lost because another one took its id.
NoFreshDrop ==
    \A d \in net :
        d.valid /\ d.id \in receivedIds[d.dst][d.src] => Arrived(d)

\* A packet whose id the receiver will acknowledge is one whose handler runs,
\* although the output loop and the input loop compete for the tick.
AcknowledgedIsHandled ==
    \A p \in Payloads :
        wireId[p] # None /\ wireId[p] \in receivedIds[To[p]][From[p]] ~>
            \E i \in DOMAIN handled[To[p]] : handled[To[p]][i].body = p

\* The ids that n has accepted from m, those it lost sight of included.
CameIn(n, m) == receivedIds[n][m] \cup overlooked[n][m]

\* A header acknowledges only ids that came in.
AcknowledgedWasReceived ==
    \A d \in net : \A i \in d.ids : (d.last - i) % IdMod \in CameIn(d.src, d.dst)

\* The packets of node n that a header reports missing: it acknowledges a
\* later id and the bit of theirs, still in the window, is clear.
ReportedMissing(n, d) ==
    {p \in Payloads :
        /\ From[p] = n /\ To[p] = d.src
        /\ 0 \in d.ids
        /\ \E i \in (0 .. Window - 1) \ d.ids : d.last - i = wireId[p]}

\* A packet the peer reports missing is queued again when the report is read.
MissingIsSentAgain ==
    [][\A n \in Nodes :
          rx[n] # None /\ rx'[n] = None =>
              \A p \in ReportedMissing(n, rx[n]) :
                  \E i \in DOMAIN outputQueue'[n] : outputQueue'[n][i].body = p]_vars
=============================================================================
