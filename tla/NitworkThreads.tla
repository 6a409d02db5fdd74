--------------------------- MODULE NitworkThreads ---------------------------
(***************************************************************************)
(* The threads of one R-Bus process and the mutexes they share: the input  *)
(* loop, the output loop and the receive handler on the pool of the        *)
(* context, the clock thread, and the main thread that runs the game and   *)
(* calls stop().                                                           *)
(*                                                                         *)
(* A thread is at a place of its code and may have mutexes to take, one by *)
(* one, before it goes on from there.  The loops wait on the condition     *)
(* variable without a predicate: a notification that finds nobody waiting  *)
(* is lost.                                                                *)
(***************************************************************************)
EXTENDS Integers, Sequences

CONSTANTS
    MaxPackets,  \* bound: packets the main thread enqueues
    MaxReceived  \* bound: datagrams the receive handler accepts

ASSUME ThreadsAssumption == MaxPackets \in Nat /\ MaxReceived \in Nat

Loops == {"input", "output"}
Pool == Loops \cup {"receive"}
Threads == Pool \cup {"clock", "main"}
Mutexes == {"tick", "inputQueue", "registry", "receivedIds", "outputQueue"}
NoOne == "no one"

VARIABLES
    at,          \* the place each thread has reached
    wants,       \* mutexes it takes before it goes on from there
    owner,       \* who holds each mutex
    isRunning,   \* _isRunning
    stopped,     \* _context.stopped()
    pool,        \* _pool: threads stop() has not joined yet
    sceneStop,   \* SceneManager::stop was called
    received,    \* datagrams accepted so far
    actions,     \* number of bodies in _actions
    enqueued,    \* packets the main thread has enqueued so far
    outputQueue, \* who enqueued the packets of _outputQueue, and whether in time
    waited       \* history: loops that have reached their first wait

lifecycle == <<isRunning, stopped, pool, sceneStop>>
queues == <<received, actions, enqueued, outputQueue>>
vars == <<at, wants, owner, lifecycle, queues, waited>>

-----------------------------------------------------------------------------
(* Going from place to place *)

\* Thread t is at place p and holds all it wants.
At(t, p) == at[t] = p /\ wants[t] = <<>>

Goto(t, p, locks) ==
    /\ at' = [at EXCEPT ![t] = p]
    /\ wants' = [wants EXCEPT ![t] = locks]

Release(locks) == owner' = [m \in Mutexes |-> IF m \in locks THEN NoOne ELSE owner[m]]

\* A blocking lock.
Acquire(t) ==
    /\ wants[t] # <<>>
    /\ owner[Head(wants[t])] = NoOne
    /\ owner' = [owner EXCEPT ![Head(wants[t])] = t]
    /\ wants' = [wants EXCEPT ![t] = Tail(@)]
    /\ UNCHANGED <<at, lifecycle, queues, waited>>

\* An add*Msg method: what it holds when it calls addPacketToSend, with the
\* registry its caller has locked.  The packet is in time when the process
\* still runs and the output loop has been waiting.
Sender == <<"registry", "receivedIds", "outputQueue">>

Enqueue(t) ==
    outputQueue' = outputQueue \cup
        {[by |-> t, inTime |-> isRunning /\ "output" \in waited]}

\* notify_all: a waiting loop takes the tick mutex again, then its queue.
Queue(t) == IF t = "input" THEN "inputQueue" ELSE "outputQueue"

NotifyAll(t, p, locks) ==
    LET woken == {l \in Loops : at[l] = "waiting"} IN
    /\ at' = [x \in Threads |->
           IF x = t THEN p ELSE IF x \in woken THEN "pass" ELSE at[x]]
    /\ wants' = [x \in Threads |->
           IF x = t THEN locks
           ELSE IF x \in woken THEN <<"tick", Queue(x)>> ELSE wants[x]]

\* The orders in which the pool may have been given its jobs.
PoolOrders == {p \in [1 .. 3 -> Pool] : \A i, j \in 1 .. 3 : p[i] = p[j] => i = j}

Init ==
    /\ at = [t \in Threads |->
           CASE t \in Loops -> "posted"
             [] t = "receive" -> "receiving"
             [] t = "clock" -> "sleep"
             [] t = "main" -> "game"]
    /\ wants = [t \in Threads |-> <<>>]
    /\ owner = [m \in Mutexes |-> NoOne]
    /\ isRunning = TRUE
    /\ stopped = FALSE
    /\ pool \in PoolOrders
    /\ sceneStop = FALSE
    /\ received = 0
    /\ actions = 0
    /\ enqueued = 0
    /\ outputQueue = {}
    /\ waited = {}

-----------------------------------------------------------------------------
(* The input and the output loop *)

\* A posted job starts, or never does because the context was stopped.
StartLoop(t) ==
    /\ At(t, "posted")
    /\ IF stopped THEN Goto(t, "done", <<>>) ELSE Goto(t, "test", <<"tick">>)
    /\ UNCHANGED <<owner, lifecycle, queues, waited>>

\* while (_isRunning), with the tick mutex held.
TestRunning(t) ==
    /\ At(t, "test")
    /\ IF isRunning
       THEN Goto(t, "towait", <<>>) /\ UNCHANGED owner
       ELSE Goto(t, "done", <<>>) /\ Release({"tick"})
    /\ UNCHANGED <<lifecycle, queues, waited>>

\* wait: the thread sleeps and the tick mutex is released in one step.
Wait(t) ==
    /\ At(t, "towait")
    /\ Goto(t, "waiting", <<>>)
    /\ Release({"tick"})
    /\ waited' = waited \cup {t}
    /\ UNCHANGED <<lifecycle, queues>>

\* The input loop takes an action ...
InputAction ==
    /\ At("input", "pass")
    /\ actions > 0
    /\ actions' = actions - 1
    /\ Goto("input", "handler", Sender)
    /\ UNCHANGED <<owner, lifecycle, received, enqueued, outputQueue, waited>>

\* ... whose handler enqueues a packet and may stop the scene manager.
InputHandler ==
    /\ At("input", "handler")
    /\ Enqueue("input")
    /\ sceneStop' \in {sceneStop, TRUE}
    /\ Goto("input", "pass", <<>>)
    /\ Release({"registry", "receivedIds", "outputQueue"})
    /\ UNCHANGED <<isRunning, stopped, pool, received, actions, enqueued, waited>>

InputPassEnds ==
    /\ At("input", "pass")
    /\ actions = 0
    /\ Goto("input", "test", <<>>)
    /\ Release({"inputQueue"})
    /\ UNCHANGED <<lifecycle, queues, waited>>

\* Mutant of OutputPass: a loop that stop() has woken up sends nothing more.
OutputPassUnlessStopped ==
    /\ At("output", "pass")
    /\ outputQueue' = IF isRunning THEN {} ELSE outputQueue
    /\ Goto("output", "test", <<>>)
    /\ Release({"outputQueue"})
    /\ UNCHANGED <<lifecycle, received, actions, enqueued, waited>>

\* Mutant of OutputPass: the queue stays locked.
OutputPassKeepsLock ==
    /\ At("output", "pass")
    /\ outputQueue' = {}
    /\ Goto("output", "test", <<>>)
    /\ UNCHANGED <<owner, lifecycle, received, actions, enqueued, waited>>

\* The output loop sends all there is to send.
OutputPass ==
    /\ At("output", "pass")
    /\ outputQueue' = {}
    /\ Goto("output", "test", <<>>)
    /\ Release({"outputQueue"})
    /\ UNCHANGED <<lifecycle, received, actions, enqueued, waited>>

-----------------------------------------------------------------------------
(* The receive handler, while the context runs *)

\* Mutant of ReceiveDatagram: the queue is locked before the received ids.
ReceiveDatagramReversed ==
    /\ At("receive", "receiving")
    /\ ~stopped
    /\ received < MaxReceived
    /\ received' = received + 1
    /\ \/ Goto("receive", "header", <<"receivedIds">>)
       \/ Goto("receive", "again", <<"outputQueue", "receivedIds">>)
    /\ UNCHANGED <<owner, lifecycle, actions, enqueued, outputQueue, waited>>

\* A new datagram, whose header may have an old packet sent again.
ReceiveDatagram ==
    /\ At("receive", "receiving")
    /\ ~stopped
    /\ received < MaxReceived
    /\ received' = received + 1
    /\ \/ Goto("receive", "header", <<"receivedIds">>)
       \/ Goto("receive", "again", <<"receivedIds", "outputQueue">>)
    /\ UNCHANGED <<owner, lifecycle, actions, enqueued, outputQueue, waited>>

HandlePacketIds ==
    /\ \/ At("receive", "header") /\ Release({"receivedIds"}) /\ UNCHANGED outputQueue
       \/ /\ At("receive", "again")
          /\ Release({"receivedIds", "outputQueue"})
          /\ Enqueue("receive")
    /\ Goto("receive", "body", <<"inputQueue">>)
    /\ UNCHANGED <<lifecycle, received, actions, enqueued, waited>>

HandleBodyDatas ==
    /\ At("receive", "body")
    /\ actions' = actions + 1
    /\ Goto("receive", "receiving", <<>>)
    /\ Release({"inputQueue"})
    /\ UNCHANGED <<lifecycle, received, enqueued, outputQueue, waited>>

\* _context.run() returns.
ReceiveEnds ==
    /\ At("receive", "receiving")
    /\ stopped
    /\ Goto("receive", "done", <<>>)
    /\ UNCHANGED <<owner, lifecycle, queues, waited>>

-----------------------------------------------------------------------------
(* The clock thread *)

ClockTest ==
    /\ At("clock", "sleep")
    /\ IF isRunning THEN Goto("clock", "notify", <<"tick">>)
                    ELSE Goto("clock", "done", <<>>)
    /\ UNCHANGED <<owner, lifecycle, queues, waited>>

ClockNotify ==
    /\ At("clock", "notify")
    /\ NotifyAll("clock", "sleep", <<>>)
    /\ Release({"tick"})
    /\ UNCHANGED <<lifecycle, queues, waited>>

-----------------------------------------------------------------------------
(* The main thread *)

\* A game system that enqueues a packet.
GameSystem ==
    /\ At("main", "game")
    /\ enqueued < MaxPackets
    /\ Goto("main", "system", Sender)
    /\ UNCHANGED <<owner, lifecycle, queues, waited>>

GameSystemEnqueues ==
    /\ At("main", "system")
    /\ Enqueue("main")
    /\ enqueued' = enqueued + 1
    /\ Goto("main", "game", <<>>)
    /\ Release({"registry", "receivedIds", "outputQueue"})
    /\ UNCHANGED <<lifecycle, received, actions, waited>>

\* The window is closed, or a signal comes.
UserStops ==
    /\ ~sceneStop
    /\ sceneStop' = TRUE
    /\ UNCHANGED <<at, wants, owner, isRunning, stopped, pool, queues, waited>>

\* SceneManager::run returns; stop() clears _isRunning ...
StopRunning ==
    /\ At("main", "game")
    /\ sceneStop
    /\ isRunning' = FALSE
    /\ Goto("main", "context", <<>>)
    /\ UNCHANGED <<owner, stopped, pool, sceneStop, queues, waited>>

\* ... stops the context ...
StopContext ==
    /\ At("main", "context")
    /\ stopped' = TRUE
    /\ Goto("main", "wake", <<"tick">>)
    /\ UNCHANGED <<owner, isRunning, pool, sceneStop, queues, waited>>

\* Mutant of StopWakes: the loops are notified before the tick mutex is asked
\* for, and joined after it is released.
StopWakesUnlocked ==
    /\ at["main"] = "wake"
    /\ NotifyAll("main", "join", <<>>)
    /\ UNCHANGED <<owner, lifecycle, queues, waited>>

\* ... and for each thread of the pool wakes up the loops ...
StopWakes ==
    /\ At("main", "wake")
    /\ NotifyAll("main", "join", <<>>)
    /\ Release({"tick"})
    /\ UNCHANGED <<lifecycle, queues, waited>>

\* ... and joins it.
StopJoins ==
    /\ At("main", "join")
    /\ at[Head(pool)] = "done"
    /\ pool' = Tail(pool)
    /\ IF pool' = <<>> THEN Goto("main", "joinclock", <<>>)
                       ELSE Goto("main", "wake", <<"tick">>)
    /\ UNCHANGED <<owner, isRunning, stopped, sceneStop, queues, waited>>

StopJoinsClock ==
    /\ At("main", "joinclock")
    /\ at["clock"] = "done"
    /\ Goto("main", "done", <<>>)
    /\ UNCHANGED <<owner, lifecycle, queues, waited>>

-----------------------------------------------------------------------------

LoopStep(t) == StartLoop(t) \/ TestRunning(t) \/ Wait(t) \/ Acquire(t)

Input == LoopStep("input") \/ InputAction \/ InputHandler \/ InputPassEnds

Output == LoopStep("output") \/ OutputPass

Receive ==
    \/ Acquire("receive")
    \/ ReceiveDatagram
    \/ HandlePacketIds
    \/ HandleBodyDatas
    \/ ReceiveEnds

Clock == Acquire("clock") \/ ClockTest \/ ClockNotify

Stop == StopRunning \/ StopContext \/ StopWakes \/ StopJoins \/ StopJoinsClock

Main == Acquire("main") \/ GameSystem \/ GameSystemEnqueues \/ Stop

\* The process has ended.
Ended == at["main"] = "done" /\ UNCHANGED vars

Next == Input \/ Output \/ Receive \/ Clock \/ Main \/ UserStops \/ Ended

Spec == Init /\ [][Next]_vars

\* Every thread is scheduled.  Nobody has to close the window, and no
\* datagram has to come.
Fairness ==
    /\ WF_vars(Input)
    /\ WF_vars(Output)
    /\ WF_vars(Receive /\ ~ReceiveDatagram)
    /\ WF_vars(Clock)
    /\ WF_vars(Acquire("main") \/ GameSystemEnqueues \/ Stop)

FairSpec == Spec /\ Fairness

-----------------------------------------------------------------------------
(* Properties *)

Places == {"posted", "test", "towait", "waiting", "pass", "handler", "receiving",
           "header", "again", "body", "sleep", "notify", "game", "system",
           "context", "wake", "join", "joinclock", "done"}

\* The types of the state.  A mutex that a thread still wants it does not hold:
\* none of them is recursive.
TypeOK ==
    /\ at \in [Threads -> Places]
    /\ wants \in [Threads -> Seq(Mutexes)]
    /\ owner \in [Mutexes -> Threads \cup {NoOne}]
    /\ \A t \in Threads : \A i \in DOMAIN wants[t] : owner[wants[t][i]] # t
    /\ isRunning \in BOOLEAN /\ stopped \in BOOLEAN /\ sceneStop \in BOOLEAN
    /\ pool \in Seq(Pool)
    /\ received \in 0 .. MaxReceived
    /\ actions \in 0 .. MaxReceived
    /\ enqueued \in 0 .. MaxPackets
    /\ outputQueue \in SUBSET [by : Threads, inTime : BOOLEAN]
    /\ waited \in SUBSET Loops

\* What a handler enqueues before stop() clears _isRunning is sent before stop()
\* returns: the packets that announce a departed player and the replacement of
\* an emptied lobby leave the process that stops because of them.
HandlerPacketsAreSent ==
    at["main"] = "done" => \A p \in outputQueue : p.by = "input" => ~p.inTime

\* No threads wait for each other in a circle, and none sleeps, or waits for the end
\* of another, with a mutex: whoever asks for one gets it when its owner, which is
\* on its way, lets it go, although the loops, the handlers, the systems and the
\* clock take up to five of them, one inside the other, in different functions.
NoLockDeadlock ==
    /\ \A T \in (SUBSET Threads) \ {{}} :
          \E t \in T : wants[t] # <<>> => owner[Head(wants[t])] \notin T
    /\ \A m \in Mutexes : owner[m] # NoOne =>
          at[owner[m]] \notin {"waiting", "sleep", "join", "joinclock", "done"}

\* stop() returns, whatever the loops were doing and in whatever order the
\* pool is joined: none of them sleeps through the last notification, although
\* the clock thread that wakes them up may be gone.
StopReturns == at["main"] = "context" ~> at["main"] = "done"
=============================================================================
