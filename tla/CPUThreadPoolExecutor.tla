----------------------- MODULE CPUThreadPoolExecutor -----------------------
(***************************************************************************)
(* The thread pool of executors/CPUThreadPoolExecutor.cpp together with    *)
(* its base class executors/ThreadPoolExecutor.cpp and the keep-alive      *)
(* count of DefaultKeepAliveExecutor.h.                                    *)
(*                                                                         *)
(* Three kinds of threads interleave:                                      *)
(*   - the pool's own worker threads (threadRun);                          *)
(*   - producers, which call add() while they hold a KeepAlive token;      *)
(*   - the manager, the one thread that resizes the pool, installs         *)
(*     observers, and finally stops, joins and destroys the pool.          *)
(*                                                                         *)
(* A step is one access to the shared atomics, to the queue or to the      *)
(* semaphore, or one critical section of threadListLock_.  A critical      *)
(* section is split wherever a thread that does not need the lock (a       *)
(* producer in add(), a worker taking a task) can run in the middle of it. *)
(***************************************************************************)
EXTENDS Integers, FiniteSets, Sequences

CONSTANTS
  Workers,         \* names of worker threads; a name is reused once its thread has left
  Producers,       \* threads calling add()
  Manager,         \* the thread that owns the pool
  Tasks,           \* the closures given to add()
  KATasks,         \* those submitted with KeepAlive::add, which moves the token into the task
  Observers,       \* thread observers
  NumThreads,      \* the constructor's numThreads.first
  MinThreads,      \* the constructor's numThreads.second
  Sizes,           \* arguments of setNumThreads
  MaxResizes,      \* bound: calls of setNumThreads
  ShutdownKinds,   \* how the owner may end the pool: "stop", "join", "destroy"
  Timeouts,        \* whether an idle worker may reach threadTimeout_
  NoOne,           \* threadListLock_ has no holder
  NoTask,          \* no task at hand
  Poison           \* the default constructed CPUTask() of stopThreads

ASSUME WorkersAssumption == IsFiniteSet(Workers)
ASSUME ClientsAssumption ==
  /\ IsFiniteSet(Producers)
  /\ Manager \notin Producers
  /\ (Producers \cup {Manager}) \cap Workers = {}
  /\ NoOne \notin Producers \cup {Manager} \cup Workers
ASSUME TasksAssumption ==
  /\ IsFiniteSet(Tasks)
  /\ KATasks \subseteq Tasks
  /\ NoTask \notin Tasks
  /\ Poison \notin Tasks \cup {NoTask}
ASSUME SizesAssumption ==
  /\ NumThreads \in Nat
  /\ MinThreads \in Nat
  /\ Sizes \subseteq Nat
  /\ MaxResizes \in Nat
ASSUME ModeAssumption ==
  /\ ShutdownKinds \subseteq {"stop", "join", "destroy"}
  /\ Timeouts \in BOOLEAN

Clients == Producers \cup {Manager}

VARIABLES
  maxThreads,      \* maxThreads_
  minThreads,      \* minThreads_
  activeThreads,   \* activeThreads_
  threadsToJoin,   \* threadsToJoin_
  threadsToStop,   \* threadsToStop_
  isJoin,          \* isJoin_
  stoppedThreads,  \* length of stoppedThreads_
  threadList,      \* threadList_
  threadListLock,  \* holder of threadListLock_
  taskQueue,       \* the queue inside taskQueue_
  sem,             \* the value of the semaphore inside taskQueue_
  wpc,             \* control point of each worker
  wtask,           \* the task a worker runs
  cpc,             \* control point of each client
  op,              \* the call the manager is in
  snap,            \* a count a client loaded earlier and has not used yet
  need,            \* mayNeedToAddThreads of a producer
  ctask,           \* the task a producer is adding
  owed,            \* threads a client has still to join in joinStoppedThreads
  target,          \* value the lock's holder will store in activeThreads_
  poisonsLeft,     \* iterations left in stopThreads
  newThreads,      \* newThreads of addThreads
  keepAliveCount,  \* keepAliveCount_
  shutdown,        \* "none", or how the owner ended the pool
  observers,       \* observers_
  watched,         \* how often each observer was told of a thread's start and not of its stop
  submitted,       \* tasks given to add()
  done,            \* tasks that were run
  drainDue,        \* tasks that were queued when stop() or join() took the pool over
  resizes          \* calls of setNumThreads so far

sizing  == <<maxThreads, minThreads, activeThreads>>
leaving == <<threadsToJoin, threadsToStop, isJoin, stoppedThreads>>
held    == <<threadListLock, target, poisonsLeft, newThreads>>
workers == <<threadList, wpc, wtask>>
queue   == <<taskQueue, sem>>
locals  == <<op, snap, need, ctask, owed>>
life    == <<keepAliveCount, shutdown>>
obs     == <<observers, watched>>
history == <<submitted, done, drainDue, resizes>>
pool    == <<sizing, leaving, held>>
rest    == <<life, obs, history>>

vars == <<pool, workers, queue, cpc, locals, rest>>

---------------------------------------------------------------------------
(* Helpers *)

Smaller(a, b) == IF a < b THEN a ELSE b

\* getPendingTaskCountImpl: poison pills are counted too.
getPendingTaskCount == Len(taskQueue)

Unlocked == threadListLock = NoOne

Goto(c, pc) == cpc' = [cpc EXCEPT ![c] = pc]
Step(c, from, to) == cpc[c] = from /\ Goto(c, to)

GotoW(w, from, to) == wpc[w] = from /\ wpc' = [wpc EXCEPT ![w] = to]

\* Steps in which a client, or a worker, only moves on.
ControlOnly == UNCHANGED <<pool, workers, queue, locals, rest>>
WorkerControlOnly == UNCHANGED <<pool, threadList, wtask, queue, cpc, locals, rest>>

WorkerAt(pcs) == {w \in Workers : wpc[w] \in pcs}
Waiters == WorkerAt({"waiting"})

\* A worker thread exists from newThread() until it leaves threadList_.
WorkerPCs == {"none", "starting", "loop", "waiting", "claimed", "run", "ran",
              "stopLock", "poison", "timedout", "retire"}
ClientPCs == {"idle", "load", "decide", "compare", "enqueue", "post", "ensureJoined",
              "takeJoin", "join", "ensureLoad", "ensureCheck", "ensureLock", "startup",
              "release", "resize", "resized", "poison", "poisonPost", "ensureMax",
              "drain", "takeOver", "returned", "destroyed"}
Ops == {"none", "resize", "observe", "stop", "join", "destroy"}

---------------------------------------------------------------------------
(* The constructor: setNumThreads(numThreads.first) finds an empty queue   *)
(* and no observers, so it starts only minThreads_ threads; minThreads_    *)
(* then becomes 1 if it was given as 0.                                    *)

InitialThreads == Smaller(NumThreads, MinThreads)

Init ==
  /\ maxThreads = NumThreads
  /\ minThreads = IF MinThreads = 0 THEN 1 ELSE InitialThreads
  /\ activeThreads = InitialThreads
  /\ threadsToJoin = 0
  /\ threadsToStop = 0
  /\ isJoin = FALSE
  /\ stoppedThreads = 0
  /\ threadList \in {S \in SUBSET Workers : Cardinality(S) = InitialThreads}
  /\ threadListLock = NoOne
  /\ taskQueue = <<>>
  /\ sem = 0
  /\ wpc = [w \in Workers |-> IF w \in threadList THEN "loop" ELSE "none"]
  /\ wtask = [w \in Workers |-> NoTask]
  /\ cpc = [c \in Clients |-> "idle"]
  /\ op = "none"
  /\ snap = [c \in Clients |-> 0]
  /\ need = [c \in Clients |-> FALSE]
  /\ ctask = [c \in Clients |-> NoTask]
  /\ owed = [c \in Clients |-> 0]
  /\ target = 0
  /\ poisonsLeft = 0
  /\ newThreads = {}
  /\ keepAliveCount = 1
  /\ shutdown = "none"
  /\ observers = {}
  /\ watched = [o \in Observers |-> [w \in Workers |-> 0]]
  /\ submitted = {}
  /\ done = {}
  /\ drainDue = {}
  /\ resizes = 0

---------------------------------------------------------------------------
(* The queue: UnboundedBlockingQueue over a LifoSem.  post() hands its     *)
(* token to a waiting worker if there is one (any waiter here, the latest  *)
(* in LifoSem) and tells the caller so: BlockingQueueAddResult.reusedThread*)

Push(item) == taskQueue' = Append(taskQueue, item)

PostWakes(w) == w \in Waiters /\ wpc' = [wpc EXCEPT ![w] = "claimed"] /\ sem' = sem
PostKeeps == Waiters = {} /\ sem' = sem + 1 /\ wpc' = wpc

---------------------------------------------------------------------------
(* Threads joining and leaving threadList_, under threadListLock_ *)

\* addThreads, up to the wait on the startup batons.  No observer was told of a new
\* thread, whatever it was told of the last one that had the name.
addThreads(n) ==
  \E S \in SUBSET WorkerAt({"none"}) :
    /\ Cardinality(S) = n
    /\ newThreads' = S
    /\ threadList' = threadList \cup S
    /\ wpc' = [w \in Workers |-> IF w \in S THEN "starting" ELSE wpc[w]]
    /\ watched' = [o \in Observers |-> [w \in Workers |-> IF w \in S THEN 0 ELSE watched[o][w]]]

\* The observers in Obs are told that the threads in S have started or stopped.
tell(Obs, S, started) ==
  watched' = [o \in Observers |-> [w \in Workers |->
                IF o \in Obs /\ w \in S THEN watched[o][w] + (IF started THEN 1 ELSE -1)
                                         ELSE watched[o][w]]]

notifyStarted(S) == tell(observers, S, TRUE)
notifyStopped(w) == tell(observers, {w}, FALSE)

\* Mutants: the thread is not handed to stoppedThreads_, or stays in threadList_.
LeaveUnqueued(w) ==
  /\ threadList' = threadList \ {w}
  /\ stoppedThreads' = stoppedThreads
  /\ wpc' = [wpc EXCEPT ![w] = "none"]
LeaveListed(w) ==
  /\ threadList' = threadList
  /\ stoppedThreads' = stoppedThreads + 1
  /\ wpc' = [wpc EXCEPT ![w] = "none"]

\* threadList_.remove and stoppedThreads_.add; the thread then returns.
Leave(w) ==
  /\ threadList' = threadList \ {w}
  /\ stoppedThreads' = stoppedThreads + 1
  /\ wpc' = [wpc EXCEPT ![w] = "none"]

---------------------------------------------------------------------------
(* add() *)

\* A live executor still has a token: what WeakRef::lock checks before it takes one.
executorAlive == keepAliveCount > 0

\* Mutant: the full pool is the only case thought of.
neverNeedsThreads(p) == FALSE

mayNeedToAddThreads(p) ==
  \/ need[p]
  \/ cpc[p] = "decide"  /\ snap[p] < maxThreads
  \/ cpc[p] = "compare" /\ activeThreads < snap[p]

Tokens(p) == IF need'[p] THEN 1 ELSE 0

\* The caller obtains a token (WeakRef::lock or a copy of a KeepAlive, both of
\* which need a live executor) and enters addImpl, which loads minThreads_; if that is
\* 0, the rest of the condition does not matter.
AddBegin(p, t) ==
  /\ Step(p, "idle", IF minThreads = 0 THEN "decide" ELSE "load")
  /\ t \notin submitted
  /\ executorAlive
  /\ keepAliveCount' = keepAliveCount + 1
  /\ submitted' = submitted \cup {t}
  /\ ctask' = [ctask EXCEPT ![p] = t]
  /\ need' = [need EXCEPT ![p] = (minThreads = 0)]
  /\ UNCHANGED <<pool, workers, queue, op, snap, owed, shutdown, obs, done, drainDue, resizes>>

\* The operands of activeThreads_ < maxThreads_ are loaded in either order ...
AddLoad(p) ==
  /\ \/ Step(p, "load", "decide")  /\ snap' = [snap EXCEPT ![p] = activeThreads]
     \/ Step(p, "load", "compare") /\ snap' = [snap EXCEPT ![p] = maxThreads]
  /\ UNCHANGED <<pool, workers, queue, op, need, ctask, owed, rest>>

\* ... and, if a thread may have to be started, a token is taken.
AddDecide(p) ==
  /\ cpc[p] \in {"decide", "compare"}
  /\ Goto(p, "enqueue")
  /\ need' = [need EXCEPT ![p] = mayNeedToAddThreads(p)]
  /\ keepAliveCount' = keepAliveCount + Tokens(p)
  /\ UNCHANGED <<pool, workers, queue, op, snap, ctask, owed, shutdown, obs, history>>

AddEnqueue(p) ==
  /\ Step(p, "enqueue", "post")
  /\ Push(ctask[p])
  /\ UNCHANGED <<pool, workers, sem, locals, rest>>

AddPost(p) ==
  /\ cpc[p] = "post"
  /\ \/ \E w \in Workers : PostWakes(w) /\ Goto(p, "release")
     \/ PostKeeps /\ Goto(p, IF need[p] THEN "ensureJoined" ELSE "release")
  /\ UNCHANGED <<pool, threadList, wtask, taskQueue, locals, rest>>

\* addImpl's own token goes first; the caller's token went into the task if it
\* was a KeepAlive::add.
AddRelease(p) ==
  /\ Step(p, "release", "idle")
  /\ keepAliveCount' = keepAliveCount - (IF need[p] THEN 1 ELSE 0)
                                      - (IF ctask[p] \in KATasks THEN 0 ELSE 1)
  /\ need' = [need EXCEPT ![p] = FALSE]
  /\ ctask' = [ctask EXCEPT ![p] = NoTask]
  /\ UNCHANGED <<pool, workers, queue, op, snap, owed, shutdown, obs, history>>

---------------------------------------------------------------------------
(* ensureActiveThreads, called by add() and by ensureMaxActiveThreads *)

\* What a client does once ensureActiveThreads returns.
AfterEnsure(c) == IF c = Manager THEN "ensureMax" ELSE "release"

EnsureJoined(c) ==
  /\ Step(c, "ensureJoined", IF threadsToJoin > 0 THEN "takeJoin" ELSE "ensureLoad")
  /\ ControlOnly

TakeJoin(c) ==
  /\ Unlocked
  /\ Step(c, "takeJoin", "join")
  /\ owed' = [owed EXCEPT ![c] = threadsToJoin]
  /\ threadsToJoin' = 0
  /\ UNCHANGED <<sizing, threadsToStop, isJoin, stoppedThreads, held, workers, queue, op,
                 snap, need, ctask, rest>>

\* One iteration of joinStoppedThreads; take() blocks while the queue is empty.
JoinOne(c) ==
  /\ cpc[c] = "join"
  /\ owed[c] > 0
  /\ stoppedThreads > 0
  /\ stoppedThreads' = stoppedThreads - 1
  /\ owed' = [owed EXCEPT ![c] = owed[c] - 1]
  /\ UNCHANGED <<sizing, threadsToJoin, threadsToStop, isJoin, held, workers, queue, cpc,
                 op, snap, need, ctask, rest>>

\* What a client does once joinStoppedThreads returns.
AfterJoin(c) ==
  IF c \in Producers \/ op = "observe" THEN "ensureLoad"
  ELSE CASE op \in {"stop", "join"} -> "returned"
         [] op = "destroy"          -> "destroyed"
         [] OTHER                   -> "idle"

\* Mutant: joinStoppedThreads gives up early.
JoinDoneEarly(c) == Step(c, "join", AfterJoin(c)) /\ ControlOnly

JoinDone(c) ==
  /\ Step(c, "join", AfterJoin(c))
  /\ owed[c] = 0
  /\ ControlOnly

EnsureLoad(c) ==
  /\ Step(c, "ensureLoad", "ensureCheck")
  /\ snap' = [snap EXCEPT ![c] = activeThreads]
  /\ UNCHANGED <<pool, workers, queue, op, need, ctask, owed, rest>>

EnsureCheck(c) ==
  /\ Step(c, "ensureCheck", IF snap[c] >= maxThreads THEN AfterEnsure(c) ELSE "ensureLock")
  /\ ControlOnly

\* The double check behind the lock.
EnsureReturn(c) ==
  /\ Unlocked
  /\ activeThreads >= maxThreads
  /\ Step(c, "ensureLock", AfterEnsure(c))
  /\ ControlOnly

\* Mutant: off by one in the check behind the lock.
roomForOneMore == activeThreads <= maxThreads

roomForThread == activeThreads < maxThreads

EnsureSpawn(c) ==
  /\ Unlocked
  /\ roomForThread
  /\ Step(c, "ensureLock", "startup")
  /\ addThreads(1)
  /\ target' = activeThreads + 1
  /\ threadListLock' = c
  /\ UNCHANGED <<sizing, leaving, poisonsLeft, wtask, queue, locals, life, observers, history>>

\* The rest of addThreads, and the callers' store to activeThreads_: every new
\* thread has posted its baton, the observers hear of it, the lock is released.
ThreadsStarted(c) ==
  /\ Step(c, "startup", IF c = Manager /\ op = "resize" THEN "join" ELSE AfterEnsure(c))
  /\ \A w \in newThreads : wpc[w] # "starting"
  /\ notifyStarted(newThreads)
  /\ newThreads' = {}
  /\ activeThreads' = target
  /\ target' = 0
  /\ threadListLock' = NoOne
  /\ UNCHANGED <<maxThreads, minThreads, leaving, poisonsLeft, workers, queue, locals, life,
                 observers, history>>

---------------------------------------------------------------------------
(* setNumThreads *)

\* The lock is taken and the queue's length read before anything is stored.
SetNumThreads(n) ==
  /\ Unlocked
  /\ shutdown = "none"
  /\ resizes < MaxResizes
  /\ Step(Manager, "idle", "resize")
  /\ threadListLock' = Manager
  /\ op' = "resize"
  /\ snap' = [snap EXCEPT ![Manager] = getPendingTaskCount]
  /\ target' = n
  /\ resizes' = resizes + 1
  /\ UNCHANGED <<sizing, leaving, poisonsLeft, newThreads, workers, queue, need, ctask,
                 owed, life, obs, submitted, done, drainDue>>

\* Mutant: observers are forgotten.
numToAddUnobserved(pending, newMin) ==
  LET asked == Smaller(pending, target - activeThreads)
  IN  IF activeThreads + asked < newMin THEN newMin - activeThreads ELSE asked

\* Threads to start when the pool is not above its new maximum.
numToAdd(pending, newMin) ==
  LET asked == IF observers # {} THEN target - activeThreads
               ELSE Smaller(pending, target - activeThreads)
  IN  IF activeThreads + asked < newMin THEN newMin - activeThreads ELSE asked

\* removeThreads(n, join) and the start of stopThreads.
removeThreads(n, join) ==
  /\ isJoin' = join
  /\ threadsToStop' = threadsToStop + n
  /\ poisonsLeft' = n
  /\ owed' = [owed EXCEPT ![Manager] = n]

\* maxThreads_ is stored first: a producer, which does not need the lock, may see it
\* together with the old minThreads_.
StoreMax ==
  /\ Step(Manager, "resize", "resized")
  /\ maxThreads' = target
  /\ UNCHANGED <<minThreads, activeThreads, leaving, held, workers, queue, locals, rest>>

ResizeDown ==
  /\ activeThreads > target
  /\ Step(Manager, "resized", "poison")
  /\ minThreads' = Smaller(target, minThreads)
  /\ removeThreads(activeThreads - target, FALSE)
  /\ UNCHANGED <<maxThreads, activeThreads, threadsToJoin, stoppedThreads, threadListLock,
                 target, newThreads, workers, queue, op, snap, need, ctask, rest>>

\* With nothing pending, no observers and minThreads_ reached this adds none.
ResizeUp ==
  /\ activeThreads <= target
  /\ Step(Manager, "resized", "startup")
  /\ minThreads' = Smaller(target, minThreads)
  /\ LET n == numToAdd(snap[Manager], minThreads') IN
       /\ addThreads(n)
       /\ target' = activeThreads + n
  /\ UNCHANGED <<maxThreads, activeThreads, leaving, threadListLock, poisonsLeft, wtask,
                 queue, locals, life, observers, history>>

PoisonEnqueue ==
  /\ poisonsLeft > 0
  /\ Step(Manager, "poison", "poisonPost")
  /\ Push(Poison)
  /\ UNCHANGED <<pool, workers, sem, locals, rest>>

PoisonPost ==
  /\ Step(Manager, "poisonPost", "poison")
  /\ PostKeeps \/ \E w \in Workers : PostWakes(w)
  /\ poisonsLeft' = poisonsLeft - 1
  /\ UNCHANGED <<sizing, leaving, threadListLock, target, newThreads, threadList, wtask,
                 taskQueue, locals, rest>>

\* The end of the shrinking branch of setNumThreads.
ResizeDownDone ==
  /\ op = "resize"
  /\ poisonsLeft = 0
  /\ Step(Manager, "poison", "join")
  /\ activeThreads' = target
  /\ target' = 0
  /\ threadListLock' = NoOne
  /\ UNCHANGED <<maxThreads, minThreads, leaving, poisonsLeft, newThreads, workers, queue,
                 locals, rest>>

---------------------------------------------------------------------------
(* Observers *)

AddObserver(o) ==
  /\ Unlocked
  /\ shutdown = "none"
  /\ o \notin observers
  /\ Step(Manager, "idle", "ensureMax")
  /\ op' = "observe"
  /\ observers' = observers \cup {o}
  /\ tell({o}, threadList, TRUE)       \* threadPreviouslyStarted
  /\ UNCHANGED <<pool, workers, queue, snap, need, ctask, owed, life, history>>

\* maxThreads_ only changes in the manager's own calls, so loading it together
\* with activeThreads_ loses nothing.
ensureMaxActiveThreads ==
  /\ Step(Manager, "ensureMax", IF activeThreads < maxThreads THEN "ensureJoined" ELSE "idle")
  /\ ControlOnly

RemoveObserver(o) ==
  /\ Unlocked
  /\ shutdown = "none"
  /\ cpc[Manager] = "idle"
  /\ o \in observers
  /\ observers' = observers \ {o}
  /\ tell({o}, threadList, FALSE)      \* threadNotYetStopped
  /\ UNCHANGED <<pool, workers, queue, cpc, locals, life, history>>

---------------------------------------------------------------------------
(* getPoolStats *)

\* The counts it returns if it finds the threads of idle idle.  It holds the lock
\* for reading, but runTask sets thread->idle without it, so a thread may be found
\* in either state.
getPoolStats(idle) ==
  LET active == activeThreads - Cardinality(idle) IN
    [threadCount |-> maxThreads, activeThreadCount |-> active,
     idleThreadCount |-> maxThreads - active,
     totalTaskCount |-> getPendingTaskCount + Cardinality(threadList \ idle)]

---------------------------------------------------------------------------
(* stop(), join() and the destructor *)

\* joinKeepAliveOnce gives up the pool's own token, then waits for the others.
Shutdown(kind) ==
  /\ shutdown = "none"
  /\ Step(Manager, "idle", "drain")
  /\ shutdown' = kind
  /\ op' = kind
  /\ keepAliveCount' = keepAliveCount - 1
  /\ UNCHANGED <<pool, workers, queue, snap, need, ctask, owed, obs, history>>

\* Mutant: the owner does not wait for the other tokens.
KeepAliveNotJoined == Step(Manager, "drain", "takeOver") /\ ControlOnly

KeepAliveJoined ==
  /\ Step(Manager, "drain", "takeOver")
  /\ keepAliveCount = 0
  /\ ControlOnly

\* The critical section of stop() and join() up to the poison pills.
TakeOver ==
  /\ Unlocked
  /\ Step(Manager, "takeOver", "poison")
  /\ threadListLock' = Manager
  /\ maxThreads' = 0
  /\ activeThreads' = 0
  /\ removeThreads(Cardinality(threadList), op = "join")
  /\ drainDue' = drainDue \cup {t \in Tasks : \E i \in DOMAIN taskQueue : taskQueue[i] = t}
  /\ UNCHANGED <<minThreads, threadsToJoin, stoppedThreads, target, newThreads, workers,
                 queue, op, snap, need, ctask, life, obs, submitted, done, resizes>>

TakeOverDone ==
  /\ op \in {"stop", "join", "destroy"}
  /\ poisonsLeft = 0
  /\ Step(Manager, "poison", "join")
  /\ owed' = [owed EXCEPT ![Manager] = owed[Manager] + threadsToJoin]
  /\ threadsToJoin' = 0
  /\ threadListLock' = NoOne
  /\ UNCHANGED <<sizing, threadsToStop, isJoin, stoppedThreads, target, poisonsLeft,
                 newThreads, workers, queue, op, snap, need, ctask, rest>>

\* The destructor calls stop() again; the keep-alive count was joined already.
Destroy ==
  /\ Step(Manager, "returned", "takeOver")
  /\ op' = "destroy"
  /\ UNCHANGED <<pool, workers, queue, snap, need, ctask, owed, rest>>

---------------------------------------------------------------------------
(* threadRun *)

\* thread->startupBaton.post()
Start(w) ==
  /\ GotoW(w, "starting", "loop")
  /\ WorkerControlOnly

\* try_take_for: the semaphore ...
SemTake(w) ==
  /\ GotoW(w, "loop", "claimed")
  /\ sem > 0
  /\ sem' = sem - 1
  /\ UNCHANGED <<pool, threadList, wtask, taskQueue, cpc, locals, rest>>

SemWait(w) ==
  /\ GotoW(w, "loop", "waiting")
  /\ sem = 0
  /\ WorkerControlOnly

\* Mutant: the result of the timed wait is ignored.
SemTimeoutIgnored(w) ==
  Timeouts /\ GotoW(w, "waiting", "claimed") /\ WorkerControlOnly

SemTimeout(w) ==
  /\ Timeouts
  /\ GotoW(w, "waiting", "timedout")
  /\ WorkerControlOnly

\* ... and then the queue.
Dequeue(w) ==
  /\ taskQueue # <<>>
  /\ LET item == Head(taskQueue) IN
       /\ GotoW(w, "claimed", IF item = Poison THEN "poison" ELSE "run")
       /\ wtask' = [wtask EXCEPT ![w] = IF item = Poison THEN NoTask ELSE item]
  /\ taskQueue' = Tail(taskQueue)
  /\ UNCHANGED <<pool, threadList, sem, cpc, locals, rest>>

\* runTask: the closure runs, or gives way to the expiration callback, and is
\* destroyed either way, and with it a token it carries.
RunTask(w) ==
  /\ GotoW(w, "run", "ran")
  /\ done' = done \cup {wtask[w]}
  /\ wtask' = [wtask EXCEPT ![w] = NoTask]
  /\ keepAliveCount' = keepAliveCount - (IF wtask[w] \in KATasks THEN 1 ELSE 0)
  /\ UNCHANGED <<pool, threadList, queue, cpc, locals, shutdown, obs, submitted, drainDue,
                 resizes>>

\* Mutant: a join stops threads between tasks, as stop() does.
AfterTaskOfJoin(w) ==
  GotoW(w, "ran", IF threadsToStop > 0 THEN "stopLock" ELSE "loop") /\ WorkerControlOnly

AfterTask(w) ==
  /\ GotoW(w, "ran", IF threadsToStop > 0 /\ ~isJoin THEN "stopLock" ELSE "loop")
  /\ WorkerControlOnly

\* Mutant: every poison pill or timeout stops a thread.
alwaysDecrToStop == threadsToStop' = threadsToStop - 1

tryDecrToStop == threadsToStop > 0 /\ threadsToStop' = threadsToStop - 1

\* Stopped after a task; the observers are not told.
StopAfterTask(w) ==
  /\ Unlocked
  /\ wpc[w] = "stopLock"
  /\ tryDecrToStop
  /\ Leave(w)
  /\ UNCHANGED <<sizing, threadsToJoin, isJoin, held, wtask, queue, cpc, locals, rest>>

\* taskShouldStop, for a poison pill or an idle timeout: a thread to stop ...
StopIdle(w) ==
  /\ Unlocked
  /\ wpc[w] \in {"poison", "timedout"}
  /\ tryDecrToStop
  /\ notifyStopped(w)
  /\ Leave(w)
  /\ UNCHANGED <<sizing, threadsToJoin, isJoin, held, wtask, queue, cpc, locals, life,
                 observers, history>>

minActive == activeThreads > minThreads

\* ... or none: a poison pill is swallowed, a thread that ran a task goes on, an
\* idle one stays if the pool would fall below minThreads_ ...
Stay(w) ==
  /\ Unlocked
  /\ threadsToStop = 0
  /\ wpc[w] \in {"stopLock", "poison"} \/ (wpc[w] = "timedout" /\ ~minActive)
  /\ wpc' = [wpc EXCEPT ![w] = "loop"]
  /\ WorkerControlOnly

\* ... and is otherwise retired by tryTimeoutThread, in two accesses.
TimeoutBegin(w) ==
  /\ Unlocked
  /\ threadsToStop = 0
  /\ minActive
  /\ GotoW(w, "timedout", "retire")
  /\ threadListLock' = w
  /\ activeThreads' = activeThreads - 1
  /\ UNCHANGED <<maxThreads, minThreads, leaving, target, poisonsLeft, newThreads,
                 threadList, wtask, queue, cpc, locals, rest>>

workPending == getPendingTaskCount > 0

TimeoutUndo(w) ==
  /\ workPending
  /\ GotoW(w, "retire", "loop")
  /\ activeThreads' = activeThreads + 1
  /\ threadListLock' = NoOne
  /\ UNCHANGED <<maxThreads, minThreads, leaving, target, poisonsLeft, newThreads,
                 threadList, wtask, queue, cpc, locals, rest>>

Retire(w) ==
  /\ ~workPending
  /\ wpc[w] = "retire"
  /\ threadsToJoin' = threadsToJoin + 1
  /\ notifyStopped(w)
  /\ Leave(w)
  /\ threadListLock' = NoOne
  /\ UNCHANGED <<sizing, threadsToStop, isJoin, target, poisonsLeft, newThreads, wtask,
                 queue, cpc, locals, life, observers, history>>

---------------------------------------------------------------------------
(* The next-state relation *)

\* Steps of ensureActiveThreads and joinStoppedThreads that need no lock.
ClientStep(c) ==
  \/ EnsureJoined(c)
  \/ JoinOne(c)
  \/ JoinDone(c)
  \/ EnsureLoad(c)
  \/ EnsureCheck(c)
  \/ ThreadsStarted(c)

\* Steps that wait for threadListLock_.
ClientLock(c) ==
  \/ TakeJoin(c)
  \/ EnsureReturn(c)
  \/ EnsureSpawn(c)

AddStep(p) ==
  \/ AddLoad(p)
  \/ AddDecide(p)
  \/ AddEnqueue(p)
  \/ AddPost(p)
  \/ AddRelease(p)

ManagerStep ==
  \/ StoreMax
  \/ ResizeDown
  \/ ResizeUp
  \/ PoisonEnqueue
  \/ PoisonPost
  \/ ResizeDownDone
  \/ ensureMaxActiveThreads
  \/ KeepAliveJoined
  \/ TakeOverDone
  \/ Destroy

WorkerStep(w) ==
  \/ Start(w)
  \/ SemTake(w)
  \/ SemWait(w)
  \/ Dequeue(w)
  \/ RunTask(w)
  \/ AfterTask(w)
  \/ TimeoutUndo(w)
  \/ Retire(w)

WorkerLock(w) ==
  \/ StopAfterTask(w)
  \/ StopIdle(w)
  \/ Stay(w)
  \/ TimeoutBegin(w)

\* What the program's users may start at any time, or never.
Environment ==
  \/ \E p \in Producers, t \in Tasks : AddBegin(p, t)
  \/ \E n \in Sizes : SetNumThreads(n)
  \/ \E o \in Observers : AddObserver(o) \/ RemoveObserver(o)
  \/ \E kind \in ShutdownKinds : Shutdown(kind)
  \/ \E w \in Workers : SemTimeout(w)

\* The pool is gone and nobody is inside a call: the program may stop here.
Terminated ==
  /\ cpc[Manager] = "destroyed"
  /\ \A p \in Producers : cpc[p] = "idle"
  /\ UNCHANGED vars

Next ==
  \/ Environment
  \/ \E c \in Clients : ClientStep(c) \/ ClientLock(c)
  \/ \E p \in Producers : AddStep(p)
  \/ ManagerStep
  \/ TakeOver
  \/ \E w \in Workers : WorkerStep(w) \/ WorkerLock(w)
  \/ Terminated

Spec == Init /\ [][Next]_vars

(* Fairness: every thread that is inside the pool's code keeps running, and *)
(* a thread that waits for threadListLock_ gets it if it is free again and  *)
(* again.  No call is ever obliged to begin, no idle timeout to fire.       *)
Fairness ==
  /\ \A c \in Clients : WF_vars(ClientStep(c)) /\ SF_vars(ClientLock(c))
  /\ \A p \in Producers : WF_vars(AddStep(p))
  /\ WF_vars(ManagerStep)
  /\ SF_vars(TakeOver)
  /\ \A w \in Workers : WF_vars(WorkerStep(w)) /\ SF_vars(WorkerLock(w))

FairSpec == Spec /\ Fairness

---------------------------------------------------------------------------
(* Properties *)

\* Every variable keeps its type: the counts of threads, joins and semaphore
\* tokens never go below zero, although the code subtracts from unsigned numbers.
TypeOK ==
  /\ maxThreads \in Nat
  /\ minThreads \in Nat
  /\ activeThreads \in Nat
  /\ threadsToJoin \in Nat
  /\ threadsToStop \in Nat
  /\ isJoin \in BOOLEAN
  /\ stoppedThreads \in Nat
  /\ threadList \subseteq Workers
  /\ threadListLock \in Clients \cup Workers \cup {NoOne}
  /\ taskQueue \in Seq(Tasks \cup {Poison})
  /\ sem \in Nat
  /\ wpc \in [Workers -> WorkerPCs]
  /\ wtask \in [Workers -> Tasks \cup {NoTask}]
  /\ cpc \in [Clients -> ClientPCs]
  /\ op \in Ops
  /\ snap \in [Clients -> Nat]
  /\ need \in [Clients -> BOOLEAN]
  /\ ctask \in [Clients -> Tasks \cup {NoTask}]
  /\ owed \in [Clients -> Nat]
  /\ target \in Nat
  /\ poisonsLeft \in Nat
  /\ newThreads \subseteq Workers
  /\ keepAliveCount \in Int
  /\ shutdown \in {"none", "stop", "join", "destroy"}
  /\ observers \subseteq Observers
  /\ watched \in [Observers -> [Workers -> Int]]
  /\ submitted \subseteq Tasks
  /\ done \subseteq Tasks
  /\ drainDue \subseteq Tasks
  /\ resizes \in Nat

\* The joins that clients have promised and not yet made, one claim each.
ClaimsOf(f) == UNION {{c} \X (1 .. f[c]) : c \in Clients}
Claims == ClaimsOf(owed)

\* Joins promised or still to be promised match the threads that have stopped
\* or are bound to stop, so that joinStoppedThreads takes each exactly once.
JoinLedger ==
  Cardinality(Claims) + threadsToJoin = stoppedThreads + threadsToStop

\* activeThreads_ as the holder of the lock is about to leave it.
accountedThreads ==
  CASE cpc[Manager] \in {"poison", "poisonPost"} /\ op = "resize" -> target
    [] \E c \in Clients : cpc[c] = "startup" -> target
    [] \E w \in Workers : wpc[w] = "retire" -> activeThreads + 1
    [] OTHER -> activeThreads

\* Until stop() or join() takes over, threadList_ holds the active threads and
\* those bound to stop, no more and no fewer; afterwards never more.
ThreadAccounting ==
  /\ Cardinality(threadList) <= accountedThreads + threadsToStop
  /\ shutdown = "none" => Cardinality(threadList) = accountedThreads + threadsToStop

\* Whoever gets a token from the semaphore finds an item in the queue: items are
\* the tokens left, those in the hands of workers and the posts still to come.
TokenPerItem ==
  Len(taskQueue) = sem + Cardinality(WorkerAt({"claimed"}))
                       + Cardinality({c \in Clients : cpc[c] \in {"post", "poisonPost"}})

\* The pool never runs more threads than maxThreads_ allows.
WithinMax == Unlocked => activeThreads <= maxThreads

\* getPoolStats counts idle and active threads: whichever threads it finds idle, its
\* number of active threads, an unsigned difference, is too small by no more than the
\* threads that were told to stop and are on their way, so that without such threads it
\* does not wrap around; its number of idle threads never does.
StatsOffByStopping ==
  Unlocked =>
    \A idle \in SUBSET threadList :
      /\ getPoolStats(idle).activeThreadCount + threadsToStop >= 0
      /\ getPoolStats(idle).idleThreadCount >= 0

\* The CHECKs at the end of stop() and join(), and the one in the destructor.
StopChecks ==
  /\ cpc[Manager] \in {"returned", "destroyed"} => threadList = {} /\ stoppedThreads = 0
  /\ cpc[Manager] = "destroyed" => threadsToStop = 0

\* The owner gets past joinKeepAlive only when every task that carries a token
\* has run and no producer is in the part of add() its token protects.
KeepAliveProtects ==
  cpc[Manager] \in {"takeOver", "returned", "destroyed"} =>
    /\ KATasks \cap submitted \subseteq done
    /\ \A p \in Producers : need[p] => cpc[p] = "idle"

\* No producer touches the queue of a pool that was destroyed.
AddOnLivePool ==
  cpc[Manager] = "destroyed" => \A p \in Producers : cpc[p] \notin {"enqueue", "post"}

\* join() returns after every task it found in the queue has been run.
JoinDrains ==
  shutdown = "join" /\ cpc[Manager] = "returned" => drainDue \subseteq done

\* The part of it that holds: idle timeouts and the poison pills of an earlier
\* setNumThreads are what makes join() leave tasks behind.
JoinDrainsFresh == ~Timeouts /\ resizes = 0 => JoinDrains

\* No observer misses a thread: it was told of every thread in threadList_ exactly
\* once, and when addObserver or setNumThreads has returned all maxThreads_ threads are
\* there, so that none starts later while a task is being added.
ObserversSeeAll ==
  Unlocked /\ observers # {} =>
    /\ \A o \in observers, w \in threadList : watched[o][w] = 1
    /\ cpc[Manager] = "idle" => activeThreads = maxThreads

\* Every task given to add() runs, in a pool that is not shut down and has
\* threads to run it: add() makes sure of a thread, or one is on its way.
EveryTaskRuns ==
  \A t \in Tasks :
    \/ t \in submitted ~> t \in done
    \/ []<>(shutdown # "none" \/ maxThreads = 0)

\* stop(), join() and the destructor return.
ShutdownReturns == shutdown # "none" ~> cpc[Manager] \in {"returned", "destroyed"}

=============================================================================
