--------------------------- MODULE QueueObservers ---------------------------
(***************************************************************************)
(* What surrounds the task queue of a CPUThreadPoolExecutor for the sake   *)
(* of those who watch it (executors/QueueObserver.h and .cpp):             *)
(*   - getQueueObserver, which add() and the workers call for every task   *)
(*     and which creates the observer of a priority when it is first asked *)
(*     for, without a lock;                                                *)
(*   - ThreadIdWorkerProvider, which lists the workers' thread ids and     *)
(*     keeps the threads it has listed from exiting;                       *)
(*   - the destructor, which deletes the observers.                        *)
(* The queue itself is any queue that loses no task.                       *)
(***************************************************************************)
EXTENDS Integers, Sequences, FiniteSets

CONSTANTS
  Producers,      \* threads calling add()
  Workers,        \* names of worker threads; a name is reused once its thread has exited
  Collectors,     \* threads calling collectThreadIds
  Priorities,     \* the priorities that tasks are given
  NumPriorities,  \* the numbers of priorities the task queue may have
  MaxAdds,        \* bound: how many tasks are added
  Null,           \* no observer
  NoOne           \* nobody has locked threadsExitMutex_ exclusively

ASSUME ThreadsAssumption ==
  /\ Producers \cap Workers = {}
  /\ NoOne \notin Workers
ASSUME PrioritiesAssumption ==
  /\ Priorities \subseteq -128 .. 127
  /\ 0 \in Priorities
  /\ NumPriorities \subseteq Nat \ {0}
ASSUME BoundAssumption == MaxAdds \in Nat /\ Null \notin Nat

Callers == Producers \cup Workers

\* Observers are numbered as they are created; each task is looked up twice.
Observers == 1 .. 2 * MaxAdds

VARIABLES
  numPriorities,   \* getNumPriorities()
  hasFactory,      \* whether queueObserverFactory_ is set
  queueObservers,  \* queueObservers_
  created,         \* how many observers the factory has created
  deletions,       \* how often each of them was deleted
  taskQueue,       \* tasks: a priority and the observer that was told
  adds,            \* how many tasks were added
  pc,              \* control point of each caller
  slot,            \* the slot it looks at in getQueueObserver
  pri,             \* the priority it called getQueueObserver with
  observer,        \* the observer it has found or made
  told,            \* the observer that saw the task at hand being enqueued
  osThreadIds,     \* osThreadIds_
  exitReaders,     \* collectors whose keep-alive has locked threadsExitMutex_
  exitWriter,      \* the worker that waits for them, or NoOne
  cpc,             \* control point of each collector
  threadIds,       \* the ids it has collected
  destroyed        \* the destructor is done

fixed     == <<numPriorities, hasFactory>>
observing == <<queueObservers, created, deletions>>
queue     == <<taskQueue, adds>>
lookup    == <<slot, pri, observer, told>>
exiting   == <<osThreadIds, exitReaders, exitWriter>>
collect   == <<cpc, threadIds>>

vars == <<fixed, observing, queue, pc, lookup, exiting, collect, destroyed>>

Init ==
  /\ numPriorities \in NumPriorities
  /\ hasFactory \in BOOLEAN
  /\ queueObservers = [p \in Priorities |-> Null]
  /\ created = 0
  /\ deletions = [o \in Observers |-> 0]
  /\ taskQueue = <<>>
  /\ adds = 0
  /\ pc = [t \in Callers |-> IF t \in Workers THEN "none" ELSE "idle"]
  /\ slot = [t \in Callers |-> 0]
  /\ pri = [t \in Callers |-> 0]
  /\ observer = [t \in Callers |-> Null]
  /\ told = [t \in Callers |-> Null]
  /\ osThreadIds = {}
  /\ exitReaders = {}
  /\ exitWriter = NoOne
  /\ cpc = [c \in Collectors |-> "idle"]
  /\ threadIds = [c \in Collectors |-> {}]
  /\ destroyed = FALSE

---------------------------------------------------------------------------
(* getQueueObserver *)

Goto(t, from, to) == pc[t] = from /\ pc' = [pc EXCEPT ![t] = to]
Set(f, t, value) == [f EXCEPT ![t] = value]

\* The call for priority p begins.
getQueueObserver(t, from, p) ==
  /\ Goto(t, from, IF hasFactory THEN "look" ELSE "found")
  /\ slot' = Set(slot, t, p)
  /\ pri' = Set(pri, t, p)

\* With one queue the other priorities share the observer of priority 0: the
\* inner call has returned when slot and priority differ.
Found(t, from, o) ==
  /\ Goto(t, from, IF slot[t] = pri[t] THEN "found" ELSE "share")
  /\ observer' = Set(observer, t, o)

Shares(t) == numPriorities = 1 /\ slot[t] # 0

LookFound(t) ==
  /\ queueObservers[slot[t]] # Null
  /\ Found(t, "look", queueObservers[slot[t]])
  /\ UNCHANGED <<fixed, observing, queue, slot, pri, told, exiting, collect, destroyed>>

LookShared(t) ==
  /\ queueObservers[slot[t]] = Null
  /\ Shares(t)
  /\ Goto(t, "look", "look")
  /\ slot' = Set(slot, t, 0)
  /\ UNCHANGED <<fixed, observing, queue, pri, observer, told, exiting, collect, destroyed>>

LookCreate(t) ==
  /\ queueObservers[slot[t]] = Null
  /\ ~Shares(t)
  /\ Goto(t, "look", "cas")
  /\ created' = created + 1
  /\ observer' = Set(observer, t, created + 1)
  /\ UNCHANGED <<fixed, queueObservers, deletions, queue, slot, pri, told, exiting, collect,
                 destroyed>>

\* Mutant: the pointer is stored without a comparison.
CasBlind(t) ==
  /\ Found(t, "cas", observer[t])
  /\ queueObservers' = Set(queueObservers, slot[t], observer[t])
  /\ UNCHANGED <<fixed, created, deletions, queue, slot, pri, told, exiting, collect, destroyed>>

\* The compare-exchange: the loser's observer goes with its unique_ptr.
Cas(t) ==
  /\ \/ /\ queueObservers[slot[t]] = Null
        /\ Found(t, "cas", observer[t])
        /\ queueObservers' = Set(queueObservers, slot[t], observer[t])
        /\ UNCHANGED deletions
     \/ /\ queueObservers[slot[t]] # Null
        /\ Found(t, "cas", queueObservers[slot[t]])
        /\ deletions' = [deletions EXCEPT ![observer[t]] = @ + 1]
        /\ UNCHANGED queueObservers
  /\ UNCHANGED <<fixed, created, queue, slot, pri, told, exiting, collect, destroyed>>

Share(t) ==
  /\ Goto(t, "share", "found")
  /\ queueObservers' = Set(queueObservers, pri[t], observer[t])
  /\ UNCHANGED <<fixed, created, deletions, queue, lookup, exiting, collect, destroyed>>

---------------------------------------------------------------------------
(* Those who call it *)

Forget(t) ==
  /\ slot' = Set(slot, t, 0)
  /\ pri' = Set(pri, t, 0)
  /\ observer' = Set(observer, t, Null)
  /\ told' = Set(told, t, Null)

\* addImpl asks for the observer of the task's priority ...
AddBegin(p, k) ==
  /\ ~destroyed
  /\ adds < MaxAdds
  /\ adds' = adds + 1
  /\ getQueueObserver(p, "idle", k)
  /\ UNCHANGED <<fixed, observing, taskQueue, observer, told, exiting, collect, destroyed>>

\* ... calls onEnqueued and queues the task.
AddEnqueue(p) ==
  /\ p \in Producers
  /\ Goto(p, "found", "idle")
  /\ taskQueue' = Append(taskQueue, [priority |-> pri[p], payload |-> observer[p]])
  /\ Forget(p)
  /\ UNCHANGED <<fixed, observing, adds, exiting, collect, destroyed>>

\* threadRun: the pool learns that the thread has started before its id is listed.
ThreadStart(w) ==
  /\ ~destroyed
  /\ Goto(w, "none", "started")
  /\ UNCHANGED <<fixed, observing, queue, lookup, exiting, collect, destroyed>>

addTid(w) ==
  /\ Goto(w, "started", "loop")
  /\ osThreadIds' = osThreadIds \cup {w}
  /\ UNCHANGED <<fixed, observing, queue, lookup, exitReaders, exitWriter, collect, destroyed>>

\* A task is taken and its observer looked up by the task's own priority.
Take(w, i) ==
  /\ getQueueObserver(w, "loop", taskQueue[i].priority)
  /\ told' = Set(told, w, taskQueue[i].payload)
  /\ taskQueue' = [j \in 1 .. Len(taskQueue) - 1 |->
                     IF j < i THEN taskQueue[j] ELSE taskQueue[j + 1]]
  /\ UNCHANGED <<fixed, observing, adds, observer, exiting, collect, destroyed>>

\* onDequeued, and the task runs.
RunTask(w) ==
  /\ w \in Workers
  /\ Goto(w, "found", "loop")
  /\ Forget(w)
  /\ UNCHANGED <<fixed, observing, queue, exiting, collect, destroyed>>

\* The thread has left threadList_: its scope guard calls removeTid.
removeTid(w) ==
  /\ Goto(w, "loop", "removed")
  /\ osThreadIds' = osThreadIds \ {w}
  /\ UNCHANGED <<fixed, observing, queue, lookup, exitReaders, exitWriter, collect, destroyed>>

---------------------------------------------------------------------------
(* threadsExitMutex_: a folly::SharedMutex, in which a writer keeps new    *)
(* readers out from the moment it begins to wait.                          *)

readersEnter == exitWriter = NoOne

writerEnters == exitWriter = NoOne

LockExit(w) ==
  /\ Goto(w, "removed", "waiting")
  /\ writerEnters
  /\ exitWriter' = w
  /\ UNCHANGED <<fixed, observing, queue, lookup, osThreadIds, exitReaders, collect, destroyed>>

\* Mutant: the lock is only asked for.
keepAlivesIgnored == TRUE

keepAlivesGone == exitReaders = {}

\* No keep-alive is left; the lock is released at once and the thread exits.
Exit(w) ==
  /\ Goto(w, "waiting", "none")
  /\ keepAlivesGone
  /\ exitWriter' = NoOne
  /\ UNCHANGED <<fixed, observing, queue, lookup, osThreadIds, exitReaders, collect, destroyed>>

---------------------------------------------------------------------------
(* collectThreadIds *)

GotoC(c, from, to) == cpc[c] = from /\ cpc' = [cpc EXCEPT ![c] = to]

\* The keep-alive is made first, ...
CollectLock(c) ==
  /\ ~destroyed
  /\ GotoC(c, "idle", "locked")
  /\ readersEnter
  /\ exitReaders' = exitReaders \cup {c}
  /\ UNCHANGED <<fixed, observing, queue, pc, lookup, osThreadIds, exitWriter, threadIds,
                 destroyed>>

\* ... then the ids are copied.
CollectIds(c) ==
  /\ GotoC(c, "locked", "holding")
  /\ threadIds' = [threadIds EXCEPT ![c] = osThreadIds]
  /\ UNCHANGED <<fixed, observing, queue, pc, lookup, exiting, destroyed>>

\* Mutant: the keep-alive is destroyed without giving the lock back.
ReleaseForgotten(c) ==
  /\ GotoC(c, "holding", "idle")
  /\ threadIds' = [threadIds EXCEPT ![c] = {}]
  /\ UNCHANGED <<fixed, observing, queue, pc, lookup, exiting, destroyed>>

\* ~WorkerKeepAlive
Release(c) ==
  /\ GotoC(c, "holding", "idle")
  /\ threadIds' = [threadIds EXCEPT ![c] = {}]
  /\ exitReaders' = exitReaders \ {c}
  /\ UNCHANGED <<fixed, observing, queue, pc, lookup, osThreadIds, exitWriter, destroyed>>

---------------------------------------------------------------------------
(* ~CPUThreadPoolExecutor: stop() has joined the workers, the queue's tasks *)
(* go with it.                                                              *)

\* Mutant: every slot is deleted, also those that share an observer.
slotsToDeleteAll == Priorities

slotsToDelete == IF numPriorities = 1 THEN {0} ELSE Priorities

Destroy ==
  /\ ~destroyed
  /\ \A w \in Workers : pc[w] = "none"
  /\ \A p \in Producers : pc[p] = "idle"
  /\ \A c \in Collectors : cpc[c] = "idle"
  /\ destroyed' = TRUE
  /\ deletions' = [o \in Observers |->
                     deletions[o] + Cardinality({s \in slotsToDelete : queueObservers[s] = o})]
  /\ taskQueue' = <<>>
  /\ UNCHANGED <<fixed, queueObservers, created, adds, pc, lookup, exiting, collect>>

---------------------------------------------------------------------------
Look(t) == LookFound(t) \/ LookShared(t) \/ LookCreate(t) \/ Cas(t) \/ Share(t)

\* A worker that has left the loop only has to get out.
Leave(w) == LockExit(w) \/ Exit(w)

Next ==
  \/ \E t \in Callers : Look(t)
  \/ \E p \in Producers : AddEnqueue(p) \/ \E k \in Priorities : AddBegin(p, k)
  \/ \E w \in Workers :
       \/ ThreadStart(w) \/ addTid(w) \/ RunTask(w) \/ removeTid(w) \/ Leave(w)
       \/ \E i \in DOMAIN taskQueue : Take(w, i)
  \/ \E c \in Collectors : CollectLock(c) \/ CollectIds(c) \/ Release(c)
  \/ Destroy

Spec == Init /\ [][Next]_vars

(* Threads inside a call keep running and whoever collects ids lets them go *)
(* again.  No task has to be added and no ids to be collected; the lock is  *)
(* not fair between writers, so each gets it only if it is free again and   *)
(* again.                                                                   *)
FairSpec ==
  /\ Spec
  /\ \A t \in Callers : WF_vars(Look(t))
  /\ \A w \in Workers : SF_vars(LockExit(w)) /\ WF_vars(Exit(w))
  /\ \A c \in Collectors : WF_vars(CollectIds(c) \/ Release(c))

---------------------------------------------------------------------------
(* Properties *)

\* A thread whose id was collected does not exit, and its id is not given to a
\* new thread, before the keep-alive that came with the ids is destroyed.
CollectedAlive ==
  \A c \in Collectors : \A w \in threadIds[c] : pc[w] \notin {"none", "started"}

\* A thread that stops exits, however often ids are collected.
LeavingExits == \A w \in Workers : pc[w] = "removed" ~> pc[w] = "none"

\* The observer that is told that a task was taken is the one that was told that
\* it was added, though producers and workers may create observers at once.
SameObserver == \A w \in Workers : pc[w] = "found" => observer[w] = told[w]

\* When the pool is gone, every observer the factory made was deleted, and none
\* of them twice.
DeletedOnce ==
  destroyed => \A o \in Observers : deletions[o] = (IF o <= created THEN 1 ELSE 0)

=============================================================================
