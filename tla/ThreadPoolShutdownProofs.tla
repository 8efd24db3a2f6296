----------------------- MODULE ThreadPoolShutdownProofs -----------------------
(***************************************************************************)
(* More theorems about CPUThreadPoolExecutor: every semaphore token finds  *)
(* an item, the keep-alive tokens protect what they should, stop() and     *)
(* join() leave no thread behind, and observers miss none.                 *)
(***************************************************************************)
EXTENDS CPUThreadPoolExecutorProofs

---------------------------------------------------------------------------
(* Tokens and items *)

Posting == {c \in Clients : cpc[c] \in {"post", "poisonPost"}}
Claimed == WorkerAt({"claimed"})

LEMMA TokenSetsFinite ==
  /\ IsFiniteSet(Posting) /\ Cardinality(Posting) \in Nat
  /\ IsFiniteSet(Claimed) /\ Cardinality(Claimed) \in Nat
<1>1. IsFiniteSet(Clients)
  BY ClientsAssumption, FS_Singleton, FS_Union DEF Clients
<1>2. IsFiniteSet(Posting)
  BY <1>1, FS_Subset DEF Posting
<1>3. IsFiniteSet(Claimed)
  BY WorkersAssumption, FS_Subset DEF Claimed, WorkerAt
<1> QED
  BY <1>2, <1>3, FS_CardinalityType

LEMMA TokenStep == TypeInv /\ TokenPerItem /\ [Next]_vars => TokenPerItem'
<1> SUFFICES ASSUME TypeInv, TokenPerItem, [Next]_vars PROVE TokenPerItem'
  OBVIOUS
<1> DEFINE items == Len(taskQueue)
           tokens == Cardinality(Claimed)
           posts == Cardinality(Posting)
<1>0. /\ items \in Nat /\ sem \in Nat /\ tokens \in Nat /\ posts \in Nat
      /\ items = sem + tokens + posts
      /\ IsFiniteSet(Claimed) /\ IsFiniteSet(Posting)
  BY TokenSetsFinite DEF TypeInv, TypeOK, TokenPerItem, Claimed, Posting
\* What a step has to show.
<1>1. ASSUME Len(taskQueue') = sem' + Cardinality(Claimed') + Cardinality(Posting') PROVE TokenPerItem'
  BY <1>1 DEF TokenPerItem, Claimed, Posting
<1>2. ASSUME UNCHANGED <<taskQueue, sem>>,
             \A c \in Clients : cpc'[c] \in {"post", "poisonPost"} <=> cpc[c] \in {"post", "poisonPost"},
             \A w \in Workers : wpc'[w] = "claimed" <=> wpc[w] = "claimed"
      PROVE  TokenPerItem'
  <2>1. Claimed' = Claimed /\ Posting' = Posting
    BY <1>2 DEF Claimed, Posting, WorkerAt
  <2> QED
    BY <1>0, <1>1, <1>2, <2>1
<1> USE ClientsAssumption DEF Clients
<1>3. ASSUME NEW c \in Clients, NEW item, Push(item), sem' = sem, wpc' = wpc,
             cpc[c] \notin {"post", "poisonPost"}, NEW to \in {"post", "poisonPost"},
             cpc' = [cpc EXCEPT ![c] = to]
      PROVE  TokenPerItem'
  <2>1. Claimed' = Claimed /\ Posting' = Posting \cup {c} /\ c \notin Posting
    BY <1>3 DEF Claimed, Posting, WorkerAt, TypeInv, TypeOK
  <2>2. Cardinality(Posting') = posts + 1
    BY <1>0, <2>1, FS_AddElement
  <2>3. Len(taskQueue') = items + 1
    BY <1>3 DEF Push, TypeInv, TypeOK
  <2> QED
    BY <1>0, <1>1, <1>3, <2>1, <2>2, <2>3
<1>4. ASSUME NEW c \in Clients, taskQueue' = taskQueue, PostKeeps \/ \E w \in Workers : PostWakes(w),
             cpc[c] \in {"post", "poisonPost"}, NEW to, to \notin {"post", "poisonPost"},
             cpc' = [cpc EXCEPT ![c] = to]
      PROVE  TokenPerItem'
  <2>1. Posting' = Posting \ {c} /\ c \in Posting
    BY <1>4 DEF Posting, TypeInv, TypeOK
  <2>2. Cardinality(Posting') = posts - 1
    BY <1>0, <2>1, FS_RemoveElement
  <2>3. CASE PostKeeps
    <3>1. Claimed' = Claimed /\ sem' = sem + 1
      BY <2>3 DEF PostKeeps, Claimed, WorkerAt
    <3> QED
      BY <1>0, <1>1, <1>4, <2>2, <3>1
  <2>4. ASSUME NEW w \in Workers, PostWakes(w) PROVE TokenPerItem'
    <3>1. Claimed' = Claimed \cup {w} /\ w \notin Claimed /\ sem' = sem
      BY <2>4 DEF PostWakes, Waiters, Claimed, WorkerAt, TypeInv, TypeOK
    <3>2. Cardinality(Claimed') = tokens + 1
      BY <1>0, <3>1, FS_AddElement
    <3> QED
      BY <1>0, <1>1, <1>4, <2>2, <3>1, <3>2
  <2> QED
    BY <1>4, <2>3, <2>4
<1>5. ASSUME NEW w \in Workers, SemTake(w) PROVE TokenPerItem'
  <2>1. Claimed' = Claimed \cup {w} /\ w \notin Claimed /\ sem' = sem - 1 /\ Posting' = Posting
        /\ taskQueue' = taskQueue
    BY <1>5 DEF SemTake, GotoW, Claimed, Posting, WorkerAt, TypeInv, TypeOK
  <2>2. Cardinality(Claimed') = tokens + 1
    BY <1>0, <2>1, FS_AddElement
  <2> QED
    BY <1>0, <1>1, <2>1, <2>2
<1>6. ASSUME NEW w \in Workers, Dequeue(w) PROVE TokenPerItem'
  <2>1. Claimed' = Claimed \ {w} /\ w \in Claimed /\ sem' = sem /\ Posting' = Posting
    BY <1>6 DEF Dequeue, GotoW, Claimed, Posting, WorkerAt, TypeInv, TypeOK
  <2>2. Len(taskQueue') = items - 1
    BY <1>6 DEF Dequeue, TypeInv, TypeOK
  <2>3. Cardinality(Claimed') = tokens - 1
    BY <1>0, <2>1, FS_RemoveElement
  <2> QED
    BY <1>0, <1>1, <2>1, <2>2, <2>3
<1> HIDE DEF items, tokens, posts
<1>7. ASSUME NEW p \in Producers, AddEnqueue(p) PROVE TokenPerItem'
  BY <1>3, <1>7 DEF AddEnqueue, Step, Goto, workers
<1>8. ASSUME NEW p \in Producers, AddPost(p) PROVE TokenPerItem'
  <2>1. taskQueue' = taskQueue /\ cpc[p] = "post" /\ p \in Clients
    BY <1>8 DEF AddPost
  <2>2. PICK to \in {"release", "ensureJoined"} : cpc' = [cpc EXCEPT ![p] = to]
    BY <1>8 DEF AddPost, Goto
  <2>3. PostKeeps \/ \E w \in Workers : PostWakes(w)
    BY <1>8 DEF AddPost
  <2>4. to \notin {"post", "poisonPost"}
    BY <2>2
  <2> QED
    BY <1>4, <2>1, <2>2, <2>3, <2>4
<1>9. CASE PoisonEnqueue
  BY <1>3, <1>9 DEF PoisonEnqueue, Step, Goto, workers
<1>10. CASE PoisonPost
  BY <1>4, <1>10 DEF PoisonPost, Step, Goto
<1>11. ASSUME NEW c \in Clients,
             \/ EnsureJoined(c) \/ JoinOne(c) \/ JoinDone(c) \/ EnsureLoad(c) \/ EnsureCheck(c)
             \/ ThreadsStarted(c) \/ EnsureReturn(c) \/ TakeJoin(c) \/ EnsureSpawn(c)
      PROVE  TokenPerItem'
  <2>1. UNCHANGED <<taskQueue, sem>>
    BY <1>11 DEF EnsureJoined, JoinOne, JoinDone, EnsureLoad, EnsureCheck, ThreadsStarted, EnsureReturn,
                 TakeJoin, EnsureSpawn, ControlOnly, queue
  <2>2. \A d \in Clients : cpc'[d] \in {"post", "poisonPost"} <=> cpc[d] \in {"post", "poisonPost"}
    BY <1>11, ZenonT(30) DEF EnsureJoined, JoinOne, JoinDone, EnsureLoad, EnsureCheck, ThreadsStarted, EnsureReturn,
                 TakeJoin, EnsureSpawn, Step, Goto, AfterJoin, AfterEnsure, TypeInv, TypeOK
  <2>3. \A w \in Workers : wpc'[w] = "claimed" <=> wpc[w] = "claimed"
    <3>1. CASE EnsureSpawn(c)
      BY <3>1 DEF EnsureSpawn, addThreads, WorkerAt
    <3>2. CASE ~EnsureSpawn(c)
      BY <1>11, <3>2 DEF EnsureJoined, JoinOne, JoinDone, EnsureLoad, EnsureCheck, ThreadsStarted,
                         EnsureReturn, TakeJoin, ControlOnly, workers
    <3> QED
      BY <3>1, <3>2
  <2> QED
    BY <1>2, <2>1, <2>2, <2>3
<1>12. ASSUME NEW p \in Producers,
              AddLoad(p) \/ AddDecide(p) \/ AddRelease(p) \/ \E t \in Tasks : AddBegin(p, t)
       PROVE  TokenPerItem'
  BY <1>2, <1>12
  DEF AddLoad, AddDecide, AddRelease, AddBegin, queue, workers, Step, Goto, TypeInv, TypeOK
<1>13. CASE ResizeUp
  BY <1>2, <1>13 DEF ResizeUp, addThreads, WorkerAt, queue, Step, Goto, TypeInv, TypeOK
<1>14. CASE \/ StoreMax \/ ResizeDown \/ ResizeDownDone \/ ensureMaxActiveThreads
            \/ KeepAliveJoined \/ Destroy \/ TakeOver \/ TakeOverDone
            \/ \E k \in Sizes : SetNumThreads(k)
            \/ \E o \in Observers : AddObserver(o) \/ RemoveObserver(o)
            \/ \E kind \in ShutdownKinds : Shutdown(kind)
  BY <1>2, <1>14, ZenonT(30)
  DEF StoreMax, ResizeDown, ResizeDownDone, ensureMaxActiveThreads, TakeOver, TakeOverDone,
      KeepAliveJoined, Destroy, SetNumThreads, AddObserver, RemoveObserver, Shutdown,
      ControlOnly, queue, workers, Step, Goto, TypeInv, TypeOK
<1>15. ASSUME NEW w \in Workers,
              \/ Start(w) \/ SemWait(w) \/ SemTimeout(w) \/ RunTask(w) \/ AfterTask(w)
              \/ TimeoutUndo(w) \/ Stay(w) \/ TimeoutBegin(w)
       PROVE  TokenPerItem'
  BY <1>2, <1>15
  DEF Start, SemWait, SemTimeout, RunTask, AfterTask, TimeoutUndo, Stay,
      TimeoutBegin, WorkerControlOnly, GotoW, queue, TypeInv, TypeOK
<1>16. ASSUME NEW w \in Workers, StopAfterTask(w) \/ StopIdle(w) \/ Retire(w) PROVE TokenPerItem'
  BY <1>2, <1>16 DEF StopAfterTask, StopIdle, Retire, Leave, queue, TypeInv, TypeOK
<1>17. CASE UNCHANGED vars
  BY <1>2, <1>17 DEF vars, queue, workers
<1> QED
  BY <1>5, <1>6, <1>7, <1>8, <1>9, <1>10, <1>11, <1>12, <1>13, <1>14, <1>15, <1>16, <1>17
  DEF Next, Environment, ClientStep, ClientLock, AddStep, ManagerStep, WorkerStep, WorkerLock,
      Terminated

(***************************************************************************)
(* TokenPerItem: whoever gets a token from the semaphore finds an item in  *)
(* the queue, whether the token came from add() or from stopThreads, and   *)
(* was handed over or kept.                                                *)
(***************************************************************************)
THEOREM TokensHaveItems == Spec => []TokenPerItem
<1>1. Init => TokenPerItem
  <2> SUFFICES ASSUME Init PROVE TokenPerItem
    OBVIOUS
  <2>1. Claimed = {} /\ Posting = {}
    BY DEF Init, Claimed, Posting, WorkerAt
  <2>2. Len(taskQueue) = 0 /\ sem = 0
    BY DEF Init
  <2>3. Cardinality(Claimed) = 0 /\ Cardinality(Posting) = 0
    BY <2>1, FS_EmptySet
  <2>4. Len(taskQueue) = sem + Cardinality(Claimed) + Cardinality(Posting)
    BY <2>2, <2>3
  <2> QED
    BY <2>4 DEF TokenPerItem, Claimed, Posting
<1> QED
  BY <1>1, TypeInit, TypeStep, TokenStep, PTL DEF Spec

---------------------------------------------------------------------------
(* Which control points belong together *)

FinalOps == {"stop", "join", "destroy"}

\* The part of add() that the token taken in addImpl protects.
Ensuring == {"ensureJoined", "takeJoin", "join", "ensureLoad", "ensureCheck", "ensureLock",
             "startup"}
Deciding == {"load", "decide", "compare"}
Adding == Deciding \cup {"idle", "enqueue", "post", "release"}

\* Where the manager can be in each of its calls, and a producer in add().
ControlInv ==
  /\ op = "none" => cpc[Manager] = "idle"
  /\ op = "resize" => cpc[Manager] \in {"resize", "resized", "poison", "poisonPost", "startup",
                                        "join", "idle"}
  /\ op = "observe" => cpc[Manager] \in Ensuring \cup {"ensureMax", "idle"}
  /\ op \in FinalOps => cpc[Manager] \in {"drain", "takeOver", "poison", "poisonPost", "join",
                                         "returned", "destroyed"}
  /\ shutdown # "none" => op \in FinalOps /\ op \in {shutdown, "destroy"}
  /\ op = "destroy" => cpc[Manager] # "returned"
  /\ \A p \in Producers : cpc[p] \in Adding \/ (cpc[p] \in Ensuring /\ need[p])

LEMMA ControlInit == Init => ControlInv
  BY DEF Init, ControlInv, FinalOps, Adding, Clients

LEMMA ControlStep == TypeInv /\ LockInv /\ ControlInv /\ [Next]_vars => ControlInv'
<1> SUFFICES ASSUME TypeInv, LockInv, ControlInv, [Next]_vars PROVE ControlInv'
  OBVIOUS
<1> USE ClientsAssumption, ModeAssumption
    DEF TypeInv, TypeOK, ControlInv, FinalOps, Ensuring, Adding, Deciding, Clients, Step, Goto, pool, locals,
        life, rest, ControlOnly, WorkerControlOnly
\* A producer moves on.
<1>0. ASSUME NEW p \in Producers, NEW to, cpc' = [cpc EXCEPT ![p] = to],
             to \in Adding \/ (to \in Ensuring /\ need'[p]), UNCHANGED <<op, shutdown>>,
             \A q \in Producers \ {p} : need'[q] = need[q]
      PROVE  ControlInv'
  BY <1>0
<1>1. ASSUME NEW p \in Producers,
             \/ AddLoad(p) \/ AddDecide(p) \/ AddEnqueue(p) \/ AddPost(p) \/ AddRelease(p)
             \/ \E t \in Tasks : AddBegin(p, t)
      PROVE  ControlInv'
  <2>1. CASE AddLoad(p) \/ AddDecide(p) \/ AddEnqueue(p) \/ \E t \in Tasks : AddBegin(p, t)
    <3>1. PICK to \in {"load", "decide", "compare", "enqueue", "post"} :
            cpc' = [cpc EXCEPT ![p] = to]
      BY <2>1 DEF AddLoad, AddDecide, AddEnqueue, AddBegin
    <3>2. UNCHANGED <<op, shutdown>> /\ \A q \in Producers \ {p} : need'[q] = need[q]
      BY <2>1 DEF AddLoad, AddDecide, AddEnqueue, AddBegin
    <3> QED
      BY <1>0, <3>1, <3>2
  <2>2. CASE AddPost(p)
    <3>1. PICK to \in {"release", "ensureJoined"} :
            cpc' = [cpc EXCEPT ![p] = to] /\ (to = "ensureJoined" => need[p])
      BY <2>2 DEF AddPost
    <3> QED
      BY <1>0, <2>2, <3>1 DEF AddPost
  <2>3. CASE AddRelease(p)
    BY <1>0, <2>3 DEF AddRelease
  <2> QED
    BY <1>1, <2>1, <2>2, <2>3
<1>2. ASSUME NEW c \in Clients, EnsureJoined(c) \/ JoinOne(c) \/ EnsureLoad(c) \/ TakeJoin(c)
      PROVE  ControlInv'
  BY <1>2, ZenonT(30) DEF EnsureJoined, JoinOne, EnsureLoad, TakeJoin
<1>3. ASSUME NEW c \in Clients, JoinDone(c) PROVE ControlInv'
  <2>1. UNCHANGED <<op, need, shutdown>> /\ cpc' = [cpc EXCEPT ![c] = AfterJoin(c)]
    BY <1>3 DEF JoinDone
  <2>2. CASE c \in Producers
    <3>1. AfterJoin(c) = "ensureLoad"
      BY <2>2 DEF AfterJoin
    <3>2. need[c]
      BY <1>3, <2>2 DEF JoinDone
    <3> QED
      BY <1>0, <2>1, <2>2, <3>1, <3>2
  <2>3. CASE c = Manager
    <3>1. op \in {"resize", "observe"} \cup FinalOps
      BY <1>3, <2>3 DEF JoinDone, Ops
    <3>2. AfterJoin(Manager) = CASE op = "observe" -> "ensureLoad"
                                 [] op = "resize"  -> "idle"
                                 [] op = "destroy" -> "destroyed"
                                 [] OTHER          -> "returned"
      BY <3>1 DEF AfterJoin
    <3> QED
      BY <2>1, <2>3, <3>1, <3>2
  <2> QED
    BY <2>2, <2>3
<1>4. ASSUME NEW c \in Clients, EnsureCheck(c) \/ EnsureReturn(c) \/ EnsureSpawn(c) PROVE ControlInv'
  <2>1. UNCHANGED <<op, need, shutdown>> /\ cpc[c] \in {"ensureCheck", "ensureLock"}
    BY <1>4 DEF EnsureCheck, EnsureReturn, EnsureSpawn
  <2>2. PICK to \in {AfterEnsure(c), "ensureLock", "startup"} : cpc' = [cpc EXCEPT ![c] = to]
    BY <1>4 DEF EnsureCheck, EnsureReturn, EnsureSpawn
  <2>3. CASE c \in Producers
    BY <1>0, <2>1, <2>2, <2>3 DEF AfterEnsure
  <2>4. CASE c = Manager
    BY <2>1, <2>2, <2>4 DEF AfterEnsure, Ops
  <2> QED
    BY <2>3, <2>4
<1>5. ASSUME NEW c \in Clients, ThreadsStarted(c) PROVE ControlInv'
  BY <1>5 DEF ThreadsStarted, AfterEnsure
<1>6. CASE \/ StoreMax \/ ResizeDown \/ ResizeUp \/ PoisonEnqueue \/ PoisonPost
           \/ ResizeDownDone \/ ensureMaxActiveThreads
  BY <1>6, ZenonT(30) DEF StoreMax, ResizeDown, ResizeUp, PoisonEnqueue, PoisonPost, ResizeDownDone,
              ensureMaxActiveThreads, LockInv
<1>7. CASE \/ KeepAliveJoined \/ TakeOver \/ TakeOverDone \/ Destroy
           \/ \E kind \in ShutdownKinds : Shutdown(kind)
  BY <1>7, ZenonT(30) DEF KeepAliveJoined, TakeOver, TakeOverDone, Destroy, Shutdown, LockInv
<1>8. CASE \/ \E k \in Sizes : SetNumThreads(k)
           \/ \E o \in Observers : AddObserver(o) \/ RemoveObserver(o)
  BY <1>8, ZenonT(30) DEF SetNumThreads, AddObserver, RemoveObserver, LockInv
<1>9. ASSUME NEW w \in Workers, WorkerStep(w) \/ WorkerLock(w) \/ SemTimeout(w) PROVE ControlInv'
  <2>1. UNCHANGED <<cpc, op, need, shutdown>>
    BY <1>9
    DEF WorkerStep, WorkerLock, Start, SemTake, SemWait, SemTimeout, Dequeue, RunTask, AfterTask,
        TimeoutUndo, Retire, StopAfterTask, StopIdle, Stay, TimeoutBegin
  <2> QED
    BY <2>1
<1>10. CASE UNCHANGED vars
  BY <1>10 DEF vars
<1> QED
  BY <1>1, <1>2, <1>3, <1>4, <1>5, <1>6, <1>7, <1>8, <1>9, <1>10
  DEF Next, Environment, ClientStep, ClientLock, AddStep, ManagerStep, Terminated

---------------------------------------------------------------------------
(* Where a task is between add() and its run *)

InAdd(p) == cpc[p] \in Deciding \cup {"enqueue"}
Running(w) == wpc[w] = "run"

\* A task at a producer, in the queue or at a worker was submitted, has not been run,
\* and is nowhere else.
TaskInv ==
  /\ done \subseteq submitted
  /\ \A p \in Producers : InAdd(p) => ctask[p] \in submitted \ done
  /\ \A i \in DOMAIN taskQueue : taskQueue[i] # Poison => taskQueue[i] \in submitted \ done
  /\ \A w \in Workers : Running(w) => wtask[w] \in submitted \ done
  /\ \A p, q \in Producers : InAdd(p) /\ InAdd(q) /\ p # q => ctask[p] # ctask[q]
  /\ \A i, j \in DOMAIN taskQueue : i # j /\ taskQueue[i] = taskQueue[j] => taskQueue[i] = Poison
  /\ \A v, w \in Workers : Running(v) /\ Running(w) /\ v # w => wtask[v] # wtask[w]
  /\ \A p \in Producers : InAdd(p) => \A i \in DOMAIN taskQueue : taskQueue[i] # ctask[p]
  /\ \A p \in Producers : InAdd(p) => \A w \in Workers : Running(w) => wtask[w] # ctask[p]
  /\ \A w \in Workers : Running(w) => \A i \in DOMAIN taskQueue : taskQueue[i] # wtask[w]

LEMMA TaskInit == Init => TaskInv
  BY DEF Init, TaskInv, InAdd, Deciding, Running, Clients

LEMMA TaskStep == TypeInv /\ TaskInv /\ [Next]_vars => TaskInv'
<1> SUFFICES ASSUME TypeInv, TaskInv, [Next]_vars PROVE TaskInv'
  OBVIOUS
<1>0. /\ taskQueue \in Seq(Tasks \cup {Poison}) /\ Poison \notin Tasks /\ NoTask \notin Tasks
      /\ wpc \in [Workers -> WorkerPCs] /\ wtask \in [Workers -> Tasks \cup {NoTask}]
      /\ cpc \in [Clients -> ClientPCs] /\ ctask \in [Clients -> Tasks \cup {NoTask}]
      /\ submitted \subseteq Tasks /\ Producers \subseteq Clients
  BY TasksAssumption DEF TypeInv, TypeOK, Clients
\* A step that moves no task.
<1>1. ASSUME UNCHANGED <<taskQueue, wtask, submitted, done>>,
             \A p \in Producers : InAdd(p)' => InAdd(p) /\ ctask'[p] = ctask[p],
             \A w \in Workers : Running(w)' => Running(w)
      PROVE  TaskInv'
  BY <1>1 DEF TaskInv
<1>2. ASSUME NEW item, Push(item),
             item # Poison => /\ item \in submitted \ done
                              /\ \A i \in DOMAIN taskQueue : taskQueue[i] # item
                              /\ \A w \in Workers : Running(w) => wtask[w] # item,
             \A p \in Producers : InAdd(p)' => InAdd(p) /\ ctask[p] # item,
             UNCHANGED <<wtask, ctask, submitted, done, wpc>>
      PROVE  TaskInv'
  <2>1. /\ DOMAIN taskQueue' = DOMAIN taskQueue \cup {Len(taskQueue) + 1}
        /\ \A i \in DOMAIN taskQueue : taskQueue'[i] = taskQueue[i]
        /\ taskQueue'[Len(taskQueue) + 1] = item
    BY <1>0, <1>2 DEF Push
  <2>2. \A i \in DOMAIN taskQueue' : i \in DOMAIN taskQueue \/ taskQueue'[i] = item
    BY <2>1
  <2>3. \A w \in Workers : Running(w)' <=> Running(w)
    BY <1>2 DEF Running
  <2>4. \A i, j \in DOMAIN taskQueue' : i # j /\ taskQueue'[i] = taskQueue'[j] => taskQueue'[i] = Poison
    BY <1>2, <2>1 DEF TaskInv
  <2>5. \A i \in DOMAIN taskQueue' : taskQueue'[i] # Poison => taskQueue'[i] \in submitted \ done
    BY <1>2, <2>1, <2>2 DEF TaskInv
  <2>6. \A w \in Workers : Running(w) => wtask[w] # Poison
    BY <1>0 DEF TaskInv
  <2>7. \A w \in Workers : Running(w) => \A i \in DOMAIN taskQueue' : taskQueue'[i] # wtask[w]
    BY <1>2, <2>1, <2>2, <2>6 DEF TaskInv
  <2>8. \A p \in Producers : InAdd(p)' => \A i \in DOMAIN taskQueue' : taskQueue'[i] # ctask[p]
    BY <1>2, <2>1, <2>2 DEF TaskInv
  <2> QED
    BY <1>2, <2>3, <2>4, <2>5, <2>7, <2>8 DEF TaskInv
<1>3. ASSUME NEW p \in Producers, NEW t \in Tasks, AddBegin(p, t) PROVE TaskInv'
  <2>1. /\ t \notin submitted /\ submitted' = submitted \cup {t}
        /\ UNCHANGED <<taskQueue, wtask, wpc, done>>
        /\ \A q \in Producers : ctask'[q] = IF q = p THEN t ELSE ctask[q]
    BY <1>0, <1>3 DEF AddBegin, workers, queue
  <2>2. /\ \A q \in Producers : q # p => (InAdd(q)' <=> InAdd(q))
        /\ \A w \in Workers : Running(w)' <=> Running(w)
    BY <1>0, <1>3 DEF AddBegin, Step, Goto, InAdd, Deciding, Running, workers
  <2>3. t \notin done /\ t # Poison
    BY <1>0, <2>1 DEF TaskInv
  <2> QED
    BY <2>1, <2>2, <2>3 DEF TaskInv
<1>4. ASSUME NEW p \in Producers, AddEnqueue(p) PROVE TaskInv'
  <2>1. /\ InAdd(p) /\ Push(ctask[p]) /\ UNCHANGED <<wtask, ctask, submitted, done, wpc>>
    BY <1>4 DEF AddEnqueue, Step, InAdd, Deciding, workers, locals, rest, history
  <2>2. \A q \in Producers : InAdd(q)' => InAdd(q) /\ q # p
    BY <1>0, <1>4 DEF AddEnqueue, Step, Goto, InAdd, Deciding
  <2> QED
    BY <1>2, <2>1, <2>2 DEF TaskInv
<1>5. CASE PoisonEnqueue
  <2>1. Push(Poison) /\ UNCHANGED <<wtask, ctask, submitted, done, wpc>>
    BY <1>5 DEF PoisonEnqueue, workers, locals, rest, history
  <2>2. \A q \in Producers : InAdd(q)' => InAdd(q)
    BY <1>0, <1>5, ClientsAssumption DEF PoisonEnqueue, Step, Goto, InAdd, Deciding
  <2>3. \A q \in Producers : InAdd(q) => ctask[q] # Poison
    BY <1>0 DEF TaskInv
  <2> QED
    BY <1>2, <2>1, <2>2, <2>3
<1>6. ASSUME NEW w \in Workers, Dequeue(w) PROVE TaskInv'
  <2>1. /\ taskQueue # <<>> /\ taskQueue' = Tail(taskQueue)
        /\ UNCHANGED <<cpc, ctask, submitted, done>>
    BY <1>6 DEF Dequeue, locals, rest, history
  <2>2. /\ 1 \in DOMAIN taskQueue /\ Head(taskQueue) = taskQueue[1]
        /\ \A i \in DOMAIN taskQueue' : i + 1 \in DOMAIN taskQueue /\ i + 1 # 1 /\ i \in Int
                                       /\ taskQueue'[i] = taskQueue[i + 1]
    BY <1>0, <2>1
  <2>3. /\ \A v \in Workers : v # w => (Running(v)' <=> Running(v)) /\ wtask'[v] = wtask[v]
        /\ Running(w)' => taskQueue[1] # Poison /\ wtask'[w] = taskQueue[1]
    BY <1>0, <1>6, <2>2 DEF Dequeue, GotoW, Running
  <2>4. \A q \in Producers : InAdd(q)' <=> InAdd(q)
    BY <2>1 DEF InAdd, Deciding
  <2>5. \A i, j \in DOMAIN taskQueue' : i # j /\ taskQueue'[i] = taskQueue'[j] => taskQueue'[i] = Poison
    <3> TAKE i, j \in DOMAIN taskQueue'
    <3>1. i # j => i + 1 # j + 1
      BY <2>2
    <3> QED
      BY <2>2, <3>1 DEF TaskInv
  <2>6. \A i \in DOMAIN taskQueue' :
          /\ taskQueue'[i] # Poison => taskQueue'[i] \in submitted \ done /\ taskQueue'[i] # taskQueue[1]
          /\ \A v \in Workers : Running(v) => taskQueue'[i] # wtask[v]
          /\ \A q \in Producers : InAdd(q) => taskQueue'[i] # ctask[q]
    BY <2>2 DEF TaskInv
  <2>7. /\ taskQueue[1] # Poison => taskQueue[1] \in submitted \ done
        /\ \A v \in Workers : Running(v) => taskQueue[1] # wtask[v]
        /\ \A q \in Producers : InAdd(q) => taskQueue[1] # ctask[q]
    BY <2>2 DEF TaskInv
  <2> QED
    BY <2>1, <2>3, <2>4, <2>5, <2>6, <2>7 DEF TaskInv
<1>7. ASSUME NEW w \in Workers, RunTask(w) PROVE TaskInv'
  <2>1. /\ Running(w) /\ done' = done \cup {wtask[w]} /\ UNCHANGED <<cpc, ctask, taskQueue, submitted>>
        /\ \A v \in Workers : Running(v)' => Running(v) /\ v # w /\ wtask'[v] = wtask[v]
    BY <1>0, <1>7 DEF RunTask, GotoW, Running, queue, locals
  <2>2. \A q \in Producers : InAdd(q)' <=> InAdd(q)
    BY <2>1 DEF InAdd, Deciding
  <2> QED
    BY <2>1, <2>2 DEF TaskInv
<1>8. ASSUME NEW p \in Producers, AddLoad(p) \/ AddDecide(p) \/ AddPost(p) \/ AddRelease(p)
      PROVE  TaskInv'
  BY <1>0, <1>1, <1>8
  DEF AddLoad, AddDecide, AddPost, AddRelease, PostWakes, PostKeeps, Waiters, WorkerAt, InAdd, Deciding, Running,
      Step, Goto, workers, queue, locals, rest, history
<1>9. ASSUME NEW c \in Clients, ClientStep(c) \/ TakeJoin(c) \/ EnsureReturn(c) PROVE TaskInv'
  <2>1. UNCHANGED <<taskQueue, wtask, wpc, ctask, submitted, done>>
    BY <1>9
    DEF ClientStep, EnsureJoined, JoinOne, JoinDone, EnsureLoad, EnsureCheck, ThreadsStarted,
        TakeJoin, EnsureReturn, ControlOnly, workers, queue, locals, rest, history
  <2>2. \A q \in Producers : InAdd(q)' => InAdd(q)
    BY <1>0, <1>9
    DEF ClientStep, EnsureJoined, JoinOne, JoinDone, EnsureLoad, EnsureCheck, ThreadsStarted,
        TakeJoin, EnsureReturn, AfterJoin, AfterEnsure, Step, Goto, InAdd, Deciding
  <2> QED
    BY <1>1, <2>1, <2>2 DEF Running
<1>10. ASSUME NEW c \in Clients, EnsureSpawn(c) PROVE TaskInv'
  BY <1>0, <1>1, <1>10
  DEF EnsureSpawn, addThreads, WorkerAt, InAdd, Deciding, Running, Step, Goto, queue, locals, rest, history
<1>11. CASE ResizeUp
  BY <1>0, <1>1, <1>11, ClientsAssumption
  DEF ResizeUp, addThreads, WorkerAt, InAdd, Deciding, Running, Step, Goto, queue, locals, rest, history
<1>12. CASE \/ StoreMax \/ ResizeDown \/ ResizeDownDone \/ ensureMaxActiveThreads
            \/ KeepAliveJoined \/ Destroy \/ TakeOver \/ TakeOverDone
            \/ \E k \in Sizes : SetNumThreads(k)
            \/ \E o \in Observers : AddObserver(o) \/ RemoveObserver(o)
            \/ \E kind \in ShutdownKinds : Shutdown(kind)
  <2>1. UNCHANGED <<taskQueue, wtask, wpc, ctask, submitted, done>>
    BY <1>12
    DEF StoreMax, ResizeDown, ResizeDownDone, ensureMaxActiveThreads, TakeOver, TakeOverDone,
        KeepAliveJoined, Destroy, SetNumThreads, AddObserver, RemoveObserver, Shutdown,
        ControlOnly, queue, workers, locals, rest, history
  <2>2. \A q \in Producers : cpc'[q] = cpc[q]
    BY <1>0, <1>12, ClientsAssumption
    DEF StoreMax, ResizeDown, ResizeDownDone, ensureMaxActiveThreads, TakeOver, TakeOverDone,
        KeepAliveJoined, Destroy, SetNumThreads, AddObserver, RemoveObserver, Shutdown, Step, Goto
  <2> QED
    BY <1>1, <2>1, <2>2 DEF InAdd, Deciding, Running
<1>13. CASE PoisonPost
  BY <1>0, <1>1, <1>13, ClientsAssumption
  DEF PoisonPost, PostWakes, PostKeeps, Waiters, WorkerAt, InAdd, Deciding, Running, Step, Goto, locals,
      rest, history
<1>14. ASSUME NEW w \in Workers,
              \/ Start(w) \/ SemTake(w) \/ SemWait(w) \/ SemTimeout(w) \/ AfterTask(w)
              \/ TimeoutUndo(w) \/ Stay(w) \/ TimeoutBegin(w) \/ StopAfterTask(w) \/ StopIdle(w)
              \/ Retire(w)
       PROVE  TaskInv'
  <2>1. UNCHANGED <<taskQueue, wtask, cpc, ctask, submitted, done>>
    BY <1>14
    DEF Start, SemTake, SemWait, SemTimeout, AfterTask, TimeoutUndo, Stay, TimeoutBegin,
        StopAfterTask, StopIdle, Retire, WorkerControlOnly, queue, locals, rest, history
  <2>2. \A v \in Workers : Running(v)' => Running(v)
    BY <1>0, <1>14
    DEF Start, SemTake, SemWait, SemTimeout, AfterTask, TimeoutUndo, Stay, TimeoutBegin,
        StopAfterTask, StopIdle, Retire, Leave, GotoW, Running
  <2> QED
    BY <1>1, <2>1, <2>2 DEF InAdd, Deciding
<1>15. CASE UNCHANGED vars
  BY <1>1, <1>15 DEF vars, workers, queue, locals, rest, history, InAdd, Deciding, Running
<1> QED
  BY <1>3, <1>4, <1>5, <1>6, <1>7, <1>8, <1>9, <1>10, <1>11, <1>12, <1>13, <1>14, <1>15
  DEF Next, Environment, ClientLock, AddStep, ManagerStep, WorkerStep, WorkerLock, Terminated

---------------------------------------------------------------------------
(* The keep-alive count *)

\* The tokens the callers of add() hold, those that tasks carry, and those addImpl takes.
Callers == {p \in Producers : cpc[p] # "idle" /\ ctask[p] \notin KATasks}
Carrying == (KATasks \cap submitted) \ done
Adders == {p \in Producers : need[p] /\ cpc[p] \notin {"idle"} \cup Deciding}
OwnToken == IF shutdown = "none" THEN 1 ELSE 0

\* keepAliveCount_ counts exactly the tokens there are, and once the owner is past
\* joinKeepAlive there are none.
CountInv ==
  /\ keepAliveCount = Cardinality(Callers) + Cardinality(Carrying) + Cardinality(Adders) + OwnToken
  /\ shutdown # "none" /\ cpc[Manager] # "drain" => keepAliveCount = 0

LEMMA TokenHoldersFinite ==
  TypeInv => /\ IsFiniteSet(Callers) /\ Cardinality(Callers) \in Nat
             /\ IsFiniteSet(Carrying) /\ Cardinality(Carrying) \in Nat
             /\ IsFiniteSet(Adders) /\ Cardinality(Adders) \in Nat
             /\ OwnToken \in Nat /\ keepAliveCount \in Int
<1> SUFFICES ASSUME TypeInv
             PROVE  IsFiniteSet(Callers) /\ IsFiniteSet(Carrying) /\ IsFiniteSet(Adders)
  BY FS_CardinalityType DEF OwnToken, TypeInv, TypeOK
<1>1. IsFiniteSet(Callers) /\ IsFiniteSet(Adders)
  BY ClientsAssumption, FS_Subset DEF Callers, Adders
<1>2. Carrying \subseteq Tasks
  BY TasksAssumption DEF Carrying
<1> QED
  BY <1>1, <1>2, TasksAssumption, FS_Subset

\* Without tokens no producer is in the part of add() that a token protects, and no
\* task that carries one is left.
LEMMA NoTokens ==
  ASSUME TypeInv, TaskInv, CountInv, ControlInv, keepAliveCount = 0
  PROVE  /\ Carrying = {}
         /\ \A p \in Producers : /\ cpc[p] \in {"idle", "post", "release"}
                                 /\ cpc[p] # "idle" => ctask[p] \in KATasks /\ ~need[p]
<1>1. Cardinality(Callers) = 0 /\ Cardinality(Carrying) = 0 /\ Cardinality(Adders) = 0
  BY TokenHoldersFinite DEF CountInv
<1>2. Callers = {} /\ Carrying = {} /\ Adders = {}
  BY <1>1, TokenHoldersFinite, FS_EmptySet
<1>3. ASSUME NEW p \in Producers, cpc[p] # "idle"
      PROVE  ctask[p] \in KATasks /\ ~InAdd(p) /\ ~need[p]
  <2>1. ctask[p] \in KATasks
    BY <1>2, <1>3 DEF Callers
  <2>2. ~InAdd(p)
    BY <1>2, <2>1 DEF TaskInv, Carrying
  <2> QED
    BY <1>2, <1>3, <2>1, <2>2 DEF Adders, InAdd
<1> QED
  BY <1>2, <1>3 DEF ControlInv, Adding, Deciding, InAdd

\* One element more, or one less, or none: x says which.
LEMMA OneMore ==
  ASSUME NEW S, IsFiniteSet(S), NEW e, e \notin S, NEW x \in {0, 1}, NEW T,
         T = IF x = 1 THEN S \cup {e} ELSE S
  PROVE  Cardinality(T) = Cardinality(S) + x
<1>1. Cardinality(S) \in Nat
  BY FS_CardinalityType
<1>2. Cardinality(S \cup {e}) = Cardinality(S) + 1
  BY FS_AddElement
<1> QED
  BY <1>1, <1>2

LEMMA OneLess ==
  ASSUME NEW S, IsFiniteSet(S), NEW e, NEW x \in {0, 1}, e \in S <=> x = 1
  PROVE  Cardinality(S \ {e}) = Cardinality(S) - x
<1>1. Cardinality(S) \in Nat
  BY FS_CardinalityType
<1>2. CASE e \in S
  <2>1. Cardinality(S \ {e}) = Cardinality(S) - 1
    BY <1>2, FS_RemoveElement
  <2> QED
    BY <1>2, <2>1
<1>3. CASE e \notin S
  <2>1. S \ {e} = S /\ x = 0
    BY <1>3
  <2>2. Cardinality(S) = Cardinality(S) - 0
    BY <1>1
  <2> QED
    BY <2>1, <2>2
<1> QED
  BY <1>2, <1>3

LEMMA CountInit == Init => CountInv
<1> SUFFICES ASSUME Init PROVE CountInv
  OBVIOUS
<1>1. Callers = {} /\ Carrying = {} /\ Adders = {} /\ OwnToken = 1
  BY DEF Init, Callers, Carrying, Adders, OwnToken, Clients
<1>2. Cardinality(Callers) = 0 /\ Cardinality(Carrying) = 0 /\ Cardinality(Adders) = 0
  BY <1>1, FS_EmptySet
<1>3. keepAliveCount = 1 /\ shutdown = "none"
  BY DEF Init
<1>4. keepAliveCount = Cardinality(Callers) + Cardinality(Carrying) + Cardinality(Adders) + OwnToken
  BY <1>1, <1>2, <1>3
<1> QED
  BY <1>3, <1>4 DEF CountInv

LEMMA CountStep ==
  TypeInv /\ TypeInv' /\ LockInv /\ ControlInv /\ ControlInv' /\ TaskInv /\ CountInv /\ [Next]_vars => CountInv'
<1> SUFFICES ASSUME TypeInv, TypeInv', LockInv, ControlInv, ControlInv', TaskInv, CountInv, [Next]_vars
             PROVE  CountInv'
  OBVIOUS
<1> DEFINE a == Cardinality(Callers)
           b == Cardinality(Carrying)
           d == Cardinality(Adders)
<1>0. /\ IsFiniteSet(Callers) /\ IsFiniteSet(Carrying) /\ IsFiniteSet(Adders)
      /\ a \in Nat /\ b \in Nat /\ d \in Nat /\ OwnToken \in Nat /\ keepAliveCount \in Int
      /\ keepAliveCount = a + b + d + OwnToken
  BY TokenHoldersFinite DEF CountInv
<1>1. /\ cpc \in [Clients -> ClientPCs] /\ ctask \in [Clients -> Tasks \cup {NoTask}]
      /\ need \in [Clients -> BOOLEAN] /\ Producers \subseteq Clients /\ Manager \in Clients
      /\ Manager \notin Producers /\ KATasks \subseteq Tasks /\ NoTask \notin Tasks
  BY ClientsAssumption, TasksAssumption DEF TypeInv, TypeOK, Clients
<1> HIDE DEF a, b, d
\* A step that moves no token.
<1>2. ASSUME UNCHANGED <<keepAliveCount, Callers, Carrying, Adders, shutdown>>,
             shutdown # "none" /\ cpc'[Manager] # "drain" => cpc[Manager] # "drain" \/ keepAliveCount = 0
      PROVE  CountInv'
  BY <1>2 DEF CountInv, OwnToken
<1>3. ASSUME UNCHANGED <<keepAliveCount, ctask, need, submitted, done, shutdown>>,
             \A p \in Producers : /\ cpc'[p] = "idle" <=> cpc[p] = "idle"
                                  /\ cpc'[p] \in Deciding <=> cpc[p] \in Deciding,
             shutdown # "none" /\ cpc'[Manager] # "drain" => cpc[Manager] # "drain" \/ keepAliveCount = 0
      PROVE  CountInv'
  <2>1. Callers' = Callers
    <3>1. \A p \in Producers : p \in Callers' <=> p \in Callers
      BY <1>3 DEF Callers
    <3> QED
      BY <3>1 DEF Callers
  <2>2. Carrying' = Carrying
    BY <1>3 DEF Carrying
  <2>3. Adders' = Adders
    <3>1. \A p \in Producers : p \in Adders' <=> p \in Adders
      BY <1>3 DEF Adders
    <3> QED
      BY <3>1 DEF Adders
  <2> QED
    BY <1>2, <1>3, <2>1, <2>2, <2>3
<1>4. ASSUME NEW p \in Producers, NEW t \in Tasks, AddBegin(p, t) PROVE CountInv'
  <2>1. /\ keepAliveCount > 0 /\ keepAliveCount' = keepAliveCount + 1
        /\ shutdown' = shutdown /\ t \notin submitted /\ t \notin done
    BY <1>4 DEF AddBegin, executorAlive, TaskInv
  <2>2. PICK to \in Deciding : cpc[p] = "idle" /\ cpc' = [cpc EXCEPT ![p] = to]
    BY <1>4 DEF AddBegin, Step, Goto, Deciding
  <2> DEFINE x == IF t \in KATasks THEN 1 ELSE 0
             y == IF t \in KATasks THEN 0 ELSE 1
  <2>3. p \notin Callers /\ t \notin Carrying
    BY <2>1, <2>2 DEF Callers, Carrying
  <2>4. Adders' = Adders
    BY <1>1, <1>4, <2>2 DEF AddBegin, Adders, Deciding
  <2>5. Callers' = IF y = 1 THEN Callers \cup {p} ELSE Callers
    BY <1>1, <1>4, <2>2 DEF AddBegin, Callers, Deciding
  <2>6. Carrying' = IF x = 1 THEN Carrying \cup {t} ELSE Carrying
    <3>1. done' = done /\ submitted' = submitted \cup {t}
      BY <1>4 DEF AddBegin
    <3> QED
      BY <2>1, <3>1 DEF Carrying
  <2>7. x \in {0, 1} /\ y \in {0, 1} /\ x + y = 1
    OBVIOUS
  <2> HIDE DEF x, y
  <2>8. Cardinality(Callers') = a + y
    BY <1>0, <2>3, <2>5, <2>7, OneMore DEF a
  <2>9. Cardinality(Carrying') = b + x
    BY <1>0, <2>3, <2>6, <2>7, OneMore DEF b
  <2>10. ~(shutdown # "none" /\ cpc[Manager] # "drain")
    BY <2>1 DEF CountInv
  <2>11. cpc'[Manager] = cpc[Manager]
    BY <1>1, <2>2
  <2>12. keepAliveCount' = Cardinality(Callers') + Cardinality(Carrying') + Cardinality(Adders') + OwnToken'
    BY <1>0, <2>1, <2>4, <2>7, <2>8, <2>9 DEF OwnToken, d
  <2> QED
    BY <2>1, <2>10, <2>11, <2>12 DEF CountInv
<1>5. ASSUME NEW p \in Producers, AddDecide(p) PROVE CountInv'
  <2>1. /\ cpc[p] \in Deciding /\ cpc' = [cpc EXCEPT ![p] = "enqueue"]
        /\ need' = [need EXCEPT ![p] = mayNeedToAddThreads(p)]
        /\ keepAliveCount' = keepAliveCount + Tokens(p) /\ UNCHANGED <<ctask, submitted, done, shutdown>>
    BY <1>5 DEF AddDecide, Step, Goto, history, Deciding
  <2>2. need'[p] \in BOOLEAN
    BY <1>1, TypeInv' DEF TypeInv, TypeOK
  <2>3. Callers' = Callers /\ Carrying' = Carrying
    BY <1>1, <2>1 DEF Callers, Carrying, Deciding
  <2>4. p \notin Adders /\ Adders' = IF need'[p] THEN Adders \cup {p} ELSE Adders
    BY <1>1, <2>1 DEF Adders, Deciding
  <2>5. Tokens(p) \in {0, 1} /\ (Tokens(p) = 1 <=> need'[p])
    BY <2>2 DEF Tokens
  <2>6. Adders' = IF Tokens(p) = 1 THEN Adders \cup {p} ELSE Adders
    BY <2>4, <2>5
  <2>7. Cardinality(Adders') = d + Tokens(p)
    BY <1>0, <2>4, <2>5, <2>6, OneMore DEF d
  <2>8. keepAliveCount # 0
    BY <2>1, NoTokens DEF Deciding
  <2> QED
    BY <1>0, <1>1, <2>1, <2>3, <2>5, <2>7, <2>8 DEF CountInv, OwnToken, a, b
<1>6. ASSUME NEW p \in Producers, AddRelease(p) PROVE CountInv'
  <2> DEFINE x == IF need[p] THEN 1 ELSE 0
             y == IF ctask[p] \in KATasks THEN 0 ELSE 1
  <2>1. /\ cpc[p] = "release" /\ cpc' = [cpc EXCEPT ![p] = "idle"]
        /\ keepAliveCount' = keepAliveCount - x - y /\ UNCHANGED <<submitted, done, shutdown>>
        /\ need' = [need EXCEPT ![p] = FALSE] /\ ctask' = [ctask EXCEPT ![p] = NoTask]
    BY <1>6 DEF AddRelease, Step, Goto, history
  <2>2. Carrying' = Carrying
    BY <2>1 DEF Carrying
  <2>3. Callers' = Callers \ {p} /\ Adders' = Adders \ {p}
    BY <1>1, <2>1 DEF Callers, Adders, Deciding
  <2>4. (p \in Callers <=> y = 1) /\ (p \in Adders <=> x = 1) /\ x \in {0, 1} /\ y \in {0, 1}
    BY <2>1 DEF Callers, Adders, Deciding
  <2> HIDE DEF x, y
  <2>5. Cardinality(Callers') = a - y
    BY <1>0, <2>3, <2>4, OneLess DEF a
  <2>6. Cardinality(Adders') = d - x
    BY <1>0, <2>3, <2>4, OneLess DEF d
  <2>7. keepAliveCount = 0 => x = 0 /\ y = 0
    BY <2>1, NoTokens DEF x, y
  <2> QED
    BY <1>0, <1>1, <2>1, <2>2, <2>4, <2>5, <2>6, <2>7 DEF CountInv, OwnToken, b
<1>7. ASSUME NEW w \in Workers, RunTask(w) PROVE CountInv'
  <2> DEFINE x == IF wtask[w] \in KATasks THEN 1 ELSE 0
  <2>1. /\ keepAliveCount' = keepAliveCount - x /\ done' = done \cup {wtask[w]} /\ Running(w)
        /\ UNCHANGED <<cpc, ctask, need, submitted, shutdown>>
    BY <1>7 DEF RunTask, GotoW, Running, locals
  <2>2. Callers' = Callers /\ Adders' = Adders
    BY <2>1 DEF Callers, Adders
  <2>3. Carrying' = Carrying \ {wtask[w]} /\ (wtask[w] \in Carrying <=> x = 1) /\ x \in {0, 1}
    BY <2>1 DEF Carrying, TaskInv
  <2> HIDE DEF x
  <2>4. Cardinality(Carrying') = b - x
    BY <1>0, <2>3, OneLess DEF b
  <2>5. keepAliveCount = 0 => x = 0
    BY <2>3, NoTokens
  <2> QED
    BY <1>0, <1>1, <2>1, <2>2, <2>3, <2>4, <2>5 DEF CountInv, OwnToken, a, d
<1>8. ASSUME NEW kind \in ShutdownKinds, Shutdown(kind) PROVE CountInv'
  <2>1. /\ shutdown = "none" /\ shutdown' = kind /\ kind # "none" /\ keepAliveCount' = keepAliveCount - 1
        /\ UNCHANGED <<ctask, need, submitted, done>> /\ cpc' = [cpc EXCEPT ![Manager] = "drain"]
    BY <1>8, ModeAssumption DEF Shutdown, Step, Goto, history
  <2>2. Callers' = Callers /\ Carrying' = Carrying /\ Adders' = Adders
    BY <1>1, <2>1 DEF Callers, Carrying, Adders
  <2> QED
    BY <1>0, <1>1, <2>1, <2>2 DEF CountInv, OwnToken, a, b, d
<1>9. ASSUME NEW p \in Producers, AddLoad(p) \/ AddEnqueue(p) \/ AddPost(p) PROVE CountInv'
  BY <1>1, <1>3, <1>9 DEF Deciding, AddLoad, AddEnqueue, AddPost, Step, Goto, locals, rest, life, history
<1>10. ASSUME NEW c \in Clients, ClientStep(c) \/ ClientLock(c) PROVE CountInv'
  <2>1. UNCHANGED <<keepAliveCount, ctask, need, submitted, done, shutdown>>
    BY <1>10
    DEF ClientStep, ClientLock, EnsureJoined, JoinOne, JoinDone, EnsureLoad, EnsureCheck,
        ThreadsStarted, TakeJoin, EnsureReturn, EnsureSpawn, ControlOnly, locals, rest, life, history
  <2>2. \A p \in Producers : /\ cpc'[p] = "idle" <=> cpc[p] = "idle"
                             /\ cpc'[p] \in Deciding <=> cpc[p] \in Deciding
    BY <1>1, <1>10
    DEF ClientStep, ClientLock, EnsureJoined, JoinOne, JoinDone, EnsureLoad, EnsureCheck,
        ThreadsStarted, TakeJoin, EnsureReturn, EnsureSpawn, AfterJoin, AfterEnsure, Step, Goto, Deciding
  <2>3. cpc[Manager] # "drain" \/ cpc'[Manager] = cpc[Manager]
    BY <1>1, <1>10
    DEF ClientStep, ClientLock, EnsureJoined, JoinOne, JoinDone, EnsureLoad, EnsureCheck,
        ThreadsStarted, TakeJoin, EnsureReturn, EnsureSpawn, Step, Goto
  <2> QED
    BY <1>3, <2>1, <2>2, <2>3
<1>11. CASE \/ ManagerStep \/ TakeOver
            \/ \E k \in Sizes : SetNumThreads(k)
            \/ \E o \in Observers : AddObserver(o) \/ RemoveObserver(o)
  <2>1. UNCHANGED <<keepAliveCount, ctask, need, submitted, done, shutdown>>
    BY <1>11
    DEF ManagerStep, StoreMax, ResizeDown, ResizeUp, PoisonEnqueue, PoisonPost, ResizeDownDone,
        ensureMaxActiveThreads, KeepAliveJoined, TakeOverDone, Destroy, TakeOver, SetNumThreads,
        AddObserver, RemoveObserver, ControlOnly, locals, rest, life, history
  <2>2. \A p \in Producers : cpc'[p] = cpc[p]
    BY <1>1, <1>11
    DEF ManagerStep, StoreMax, ResizeDown, ResizeUp, PoisonEnqueue, PoisonPost, ResizeDownDone,
        ensureMaxActiveThreads, KeepAliveJoined, TakeOverDone, Destroy, TakeOver, SetNumThreads,
        AddObserver, RemoveObserver, Step, Goto
  <2>3. cpc[Manager] # "drain" \/ keepAliveCount = 0 \/ cpc'[Manager] = cpc[Manager]
    BY <1>1, <1>11
    DEF ManagerStep, StoreMax, ResizeDown, ResizeUp, PoisonEnqueue, PoisonPost, ResizeDownDone,
        ensureMaxActiveThreads, KeepAliveJoined, TakeOverDone, Destroy, TakeOver, SetNumThreads,
        AddObserver, RemoveObserver, Step
  <2> QED
    BY <1>3, <2>1, <2>2, <2>3
<1>12. ASSUME NEW w \in Workers, WorkerStep(w) \/ WorkerLock(w) \/ SemTimeout(w), ~RunTask(w)
       PROVE  CountInv'
  <2>1. UNCHANGED <<keepAliveCount, cpc, ctask, need, submitted, done, shutdown>>
    BY <1>12
    DEF WorkerStep, WorkerLock, Start, SemTake, SemWait, SemTimeout, Dequeue, AfterTask,
        TimeoutUndo, Retire, StopAfterTask, StopIdle, Stay, TimeoutBegin, WorkerControlOnly,
        locals, rest, life, history
  <2> QED
    BY <1>3, <2>1
<1>13. CASE UNCHANGED vars
  BY <1>3, <1>13 DEF vars, locals, rest, life, history
<1> QED
  BY <1>4, <1>5, <1>6, <1>7, <1>8, <1>9, <1>10, <1>11, <1>12, <1>13
  DEF Next, Environment, AddStep, Terminated

\* What every step of the pool keeps true.
PoolInv == TypeInv /\ LedgerInv /\ LockInv /\ AccountInv /\ ControlInv /\ TaskInv /\ CountInv

LEMMA PoolInvariant == Spec => []PoolInv
<1>1. Init => PoolInv
  BY TypeInit, LedgerInit, LockInit, AccountInit, ControlInit, TaskInit, CountInit DEF PoolInv
<1>2. PoolInv /\ [Next]_vars => PoolInv'
  BY TypeStep, LedgerStep, LockStep, AccountStep, ControlStep, TaskStep, CountStep DEF PoolInv
<1> QED
  BY <1>1, <1>2, PTL DEF Spec

(***************************************************************************)
(* The owner gets past joinKeepAlive only when every task that carries a   *)
(* token has run and no producer is in the part of add() that the token of *)
(* addImpl protects: keepAliveCount_ counts the caller's token until add() *)
(* returns or hands it to the task, the task's until it has run, and       *)
(* addImpl's own until it releases it.                                     *)
(***************************************************************************)
THEOREM OwnerWaitsForTokens == Spec => []KeepAliveProtects
<1>1. PoolInv => KeepAliveProtects
  <2> SUFFICES ASSUME PoolInv, cpc[Manager] \in {"takeOver", "returned", "destroyed"}
               PROVE  /\ KATasks \cap submitted \subseteq done
                      /\ \A p \in Producers : need[p] => cpc[p] = "idle"
    BY DEF KeepAliveProtects
  <2>1. shutdown # "none"
    BY DEF PoolInv, LockInv, ControlInv, TypeInv, TypeOK, Ops, FinalOps, Ensuring
  <2>2. keepAliveCount = 0
    BY <2>1 DEF PoolInv, CountInv
  <2> QED
    BY <2>2, NoTokens DEF PoolInv, Carrying
<1> QED
  BY <1>1, PoolInvariant, PTL

\* A task is run at most once, and only if it was given to add(): the queue hands each
\* item to one worker, and neither add() nor a worker keeps a second copy.
THEOREM RunsOnce ==
  Spec => [][\A w \in Workers : RunTask(w) => wtask[w] \in submitted \ done]_vars
<1>1. PoolInv => \A w \in Workers : RunTask(w) => wtask[w] \in submitted \ done
  BY DEF PoolInv, TaskInv, Running, RunTask, GotoW
<1> QED
  BY <1>1, PoolInvariant, PTL

---------------------------------------------------------------------------
(* After stop(), join() or the destructor took over *)

Closed ==
  op \in FinalOps /\ cpc[Manager] \in {"poison", "poisonPost", "join", "returned", "destroyed"}

\* No thread starts or retires any more, and once the poison pills are out the owner
\* has claimed every join there was.
ClosedInv ==
  Closed =>
    /\ activeThreads = 0
    /\ \A w \in Workers : wpc[w] # "retire"
    /\ cpc[Manager] \in {"join", "returned", "destroyed"} => threadsToJoin = 0

LEMMA ClosedStep == PoolInv /\ PoolInv' /\ ClosedInv /\ [Next]_vars => ClosedInv'
<1> SUFFICES ASSUME PoolInv, PoolInv', ClosedInv, [Next]_vars, Closed' PROVE ClosedInv'
  BY DEF ClosedInv
<1>0. /\ TypeInv /\ LockInv /\ ControlInv /\ TaskInv /\ CountInv /\ ControlInv' /\ LockInv'
      /\ cpc \in [Clients -> ClientPCs] /\ wpc \in [Workers -> WorkerPCs]
      /\ Producers \subseteq Clients /\ Manager \in Clients /\ Manager \notin Producers
      /\ activeThreads \in Nat /\ minThreads \in Nat
  BY ClientsAssumption DEF PoolInv, TypeInv, TypeOK, Clients
<1> DEFINE Claiming == {"join", "returned", "destroyed"}
\* A step that leaves the counts alone.
<1>1. ASSUME Closed, UNCHANGED <<activeThreads, threadsToJoin>>,
             \A w \in Workers : wpc'[w] = "retire" => wpc[w] = "retire",
             cpc'[Manager] \in Claiming => cpc[Manager] \in Claiming
      PROVE  ClosedInv'
  BY <1>1 DEF ClosedInv
\* No producer can start a thread: that would take a token.
<1>2. ASSUME Closed, NEW p \in Producers PROVE cpc[p] \in {"idle", "post", "release"}
  <2>1. shutdown # "none" /\ cpc[Manager] # "drain"
    BY <1>0, <1>2 DEF Closed, LockInv, FinalOps
  <2>2. keepAliveCount = 0
    BY <1>0, <2>1 DEF CountInv
  <2> QED
    BY <1>0, <2>2, NoTokens
<1>3. CASE TakeOver
  <2>1. activeThreads' = 0 /\ wpc' = wpc /\ Unlocked /\ cpc'[Manager] = "poison"
    BY <1>0, <1>3 DEF TakeOver, workers, Step, Goto
  <2>2. \A w \in Workers : wpc[w] # "retire"
    BY <1>0, <2>1, ClientsAssumption DEF Unlocked, LockInv
  <2> QED
    BY <2>1, <2>2 DEF ClosedInv
<1>4. CASE TakeOverDone
  <2>1. Closed /\ UNCHANGED <<activeThreads, wpc>> /\ threadsToJoin' = 0
    BY <1>4 DEF TakeOverDone, Closed, FinalOps, Step, sizing, workers
  <2> QED
    BY <2>1 DEF ClosedInv
<1>5. ASSUME NEW c \in Clients, ClientStep(c) \/ ClientLock(c) PROVE ClosedInv'
  <2>1. op' = op
    BY <1>5
    DEF ClientStep, ClientLock, EnsureJoined, JoinOne, JoinDone, EnsureLoad, EnsureCheck,
        ThreadsStarted, TakeJoin, EnsureReturn, EnsureSpawn, ControlOnly, locals
  <2>2. CASE c \in Producers
    <3>1. cpc'[Manager] = cpc[Manager]
      BY <1>0, <1>5, <2>2
      DEF ClientStep, ClientLock, EnsureJoined, JoinOne, JoinDone, EnsureLoad, EnsureCheck,
          ThreadsStarted, TakeJoin, EnsureReturn, EnsureSpawn, Step, Goto
    <3>2. Closed
      BY <2>1, <3>1 DEF Closed
    <3>3. cpc[c] \in Ensuring
      BY <1>5
      DEF ClientStep, ClientLock, EnsureJoined, JoinOne, JoinDone, EnsureLoad, EnsureCheck,
          ThreadsStarted, TakeJoin, EnsureReturn, EnsureSpawn, Step, Ensuring
    <3> QED
      BY <1>2, <2>2, <3>2, <3>3 DEF Ensuring
  <2>3. CASE c = Manager
    <3>1. cpc[Manager] \in Ensuring
      BY <1>5, <2>3
      DEF ClientStep, ClientLock, EnsureJoined, JoinOne, JoinDone, EnsureLoad, EnsureCheck,
          ThreadsStarted, TakeJoin, EnsureReturn, EnsureSpawn, Step, Ensuring
    <3>2. op \in FinalOps
      BY <2>1 DEF Closed
    <3>3. cpc[Manager] = "join"
      BY <1>0, <3>1, <3>2 DEF ControlInv, Ensuring
    <3>4. JoinOne(Manager) \/ JoinDone(Manager)
      BY <1>5, <2>3, <3>3
      DEF ClientStep, ClientLock, EnsureJoined, EnsureLoad, EnsureCheck, ThreadsStarted, TakeJoin,
          EnsureReturn, EnsureSpawn, Step
    <3>5. UNCHANGED <<activeThreads, threadsToJoin, wpc>>
      BY <3>4 DEF JoinOne, JoinDone, ControlOnly, pool, sizing, leaving, workers
    <3> QED
      BY <1>1, <3>2, <3>3, <3>5 DEF Closed
  <2> QED
    BY <1>0, <2>2, <2>3 DEF Clients
<1>6. ASSUME NEW p \in Producers, AddStep(p) \/ \E t \in Tasks : AddBegin(p, t) PROVE ClosedInv'
  <2>1. /\ UNCHANGED <<op, activeThreads, threadsToJoin>> /\ cpc'[Manager] = cpc[Manager]
    BY <1>0, <1>6
    DEF AddStep, AddBegin, AddLoad, AddDecide, AddEnqueue, AddPost, AddRelease, pool, sizing, leaving,
        locals, Step, Goto
  <2>2. \A w \in Workers : wpc'[w] = "retire" => wpc[w] = "retire"
    BY <1>0, <1>6
    DEF AddStep, AddBegin, AddLoad, AddDecide, AddEnqueue, AddPost, AddRelease, PostWakes, PostKeeps,
        workers
  <2> QED
    BY <1>1, <2>1, <2>2 DEF Closed
\* The manager's other calls are over, or not yet that far.
<1>7. CASE \/ StoreMax \/ ResizeDown \/ ResizeUp \/ ResizeDownDone \/ ensureMaxActiveThreads
           \/ KeepAliveJoined \/ Destroy
           \/ \E k \in Sizes : SetNumThreads(k)
           \/ \E o \in Observers : AddObserver(o)
           \/ \E kind \in ShutdownKinds : Shutdown(kind)
  <2>1. ~Closed'
    BY <1>0, <1>7
    DEF StoreMax, ResizeDown, ResizeUp, ResizeDownDone, ensureMaxActiveThreads, KeepAliveJoined,
        Destroy, SetNumThreads, AddObserver, Shutdown, ControlOnly, locals, Step, Goto, Closed, LockInv,
        FinalOps
  <2> QED
    BY <2>1
<1>8. ASSUME NEW o \in Observers, RemoveObserver(o) PROVE ClosedInv'
  <2>1. ~Closed'
    BY <1>8 DEF RemoveObserver, locals, Closed
  <2> QED
    BY <2>1
<1>9. CASE PoisonEnqueue \/ PoisonPost
  <2>1. UNCHANGED <<op, activeThreads, threadsToJoin>>
    BY <1>9 DEF PoisonEnqueue, PoisonPost, pool, sizing, leaving, locals
  <2>2. cpc[Manager] \in {"poison", "poisonPost"} /\ cpc'[Manager] \in {"poison", "poisonPost"}
    BY <1>0, <1>9 DEF PoisonEnqueue, PoisonPost, Step, Goto
  <2>3. \A w \in Workers : wpc'[w] = "retire" => wpc[w] = "retire"
    BY <1>0, <1>9 DEF PoisonEnqueue, PoisonPost, PostWakes, PostKeeps, workers
  <2> QED
    BY <1>1, <2>1, <2>2, <2>3 DEF Closed
<1>10. ASSUME NEW w \in Workers, WorkerStep(w) \/ WorkerLock(w) \/ SemTimeout(w) PROVE ClosedInv'
  <2>1. UNCHANGED <<op, cpc>>
    BY <1>10
    DEF WorkerStep, WorkerLock, Start, SemTake, SemWait, SemTimeout, Dequeue, RunTask, AfterTask,
        TimeoutUndo, Retire, StopAfterTask, StopIdle, Stay, TimeoutBegin, WorkerControlOnly, locals
  <2>2. Closed
    BY <2>1 DEF Closed
  <2>3. activeThreads = 0 /\ \A v \in Workers : wpc[v] # "retire"
    BY <2>2 DEF ClosedInv
  <2>4. ~TimeoutUndo(w) /\ ~Retire(w) /\ ~TimeoutBegin(w)
    BY <1>0, <2>3 DEF TimeoutUndo, Retire, TimeoutBegin, GotoW, minActive
  <2>5. UNCHANGED <<activeThreads, threadsToJoin>>
    BY <1>10, <2>4
    DEF WorkerStep, WorkerLock, Start, SemTake, SemWait, SemTimeout, Dequeue, RunTask, AfterTask,
        StopAfterTask, StopIdle, Stay, WorkerControlOnly, pool, sizing, leaving
  <2>6. \A v \in Workers : wpc'[v] = "retire" => wpc[v] = "retire"
    BY <1>0, <1>10, <2>4
    DEF WorkerStep, WorkerLock, Start, SemTake, SemWait, SemTimeout, Dequeue, RunTask, AfterTask,
        StopAfterTask, StopIdle, Stay, Leave, GotoW
  <2> QED
    BY <1>1, <2>1, <2>2, <2>5, <2>6
<1>11. CASE UNCHANGED vars
  BY <1>1, <1>11 DEF vars, pool, sizing, leaving, workers, locals, Closed
<1> QED
  BY <1>3, <1>4, <1>5, <1>6, <1>7, <1>8, <1>9, <1>10, <1>11
  DEF Next, Environment, ManagerStep, Terminated

(***************************************************************************)
(* When stop(), join() or the destructor has returned, threadList_ and     *)
(* stoppedThreads_ are empty, and after the destructor threadsToStop_ is   *)
(* zero: the CHECKs of the code hold, because the owner's debt covers the  *)
(* threads it found, those that had retired before and those an earlier    *)
(* setNumThreads had told to stop, and no producer can start another.      *)
(***************************************************************************)
THEOREM NothingLeftBehind == Spec => []StopChecks
<1>1. Init => ClosedInv
  BY DEF Init, ClosedInv, Closed, FinalOps
<1>2. PoolInv /\ ClosedInv => StopChecks
  <2> SUFFICES ASSUME PoolInv, ClosedInv, cpc[Manager] \in {"returned", "destroyed"}
               PROVE  threadList = {} /\ stoppedThreads = 0 /\ threadsToStop = 0
    BY DEF StopChecks
  <2>0. /\ TypeInv /\ LockInv /\ ControlInv /\ TaskInv /\ CountInv /\ LedgerInv /\ AccountInv
        /\ owed \in [Clients -> Nat] /\ threadList \subseteq Workers
        /\ threadListLock \in Clients \cup Workers \cup {NoOne}
        /\ stoppedThreads \in Nat /\ threadsToStop \in Nat /\ op \in Ops
    BY DEF PoolInv, TypeInv, TypeOK
  <2>1. op \in FinalOps
    BY <2>0 DEF ControlInv, Ops, Ensuring, FinalOps
  <2>2. Closed /\ shutdown # "none"
    BY <2>0, <2>1 DEF Closed, LockInv, FinalOps
  <2>3. keepAliveCount = 0
    BY <2>0, <2>2 DEF CountInv
  <2>4. \A p \in Producers : cpc[p] \in {"idle", "post", "release"}
    BY <2>0, <2>3, NoTokens
  <2>5. \A c \in Clients : cpc[c] \in {"idle", "post", "release", "returned", "destroyed"}
    BY <2>4 DEF Clients
  <2>6. \A c \in Clients : owed[c] = 0
    BY <2>0, <2>5 DEF LedgerInv
  <2>7. Claims = {}
    <3>1. ASSUME NEW x PROVE x \notin Claims
      BY <2>6 DEF Claims, ClaimsOf
    <3> QED
      BY <3>1
  <2>8. threadsToJoin = 0 /\ activeThreads = 0 /\ \A w \in Workers : wpc[w] # "retire"
    BY <2>2 DEF ClosedInv
  <2>9. stoppedThreads = 0 /\ threadsToStop = 0
    <3>1. Cardinality(Claims) = 0
      BY <2>7, FS_EmptySet
    <3> QED
      BY <2>0, <2>8, <3>1 DEF LedgerInv, JoinLedger
  <2>10. Unlocked
    BY <2>0, <2>5, <2>8 DEF LockInv, LockPCs, Unlocked
  <2>11. accountedThreads = 0
    BY <2>0, <2>8, <2>10, AccountCasesHold DEF AccountCases
  <2>12. IsFiniteSet(threadList) /\ Cardinality(threadList) \in Nat
    BY <2>0, WorkersAssumption, FS_Subset, FS_CardinalityType
  <2>13. Cardinality(threadList) = 0
    BY <2>0, <2>9, <2>11, <2>12 DEF AccountInv, ThreadAccounting
  <2> QED
    BY <2>9, <2>12, <2>13, FS_EmptySet
<1> QED
  BY <1>1, <1>2, PoolInvariant, ClosedStep, PTL DEF Spec

---------------------------------------------------------------------------
(* Observers *)

\* Every observer was told of every thread in threadList_ once, except of those that
\* addThreads is starting; nobody else has heard of a thread that is there.
WatchInv ==
  /\ newThreads # {} => \E c \in Clients : cpc[c] = "startup"
  /\ \A o \in Observers, w \in threadList :
       watched[o][w] = IF o \in observers /\ w \notin newThreads THEN 1 ELSE 0

LEMMA WatchStep == PoolInv /\ PoolInv' /\ WatchInv /\ [Next]_vars => WatchInv'
<1> SUFFICES ASSUME PoolInv, PoolInv', WatchInv, [Next]_vars PROVE WatchInv'
  OBVIOUS
<1>0. /\ LockInv /\ cpc \in [Clients -> ClientPCs] /\ Manager \in Clients
      /\ observers \subseteq Observers /\ watched \in [Observers -> [Workers -> Int]]
      /\ threadList \subseteq Workers /\ newThreads \subseteq Workers
  BY DEF PoolInv, TypeInv, TypeOK, Clients
\* Whoever takes the lock, or holds it elsewhere, finds no thread starting.
<1>1. Unlocked \/ cpc[Manager] = "resized" => newThreads = {}
  <2>1. ASSUME NEW c \in Clients, cpc[c] = "startup" PROVE ~Unlocked /\ cpc[Manager] # "resized"
    BY <1>0, <2>1, ClientsAssumption DEF LockInv, LockPCs, Unlocked, Clients
  <2> QED
    BY <2>1 DEF WatchInv
<1>2. ASSUME UNCHANGED <<newThreads, threadList, observers, watched>>,
             \A c \in Clients : cpc[c] = "startup" => cpc'[c] = "startup"
      PROVE  WatchInv'
  BY <1>2 DEF WatchInv
<1>3. ASSUME NEW c \in Clients, ThreadsStarted(c) PROVE WatchInv'
  <2>1. /\ newThreads' = {} /\ UNCHANGED <<threadList, observers>>
        /\ tell(observers, newThreads, TRUE)
    BY <1>3 DEF ThreadsStarted, notifyStarted, workers
  <2> QED
    BY <1>0, <2>1, SMTT(30) DEF WatchInv, tell
<1>4. ASSUME NEW c \in Clients, newThreads = {}, NEW n, addThreads(n), UNCHANGED observers,
             cpc' = [cpc EXCEPT ![c] = "startup"]
      PROVE  WatchInv'
  <2>1. \A o \in Observers, w \in threadList' :
          watched'[o][w] = IF o \in observers /\ w \notin newThreads' THEN 1 ELSE 0
    <3>1. PICK S \in SUBSET WorkerAt({"none"}) :
            /\ newThreads' = S /\ threadList' = threadList \cup S
            /\ watched' = [o \in Observers |->
                            [w \in Workers |-> IF w \in S THEN 0 ELSE watched[o][w]]]
      BY <1>4 DEF addThreads
    <3>2. S \subseteq Workers /\ S \cap threadList = {}
      BY <1>0 DEF LockInv, WorkerAt
    <3> QED
      BY <1>0, <1>4, <3>1, <3>2 DEF WatchInv
  <2>2. cpc'[c] = "startup"
    BY <1>0, <1>4
  <2> QED
    BY <1>4, <2>1, <2>2 DEF WatchInv
<1>5. ASSUME NEW c \in Clients, EnsureSpawn(c) PROVE WatchInv'
  BY <1>1, <1>4, <1>5 DEF EnsureSpawn, Step, Goto
<1>6. CASE ResizeUp
  BY <1>0, <1>1, <1>4, <1>6 DEF ResizeUp, Step, Goto
<1>7. ASSUME NEW o \in Observers, AddObserver(o) PROVE WatchInv'
  <2>1. /\ newThreads' = newThreads /\ threadList' = threadList /\ newThreads = {}
        /\ o \notin observers /\ observers' = observers \cup {o} /\ tell({o}, threadList, TRUE)
    BY <1>1, <1>7 DEF AddObserver, pool, held, workers
  <2> QED
    BY <1>0, <2>1, SMTT(30) DEF WatchInv, tell
<1>8. ASSUME NEW o \in Observers, RemoveObserver(o) PROVE WatchInv'
  <2>1. /\ newThreads' = newThreads /\ threadList' = threadList /\ newThreads = {} /\ cpc' = cpc
        /\ o \in observers /\ observers' = observers \ {o} /\ tell({o}, threadList, FALSE)
    BY <1>1, <1>8 DEF RemoveObserver, pool, held, workers
  <2> QED
    BY <1>0, <2>1, SMTT(30) DEF WatchInv, tell
<1>9. ASSUME NEW w \in Workers, StopIdle(w) \/ Retire(w) PROVE WatchInv'
  <2>1. /\ newThreads' = newThreads /\ threadList' = threadList \ {w} /\ UNCHANGED <<cpc, observers>>
        /\ tell(observers, {w}, FALSE)
    BY <1>9 DEF StopIdle, Retire, Leave, notifyStopped, held
  <2> QED
    BY <1>0, <2>1, SMTT(30) DEF WatchInv, tell
\* Stopped after a task; the observers are not told, and keep it in their books.
<1>10. ASSUME NEW w \in Workers, StopAfterTask(w) PROVE WatchInv'
  <2>1. /\ newThreads' = newThreads /\ threadList' = threadList \ {w}
        /\ UNCHANGED <<cpc, observers, watched>>
    BY <1>10 DEF StopAfterTask, Leave, held, rest, obs
  <2> QED
    BY <2>1 DEF WatchInv
<1>11. ASSUME NEW c \in Clients,
             \/ EnsureJoined(c) \/ JoinOne(c) \/ JoinDone(c) \/ EnsureLoad(c)
             \/ EnsureCheck(c) \/ TakeJoin(c) \/ EnsureReturn(c)
       PROVE  WatchInv'
  BY <1>0, <1>2, <1>11
  DEF EnsureJoined, JoinOne, JoinDone, EnsureLoad, EnsureCheck, TakeJoin, EnsureReturn,
      ControlOnly, pool, held, workers, rest, obs, Step, Goto
<1>12. ASSUME NEW p \in Producers, AddStep(p) \/ \E t \in Tasks : AddBegin(p, t) PROVE WatchInv'
  BY <1>0, <1>2, <1>12
  DEF AddStep, AddBegin, AddLoad, AddDecide, AddEnqueue, AddPost, AddRelease, pool, held, workers, rest,
      obs, Step, Goto
<1>13. CASE \/ StoreMax \/ ResizeDown \/ PoisonEnqueue \/ PoisonPost \/ ResizeDownDone
            \/ ensureMaxActiveThreads \/ KeepAliveJoined \/ TakeOver \/ TakeOverDone \/ Destroy
            \/ \E k \in Sizes : SetNumThreads(k)
            \/ \E kind \in ShutdownKinds : Shutdown(kind)
  BY <1>0, <1>2, <1>13
  DEF StoreMax, ResizeDown, PoisonEnqueue, PoisonPost, ResizeDownDone, ensureMaxActiveThreads,
      KeepAliveJoined, TakeOver, TakeOverDone, Destroy, SetNumThreads, Shutdown, ControlOnly,
      pool, held, workers, rest, obs, Step, Goto
<1>14. ASSUME NEW w \in Workers,
              \/ Start(w) \/ SemTake(w) \/ SemWait(w) \/ SemTimeout(w) \/ Dequeue(w)
              \/ RunTask(w) \/ AfterTask(w) \/ TimeoutUndo(w) \/ Stay(w) \/ TimeoutBegin(w)
       PROVE  WatchInv'
  BY <1>2, <1>14
  DEF Start, SemTake, SemWait, SemTimeout, Dequeue, RunTask, AfterTask, TimeoutUndo, Stay,
      TimeoutBegin, WorkerControlOnly, pool, held, rest, obs
<1>15. CASE UNCHANGED vars
  BY <1>2, <1>15 DEF vars, pool, held, workers, rest, obs
<1> QED
  BY <1>3, <1>5, <1>6, <1>7, <1>8, <1>9, <1>10, <1>11, <1>12, <1>13, <1>14, <1>15
  DEF Next, Environment, ClientStep, ClientLock, ManagerStep, WorkerStep, WorkerLock, Terminated

\* With observers and without idle timeouts the pool is at its maximum whenever the
\* manager is in none of its calls: who holds the lock is about to make it so, or
\* starts a thread only while there is room for it.
FullInv ==
  /\ \A w \in Workers : wpc[w] \notin {"timedout", "retire"}
  /\ \A c \in Clients : cpc[c] = "startup" /\ ~(c = Manager /\ op = "resize")
                          => target = activeThreads + 1 /\ target <= maxThreads
  /\ op = "resize" /\ cpc[Manager] \in {"poison", "poisonPost"} => target = maxThreads
  /\ observers # {} /\ op = "resize" /\ cpc[Manager] = "startup" => target = maxThreads
  /\ observers # {} /\ (cpc[Manager] = "idle" \/ (cpc[Manager] = "join" /\ op = "resize"))
       => activeThreads = maxThreads

LEMMA FullStep ==
  ~Timeouts /\ PoolInv /\ PoolInv' /\ FullInv /\ [Next]_vars => FullInv'
<1> SUFFICES ASSUME ~Timeouts, PoolInv, PoolInv', FullInv, [Next]_vars PROVE FullInv'
  OBVIOUS
<1>0. /\ LockInv /\ LockInv' /\ ControlInv /\ ControlInv'
      /\ cpc \in [Clients -> ClientPCs] /\ wpc \in [Workers -> WorkerPCs] /\ op \in Ops
      /\ Producers \subseteq Clients /\ Manager \in Clients /\ Manager \notin Producers
      /\ activeThreads \in Nat /\ maxThreads \in Nat /\ minThreads \in Nat /\ target \in Nat
  BY ClientsAssumption DEF PoolInv, TypeInv, TypeOK, Clients
\* Only the holder of the lock is starting a thread.
<1>1. \A c, e \in Clients : cpc[c] = "startup" /\ cpc[e] \in LockPCs => c = e
  BY <1>0 DEF LockInv, LockPCs
<1>2. Unlocked => \A c \in Clients : cpc[c] \notin LockPCs
  BY <1>0, ClientsAssumption DEF LockInv, Unlocked, Clients
<1>3. activeThreads <= maxThreads \/ cpc[Manager] \in {"resize", "resized", "poison", "poisonPost", "startup"}
  <2>1. CASE \E c \in Producers : cpc[c] = "startup"
    BY <1>0, <2>1 DEF FullInv
  <2>2. CASE \A c \in Producers : cpc[c] # "startup"
    <3>1. \/ cpc[Manager] \in {"resize", "resized", "poison", "poisonPost", "startup"}
          \/ \A c \in Clients : cpc[c] \notin {"startup", "poison", "poisonPost"}
      <4>1. \A c \in Producers : cpc[c] \notin {"poison", "poisonPost"}
        BY <1>0 DEF ControlInv, Adding, Deciding, Ensuring
      <4> QED
        BY <2>2, <4>1 DEF Clients
    <3>2. ASSUME \A c \in Clients : cpc[c] \notin {"startup", "poison", "poisonPost"}
          PROVE  accountedThreads = activeThreads
      BY <1>0, <3>2 DEF accountedThreads, FullInv
    <3> QED
      BY <3>1, <3>2 DEF PoolInv, AccountInv, resizing
  <2> QED
    BY <2>1, <2>2
\* A step of a client that leaves the counts alone, and one of a worker.
<1>4. ASSUME UNCHANGED <<target, activeThreads, maxThreads, op, observers>>,
             \A w \in Workers : wpc'[w] \notin {"timedout", "retire"},
             NEW c \in Clients, NEW to, to # "startup", cpc' = [cpc EXCEPT ![c] = to],
             c = Manager => /\ to = "idle" \/ (to = "join" /\ op = "resize") =>
                                 \/ cpc[Manager] = "join" /\ op = "resize"
                                 \/ activeThreads = maxThreads
                            /\ to \in {"poison", "poisonPost"} => cpc[Manager] \in {"poison", "poisonPost"}
      PROVE  FullInv'
  BY <1>0, <1>4 DEF FullInv
<1>5. ASSUME UNCHANGED <<target, activeThreads, maxThreads, op, observers, cpc>>,
             \A w \in Workers : wpc'[w] \notin {"timedout", "retire"}
      PROVE  FullInv'
  BY <1>5 DEF FullInv
<1>6. ASSUME NEW c \in Clients,
             \/ EnsureJoined(c) \/ JoinOne(c) \/ EnsureLoad(c) \/ EnsureCheck(c) \/ TakeJoin(c)
             \/ EnsureReturn(c) \/ JoinDone(c)
      PROVE  FullInv'
  <2>1. UNCHANGED <<target, activeThreads, maxThreads, op, observers, wpc>>
    BY <1>6
    DEF EnsureJoined, JoinOne, JoinDone, EnsureLoad, EnsureCheck, TakeJoin, EnsureReturn,
        ControlOnly, pool, sizing, held, workers, locals, rest, obs
  <2>2. CASE \/ EnsureJoined(c) \/ EnsureLoad(c) \/ EnsureCheck(c) \/ EnsureReturn(c)
    <3>1. PICK to \in {"takeJoin", "ensureLoad", "ensureCheck", "ensureLock", AfterEnsure(c)} :
            cpc' = [cpc EXCEPT ![c] = to]
      BY <2>2 DEF EnsureJoined, EnsureLoad, EnsureCheck, EnsureReturn, Step, Goto
    <3>2. to # "startup" /\ (c = Manager => to \notin {"idle", "join", "poison", "poisonPost"})
      BY <3>1 DEF AfterEnsure
    <3>3. \A w \in Workers : wpc'[w] \notin {"timedout", "retire"}
      BY <2>1 DEF FullInv
    <3> QED
      BY ONLY <1>4, <2>1, <3>1, <3>2, <3>3
  <2>3. CASE TakeJoin(c) \/ JoinOne(c)
    <3>1. cpc' = [cpc EXCEPT ![c] = "join"] /\ cpc[c] \in {"takeJoin", "join"}
      BY <1>0, <2>3 DEF TakeJoin, JoinOne, Step, Goto
    <3>2. c = Manager /\ op = "resize" => cpc[Manager] = "join"
      BY <1>0, <3>1 DEF ControlInv
    <3> QED
      BY <1>4, <2>1, <3>1, <3>2 DEF FullInv
  <2>4. CASE JoinDone(c)
    <3>1. cpc' = [cpc EXCEPT ![c] = AfterJoin(c)] /\ cpc[c] = "join"
      BY <2>4 DEF JoinDone, Step, Goto
    <3>2. /\ AfterJoin(c) \in {"ensureLoad", "returned", "destroyed", "idle"}
          /\ c = Manager /\ AfterJoin(c) = "idle" => op \in {"none", "resize"}
      BY <1>0 DEF AfterJoin, Ops
    <3>3. c = Manager /\ AfterJoin(c) = "idle" => op = "resize"
      BY <1>0, <3>1, <3>2 DEF ControlInv
    <3> QED
      BY <1>4, <2>1, <3>1, <3>2, <3>3 DEF FullInv
  <2> QED
    BY <1>6, <2>2, <2>3, <2>4
<1>7. ASSUME NEW c \in Clients, ThreadsStarted(c) PROVE FullInv'
  <2>1. /\ cpc[c] = "startup" /\ activeThreads' = target
        /\ UNCHANGED <<maxThreads, observers, op, wpc>>
    BY <1>7 DEF ThreadsStarted, Step, workers, locals
  <2>2. cpc' = [cpc EXCEPT ![c] = IF c = Manager /\ op = "resize" THEN "join" ELSE AfterEnsure(c)]
    BY <1>7 DEF ThreadsStarted, Step, Goto
  <2>3. \A e \in Clients : e # c => cpc'[e] = cpc[e] /\ cpc'[e] \notin LockPCs
    BY <1>0, <1>1, <2>1, <2>2
  <2>4. cpc'[c] \in {"join", "ensureMax", "release"} /\ (cpc'[c] = "join" => c = Manager /\ op = "resize")
    BY <1>0, <2>2 DEF AfterEnsure
  <2>5. \A e \in Clients : cpc'[e] \notin LockPCs
    BY <2>3, <2>4 DEF LockPCs
  <2>6. CASE c = Manager
    BY <1>0, <2>1, <2>4, <2>5, <2>6 DEF FullInv, LockPCs
  <2>7. CASE c # Manager
    <3>1. activeThreads < maxThreads /\ cpc'[Manager] = cpc[Manager]
      BY <1>0, <2>1, <2>3, <2>7 DEF FullInv
    <3> QED
      BY <1>0, <2>1, <2>5, <3>1 DEF FullInv, LockPCs
  <2> QED
    BY <2>6, <2>7
<1>8. ASSUME NEW c \in Clients, EnsureSpawn(c) PROVE FullInv'
  <2>1. /\ cpc[c] = "ensureLock" /\ cpc' = [cpc EXCEPT ![c] = "startup"] /\ Unlocked
        /\ activeThreads < maxThreads /\ target' = activeThreads + 1
        /\ UNCHANGED <<activeThreads, maxThreads, observers, op>>
    BY <1>8 DEF EnsureSpawn, roomForThread, Step, Goto, sizing, locals, rest, obs
  <2>2. \A w \in Workers : wpc'[w] \notin {"timedout", "retire"}
    BY <1>8 DEF EnsureSpawn, addThreads, FullInv
  <2>3. c = Manager => op # "resize"
    BY <1>0, <2>1 DEF ControlInv
  <2>4. \A e \in Clients : cpc[e] \notin LockPCs
    BY <1>2, <2>1
  <2> QED
    BY <1>0, <2>1, <2>2, <2>3, <2>4 DEF FullInv, LockPCs
<1>9. CASE ResizeUp
  <2>1. /\ cpc[Manager] = "resized" /\ cpc' = [cpc EXCEPT ![Manager] = "startup"]
        /\ maxThreads' = target /\ UNCHANGED <<activeThreads, observers, op>> /\ activeThreads <= target
    BY <1>9 DEF ResizeUp, Step, Goto, locals, PoolInv, AccountInv, resizing
  <2>2. \A w \in Workers : wpc'[w] \notin {"timedout", "retire"}
    BY <1>9 DEF ResizeUp, addThreads, FullInv
  <2>3. minThreads' \in Nat /\ minThreads' <= target
    BY <1>0, <1>9 DEF ResizeUp, Smaller
  <2>4. observers # {} => target' = target
    BY <1>0, <1>9, <2>1, <2>3 DEF ResizeUp, numToAdd
  <2>5. op = "resize"
    BY <1>0, <2>1 DEF LockInv
  <2>6. \A e \in Clients : e # Manager => cpc'[e] # "startup"
    BY <1>0, <1>1, <2>1 DEF LockPCs
  <2> QED
    BY <1>0, <2>1, <2>2, <2>4, <2>5, <2>6 DEF FullInv
<1>10. CASE ResizeDown
  <2>1. /\ cpc[Manager] = "resized" /\ cpc' = [cpc EXCEPT ![Manager] = "poison"]
        /\ maxThreads' = target /\ UNCHANGED <<activeThreads, target, observers, op, wpc>>
    BY <1>10 DEF ResizeDown, Step, Goto, workers, rest, obs, PoolInv, AccountInv, resizing
  <2>2. \A e \in Clients : cpc'[e] # "startup"
    BY <1>0, <1>1, <2>1 DEF LockPCs
  <2> QED
    BY <1>0, <2>1, <2>2 DEF FullInv
<1>11. CASE ResizeDownDone
  <2>1. /\ cpc[Manager] = "poison" /\ cpc' = [cpc EXCEPT ![Manager] = "join"] /\ op = "resize"
        /\ activeThreads' = target /\ UNCHANGED <<maxThreads, observers, op, wpc>>
    BY <1>11 DEF ResizeDownDone, Step, Goto, workers, locals, rest, obs
  <2>2. \A e \in Clients : cpc'[e] # "startup"
    BY <1>0, <1>1, <2>1 DEF LockPCs
  <2> QED
    BY <1>0, <2>1, <2>2 DEF FullInv
<1>12. CASE PoisonEnqueue \/ PoisonPost
  <2>1. /\ UNCHANGED <<target, activeThreads, maxThreads, op, observers>>
        /\ \A w \in Workers : wpc'[w] \notin {"timedout", "retire"}
    BY <1>0, <1>12
    DEF PoisonEnqueue, PoisonPost, PostWakes, PostKeeps, pool, sizing, held, workers, locals,
        rest, obs, FullInv
  <2>2. PICK to \in {"poison", "poisonPost"} :
          cpc[Manager] \in {"poison", "poisonPost"} /\ cpc' = [cpc EXCEPT ![Manager] = to]
    BY <1>12 DEF PoisonEnqueue, PoisonPost, Step, Goto
  <2> QED
    BY <1>0, <1>4, <2>1, <2>2
<1>13. CASE ensureMaxActiveThreads
  <2>1. UNCHANGED <<target, activeThreads, maxThreads, op, observers, wpc>> /\ cpc[Manager] = "ensureMax"
    BY <1>13 DEF ensureMaxActiveThreads, Step, ControlOnly, pool, sizing, held, workers, locals, rest, obs
  <2>2. cpc' = [cpc EXCEPT ![Manager] = IF activeThreads < maxThreads THEN "ensureJoined" ELSE "idle"]
    BY <1>13 DEF ensureMaxActiveThreads, Step, Goto
  <2>3. activeThreads <= maxThreads
    BY <1>3, <2>1
  <2> QED
    BY <1>0, <1>4, <2>1, <2>2, <2>3 DEF FullInv
<1>14. CASE KeepAliveJoined \/ TakeOverDone
  <2>1. /\ UNCHANGED <<target, activeThreads, maxThreads, op, observers, wpc>>
        /\ op \in FinalOps
    BY <1>0, <1>14
    DEF KeepAliveJoined, TakeOverDone, ControlOnly, pool, sizing, held, workers, locals, rest,
        obs, Step, LockInv, FinalOps
  <2>2. PICK to \in {"takeOver", "join"} : cpc' = [cpc EXCEPT ![Manager] = to]
    BY <1>14 DEF KeepAliveJoined, TakeOverDone, Step, Goto
  <2> QED
    BY <1>0, <1>4, <2>1, <2>2 DEF FullInv, FinalOps
<1>15. CASE TakeOver
  <2>1. /\ cpc[Manager] = "takeOver" /\ cpc' = [cpc EXCEPT ![Manager] = "poison"] /\ Unlocked
        /\ UNCHANGED <<op, wpc>>
    BY <1>15 DEF TakeOver, Step, Goto, workers
  <2>2. \A e \in Clients : cpc'[e] # "startup"
    BY <1>0, <1>2, <2>1 DEF LockPCs
  <2>3. op # "resize"
    BY <1>0, <2>1 DEF LockInv
  <2> QED
    BY <1>0, <2>1, <2>2, <2>3 DEF FullInv
\* The beginnings of the manager's calls, and the destructor after stop() or join().
<1>16. CASE \/ Destroy
            \/ \E k \in Sizes : SetNumThreads(k)
            \/ \E o \in Observers : AddObserver(o)
            \/ \E kind \in ShutdownKinds : Shutdown(kind)
  <2>1. UNCHANGED <<activeThreads, maxThreads, wpc>>
    BY <1>16 DEF Destroy, SetNumThreads, AddObserver, Shutdown, pool, sizing, workers
  <2>2. PICK to \in {"takeOver", "resize", "ensureMax", "drain"} : cpc' = [cpc EXCEPT ![Manager] = to]
    BY <1>16 DEF Destroy, SetNumThreads, AddObserver, Shutdown, Step, Goto
  <2>3. target' = target \/ \A e \in Clients : cpc[e] # "startup"
    BY <1>2, <1>16 DEF Destroy, SetNumThreads, AddObserver, Shutdown, pool, held, LockPCs
  <2> QED
    BY <1>0, <2>1, <2>2, <2>3 DEF FullInv
<1>17. ASSUME NEW o \in Observers, RemoveObserver(o) PROVE FullInv'
  <2>1. /\ UNCHANGED <<target, activeThreads, maxThreads, op, cpc, wpc>>
        /\ observers' = observers \ {o}
    BY <1>17 DEF RemoveObserver, pool, sizing, held, workers, locals
  <2> QED
    BY <2>1 DEF FullInv
<1>18. ASSUME NEW p \in Producers, AddStep(p) \/ \E t \in Tasks : AddBegin(p, t) PROVE FullInv'
  <2>1. /\ UNCHANGED <<target, activeThreads, maxThreads, op, observers>>
        /\ \A w \in Workers : wpc'[w] \notin {"timedout", "retire"}
    BY <1>0, <1>18
    DEF AddStep, AddBegin, AddLoad, AddDecide, AddEnqueue, AddPost, AddRelease, PostWakes, PostKeeps,
        pool, sizing, held, workers, locals, rest, obs, FullInv
  <2>2. PICK to \in Deciding \cup {"enqueue", "post", "release", "ensureJoined", "idle"} :
          cpc' = [cpc EXCEPT ![p] = to]
    BY <1>18
    DEF AddStep, AddBegin, AddLoad, AddDecide, AddEnqueue, AddPost, AddRelease, Step, Goto, Deciding
  <2>3. to # "startup" /\ p \in Clients /\ p # Manager
    BY <1>0, <2>2 DEF Deciding
  <2> QED
    BY ONLY <1>4, <2>1, <2>2, <2>3
<1>19. ASSUME NEW w \in Workers, WorkerStep(w) \/ WorkerLock(w) \/ SemTimeout(w) PROVE FullInv'
  <2>1. ~SemTimeout(w) /\ ~TimeoutBegin(w) /\ ~TimeoutUndo(w) /\ ~Retire(w)
    BY DEF SemTimeout, TimeoutBegin, TimeoutUndo, Retire, GotoW, FullInv
  <2>2. UNCHANGED <<target, activeThreads, maxThreads, op, observers, cpc>>
    BY <1>19, <2>1
    DEF WorkerStep, WorkerLock, Start, SemTake, SemWait, Dequeue, RunTask, AfterTask,
        StopAfterTask, StopIdle, Stay, WorkerControlOnly, pool, sizing, held, locals, rest, obs
  <2>3. \A v \in Workers : wpc'[v] \notin {"timedout", "retire"}
    BY <1>0, <1>19, <2>1
    DEF WorkerStep, WorkerLock, Start, SemTake, SemWait, Dequeue, RunTask, AfterTask,
        StopAfterTask, StopIdle, Stay, Leave, GotoW, FullInv
  <2> QED
    BY <1>5, <2>2, <2>3
<1>20. CASE StoreMax
  <2>1. /\ cpc[Manager] = "resize" /\ cpc' = [cpc EXCEPT ![Manager] = "resized"]
        /\ UNCHANGED <<activeThreads, target, observers, op, wpc>>
    BY <1>20 DEF StoreMax, Step, Goto, held, workers, locals, rest, obs
  <2>2. \A e \in Clients : cpc'[e] # "startup"
    BY <1>0, <1>1, <2>1 DEF LockPCs
  <2> QED
    BY <1>0, <2>1, <2>2 DEF FullInv
<1>21. CASE UNCHANGED vars
  BY <1>5, <1>21 DEF vars, pool, sizing, held, workers, locals, rest, obs, FullInv
<1> QED
  BY <1>6, <1>7, <1>8, <1>9, <1>10, <1>11, <1>12, <1>13, <1>14, <1>15, <1>16, <1>17, <1>18,
     <1>19, <1>20, <1>21
  DEF Next, Environment, ClientStep, ClientLock, ManagerStep, Terminated

(***************************************************************************)
(* An observer was told of every thread in threadList_ exactly once        *)
(* whenever the lock is free, idle timeouts or not.                        *)
(***************************************************************************)
THEOREM ObserversTold ==
  Spec => [](Unlocked => \A o \in observers, w \in threadList : watched[o][w] = 1)
<1>1. Init => WatchInv
  <2> SUFFICES ASSUME Init PROVE WatchInv
    OBVIOUS
  <2>1. /\ newThreads = {} /\ observers = {} /\ threadList \subseteq Workers
        /\ watched = [o \in Observers |-> [w \in Workers |-> 0]]
    BY DEF Init
  <2> QED
    BY <2>1 DEF WatchInv
<1>2. PoolInv /\ WatchInv
        => (Unlocked => \A o \in observers, w \in threadList : watched[o][w] = 1)
  <2> SUFFICES ASSUME PoolInv, WatchInv, Unlocked PROVE newThreads = {}
    BY DEF WatchInv, PoolInv, TypeInv, TypeOK
  <2>1. \A c \in Clients : cpc[c] # "startup"
    BY ClientsAssumption DEF PoolInv, LockInv, LockPCs, Unlocked, Clients
  <2> QED
    BY <2>1 DEF WatchInv
<1> QED
  BY <1>1, <1>2, PoolInvariant, WatchStep, PTL DEF Spec

(***************************************************************************)
(* In a pool without idle timeouts no observer misses a thread: it was     *)
(* told of all there are once, and when addObserver or setNumThreads has        *)
(* returned the pool has its maximum of threads, so that add() will not    *)
(* start another.  (With idle timeouts threads leave the pool for good     *)
(* reason, and the second half is not meant to hold.)                      *)
(***************************************************************************)
THEOREM ObserversMissNone ==
  ASSUME ~Timeouts
  PROVE  Spec => []ObserversSeeAll
<1>1. Init => FullInv
  <2> SUFFICES ASSUME Init PROVE FullInv
    OBVIOUS
  <2>1. /\ \A w \in Workers : wpc[w] \in {"loop", "none"}
        /\ \A c \in Clients : cpc[c] = "idle"
        /\ observers = {} /\ op = "none"
    BY DEF Init
  <2> QED
    BY <2>1 DEF FullInv
<1>2. FullInv /\ (Unlocked => \A o \in observers, w \in threadList : watched[o][w] = 1)
        => ObserversSeeAll
  BY DEF FullInv, ObserversSeeAll
<1>3. PoolInv /\ PoolInv' /\ FullInv /\ [Next]_vars => FullInv'
  BY FullStep
<1> QED
  BY <1>1, <1>2, <1>3, ObserversTold, PoolInvariant, PTL DEF Spec

---------------------------------------------------------------------------
(* join() and the tasks it finds *)

Before == op \in {"none", "observe"} \/ (op = "join" /\ cpc[Manager] \in {"drain", "takeOver"})
Drains == op = "join" /\ Closed

\* Until join() takes over a pool without idle timeouts that was never resized, no
\* thread was told to stop.
CalmInv ==
  /\ maxThreads = NumThreads /\ threadsToStop = 0 /\ drainDue = {}
  /\ \A w \in Workers : wpc[w] \notin {"timedout", "retire", "stopLock", "poison"}
  /\ \A i \in DOMAIN taskQueue : taskQueue[i] # Poison

\* While there is no thread at all, whoever adds a task will start one.
EmptyInv ==
  /\ activeThreads = 0
  /\ \A c \in Clients : cpc[c] # "startup"
  /\ \A p \in Producers : /\ cpc[p] = "ensureCheck" => snap[p] = 0
                          /\ cpc[p] = "decide" => need[p] \/ snap[p] = 0
                          /\ cpc[p] = "compare" => snap[p] = maxThreads
                          /\ cpc[p] \in {"enqueue", "post"} => need[p]
  /\ taskQueue # <<>> => \E p \in Producers : need[p] /\ cpc[p] \in Ensuring \cup {"post"}

BeforeInv == CalmInv /\ (threadList = {} => EmptyInv)

\* The tasks join() found are run or on their way; in the queue they are ahead of
\* every poison pill, and while one is there no thread has stopped for join().
DrainsInv ==
  /\ isJoin
  /\ \A w \in Workers : wpc[w] \notin {"timedout", "retire", "stopLock"}
  /\ \A t \in drainDue : \/ t \in done
                         \/ \E i \in DOMAIN taskQueue : taskQueue[i] = t
                         \/ \E w \in Workers : Running(w) /\ wtask[w] = t
  /\ \A i, j \in DOMAIN taskQueue : i < j /\ taskQueue[i] = Poison => taskQueue[j] \notin drainDue
  /\ (\E i \in DOMAIN taskQueue : taskQueue[i] \in drainDue)
       => threadList # {} /\ \A w \in Workers : wpc[w] # "poison"

FreshInv == resizes = 0 => op # "resize" /\ (Before => BeforeInv) /\ (Drains => DrainsInv)

\* Where the manager is before join() takes over.
LEMMA BeforePCs ==
  ASSUME ControlInv, Before
  PROVE  cpc[Manager] \notin {"resize", "resized", "poison", "poisonPost", "returned", "destroyed"}
  BY DEF ControlInv, Before, Ensuring

LEMMA CalmStep ==
  ASSUME ~Timeouts, PoolInv, [Next]_vars, Before, Before', CalmInv
  PROVE  CalmInv' /\ threadList \subseteq threadList'
<1>0. /\ LockInv /\ ControlInv /\ cpc \in [Clients -> ClientPCs] /\ wpc \in [Workers -> WorkerPCs]
      /\ Manager \in Clients /\ Manager \notin Producers /\ Producers \subseteq Clients
      /\ taskQueue \in Seq(Tasks \cup {Poison}) /\ Poison \notin Tasks
      /\ \A q \in Clients : cpc[q] = "enqueue" => ctask[q] \in Tasks
  BY ClientsAssumption, TasksAssumption DEF PoolInv, TypeInv, TypeOK, Clients
<1>1. cpc[Manager] \notin {"resize", "resized", "poison", "poisonPost", "returned", "destroyed"}
  BY <1>0, BeforePCs
<1>2. ASSUME UNCHANGED <<maxThreads, threadsToStop, drainDue, taskQueue>>,
             threadList \subseteq threadList',
             \A w \in Workers : wpc'[w] \notin {"timedout", "retire", "stopLock", "poison"}
      PROVE  CalmInv' /\ threadList \subseteq threadList'
  BY <1>2 DEF CalmInv
<1>3. ASSUME NEW w \in Workers, Dequeue(w) PROVE CalmInv' /\ threadList \subseteq threadList'
  <2>1. /\ taskQueue # <<>> /\ taskQueue' = Tail(taskQueue)
        /\ UNCHANGED <<maxThreads, threadsToStop, drainDue, threadList>>
    BY <1>3 DEF Dequeue, pool, sizing, leaving, rest, history
  <2>2. /\ 1 \in DOMAIN taskQueue /\ Head(taskQueue) = taskQueue[1]
        /\ \A i \in DOMAIN taskQueue' : i + 1 \in DOMAIN taskQueue /\ taskQueue'[i] = taskQueue[i + 1]
    BY <1>0, <2>1
  <2>3. wpc' = [wpc EXCEPT ![w] = "run"]
    BY <1>3, <2>2 DEF Dequeue, GotoW, CalmInv
  <2> QED
    BY <1>0, <2>1, <2>2, <2>3 DEF CalmInv
<1>4. ASSUME NEW p \in Producers, AddEnqueue(p) PROVE CalmInv' /\ threadList \subseteq threadList'
  <2>1. /\ taskQueue' = Append(taskQueue, ctask[p]) /\ ctask[p] \in Tasks
        /\ UNCHANGED <<maxThreads, threadsToStop, drainDue, threadList, wpc>>
    BY <1>0, <1>4 DEF AddEnqueue, Push, Step, pool, sizing, leaving, workers, rest, history
  <2>2. \A i \in DOMAIN taskQueue' : \/ i \in DOMAIN taskQueue /\ taskQueue'[i] = taskQueue[i]
                                     \/ taskQueue'[i] = ctask[p]
    BY <1>0, <2>1
  <2> QED
    BY <1>0, <2>1, <2>2 DEF CalmInv
<1>5. ASSUME NEW c \in Clients, ClientStep(c) \/ ClientLock(c)
      PROVE  CalmInv' /\ threadList \subseteq threadList'
  <2>1. UNCHANGED <<maxThreads, threadsToStop, drainDue, taskQueue>>
    BY <1>5
    DEF ClientStep, ClientLock, EnsureJoined, JoinOne, JoinDone, EnsureLoad, EnsureCheck,
        ThreadsStarted, TakeJoin, EnsureReturn, EnsureSpawn, ControlOnly, pool, sizing, leaving,
        queue, rest, history
  <2>2. threadList \subseteq threadList' /\ \A w \in Workers : wpc'[w] \in {wpc[w], "starting"}
    <3>1. CASE EnsureSpawn(c)
      BY <3>1 DEF EnsureSpawn, addThreads
    <3>2. CASE ~EnsureSpawn(c)
      BY <1>5, <3>2
      DEF ClientStep, ClientLock, EnsureJoined, JoinOne, JoinDone, EnsureLoad, EnsureCheck,
          ThreadsStarted, TakeJoin, EnsureReturn, ControlOnly, workers
    <3> QED
      BY <3>1, <3>2
  <2> QED
    BY <1>2, <2>1, <2>2 DEF CalmInv
<1>6. ASSUME NEW p \in Producers,
             \/ AddLoad(p) \/ AddDecide(p) \/ AddPost(p) \/ AddRelease(p)
             \/ \E t \in Tasks : AddBegin(p, t)
      PROVE  CalmInv' /\ threadList \subseteq threadList'
  <2>1. UNCHANGED <<maxThreads, threadsToStop, drainDue, taskQueue, threadList>>
    BY <1>6
    DEF AddLoad, AddDecide, AddPost, AddRelease, AddBegin, pool, sizing, leaving, queue, workers, rest,
        history
  <2>2. \A w \in Workers : wpc'[w] \in {wpc[w], "claimed"}
    BY <1>0, <1>6
    DEF AddLoad, AddDecide, AddPost, AddRelease, AddBegin, PostWakes, PostKeeps, workers
  <2> QED
    BY <1>2, <2>1, <2>2 DEF CalmInv
<1>7. CASE \/ ManagerStep \/ TakeOver
           \/ \E k \in Sizes : SetNumThreads(k)
           \/ \E o \in Observers : AddObserver(o) \/ RemoveObserver(o)
           \/ \E kind \in ShutdownKinds : Shutdown(kind)
  <2>1. ~TakeOver
    BY <1>0 DEF TakeOver, Step, Goto, Before, LockInv
  <2>2. UNCHANGED <<maxThreads, threadsToStop, drainDue, taskQueue, threadList, wpc>>
    BY <1>0, <1>1, <1>7, <2>1
    DEF ManagerStep, StoreMax, ResizeDown, ResizeUp, PoisonEnqueue, PoisonPost, ResizeDownDone,
        ensureMaxActiveThreads, KeepAliveJoined, TakeOverDone, Destroy, SetNumThreads,
        AddObserver, RemoveObserver, Shutdown, ControlOnly, Step, pool, sizing, leaving, queue,
        workers, rest, history
  <2> QED
    BY <1>2, <2>2 DEF CalmInv
<1>8. ASSUME NEW w \in Workers, WorkerStep(w) \/ WorkerLock(w) \/ SemTimeout(w), ~Dequeue(w)
      PROVE  CalmInv' /\ threadList \subseteq threadList'
  <2>1. /\ ~SemTimeout(w) /\ ~TimeoutBegin(w) /\ ~TimeoutUndo(w) /\ ~Retire(w) /\ ~Stay(w)
        /\ ~StopAfterTask(w) /\ ~StopIdle(w)
    BY DEF SemTimeout, TimeoutBegin, TimeoutUndo, Retire, Stay, StopAfterTask, StopIdle, GotoW,
           CalmInv
  <2>2. UNCHANGED <<maxThreads, threadsToStop, drainDue, taskQueue, threadList>>
    BY <1>8, <2>1
    DEF WorkerStep, WorkerLock, Start, SemTake, SemWait, RunTask, AfterTask, WorkerControlOnly,
        pool, sizing, leaving, queue, rest, history
  <2>3. \A v \in Workers : wpc'[v] \in {wpc[v], "loop", "claimed", "waiting", "ran"}
    BY <1>0, <1>8, <2>1
    DEF WorkerStep, WorkerLock, Start, SemTake, SemWait, RunTask, AfterTask, GotoW, CalmInv
  <2> QED
    BY <1>2, <2>2, <2>3 DEF CalmInv
<1>9. CASE UNCHANGED vars
  BY <1>2, <1>9 DEF vars, pool, sizing, leaving, queue, workers, rest, history, CalmInv
<1> QED
  BY <1>3, <1>4, <1>5, <1>6, <1>7, <1>8, <1>9 DEF Next, Environment, AddStep, Terminated

LEMMA EmptyStep ==
  ASSUME ~Timeouts, NumThreads > 0, PoolInv, [Next]_vars, Before, Before', CalmInv,
         threadList = {} => EmptyInv, threadList' = {}
  PROVE  EmptyInv'
<1>0. /\ LockInv /\ ControlInv /\ cpc \in [Clients -> ClientPCs] /\ wpc \in [Workers -> WorkerPCs]
      /\ snap \in [Clients -> Nat] /\ need \in [Clients -> BOOLEAN] /\ maxThreads \in Nat
      /\ Manager \in Clients /\ Manager \notin Producers /\ Producers \subseteq Clients
  BY ClientsAssumption DEF PoolInv, TypeInv, TypeOK, Clients
<1>1. threadList = {} /\ EmptyInv /\ maxThreads' = maxThreads
  BY CalmStep DEF CalmInv
<1>2. /\ activeThreads = 0 /\ maxThreads > 0
      /\ \A w \in Workers : wpc[w] = "none"
      /\ \A c \in Clients : cpc[c] # "startup"
  BY <1>0, <1>1 DEF EmptyInv, CalmInv, LockInv
<1>3. cpc[Manager] \notin {"resize", "resized", "poison", "poisonPost", "returned", "destroyed"}
  BY <1>0, BeforePCs
<1> DEFINE Willing == Ensuring \cup {"post"}
\* A client moves on; a producer that is going to start a thread stays at it.
<1>4. ASSUME NEW c \in Clients, NEW to, cpc' = [cpc EXCEPT ![c] = to], to # "startup",
             activeThreads' = activeThreads,
             \A q \in Producers : q # c => snap'[q] = snap[q] /\ need'[q] = need[q],
             c \in Producers => /\ to = "ensureCheck" => snap'[c] = 0
                                /\ to = "decide" => need'[c] \/ snap'[c] = 0
                                /\ to = "compare" => snap'[c] = maxThreads
                                /\ to \in {"enqueue", "post"} => need'[c]
                                /\ need[c] /\ cpc[c] \in Willing => need'[c] /\ to \in Willing,
             taskQueue' = taskQueue \/ (c \in Producers /\ to = "post" /\ need'[c])
      PROVE  EmptyInv'
  <2>1. \A e \in Clients : cpc'[e] = IF e = c THEN to ELSE cpc[e]
    BY <1>0, <1>4
  <2>2. \A q \in Producers : need[q] /\ cpc[q] \in Willing => need'[q] /\ cpc'[q] \in Willing
    BY <1>0, <1>4, <2>1
  <2>3. taskQueue' # <<>> => \E q \in Producers : need'[q] /\ cpc'[q] \in Willing
    <3>1. CASE taskQueue' = taskQueue
      BY <1>1, <2>2, <3>1 DEF EmptyInv
    <3>2. CASE c \in Producers /\ to = "post" /\ need'[c]
      BY <1>0, <2>1, <3>2
    <3> QED
      BY <1>4, <3>1, <3>2
  <2>4. \A q \in Producers : /\ cpc'[q] = "ensureCheck" => snap'[q] = 0
                             /\ cpc'[q] = "decide" => need'[q] \/ snap'[q] = 0
                             /\ cpc'[q] = "compare" => snap'[q] = maxThreads'
                             /\ cpc'[q] \in {"enqueue", "post"} => need'[q]
    BY <1>0, <1>1, <1>4, <2>1 DEF EmptyInv
  <2>5. \A e \in Clients : cpc'[e] # "startup"
    BY <1>2, <1>4, <2>1
  <2> QED
    BY <1>2, <1>4, <2>3, <2>4, <2>5 DEF EmptyInv
<1>5. ASSUME UNCHANGED <<cpc, snap, need, activeThreads, taskQueue>> PROVE EmptyInv'
  BY <1>1, <1>5 DEF EmptyInv
<1>6. ASSUME NEW p \in Producers, NEW t \in Tasks, AddBegin(p, t) PROVE EmptyInv'
  <2>1. PICK to \in {"load", "decide"} :
          /\ cpc[p] = "idle" /\ cpc' = [cpc EXCEPT ![p] = to] /\ (to = "decide" => minThreads = 0)
          /\ need' = [need EXCEPT ![p] = (minThreads = 0)]
          /\ UNCHANGED <<activeThreads, taskQueue, snap>>
    BY <1>6 DEF AddBegin, Step, Goto, pool, sizing, queue
  <2>2. /\ cpc[p] \notin Willing /\ (to = "decide" => need'[p])
        /\ \A q \in Producers : q # p => need'[q] = need[q]
    BY <1>0, <2>1 DEF Ensuring
  <2> QED
    BY <1>0, <1>4, <2>1, <2>2
<1>7. ASSUME NEW p \in Producers, AddDecide(p) PROVE EmptyInv'
  <2>1. /\ cpc[p] \in {"decide", "compare"} /\ cpc' = [cpc EXCEPT ![p] = "enqueue"]
        /\ need' = [need EXCEPT ![p] = mayNeedToAddThreads(p)]
        /\ UNCHANGED <<activeThreads, taskQueue, snap>>
    BY <1>7 DEF AddDecide, Step, Goto, pool, sizing, queue
  <2>2. \/ cpc[p] = "decide" /\ (need[p] \/ snap[p] = 0)
        \/ cpc[p] = "compare" /\ snap[p] = maxThreads
    BY <1>1, <2>1 DEF EmptyInv
  <2>3. mayNeedToAddThreads(p)
    BY <1>2, <2>2 DEF mayNeedToAddThreads
  <2>4. need'[p] /\ cpc[p] \notin Willing /\ \A q \in Producers : q # p => need'[q] = need[q]
    BY <1>0, <2>1, <2>3 DEF Ensuring
  <2> QED
    BY <1>0, <1>4, <2>1, <2>4
<1>20. ASSUME NEW p \in Producers, AddLoad(p) PROVE EmptyInv'
  <2>1. UNCHANGED <<activeThreads, taskQueue, need>> /\ cpc[p] = "load"
    BY <1>20 DEF AddLoad, Step, pool, sizing, queue
  <2>2. PICK to \in {"decide", "compare"} :
          /\ cpc' = [cpc EXCEPT ![p] = to]
          /\ snap' = [snap EXCEPT ![p] = IF to = "decide" THEN 0 ELSE maxThreads]
    BY <1>2, <1>20 DEF AddLoad, Step, Goto
  <2>3. /\ snap'[p] = IF to = "decide" THEN 0 ELSE maxThreads
        /\ \A q \in Producers : q # p => snap'[q] = snap[q]
        /\ cpc[p] \notin Willing
    BY <1>0, <2>1, <2>2 DEF Ensuring
  <2> QED
    BY <1>0, <1>4, <2>1, <2>2, <2>3
<1>8. ASSUME NEW p \in Producers, AddEnqueue(p) PROVE EmptyInv'
  <2>1. /\ cpc[p] = "enqueue" /\ cpc' = [cpc EXCEPT ![p] = "post"]
        /\ UNCHANGED <<activeThreads, snap, need>>
    BY <1>8 DEF AddEnqueue, Step, Goto, pool, sizing, locals
  <2>2. need[p]
    BY <1>1, <2>1 DEF EmptyInv
  <2> QED
    BY <1>0, <1>4, <2>1, <2>2
<1>9. ASSUME NEW p \in Producers, AddPost(p) PROVE EmptyInv'
  <2>1. need[p]
    BY <1>1, <1>9 DEF EmptyInv, AddPost
  <2>2. cpc' = [cpc EXCEPT ![p] = "ensureJoined"]
    BY <1>2, <1>9, <2>1 DEF AddPost, PostWakes, Waiters, WorkerAt, Goto
  <2>3. UNCHANGED <<activeThreads, taskQueue, snap, need>>
    BY <1>9 DEF AddPost, pool, sizing, locals
  <2> QED
    BY <1>0, <1>4, <2>1, <2>2, <2>3 DEF Ensuring
<1>10. ASSUME NEW p \in Producers, AddRelease(p) PROVE EmptyInv'
  <2>1. /\ cpc[p] = "release" /\ cpc' = [cpc EXCEPT ![p] = "idle"]
        /\ UNCHANGED <<activeThreads, taskQueue, snap>>
        /\ \A q \in Producers : q # p => need'[q] = need[q]
    BY <1>0, <1>10 DEF AddRelease, Step, Goto, pool, sizing, queue
  <2>2. cpc[p] \notin Willing
    BY <2>1 DEF Ensuring
  <2> QED
    BY <1>0, <1>4, <2>1, <2>2
<1>11. ASSUME NEW c \in Clients, EnsureJoined(c) \/ JoinDone(c) \/ TakeJoin(c) PROVE EmptyInv'
  <2>1. UNCHANGED <<activeThreads, taskQueue, snap, need>>
    BY <1>11 DEF EnsureJoined, JoinDone, TakeJoin, ControlOnly, pool, sizing, queue, locals
  <2>2. PICK to : /\ cpc' = [cpc EXCEPT ![c] = to]
                  /\ to \notin {"startup", "ensureCheck", "decide", "compare", "enqueue", "post"}
                  /\ (c \in Producers => to \in Ensuring)
    BY <1>11 DEF EnsureJoined, JoinDone, TakeJoin, AfterJoin, Step, Goto, Ensuring
  <2> QED
    BY <1>4, <2>1, <2>2
<1>12. ASSUME NEW c \in Clients, JoinOne(c) PROVE EmptyInv'
  BY <1>5, <1>12 DEF JoinOne, sizing, queue
<1>13. ASSUME NEW c \in Clients, EnsureLoad(c) PROVE EmptyInv'
  <2>1. /\ cpc' = [cpc EXCEPT ![c] = "ensureCheck"] /\ snap' = [snap EXCEPT ![c] = 0]
        /\ UNCHANGED <<activeThreads, taskQueue, need>>
    BY <1>2, <1>13 DEF EnsureLoad, Step, Goto, pool, sizing, queue
  <2>2. snap'[c] = 0 /\ \A q \in Producers : q # c => snap'[q] = snap[q]
    BY <1>0, <2>1
  <2> QED
    BY <1>4, <2>1, <2>2 DEF Ensuring
<1>14. ASSUME NEW c \in Clients, EnsureCheck(c) PROVE EmptyInv'
  <2>1. UNCHANGED <<activeThreads, taskQueue, snap, need>>
    BY <1>14 DEF EnsureCheck, ControlOnly, pool, sizing, queue, locals
  <2>2. PICK to \in {"ensureLock", "ensureMax"} :
          cpc' = [cpc EXCEPT ![c] = to] /\ (c \in Producers => to = "ensureLock")
    <3>1. c \in Producers => snap[c] = 0
      BY <1>1, <1>14 DEF EnsureCheck, Step, EmptyInv
    <3>2. CASE c \in Producers
      <4>1. ~(snap[c] >= maxThreads)
        BY <1>0, <1>2, <3>1, <3>2
      <4>2. cpc' = [cpc EXCEPT ![c] = "ensureLock"]
        BY <1>14, <4>1 DEF EnsureCheck, Step, Goto
      <4> QED
        BY <4>2
    <3>3. CASE c = Manager
      BY <1>0, <1>14, <3>3 DEF EnsureCheck, Step, Goto, AfterEnsure
    <3> QED
      BY <3>2, <3>3 DEF Clients
  <2> QED
    BY <1>4, <2>1, <2>2 DEF Ensuring
\* The lock is no obstacle: there is room for a thread, and starting one ends the case.
<1>15. ASSUME NEW c \in Clients, ThreadsStarted(c) \/ EnsureReturn(c) \/ EnsureSpawn(c) PROVE EmptyInv'
  <2>1. ~ThreadsStarted(c) /\ ~EnsureReturn(c)
    BY <1>0, <1>2 DEF ThreadsStarted, EnsureReturn, Step
  <2>2. PICK S \in SUBSET Workers : Cardinality(S) = 1 /\ threadList' = threadList \cup S
    BY <1>15, <2>1 DEF EnsureSpawn, addThreads, WorkerAt
  <2>3. S = {}
    BY <2>2
  <2>4. Cardinality(S) = 0
    BY <2>3, FS_EmptySet
  <2> QED
    BY <2>2, <2>4
<1>16. CASE \/ ManagerStep \/ TakeOver
            \/ \E k \in Sizes : SetNumThreads(k)
            \/ \E o \in Observers : AddObserver(o)
            \/ \E kind \in ShutdownKinds : Shutdown(kind)
  <2>1. ~TakeOver
    BY <1>0 DEF TakeOver, Step, Goto, Before, LockInv
  <2>2. UNCHANGED <<activeThreads, taskQueue, need>> /\ \A q \in Producers : snap'[q] = snap[q]
    BY <1>0, <1>3, <1>16, <2>1
    DEF ManagerStep, StoreMax, ResizeDown, ResizeUp, PoisonEnqueue, PoisonPost, ResizeDownDone,
        ensureMaxActiveThreads, KeepAliveJoined, TakeOverDone, Destroy, SetNumThreads,
        AddObserver, Shutdown, ControlOnly, Step, pool, sizing, queue, locals
  <2>3. PICK to \in {"ensureJoined", "idle", "takeOver", "resize", "ensureMax", "drain"} :
          cpc' = [cpc EXCEPT ![Manager] = to]
    BY <1>0, <1>3, <1>16, <2>1
    DEF ManagerStep, StoreMax, ResizeDown, ResizeUp, PoisonEnqueue, PoisonPost, ResizeDownDone,
        ensureMaxActiveThreads, KeepAliveJoined, TakeOverDone, Destroy, SetNumThreads,
        AddObserver, Shutdown, Step, Goto
  <2> QED
    BY <1>0, <1>4, <2>2, <2>3
<1>17. ASSUME NEW o \in Observers, RemoveObserver(o) PROVE EmptyInv'
  BY <1>5, <1>17 DEF RemoveObserver, pool, sizing, queue, locals
\* There is no worker to make a step.
<1>18. ASSUME NEW w \in Workers, WorkerStep(w) \/ WorkerLock(w) \/ SemTimeout(w) PROVE EmptyInv'
  BY <1>2, <1>18
  DEF WorkerStep, WorkerLock, Start, SemTake, SemWait, SemTimeout, Dequeue, RunTask, AfterTask,
      TimeoutUndo, Retire, StopAfterTask, StopIdle, Stay, TimeoutBegin, GotoW
<1>19. CASE UNCHANGED vars
  BY <1>5, <1>19 DEF vars, pool, sizing, queue, locals
<1> QED
  BY <1>6, <1>7, <1>8, <1>9, <1>10, <1>11, <1>12, <1>13, <1>14, <1>15, <1>16, <1>17, <1>18,
     <1>19, <1>20
  DEF Next, Environment, ClientStep, ClientLock, AddStep, Terminated

LEMMA DrainsStep ==
  ASSUME ~Timeouts, PoolInv, PoolInv', [Next]_vars, op # "resize",
         Before => BeforeInv, Drains => DrainsInv, Drains'
  PROVE  DrainsInv'
<1>0. /\ TypeInv /\ LockInv /\ ControlInv /\ CountInv /\ TaskInv
      /\ cpc \in [Clients -> ClientPCs] /\ wpc \in [Workers -> WorkerPCs]
      /\ wtask \in [Workers -> Tasks \cup {NoTask}]
      /\ Manager \in Clients /\ Manager \notin Producers /\ Producers \subseteq Clients
      /\ taskQueue \in Seq(Tasks \cup {Poison}) /\ Poison \notin Tasks /\ drainDue \subseteq Tasks
  BY ClientsAssumption, TasksAssumption DEF PoolInv, TypeInv, TypeOK, Clients
<1>1. ASSUME op = "join", cpc[Manager] # "drain"
      PROVE  \A p \in Producers : /\ cpc[p] \in {"idle", "post", "release"}
                                  /\ cpc[p] # "idle" => ~need[p]
  <2>1. shutdown # "none"
    BY <1>0, <1>1 DEF LockInv
  <2>2. keepAliveCount = 0
    BY <1>0, <1>1, <2>1 DEF CountInv
  <2> QED
    BY <1>0, <2>2, NoTokens
\* join() takes over: what it finds in the queue has a thread to run it.
<1>2. CASE TakeOver
  <2>1. /\ op = "join" /\ cpc[Manager] = "takeOver" /\ UNCHANGED <<taskQueue, threadList, wpc>>
        /\ isJoin' = (op = "join")
        /\ drainDue' = drainDue \cup {t \in Tasks : \E i \in DOMAIN taskQueue : taskQueue[i] = t}
    BY <1>2 DEF TakeOver, removeThreads, workers, queue, Step, Drains
  <2>2. CalmInv /\ (threadList = {} => EmptyInv)
    BY <2>1 DEF Before, BeforeInv
  <2>3. taskQueue # <<>> => threadList # {}
    BY <1>1, <2>1, <2>2 DEF EmptyInv, Ensuring
  <2>4. \A i \in DOMAIN taskQueue : taskQueue # <<>>
    BY <1>0
  <2>5. \A t \in drainDue' : \E i \in DOMAIN taskQueue : taskQueue[i] = t
    BY <2>1, <2>2 DEF CalmInv
  <2> QED
    BY <2>1, <2>2, <2>3, <2>4, <2>5 DEF DrainsInv, CalmInv
<1>3. ASSUME ~TakeOver PROVE Drains
  <2>1. cpc'[Manager] \in {"poison", "poisonPost", "join", "returned", "destroyed"} /\ op' = "join"
    BY DEF Drains, Closed
  <2>2. \/ cpc'[Manager] = cpc[Manager] /\ op' = op
        \/ cpc[Manager] \notin {"drain", "takeOver"} /\ op' = op
    <3>1. ASSUME NEW c \in Clients, ClientStep(c) \/ ClientLock(c)
          PROVE  /\ cpc[c] \notin {"drain", "takeOver"} /\ op' = op
                 /\ \A e \in Clients : e # c => cpc'[e] = cpc[e]
      BY <1>0, <3>1
      DEF ClientStep, ClientLock, EnsureJoined, JoinOne, JoinDone, EnsureLoad, EnsureCheck,
          ThreadsStarted, TakeJoin, EnsureReturn, EnsureSpawn, ControlOnly, locals, Step, Goto
    <3>2. ASSUME NEW c \in Producers, AddStep(c) \/ \E t \in Tasks : AddBegin(c, t)
          PROVE  cpc'[Manager] = cpc[Manager] /\ op' = op
      BY <1>0, <3>2
      DEF AddStep, AddBegin, AddLoad, AddDecide, AddEnqueue, AddPost, AddRelease, locals, Step, Goto
    <3>3. ASSUME ManagerStep PROVE cpc[Manager] \notin {"drain", "takeOver"} /\ op' = op
      BY <1>0, <2>1, <3>3
      DEF ManagerStep, StoreMax, ResizeDown, ResizeUp, PoisonEnqueue, PoisonPost, ResizeDownDone,
          ensureMaxActiveThreads, KeepAliveJoined, TakeOverDone, Destroy, ControlOnly, locals,
          Step, Goto
    <3>4. ~(\/ \E k \in Sizes : SetNumThreads(k)
            \/ \E o \in Observers : AddObserver(o)
            \/ \E kind \in ShutdownKinds : Shutdown(kind))
      BY <1>0, <2>1 DEF SetNumThreads, AddObserver, Shutdown, Step, Goto
    <3>5. ASSUME NEW o \in Observers, RemoveObserver(o) PROVE UNCHANGED <<cpc, op>>
      BY <3>5 DEF RemoveObserver, locals
    <3>6. ASSUME NEW w \in Workers, WorkerStep(w) \/ WorkerLock(w) \/ SemTimeout(w)
          PROVE  UNCHANGED <<cpc, op>>
      BY <3>6
      DEF WorkerStep, WorkerLock, Start, SemTake, SemWait, SemTimeout, Dequeue, RunTask, AfterTask,
          TimeoutUndo, Retire, StopAfterTask, StopIdle, Stay, TimeoutBegin, WorkerControlOnly, locals
    <3>7. ASSUME UNCHANGED vars PROVE UNCHANGED <<cpc, op>>
      BY <3>7 DEF vars, locals
    <3> QED
      BY <1>0, <1>3, <3>1, <3>2, <3>3, <3>4, <3>5, <3>6, <3>7 DEF Next, Environment, Terminated
  <2> QED
    BY <1>0, <2>1, <2>2 DEF ControlInv, Drains, Closed, FinalOps
<1>4. ASSUME ~TakeOver
      PROVE  /\ Drains /\ DrainsInv /\ op = "join" /\ op \in FinalOps
             /\ cpc[Manager] \in {"poison", "poisonPost", "join", "returned", "destroyed"}
             /\ \A p \in Producers : cpc[p] \in {"idle", "post", "release"} /\ cpc[p] \notin Ensuring
  <2>1. Drains /\ DrainsInv
    BY <1>3, <1>4
  <2> QED
    BY <1>1, <2>1 DEF Drains, Closed, Ensuring
<1> DEFINE Queued(t) == \E i \in DOMAIN taskQueue : taskQueue[i] = t
           Held(t) == \E w \in Workers : Running(w) /\ wtask[w] = t
\* A step that moves no task and stops no thread.
<1>5. ASSUME ~TakeOver, UNCHANGED <<taskQueue, drainDue, isJoin, done, wtask, threadList>>,
             \A w \in Workers : /\ wpc'[w] \notin {"timedout", "retire", "stopLock"}
                                /\ wpc'[w] = "poison" => wpc[w] = "poison"
                                /\ wpc[w] = "run" => wpc'[w] = "run"
      PROVE  DrainsInv'
  BY <1>4, <1>5 DEF DrainsInv, Running
<1>6. ASSUME NEW c \in Clients, ClientStep(c) \/ ClientLock(c), ~TakeOver PROVE DrainsInv'
  <2>1. cpc[c] \in Ensuring
    BY <1>6
    DEF ClientStep, ClientLock, EnsureJoined, JoinOne, JoinDone, EnsureLoad, EnsureCheck,
        ThreadsStarted, TakeJoin, EnsureReturn, EnsureSpawn, Step, Ensuring
  <2>2. c = Manager /\ cpc[c] = "join"
    BY <1>4, <1>6, <2>1 DEF Clients, Ensuring
  <2>3. JoinOne(c) \/ JoinDone(c)
    BY <1>6, <2>2
    DEF ClientStep, ClientLock, EnsureJoined, EnsureLoad, EnsureCheck, ThreadsStarted, TakeJoin,
        EnsureReturn, EnsureSpawn, Step
  <2>4. UNCHANGED <<taskQueue, drainDue, isJoin, done, wtask, threadList, wpc>>
    BY <2>3 DEF JoinOne, JoinDone, ControlOnly, pool, leaving, workers, queue, rest, history
  <2> QED
    BY <1>4, <1>5, <1>6, <2>4 DEF DrainsInv
<1>7. ASSUME NEW p \in Producers, AddStep(p) \/ \E t \in Tasks : AddBegin(p, t), ~TakeOver
      PROVE  DrainsInv'
  <2>1. ~AddLoad(p) /\ ~AddDecide(p) /\ ~AddEnqueue(p)
    BY <1>4, <1>7 DEF AddLoad, AddDecide, AddEnqueue, Step
  <2>2. UNCHANGED <<taskQueue, drainDue, isJoin, done, wtask, threadList>>
    BY <1>7, <2>1
    DEF AddStep, AddBegin, AddPost, AddRelease, pool, leaving, workers, queue, rest, history
  <2>3. \A w \in Workers : wpc'[w] = wpc[w] \/ (wpc[w] = "waiting" /\ wpc'[w] = "claimed")
    BY <1>0, <1>7, <2>1
    DEF AddStep, AddBegin, AddPost, AddRelease, PostWakes, PostKeeps, Waiters, WorkerAt, workers
  <2> QED
    BY <1>4, <1>5, <1>7, <2>2, <2>3 DEF DrainsInv
<1>8. CASE PoisonEnqueue
  <2>1. /\ taskQueue' = Append(taskQueue, Poison) /\ ~TakeOver
        /\ UNCHANGED <<drainDue, isJoin, done, wtask, threadList, wpc>>
    BY <1>8 DEF PoisonEnqueue, TakeOver, Push, Step, pool, leaving, workers, rest, history
  <2>2. /\ DOMAIN taskQueue' = DOMAIN taskQueue \cup {Len(taskQueue) + 1}
        /\ \A i \in DOMAIN taskQueue : taskQueue'[i] = taskQueue[i] /\ i \in Nat /\ i <= Len(taskQueue)
        /\ taskQueue'[Len(taskQueue) + 1] = Poison /\ Len(taskQueue) \in Nat
    BY <1>0, <2>1
  <2>3. \A i \in DOMAIN taskQueue' : taskQueue'[i] \in drainDue => i \in DOMAIN taskQueue
    BY <1>0, <2>2
  <2>4. \A i, j \in DOMAIN taskQueue' : i < j /\ taskQueue'[i] = Poison => taskQueue'[j] \notin drainDue
    <3> SUFFICES ASSUME NEW i \in DOMAIN taskQueue', NEW j \in DOMAIN taskQueue', i < j,
                        taskQueue'[i] = Poison, taskQueue'[j] \in drainDue
                 PROVE  FALSE
      OBVIOUS
    <3>1. j \in DOMAIN taskQueue
      BY <2>3
    <3>2. i \in DOMAIN taskQueue
      BY <2>2, <3>1
    <3> QED
      BY <1>4, <2>1, <2>2, <3>1, <3>2 DEF DrainsInv
  <2>5. \A t \in drainDue : t \in done \/ (\E i \in DOMAIN taskQueue' : taskQueue'[i] = t) \/ Held(t)
    BY <1>4, <2>1, <2>2 DEF DrainsInv
  <2>6. (\E i \in DOMAIN taskQueue' : taskQueue'[i] \in drainDue)
          => threadList # {} /\ \A w \in Workers : wpc[w] # "poison"
    BY <1>4, <2>1, <2>2, <2>3 DEF DrainsInv
  <2> QED
    BY <1>4, <2>1, <2>4, <2>5, <2>6 DEF DrainsInv, Running
<1>9. CASE PoisonPost \/ TakeOverDone
  <2>1. /\ UNCHANGED <<taskQueue, drainDue, isJoin, done, wtask, threadList>> /\ ~TakeOver
    BY <1>9
    DEF PoisonPost, TakeOverDone, TakeOver, Step, pool, leaving, workers, queue, rest, history
  <2>2. \A w \in Workers : wpc'[w] = wpc[w] \/ (wpc[w] = "waiting" /\ wpc'[w] = "claimed")
    BY <1>0, <1>9 DEF PoisonPost, TakeOverDone, PostWakes, PostKeeps, Waiters, WorkerAt, workers
  <2> QED
    BY <1>4, <1>5, <2>1, <2>2 DEF DrainsInv
\* The manager's other steps are over or not yet possible.
<1>10. ASSUME ~TakeOver
       PROVE  ~(\/ StoreMax \/ ResizeDown \/ ResizeUp \/ ResizeDownDone \/ ensureMaxActiveThreads
                \/ KeepAliveJoined \/ Destroy
                \/ \E k \in Sizes : SetNumThreads(k)
                \/ \E o \in Observers : AddObserver(o) \/ RemoveObserver(o)
                \/ \E kind \in ShutdownKinds : Shutdown(kind))
  BY <1>0, <1>4, <1>10
  DEF StoreMax, ResizeDown, ResizeUp, ResizeDownDone, ensureMaxActiveThreads, KeepAliveJoined, Destroy,
      SetNumThreads, AddObserver, RemoveObserver, Shutdown, Step, Goto, Drains
<1>11. ASSUME NEW w \in Workers, Dequeue(w), ~TakeOver PROVE DrainsInv'
  <2>1. /\ taskQueue # <<>> /\ taskQueue' = Tail(taskQueue)
        /\ UNCHANGED <<drainDue, isJoin, done, threadList>>
    BY <1>11 DEF Dequeue, pool, leaving, rest, history
  <2>2. /\ 1 \in DOMAIN taskQueue /\ Head(taskQueue) = taskQueue[1]
        /\ \A i \in DOMAIN taskQueue' : /\ i + 1 \in DOMAIN taskQueue /\ 1 < i + 1 /\ i \in Nat
                                        /\ taskQueue'[i] = taskQueue[i + 1]
        /\ \A i \in DOMAIN taskQueue : i # 1 => i - 1 \in DOMAIN taskQueue' /\ taskQueue'[i - 1] = taskQueue[i]
    BY <1>0, <2>1
  <2>3. /\ wpc[w] = "claimed"
        /\ \A v \in Workers : v # w => wpc'[v] = wpc[v] /\ wtask'[v] = wtask[v]
        /\ wpc'[w] = IF taskQueue[1] = Poison THEN "poison" ELSE "run"
        /\ taskQueue[1] # Poison => wtask'[w] = taskQueue[1]
    BY <1>0, <1>11, <2>2 DEF Dequeue, GotoW
  <2>4. \A i, j \in DOMAIN taskQueue' : i < j /\ taskQueue'[i] = Poison => taskQueue'[j] \notin drainDue
    <3> TAKE i, j \in DOMAIN taskQueue'
    <3>1. i < j => i + 1 < j + 1
      BY <2>2
    <3> QED
      BY <1>4, <1>11, <2>2, <3>1 DEF DrainsInv
  <2>5. ASSUME NEW t \in drainDue
        PROVE  \/ t \in done
               \/ \E i \in DOMAIN taskQueue' : taskQueue'[i] = t
               \/ \E v \in Workers : wpc'[v] = "run" /\ wtask'[v] = t
    <3>1. CASE t \in done
      BY <3>1
    <3>2. CASE Queued(t)
      <4>1. PICK i \in DOMAIN taskQueue : taskQueue[i] = t
        BY <3>2
      <4>2. CASE i = 1
        <5>1. taskQueue[1] = t /\ t # Poison
          BY <1>0, <4>1, <4>2
        <5> QED
          BY <2>3, <5>1
      <4>3. CASE i # 1
        BY <2>2, <4>1, <4>3
      <4> QED
        BY <4>2, <4>3
    <3>3. CASE Held(t)
      <4>1. PICK v \in Workers : Running(v) /\ wtask[v] = t
        BY <3>3
      <4>2. v # w
        BY <2>3, <4>1 DEF Running
      <4> QED
        BY <2>3, <4>1, <4>2 DEF Running
    <3> QED
      BY <1>4, <1>11, <3>1, <3>2, <3>3 DEF DrainsInv
  <2>6. ASSUME NEW i \in DOMAIN taskQueue', taskQueue'[i] \in drainDue
        PROVE  threadList # {} /\ \A v \in Workers : wpc'[v] # "poison"
    <3>1. taskQueue[i + 1] \in drainDue /\ i + 1 \in DOMAIN taskQueue /\ 1 < i + 1
      BY <2>2, <2>6
    <3>2. taskQueue[1] # Poison
      BY <1>4, <1>11, <2>2, <3>1 DEF DrainsInv
    <3>3. threadList # {} /\ \A v \in Workers : wpc[v] # "poison"
      BY <1>4, <1>11, <3>1 DEF DrainsInv
    <3> QED
      BY <2>3, <3>2, <3>3
  <2>7. \A v \in Workers : wpc'[v] \notin {"timedout", "retire", "stopLock"}
    BY <1>4, <1>11, <2>3 DEF DrainsInv
  <2>8. isJoin
    BY <1>4, <1>11 DEF DrainsInv
  <2> QED
    BY <2>1, <2>4, <2>5, <2>6, <2>7, <2>8 DEF DrainsInv, Running
<1>12. ASSUME NEW w \in Workers, RunTask(w), ~TakeOver PROVE DrainsInv'
  <2>1. /\ UNCHANGED <<taskQueue, drainDue, isJoin, threadList>> /\ done' = done \cup {wtask[w]}
        /\ \A v \in Workers : v # w => wpc'[v] = wpc[v] /\ wtask'[v] = wtask[v]
        /\ wpc'[w] = "ran"
    BY <1>0, <1>12 DEF RunTask, GotoW, pool, leaving, queue
  <2>2. ASSUME NEW t \in drainDue
        PROVE  t \in done' \/ Queued(t) \/ \E v \in Workers : wpc'[v] = "run" /\ wtask'[v] = t
    <3>1. CASE Held(t)
      BY <2>1, <3>1 DEF Running
    <3>2. CASE t \in done \/ Queued(t)
      BY <2>1, <3>2
    <3> QED
      BY <1>4, <1>12, <3>1, <3>2 DEF DrainsInv
  <2>3. /\ isJoin
        /\ \A v \in Workers : wpc'[v] \notin {"timedout", "retire", "stopLock"}
        /\ \A v \in Workers : wpc'[v] = "poison" => wpc[v] = "poison"
    BY <1>4, <1>12, <2>1 DEF DrainsInv
  <2> QED
    BY <1>4, <1>12, <2>1, <2>2, <2>3 DEF DrainsInv, Running
\* A thread stops for join() only when the tasks join() found are out of the queue.
<1>13. ASSUME NEW w \in Workers, StopIdle(w), ~TakeOver PROVE DrainsInv'
  <2>1. /\ UNCHANGED <<taskQueue, drainDue, isJoin, done, wtask>>
        /\ wpc[w] = "poison" /\ wpc' = [wpc EXCEPT ![w] = "none"]
    BY <1>4, <1>13 DEF StopIdle, Leave, DrainsInv, queue, history
  <2>2. ~\E i \in DOMAIN taskQueue : taskQueue[i] \in drainDue
    BY <1>4, <1>13, <2>1 DEF DrainsInv
  <2>3. \A v \in Workers : v # w => wpc'[v] = wpc[v]
    BY <1>0, <2>1
  <2>4. wpc'[w] = "none"
    BY <1>0, <2>1
  <2>5. \A t \in drainDue : t \in done \/ \E v \in Workers : wpc'[v] = "run" /\ wtask[v] = t
    BY <1>4, <1>13, <2>1, <2>2, <2>3 DEF DrainsInv, Running
  <2>6. isJoin /\ \A v \in Workers : wpc'[v] \notin {"timedout", "retire", "stopLock"}
    BY <1>4, <1>13, <2>3, <2>4 DEF DrainsInv
  <2> QED
    BY <2>1, <2>2, <2>5, <2>6 DEF DrainsInv, Running
<1>14. ASSUME NEW w \in Workers, WorkerStep(w) \/ WorkerLock(w) \/ SemTimeout(w), ~TakeOver,
              ~Dequeue(w), ~RunTask(w), ~StopIdle(w)
       PROVE  DrainsInv'
  <2>1. ~SemTimeout(w) /\ ~TimeoutBegin(w) /\ ~TimeoutUndo(w) /\ ~Retire(w) /\ ~StopAfterTask(w)
    BY <1>4, <1>14
    DEF SemTimeout, TimeoutBegin, TimeoutUndo, Retire, StopAfterTask, GotoW, DrainsInv
  <2>2. UNCHANGED <<taskQueue, drainDue, isJoin, done, wtask, threadList>>
    BY <1>14, <2>1
    DEF WorkerStep, WorkerLock, Start, SemTake, SemWait, AfterTask, Stay, WorkerControlOnly,
        pool, leaving, queue, rest, history
  <2>3. /\ isJoin /\ wpc[w] # "run"
        /\ \E to \in {"loop", "claimed", "waiting"} : wpc' = [wpc EXCEPT ![w] = to]
    BY <1>4, <1>14, <2>1
    DEF WorkerStep, WorkerLock, Start, SemTake, SemWait, AfterTask, Stay, GotoW, DrainsInv
  <2>4. /\ \A v \in Workers : v # w => wpc'[v] = wpc[v]
        /\ wpc'[w] \in {"loop", "claimed", "waiting"}
    BY <1>0, <2>3
  <2> QED
    BY <1>4, <1>5, <1>14, <2>2, <2>3, <2>4 DEF DrainsInv
<1>15. CASE UNCHANGED vars /\ ~TakeOver
  BY <1>4, <1>5, <1>15
  DEF vars, pool, leaving, workers, queue, rest, history, DrainsInv
<1> QED
  BY <1>2, <1>6, <1>7, <1>8, <1>9, <1>10, <1>11, <1>12, <1>13, <1>14, <1>15
  DEF Next, Environment, ManagerStep, Terminated

LEMMA FreshStep ==
  ASSUME ~Timeouts, NumThreads > 0
  PROVE  PoolInv /\ PoolInv' /\ FreshInv /\ [Next]_vars => FreshInv'
<1> SUFFICES ASSUME PoolInv, PoolInv', FreshInv, [Next]_vars, resizes' = 0
             PROVE  op' # "resize" /\ (Before' => BeforeInv') /\ (Drains' => DrainsInv')
  BY DEF FreshInv
<1>1. /\ ~\E k \in Sizes : SetNumThreads(k)
      /\ resizes = 0
  <2>1. resizes \in Nat
    BY DEF PoolInv, TypeInv, TypeOK
  <2>2. ~\E k \in Sizes : SetNumThreads(k)
    BY <2>1 DEF SetNumThreads
  <2>3. resizes' = resizes
    BY <2>2
    DEF Next, Environment, AddBegin, AddObserver, RemoveObserver, Shutdown, SemTimeout, ClientStep,
        ClientLock, AddStep, ManagerStep, WorkerStep, WorkerLock, Terminated, TakeOver,
        EnsureJoined, JoinOne, JoinDone, EnsureLoad, EnsureCheck, ThreadsStarted, TakeJoin,
        EnsureReturn, EnsureSpawn, AddLoad, AddDecide, AddEnqueue, AddPost, AddRelease, StoreMax, ResizeDown, ResizeUp,
        PoisonEnqueue, PoisonPost, ResizeDownDone, ensureMaxActiveThreads, KeepAliveJoined,
        TakeOverDone, Destroy, Start, SemTake, SemWait, Dequeue, RunTask, AfterTask, TimeoutUndo,
        Retire, StopAfterTask, StopIdle, Stay, TimeoutBegin, ControlOnly, WorkerControlOnly, vars,
        rest, history
  <2> QED
    BY <2>2, <2>3
<1>2. op # "resize" /\ (Before => BeforeInv) /\ (Drains => DrainsInv)
  BY <1>1 DEF FreshInv
\* How the manager gets into the calls and control points that matter here.
<1> DEFINE Moves ==
      /\ op' \in {op, "destroy"} \/ (op' # "resize" /\ cpc[Manager] = "idle")
      /\ cpc'[Manager] = "drain" => cpc[Manager] \in {"idle", "drain"}
      /\ cpc'[Manager] = "takeOver" => cpc[Manager] \in {"drain", "takeOver"} \/ op' = "destroy"
<1>3. Moves
  <2>0. cpc \in [Clients -> ClientPCs] /\ Manager \in Clients /\ Manager \notin Producers
    BY ClientsAssumption DEF PoolInv, TypeInv, TypeOK, Clients
  <2>1. ASSUME NEW c \in Clients, ClientStep(c) \/ ClientLock(c) PROVE Moves
    <3>1. op' = op
      BY <2>1
      DEF ClientStep, ClientLock, EnsureJoined, JoinOne, JoinDone, EnsureLoad, EnsureCheck,
          ThreadsStarted, TakeJoin, EnsureReturn, EnsureSpawn, ControlOnly, locals
    <3>2. cpc'[Manager] \in {"drain", "takeOver"} => cpc'[Manager] = cpc[Manager]
      BY <2>0, <2>1
      DEF ClientStep, ClientLock, EnsureJoined, JoinOne, JoinDone, EnsureLoad, EnsureCheck,
          ThreadsStarted, TakeJoin, EnsureReturn, EnsureSpawn, AfterJoin, AfterEnsure, Step, Goto
    <3> QED
      BY <3>1, <3>2
  <2>2. ASSUME NEW p \in Producers, AddStep(p) \/ \E t \in Tasks : AddBegin(p, t) PROVE Moves
    BY <2>0, <2>2
    DEF AddStep, AddBegin, AddLoad, AddDecide, AddEnqueue, AddPost, AddRelease, locals, Step, Goto
  <2>3. CASE \/ ManagerStep \/ TakeOver
             \/ \E o \in Observers : AddObserver(o) \/ RemoveObserver(o)
             \/ \E kind \in ShutdownKinds : Shutdown(kind)
    BY <2>0, <2>3, ModeAssumption
    DEF ManagerStep, TakeOver, StoreMax, ResizeDown, ResizeUp, PoisonEnqueue, PoisonPost, ResizeDownDone,
        ensureMaxActiveThreads, KeepAliveJoined, TakeOverDone, Destroy, AddObserver,
        RemoveObserver, Shutdown, ControlOnly, locals, Step, Goto
  <2>4. ASSUME NEW w \in Workers, WorkerStep(w) \/ WorkerLock(w) \/ SemTimeout(w) PROVE Moves
    BY <2>4
    DEF WorkerStep, WorkerLock, Start, SemTake, SemWait, SemTimeout, Dequeue, RunTask, AfterTask,
        TimeoutUndo, Retire, StopAfterTask, StopIdle, Stay, TimeoutBegin, WorkerControlOnly, locals
  <2>5. CASE UNCHANGED vars
    BY <2>5 DEF vars, locals
  <2> QED
    BY <1>1, <2>1, <2>2, <2>3, <2>4, <2>5 DEF Next, Environment, Terminated
<1>4. op' # "resize"
  BY <1>2, <1>3
<1>5. ASSUME Before' PROVE Before
  <2>1. op \in Ops /\ ControlInv
    BY DEF PoolInv, TypeInv, TypeOK
  <2> QED
    BY <1>2, <1>3, <1>5, <2>1 DEF Before, ControlInv, Ops, FinalOps
<1>6. ASSUME Before' PROVE BeforeInv'
  <2>1. Before /\ CalmInv /\ (threadList = {} => EmptyInv)
    BY <1>2, <1>5, <1>6 DEF BeforeInv
  <2>2. CalmInv'
    BY <1>6, <2>1, CalmStep
  <2>3. threadList' = {} => EmptyInv'
    BY <1>6, <2>1, EmptyStep
  <2> QED
    BY <2>2, <2>3 DEF BeforeInv
<1>7. ASSUME Drains' PROVE DrainsInv'
  BY <1>2, <1>7, DrainsStep
<1> QED
  BY <1>4, <1>6, <1>7

(***************************************************************************)
(* In a pool that was given threads, has no idle timeouts and was never    *)
(* resized, join() returns only after every task it found in the queue has *)
(* been run: add() has made sure that a thread is there, the poison pills  *)
(* go in behind the tasks, and with isJoin_ set a thread stops for nothing *)
(* but a pill.                                                             *)
(***************************************************************************)
THEOREM JoinRunsWhatItFound ==
  ASSUME NumThreads > 0
  PROVE  Spec => []JoinDrainsFresh
<1>1. CASE Timeouts
  <2>1. JoinDrainsFresh
    BY <1>1 DEF JoinDrainsFresh
  <2> QED
    BY <2>1, PTL
<1>2. CASE ~Timeouts
  <2>1. Init => FreshInv
    <3> SUFFICES ASSUME Init PROVE FreshInv
      OBVIOUS
    <3>1. /\ op = "none" /\ taskQueue = <<>> /\ maxThreads = NumThreads /\ threadsToStop = 0
          /\ drainDue = {} /\ activeThreads = InitialThreads /\ Cardinality(threadList) = InitialThreads
          /\ \A w \in Workers : wpc[w] \in {"loop", "none"}
          /\ \A c \in Clients : cpc[c] = "idle"
      BY DEF Init
    <3>2. threadList = {} => activeThreads = 0
      BY <3>1, FS_EmptySet
    <3> QED
      BY <3>1, <3>2 DEF FreshInv, BeforeInv, CalmInv, EmptyInv, Drains, Clients
  <2>2. PoolInv /\ PoolInv' /\ FreshInv /\ [Next]_vars => FreshInv'
    BY <1>2, FreshStep
  <2>3. PoolInv /\ FreshInv /\ StopChecks => JoinDrainsFresh
    <3> SUFFICES ASSUME PoolInv, FreshInv, StopChecks, resizes = 0, shutdown = "join",
                        cpc[Manager] = "returned"
                 PROVE  drainDue \subseteq done
      BY DEF JoinDrainsFresh, JoinDrains
    <3>1. threadList = {} /\ LockInv /\ ControlInv
      BY DEF StopChecks, PoolInv
    <3>2. \A w \in Workers : ~Running(w)
      BY <3>1 DEF LockInv, Running
    <3>3. op = "join"
      BY <3>1 DEF ControlInv
    <3>4. DrainsInv
      BY <3>3 DEF FreshInv, Drains, Closed, FinalOps
    <3> QED
      BY <3>1, <3>2, <3>4 DEF DrainsInv
  <2> QED
    BY <2>1, <2>2, <2>3, PoolInvariant, NothingLeftBehind, PTL DEF Spec
<1> QED
  BY <1>1, <1>2

=============================================================================
