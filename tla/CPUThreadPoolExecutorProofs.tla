--------------------- MODULE CPUThreadPoolExecutorProofs ---------------------
(***************************************************************************)
(* Theorems about CPUThreadPoolExecutor, for every number of workers,      *)
(* producers, tasks and resizes.                                           *)
(***************************************************************************)
EXTENDS CPUThreadPoolExecutor, FiniteSetTheorems, TLAPS

---------------------------------------------------------------------------
(* Type correctness *)

\* TypeOK is not inductive by itself: a task at hand really is a task, and the
\* poison loop posts only while it has pills left.
TypeInv ==
  /\ TypeOK
  /\ \A w \in Workers : wpc[w] = "run" => wtask[w] \in Tasks
  /\ \A p \in Clients : cpc[p] \in {"load", "decide", "compare", "enqueue"} => ctask[p] \in Tasks
  /\ cpc[Manager] = "poisonPost" => poisonsLeft > 0

LEMMA TypeStep == TypeInv /\ [Next]_vars => TypeInv'
<1> SUFFICES ASSUME TypeInv, [Next]_vars PROVE TypeInv'
  OBVIOUS
<1> USE ClientsAssumption, TasksAssumption, SizesAssumption, ModeAssumption
    DEF TypeInv, TypeOK, Clients, vars, pool, sizing, leaving, held, workers, queue, locals, life,
      obs, history, rest, ControlOnly, WorkerControlOnly,
      Step, Goto, GotoW, Unlocked, WorkerPCs, ClientPCs, Ops
<1>1. ASSUME NEW p \in Producers, AddDecide(p) PROVE TypeInv'
  BY <1>1 DEF AddDecide, Tokens, mayNeedToAddThreads
<1>2. ASSUME NEW p \in Producers, AddEnqueue(p) PROVE TypeInv'
  BY <1>2 DEF AddEnqueue, Push
<1>3. ASSUME NEW p \in Producers, AddPost(p) PROVE TypeInv'
  <2>1. CASE \E w \in Workers : PostWakes(w) /\ Goto(p, "release")
    <3> PICK w \in Workers : PostWakes(w) /\ Goto(p, "release")
      BY <2>1
    <3> QED
      BY <1>3 DEF AddPost, PostWakes, Waiters, WorkerAt
  <2>2. CASE PostKeeps /\ Goto(p, IF need[p] THEN "ensureJoined" ELSE "release")
    BY <1>3, <2>2 DEF AddPost, PostKeeps
  <2> QED
    BY <1>3, <2>1, <2>2 DEF AddPost
<1>4. ASSUME NEW p \in Producers, AddRelease(p) PROVE TypeInv'
  BY <1>4 DEF AddRelease
<1>5. ASSUME NEW c \in Clients, EnsureJoined(c) PROVE TypeInv'
  BY <1>5 DEF EnsureJoined
<1>6. ASSUME NEW c \in Clients, JoinOne(c) PROVE TypeInv'
  BY <1>6 DEF JoinOne
<1>7. ASSUME NEW c \in Clients, JoinDone(c) PROVE TypeInv'
  <2>1. AfterJoin(c) \in ClientPCs \ {"load", "decide", "compare", "enqueue", "poisonPost"}
    BY DEF AfterJoin
  <2>2. cpc' = [cpc EXCEPT ![c] = AfterJoin(c)] /\ ControlOnly
    BY <1>7 DEF JoinDone
  <2> HIDE DEF ClientPCs
  <2> QED
    BY <2>1, <2>2
<1>8. ASSUME NEW c \in Clients, EnsureLoad(c) PROVE TypeInv'
  BY <1>8 DEF EnsureLoad
<1>9. ASSUME NEW c \in Clients, EnsureCheck(c) PROVE TypeInv'
  BY <1>9 DEF EnsureCheck, AfterEnsure
<1>10. ASSUME NEW c \in Clients, ThreadsStarted(c) PROVE TypeInv'
  BY <1>10 DEF ThreadsStarted, notifyStarted, tell, AfterEnsure
<1>11. ASSUME NEW c \in Clients, TakeJoin(c) PROVE TypeInv'
  BY <1>11 DEF TakeJoin
<1>12. ASSUME NEW c \in Clients, EnsureReturn(c) PROVE TypeInv'
  BY <1>12 DEF EnsureReturn, AfterEnsure
<1>13. ASSUME NEW c \in Clients, EnsureSpawn(c) PROVE TypeInv'
  BY <1>13 DEF EnsureSpawn, addThreads, WorkerAt, roomForThread
<1>14. CASE ResizeDown
  <2>1. threadsToStop' \in Nat /\ poisonsLeft' \in Nat /\ owed' \in [Clients -> Nat]
    BY <1>14 DEF ResizeDown, removeThreads
  <2>2. minThreads' \in Nat
    BY <1>14 DEF ResizeDown, Smaller
  <2>3. isJoin' \in BOOLEAN
    BY <1>14 DEF ResizeDown, removeThreads
  <2>4. UNCHANGED <<maxThreads, activeThreads, threadsToJoin, stoppedThreads, threadListLock,
                    target, newThreads, workers, queue, op, snap, need, ctask, rest>>
    BY <1>14 DEF ResizeDown
  <2>5. cpc' = [cpc EXCEPT ![Manager] = "poison"]
    BY <1>14 DEF ResizeDown
  <2> QED
    BY <2>1, <2>2, <2>3, <2>4, <2>5
<1>15. CASE ResizeUp
  BY <1>15, SMTT(30) DEF ResizeUp, addThreads, numToAdd, WorkerAt, Smaller
<1>16. CASE PoisonEnqueue
  BY <1>16 DEF PoisonEnqueue, Push
<1>17. CASE PoisonPost
  <2>1. CASE \E w \in Workers : PostWakes(w)
    <3> PICK w \in Workers : PostWakes(w)
      BY <2>1
    <3> QED
      BY <1>17 DEF PoisonPost, PostWakes, Waiters, WorkerAt
  <2>2. CASE PostKeeps
    BY <1>17, <2>2 DEF PoisonPost, PostKeeps
  <2> QED
    BY <1>17, <2>1, <2>2 DEF PoisonPost
<1>18. CASE ResizeDownDone
  BY <1>18 DEF ResizeDownDone
<1>19. CASE ensureMaxActiveThreads
  BY <1>19 DEF ensureMaxActiveThreads
<1>20. CASE KeepAliveJoined
  BY <1>20 DEF KeepAliveJoined
<1>21. CASE TakeOverDone
  BY <1>21 DEF TakeOverDone
<1>22. CASE Destroy
  BY <1>22 DEF Destroy
<1>23. CASE TakeOver
  <2>1. Cardinality(threadList) \in Nat
    BY WorkersAssumption, FS_Subset, FS_CardinalityType
  <2> QED
    BY <1>23, <2>1 DEF TakeOver, removeThreads
<1>24. ASSUME NEW w \in Workers, Start(w) PROVE TypeInv'
  BY <1>24 DEF Start
<1>25. ASSUME NEW w \in Workers, SemTake(w) PROVE TypeInv'
  BY <1>25 DEF SemTake
<1>26. ASSUME NEW w \in Workers, SemWait(w) PROVE TypeInv'
  BY <1>26 DEF SemWait
<1>27. ASSUME NEW w \in Workers, Dequeue(w) PROVE TypeInv'
  BY <1>27 DEF Dequeue
<1>28. ASSUME NEW w \in Workers, RunTask(w) PROVE TypeInv'
  BY <1>28 DEF RunTask
<1>29. ASSUME NEW w \in Workers, AfterTask(w) PROVE TypeInv'
  BY <1>29 DEF AfterTask
<1>30. ASSUME NEW w \in Workers, TimeoutUndo(w) PROVE TypeInv'
  BY <1>30 DEF TimeoutUndo
<1>31. ASSUME NEW w \in Workers, Retire(w) PROVE TypeInv'
  BY <1>31 DEF Retire, Leave, notifyStopped, tell
<1>32. ASSUME NEW w \in Workers, StopAfterTask(w) PROVE TypeInv'
  BY <1>32 DEF StopAfterTask, Leave, tryDecrToStop
<1>33. ASSUME NEW w \in Workers, StopIdle(w) PROVE TypeInv'
  BY <1>33 DEF StopIdle, Leave, tryDecrToStop, notifyStopped, tell
<1>34. ASSUME NEW w \in Workers, Stay(w) PROVE TypeInv'
  BY <1>34 DEF Stay, minActive
<1>35. ASSUME NEW w \in Workers, TimeoutBegin(w) PROVE TypeInv'
  BY <1>35 DEF TimeoutBegin, minActive
<1>36. ASSUME NEW w \in Workers, SemTimeout(w) PROVE TypeInv'
  BY <1>36 DEF SemTimeout
<1>37. ASSUME NEW p \in Producers, NEW t \in Tasks, AddBegin(p, t) PROVE TypeInv'
  BY <1>37 DEF AddBegin
<1>38. ASSUME NEW n \in Sizes, SetNumThreads(n) PROVE TypeInv'
  BY <1>38 DEF SetNumThreads, getPendingTaskCount
<1>39. ASSUME NEW o \in Observers, AddObserver(o) PROVE TypeInv'
  BY <1>39 DEF AddObserver, tell
<1>40. ASSUME NEW o \in Observers, RemoveObserver(o) PROVE TypeInv'
  BY <1>40 DEF RemoveObserver, tell
<1>41. ASSUME NEW kind \in ShutdownKinds, Shutdown(kind) PROVE TypeInv'
  BY <1>41 DEF Shutdown
<1>42. ASSUME NEW p \in Producers, AddLoad(p) PROVE TypeInv'
  <2>1. UNCHANGED <<pool, workers, queue, op, need, ctask, owed, rest>>
    BY <1>42 DEF AddLoad
  <2>3. \E n \in Nat : snap' = [snap EXCEPT ![p] = n]
    BY <1>42 DEF AddLoad
  <2>2. \E to \in {"decide", "compare"} : cpc[p] = "load" /\ cpc' = [cpc EXCEPT ![p] = to]
    BY <1>42 DEF AddLoad
  <2> QED
    BY <2>1, <2>2, <2>3
<1>43. CASE StoreMax
  BY <1>43 DEF StoreMax
<1>44. CASE UNCHANGED vars
  BY <1>44
<1> QED
  BY <1>1, <1>2, <1>3, <1>4, <1>5, <1>6, <1>7, <1>8, <1>9, <1>10, <1>11, <1>12,
     <1>13, <1>14, <1>15, <1>16, <1>17, <1>18, <1>19, <1>20, <1>21, <1>22,
     <1>23, <1>24, <1>25, <1>26, <1>27, <1>28, <1>29, <1>30, <1>31, <1>32,
     <1>33, <1>34, <1>35, <1>36, <1>37, <1>38, <1>39, <1>40, <1>41, <1>42,
     <1>43, <1>44
  DEF Next, Environment, ClientStep, ClientLock, AddStep, ManagerStep, WorkerStep, WorkerLock,
      Terminated

LEMMA TypeInit == Init => TypeInv
<1> SUFFICES ASSUME Init PROVE TypeInv
  OBVIOUS
<1>1. InitialThreads \in Nat
  BY SizesAssumption DEF InitialThreads, Smaller
<1>2. TypeOK
  <2>1. /\ maxThreads \in Nat /\ minThreads \in Nat /\ activeThreads \in Nat
        /\ threadList \subseteq Workers
    BY <1>1, SizesAssumption DEF Init
  <2>2. wpc \in [Workers -> WorkerPCs]
    BY DEF Init, WorkerPCs
  <2>3. /\ cpc \in [Clients -> ClientPCs] /\ op \in Ops
        /\ need \in [Clients -> BOOLEAN] /\ isJoin \in BOOLEAN
    BY DEF Init, ClientPCs, Ops
  <2>4. taskQueue \in Seq(Tasks \cup {Poison})
    BY DEF Init
  <2> QED
    BY <2>1, <2>2, <2>3, <2>4 DEF Init, TypeOK
<1>3. /\ \A w \in Workers : wpc[w] \in {"loop", "none"}
      /\ \A c \in Clients : cpc[c] = "idle"
  BY DEF Init
<1> QED
  BY <1>2, <1>3 DEF TypeInv, Clients

\* Every variable of the pool keeps its type; in particular no counter that the
\* code decrements without a check of its own ever passes below zero.
THEOREM TypeCorrect == Spec => []TypeOK
<1>1. TypeInv => TypeOK
  BY DEF TypeInv
<1> QED
  BY TypeInit, TypeStep, <1>1, PTL DEF Spec

---------------------------------------------------------------------------
(* The ledger of joins *)

LEMMA DisjointUnion ==
  ASSUME NEW S, IsFiniteSet(S), NEW T, IsFiniteSet(T), S \cap T = {}
  PROVE  /\ IsFiniteSet(S \cup T)
         /\ Cardinality(S \cup T) = Cardinality(S) + Cardinality(T)
<1>1. Cardinality(S \cap T) = 0
  BY FS_EmptySet
<1>2. Cardinality(S) \in Nat /\ Cardinality(T) \in Nat
  BY FS_CardinalityType
<1>3. /\ IsFiniteSet(S \cup T)
      /\ Cardinality(S \cup T) = Cardinality(S) + Cardinality(T) - Cardinality(S \cap T)
  BY FS_Union
<1> QED
  BY <1>1, <1>2, <1>3

\* Setting one client's debt changes the number of claims by the difference.
LEMMA ClaimsChange ==
  ASSUME NEW f \in [Clients -> Nat], NEW c \in Clients, NEW k \in Nat,
         IsFiniteSet(ClaimsOf(f))
  PROVE  LET g == [f EXCEPT ![c] = k]
         IN  /\ IsFiniteSet(ClaimsOf(g))
             /\ Cardinality(ClaimsOf(g)) = Cardinality(ClaimsOf(f)) - f[c] + k
<1> DEFINE g == [f EXCEPT ![c] = k]
           A == {c} \X (1 .. f[c])
           B == {c} \X (1 .. k)
           R == ClaimsOf(f) \ A
<1>1. ClaimsOf(f) = R \cup A /\ R \cap A = {}
  BY DEF ClaimsOf
<1>2. ClaimsOf(g) = R \cup B /\ R \cap B = {}
  <2>1. \A d \in Clients : g[d] = IF d = c THEN k ELSE f[d]
    OBVIOUS
  <2>2. ASSUME NEW x PROVE x \in ClaimsOf(g) <=> x \in R \cup B
    BY <2>1 DEF ClaimsOf
  <2>3. ASSUME NEW x \in R PROVE x \notin B
    BY DEF ClaimsOf
  <2> QED
    BY <2>2, <2>3
<1>3. \A n \in Nat : IsFiniteSet({c} \X (1 .. n)) /\ Cardinality({c} \X (1 .. n)) = n
  <2> TAKE n \in Nat
  <2>1. IsFiniteSet(1 .. n) /\ Cardinality(1 .. n) = n
    BY FS_Interval
  <2>2. IsFiniteSet({c}) /\ Cardinality({c}) = 1
    BY FS_Singleton
  <2> QED
    BY <2>1, <2>2, FS_Product, 1 * n = n
<1>4. IsFiniteSet(A) /\ Cardinality(A) = f[c] /\ IsFiniteSet(B) /\ Cardinality(B) = k
  BY <1>3
<1>5. IsFiniteSet(R) /\ Cardinality(R) \in Nat
  BY FS_Subset, FS_CardinalityType
<1> HIDE DEF g, A, B, R
<1>6. Cardinality(R \cup A) = Cardinality(R) + f[c]
  BY <1>1, <1>4, <1>5, DisjointUnion
<1>7. IsFiniteSet(R \cup B) /\ Cardinality(R \cup B) = Cardinality(R) + k
  BY <1>2, <1>4, <1>5, DisjointUnion
<1>8. /\ IsFiniteSet(ClaimsOf(g))
      /\ Cardinality(ClaimsOf(g)) = Cardinality(ClaimsOf(f)) - f[c] + k
  BY <1>1, <1>2, <1>5, <1>6, <1>7
<1> QED
  BY <1>8 DEF g

\* A client has claims only while it is joining, or about to.
LedgerInv ==
  /\ IsFiniteSet(Claims)
  /\ JoinLedger
  /\ \A c \in Clients : owed[c] # 0 => cpc[c] \in {"poison", "poisonPost", "join"}

LEMMA LedgerInit == Init => LedgerInv
<1> SUFFICES ASSUME Init PROVE LedgerInv
  OBVIOUS
<1>1. \A c \in Clients : owed[c] = 0
  BY DEF Init
<1>2. ASSUME NEW x PROVE x \notin Claims
  BY <1>1 DEF Claims, ClaimsOf
<1>3. Claims = {}
  BY <1>2
<1> QED
  BY <1>1, <1>3, FS_EmptySet DEF LedgerInv, JoinLedger, Init

LEMMA LedgerStep == TypeInv /\ LedgerInv /\ [Next]_vars => LedgerInv'
<1> SUFFICES ASSUME TypeInv, LedgerInv, [Next]_vars PROVE LedgerInv'
  OBVIOUS
<1> DEFINE Claimed == {"poison", "poisonPost", "join"}
           n == Cardinality(Claims)
<1>0. /\ n \in Nat
      /\ threadsToJoin \in Nat /\ stoppedThreads \in Nat /\ threadsToStop \in Nat
      /\ owed \in [Clients -> Nat] /\ cpc \in [Clients -> ClientPCs]
      /\ n + threadsToJoin = stoppedThreads + threadsToStop
  BY FS_CardinalityType DEF TypeInv, TypeOK, LedgerInv, JoinLedger
\* What a step has to show when it changes the debt of one client ...
<1>1. ASSUME NEW c \in Clients, NEW k \in Nat, owed' = [owed EXCEPT ![c] = k],
             n - owed[c] + k + threadsToJoin' = stoppedThreads' + threadsToStop',
             NEW to, cpc' = [cpc EXCEPT ![c] = to], k # 0 => to \in Claimed
      PROVE  LedgerInv'
  <2>1. /\ IsFiniteSet(ClaimsOf(owed'))
        /\ Cardinality(ClaimsOf(owed')) = n - owed[c] + k
    BY <1>0, <1>1, ClaimsChange DEF LedgerInv, Claims
  <2>2. \A d \in Clients : owed'[d] # 0 => cpc'[d] \in Claimed
    BY <1>0, <1>1 DEF LedgerInv
  <2> QED
    BY <1>1, <2>1, <2>2 DEF LedgerInv, JoinLedger, Claims
\* ... and when it changes none.
<1>2. ASSUME owed' = owed, threadsToJoin' - stoppedThreads' - threadsToStop' = - n,
             threadsToJoin' \in Nat, stoppedThreads' \in Nat, threadsToStop' \in Nat,
             \A c \in Clients : cpc'[c] = cpc[c] \/ cpc'[c] \in Claimed \/ owed[c] = 0
      PROVE  LedgerInv'
  BY <1>0, <1>2 DEF LedgerInv, JoinLedger, Claims
<1> HIDE DEF n
<1>3. ASSUME NEW c \in Clients, TakeJoin(c) PROVE LedgerInv'
  <2>1. owed' = [owed EXCEPT ![c] = threadsToJoin] /\ cpc' = [cpc EXCEPT ![c] = "join"]
    BY <1>3 DEF TakeJoin, Step, Goto
  <2>2. n - owed[c] + threadsToJoin + threadsToJoin' = stoppedThreads' + threadsToStop'
    BY <1>0, <1>3 DEF TakeJoin, Step, LedgerInv
  <2> QED
    BY <1>0, <1>1, <2>1, <2>2
<1>4. ASSUME NEW c \in Clients, JoinOne(c) PROVE LedgerInv'
  <2>1. owed' = [owed EXCEPT ![c] = owed[c] - 1] /\ cpc' = [cpc EXCEPT ![c] = "join"]
    BY <1>0, <1>4 DEF JoinOne
  <2>2. owed[c] - 1 \in Nat
    BY <1>0, <1>4 DEF JoinOne
  <2>3. n - owed[c] + (owed[c] - 1) + threadsToJoin' = stoppedThreads' + threadsToStop'
    BY <1>0, <1>4 DEF JoinOne
  <2> QED
    BY <1>1, <2>1, <2>2, <2>3
<1>5. CASE ResizeDown
  <2> DEFINE k == activeThreads - target
  <2>1. k \in Nat
    BY <1>5 DEF ResizeDown, TypeInv, TypeOK
  <2>2. owed' = [owed EXCEPT ![Manager] = k] /\ cpc' = [cpc EXCEPT ![Manager] = "poison"]
    BY <1>5 DEF ResizeDown, removeThreads, Step, Goto
  <2>3. n - owed[Manager] + k + threadsToJoin' = stoppedThreads' + threadsToStop'
    BY <1>0, <1>5, <2>1 DEF ResizeDown, removeThreads, Step, LedgerInv, Clients
  <2> HIDE DEF k
  <2> QED
    BY <1>1, <2>1, <2>2, <2>3 DEF Clients
<1>6. CASE TakeOver
  <2> DEFINE k == Cardinality(threadList)
  <2>1. k \in Nat
    BY WorkersAssumption, FS_Subset, FS_CardinalityType DEF TypeInv, TypeOK
  <2>2. owed' = [owed EXCEPT ![Manager] = k] /\ cpc' = [cpc EXCEPT ![Manager] = "poison"]
    BY <1>6 DEF TakeOver, removeThreads, Step, Goto
  <2>3. n - owed[Manager] + k + threadsToJoin' = stoppedThreads' + threadsToStop'
    BY <1>0, <1>6, <2>1 DEF TakeOver, removeThreads, Step, LedgerInv, Clients
  <2> HIDE DEF k
  <2> QED
    BY <1>1, <2>1, <2>2, <2>3 DEF Clients
<1>7. CASE TakeOverDone
  <2> DEFINE k == owed[Manager] + threadsToJoin
  <2>1. k \in Nat
    BY <1>0 DEF Clients
  <2>2. owed' = [owed EXCEPT ![Manager] = k] /\ cpc' = [cpc EXCEPT ![Manager] = "join"]
    BY <1>7 DEF TakeOverDone, Step, Goto
  <2>3. n - owed[Manager] + k + threadsToJoin' = stoppedThreads' + threadsToStop'
    BY <1>0, <1>7, <2>1 DEF TakeOverDone, Clients
  <2> HIDE DEF k
  <2> QED
    BY <1>1, <2>1, <2>2, <2>3 DEF Clients
<1>8. ASSUME NEW w \in Workers, StopAfterTask(w) \/ StopIdle(w) \/ Retire(w) PROVE LedgerInv'
  BY <1>0, <1>2, <1>8 DEF StopAfterTask, StopIdle, Retire, tryDecrToStop, Leave, locals, held
\* No other action touches the ledger; a client leaves joinStoppedThreads without debt.
<1>9. ASSUME NEW c \in Clients,
             \/ EnsureJoined(c) \/ JoinDone(c) \/ EnsureLoad(c) \/ EnsureCheck(c)
             \/ ThreadsStarted(c) \/ EnsureReturn(c) \/ EnsureSpawn(c)
      PROVE  LedgerInv'
  BY <1>0, <1>2, <1>9
  DEF EnsureJoined, JoinDone, EnsureLoad, EnsureCheck, ThreadsStarted, EnsureReturn, EnsureSpawn,
      ControlOnly, pool, leaving, locals, Step, Goto, LedgerInv
<1>10. ASSUME NEW p \in Producers,
              \/ AddLoad(p) \/ AddDecide(p) \/ AddEnqueue(p) \/ AddPost(p) \/ AddRelease(p)
              \/ \E t \in Tasks : AddBegin(p, t)
       PROVE  LedgerInv'
  BY <1>0, <1>2, <1>10
  DEF AddLoad, AddDecide, AddEnqueue, AddPost, AddRelease, AddBegin, pool, leaving,
      locals, Step, Goto, LedgerInv, Clients
<1>11. CASE \/ PoisonEnqueue \/ PoisonPost \/ ResizeDownDone \/ ensureMaxActiveThreads
            \/ KeepAliveJoined \/ Destroy
  BY <1>0, <1>2, <1>11
  DEF PoisonEnqueue, PoisonPost, ResizeDownDone, ensureMaxActiveThreads, KeepAliveJoined,
      Destroy, ControlOnly, pool, leaving, locals, Step, Goto, LedgerInv, Clients
<1>12. ASSUME NEW w \in Workers,
              \/ Start(w) \/ SemTake(w) \/ SemWait(w) \/ SemTimeout(w) \/ Dequeue(w)
              \/ RunTask(w) \/ AfterTask(w) \/ TimeoutUndo(w) \/ Stay(w) \/ TimeoutBegin(w)
       PROVE  LedgerInv'
  BY <1>0, <1>2, <1>12
  DEF Start, SemTake, SemWait, SemTimeout, Dequeue, RunTask, AfterTask, TimeoutUndo, Stay,
      TimeoutBegin, WorkerControlOnly, pool, leaving, locals
<1>13. CASE StoreMax \/ ResizeUp
  BY <1>0, <1>2, <1>13 DEF StoreMax, ResizeUp, leaving, locals, Step, Goto, LedgerInv, Clients
<1>14. CASE \/ \E k \in Sizes : SetNumThreads(k)
            \/ \E o \in Observers : AddObserver(o) \/ RemoveObserver(o)
            \/ \E kind \in ShutdownKinds : Shutdown(kind)
  BY <1>0, <1>2, <1>14
  DEF SetNumThreads, AddObserver, RemoveObserver, tell, Shutdown, ControlOnly, pool, leaving,
      locals, Step, Goto, LedgerInv, Clients
<1>15. CASE UNCHANGED vars
  BY <1>0, <1>2, <1>15 DEF vars, pool, leaving, locals
<1> QED
  BY <1>3, <1>4, <1>5, <1>6, <1>7, <1>8, <1>9, <1>10, <1>11, <1>12, <1>13, <1>14,
     <1>15
  DEF Next, Environment, ClientStep, ClientLock, AddStep, ManagerStep, WorkerStep, WorkerLock,
      Terminated

\* joinStoppedThreads never waits for a thread that nobody will put into
\* stoppedThreads_, and no stopped thread is forgotten, as far as the counts go:
\* the joins owed and still to be claimed equal the threads stopped or to stop.
THEOREM JoinsBalance == Spec => []JoinLedger
<1>1. LedgerInv => JoinLedger
  BY DEF LedgerInv
<1> QED
  BY TypeInit, TypeStep, LedgerInit, LedgerStep, <1>1, PTL DEF Spec

---------------------------------------------------------------------------
(* Who holds threadListLock_, and which threads are in threadList_ *)

LockPCs == {"startup", "resize", "resized", "poison", "poisonPost"}

\* The lock is held exactly at the control points inside a critical section, and
\* threadList_ lists exactly the threads that run.
LockInv ==
  /\ \A c \in Clients : threadListLock = c <=> cpc[c] \in LockPCs
  /\ \A w \in Workers : threadListLock = w <=> wpc[w] = "retire"
  /\ threadList = {w \in Workers : wpc[w] # "none"}
  /\ op \in {"stop", "join", "destroy"} => shutdown # "none"
  /\ cpc[Manager] \in {"drain", "takeOver", "returned"}
       => shutdown # "none" /\ op \in {"stop", "join", "destroy"}
  /\ cpc[Manager] \in {"resize", "resized"} => op = "resize"

LEMMA LockInit == Init => LockInv
  BY ClientsAssumption DEF Init, LockInv, LockPCs, Clients

LEMMA LockStep == TypeInv /\ LockInv /\ [Next]_vars => LockInv'
<1> SUFFICES ASSUME TypeInv, LockInv, [Next]_vars PROVE LockInv'
  OBVIOUS
<1> USE ClientsAssumption, ModeAssumption
    DEF TypeInv, TypeOK, LockInv, LockPCs, Clients, Step, Goto, GotoW, Unlocked, pool, sizing,
        leaving, held, workers, queue, locals, life, rest, ControlOnly, WorkerControlOnly
<1>1. ASSUME NEW p \in Producers, AddDecide(p) PROVE LockInv'
  BY <1>1 DEF AddDecide, Tokens, mayNeedToAddThreads
<1>2. ASSUME NEW p \in Producers, AddEnqueue(p) PROVE LockInv'
  BY <1>2 DEF AddEnqueue, Push
<1>3. ASSUME NEW p \in Producers, AddPost(p) PROVE LockInv'
  BY <1>3 DEF AddPost, PostWakes, PostKeeps, Waiters, WorkerAt
<1>4. ASSUME NEW p \in Producers, AddRelease(p) PROVE LockInv'
  BY <1>4 DEF AddRelease
<1>5. ASSUME NEW c \in Clients, EnsureJoined(c) PROVE LockInv'
  BY <1>5 DEF EnsureJoined
<1>6. ASSUME NEW c \in Clients, JoinOne(c) PROVE LockInv'
  BY <1>6 DEF JoinOne
<1>7. ASSUME NEW c \in Clients, JoinDone(c) PROVE LockInv'
  BY <1>7 DEF JoinDone, AfterJoin
<1>8. ASSUME NEW c \in Clients, EnsureLoad(c) PROVE LockInv'
  BY <1>8 DEF EnsureLoad
<1>9. ASSUME NEW c \in Clients, EnsureCheck(c) PROVE LockInv'
  BY <1>9 DEF EnsureCheck, AfterEnsure
<1>10. ASSUME NEW c \in Clients, ThreadsStarted(c) PROVE LockInv'
  BY <1>10 DEF ThreadsStarted, notifyStarted, AfterEnsure
<1>11. ASSUME NEW c \in Clients, TakeJoin(c) PROVE LockInv'
  BY <1>11 DEF TakeJoin
<1>12. ASSUME NEW c \in Clients, EnsureReturn(c) PROVE LockInv'
  BY <1>12 DEF EnsureReturn, AfterEnsure
<1>13. ASSUME NEW c \in Clients, EnsureSpawn(c) PROVE LockInv'
  BY <1>13 DEF EnsureSpawn, addThreads, WorkerAt, roomForThread
<1>14. CASE ResizeDown
  BY <1>14 DEF ResizeDown, removeThreads, Smaller
<1>15. CASE ResizeUp
  BY <1>15, SMTT(30) DEF ResizeUp, addThreads, numToAdd, WorkerAt, Smaller
<1>16. CASE PoisonEnqueue
  BY <1>16 DEF PoisonEnqueue, Push
<1>17. CASE PoisonPost
  BY <1>17 DEF PoisonPost, PostWakes, PostKeeps, Waiters, WorkerAt
<1>18. CASE ResizeDownDone
  BY <1>18 DEF ResizeDownDone
<1>19. CASE ensureMaxActiveThreads
  BY <1>19 DEF ensureMaxActiveThreads
<1>20. CASE KeepAliveJoined
  BY <1>20 DEF KeepAliveJoined
<1>21. CASE TakeOverDone
  BY <1>21 DEF TakeOverDone
<1>22. CASE Destroy
  BY <1>22 DEF Destroy
<1>23. CASE TakeOver
  BY <1>23 DEF TakeOver, removeThreads
<1>24. ASSUME NEW w \in Workers, Start(w) PROVE LockInv'
  BY <1>24 DEF Start
<1>25. ASSUME NEW w \in Workers, SemTake(w) PROVE LockInv'
  BY <1>25 DEF SemTake
<1>26. ASSUME NEW w \in Workers, SemWait(w) PROVE LockInv'
  BY <1>26 DEF SemWait
<1>27. ASSUME NEW w \in Workers, Dequeue(w) PROVE LockInv'
  BY <1>27 DEF Dequeue
<1>28. ASSUME NEW w \in Workers, RunTask(w) PROVE LockInv'
  BY <1>28 DEF RunTask
<1>29. ASSUME NEW w \in Workers, AfterTask(w) PROVE LockInv'
  BY <1>29 DEF AfterTask
<1>30. ASSUME NEW w \in Workers, TimeoutUndo(w) PROVE LockInv'
  BY <1>30 DEF TimeoutUndo
<1>31. ASSUME NEW w \in Workers, Retire(w) PROVE LockInv'
  BY <1>31 DEF Retire, Leave, notifyStopped
<1>32. ASSUME NEW w \in Workers, StopAfterTask(w) PROVE LockInv'
  BY <1>32 DEF StopAfterTask, Leave, tryDecrToStop
<1>33. ASSUME NEW w \in Workers, StopIdle(w) PROVE LockInv'
  BY <1>33 DEF StopIdle, Leave, tryDecrToStop, notifyStopped
<1>34. ASSUME NEW w \in Workers, Stay(w) PROVE LockInv'
  BY <1>34 DEF Stay, minActive
<1>35. ASSUME NEW w \in Workers, TimeoutBegin(w) PROVE LockInv'
  BY <1>35 DEF TimeoutBegin, minActive
<1>36. ASSUME NEW w \in Workers, SemTimeout(w) PROVE LockInv'
  BY <1>36 DEF SemTimeout
<1>37. ASSUME NEW p \in Producers, NEW t \in Tasks, AddBegin(p, t) PROVE LockInv'
  BY <1>37 DEF AddBegin
<1>38. ASSUME NEW n \in Sizes, SetNumThreads(n) PROVE LockInv'
  BY <1>38 DEF SetNumThreads
<1>39. ASSUME NEW o \in Observers, AddObserver(o) \/ RemoveObserver(o) PROVE LockInv'
  <2>1. CASE AddObserver(o)
    BY <2>1, SMTT(30) DEF AddObserver
  <2>2. CASE RemoveObserver(o)
    BY <2>2, SMTT(30) DEF RemoveObserver
  <2> QED
    BY <1>39, <2>1, <2>2
<1>40. ASSUME NEW kind \in ShutdownKinds, Shutdown(kind) PROVE LockInv'
  BY <1>40 DEF Shutdown
<1>41. ASSUME NEW p \in Producers, AddLoad(p) PROVE LockInv'
  BY <1>41 DEF AddLoad
<1>42. CASE StoreMax
  BY <1>42 DEF StoreMax
<1>43. CASE UNCHANGED vars
  BY <1>43 DEF vars
<1> QED
  BY <1>1, <1>2, <1>3, <1>4, <1>5, <1>6, <1>7, <1>8, <1>9, <1>10, <1>11, <1>12,
     <1>13, <1>14, <1>15, <1>16, <1>17, <1>18, <1>19, <1>20, <1>21, <1>22,
     <1>23, <1>24, <1>25, <1>26, <1>27, <1>28, <1>29, <1>30, <1>31, <1>32,
     <1>33, <1>34, <1>35, <1>36, <1>37, <1>38, <1>39, <1>40, <1>41, <1>42,
     <1>43
  DEF Next, Environment, ClientStep, ClientLock, AddStep, ManagerStep, WorkerStep, WorkerLock,
      Terminated

---------------------------------------------------------------------------
(* The account of threads *)

resizing == cpc[Manager] = "resized"

\* Only between the two stores of setNumThreads may there be more threads than the
\* maximum; it is then the number asked for.
AccountInv ==
  /\ ThreadAccounting
  /\ IF resizing THEN maxThreads = target ELSE accountedThreads <= maxThreads

\* accountedThreads at each control point of the lock's holder.
AccountCases ==
  /\ Unlocked => accountedThreads = activeThreads /\ ~resizing
  /\ \A c \in Clients : cpc[c] = "startup" => accountedThreads = target /\ ~resizing
  /\ \A w \in Workers : wpc[w] = "retire" => accountedThreads = activeThreads + 1 /\ ~resizing
  /\ cpc[Manager] \in {"resize", "resized"} => accountedThreads = activeThreads
  /\ cpc[Manager] \in {"poison", "poisonPost"}
       => accountedThreads = IF op = "resize" THEN target ELSE activeThreads

LEMMA AccountCasesHold == TypeInv /\ LockInv => AccountCases
<1> SUFFICES ASSUME TypeInv, LockInv PROVE AccountCases
  OBVIOUS
<1> USE ClientsAssumption DEF LockInv, LockPCs, Clients, resizing
<1>1. ASSUME Unlocked PROVE accountedThreads = activeThreads /\ ~resizing
  BY <1>1 DEF Unlocked, accountedThreads
<1>2. ASSUME NEW c \in Clients, cpc[c] = "startup"
      PROVE  accountedThreads = target /\ ~resizing
  BY <1>2 DEF accountedThreads
<1>3. ASSUME NEW w \in Workers, wpc[w] = "retire"
      PROVE  accountedThreads = activeThreads + 1 /\ ~resizing
  BY <1>3 DEF accountedThreads
<1>4. ASSUME cpc[Manager] \in {"resize", "resized"} PROVE accountedThreads = activeThreads
  BY <1>4 DEF accountedThreads
<1>5. ASSUME cpc[Manager] \in {"poison", "poisonPost"}
      PROVE  accountedThreads = IF op = "resize" THEN target ELSE activeThreads
  BY <1>5 DEF accountedThreads
<1> QED
  BY <1>1, <1>2, <1>3, <1>4, <1>5 DEF AccountCases

LEMMA AccountInit == Init => AccountInv
<1> SUFFICES ASSUME Init PROVE AccountInv
  OBVIOUS
<1>1. accountedThreads = activeThreads
  BY TypeInit, LockInit, AccountCasesHold DEF Init, AccountCases, Unlocked
<1> QED
  BY <1>1, SizesAssumption, ClientsAssumption
  DEF Init, Clients, AccountInv, ThreadAccounting, InitialThreads, Smaller, resizing

LEMMA AccountStep ==
  TypeInv /\ LockInv /\ TypeInv' /\ LockInv' /\ AccountInv /\ [Next]_vars => AccountInv'
<1> SUFFICES ASSUME TypeInv, LockInv, TypeInv', LockInv', AccountInv, [Next]_vars
             PROVE  AccountInv'
  OBVIOUS
<1> DEFINE size == Cardinality(threadList)
<1>1. AccountCases /\ AccountCases'
  BY AccountCasesHold, PTL
<1>2. /\ IsFiniteSet(threadList) /\ size \in Nat
      /\ activeThreads \in Nat /\ target \in Nat /\ maxThreads \in Nat /\ threadsToStop \in Nat
  BY WorkersAssumption, FS_Subset, FS_CardinalityType DEF TypeInv, TypeOK
<1>3. /\ accountedThreads \in Nat
      /\ size <= accountedThreads + threadsToStop
      /\ shutdown = "none" => size = accountedThreads + threadsToStop
      /\ IF resizing THEN maxThreads = target ELSE accountedThreads <= maxThreads
  <2>1. accountedThreads \in Nat
    BY <1>2 DEF accountedThreads
  <2> QED
    BY <2>1 DEF AccountInv, ThreadAccounting
\* A step that leaves the account and the list alone.
<1>4. ASSUME UNCHANGED <<activeThreads, target, maxThreads, threadsToStop, threadList>>,
             shutdown' = "none" => shutdown = "none",
             resizing' <=> resizing,
             \A c \in Clients : cpc'[c] = "startup" <=> cpc[c] = "startup",
             \A w \in Workers : wpc'[w] = "retire" <=> wpc[w] = "retire",
             (cpc'[Manager] \in {"poison", "poisonPost"} /\ op' = "resize")
               <=> (cpc[Manager] \in {"poison", "poisonPost"} /\ op = "resize")
      PROVE  AccountInv'
  <2>1. accountedThreads' = accountedThreads
    BY <1>4 DEF accountedThreads
  <2> QED
    BY <1>3, <1>4, <2>1 DEF AccountInv, ThreadAccounting
\* Threads join the list ...
<1>5. ASSUME NEW k \in Nat, addThreads(k)
      PROVE  Cardinality(threadList') = size + k
  <2>1. PICK S \in SUBSET WorkerAt({"none"}) :
               Cardinality(S) = k /\ threadList' = threadList \cup S
    BY <1>5 DEF addThreads
  <2>2. IsFiniteSet(S)
    BY WorkersAssumption, FS_Subset DEF WorkerAt
  <2>3. threadList \cap S = {}
    BY DEF LockInv, WorkerAt
  <2> QED
    BY <1>2, <2>1, <2>2, <2>3, DisjointUnion
\* ... and leave it.
<1>6. ASSUME NEW w \in Workers, wpc[w] # "none", Leave(w)
      PROVE  Cardinality(threadList') = size - 1
  <2>1. w \in threadList
    BY <1>6 DEF LockInv
  <2>2. threadList' = threadList \ {w}
    BY <1>6 DEF Leave
  <2>3. Cardinality(threadList \ {w}) = Cardinality(threadList) - 1
    BY <1>2, <2>1, FS_RemoveElement
  <2> QED
    BY <2>2, <2>3
<1> USE ClientsAssumption DEF Clients
<1> HIDE DEF size
<1>7. ASSUME NEW c \in Clients, EnsureSpawn(c) PROVE AccountInv'
  <2>1. /\ accountedThreads = activeThreads /\ accountedThreads' = activeThreads + 1
        /\ ~resizing /\ ~resizing'
    BY <1>1, <1>7 DEF EnsureSpawn, AccountCases, Step, Goto, TypeInv, TypeOK
  <2>2. Cardinality(threadList') = size + 1
    BY <1>5, <1>7 DEF EnsureSpawn
  <2>3. UNCHANGED <<maxThreads, threadsToStop, shutdown>> /\ activeThreads < maxThreads
    BY <1>7 DEF EnsureSpawn, roomForThread, sizing, leaving, rest, life
  <2> QED
    BY <1>2, <1>3, <2>1, <2>2, <2>3 DEF AccountInv, ThreadAccounting
<1>8. ASSUME NEW c \in Clients, ThreadsStarted(c) PROVE AccountInv'
  <2>1. /\ accountedThreads = target /\ accountedThreads' = target
        /\ ~resizing /\ ~resizing'
    BY <1>1, <1>8 DEF ThreadsStarted, AccountCases, Unlocked, Step
  <2> QED
    BY <1>3, <1>8, <2>1 DEF ThreadsStarted, leaving, workers, life, AccountInv, ThreadAccounting
<1>9. CASE ResizeDown
  <2>1. /\ accountedThreads = activeThreads /\ accountedThreads' = target
        /\ resizing /\ ~resizing'
    BY <1>1, <1>9 DEF ResizeDown, AccountCases, Step, Goto, TypeInv, TypeOK, LockInv, resizing
  <2>2. threadsToStop' = threadsToStop + (activeThreads - target) /\ maxThreads' = target
    BY <1>3, <1>9, <2>1 DEF ResizeDown, removeThreads
  <2>3. UNCHANGED <<threadList, shutdown>>
    BY <1>9 DEF ResizeDown, workers, rest, life
  <2> QED
    BY <1>2, <1>3, <2>1, <2>2, <2>3 DEF AccountInv, ThreadAccounting
<1>10. CASE ResizeUp
  <2> DEFINE k == numToAdd(snap[Manager], minThreads')
  <2>1. k \in Nat /\ activeThreads + k <= target
    <3>1. minThreads' \in Nat /\ minThreads' <= target /\ activeThreads <= target
      BY <1>2, <1>10, SMTT(30) DEF ResizeUp, Smaller, TypeInv, TypeOK
    <3>2. snap[Manager] \in Nat
      BY DEF TypeInv, TypeOK
    <3> QED
      BY <1>2, <1>10, <3>1, <3>2 DEF ResizeUp, numToAdd, Smaller
  <2>2. /\ addThreads(k) /\ target' = activeThreads + k /\ maxThreads' = target
        /\ resizing /\ ~resizing'
    BY <1>3, <1>10 DEF ResizeUp, Step, Goto, TypeInv, TypeOK, resizing
  <2> HIDE DEF k
  <2>3. Cardinality(threadList') = size + k
    BY <1>5, <2>1, <2>2
  <2>4. accountedThreads = activeThreads /\ accountedThreads' = activeThreads + k
    BY <1>1, <1>10, <2>2 DEF ResizeUp, AccountCases, Step, Goto, TypeInv, TypeOK
  <2>5. UNCHANGED <<threadsToStop, shutdown>>
    BY <1>10 DEF ResizeUp, leaving, rest, life
  <2> QED
    BY <1>2, <1>3, <2>1, <2>2, <2>3, <2>4, <2>5 DEF AccountInv, ThreadAccounting
<1>11. CASE ResizeDownDone
  <2>1. /\ accountedThreads = target /\ accountedThreads' = target
        /\ ~resizing /\ ~resizing'
    BY <1>1, <1>11 DEF ResizeDownDone, AccountCases, Unlocked, Step, resizing
  <2> QED
    BY <1>3, <1>11, <2>1
    DEF ResizeDownDone, leaving, workers, rest, life, AccountInv, ThreadAccounting
<1>12. CASE TakeOver
  <2>1. /\ accountedThreads' = 0
        /\ ~resizing /\ ~resizing'
    BY <1>1, <1>12 DEF TakeOver, AccountCases, Step, Goto, TypeInv, TypeOK, LockInv, locals, resizing
  <2>2. threadsToStop' = threadsToStop + size /\ maxThreads' = 0
    BY <1>12 DEF TakeOver, removeThreads, size
  <2>3. UNCHANGED <<threadList, shutdown>> /\ shutdown # "none"
    BY <1>12 DEF TakeOver, workers, rest, life, Step, LockInv
  <2> QED
    BY <1>2, <2>1, <2>2, <2>3 DEF AccountInv, ThreadAccounting, size
<1>13. CASE TakeOverDone
  <2>1. /\ accountedThreads = activeThreads /\ accountedThreads' = activeThreads
        /\ ~resizing /\ ~resizing'
    BY <1>1, <1>13 DEF TakeOverDone, AccountCases, Unlocked, Step, sizing, resizing
  <2> QED
    BY <1>3, <1>13, <2>1
    DEF TakeOverDone, sizing, workers, rest, life, AccountInv, ThreadAccounting
<1>14. ASSUME NEW w \in Workers, StopAfterTask(w) \/ StopIdle(w) PROVE AccountInv'
  <2>1. /\ accountedThreads = activeThreads /\ accountedThreads' = activeThreads
        /\ ~resizing /\ ~resizing'
    BY <1>1, <1>14 DEF StopAfterTask, StopIdle, AccountCases, Unlocked, sizing, held
  <2>2. Cardinality(threadList') = size - 1
    BY <1>6, <1>14 DEF StopAfterTask, StopIdle
  <2>3. threadsToStop' = threadsToStop - 1 /\ threadsToStop > 0 /\ UNCHANGED <<maxThreads, shutdown>>
    BY <1>14 DEF StopAfterTask, StopIdle, tryDecrToStop, sizing, rest, life
  <2> QED
    BY <1>2, <1>3, <2>1, <2>2, <2>3 DEF AccountInv, ThreadAccounting
<1>15. ASSUME NEW w \in Workers, TimeoutBegin(w) \/ TimeoutUndo(w) PROVE AccountInv'
  <2>1. accountedThreads' = accountedThreads /\ ~resizing /\ ~resizing'
    <3>1. CASE TimeoutBegin(w)
      <4>1. wpc'[w] = "retire" /\ activeThreads' = activeThreads - 1
        BY <3>1 DEF TimeoutBegin, GotoW, TypeInv, TypeOK
      <4>2. accountedThreads' = activeThreads' + 1
        BY <1>1, <4>1 DEF AccountCases
      <4>3. accountedThreads = activeThreads /\ ~resizing /\ ~resizing'
        BY <1>1, <3>1, <4>1 DEF TimeoutBegin, AccountCases
      <4> QED
        BY <1>2, <4>1, <4>2, <4>3
    <3>2. CASE TimeoutUndo(w)
      BY <1>1, <1>2, <3>2 DEF TimeoutUndo, AccountCases, Unlocked, GotoW
    <3> QED
      BY <1>15, <3>1, <3>2
  <2> QED
    BY <1>3, <1>15, <2>1
    DEF TimeoutBegin, TimeoutUndo, leaving, rest, life, AccountInv, ThreadAccounting
<1>16. ASSUME NEW w \in Workers, Retire(w) PROVE AccountInv'
  <2>1. /\ accountedThreads = activeThreads + 1 /\ accountedThreads' = activeThreads
        /\ ~resizing /\ ~resizing'
    BY <1>1, <1>16 DEF Retire, AccountCases, Unlocked, sizing
  <2>2. Cardinality(threadList') = size - 1
    BY <1>6, <1>16 DEF Retire
  <2> QED
    BY <1>2, <1>3, <1>16, <2>1, <2>2 DEF Retire, sizing, life, AccountInv, ThreadAccounting
\* The rest leaves account and list alone.
<1>17. ASSUME NEW c \in Clients,
              \/ EnsureJoined(c) \/ JoinOne(c) \/ JoinDone(c) \/ EnsureLoad(c)
              \/ EnsureCheck(c) \/ TakeJoin(c) \/ EnsureReturn(c)
       PROVE  AccountInv'
  <2> USE <1>4 DEF ControlOnly, pool, sizing, leaving, held, workers, locals, rest, life, Step,
                   Goto, TypeInv, TypeOK, resizing
  <2>1. CASE EnsureJoined(c)
    BY <2>1, ZenonT(30) DEF EnsureJoined
  <2>2. CASE JoinOne(c)
    BY <2>2, ZenonT(30) DEF JoinOne
  <2>3. CASE JoinDone(c)
    BY <2>3, ZenonT(30) DEF JoinDone, AfterJoin
  <2>4. CASE EnsureLoad(c)
    BY <2>4, ZenonT(30) DEF EnsureLoad
  <2>5. CASE EnsureCheck(c)
    BY <2>5, ZenonT(30) DEF EnsureCheck, AfterEnsure
  <2>6. CASE TakeJoin(c)
    BY <2>6, ZenonT(30) DEF TakeJoin
  <2>7. CASE EnsureReturn(c)
    BY <2>7, ZenonT(30) DEF EnsureReturn, AfterEnsure
  <2> QED
    BY <1>17, <2>1, <2>2, <2>3, <2>4, <2>5, <2>6, <2>7
<1>18. ASSUME NEW p \in Producers,
              \/ AddLoad(p) \/ AddDecide(p) \/ AddEnqueue(p) \/ AddPost(p) \/ AddRelease(p)
              \/ \E t \in Tasks : AddBegin(p, t)
       PROVE  AccountInv'
  <2> USE <1>4 DEF pool, sizing, leaving, held, workers, locals, rest, life, Step, Goto, TypeInv,
                   TypeOK, resizing
  <2>1. CASE AddLoad(p)
    BY <2>1, ZenonT(30) DEF AddLoad
  <2>2. CASE AddDecide(p)
    BY <2>2, ZenonT(30) DEF AddDecide
  <2>3. CASE AddEnqueue(p)
    BY <2>3, ZenonT(30) DEF AddEnqueue
  <2>4. CASE AddPost(p)
    BY <2>4, ZenonT(30) DEF AddPost, PostWakes, PostKeeps, Waiters, WorkerAt
  <2>5. CASE AddRelease(p)
    BY <2>5, ZenonT(30) DEF AddRelease
  <2>6. ASSUME NEW t \in Tasks, AddBegin(p, t) PROVE AccountInv'
    <3>1. cpc' = [cpc EXCEPT ![p] = "decide"] \/ cpc' = [cpc EXCEPT ![p] = "load"]
      BY <2>6 DEF AddBegin
    <3>2. UNCHANGED <<pool, threadList, wpc, op, shutdown>>
      BY <2>6 DEF AddBegin
    <3>3. cpc[p] = "idle"
      BY <2>6 DEF AddBegin
    <3> QED
      BY <3>1, <3>2, <3>3, ZenonT(30)
  <2> QED
    BY <1>18, <2>1, <2>2, <2>3, <2>4, <2>5, <2>6
<1>19. CASE \/ PoisonEnqueue \/ ensureMaxActiveThreads \/ KeepAliveJoined \/ Destroy
            \/ \E o \in Observers : AddObserver(o) \/ RemoveObserver(o)
            \/ \E kind \in ShutdownKinds : Shutdown(kind)
  BY <1>4, <1>19, ZenonT(30)
  DEF PoisonEnqueue, ensureMaxActiveThreads, KeepAliveJoined, Destroy, AddObserver,
      RemoveObserver, Shutdown, ControlOnly, pool, sizing, leaving, held, workers, locals, rest,
      life, Step, Goto, TypeInv, TypeOK, resizing
<1>20. CASE PoisonPost
  BY <1>4, <1>20
  DEF PoisonPost, PostWakes, PostKeeps, Waiters, WorkerAt, sizing, leaving, locals, rest, life,
      Step, Goto, TypeInv, TypeOK, resizing
<1>21. ASSUME NEW k \in Sizes, SetNumThreads(k) PROVE AccountInv'
  <2>1. accountedThreads = activeThreads /\ accountedThreads' = activeThreads
    BY <1>1, <1>21 DEF SetNumThreads, AccountCases, Step, Goto, sizing, TypeInv, TypeOK
  <2>2. ~resizing /\ ~resizing'
    BY <1>21 DEF SetNumThreads, Step, Goto, TypeInv, TypeOK, resizing
  <2> QED
    BY <1>3, <1>21, <2>1, <2>2
    DEF SetNumThreads, sizing, leaving, workers, life, AccountInv, ThreadAccounting
<1>22. ASSUME NEW w \in Workers,
              \/ Start(w) \/ SemTake(w) \/ SemWait(w) \/ SemTimeout(w) \/ Dequeue(w)
              \/ RunTask(w) \/ AfterTask(w) \/ Stay(w)
       PROVE  AccountInv'
  BY <1>4, <1>22, ZenonT(30)
  DEF Start, SemTake, SemWait, SemTimeout, Dequeue, RunTask, AfterTask, Stay, GotoW,
      WorkerControlOnly, pool, sizing, leaving, held, locals, rest, life, TypeInv, TypeOK, resizing
<1>23. CASE StoreMax
  <2>1. accountedThreads = activeThreads /\ accountedThreads' = activeThreads
    BY <1>1, <1>23 DEF StoreMax, AccountCases, Step, Goto, TypeInv, TypeOK
  <2>2. resizing' /\ maxThreads' = target'
    BY <1>23 DEF StoreMax, Step, Goto, TypeInv, TypeOK, resizing, held
  <2> QED
    BY <1>3, <1>23, <2>1, <2>2
    DEF StoreMax, leaving, workers, rest, life, AccountInv, ThreadAccounting
<1>24. CASE UNCHANGED vars
  BY <1>4, <1>24 DEF vars, pool, sizing, leaving, held, workers, locals, rest, life, resizing
<1> QED
  BY <1>7, <1>8, <1>9, <1>10, <1>11, <1>12, <1>13, <1>14, <1>15, <1>16, <1>17, <1>18, <1>19,
     <1>20, <1>21, <1>22, <1>23, <1>24
  DEF Next, Environment, ClientStep, ClientLock, AddStep, ManagerStep, WorkerStep, WorkerLock,
      Terminated

(***************************************************************************)
(* Until the pool is shut down, threadList_ holds exactly the threads that *)
(* activeThreads_ counts and those that threadsToStop_ still has to stop:  *)
(* no interleaving of resizing, spawning in add(), idle timeouts and stops *)
(* after a task makes the list and the counters disagree.                  *)
(***************************************************************************)
THEOREM ThreadsAccounted == Spec => []ThreadAccounting
<1>1. Init => TypeInv /\ LockInv /\ AccountInv
  BY TypeInit, LockInit, AccountInit
<1>2. TypeInv /\ LockInv /\ AccountInv /\ [Next]_vars => (TypeInv /\ LockInv /\ AccountInv)'
  BY TypeStep, LockStep, AccountStep
<1>3. AccountInv => ThreadAccounting
  BY DEF AccountInv
<1> QED
  BY <1>1, <1>2, <1>3, PTL DEF Spec

(***************************************************************************)
(* Whenever threadListLock_ is free, activeThreads_ is at most             *)
(* maxThreads_: the double check in ensureActiveThreads and the order of   *)
(* the stores in setNumThreads keep the pool within its maximum.           *)
(***************************************************************************)
THEOREM MaximumKept == Spec => []WithinMax
<1>1. Init => TypeInv /\ LockInv /\ AccountInv
  BY TypeInit, LockInit, AccountInit
<1>2. TypeInv /\ LockInv /\ AccountInv /\ [Next]_vars => (TypeInv /\ LockInv /\ AccountInv)'
  BY TypeStep, LockStep, AccountStep
<1>3. TypeInv /\ LockInv /\ AccountInv => WithinMax
  BY AccountCasesHold DEF AccountCases, AccountInv, WithinMax
<1> QED
  BY <1>1, <1>2, <1>3, PTL DEF Spec

---------------------------------------------------------------------------
(* Statistics *)

\* getPoolStats reports too few active threads by at most the number of threads that
\* were told to stop and are on their way, and its idle count never wraps around: the
\* threads it finds idle are among those in threadList_, and these are no more than
\* activeThreads_ counts and threadsToStop_ still has to stop.
THEOREM StatsSound == Spec => []StatsOffByStopping
<1>1. Init => TypeInv /\ LockInv /\ AccountInv
  BY TypeInit, LockInit, AccountInit
<1>2. TypeInv /\ LockInv /\ AccountInv /\ [Next]_vars => (TypeInv /\ LockInv /\ AccountInv)'
  BY TypeStep, LockStep, AccountStep
<1>3. TypeInv /\ LockInv /\ AccountInv => StatsOffByStopping
  <2> SUFFICES ASSUME TypeInv, LockInv, AccountInv, Unlocked, NEW idle \in SUBSET threadList
               PROVE  /\ getPoolStats(idle).activeThreadCount + threadsToStop >= 0
                      /\ getPoolStats(idle).idleThreadCount >= 0
    BY DEF StatsOffByStopping
  <2>1. /\ activeThreads \in Nat /\ maxThreads \in Nat /\ threadsToStop \in Nat
        /\ threadList \subseteq Workers
    BY DEF TypeInv, TypeOK
  <2>2. accountedThreads = activeThreads /\ activeThreads <= maxThreads
    BY AccountCasesHold DEF AccountCases, AccountInv
  <2>3. IsFiniteSet(threadList)
    BY <2>1, WorkersAssumption, FS_Subset
  <2>4. Cardinality(threadList) \in Nat
    BY <2>3, FS_CardinalityType
  <2>5. Cardinality(threadList) <= activeThreads + threadsToStop
    BY <2>1, <2>2, <2>4 DEF AccountInv, ThreadAccounting
  <2>6. Cardinality(idle) \in Nat /\ Cardinality(idle) <= Cardinality(threadList)
    BY <2>3, FS_Subset, FS_CardinalityType
  <2> QED
    BY <2>1, <2>2, <2>4, <2>5, <2>6 DEF getPoolStats
<1> QED
  BY <1>1, <1>2, <1>3, PTL DEF Spec

=============================================================================
