------------------------ MODULE QueueObserversProofs ------------------------
(***************************************************************************)
(* The safety properties of QueueObservers for any number of producers,    *)
(* workers, collectors, priorities and tasks.                              *)
(***************************************************************************)
EXTENDS QueueObservers, FiniteSetTheorems, SequenceTheorems, TLAPS

MaybeObserver == (Nat \ {0}) \cup {Null}
Task == [priority : Priorities, payload : MaybeObserver]

\* What getQueueObserver and its callers work on ...
LookupTypes ==
  /\ numPriorities \in Nat \ {0} /\ hasFactory \in BOOLEAN
  /\ queueObservers \in [Priorities -> MaybeObserver]
  /\ created \in Nat
  /\ deletions \in [Observers -> Nat]
  /\ pc \in [Callers -> {"none", "started", "idle", "loop", "look", "cas", "share", "found",
                         "removed", "waiting"}]
  /\ slot \in [Callers -> Priorities] /\ pri \in [Callers -> Priorities]
  /\ observer \in [Callers -> MaybeObserver] /\ told \in [Callers -> MaybeObserver]
  /\ destroyed \in BOOLEAN

\* ... and what those work on who collect the threads' ids.
CollectTypes ==
  /\ osThreadIds \subseteq Workers
  /\ exitReaders \subseteq Collectors
  /\ exitWriter \in Workers \cup {NoOne}
  /\ cpc \in [Collectors -> {"idle", "locked", "holding"}]
  /\ threadIds \in [Collectors -> SUBSET Workers]

TypeInv == LookupTypes /\ CollectTypes /\ taskQueue \in Seq(Task)

LEMMA PrioritiesFinite == IsFiniteSet(Priorities)
<1>1. \A a, b \in Int : Priorities \subseteq a .. b => IsFiniteSet(Priorities)
  BY FS_Interval, FS_Subset
<1>2. -128 \in Int /\ 127 \in Int
  OBVIOUS
<1>3. Priorities \subseteq -128 .. 127
  BY PrioritiesAssumption
<1> QED
  BY <1>1, <1>2, <1>3

LEMMA TypeInit == Init => TypeInv
<1> SUFFICES ASSUME Init PROVE TypeInv
  OBVIOUS
<1>1. pc \in [Callers -> {"none", "idle"}]
  BY DEF Init
<1>2. taskQueue \in Seq(Task)
  BY DEF Init
<1>3. numPriorities \in Nat \ {0} /\ 0 \in Priorities
  BY PrioritiesAssumption DEF Init
<1> QED
  BY <1>1, <1>2, <1>3 DEF Init, TypeInv, LookupTypes, CollectTypes, MaybeObserver

\* Taking the task at position i leaves a sequence of tasks.
LEMMA TakeSeq ==
  ASSUME NEW S, NEW q \in Seq(S), NEW i \in DOMAIN q,
         NEW r, r = [j \in 1 .. Len(q) - 1 |-> IF j < i THEN q[j] ELSE q[j + 1]]
  PROVE  /\ r \in Seq(S)
         /\ \A j \in DOMAIN r : \E k \in DOMAIN q : r[j] = q[k]
<1>1. Len(q) \in Nat /\ DOMAIN q = 1 .. Len(q) /\ \A k \in 1 .. Len(q) : q[k] \in S
  BY LenProperties, ElementOfSeq
<1>2. Len(q) - 1 \in Nat
  BY <1>1
<1>3. \A j \in 1 .. Len(q) - 1 : j \in 1 .. Len(q) /\ j + 1 \in 1 .. Len(q)
  BY <1>1
<1>4. r \in [1 .. Len(q) - 1 -> S]
  BY <1>1, <1>3
<1>5. r \in Seq(S)
  BY <1>2, <1>4, SeqDef
<1>6. \A j \in DOMAIN r : \E k \in DOMAIN q : r[j] = q[k]
  BY <1>1, <1>3
<1> QED
  BY <1>5, <1>6

LEMMA TypeStep == TypeInv /\ [Next]_vars => TypeInv'
<1> SUFFICES ASSUME TypeInv, [Next]_vars PROVE TypeInv'
  OBVIOUS
<1> USE PrioritiesAssumption
    DEF TypeInv, LookupTypes, CollectTypes, MaybeObserver, fixed, observing, queue, lookup, exiting, collect, Goto, Set, Found
<1>1. ASSUME NEW t \in Callers, LookFound(t) PROVE TypeInv'
  BY <1>1 DEF LookFound
<1>2. ASSUME NEW t \in Callers, LookShared(t) PROVE TypeInv'
  BY <1>2 DEF LookShared
<1>3. ASSUME NEW t \in Callers, LookCreate(t) PROVE TypeInv'
  BY <1>3 DEF LookCreate
<1>4. ASSUME NEW t \in Callers, Cas(t) PROVE TypeInv'
  <2>1. deletions' \in [Observers -> Nat]
    BY <1>4 DEF Cas
  <2> QED
    BY <1>4, <2>1 DEF Cas
<1>5. ASSUME NEW t \in Callers, Share(t) PROVE TypeInv'
  BY <1>5 DEF Share
<1>6. ASSUME NEW p \in Producers, AddEnqueue(p) PROVE TypeInv'
  <2> p \in Callers
    BY DEF Callers
  <2>1. [priority |-> pri[p], payload |-> observer[p]] \in Task
    BY DEF Task
  <2>2. taskQueue' \in Seq(Task)
    BY <1>6, <2>1, AppendProperties DEF AddEnqueue
  <2> QED
    BY <1>6, <2>2 DEF AddEnqueue, Forget
<1>7. ASSUME NEW p \in Producers, NEW k \in Priorities, AddBegin(p, k) PROVE TypeInv'
  BY <1>7 DEF AddBegin, getQueueObserver, Callers
<1>8. ASSUME NEW w \in Workers, NEW i \in DOMAIN taskQueue, Take(w, i) PROVE TypeInv'
  <2> w \in Callers
    BY DEF Callers
  <2>1. taskQueue' \in Seq(Task)
    BY <1>8, TakeSeq DEF Take
  <2>2. taskQueue[i] \in Task
    BY ElementOfSeq, LenProperties
  <2>3. taskQueue[i].priority \in Priorities /\ taskQueue[i].payload \in MaybeObserver
    BY <2>2 DEF Task
  <2> QED
    BY <1>8, <2>1, <2>3 DEF Take, getQueueObserver
<1>9. ASSUME NEW w \in Workers, RunTask(w) PROVE TypeInv'
  BY <1>9 DEF RunTask, Forget, Callers
<1>10. ASSUME NEW w \in Workers, ThreadStart(w) \/ addTid(w) \/ removeTid(w) PROVE TypeInv'
  BY <1>10, SMTT(30) DEF ThreadStart, addTid, removeTid, Callers
<1>11. ASSUME NEW w \in Workers, Leave(w) PROVE TypeInv'
  BY <1>11 DEF Leave, LockExit, Exit, Callers
<1>12. ASSUME NEW c \in Collectors, CollectLock(c) \/ CollectIds(c) \/ Release(c) PROVE TypeInv'
  BY <1>12, ZenonT(30) DEF CollectLock, CollectIds, Release, GotoC
<1>13. CASE Destroy
  <2>1. \A o \in Observers : IsFiniteSet({s \in slotsToDelete : queueObservers[s] = o})
    <3>1. IsFiniteSet(slotsToDelete)
      <4>1. IsFiniteSet({0})
        BY FS_Singleton
      <4> QED
        BY <4>1, PrioritiesFinite DEF slotsToDelete
    <3> QED
      BY <3>1, FS_Subset
  <2>2. \A o \in Observers :
          Cardinality({s \in slotsToDelete : queueObservers[s] = o}) \in Nat
    BY <2>1, FS_CardinalityType
  <2> QED
    BY <1>13, <2>2, EmptySeq, SMTT(30) DEF Destroy
<1>14. CASE UNCHANGED vars
  BY <1>14 DEF vars
<1> QED
  BY <1>1, <1>2, <1>3, <1>4, <1>5, <1>6, <1>7, <1>8, <1>9, <1>10, <1>11, <1>12, <1>13, <1>14
  DEF Next, Look

---------------------------------------------------------------------------
(* Collected ids *)

\* Who reads threadsExitMutex_ and who waits for it, whose ids are listed, and
\* whose ids a collector may hold.
CollectInv ==
  /\ \A c \in Collectors : c \in exitReaders <=> cpc[c] # "idle"
  /\ \A c \in Collectors : threadIds[c] # {} => cpc[c] = "holding"
  /\ \A w \in osThreadIds : pc[w] \notin {"none", "started", "removed", "waiting"}
  /\ CollectedAlive

LEMMA CollectInit == Init => CollectInv
BY DEF Init, CollectInv, CollectedAlive

LEMMA CollectStep == TypeInv /\ CollectInv /\ [Next]_vars => CollectInv'
<1> SUFFICES ASSUME TypeInv, CollectInv, [Next]_vars PROVE CollectInv'
  OBVIOUS
<1> USE DEF TypeInv, LookupTypes, CollectTypes, CollectInv, CollectedAlive, fixed, observing, queue, lookup, exiting, collect,
            Callers
<1>1. ASSUME NEW t \in Callers, Look(t) PROVE CollectInv'
  BY <1>1 DEF Look, LookFound, LookShared, LookCreate, Cas, Share, Found, Goto
<1>2. ASSUME NEW p \in Producers, AddEnqueue(p) PROVE CollectInv'
  BY <1>2 DEF AddEnqueue, Goto
<1>3. ASSUME NEW p \in Producers, NEW k \in Priorities, AddBegin(p, k) PROVE CollectInv'
  BY <1>3 DEF AddBegin, getQueueObserver, Goto
<1>4. ASSUME NEW w \in Workers, NEW i \in DOMAIN taskQueue, Take(w, i) PROVE CollectInv'
  BY <1>4 DEF Take, getQueueObserver, Goto
<1>5. ASSUME NEW w \in Workers, RunTask(w) PROVE CollectInv'
  BY <1>5 DEF RunTask, Goto
<1>6. ASSUME NEW w \in Workers, ThreadStart(w) PROVE CollectInv'
  BY <1>6 DEF ThreadStart, Goto
<1>7. ASSUME NEW w \in Workers, addTid(w) \/ removeTid(w) PROVE CollectInv'
  BY <1>7 DEF addTid, removeTid, Goto
<1>8. ASSUME NEW w \in Workers, Leave(w) PROVE CollectInv'
  BY <1>8 DEF Leave, LockExit, Exit, keepAlivesGone, Goto
<1>9. ASSUME NEW c \in Collectors, CollectLock(c) \/ CollectIds(c) \/ Release(c) PROVE CollectInv'
  BY <1>9, ZenonT(30) DEF CollectLock, CollectIds, Release, GotoC
<1>10. CASE Destroy \/ UNCHANGED vars
  BY <1>10 DEF Destroy, vars
<1> QED
  BY <1>1, <1>2, <1>3, <1>4, <1>5, <1>6, <1>7, <1>8, <1>9, <1>10 DEF Next

(***************************************************************************)
(* For any number of workers and collectors: a thread whose id was         *)
(* collected neither exits nor gives its id to a new thread while the      *)
(* keep-alive of the collection exists (ThreadIdWorkerProvider).           *)
(***************************************************************************)
THEOREM CollectedStayAlive == Spec => []CollectedAlive
<1>1. CollectInv => CollectedAlive
  BY DEF CollectInv
<1> QED
  BY TypeInit, TypeStep, CollectInit, CollectStep, <1>1, PTL DEF Spec

---------------------------------------------------------------------------
(* Observers *)

\* The slots that hold an observer of their own.
Primary(s) == numPriorities = 1 => s = 0

\* A slot that shares has nothing or what slot 0 has.
SlotsInv ==
  /\ \A s \in Priorities :
       ~Primary(s) => queueObservers[s] \in {Null, queueObservers[0]}
  /\ \A t \in Callers :
       /\ pc[t] \in {"look", "cas", "share"} => hasFactory
       /\ pc[t] \in {"look", "cas", "share"} =>
            slot[t] = pri[t] \/ (slot[t] = 0 /\ ~Primary(pri[t]))
       /\ pc[t] = "cas" => Primary(slot[t]) /\ observer[t] # Null
       /\ pc[t] = "share" =>
            ~Primary(pri[t]) /\ observer[t] = queueObservers[0] /\ observer[t] # Null

\* The observer of priority p, once there is one: o was found or told for it.
IsObserverOf(o, p) ==
  IF hasFactory THEN o # Null /\ o = queueObservers[p] ELSE o = Null

ToldInv ==
  /\ \A t \in Callers : pc[t] = "found" => IsObserverOf(observer[t], pri[t])
  /\ \A t \in Callers : pc[t] \notin {"look", "cas", "share", "found"} => observer[t] = Null
  /\ \A w \in Workers :
       pc[w] \in {"look", "cas", "share", "found"} => IsObserverOf(told[w], pri[w])
  /\ \A i \in DOMAIN taskQueue : IsObserverOf(taskQueue[i].payload, taskQueue[i].priority)

\* Each observer is in one slot of its own, in the hands of the caller that made
\* it, or deleted.
OwnerInv ==
  /\ \A s \in Priorities : queueObservers[s] # Null => queueObservers[s] \in 1 .. created
  /\ \A s, r \in Priorities :
       Primary(s) /\ Primary(r) /\ queueObservers[s] = queueObservers[r] =>
         s = r \/ queueObservers[s] = Null
  /\ \A t \in Callers : pc[t] = "cas" =>
       /\ observer[t] \in 1 .. created
       /\ \A s \in Priorities : queueObservers[s] # observer[t]
       /\ \A u \in Callers : pc[u] = "cas" /\ observer[u] = observer[t] => u = t

DeletionInv ==
  \A o \in Observers :
    /\ o > created => deletions[o] = 0
    /\ deletions[o] \in {0, 1}
    /\ ~destroyed /\ o <= created =>
         (deletions[o] = 0 <=> \/ \E s \in Priorities : Primary(s) /\ queueObservers[s] = o
                              \/ \E t \in Callers : pc[t] = "cas" /\ observer[t] = o)

\* Once the destructor has run nobody is inside a call.
IdleInv == destroyed => \A t \in Callers : pc[t] \in {"none", "idle"}

LEMMA SlotsStep == TypeInv /\ SlotsInv /\ [Next]_vars => SlotsInv'
<1> SUFFICES ASSUME TypeInv, SlotsInv, [Next]_vars PROVE SlotsInv'
  OBVIOUS
<1> USE PrioritiesAssumption, BoundAssumption, ThreadsAssumption
    DEF LookupTypes, SlotsInv, Primary, MaybeObserver, fixed, observing, queue, lookup, exiting, collect,
        Goto, Set, Found
<1> LookupTypes /\ Producers \subseteq Callers /\ Workers \subseteq Callers
  BY DEF TypeInv, Callers
<1>1. ASSUME NEW t \in Callers, LookFound(t) PROVE SlotsInv'
  BY <1>1 DEF LookFound
<1>2. ASSUME NEW t \in Callers, LookShared(t) PROVE SlotsInv'
  BY <1>2 DEF LookShared, Shares
<1>3. ASSUME NEW t \in Callers, LookCreate(t) PROVE SlotsInv'
  BY <1>3 DEF LookCreate, Shares
<1>4. ASSUME NEW t \in Callers, Cas(t) PROVE SlotsInv'
  BY <1>4 DEF Cas
<1>5. ASSUME NEW t \in Callers, Share(t) PROVE SlotsInv'
  BY <1>5 DEF Share
<1>6. ASSUME NEW p \in Producers, AddEnqueue(p) PROVE SlotsInv'
  BY <1>6 DEF AddEnqueue, Forget
<1>7. ASSUME NEW p \in Producers, NEW k \in Priorities, AddBegin(p, k) PROVE SlotsInv'
  BY <1>7 DEF AddBegin, getQueueObserver
<1>8. ASSUME NEW w \in Workers, NEW i \in DOMAIN taskQueue, Take(w, i) PROVE SlotsInv'
  BY <1>8 DEF Take, getQueueObserver
<1>9. ASSUME NEW w \in Workers, RunTask(w) PROVE SlotsInv'
  BY <1>9 DEF RunTask, Forget
<1>10. ASSUME NEW w \in Workers, ThreadStart(w) \/ addTid(w) \/ removeTid(w) \/ Leave(w) PROVE SlotsInv'
  BY <1>10 DEF ThreadStart, addTid, removeTid, Leave, LockExit, Exit
<1>11. ASSUME NEW c \in Collectors, CollectLock(c) \/ CollectIds(c) \/ Release(c) PROVE SlotsInv'
  BY <1>11 DEF CollectLock, CollectIds, Release, GotoC
<1>12. CASE Destroy
  BY <1>12 DEF Destroy
<1>13. CASE UNCHANGED vars
  BY <1>13 DEF vars
<1> QED
  BY <1>1, <1>2, <1>3, <1>4, <1>5, <1>6, <1>7, <1>8, <1>9, <1>10, <1>11, <1>12, <1>13
  DEF Next, Look

\* An observer in a slot stays there: the compare-exchange finds the slot empty,
\* and the plain store of a slot that shares stores what is there already.
LEMMA SlotsStable ==
  ASSUME TypeInv, SlotsInv, NEW t \in Callers, Cas(t) \/ Share(t)
  PROVE  \A s \in Priorities : queueObservers[s] # Null => queueObservers'[s] = queueObservers[s]
BY DEF TypeInv, LookupTypes, SlotsInv, Primary, Cas, Share, Set, Goto

LEMMA ToldStep == TypeInv /\ SlotsInv /\ ToldInv /\ [Next]_vars => ToldInv'
<1> SUFFICES ASSUME TypeInv, SlotsInv, ToldInv, [Next]_vars PROVE ToldInv'
  OBVIOUS
<1> USE PrioritiesAssumption, BoundAssumption, ThreadsAssumption
    DEF LookupTypes, SlotsInv, ToldInv, IsObserverOf, Primary, MaybeObserver, fixed, observing, queue, lookup, exiting, collect,
        Goto, Set, Found
<1> LookupTypes /\ Producers \subseteq Callers /\ Workers \subseteq Callers
  BY DEF TypeInv, Callers
<1>1. ASSUME NEW t \in Callers, LookFound(t) PROVE ToldInv'
  BY <1>1 DEF LookFound
<1>2. ASSUME NEW t \in Callers, LookShared(t) PROVE ToldInv'
  BY <1>2 DEF LookShared, Shares
<1>3. ASSUME NEW t \in Callers, LookCreate(t) PROVE ToldInv'
  BY <1>3 DEF LookCreate, Shares
<1>0. \A i \in DOMAIN taskQueue : taskQueue[i].priority \in Priorities
  <2> SUFFICES ASSUME NEW i \in DOMAIN taskQueue PROVE taskQueue[i].priority \in Priorities
    OBVIOUS
  <2>1. taskQueue[i] \in Task
    BY ElementOfSeq, LenProperties DEF TypeInv
  <2> QED
    BY <2>1 DEF Task
<1>4. ASSUME NEW t \in Callers, Cas(t) PROVE ToldInv'
  <2>1. \A s \in Priorities : queueObservers[s] # Null => queueObservers'[s] = queueObservers[s]
    BY <1>4, SlotsStable
  <2>2. hasFactory' = hasFactory /\ taskQueue' = taskQueue /\ pri' = pri /\ told' = told
    BY <1>4 DEF Cas
  <2>3. \A i \in DOMAIN taskQueue' : IsObserverOf(taskQueue[i].payload, taskQueue[i].priority)'
    BY ONLY <1>0, <2>1, <2>2, ToldInv DEF ToldInv, IsObserverOf
  <2>4. pc'[t] = "found" => IsObserverOf(observer[t], pri[t])'
    BY <1>4 DEF Cas
  <2>5. \A u \in Callers : pc'[u] = "found" => IsObserverOf(observer[u], pri[u])'
    <3> SUFFICES ASSUME NEW u \in Callers, u # t, pc'[u] = "found"
                 PROVE  IsObserverOf(observer[u], pri[u])'
      BY <2>4
    <3>1. pc[u] = "found" /\ observer'[u] = observer[u] /\ pri[u] \in Priorities
      BY <1>4 DEF Cas
    <3>2. IsObserverOf(observer[u], pri[u])
      BY <3>1
    <3> QED
      BY ONLY <2>1, <2>2, <3>1, <3>2 DEF IsObserverOf
  <2>6. \A u \in Callers : pc'[u] \notin {"look", "cas", "share", "found"} => observer'[u] = Null
    BY <1>4 DEF Cas
  <2>7. \A w \in Workers :
          pc'[w] \in {"look", "cas", "share", "found"} => IsObserverOf(told[w], pri[w])'
    <3> SUFFICES ASSUME NEW w \in Workers PROVE
                   pc'[w] \in {"look", "cas", "share", "found"} => IsObserverOf(told[w], pri[w])'
      OBVIOUS
    <3>1. /\ pri[w] \in Priorities
          /\ pc'[w] \in {"look", "cas", "share", "found"} =>
               pc[w] \in {"look", "cas", "share", "found"}
      BY <1>4 DEF Cas
    <3>2. pc[w] \in {"look", "cas", "share", "found"} => IsObserverOf(told[w], pri[w])
      OBVIOUS
    <3> QED
      BY ONLY <2>1, <2>2, <3>1, <3>2 DEF IsObserverOf
  <2> QED
    BY <2>3, <2>5, <2>6, <2>7 DEF ToldInv
<1>5. ASSUME NEW t \in Callers, Share(t) PROVE ToldInv'
  <2>1. \A s \in Priorities : queueObservers[s] # Null => queueObservers'[s] = queueObservers[s]
    BY <1>5, SlotsStable
  <2>2. hasFactory' = hasFactory /\ taskQueue' = taskQueue /\ pri' = pri /\ told' = told
    BY <1>5 DEF Share
  <2>3. \A i \in DOMAIN taskQueue' : IsObserverOf(taskQueue[i].payload, taskQueue[i].priority)'
    BY ONLY <1>0, <2>1, <2>2, ToldInv DEF ToldInv, IsObserverOf
  <2>4. pc'[t] = "found" => IsObserverOf(observer[t], pri[t])'
    BY <1>5 DEF Share
  <2>5. \A u \in Callers : pc'[u] = "found" => IsObserverOf(observer[u], pri[u])'
    <3> SUFFICES ASSUME NEW u \in Callers, u # t, pc'[u] = "found"
                 PROVE  IsObserverOf(observer[u], pri[u])'
      BY <2>4
    <3>1. pc[u] = "found" /\ observer'[u] = observer[u] /\ pri[u] \in Priorities
      BY <1>5 DEF Share
    <3>2. IsObserverOf(observer[u], pri[u])
      BY <3>1
    <3> QED
      BY ONLY <2>1, <2>2, <3>1, <3>2 DEF IsObserverOf
  <2>6. \A u \in Callers : pc'[u] \notin {"look", "cas", "share", "found"} => observer'[u] = Null
    BY <1>5 DEF Share
  <2>7. \A w \in Workers :
          pc'[w] \in {"look", "cas", "share", "found"} => IsObserverOf(told[w], pri[w])'
    <3> SUFFICES ASSUME NEW w \in Workers PROVE
                   pc'[w] \in {"look", "cas", "share", "found"} => IsObserverOf(told[w], pri[w])'
      OBVIOUS
    <3>1. /\ pri[w] \in Priorities
          /\ pc'[w] \in {"look", "cas", "share", "found"} =>
               pc[w] \in {"look", "cas", "share", "found"}
      BY <1>5 DEF Share
    <3>2. pc[w] \in {"look", "cas", "share", "found"} => IsObserverOf(told[w], pri[w])
      OBVIOUS
    <3> QED
      BY ONLY <2>1, <2>2, <3>1, <3>2 DEF IsObserverOf
  <2> QED
    BY <2>3, <2>5, <2>6, <2>7 DEF ToldInv
<1>6. ASSUME NEW p \in Producers, AddEnqueue(p) PROVE ToldInv'
  BY <1>6 DEF AddEnqueue, Forget
<1>7. ASSUME NEW p \in Producers, NEW k \in Priorities, AddBegin(p, k) PROVE ToldInv'
  BY <1>7 DEF AddBegin, getQueueObserver
<1>8. ASSUME NEW w \in Workers, NEW i \in DOMAIN taskQueue, Take(w, i) PROVE ToldInv'
  BY <1>8, SMTT(30) DEF Take, getQueueObserver
<1>9. ASSUME NEW w \in Workers, RunTask(w) PROVE ToldInv'
  BY <1>9 DEF RunTask, Forget
<1>10. ASSUME NEW w \in Workers, ThreadStart(w) \/ addTid(w) \/ removeTid(w) \/ Leave(w) PROVE ToldInv'
  <2>1. CASE ThreadStart(w)
    BY <2>1 DEF ThreadStart
  <2>2. CASE addTid(w)
    BY <2>2 DEF addTid
  <2>3. CASE removeTid(w)
    BY <2>3 DEF removeTid
  <2>4. CASE Leave(w)
    BY <2>4 DEF Leave, LockExit, Exit
  <2> QED
    BY <1>10, <2>1, <2>2, <2>3, <2>4
<1>11. ASSUME NEW c \in Collectors, CollectLock(c) \/ CollectIds(c) \/ Release(c) PROVE ToldInv'
  BY <1>11 DEF CollectLock, CollectIds, Release, GotoC
<1>12. CASE Destroy
  BY <1>12 DEF Destroy
<1>13. CASE UNCHANGED vars
  BY <1>13 DEF vars
<1> QED
  BY <1>1, <1>2, <1>3, <1>4, <1>5, <1>6, <1>7, <1>8, <1>9, <1>10, <1>11, <1>12, <1>13
  DEF Next, Look

LEMMA OwnerStep == TypeInv /\ SlotsInv /\ OwnerInv /\ [Next]_vars => OwnerInv'
<1> SUFFICES ASSUME TypeInv, SlotsInv, OwnerInv, [Next]_vars PROVE OwnerInv'
  OBVIOUS
<1> USE PrioritiesAssumption, BoundAssumption, ThreadsAssumption
    DEF LookupTypes, SlotsInv, OwnerInv, Primary, MaybeObserver, fixed, observing, queue, lookup, exiting, collect,
        Goto, Set, Found
<1> LookupTypes /\ Producers \subseteq Callers /\ Workers \subseteq Callers
  BY DEF TypeInv, Callers
<1>1. ASSUME NEW t \in Callers, LookFound(t) PROVE OwnerInv'
  BY <1>1 DEF LookFound
<1>2. ASSUME NEW t \in Callers, LookShared(t) PROVE OwnerInv'
  BY <1>2 DEF LookShared, Shares
<1>3. ASSUME NEW t \in Callers, LookCreate(t) PROVE OwnerInv'
  BY <1>3 DEF LookCreate, Shares
<1>4. ASSUME NEW t \in Callers, Cas(t) PROVE OwnerInv'
  <2>1. CASE queueObservers[slot[t]] = Null
    BY <1>4, <2>1 DEF Cas
  <2>2. CASE queueObservers[slot[t]] # Null
    BY <1>4, <2>2 DEF Cas
  <2> QED
    BY <2>1, <2>2
<1>5. ASSUME NEW t \in Callers, Share(t) PROVE OwnerInv'
  BY <1>5 DEF Share
<1>6. ASSUME NEW p \in Producers, AddEnqueue(p) PROVE OwnerInv'
  BY <1>6 DEF AddEnqueue, Forget
<1>7. ASSUME NEW p \in Producers, NEW k \in Priorities, AddBegin(p, k) PROVE OwnerInv'
  BY <1>7 DEF AddBegin, getQueueObserver
<1>8. ASSUME NEW w \in Workers, NEW i \in DOMAIN taskQueue, Take(w, i) PROVE OwnerInv'
  BY <1>8 DEF Take, getQueueObserver
<1>9. ASSUME NEW w \in Workers, RunTask(w) PROVE OwnerInv'
  BY <1>9 DEF RunTask, Forget
<1>10. ASSUME NEW w \in Workers, ThreadStart(w) \/ addTid(w) \/ removeTid(w) \/ Leave(w) PROVE OwnerInv'
  <2>1. CASE ThreadStart(w)
    BY <2>1 DEF ThreadStart
  <2>2. CASE addTid(w)
    BY <2>2 DEF addTid
  <2>3. CASE removeTid(w)
    BY <2>3 DEF removeTid
  <2>4. CASE Leave(w)
    BY <2>4 DEF Leave, LockExit, Exit
  <2> QED
    BY <1>10, <2>1, <2>2, <2>3, <2>4
<1>11. ASSUME NEW c \in Collectors, CollectLock(c) \/ CollectIds(c) \/ Release(c) PROVE OwnerInv'
  BY <1>11 DEF CollectLock, CollectIds, Release, GotoC
<1>12. CASE Destroy
  BY <1>12 DEF Destroy
<1>13. CASE UNCHANGED vars
  BY <1>13 DEF vars
<1> QED
  BY <1>1, <1>2, <1>3, <1>4, <1>5, <1>6, <1>7, <1>8, <1>9, <1>10, <1>11, <1>12, <1>13
  DEF Next, Look

\* A step that touches no slot, deletes nothing and moves no caller to or from the
\* compare-exchange.
Aside ==
  /\ UNCHANGED <<numPriorities, queueObservers, created, deletions, destroyed>>
  /\ \A t \in Callers : pc'[t] = "cas" <=> pc[t] = "cas"
  /\ \A t \in Callers : pc[t] = "cas" => observer'[t] = observer[t]

LEMMA DeletionAside == DeletionInv /\ Aside => DeletionInv'
BY DEF DeletionInv, Aside, Primary

LEMMA IdleStep == TypeInv /\ IdleInv /\ [Next]_vars => IdleInv'
<1> SUFFICES ASSUME TypeInv, IdleInv, [Next]_vars PROVE IdleInv'
  OBVIOUS
<1> USE DEF LookupTypes, IdleInv, fixed, observing, queue, lookup, exiting, collect, Goto, Found
<1> LookupTypes /\ Producers \subseteq Callers /\ Workers \subseteq Callers
  BY DEF TypeInv, Callers
<1>1. ASSUME NEW t \in Callers, Look(t) PROVE IdleInv'
  BY <1>1 DEF Look, LookFound, LookShared, LookCreate, Cas, Share
<1>2. ASSUME NEW p \in Producers, AddEnqueue(p) PROVE IdleInv'
  BY <1>2 DEF AddEnqueue
<1>3. ASSUME NEW p \in Producers, NEW k \in Priorities, AddBegin(p, k) PROVE IdleInv'
  BY <1>3 DEF AddBegin
<1>4. ASSUME NEW w \in Workers, NEW i \in DOMAIN taskQueue, Take(w, i) PROVE IdleInv'
  BY <1>4 DEF Take, getQueueObserver
<1>5. ASSUME NEW w \in Workers, RunTask(w) PROVE IdleInv'
  BY <1>5 DEF RunTask
<1>6. ASSUME NEW w \in Workers, ThreadStart(w) \/ addTid(w) \/ removeTid(w) PROVE IdleInv'
  BY <1>6 DEF ThreadStart, addTid, removeTid
<1>7. ASSUME NEW w \in Workers, Leave(w) PROVE IdleInv'
  BY <1>7 DEF Leave, LockExit, Exit
<1>8. ASSUME NEW c \in Collectors, CollectLock(c) \/ CollectIds(c) \/ Release(c) PROVE IdleInv'
  BY <1>8 DEF CollectLock, CollectIds, Release
<1>9. CASE Destroy
  BY <1>9 DEF Destroy, Callers
<1>10. CASE UNCHANGED vars
  BY <1>10 DEF vars
<1> QED
  BY <1>1, <1>2, <1>3, <1>4, <1>5, <1>6, <1>7, <1>8, <1>9, <1>10 DEF Next

\* The destructor deletes the observers that are in a slot of their own, each once.
LEMMA DestroyDeletes ==
  ASSUME TypeInv, OwnerInv, DeletionInv, Destroy
  PROVE  \A o \in Observers : deletions'[o] = (IF o <= created THEN 1 ELSE 0)
<1> SUFFICES ASSUME NEW o \in Observers PROVE deletions'[o] = (IF o <= created THEN 1 ELSE 0)
  OBVIOUS
<1> DEFINE S == {s \in slotsToDelete : queueObservers[s] = o}
<1>1. o \in Nat \ {0} /\ o # Null /\ created \in Nat
  BY BoundAssumption DEF Observers, TypeInv, LookupTypes
<1>2. /\ ~destroyed
      /\ \A t \in Callers : pc[t] # "cas"
      /\ deletions'[o] = deletions[o] + Cardinality(S)
  BY DEF Destroy, Callers
<1>3. slotsToDelete = {s \in Priorities : Primary(s)}
  BY PrioritiesAssumption DEF slotsToDelete, Primary
<1>4. /\ o > created => deletions[o] = 0
      /\ deletions[o] \in {0, 1}
      /\ o <= created => (deletions[o] = 0 <=> S # {})
  BY <1>2, <1>3 DEF DeletionInv
<1>5. CASE S = {}
  <2>1. Cardinality(S) = 0
    BY <1>5, FS_EmptySet
  <2>2. o <= created => deletions[o] = 1
    BY <1>4, <1>5
  <2> QED
    BY <1>1, <1>2, <1>4, <2>1, <2>2
<1>6. CASE S # {}
  <2>1. PICK s \in S : TRUE
    BY <1>6
  <2>2. o <= created
    BY <1>1, <1>3, <2>1 DEF OwnerInv
  <2>3. S = {s}
    BY <1>1, <1>3, <2>1 DEF OwnerInv
  <2>4. Cardinality(S) = 1
    BY <2>3, FS_Singleton
  <2>5. deletions[o] = 0
    BY <1>4, <1>6, <2>2
  <2> QED
    BY <1>2, <2>2, <2>4, <2>5
<1> QED
  BY <1>5, <1>6

LEMMA DeletionStep == TypeInv /\ SlotsInv /\ OwnerInv /\ IdleInv /\ DeletionInv /\ [Next]_vars
                       => DeletionInv'
<1> SUFFICES ASSUME TypeInv, SlotsInv, OwnerInv, IdleInv, DeletionInv, [Next]_vars PROVE DeletionInv'
  OBVIOUS
<1> USE DEF LookupTypes, fixed, observing, queue, lookup, exiting, collect, Goto, Set, Found
<1> LookupTypes /\ Producers \subseteq Callers /\ Workers \subseteq Callers
  BY DEF TypeInv, Callers
<1>o. Observers \subseteq Nat \ {0} /\ Null \notin Observers
  BY BoundAssumption DEF Observers
<1>1. ASSUME NEW t \in Callers, LookFound(t) \/ LookShared(t) PROVE Aside
  BY <1>1 DEF LookFound, LookShared, Aside
<1>2. ASSUME NEW t \in Callers, LookCreate(t) PROVE DeletionInv'
  <2>1. /\ created' = created + 1 /\ observer' = [observer EXCEPT ![t] = created + 1]
        /\ pc[t] = "look" /\ pc' = [pc EXCEPT ![t] = "cas"]
        /\ UNCHANGED <<numPriorities, queueObservers, deletions, destroyed>>
    BY <1>2 DEF LookCreate
  <2> SUFFICES ASSUME NEW o \in Observers PROVE DeletionInv!(o)'
    BY DEF DeletionInv
  <2>2. CASE o = created + 1
    <3>1. deletions[o] = 0
      BY <2>2, <1>o DEF DeletionInv
    <3> QED
      BY <2>1, <2>2, <3>1
  <2>3. CASE o # created + 1
    <3>1. o \in Nat
      BY <1>o
    <3>2. DeletionInv!(o)
      BY DEF DeletionInv
    <3>3. (\E u \in Callers : pc'[u] = "cas" /\ observer'[u] = o)
            <=> (\E u \in Callers : pc[u] = "cas" /\ observer[u] = o)
      BY <2>1, <2>3
    <3>4. o <= created' => o <= created
      BY <2>1, <2>3, <3>1
    <3>5. o > created' => o > created
      BY <2>1, <2>3, <3>1
    <3> QED
      BY ONLY <2>1, <3>2, <3>3, <3>4, <3>5 DEF Primary
  <2> QED
    BY <2>2, <2>3
<1>3. ASSUME NEW t \in Callers, Cas(t) PROVE DeletionInv'
  <2>1. /\ pc[t] = "cas" /\ pc' = [pc EXCEPT ![t] = pc'[t]] /\ pc'[t] # "cas"
        /\ observer' = [observer EXCEPT ![t] = observer'[t]]
        /\ UNCHANGED <<numPriorities, created, destroyed>>
    BY <1>3 DEF Cas
  <2>2. /\ observer[t] \in 1 .. created /\ slot[t] \in Priorities /\ Primary(slot[t])
        /\ \A s \in Priorities : queueObservers[s] # observer[t]
        /\ \A u \in Callers : pc[u] = "cas" /\ observer[u] = observer[t] => u = t
    BY <2>1 DEF OwnerInv, SlotsInv
  <2> SUFFICES ASSUME NEW o \in Observers PROVE DeletionInv!(o)'
    BY DEF DeletionInv
  <2>3. DeletionInv!(o)
    BY DEF DeletionInv
  <2>4. CASE queueObservers[slot[t]] = Null
    <3>1. queueObservers' = [queueObservers EXCEPT ![slot[t]] = observer[t]] /\ UNCHANGED deletions
      BY <1>3, <2>4 DEF Cas
    <3>2. CASE o = observer[t]
      BY <2>1, <2>2, <2>3, <3>1, <3>2 DEF Primary
    <3>3. CASE o # observer[t]
      <4>1. (\E u \in Callers : pc'[u] = "cas" /\ observer'[u] = o)
              <=> (\E u \in Callers : pc[u] = "cas" /\ observer[u] = o)
        BY <2>1, <3>3
      <4>2. (\E s \in Priorities : Primary(s) /\ queueObservers'[s] = o)
              <=> (\E s \in Priorities : Primary(s) /\ queueObservers[s] = o)
        BY <1>o, <2>4, <3>1, <3>3
      <4> QED
        BY ONLY <2>1, <2>3, <3>1, <4>1, <4>2 DEF Primary
    <3> QED
      BY <3>2, <3>3
  <2>5. CASE queueObservers[slot[t]] # Null
    <3>1. /\ deletions' = [deletions EXCEPT ![observer[t]] = @ + 1]
          /\ UNCHANGED queueObservers
      BY <1>3, <2>5 DEF Cas
    <3>2. CASE o = observer[t]
      <4>1. ~\E u \in Callers : pc'[u] = "cas" /\ observer'[u] = o
        BY <2>1, <2>2, <3>2
      <4>2. ~\E s \in Priorities : Primary(s) /\ queueObservers'[s] = o
        BY <2>2, <3>1, <3>2
      <4>3. deletions[o] = 0 /\ o <= created /\ o \in Nat /\ created \in Nat
        <5>1. ~destroyed
          BY <2>1 DEF IdleInv
        <5>2. o <= created /\ o \in Nat
          BY <2>2, <3>2, <1>o
        <5> QED
          BY <2>1, <2>3, <3>2, <5>1, <5>2
      <4>4. deletions'[o] = 1
        BY <3>1, <3>2, <4>3
      <4> QED
        BY ONLY <2>1, <4>1, <4>2, <4>3, <4>4 DEF Primary
    <3>3. CASE o # observer[t]
      <4>1. (\E u \in Callers : pc'[u] = "cas" /\ observer'[u] = o)
              <=> (\E u \in Callers : pc[u] = "cas" /\ observer[u] = o)
        BY <2>1, <3>3
      <4>2. deletions'[o] = deletions[o]
        BY <3>1, <3>3
      <4> QED
        BY ONLY <2>1, <2>3, <3>1, <4>1, <4>2 DEF Primary
    <3> QED
      BY <3>2, <3>3
  <2> QED
    BY <2>4, <2>5
<1>4. ASSUME NEW t \in Callers, Share(t) PROVE DeletionInv'
  <2>1. \A s \in Priorities : Primary(s) => queueObservers'[s] = queueObservers[s]
    BY <1>4 DEF Share, SlotsInv
  <2>2. /\ UNCHANGED <<numPriorities, created, deletions, destroyed, observer>>
        /\ \A u \in Callers : pc'[u] = "cas" <=> pc[u] = "cas"
    BY <1>4 DEF Share
  <2> QED
    BY <2>1, <2>2 DEF DeletionInv, Primary
<1>5. ASSUME NEW p \in Producers, AddEnqueue(p) PROVE Aside
  BY <1>5 DEF AddEnqueue, Forget, Aside
<1>6. ASSUME NEW p \in Producers, NEW k \in Priorities, AddBegin(p, k) PROVE Aside
  BY <1>6 DEF AddBegin, getQueueObserver, Aside
<1>7. ASSUME NEW w \in Workers, NEW i \in DOMAIN taskQueue, Take(w, i) PROVE Aside
  BY <1>7 DEF Take, getQueueObserver, Aside
<1>8. ASSUME NEW w \in Workers, RunTask(w) PROVE Aside
  BY <1>8 DEF RunTask, Forget, Aside
<1>9. ASSUME NEW w \in Workers, ThreadStart(w) \/ addTid(w) \/ removeTid(w) PROVE Aside
  BY <1>9 DEF ThreadStart, addTid, removeTid, Aside
<1>10. ASSUME NEW w \in Workers, Leave(w) PROVE Aside
  BY <1>10 DEF Leave, LockExit, Exit, Aside
<1>11. ASSUME NEW c \in Collectors, CollectLock(c) \/ CollectIds(c) \/ Release(c) PROVE Aside
  BY <1>11 DEF CollectLock, CollectIds, Release, Aside
<1>12. CASE Destroy
  <2>1. \A o \in Observers : deletions'[o] = (IF o <= created THEN 1 ELSE 0)
    BY <1>12, DestroyDeletes
  <2>2. destroyed' /\ created' = created /\ created \in Nat
    BY <1>12 DEF Destroy
  <2> QED
    <3> SUFFICES ASSUME NEW o \in Observers PROVE DeletionInv!(o)'
      BY DEF DeletionInv
    <3>1. o \in Nat /\ created \in Nat
      BY <1>o
    <3>2. deletions'[o] = (IF o <= created THEN 1 ELSE 0)
      BY <2>1
    <3> QED
      BY ONLY <2>2, <3>1, <3>2
<1>13. ASSUME UNCHANGED vars PROVE Aside
  BY <1>13 DEF vars, Aside
<1> QED
  BY <1>1, <1>2, <1>3, <1>4, <1>5, <1>6, <1>7, <1>8, <1>9, <1>10, <1>11, <1>12, <1>13,
     DeletionAside DEF Next, Look

LEMMA DeletedStep ==
  TypeInv /\ OwnerInv /\ IdleInv /\ DeletionInv /\ DeletedOnce /\ [Next]_vars => DeletedOnce'
<1> SUFFICES ASSUME TypeInv, OwnerInv, IdleInv, DeletionInv, DeletedOnce, [Next]_vars
             PROVE  DeletedOnce'
  OBVIOUS
<1>1. CASE Destroy
  <2>1. created' = created
    BY <1>1 DEF Destroy
  <2> QED
    BY <1>1, <2>1, DestroyDeletes DEF DeletedOnce
<1>2. CASE ~Destroy /\ destroyed'
  <2>1. destroyed
    BY <1>2 DEF Next, Look, LookFound, LookShared, LookCreate, Cas, Share, AddEnqueue, AddBegin,
                Take, RunTask, ThreadStart, addTid, removeTid, Leave, LockExit, Exit, CollectLock,
                CollectIds, Release, vars
  <2>2. \A t \in Callers : pc[t] \in {"none", "idle"}
    BY <2>1 DEF IdleInv
  <2>3. UNCHANGED <<created, deletions>>
    BY <1>2, <2>2 DEF Next, Look, LookFound, LookShared, LookCreate, Cas, Share, Found, Goto,
                AddEnqueue, AddBegin, Take, RunTask, ThreadStart, addTid, removeTid, Leave,
                LockExit, Exit, CollectLock, CollectIds, Release, vars, observing
  <2> QED
    BY <2>1, <2>3 DEF DeletedOnce
<1> QED
  BY <1>1, <1>2 DEF DeletedOnce

LEMMA ObserversInit == Init => SlotsInv /\ ToldInv /\ OwnerInv /\ IdleInv /\ DeletionInv /\ DeletedOnce
<1> SUFFICES ASSUME Init PROVE SlotsInv /\ ToldInv /\ OwnerInv /\ IdleInv /\ DeletionInv /\ DeletedOnce
  OBVIOUS
<1>0. \A t \in Callers : pc[t] \in {"none", "idle"} /\ observer[t] = Null
  BY DEF Init
<1>1. SlotsInv /\ ToldInv
  <2>1. SlotsInv
    BY <1>0, PrioritiesAssumption DEF Init, SlotsInv
  <2>2. DOMAIN taskQueue = {}
    BY DEF Init
  <2>3. ToldInv
    BY <1>0, <2>2 DEF ToldInv, Callers
  <2> QED
    BY <2>1, <2>3
<1>2. OwnerInv /\ IdleInv /\ DeletedOnce
  BY DEF Init, OwnerInv, IdleInv, DeletedOnce
<1>3. DeletionInv
  BY DEF Init, DeletionInv, Observers
<1> QED
  BY <1>1, <1>2, <1>3

(***************************************************************************)
(* For any number of producers, workers and priorities: the observer that  *)
(* is told that a task was taken is the one that was told that it was      *)
(* added, though observers are created without a lock (getQueueObserver).  *)
(***************************************************************************)
THEOREM ObserversAgree == Spec => []SameObserver
<1>1. ToldInv => SameObserver
  BY DEF ToldInv, IsObserverOf, SameObserver, Callers
<1> QED
  BY TypeInit, TypeStep, ObserversInit, SlotsStep, ToldStep, <1>1, PTL DEF Spec

(***************************************************************************)
(* When the pool is gone, every observer the factory made was deleted, and *)
(* none of them twice: neither the loser of the compare-exchange nor the   *)
(* slots that share an observer leak it or delete it again.                *)
(***************************************************************************)
THEOREM ObserversDeleted == Spec => []DeletedOnce
BY TypeInit, TypeStep, ObserversInit, SlotsStep, OwnerStep, IdleStep, DeletionStep, DeletedStep,
   PTL DEF Spec

=============================================================================
