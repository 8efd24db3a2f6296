------------------------- MODULE PriorityTaskQueues -------------------------
(***************************************************************************)
(* The task queues with priorities: PriorityLifoSemMPMCQueue, one bounded  *)
(* MPMCQueue per priority and one semaphore for all of them, in its two    *)
(* behaviours when full ("THROW", "BLOCK"), and PriorityUnboundedBlocking- *)
(* Queue ("UNBOUNDED").  With one priority the former is LifoSemMPMCQueue. *)
(*                                                                         *)
(* An inner queue is what MPMCQueue has been shown to be: writes and reads *)
(* are admitted in order, a read ends after the write of the same number   *)
(* and a write after the read that frees its slot.  Nothing makes the scan *)
(* of the inner queues and the semaphore one step.                         *)
(***************************************************************************)
EXTENDS Integers, FiniteSets

CONSTANTS
  Producers,      \* threads that add items
  Consumers,      \* threads that take items
  Kinds,          \* the kinds of queue: "THROW", "BLOCK", "UNBOUNDED"
  NumPriorities,  \* numPriorities
  Priorities,     \* the priorities that producers ask for
  Capacity,       \* max_capacity of each inner queue
  MaxItems        \* bound: no more items are added to one inner queue

ASSUME PrioritiesAssumption ==
  /\ NumPriorities \in 1 .. 255
  /\ Priorities \subseteq -128 .. 127
ASSUME QueuesAssumption ==
  /\ Kinds \subseteq {"THROW", "BLOCK", "UNBOUNDED"}
  /\ Capacity \in Nat \ {0}
  /\ MaxItems \in Nat

Queues == 0 .. NumPriorities - 1

VARIABLES
  kind,      \* the kind of queue, fixed when it is made
  sem,       \* the value of sem_
  pushes,    \* the writes each inner queue has admitted
  pops,      \* the reads each inner queue has admitted
  written,   \* the numbers of the writes that are done
  taken,     \* the numbers of the reads that are done
  pc,        \* control point of each thread
  queue,     \* the inner queue it works on
  ticket,    \* the number of its write or read
  began      \* pushes when a consumer began its scan

inner == <<pushes, pops, written, taken>>
vars  == <<kind, sem, inner, pc, queue, ticket, began>>

none == [q \in Queues |-> 0]

Init ==
  /\ kind \in Kinds
  /\ sem = 0
  /\ pushes = none
  /\ pops = none
  /\ written = [q \in Queues |-> {}]
  /\ taken = [q \in Queues |-> {}]
  /\ pc = [t \in Producers \cup Consumers |-> "idle"]
  /\ queue = [t \in Producers \cup Consumers |-> 0]
  /\ ticket = [t \in Producers \cup Consumers |-> 0]
  /\ began = [c \in Consumers |-> none]

---------------------------------------------------------------------------
(* Priorities *)

\* The loop counter of the constructor is an int8_t.
int8(x) == ((x + 128) % 256) - 128

\* How many inner queues the constructor makes when it is asked for n.  It never
\* ends if n is above 127; the pool asks with an int8_t.
queuesMade(n) == CHOOSE k \in 0 .. 128 : int8(k) >= n /\ \A j \in 0 .. k - 1 : int8(j) < n

Larger(a, b) == IF a >= b THEN a ELSE b
Smaller(a, b) == IF a <= b THEN a ELSE b

\* Mutant: the middle is rounded up.
queueOfRoundedUp(n, p) ==
  LET mid == (n + 1) \div 2
  IN  IF p < 0 THEN Larger(0, mid + p) ELSE Smaller(n - 1, mid + p)

\* PriorityLifoSemMPMCQueue::addWithPriority: the inner queue for a priority; the
\* one with the largest number is served first.
queueOf(n, p) ==
  LET mid == n \div 2
  IN  IF p < 0 THEN Larger(0, mid + p) ELSE Smaller(n - 1, mid + p)

\* PriorityUnboundedBlockingQueue::translatePriority: here 0 is served first.
translatePriority(n, p) ==
  LET hi == (n + 1) \div 2 - 1
      lo == hi - (n - 1)
  IN  hi - Smaller(hi, Larger(lo, p))

\* The inner queue of an item, counted upwards by rank in either kind.
rank(p) ==
  IF kind = "UNBOUNDED"
  THEN NumPriorities - 1 - translatePriority(NumPriorities, p)
  ELSE queueOf(NumPriorities, p)

top == NumPriorities - 1

---------------------------------------------------------------------------
Goto(t, from, to) == pc[t] = from /\ pc' = [pc EXCEPT ![t] = to]

(* Adding an item *)

Full(q) == pushes[q] - pops[q] >= Capacity

\* writeIfNotFull refuses the item: an exception leaves add().
Throw(p, i) ==
  /\ kind = "THROW"
  /\ pc[p] = "idle"
  /\ pushes[rank(i)] < MaxItems
  /\ Full(rank(i))
  /\ UNCHANGED vars

\* The write is admitted: always by blockingWrite and by the unbounded queue.
Admit(p, i) ==
  /\ pushes[rank(i)] < MaxItems
  /\ kind = "THROW" => ~Full(rank(i))
  /\ Goto(p, "idle", "write")
  /\ queue' = [queue EXCEPT ![p] = rank(i)]
  /\ ticket' = [ticket EXCEPT ![p] = pushes[rank(i)]]
  /\ pushes' = [pushes EXCEPT ![rank(i)] = @ + 1]
  /\ UNCHANGED <<kind, sem, pops, written, taken, began>>

\* The item is written, once the slot has been read by the call before.
Write(p) ==
  /\ kind # "UNBOUNDED" =>
       ticket[p] < Capacity \/ ticket[p] - Capacity \in taken[queue[p]]
  /\ Goto(p, "write", "post")
  /\ written' = [written EXCEPT ![queue[p]] = @ \cup {ticket[p]}]
  /\ UNCHANGED <<kind, sem, pushes, pops, taken, queue, ticket, began>>

\* Mutant: add() returns without a post.
PostForgotten(p) ==
  /\ Goto(p, "post", "idle")
  /\ queue' = [queue EXCEPT ![p] = 0]
  /\ ticket' = [ticket EXCEPT ![p] = 0]
  /\ UNCHANGED <<kind, sem, inner, began>>

Post(p) ==
  /\ Goto(p, "post", "idle")
  /\ sem' = sem + 1
  /\ queue' = [queue EXCEPT ![p] = 0]
  /\ ticket' = [ticket EXCEPT ![p] = 0]
  /\ UNCHANGED <<kind, inner, began>>

---------------------------------------------------------------------------
(* Taking an item *)

\* Mutant: the scan begins at the lowest priority.
ScanLowest(c, from) ==
  /\ Goto(c, from, "scan")
  /\ queue' = [queue EXCEPT ![c] = 0]
  /\ began' = [began EXCEPT ![c] = pushes]

\* nonBlockingTake, and try_dequeue of the unbounded queues, begin at the top.
Scan(c, from) ==
  /\ Goto(c, from, "scan")
  /\ queue' = [queue EXCEPT ![c] = top]
  /\ began' = [began EXCEPT ![c] = pushes]

\* take() and try_take_for(): the bounded queue looks first, the other waits first.
Take(c) ==
  /\ \/ kind # "UNBOUNDED" /\ Scan(c, "idle")
     \/ kind = "UNBOUNDED" /\ Goto(c, "idle", "sem") /\ UNCHANGED <<queue, began>>
  /\ UNCHANGED <<kind, sem, inner, ticket>>

\* readIfNotEmpty on one inner queue succeeds ...
Claim(c) ==
  /\ pushes[queue[c]] > pops[queue[c]]
  /\ Goto(c, "scan", "read")
  /\ ticket' = [ticket EXCEPT ![c] = pops[queue[c]]]
  /\ pops' = [pops EXCEPT ![queue[c]] = @ + 1]
  /\ UNCHANGED <<kind, sem, pushes, written, taken, queue, began>>

\* ... or fails, and the next one has its turn.
Pass(c) ==
  /\ pushes[queue[c]] <= pops[queue[c]]
  /\ queue[c] > 0
  /\ pc[c] = "scan"
  /\ queue' = [queue EXCEPT ![c] = @ - 1]
  /\ UNCHANGED <<kind, sem, inner, pc, ticket, began>>

\* All inner queues were empty when they were looked at: the bounded queue waits,
\* the unbounded one has had its token and terminates the program.
FoundNothing(c) ==
  /\ pushes[0] <= pops[0]
  /\ queue[c] = 0
  /\ Goto(c, "scan", IF kind = "UNBOUNDED" THEN "terminated" ELSE "sem")
  /\ began' = [began EXCEPT ![c] = none]
  /\ UNCHANGED <<kind, sem, inner, queue, ticket>>

\* Mutant: the wait leaves the token.
WaitAndKeep(c) ==
  /\ sem > 0
  /\ Scan(c, "sem")
  /\ UNCHANGED <<kind, sem, inner, ticket>>

Wait(c) ==
  /\ sem > 0
  /\ sem' = sem - 1
  /\ Scan(c, "sem")
  /\ UNCHANGED <<kind, inner, ticket>>

\* try_wait_for gives up, which it does only while there is no token to take:
\* try_take_for returns none.
TimedOut(c) ==
  /\ sem = 0
  /\ Goto(c, "sem", "idle")
  /\ UNCHANGED <<kind, sem, inner, queue, ticket, began>>

\* The read ends when the write of the same number is done.
Read(c) ==
  /\ ticket[c] \in written[queue[c]]
  /\ Goto(c, "read", "idle")
  /\ taken' = [taken EXCEPT ![queue[c]] = @ \cup {ticket[c]}]
  /\ queue' = [queue EXCEPT ![c] = 0]
  /\ ticket' = [ticket EXCEPT ![c] = 0]
  /\ began' = [began EXCEPT ![c] = none]
  /\ UNCHANGED <<kind, sem, pushes, pops, written>>

---------------------------------------------------------------------------
Produce(p) == Write(p) \/ Post(p)
Consume(c) == Take(c) \/ Claim(c) \/ Pass(c) \/ FoundNothing(c) \/ Wait(c) \/ Read(c)

Next ==
  \/ \E p \in Producers : (\E i \in Priorities : Throw(p, i) \/ Admit(p, i)) \/ Produce(p)
  \/ \E c \in Consumers : Consume(c) \/ TimedOut(c)

Spec == Init /\ [][Next]_vars

(* A call that has begun goes on, and consumers keep coming back, as the    *)
(* loop of a worker thread does; no item has to be added and no wait to     *)
(* time out.                                                                *)
FairSpec ==
  /\ Spec
  /\ \A p \in Producers : WF_vars(Produce(p))
  /\ \A c \in Consumers : WF_vars(Consume(c))

---------------------------------------------------------------------------
(* Properties *)

\* In a queue just made, with any number of priorities, every priority of a task
\* has an inner queue, as addWithPriority CHECKs, and the two kinds of queue serve
\* the priorities in the same order.
PrioritiesAgree ==
  (pushes = none /\ \A t \in DOMAIN pc : pc[t] = "idle") =>
    \A n \in 1 .. 127, p \in -128 .. 127 :
      /\ queueOf(n, p) \in 0 .. queuesMade(n) - 1
      /\ translatePriority(n, p) = n - 1 - queueOf(n, p)

\* A thread that has had a token finds an item: "bug in task queue" is never
\* reached, although items of higher priority come and go behind the scan.
DequeueSucceeds == \A c \in Consumers : pc[c] # "terminated"

\* A consumer never takes an item while one of higher priority, which was there
\* when its scan began, is left.
NoInversion ==
  \A c \in Consumers :
    pc[c] = "read" => \A q \in queue[c] + 1 .. top : pops[q] >= began[c][q]

\* Every item that is added is taken in the end, whoever had the token that its
\* add posted.
EveryItemTaken == []<>(\A q \in Queues : Cardinality(taken[q]) = pushes[q])

=============================================================================
