-------------------------- MODULE DynamicMPMCQueue --------------------------
(***************************************************************************)
(* The dynamic version of MPMCQueue: a queue that starts with a small      *)
(* array of slots and replaces it by a larger one when writers find it     *)
(* full.  An expansion runs under a sequence lock and copies nothing: the  *)
(* tickets below its offset go on using the arrays they belong to.         *)
(*                                                                         *)
(* A step is one access to a shared atomic, with two exceptions that the   *)
(* sequence lock hides: the loads between the two readings of dstate_ are  *)
(* one step (LoadShape), for what they return is dropped unless no store   *)
(* has come between them; and the entry of a closed array is filled in the *)
(* step that stores dslots_, for nobody looks at it before dstate_ counts  *)
(* it.  Array number i is the i-th that was allocated; a pointer to its    *)
(* slots is its number.                                                    *)
(***************************************************************************)
EXTENDS MPMCQueueBase, Sequences, FiniteSets

CONSTANTS
  Writers,      \* threads that write
  Readers,      \* threads that read
  MinCapacity,  \* the capacity the queue starts with
  Capacity,     \* capacity_
  Multiplier,   \* dmult_
  Ways,         \* the ways each thread obtains a ticket: "blocking", "ready", "promised", "until"
  MaxFailures,  \* bound: how often an array cannot be allocated
  MaxTickets,   \* bound: no call begins on a side that has drawn so many tickets
  Nothing       \* an empty slot

ASSUME CapacityAssumption ==
  /\ MinCapacity \in Nat \ {0}
  /\ Capacity \in Nat
  /\ MinCapacity <= Capacity
  /\ Multiplier \in Nat \ {0, 1}
\* The state word has five bits for the number of closed arrays, and every array
\* has at least twice the capacity of the one before.
ASSUME ClosedAssumption == Capacity \div 2 < 2 ^ 30
ASSUME ThreadsAssumption ==
  /\ IsFiniteSet(Writers)
  /\ IsFiniteSet(Readers)
  /\ Writers \cap Readers = {}
ASSUME CallsAssumption ==
  /\ Ways \in [Writers \cup Readers -> SUBSET {"blocking", "ready", "promised", "until"}]
  /\ MaxTickets \in Nat
  /\ MaxFailures \in Nat
  /\ Nothing \notin Nat

Threads == Writers \cup Readers
Items == 1 .. MaxTickets + Cardinality(Writers)

\* No array is as often multiplied as there are items in the largest one.
Arrays == 0 .. Capacity
Slots  == 0 .. Capacity - 1

VARIABLES
  pushTicket,   \* pushTicket_
  popTicket,    \* popTicket_
  dstate,       \* dstate_: the sequence lock in the low bits, the offset above
  dslots,       \* dslots_
  dcapacity,    \* dcapacity_
  dstride,      \* dstride_
  failures,     \* how many allocations have failed
  closed,       \* closed_, as far as it has been filled
  sequencer,    \* the turn each slot's sequencer_ has reached
  contents,     \* contents_ of each slot
  pc,           \* control point of each thread
  way,          \* how its call obtains a ticket
  ticket,       \* the ticket it has loaded or obtained
  other,        \* the other counter; in an expansion, the offset in the making
  state,        \* dstate_ as it has read it
  home,         \* slots, cap, stride and offset: where it takes the ticket to belong
  item,         \* the item a writer is writing
  pushed,       \* the items in the order of their push tickets
  got           \* what the reads have returned, in the order of their pop tickets

counters == <<pushTicket, popTicket>>
shape    == <<dslots, dcapacity, dstride, closed, failures>>
slots    == <<sequencer, contents>>
locals   == <<other, state, home>>
history  == <<pushed, got>>

vars == <<counters, dstate, shape, slots, pc, way, ticket, locals, item, history>>

nowhere == [slots |-> 0, cap |-> 1, stride |-> 1, offset |-> 0]

Init ==
  /\ pushTicket = 0
  /\ popTicket = 0
  /\ dstate = 0
  /\ dslots = 0
  /\ dcapacity = MinCapacity
  /\ dstride = computeStride(MinCapacity)
  /\ closed = <<>>
  /\ failures = 0
  /\ sequencer = [a \in Arrays |-> [s \in Slots |-> 0]]
  /\ contents = [a \in Arrays |-> [s \in Slots |-> Nothing]]
  /\ pc = [t \in Threads |-> "idle"]
  /\ way = [t \in Threads |-> "none"]
  /\ ticket = [t \in Threads |-> 0]
  /\ other = [t \in Threads |-> 0]
  /\ state = [t \in Threads |-> 0]
  /\ home = [t \in Threads |-> nowhere]
  /\ item = [t \in Threads |-> Nothing]
  /\ pushed = <<>>
  /\ got = <<>>

---------------------------------------------------------------------------
(* The packed state *)

SeqlockSpan == 2 ^ 6        \* kSeqlockBits = 6

getOffset(s) == s \div SeqlockSpan
getNumClosed(s) == (s % SeqlockSpan) \div 2
Locked(s) == s % 2 = 1

\* Mutant: a lagging call is sent to the newest array.
maybeUpdateFromClosedNever(s, k, cur) == [cur EXCEPT !.offset = getOffset(s)]

\* Where ticket k belongs if the current array is cur: the latest of the current
\* and the closed arrays that does not start above k.
maybeUpdateFromClosed(s, k, cur) ==
  IF k >= getOffset(s)
  THEN [cur EXCEPT !.offset = getOffset(s)]
  ELSE LET i == CHOOSE i \in 1 .. getNumClosed(s) :
                  /\ closed[i].offset <= k
                  /\ \A j \in i + 1 .. getNumClosed(s) : closed[j].offset > k
       IN  closed[i]

---------------------------------------------------------------------------
(* Threads *)

dispenser(t) == IF t \in Writers THEN pushTicket ELSE popTicket

place(t) == idx(ticket[t] - home[t].offset, home[t].cap, home[t].stride)

\* The turn of a thread's ticket, doubled as in the sequencer.
turnOf(t) ==
  2 * turn(ticket[t] - home[t].offset, home[t].cap) + (IF t \in Writers THEN 0 ELSE 1)

\* mayEnqueue and mayDequeue
isTurn(t) == sequencer[home[t].slots][place(t)] = turnOf(t)

Goto(t, from, to) == pc[t] = from /\ pc' = [pc EXCEPT ![t] = to]

Forget(t) ==
  /\ other' = [other EXCEPT ![t] = 0]
  /\ state' = [state EXCEPT ![t] = 0]

\* A call returns, and its locals are gone.
Return(t, from) ==
  /\ Goto(t, from, "idle")
  /\ Forget(t)
  /\ way' = [way EXCEPT ![t] = "none"]
  /\ ticket' = [ticket EXCEPT ![t] = 0]
  /\ home' = [home EXCEPT ![t] = nowhere]
  /\ item' = [item EXCEPT ![t] = Nothing]

\* The next iteration of the loop a call is in: a blocking call has its ticket,
\* the others load the counter anew.
Again(t, from) ==
  /\ Goto(t, from, IF way[t] = "blocking" THEN "state" ELSE "begin")
  /\ Forget(t)
  /\ ticket' = IF way[t] = "blocking" THEN ticket ELSE [ticket EXCEPT ![t] = 0]
  /\ home' = [home EXCEPT ![t] = nowhere]
  /\ UNCHANGED <<way, item>>

\* The slot is settled: the call waits for its turn there.
Settle(t, from) ==
  /\ Goto(t, from, "turn")
  /\ Forget(t)
  /\ UNCHANGED <<way, ticket, home, item>>

Continue(t, from, to) == Goto(t, from, to) /\ UNCHANGED <<way, ticket, locals, item>>

\* A thread draws the next ticket from its counter.
Draw(t) ==
  /\ ticket' = [ticket EXCEPT ![t] = dispenser(t)]
  /\ \/ /\ t \in Writers
        /\ pushTicket' = pushTicket + 1
        /\ item' = [item EXCEPT ![t] = Len(pushed) + 1]
        /\ pushed' = Append(pushed, Len(pushed) + 1)
        /\ UNCHANGED <<popTicket, got>>
     \/ /\ t \in Readers
        /\ popTicket' = popTicket + 1
        /\ got' = Append(got, Nothing)
        /\ UNCHANGED <<pushTicket, item, pushed>>

---------------------------------------------------------------------------
(* Calls *)

Call(t, w) == dispenser(t) < MaxTickets /\ w \in Ways[t] /\ way' = [way EXCEPT ![t] = w]

\* blockingWrite and blockingReadWithTicket
Blocking(t) ==
  /\ Call(t, "blocking")
  /\ Goto(t, "idle", "state")
  /\ Draw(t)
  /\ UNCHANGED <<dstate, shape, slots, locals>>

Load(t, from) ==
  /\ Goto(t, from, IF way'[t] = "ready" THEN "state" ELSE "counter")
  /\ ticket' = [ticket EXCEPT ![t] = dispenser(t)]
  /\ UNCHANGED <<counters, dstate, shape, slots, locals, item, history>>

\* write and read ("ready"), writeIfNotFull and readIfNotEmpty ("promised"),
\* tryWriteUntil and tryReadUntil ("until")
Start(t, w) == w # "blocking" /\ Call(t, w) /\ Load(t, "idle")

LoadTicket(t) == UNCHANGED way /\ Load(t, "begin")

\* numPops or numPushes
LoadCounter(t) ==
  /\ Goto(t, "counter", "state")
  /\ other' = [other EXCEPT ![t] = IF t \in Writers THEN popTicket ELSE pushTicket]
  /\ UNCHANGED <<counters, dstate, shape, slots, way, ticket, state, home, item, history>>

---------------------------------------------------------------------------
(* trySeqlockReadSection and maybeUpdateFromClosed *)

LoadState(t) ==
  /\ \/ Locked(dstate) /\ Again(t, "state")
     \/ /\ ~Locked(dstate)
        /\ Goto(t, "state", "shape")
        /\ state' = [state EXCEPT ![t] = dstate]
        /\ UNCHANGED <<way, ticket, other, home, item>>
  /\ UNCHANGED <<counters, dstate, shape, slots, history>>

\* Three loads, maybe between two stores of an expansion: Validate drops these.
LoadShape(t) ==
  /\ Goto(t, "shape", "validate")
  /\ home' = [home EXCEPT ![t] = [slots  |-> dslots, cap |-> dcapacity,
                                  stride |-> dstride, offset |-> 0]]
  /\ UNCHANGED <<counters, dstate, shape, slots, way, ticket, other, state, item, history>>

\* Mutant: the section is not validated.
unchanged(t) == TRUE

validated(t) == dstate = state[t]

\* Which step comes next once a call knows where its ticket belongs.  A blocking
\* read, and a blocking write whose ticket was overtaken by an expansion, go to
\* their slot; the other calls first look whether it is free.
Validate(t) ==
  /\ \/ ~validated(t) /\ Again(t, "validate")
     \/ /\ validated(t)
        /\ home' = [home EXCEPT ![t] = maybeUpdateFromClosed(state[t], ticket[t], @)]
        /\ IF way[t] = "blocking" /\ (t \in Readers \/ ticket[t] < getOffset(state[t]))
           THEN Goto(t, "validate", "turn") /\ Forget(t)
           ELSE Goto(t, "validate", "home") /\ UNCHANGED <<other, state>>
        /\ UNCHANGED <<way, ticket, item>>
  /\ UNCHANGED <<counters, dstate, shape, slots, history>>

---------------------------------------------------------------------------
(* tryExpand *)

\* tryExpand has returned false: a blocking write waits, tryWriteUntil waits for
\* the ticket's turn before it tries again, write and writeIfNotFull fail.
CannotExpand(t, from) ==
  \/ way[t] = "blocking" /\ Settle(t, from)
  \/ /\ way[t] = "until"
     /\ Goto(t, from, "wait")
     /\ Forget(t)
     /\ UNCHANGED <<way, ticket, home, item>>
  \/ way[t] \in {"ready", "promised"} /\ Return(t, from)

\* The sequence lock is taken, or someone else has it or had it.
Acquire(t, from) ==
  \/ dstate = state[t] /\ dstate' = dstate + 1 /\ Continue(t, from, "count")
  \/ dstate # state[t] /\ dstate' = dstate /\ Again(t, from)

tryExpand(t, from) ==
  \/ home[t].cap = Capacity /\ CannotExpand(t, from)
  \/ home[t].cap # Capacity /\ Continue(t, from, "lock")

Lock(t) == Acquire(t, "lock") /\ UNCHANGED <<counters, shape, slots, history>>

\* Mutant: the next ticket to be issued is taken for one that nobody uses yet.
firstTicketTooLow(m, n) == IF m >= n THEN m ELSE n

\* A ticket that no call has yet looked at in the current array.
firstTicket(m, n) == 1 + (IF m >= n THEN m ELSE n)

\* The arguments of std::max, which the compiler evaluates in the order it likes.
LoadPushes(t) ==
  /\ \/ Goto(t, "count", "pops") /\ other' = [other EXCEPT ![t] = pushTicket]
     \/ Goto(t, "pushes", "allocate") /\ other' = [other EXCEPT ![t] = firstTicket(@, pushTicket)]
  /\ UNCHANGED <<counters, dstate, shape, slots, way, ticket, state, home, item, history>>

LoadPops(t) ==
  /\ \/ Goto(t, "count", "pushes") /\ other' = [other EXCEPT ![t] = popTicket]
     \/ Goto(t, "pops", "allocate") /\ other' = [other EXCEPT ![t] = firstTicket(@, popTicket)]
  /\ UNCHANGED <<counters, dstate, shape, slots, way, ticket, state, home, item, history>>

\* There is no memory for the new array: the lock is given back.
AllocationFails(t) ==
  /\ failures < MaxFailures
  /\ failures' = failures + 1
  /\ CannotExpand(t, "allocate")
  /\ dstate' = state[t]
  /\ UNCHANGED <<counters, dslots, dcapacity, dstride, closed, slots, history>>

\* The current array is entered among the closed ones and replaced.
StoreSlots(t) ==
  /\ Continue(t, "allocate", "resize")
  /\ closed' = Append(closed, [slots  |-> dslots, cap |-> home[t].cap,
                               stride |-> dstride, offset |-> getOffset(state[t])])
  /\ dslots' = dslots + 1
  /\ UNCHANGED <<counters, dstate, dcapacity, dstride, failures, slots, history>>

newCapacity(cap) == IF Multiplier * cap <= Capacity THEN Multiplier * cap ELSE Capacity

StoreCapacity(t) ==
  /\ Continue(t, "resize", "resized")
  /\ dcapacity' = newCapacity(home[t].cap)
  /\ UNCHANGED <<counters, dstate, dslots, dstride, closed, failures, slots, history>>

StoreStride(t) ==
  /\ Continue(t, "resized", "unlock")
  /\ dstride' = computeStride(newCapacity(home[t].cap))
  /\ UNCHANGED <<counters, dstate, dslots, dcapacity, closed, failures, slots, history>>

Unlock(t) ==
  /\ Again(t, "unlock")
  /\ dstate' = other[t] * SeqlockSpan + 2 * (getNumClosed(state[t]) + 1)
  /\ UNCHANGED <<counters, shape, slots, history>>

---------------------------------------------------------------------------
(* Obtaining a ticket, or the slot for a blocking write *)

\* blockingWrite: the slot is ready, or it is to be freed by a pop under way, or
\* the queue has to grow.
CheckSlot(t) ==
  /\ way[t] = "blocking"
  /\ \/ isTurn(t) /\ Settle(t, "home")
     \/ ~isTurn(t) /\ Continue(t, "home", "pop")
  /\ UNCHANGED <<counters, dstate, shape, slots, history>>

PopUnderWay(t) ==
  /\ \/ popTicket + home[t].cap > ticket[t] /\ Again(t, "pop")
     \/ popTicket + home[t].cap <= ticket[t] /\ tryExpand(t, "pop")
  /\ UNCHANGED <<counters, dstate, shape, slots, history>>

\* tryObtainReadyPushTicket, tryObtainReadyPopTicket
CheckReady(t) ==
  /\ way[t] = "ready"
  /\ \/ isTurn(t) /\ Continue(t, "home", "cas")
     \/ ~isTurn(t) /\ t \in Writers /\ Continue(t, "home", "recheck")
     \/ ~isTurn(t) /\ t \in Readers /\ Return(t, "home")
  /\ UNCHANGED <<counters, dstate, shape, slots, history>>

Recheck(t) ==
  /\ \/ pushTicket # ticket[t] /\ Again(t, "recheck")
     \/ /\ pushTicket = ticket[t]
        /\ \/ home[t].offset = getOffset(state[t]) /\ tryExpand(t, "recheck")
           \/ home[t].offset # getOffset(state[t]) /\ Return(t, "recheck")
  /\ UNCHANGED <<counters, dstate, shape, slots, history>>

\* Mutant: the limit is the capacity of the current array, not of the ticket's.
RefusedByCurrent(t) ==
  IF t \in Writers THEN ticket[t] - other[t] >= dcapacity ELSE ticket[t] >= other[t]

\* No room, or nothing to read.
Refused(t) ==
  IF t \in Writers THEN ticket[t] - other[t] >= home[t].cap ELSE ticket[t] >= other[t]

\* The compare-exchange on the counter.
Advance(t, from) ==
  \/ /\ dispenser(t) = ticket[t]
     /\ Draw(t)
     /\ Goto(t, from, "turn")
     /\ Forget(t)
     /\ UNCHANGED <<way, home>>
  \/ dispenser(t) # ticket[t] /\ Again(t, from) /\ UNCHANGED <<counters, history>>

Cas(t) == Advance(t, "cas") /\ UNCHANGED <<dstate, shape, slots>>

\* tryObtainPromisedPushTicket, tryObtainPromisedPopTicket: draw the ticket, or
\* expand the array unless it is closed already.  (The code compares the two
\* capacities; a closed array is always smaller than the current one.)
CheckPromised(t) ==
  /\ way[t] \in {"promised", "until"}
  /\ \/ ~Refused(t) /\ Advance(t, "home") /\ UNCHANGED dstate
     \/ /\ Refused(t)
        /\ IF t \in Writers /\ home[t].offset = getOffset(state[t]) /\ home[t].cap # Capacity
           THEN Acquire(t, "home")
           ELSE CannotExpand(t, "home") /\ UNCHANGED dstate
        /\ UNCHANGED <<counters, history>>
  /\ UNCHANGED <<shape, slots>>

\* tryObtainPromised...TicketUntil: wait at a slot that is not reserved, then
\* try again.
TurnArrived(t) ==
  /\ sequencer[home[t].slots][place(t)] >= turnOf(t)
  /\ Again(t, "wait")
  /\ UNCHANGED <<counters, dstate, shape, slots, history>>

Deadline(t) ==
  /\ Return(t, "wait")
  /\ UNCHANGED <<counters, dstate, shape, slots, history>>

---------------------------------------------------------------------------
(* SingleElementQueue::enqueue and dequeue *)

Enqueue(t) ==
  /\ t \in Writers
  /\ isTurn(t)
  /\ Continue(t, "turn", "complete")
  /\ contents' = [contents EXCEPT ![home[t].slots][place(t)] = item[t]]
  /\ UNCHANGED <<counters, dstate, shape, sequencer, history>>

Dequeue(t) ==
  /\ t \in Readers
  /\ isTurn(t)
  /\ Continue(t, "turn", "complete")
  /\ got' = [got EXCEPT ![ticket[t] + 1] = contents[home[t].slots][place(t)]]
  /\ contents' = [contents EXCEPT ![home[t].slots][place(t)] = Nothing]
  /\ UNCHANGED <<counters, dstate, shape, sequencer, pushed>>

Complete(t) ==
  /\ Return(t, "complete")
  /\ sequencer' = [sequencer EXCEPT ![home[t].slots][place(t)] = turnOf(t) + 1]
  /\ UNCHANGED <<counters, dstate, shape, contents, history>>

---------------------------------------------------------------------------
Step(t) ==
  \/ LoadTicket(t) \/ LoadCounter(t)
  \/ LoadState(t) \/ LoadShape(t) \/ Validate(t)
  \/ Lock(t) \/ LoadPushes(t) \/ LoadPops(t) \/ AllocationFails(t)
  \/ StoreSlots(t) \/ StoreCapacity(t) \/ StoreStride(t) \/ Unlock(t)
  \/ CheckSlot(t) \/ PopUnderWay(t)
  \/ CheckReady(t) \/ Recheck(t) \/ CheckPromised(t) \/ Cas(t)
  \/ TurnArrived(t)
  \/ Enqueue(t) \/ Dequeue(t) \/ Complete(t)

Next ==
  \E t \in Threads :
    \/ Blocking(t)
    \/ \E w \in Ways[t] : Start(t, w)
    \/ Step(t)
    \/ Deadline(t)

Spec == Init /\ [][Next]_vars

(* A thread inside a call keeps running.                                    *)
FairSpec == Spec /\ \A t \in Threads : WF_vars(Step(t))

---------------------------------------------------------------------------
(* Properties *)

\* The k-th read returns the item of the k-th write, whatever arrays the two
\* found when they looked for their slot.
Fifo == INSTANCE FifoQueue
IsFifo == Fifo!Spec

\* A call that was sent to an array is never overtaken by an expansion: the array
\* is still the one its ticket belongs to, as every later call will find out.
HomeStable ==
  \A t \in Threads :
    pc[t] \in {"turn", "complete", "wait"} /\ ~Locked(dstate) =>
      home[t] = maybeUpdateFromClosed(dstate, ticket[t],
                  [slots |-> dslots, cap |-> dcapacity, stride |-> dstride, offset |-> 0])

\* A promised ticket waits only for calls that have their ticket already, also in
\* an array that was closed because it was full.
PromiseKept ==
  \A t \in Threads :
    pc[t] = "turn" /\ way[t] \in {"promised", "until"} =>
      IF t \in Writers THEN ticket[t] < popTicket + home[t].cap ELSE ticket[t] < pushTicket

\* A read whose write has been admitted returns, although the two may have
\* looked for their slot before and after an expansion.
AdmittedReadReturns ==
  \A r \in Readers :
    (way[r] = "blocking" \/ pc[r] = "turn") /\ ticket[r] < pushTicket ~> pc[r] = "idle"

=============================================================================
