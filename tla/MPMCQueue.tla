----------------------------- MODULE MPMCQueue -----------------------------
(***************************************************************************)
(* The bounded queue of MPMCQueue.h (the one with a fixed capacity): a     *)
(* ring of SingleElementQueue slots.  A call first obtains a ticket from   *)
(* one of two counters, in one of four ways, and then waits at the ticket's*)
(* slot until the slot's sequencer has reached the ticket's turn.  Even    *)
(* turns are pushes, odd turns are pops.                                   *)
(*                                                                         *)
(* A step is one access to a counter or to a sequencer.  Writers and       *)
(* readers run the same protocol on the two sides of the queue.            *)
(***************************************************************************)
EXTENDS MPMCQueueBase, Sequences, FiniteSets

CONSTANTS
  Writers,     \* threads that write
  Readers,     \* threads that read
  Capacity,    \* capacity_
  TurnSpan,    \* a sequencer counts its turns modulo this: 2^26 in TurnSequencer
  Scenarios,   \* what the threads do: see ScenariosAssumption
  Nothing      \* an empty slot

ASSUME CapacityAssumption ==
  /\ Capacity \in Nat \ {0}
  /\ TurnSpan \in Nat \ {0}
  /\ TurnSpan % 2 = 0
ASSUME ThreadsAssumption ==
  /\ IsFiniteSet(Writers)
  /\ IsFiniteSet(Readers)
  /\ Writers \cap Readers = {}
\* A scenario fixes how calls obtain a ticket, whether some thread calls size(),
\* how many writes and reads the empty queue has behind it, and a bound: no call
\* begins on a side that has drawn so many tickets since.
ASSUME ScenariosAssumption ==
  /\ Scenarios \subseteq [ways    : SUBSET {"blocking", "ready", "promised", "until"},
                          sizing  : BOOLEAN,
                          start   : Nat,
                          tickets : Nat]
  /\ \E s \in Scenarios : \A r \in Scenarios : r.tickets <= s.tickets
  /\ Nothing \notin Nat
\* There are turns enough to tell the calls apart that are waiting at a slot: a
\* round takes two turns, and no more calls are waiting than there are threads.
ASSUME TurnsAssumption ==
  /\ 2 * Cardinality(Writers) <= TurnSpan
  /\ 2 * Cardinality(Readers) <= TurnSpan

Slots  == 0 .. Capacity - 1
Stride == computeStride(Capacity)     \* stride_

Threads == Writers \cup Readers

\* The queue never looks at an item, so the item of a write may be named by the
\* write's place among all the writes that were admitted.
Items == 1 .. Cardinality(Writers) + CHOOSE n \in {s.tickets : s \in Scenarios} :
                                        \A s \in Scenarios : s.tickets <= n

VARIABLES
  scenario,    \* the one this behaviour follows
  pushTicket,  \* pushTicket_
  popTicket,   \* popTicket_
  sequencer,   \* the turn each slot's sequencer_ has reached
  contents,    \* contents_ of each slot
  pc,          \* control point of each thread
  way,         \* how its call obtains a ticket
  ticket,      \* the ticket it has loaded or obtained
  item,        \* the item a writer is writing
  pushed,      \* the items in the order of their push tickets
  got,         \* what the reads have returned, in the order of their pop tickets
  spc,         \* control point of the thread in size()
  pushes,      \* its locals
  pops,
  was          \* the size of the queue when it last loaded a counter

counters == <<pushTicket, popTicket>>
slots    == <<sequencer, contents>>
calls    == <<pc, way, ticket, item>>
history  == <<pushed, got>>
others   == <<scenario, spc, pushes, pops, was>>

vars == <<counters, slots, calls, history, others>>

---------------------------------------------------------------------------
(* Tickets, slots and turns *)

\* The slot of ticket k.
place(k) == idx(k, Capacity, Stride)

\* The turn of ticket k, doubled as in the sequencer: even for a push, odd for a pop.
pushTurn(k) == (2 * turn(k, Capacity)) % TurnSpan
turnOf(t, k) == (2 * turn(k, Capacity) + (IF t \in Writers THEN 0 ELSE 1)) % TurnSpan

\* The turn of the first ticket from k on that uses slot s.
nextTurn(s, k) == pushTurn(CHOOSE n \in k .. k + Capacity - 1 : place(n) = s)

Init ==
  /\ scenario \in Scenarios
  /\ pushTicket = scenario.start
  /\ popTicket = scenario.start
  /\ sequencer = [s \in Slots |-> nextTurn(s, scenario.start)]
  /\ contents = [s \in Slots |-> Nothing]
  /\ pc = [t \in Threads |-> "idle"]
  /\ way = [t \in Threads |-> "none"]
  /\ ticket = [t \in Threads |-> 0]
  /\ item = [t \in Threads |-> Nothing]
  /\ pushed = <<>>
  /\ got = <<>>
  /\ spc = "idle"
  /\ pushes = 0
  /\ pops = 0
  /\ was = 0

\* Mutant: only writers and readers are told apart, not their rounds.
isTurnOfAnyRound(t, k) == sequencer[place(k)] % 2 = turnOf(t, k) % 2

\* mayEnqueue and mayDequeue
isTurn(t, k) == sequencer[place(k)] = turnOf(t, k)

\* The counter a thread draws its tickets from.
dispenser(t) == IF t \in Writers THEN pushTicket ELSE popTicket

Full(k) == k - popTicket >= Capacity
Empty(k) == k >= pushTicket

\* Mutant: one item too many is promised.
RefusedOffByOne(t, k) == IF t \in Writers THEN k - popTicket > Capacity ELSE Empty(k)

\* Mutant: a queue with one free slot is taken for full.
RefusedEarly(t, k) == IF t \in Writers THEN k - popTicket >= Capacity - 1 ELSE Empty(k)

\* tryObtainPromisedPushTicket and tryObtainPromisedPopTicket: no room, or nothing to read.
Refused(t, k) == IF t \in Writers THEN Full(k) ELSE Empty(k)

Goto(t, from, to) == pc[t] = from /\ pc' = [pc EXCEPT ![t] = to]
Load(t) == ticket' = [ticket EXCEPT ![t] = dispenser(t)]

\* A call returns, and its locals are gone.
Return(t, from) ==
  /\ Goto(t, from, "idle")
  /\ way' = [way EXCEPT ![t] = "none"]
  /\ ticket' = [ticket EXCEPT ![t] = 0]
  /\ item' = [item EXCEPT ![t] = Nothing]

\* A thread draws the next ticket from its counter.
Draw(t, from) ==
  /\ Goto(t, from, "turn")
  /\ Load(t)
  /\ \/ /\ t \in Writers
        /\ pushTicket' = pushTicket + 1
        /\ item' = [item EXCEPT ![t] = Len(pushed) + 1]
        /\ pushed' = Append(pushed, Len(pushed) + 1)
        /\ UNCHANGED <<popTicket, got>>
     \/ /\ t \in Readers
        /\ popTicket' = popTicket + 1
        /\ got' = Append(got, Nothing)
        /\ UNCHANGED <<pushTicket, item, pushed>>

---------------------------------------------------------------------------
(* Calls *)

Call(t, w) ==
  /\ w \in scenario.ways
  /\ dispenser(t) < scenario.start + scenario.tickets
  /\ way' = [way EXCEPT ![t] = w]

\* blockingWrite and blockingRead take the next ticket whatever it is.
Blocking(t) ==
  /\ Call(t, "blocking")
  /\ Draw(t, "idle")
  /\ UNCHANGED <<slots, others>>

\* write and read ("ready"), writeIfNotFull and readIfNotEmpty ("promised"),
\* tryWriteUntil and tryReadUntil ("until") first look at the counter.
Begin(t, w) ==
  /\ w # "blocking"
  /\ Goto(t, "idle", "check")
  /\ Call(t, w)
  /\ Load(t)
  /\ UNCHANGED <<item, counters, slots, history, others>>

\* tryObtainReadyPushTicket, tryObtainReadyPopTicket: is the ticket's slot ready?
CheckReady(t) ==
  /\ way[t] = "ready"
  /\ Goto(t, "check", IF isTurn(t, ticket[t]) THEN "cas" ELSE "recheck")
  /\ UNCHANGED <<counters, slots, way, ticket, item, history, others>>

\* It is not: give up, unless the counter has moved on meanwhile.
Recheck(t) ==
  /\ \/ dispenser(t) = ticket[t] /\ Return(t, "recheck")
     \/ /\ dispenser(t) # ticket[t]
        /\ Goto(t, "recheck", "check")
        /\ Load(t)
        /\ UNCHANGED <<way, item>>
  /\ UNCHANGED <<counters, slots, history, others>>

\* The promised tickets: is the other side's counter far enough?
CheckPromised(t) ==
  /\ way[t] \in {"promised", "until"}
  /\ \/ ~Refused(t, ticket[t]) /\ Goto(t, "check", "cas") /\ UNCHANGED <<way, ticket, item>>
     \/ Refused(t, ticket[t]) /\ way[t] = "promised" /\ Return(t, "check")
     \/ /\ Refused(t, ticket[t]) /\ way[t] = "until"
        /\ Goto(t, "check", "wait")
        /\ UNCHANGED <<way, ticket, item>>
  /\ UNCHANGED <<counters, slots, history, others>>

\* tryObtainPromised...TicketUntil: wait for a ticket that is not reserved, then
\* try again; the sequencer may be past the turn by now.
TurnArrived(t) ==
  /\ (sequencer[place(ticket[t])] - turnOf(t, ticket[t])) % TurnSpan <= TurnSpan \div 2
  /\ Goto(t, "wait", "check")
  /\ Load(t)
  /\ UNCHANGED <<counters, slots, way, item, history, others>>

Deadline(t) ==
  /\ Return(t, "wait")
  /\ UNCHANGED <<counters, slots, history, others>>

\* Mutant: the counter is advanced although it has changed.
CasBlind(t) ==
  /\ Draw(t, "cas")
  /\ UNCHANGED <<slots, way, others>>

\* The compare-exchange on the counter; if it fails it loads the counter anew.
Cas(t) ==
  /\ \/ dispenser(t) = ticket[t] /\ Draw(t, "cas")
     \/ /\ dispenser(t) # ticket[t]
        /\ Goto(t, "cas", "check")
        /\ Load(t)
        /\ UNCHANGED <<counters, item, history>>
  /\ UNCHANGED <<slots, way, others>>

\* SingleElementQueue::enqueue and dequeue: once it is the ticket's turn ...
Enqueue(t) ==
  /\ t \in Writers
  /\ isTurn(t, ticket[t])
  /\ Goto(t, "turn", "complete")
  /\ contents' = [contents EXCEPT ![place(ticket[t])] = item[t]]
  /\ UNCHANGED <<counters, sequencer, way, ticket, item, history, others>>

Dequeue(t) ==
  /\ t \in Readers
  /\ isTurn(t, ticket[t])
  /\ Goto(t, "turn", "complete")
  /\ got' = [got EXCEPT ![ticket[t] - scenario.start + 1] = contents[place(ticket[t])]]
  /\ contents' = [contents EXCEPT ![place(ticket[t])] = Nothing]
  /\ UNCHANGED <<counters, sequencer, way, ticket, item, pushed, others>>

\* ... and completeTurn.
Complete(t) ==
  /\ Return(t, "complete")
  /\ sequencer' = [sequencer EXCEPT ![place(ticket[t])] = (turnOf(t, ticket[t]) + 1) % TurnSpan]
  /\ UNCHANGED <<counters, contents, history, others>>

---------------------------------------------------------------------------
(* size(), called by one thread *)

\* A load of a counter, after which size() returns if ok.
SizeLoad(from, ok, to) ==
  /\ spc = from
  /\ spc' = IF ok THEN "idle" ELSE to
  /\ was' = IF ok THEN 0 ELSE pushTicket - popTicket
  /\ UNCHANGED <<scenario, counters, slots, calls, history>>

LoadPushes(ok) == pushes' = (IF ok THEN 0 ELSE pushTicket) /\ pops' = IF ok THEN 0 ELSE pops
LoadPops(ok)   == pops' = (IF ok THEN 0 ELSE popTicket) /\ pushes' = IF ok THEN 0 ELSE pushes

\* Mutant: two loads are taken for a snapshot.
unbracketed(new, old) == TRUE

\* A counter that reads as before has not moved in between.
bracketed(new, old) == new = old

SizeA == scenario.sizing /\ SizeLoad("idle", FALSE, "B") /\ LoadPushes(FALSE)
SizeB == SizeLoad("B", FALSE, "C") /\ LoadPops(FALSE)

\* pushes are loaded again: if there were none, the size is that of the last load.
SizeC ==
  LET ok == bracketed(pushTicket, pushes) IN SizeLoad("C", ok, "D") /\ LoadPushes(ok)
SizeD ==
  LET ok == bracketed(popTicket, pops) IN SizeLoad("D", ok, "C") /\ LoadPops(ok)

---------------------------------------------------------------------------
Step(t) ==
  \/ CheckReady(t)
  \/ Recheck(t)
  \/ CheckPromised(t)
  \/ TurnArrived(t)
  \/ Cas(t)
  \/ Enqueue(t)
  \/ Dequeue(t)
  \/ Complete(t)

SizeStep == SizeA \/ SizeB \/ SizeC \/ SizeD

Next ==
  \/ \E t \in Threads : Blocking(t) \/ (\E w \in scenario.ways : Begin(t, w)) \/ Step(t) \/ Deadline(t)
  \/ SizeStep

Spec == Init /\ [][Next]_vars

---------------------------------------------------------------------------
(* Properties *)

\* A slot that lets a writer in is empty, one that lets a reader in holds an
\* item, and no two threads are inside the same slot.
SlotExclusive ==
  /\ \A t \in Threads :
       pc[t] = "turn" /\ isTurn(t, ticket[t]) =>
         (t \in Writers <=> contents[place(ticket[t])] = Nothing)
  /\ \A t, u \in Threads :
       pc[t] = "complete" /\ pc[u] = "complete" /\ t # u => place(ticket[t]) # place(ticket[u])

\* The queue is a FIFO queue: the read with the k-th pop ticket returns the item
\* that was written with the k-th push ticket.
Fifo == INSTANCE FifoQueue
IsFifo == Fifo!Spec

\* write() and read() never wait: the ticket they obtain was found ready before
\* the compare-exchange, and is so still.
ReadyNeverWaits ==
  \A t \in Threads : pc[t] = "turn" /\ way[t] = "ready" => isTurn(t, ticket[t])

\* A promised ticket waits only for calls that have their ticket already: a
\* write for the read that frees its slot, a read for the write it is to read.
PromiseKept ==
  \A t \in Threads :
    pc[t] = "turn" /\ way[t] \in {"promised", "until"} =>
      IF t \in Writers THEN ticket[t] < popTicket + Capacity ELSE ticket[t] < pushTicket

\* writeIfNotFull and readIfNotEmpty fail only at a moment when the queue is full
\* or empty, although the ticket they look at may be stale by then.
RefusalJustified ==
  [][\A t \in Threads :
       way[t] = "promised" /\ pc[t] = "check" /\ pc'[t] = "idle" =>
         IF t \in Writers THEN pushTicket - popTicket >= Capacity ELSE popTicket >= pushTicket]_vars

\* size() returns the size that the queue had when it loaded a counter for the
\* last time before the load that ended it, whatever has moved since.
SizeLinearizable ==
  [][spc # "idle" /\ spc' = "idle" => pushes - pops = was]_vars

\* For each of the capacities 1 to 100 the stride sends the tickets of one round to
\* different slots.  (No step can change that: it is looked at once, in the initial state.)
StrideSpreads ==
  spc = "idle" /\ pushTicket = scenario.start /\ pc = [t \in Threads |-> "idle"] =>
    \A c \in 1 .. 100 : Spreads(computeStride(c), c)

=============================================================================
