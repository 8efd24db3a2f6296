------------------------ MODULE DynamicMPMCQueueProofs ------------------------
(***************************************************************************)
(* The expansion of the dynamic MPMCQueue, for any threads, capacities and *)
(* multiplier: a call that was sent to an array is at the right place      *)
(* whatever expansions follow, and a promised ticket waits only for calls  *)
(* that have their ticket already.                                         *)
(*                                                                         *)
(* The arrays in the order of their offsets form a chain, whose last one   *)
(* is the current array.  A ticket belongs to the last array that does not *)
(* start above it.  An expansion chooses an offset above the tickets of    *)
(* all calls that have looked for their array (Offsets), and a call that   *)
(* looks for it while an expansion goes on does not pass the validation of *)
(* the sequence lock (Snapshots).                                          *)
(***************************************************************************)
EXTENDS DynamicMPMCQueue, FiniteSetTheorems, NaturalsInduction, WellFoundedInduction, TLAPS

PCs == {"idle", "begin", "counter", "state", "shape", "validate", "home", "pop", "recheck", "cas",
        "lock", "count", "pushes", "pops", "allocate", "resize", "resized", "unlock",
        "wait", "turn", "complete"}

Locking == {"count", "pushes", "pops", "allocate", "resize", "resized", "unlock"}

\* The call knows the array of its ticket.
Placed == {"home", "pop", "recheck", "cas", "lock", "wait", "turn", "complete"} \cup Locking

Strides == {1} \cup {computeStride(c) : c \in 1 .. Capacity}
Spot == [slots : Nat, cap : 1 .. Capacity, stride : Strides, offset : Nat]

SharedType ==
  /\ pushTicket \in Nat /\ popTicket \in Nat
  /\ dstate \in Nat
  /\ dslots \in Nat /\ dcapacity \in 1 .. Capacity /\ dstride \in Strides
  /\ closed \in Seq(Spot)

LocalType ==
  /\ pc \in [Threads -> PCs]
  /\ way \in [Threads -> {"none", "blocking", "ready", "promised", "until"}]
  /\ ticket \in [Threads -> Nat]
  /\ other \in [Threads -> Nat]
  /\ state \in [Threads -> Nat]
  /\ home \in [Threads -> Spot]

TypeInv == SharedType /\ LocalType

\* The sequence lock has one holder, a writer that has found the current array;
\* nobody has read a locked state.
LockInv ==
  /\ Locked(dstate) <=> \E h \in Threads : pc[h] \in Locking
  /\ \A g, h \in Threads : pc[g] \in Locking /\ pc[h] \in Locking => g = h
  /\ \A h \in Threads :
       pc[h] \in Locking => /\ dstate = state[h] + 1
                            /\ home[h].offset = getOffset(state[h])
                            /\ home[h].cap # Capacity
                            /\ h \in Writers
  /\ \A t \in Threads :
       pc[t] \in {"shape", "validate", "home", "pop", "recheck", "cas", "lock"} \cup Locking =>
         state[t] <= dstate /\ ~Locked(state[t])
  /\ \A t \in Threads :
       pc[t] \in {"pop", "lock"} => t \in Writers /\ home[t].offset = getOffset(state[t])
  /\ \A t \in Threads : pc[t] = "lock" => home[t].cap # Capacity
  /\ \A t \in Threads : pc[t] = "recheck" => t \in Writers
  /\ \A t \in Threads : pc[t] = "cas" => way[t] = "ready"
  /\ \A t \in Threads :
       pc[t] = "home" /\ way[t] = "blocking" =>
         t \in Writers /\ home[t].offset = getOffset(state[t])

\* No call has got a ticket that was not issued.
TicketInv == \A t \in Threads : ticket[t] <= dispenser(t)

Current(o) == [slots |-> dslots, cap |-> dcapacity, stride |-> dstride, offset |-> o]

\* An expansion has closed the current array and is about to replace it.
Stored == \E h \in Threads : pc[h] \in {"resize", "resized", "unlock"}

chain == IF Stored THEN closed ELSE Append(closed, Current(getOffset(dstate)))

Belongs(ch, k, i) ==
  /\ ch[i].offset <= k
  /\ \A j \in DOMAIN ch : j > i => ch[j].offset > k

powers == <<1, 2, 4, 8, 16, 32, 64, 128, 256, 512, 1024, 2048, 4096, 8192, 16384, 32768, 65536,
            131072, 262144, 524288, 1048576, 2097152, 4194304, 8388608, 16777216, 33554432,
            67108864, 134217728, 268435456, 536870912, 1073741824>>

\* The offsets of the arrays rise from zero, and the state word knows how many of
\* them are closed.
ChainInv ==
  /\ Len(chain) = getNumClosed(dstate) + 1
  /\ chain[1].offset = 0
  /\ \A i, j \in DOMAIN chain : i < j => chain[i].offset < chain[j].offset
  /\ chain[Len(chain)].offset = getOffset(dstate)

\* The capacities at least double until the largest is reached.
CapInv ==
  LET last == chain[Len(chain)].cap
  IN  /\ Len(chain) <= 32
      /\ last # Capacity => Len(chain) <= 31 /\ powers[Len(chain)] <= last
      /\ Stored => last < Capacity
      /\ (\E h \in Threads : pc[h] \in {"resized", "unlock"}) => dcapacity = newCapacity(last)

HomeInv ==
  \A t \in Threads :
    pc[t] \in Placed => \E i \in DOMAIN chain : home[t] = chain[i] /\ Belongs(chain, ticket[t], i)

\* A state that can still be validated came with the present shape.
Snapshots ==
  \A t \in Threads :
    pc[t] = "validate" /\ (state[t] = dstate \/ (state[t] + 1 = dstate /\ ~Stored)) =>
      home[t] = Current(0)

\* The offset in the making is above the tickets of the calls that know their array.
Offsets ==
  \A h, t \in Threads :
    pc[t] \in Placed =>
      /\ pc[h] = "pops" /\ t \in Writers => ticket[t] <= other[h]
      /\ pc[h] = "pushes" /\ t \notin Writers => ticket[t] <= other[h]
      /\ pc[h] \in {"allocate", "resize", "resized", "unlock"} => ticket[t] < other[h]

PromiseInv ==
  \A t \in Threads :
    way[t] \in {"promised", "until"} /\ pc[t] \in {"state", "shape", "validate", "home"} =>
      other[t] <= (IF t \in Writers THEN popTicket ELSE pushTicket)

DynamicInv ==
  /\ TypeInv /\ LockInv /\ TicketInv /\ ChainInv /\ CapInv
  /\ HomeInv /\ Snapshots /\ Offsets /\ PromiseInv

---------------------------------------------------------------------------
(* The state word and the chain *)

LEMMA LeastNat ==
  ASSUME NEW T, T \subseteq Nat, T # {}
  PROVE  \E x \in T : \A y \in T : x <= y
<1>1. PICK x \in T : \A y \in T : ~(<<y, x>> \in OpToRel(<, Nat))
  BY NatLessThanWellFounded, WFMin
<1>2. \A y \in T : ~(y < x)
  BY <1>1 DEF OpToRel
<1> QED
  BY <1>2

\* A locked state has the offset and the number of closed arrays of the unlocked one.
LEMMA LockedState ==
  ASSUME NEW s \in Nat, ~Locked(s)
  PROVE  /\ Locked(s + 1)
         /\ getOffset(s + 1) = getOffset(s)
         /\ getNumClosed(s + 1) = getNumClosed(s)
         /\ getOffset(s) \in Nat /\ getNumClosed(s) \in 0 .. 31
BY DEF Locked, getOffset, getNumClosed, SeqlockSpan

LEMMA StateType ==
  ASSUME NEW s \in Nat
  PROVE  getOffset(s) \in Nat /\ getNumClosed(s) \in 0 .. 31
BY DEF getOffset, getNumClosed, SeqlockSpan

\* The state that an expansion leaves.
LEMMA NewState ==
  ASSUME NEW o \in Nat, NEW n \in 0 .. 31
  PROVE  /\ o * SeqlockSpan + 2 * n \in Nat
         /\ getOffset(o * SeqlockSpan + 2 * n) = o
         /\ getNumClosed(o * SeqlockSpan + 2 * n) = n
         /\ ~Locked(o * SeqlockSpan + 2 * n)
BY DEF Locked, getOffset, getNumClosed, SeqlockSpan

\* The state word grows with its offset.
LEMMA StateGrows ==
  ASSUME NEW s \in Nat, NEW o \in Nat, getOffset(s) < o, NEW n \in Nat \ {0}
  PROVE  s + 1 < o * SeqlockSpan + 2 * n
BY DEF getOffset, SeqlockSpan

LEMMA ChainType ==
  ASSUME TypeInv
  PROVE  /\ chain \in Seq(Spot)
         /\ Stored => chain = closed
         /\ ~Stored => /\ Len(chain) = Len(closed) + 1
                       /\ chain[Len(chain)] = Current(getOffset(dstate))
                       /\ \A i \in DOMAIN closed : chain[i] = closed[i]
<1>1. getOffset(dstate) \in Nat
  BY StateType DEF TypeInv, SharedType, LocalType
<1>2. Current(getOffset(dstate)) \in Spot
  BY <1>1 DEF TypeInv, SharedType, LocalType, Current, Spot
<1>3. closed \in Seq(Spot)
  BY DEF TypeInv, SharedType, LocalType
<1> QED
  BY <1>2, <1>3 DEF chain

LEMMA BelongsOnce ==
  ASSUME TypeInv, NEW k \in Nat, NEW i \in DOMAIN chain, NEW j \in DOMAIN chain,
         Belongs(chain, k, i), Belongs(chain, k, j)
  PROVE  i = j
<1>1. chain \in Seq(Spot)
  BY ChainType
<1>2. chain[i].offset \in Nat /\ chain[j].offset \in Nat /\ i \in Nat /\ j \in Nat
  <2>1. chain[i] \in Spot /\ chain[j] \in Spot /\ i \in Nat /\ j \in Nat
    BY <1>1
  <2> QED
    BY <2>1 DEF Spot
<1> QED
  BY <1>2 DEF Belongs

LEMMA BelongsSomewhere ==
  ASSUME TypeInv, ChainInv, NEW k \in Nat
  PROVE  \E i \in DOMAIN chain : Belongs(chain, k, i)
<1>1. chain \in Seq(Spot) /\ Len(chain) \in Nat /\ DOMAIN chain = 1 .. Len(chain)
  BY ChainType
<1> DEFINE T == {n \in Nat : \E i \in DOMAIN chain : n = Len(chain) - i /\ chain[i].offset <= k}
<1>2. Len(chain) - 1 \in T
  <2>0. PICK n \in 0 .. 31 : n = getNumClosed(dstate)
    BY StateType DEF TypeInv, SharedType, LocalType
  <2>1. Len(chain) >= 1
    <3>1. Len(chain) = n + 1
      BY <2>0 DEF ChainInv
    <3> QED
      BY <1>1, <3>1
  <2>2. 1 \in DOMAIN chain /\ chain[1].offset <= k
    BY <1>1, <2>1 DEF ChainInv
  <2> QED
    BY <1>1, <2>1, <2>2
<1>3. PICK n \in T : \A m \in T : n <= m
  BY <1>2, LeastNat
<1>4. PICK i \in DOMAIN chain : n = Len(chain) - i /\ chain[i].offset <= k
  BY <1>3
<1>5. ASSUME NEW j \in DOMAIN chain, j > i PROVE chain[j].offset > k
  <2>1. Len(chain) - j \in Nat /\ Len(chain) - j < n
    BY <1>1, <1>4, <1>5
  <2>2. Len(chain) - j \notin T
    BY <1>3, <2>1
  <2>3. ~(chain[j].offset <= k)
    BY <2>1, <2>2
  <2>4. chain[j] \in Spot
    BY <1>1
  <2> QED
    BY <2>3, <2>4 DEF Spot
<1> QED
  BY <1>4, <1>5 DEF Belongs

\* The search of maybeUpdateFromClosed in an unlocked queue ends at the array that
\* the ticket belongs to.
LEMMA SearchFinds ==
  ASSUME TypeInv, ChainInv, ~Stored, NEW k \in Nat
  PROVE  \E i \in DOMAIN chain : /\ maybeUpdateFromClosed(dstate, k, Current(0)) = chain[i]
                                 /\ Belongs(chain, k, i)
<1>1. /\ chain \in Seq(Spot) /\ Len(chain) \in Nat /\ DOMAIN chain = 1 .. Len(chain)
      /\ Len(chain) = Len(closed) + 1 /\ Len(closed) \in Nat /\ DOMAIN closed = 1 .. Len(closed)
      /\ chain[Len(chain)] = Current(getOffset(dstate))
      /\ \A i \in DOMAIN closed : chain[i] = closed[i]
  BY ChainType DEF TypeInv, SharedType, LocalType
<1>2. /\ getNumClosed(dstate) = Len(closed) /\ getOffset(dstate) \in Nat
      /\ \A i \in DOMAIN chain : chain[i].offset \in Nat
  <2>1. dstate \in Nat
    BY DEF TypeInv, SharedType, LocalType
  <2>2. getNumClosed(dstate) \in 0 .. 31 /\ getOffset(dstate) \in Nat
    BY <2>1, StateType
  <2>3. \A i \in DOMAIN chain : chain[i] \in Spot
    BY <1>1
  <2>4. \A i \in DOMAIN chain : chain[i].offset \in Nat
    BY <2>3 DEF Spot
  <2>5. Len(chain) = getNumClosed(dstate) + 1
    BY DEF ChainInv
  <2>6. getNumClosed(dstate) = Len(closed)
    <3>1. PICK n \in 0 .. 31 : n = getNumClosed(dstate)
      BY <2>2
    <3>2. Len(chain) = n + 1
      BY <2>5, <3>1
    <3> QED
      BY <1>1, <3>1, <3>2
  <2> QED
    BY <2>2, <2>4, <2>6
<1>3. CASE k >= getOffset(dstate)
  <2>1. maybeUpdateFromClosed(dstate, k, Current(0)) = Current(getOffset(dstate))
    BY <1>3 DEF maybeUpdateFromClosed, Current
  <2>2. Belongs(chain, k, Len(chain))
    BY <1>1, <1>2, <1>3 DEF Belongs, Current
  <2> QED
    BY <1>1, <2>1, <2>2
<1>4. CASE ~(k >= getOffset(dstate))
  <2> DEFINE Right(i) == /\ closed[i].offset <= k
                         /\ \A j \in i + 1 .. getNumClosed(dstate) : closed[j].offset > k
  <2>1. ASSUME NEW i \in DOMAIN closed PROVE Right(i) <=> Belongs(chain, k, i)
    <3>1. chain[Len(chain)].offset > k
      BY <1>1, <1>2, <1>4 DEF Current
    <3>2. \A j \in DOMAIN chain : j > i <=> j = Len(chain) \/ j \in i + 1 .. Len(closed)
      BY <1>1
    <3>3. \A j \in i + 1 .. Len(closed) : j \in DOMAIN closed /\ chain[j] = closed[j]
      BY <1>1
    <3>4. chain[i] = closed[i] /\ Len(chain) > i /\ Len(chain) \in DOMAIN chain
      BY <1>1
    <3>5. Belongs(chain, k, i) <=> /\ closed[i].offset <= k
                                   /\ \A j \in i + 1 .. Len(closed) : chain[j].offset > k
      <4>1. ASSUME \A j \in i + 1 .. Len(closed) : chain[j].offset > k, NEW j \in DOMAIN chain, j > i
            PROVE  chain[j].offset > k
        BY <3>1, <3>2, <4>1
      <4>2. ASSUME \A j \in DOMAIN chain : j > i => chain[j].offset > k, NEW j \in i + 1 .. Len(closed)
            PROVE  chain[j].offset > k
        <5>1. j \in DOMAIN chain /\ j > i
          BY <1>1, <3>3
        <5> QED
          BY <4>2, <5>1
      <4> QED
        BY <3>4, <4>1, <4>2 DEF Belongs
    <3> QED
      BY <1>2, <3>3, <3>5
  <2>2. PICK i \in DOMAIN chain : Belongs(chain, k, i)
    BY BelongsSomewhere
  <2>3. i \in DOMAIN closed
    BY <1>1, <1>2, <1>4, <2>2 DEF Belongs, Current
  <2>4. i \in 1 .. getNumClosed(dstate) /\ Right(i)
    BY <1>1, <1>2, <2>1, <2>2, <2>3
  <2>5. PICK c \in 1 .. getNumClosed(dstate) :
          Right(c) /\ maybeUpdateFromClosed(dstate, k, Current(0)) = closed[c]
    BY <1>4, <2>4 DEF maybeUpdateFromClosed
  <2>6. c \in DOMAIN closed /\ c \in DOMAIN chain
    BY <1>1, <1>2
  <2> QED
    BY <1>1, <2>1, <2>5, <2>6
<1> QED
  BY <1>3, <1>4

---------------------------------------------------------------------------
(* Types *)

LEMMA NoLocker ==
  ASSUME TypeInv, LockInv, NEW t \in Threads, pc[t] = "validate", validated(t)
  PROVE  ~Locked(dstate) /\ ~Stored /\ \A u \in Threads : pc[u] \notin Locking
BY DEF LockInv, validated, Stored, Locking

LEMMA StrideType == ASSUME NEW c \in 1 .. Capacity PROVE computeStride(c) \in Strides
BY DEF Strides

LEMMA NewCapacityType ==
  ASSUME NEW c \in 1 .. Capacity
  PROVE  newCapacity(c) \in 1 .. Capacity
<1>1. Multiplier * c \in Nat /\ Multiplier * c >= 1
  BY CapacityAssumption
<1> QED
  BY <1>1, CapacityAssumption DEF newCapacity

LEMMA SpotTypes ==
  /\ nowhere \in Spot
  /\ TypeInv => \A o \in Nat : Current(o) \in Spot
BY CapacityAssumption DEF nowhere, Spot, TypeInv, SharedType, Current, Strides

LEMMA TypeInit == Init => TypeInv
<1> SUFFICES ASSUME Init PROVE TypeInv
  OBVIOUS
<1>1. MinCapacity \in 1 .. Capacity
  BY CapacityAssumption
<1>2. dcapacity \in 1 .. Capacity /\ dstride \in Strides
  BY <1>1, StrideType DEF Init
<1>3. home \in [Threads -> Spot]
  BY SpotTypes DEF Init
<1> QED
  BY <1>2, <1>3 DEF Init, TypeInv, SharedType, LocalType, PCs

LEMMA TypeStep == TypeInv /\ LockInv /\ ChainInv /\ Snapshots /\ [Next]_vars => TypeInv'
<1> SUFFICES ASSUME SharedType, LocalType, TypeInv, LockInv, ChainInv, Snapshots, [Next]_vars
             PROVE  TypeInv'
  BY DEF TypeInv
<1>0. nowhere \in Spot /\ dslots \in Nat
  BY SpotTypes DEF SharedType
\* The ways in which a call moves on.
<1>1. ASSUME NEW t \in Threads, NEW from, NEW to \in PCs,
             \/ Return(t, from) \/ Again(t, from) \/ Settle(t, from)
             \/ CannotExpand(t, from) \/ Continue(t, from, to)
      PROVE  LocalType'
  BY <1>0, <1>1
  DEF LocalType, PCs, Return, Again, Settle, CannotExpand, Continue, Goto, Forget, locals
<1>2. ASSUME NEW t \in Threads, NEW from, tryExpand(t, from) PROVE LocalType'
  BY <1>1, <1>2 DEF tryExpand, PCs
<1>3. ASSUME NEW t \in Threads, Draw(t), UNCHANGED <<dstate, shape>>
      PROVE  SharedType' /\ ticket' \in [Threads -> Nat]
  BY <1>3, SMTT(30) DEF Draw, SharedType, LocalType, shape, dispenser
<1>4. ASSUME UNCHANGED <<counters, dstate, shape>> PROVE SharedType'
  BY <1>4 DEF SharedType, counters, shape
<1>5. ASSUME NEW t \in Threads, \/ Blocking(t) \/ LoadTicket(t) \/ \E w \in Ways[t] : Start(t, w)
      PROVE  TypeInv'
  <2>0. Ways[t] \subseteq {"blocking", "ready", "promised", "until"}
    BY CallsAssumption DEF Threads
  <2>1. CASE Blocking(t)
    <3>1. way' \in [Threads -> {"none", "blocking", "ready", "promised", "until"}]
      BY <2>0, <2>1 DEF Blocking, Call, LocalType
    <3>2. SharedType' /\ ticket' \in [Threads -> Nat]
      BY <1>3, <2>1 DEF Blocking
    <3> QED
      BY <2>1, <3>1, <3>2 DEF TypeInv, LocalType, Blocking, Goto, PCs, locals
  <2>2. ASSUME NEW from, Load(t, from), way' \in [Threads -> {"none", "blocking", "ready", "promised", "until"}]
        PROVE  TypeInv'
    <3>1. dispenser(t) \in Nat
      BY DEF SharedType, dispenser
    <3>2. UNCHANGED <<counters, dstate, shape>>
      BY <2>2 DEF Load
    <3> QED
      BY <1>4, <2>2, <3>1, <3>2 DEF TypeInv, LocalType, Load, Goto, PCs, locals
  <2>3. CASE LoadTicket(t)
    BY <2>2, <2>3 DEF LoadTicket, LocalType
  <2>4. CASE \E w \in Ways[t] : Start(t, w)
    BY <2>0, <2>2, <2>4 DEF Start, Call, LocalType
  <2> QED
    BY <1>5, <2>1, <2>3, <2>4
<1>6. ASSUME NEW t \in Threads, LoadCounter(t) \/ LoadState(t) \/ LoadShape(t) PROVE TypeInv'
  <2>0. SharedType'
    <3>1. UNCHANGED <<counters, dstate, shape>>
      BY <1>6 DEF LoadCounter, LoadState, LoadShape
    <3> QED
      BY <1>4, <3>1
  <2>1. CASE LoadCounter(t)
    BY <2>0, <2>1 DEF LoadCounter, TypeInv, SharedType, LocalType, Goto, PCs
  <2>2. CASE LoadState(t)
    <3>1. CASE Again(t, "state")
      BY <1>1, <2>0, <3>1 DEF TypeInv, PCs
    <3>2. CASE ~Again(t, "state")
      BY <2>0, <2>2, <3>2, ZenonT(30) DEF LoadState, TypeInv, SharedType, LocalType, Goto, PCs
    <3> QED
      BY <3>1, <3>2
  <2>3. CASE LoadShape(t)
    <3>1. Current(0) \in Spot
      BY SpotTypes
    <3>2. home' = [home EXCEPT ![t] = Current(0)]
      BY <2>3 DEF LoadShape, Current
    <3> QED
      BY <2>0, <2>3, <3>1, <3>2 DEF LoadShape, TypeInv, LocalType, Goto, PCs
  <2> QED
    BY <1>6, <2>1, <2>2, <2>3
<1>7. ASSUME NEW t \in Threads, Validate(t) PROVE TypeInv'
  <2>0. SharedType'
    BY <1>4, <1>7 DEF Validate
  <2>1. CASE ~validated(t)
    <3>1. Again(t, "validate")
      BY <1>7, <2>1 DEF Validate
    <3> QED
      BY <1>1, <2>0, <3>1 DEF TypeInv, PCs
  <2>2. CASE validated(t)
    <3>1. home[t] = Current(0) /\ state[t] = dstate /\ ~Stored
      BY <1>7, <2>2, NoLocker DEF Validate, validated, Snapshots, Goto
    <3>2. ticket[t] \in Nat
      BY DEF LocalType
    <3>3. PICK i \in DOMAIN chain : maybeUpdateFromClosed(state[t], ticket[t], home[t]) = chain[i]
      BY <3>1, <3>2, SearchFinds
    <3>4. chain[i] \in Spot
      BY ChainType
    <3> QED
      BY <1>7, <2>0, <2>2, <3>3, <3>4 DEF Validate, TypeInv, LocalType, Goto, Forget, PCs
  <2> QED
    BY <2>1, <2>2
<1>8. ASSUME NEW t \in Threads, NEW from, Acquire(t, from), UNCHANGED <<counters, shape>>
      PROVE  TypeInv'
  <2>1. LocalType'
    BY <1>1, <1>8 DEF Acquire, PCs
  <2> QED
    BY <1>8, <2>1 DEF Acquire, TypeInv, SharedType, counters, shape
<1>9. ASSUME NEW t \in Threads, Lock(t) \/ LoadPushes(t) \/ LoadPops(t) PROVE TypeInv'
  <2>1. CASE Lock(t)
    BY <1>8, <2>1 DEF Lock, counters, shape
  <2>2. CASE LoadPushes(t) \/ LoadPops(t)
    <3>1. SharedType'
      BY <1>4, <2>2 DEF LoadPushes, LoadPops
    <3>2. other' \in [Threads -> Nat]
      <4>1. /\ pushTicket \in Nat /\ popTicket \in Nat /\ other \in [Threads -> Nat]
            /\ firstTicket(other[t], pushTicket) \in Nat /\ firstTicket(other[t], popTicket) \in Nat
        BY DEF SharedType, LocalType, firstTicket
      <4> QED
        BY <2>2, <4>1 DEF LoadPushes, LoadPops
    <3> QED
      BY <2>2, <3>1, <3>2 DEF LoadPushes, LoadPops, TypeInv, LocalType, Goto, PCs
  <2> QED
    BY <1>9, <2>1, <2>2
<1>10. ASSUME NEW t \in Threads, AllocationFails(t) PROVE TypeInv'
  <2>1. LocalType'
    BY <1>1, <1>10 DEF AllocationFails, PCs
  <2> QED
    BY <1>10, <2>1 DEF AllocationFails, TypeInv, SharedType, LocalType, counters
<1>11. ASSUME NEW t \in Threads, StoreSlots(t) \/ StoreCapacity(t) \/ StoreStride(t)
       PROVE  TypeInv'
  <2>1. LocalType'
    BY <1>1, <1>11 DEF StoreSlots, StoreCapacity, StoreStride, PCs
  <2>2. home[t] \in Spot /\ state[t] \in Nat /\ closed \in Seq(Spot)
    BY DEF LocalType, SharedType
  <2>3. CASE StoreSlots(t)
    <3>1. getOffset(state[t]) \in Nat
      BY <2>2, StateType
    <3>2. [slots |-> dslots, cap |-> home[t].cap, stride |-> dstride,
           offset |-> getOffset(state[t])] \in Spot
      BY <2>2, <3>1 DEF Spot, SharedType
    <3>3. closed' \in Seq(Spot)
      BY <2>2, <2>3, <3>2 DEF StoreSlots
    <3> QED
      BY <2>1, <2>3, <3>3 DEF StoreSlots, TypeInv, SharedType, counters
  <2>4. CASE StoreCapacity(t) \/ StoreStride(t)
    <3>1. newCapacity(home[t].cap) \in 1 .. Capacity
      BY <2>2, NewCapacityType DEF Spot
    <3>2. computeStride(newCapacity(home[t].cap)) \in Strides
      BY <3>1, StrideType
    <3> QED
      BY <2>1, <2>4, <3>1, <3>2 DEF StoreCapacity, StoreStride, TypeInv, SharedType, counters
  <2> QED
    BY <1>11, <2>3, <2>4
<1>12. ASSUME NEW t \in Threads, Unlock(t) PROVE TypeInv'
  <2>1. LocalType'
    BY <1>1, <1>12 DEF Unlock, PCs
  <2>2. state[t] \in Nat /\ other[t] \in Nat
    BY DEF LocalType
  <2>3. getNumClosed(state[t]) \in 0 .. 31
    BY <2>2, StateType
  <2>4. other[t] * SeqlockSpan + 2 * (getNumClosed(state[t]) + 1) \in Nat
    BY <2>2, <2>3 DEF SeqlockSpan
  <2> QED
    BY <1>12, <2>1, <2>4 DEF Unlock, TypeInv, SharedType, counters, shape
<1>13. ASSUME NEW t \in Threads, CheckSlot(t) \/ PopUnderWay(t) \/ CheckReady(t) \/ Recheck(t)
       PROVE  TypeInv'
  <2>1. SharedType'
    BY <1>4, <1>13 DEF CheckSlot, PopUnderWay, CheckReady, Recheck
  <2>2. LocalType'
    BY <1>1, <1>2, <1>13 DEF CheckSlot, PopUnderWay, CheckReady, Recheck, PCs
  <2> QED
    BY <2>1, <2>2 DEF TypeInv
<1>14. ASSUME NEW t \in Threads, NEW from, Advance(t, from), UNCHANGED <<dstate, shape>>
       PROVE  TypeInv'
  <2>1. CASE Again(t, from) /\ UNCHANGED counters
    BY <1>1, <1>4, <1>14, <2>1 DEF TypeInv, PCs
  <2>2. CASE Draw(t) /\ Goto(t, from, "turn") /\ Forget(t) /\ UNCHANGED <<way, home>>
    <3>1. SharedType' /\ ticket' \in [Threads -> Nat]
      BY <1>3, <1>14, <2>2
    <3> QED
      BY <2>2, <3>1 DEF TypeInv, LocalType, Goto, Forget, PCs
  <2> QED
    BY <1>14, <2>1, <2>2 DEF Advance
<1>15. ASSUME NEW t \in Threads, CheckPromised(t) \/ Cas(t) PROVE TypeInv'
  <2>1. CASE Cas(t)
    BY <1>14, <2>1 DEF Cas
  <2>2. CASE CheckPromised(t) /\ Advance(t, "home") /\ UNCHANGED dstate
    BY <1>14, <2>2 DEF CheckPromised
  <2>3. CASE CheckPromised(t) /\ Acquire(t, "home") /\ UNCHANGED counters
    BY <1>8, <2>3 DEF CheckPromised
  <2>4. CASE CheckPromised(t) /\ CannotExpand(t, "home") /\ UNCHANGED <<counters, dstate>>
    BY <1>1, <1>4, <2>4 DEF CheckPromised, TypeInv, PCs
  <2> QED
    BY <1>15, <2>1, <2>2, <2>3, <2>4 DEF CheckPromised
<1>16. ASSUME NEW t \in Threads,
              TurnArrived(t) \/ Deadline(t) \/ Enqueue(t) \/ Dequeue(t) \/ Complete(t)
       PROVE  TypeInv'
  <2>1. SharedType'
    BY <1>4, <1>16 DEF TurnArrived, Deadline, Enqueue, Dequeue, Complete
  <2>2. LocalType'
    BY <1>1, <1>16 DEF TurnArrived, Deadline, Enqueue, Dequeue, Complete, PCs
  <2> QED
    BY <2>1, <2>2 DEF TypeInv
<1>17. CASE UNCHANGED vars
  BY <1>4, <1>17 DEF vars, TypeInv, LocalType, locals
<1> QED
  BY <1>5, <1>6, <1>7, <1>9, <1>10, <1>11, <1>12, <1>13, <1>15, <1>16, <1>17 DEF Next, Step

---------------------------------------------------------------------------
(* What a step does *)

KeepsShape == UNCHANGED <<closed, dslots, dcapacity, dstride>>

\* Only t moves, and the counters only rise.
Alone(t) ==
  /\ \A u \in Threads : u # t => /\ pc'[u] = pc[u] /\ way'[u] = way[u] /\ ticket'[u] = ticket[u]
                                 /\ other'[u] = other[u] /\ state'[u] = state[u]
                                 /\ home'[u] = home[u]
  /\ pushTicket <= pushTicket' /\ popTicket <= popTicket'

\* t has no array: it begins a call or an iteration, or returns.
Leaves(t) ==
  /\ Alone(t) /\ KeepsShape /\ UNCHANGED dstate
  /\ pc[t] \notin Locking
  /\ pc'[t] \in {"idle", "begin", "counter", "state"}
  /\ ticket'[t] <= dispenser(t)'
  /\ pc'[t] = "state" /\ way'[t] \in {"promised", "until"} =>
       other'[t] <= (IF t \in Writers THEN popTicket ELSE pushTicket)

\* t has read a state that is not locked ...
Reads(t) ==
  /\ Alone(t) /\ KeepsShape /\ UNCHANGED <<dstate, counters>>
  /\ pc[t] = "state" /\ pc'[t] = "shape"
  /\ state'[t] = dstate /\ ~Locked(dstate)
  /\ way'[t] = way[t] /\ ticket'[t] = ticket[t] /\ other'[t] = other[t]

\* ... and then the shape.
ReadsShape(t) ==
  /\ Alone(t) /\ KeepsShape /\ UNCHANGED <<dstate, counters>>
  /\ pc[t] = "shape" /\ pc'[t] = "validate"
  /\ home'[t] = Current(0)
  /\ way'[t] = way[t] /\ ticket'[t] = ticket[t] /\ other'[t] = other[t] /\ state'[t] = state[t]

\* t has found its array.
Finds(t) ==
  /\ Alone(t) /\ KeepsShape /\ UNCHANGED <<dstate, counters>>
  /\ pc[t] = "validate" /\ pc'[t] \in {"turn", "home"}
  /\ \A u \in Threads : pc[u] \notin Locking
  /\ \E i \in DOMAIN chain : home'[t] = chain[i] /\ Belongs(chain, ticket[t], i)
  /\ pc'[t] = "home" => state'[t] = state[t] /\ other'[t] = other[t]
  /\ pc'[t] = "home" /\ way[t] = "blocking" => t \in Writers /\ home'[t].offset = getOffset(state[t])
  /\ pc'[t] = "turn" => way[t] = "blocking"
  /\ way'[t] = way[t] /\ ticket'[t] = ticket[t]

\* t goes on with its array.
Moves(t) ==
  /\ Alone(t) /\ KeepsShape /\ UNCHANGED dstate
  /\ pc[t] \in Placed \ Locking /\ pc'[t] \in Placed \ (Locking \cup {"home"})
  /\ way'[t] = way[t] /\ ticket'[t] = ticket[t] /\ home'[t] = home[t]
  /\ ticket[t] <= dispenser(t)'
  /\ pc'[t] \in {"pop", "recheck", "cas", "lock"} =>
       pc[t] \in {"home", "pop", "recheck"} /\ state'[t] = state[t]
  /\ pc'[t] \in {"pop", "lock"} => t \in Writers /\ home[t].offset = getOffset(state[t])
  /\ pc'[t] = "lock" => home[t].cap # Capacity
  /\ pc'[t] = "recheck" => t \in Writers
  /\ pc'[t] = "cas" => way[t] = "ready"
  /\ pc'[t] = "turn" /\ way[t] \in {"promised", "until"} => pc[t] = "home" /\ ~Refused(t)

\* t has taken the sequence lock ...
Locks(t) ==
  /\ Alone(t) /\ KeepsShape /\ UNCHANGED counters
  /\ pc[t] \in {"lock", "home"} /\ pc'[t] = "count"
  /\ dstate = state[t] /\ dstate' = dstate + 1
  /\ t \in Writers /\ home[t].offset = getOffset(state[t]) /\ home[t].cap # Capacity
  /\ state'[t] = state[t] /\ way'[t] = way[t] /\ ticket'[t] = ticket[t] /\ home'[t] = home[t]

\* ... looks at the counters ...
Counts(t) ==
  /\ Alone(t) /\ KeepsShape /\ UNCHANGED <<dstate, counters>>
  /\ \/ pc[t] = "count" /\ pc'[t] = "pops" /\ other'[t] = pushTicket
     \/ pc[t] = "count" /\ pc'[t] = "pushes" /\ other'[t] = popTicket
     \/ pc[t] = "pops" /\ pc'[t] = "allocate" /\ other'[t] = firstTicket(other[t], popTicket)
     \/ pc[t] = "pushes" /\ pc'[t] = "allocate" /\ other'[t] = firstTicket(other[t], pushTicket)
  /\ state'[t] = state[t] /\ way'[t] = way[t] /\ ticket'[t] = ticket[t] /\ home'[t] = home[t]

\* ... and gives up ...
GivesUp(t) ==
  /\ Alone(t) /\ KeepsShape /\ UNCHANGED counters
  /\ pc[t] = "allocate"
  /\ dstate' = state[t]
  /\ \/ /\ pc'[t] = "wait" \/ (pc'[t] = "turn" /\ way[t] = "blocking")
        /\ way'[t] = way[t] /\ ticket'[t] = ticket[t] /\ home'[t] = home[t]
     \/ pc'[t] = "idle" /\ ticket'[t] = 0

\* ... or stores the new shape.
Stores(t) ==
  /\ Alone(t) /\ UNCHANGED <<dstate, counters>>
  /\ \/ /\ pc[t] = "allocate" /\ pc'[t] = "resize"
        /\ closed' = Append(closed, [slots |-> dslots, cap |-> home[t].cap, stride |-> dstride,
                                     offset |-> getOffset(state[t])])
        /\ dcapacity' = dcapacity
     \/ /\ pc[t] = "resize" /\ pc'[t] = "resized"
        /\ closed' = closed
        /\ dcapacity' = newCapacity(home[t].cap)
     \/ /\ pc[t] = "resized" /\ pc'[t] = "unlock"
        /\ closed' = closed
        /\ dcapacity' = dcapacity
  /\ state'[t] = state[t] /\ way'[t] = way[t] /\ ticket'[t] = ticket[t] /\ home'[t] = home[t]
  /\ other'[t] = other[t]

Unlocks(t) ==
  /\ Alone(t) /\ KeepsShape /\ UNCHANGED counters
  /\ pc[t] = "unlock" /\ pc'[t] \in {"begin", "state"}
  /\ way'[t] = way[t] /\ (pc'[t] = "state" => way[t] = "blocking")
  /\ ticket'[t] <= dispenser(t)
  /\ dstate' = other[t] * SeqlockSpan + 2 * (getNumClosed(state[t]) + 1)

LEMMA Effects ==
  ASSUME TypeInv, LockInv, TicketInv, ChainInv, Snapshots, PromiseInv, Next
  PROVE  \E t \in Threads : \/ Leaves(t) \/ Reads(t) \/ ReadsShape(t) \/ Finds(t) \/ Moves(t)
                            \/ Locks(t) \/ Counts(t) \/ GivesUp(t) \/ Stores(t) \/ Unlocks(t)
<1> DEFINE E(t) == \/ Leaves(t) \/ Reads(t) \/ ReadsShape(t) \/ Finds(t) \/ Moves(t)
                   \/ Locks(t) \/ Counts(t) \/ GivesUp(t) \/ Stores(t) \/ Unlocks(t)
<1>1. PICK t \in Threads : \/ Blocking(t)
                           \/ \E w \in Ways[t] : Start(t, w)
                           \/ Step(t)
                           \/ Deadline(t)
  BY DEF Next
<1> SUFFICES E(t)
  OBVIOUS
<1>0. /\ pc \in [Threads -> PCs] /\ ticket \in [Threads -> Nat] /\ other \in [Threads -> Nat]
      /\ state \in [Threads -> Nat] /\ home \in [Threads -> Spot]
      /\ DOMAIN way = Threads
      /\ pushTicket \in Nat /\ popTicket \in Nat
      /\ Threads = Writers \cup Readers /\ Writers \cap Readers = {}
      /\ ticket[t] <= dispenser(t)
  BY ThreadsAssumption DEF TypeInv, SharedType, LocalType, TicketInv, Threads
\* The ways in which a call moves on.
<1>2. ASSUME NEW from, Again(t, from), UNCHANGED <<dstate, counters, shape>>, from \notin Locking
      PROVE  Leaves(t)
  BY <1>0, <1>2
  DEF Again, Goto, Forget, Leaves, Alone, KeepsShape, counters, shape, dispenser
<1>3. ASSUME NEW from, Return(t, from), UNCHANGED <<dstate, counters, shape>>, from \notin Locking
      PROVE  Leaves(t)
  BY <1>0, <1>3
  DEF Return, Goto, Forget, Leaves, Alone, KeepsShape, counters, shape, dispenser
<1>4. ASSUME NEW from \in Placed \ Locking, Settle(t, from), UNCHANGED <<dstate, counters, shape>>,
             way[t] = "blocking"
      PROVE  Moves(t)
  BY <1>0, <1>4
  DEF Settle, Goto, Forget, Moves, Alone, KeepsShape, counters, shape, dispenser, Placed, Locking
<1>5. ASSUME NEW from \in Placed \ Locking, CannotExpand(t, from),
             UNCHANGED <<dstate, counters, shape>>
      PROVE  E(t)
  <2>1. CASE way[t] = "blocking" /\ Settle(t, from)
    BY <1>4, <1>5, <2>1
  <2>2. CASE /\ way[t] = "until"
             /\ Goto(t, from, "wait")
             /\ Forget(t)
             /\ UNCHANGED <<way, ticket, home, item>>
    <3>1. Moves(t)
      BY <1>0, <1>5, <2>2
      DEF Goto, Forget, Moves, Alone, KeepsShape, counters, shape, dispenser, Placed, Locking
    <3> QED
      BY <3>1
  <2>3. CASE Return(t, from)
    BY <1>3, <1>5, <2>3
  <2> QED
    BY <1>5, <2>1, <2>2, <2>3 DEF CannotExpand
<1>6. ASSUME NEW from \in {"home", "pop", "recheck"}, Continue(t, from, "lock"),
             UNCHANGED <<dstate, counters, shape>>,
             t \in Writers, home[t].offset = getOffset(state[t]), home[t].cap # Capacity
      PROVE  Moves(t)
  BY <1>0, <1>6
  DEF Continue, Goto, Moves, Alone, KeepsShape, counters, shape, dispenser, Placed, Locking, locals
<1>7. ASSUME NEW from \in {"pop", "recheck"}, tryExpand(t, from),
             UNCHANGED <<dstate, counters, shape>>,
             t \in Writers, home[t].offset = getOffset(state[t])
      PROVE  E(t)
  <2>1. from \in Placed \ Locking
    BY DEF Placed, Locking
  <2> QED
    BY <1>5, <1>6, <1>7, <2>1 DEF tryExpand
<1>8. ASSUME NEW from \in {"lock", "home"}, Acquire(t, from), UNCHANGED <<counters, shape>>,
             t \in Writers, home[t].offset = getOffset(state[t]), home[t].cap # Capacity
      PROVE  E(t)
  <2>1. CASE dstate = state[t] /\ dstate' = dstate + 1 /\ Continue(t, from, "count")
    <3>1. Locks(t)
      BY <1>0, <1>8, <2>1
      DEF Continue, Goto, Locks, Alone, KeepsShape, counters, shape, locals
    <3> QED
      BY <3>1
  <2>2. CASE dstate # state[t] /\ dstate' = dstate /\ Again(t, from)
    <3>1. from \notin Locking
      BY DEF Locking
    <3> QED
      BY <1>2, <1>8, <2>2, <3>1
  <2> QED
    BY <1>8, <2>1, <2>2 DEF Acquire
<1>9. ASSUME Blocking(t) \/ LoadTicket(t) \/ LoadCounter(t) \/ \E w \in Ways[t] : Start(t, w)
      PROVE  Leaves(t)
  <2>1. CASE Blocking(t)
    BY <1>0, <2>1
    DEF Blocking, Call, Goto, Draw, Leaves, Alone, KeepsShape, shape, locals, dispenser, Locking
  <2>2. CASE LoadTicket(t)
    BY <1>0, <2>2
    DEF LoadTicket, Load, Goto, Leaves, Alone, KeepsShape, counters, shape, locals, dispenser, Locking
  <2>3. CASE LoadCounter(t)
    BY <1>0, <2>3
    DEF LoadCounter, Goto, Leaves, Alone, KeepsShape, counters, shape, dispenser, Locking
  <2>4. ASSUME NEW w \in Ways[t], Start(t, w) PROVE Leaves(t)
    BY <1>0, <2>4
    DEF Start, Call, Load, Goto, Leaves, Alone, KeepsShape, counters, shape, locals, dispenser, Locking
  <2> QED
    BY <1>9, <2>1, <2>2, <2>3, <2>4
<1>10. ASSUME LoadState(t) PROVE E(t)
  <2>1. UNCHANGED <<dstate, counters, shape>> /\ "state" \notin Locking
    BY <1>10 DEF LoadState, Locking
  <2>2. CASE Again(t, "state")
    BY <1>2, <2>1, <2>2
  <2>3. CASE ~Again(t, "state")
    <3>1. Reads(t)
      BY <1>0, <1>10, <2>1, <2>3 DEF LoadState, Goto, Reads, Alone, KeepsShape, counters, shape
    <3> QED
      BY <3>1
  <2> QED
    BY <2>2, <2>3
<1>11. ASSUME LoadShape(t) PROVE ReadsShape(t)
  BY <1>0, <1>11 DEF LoadShape, Goto, ReadsShape, Alone, KeepsShape, counters, shape, Current
<1>12. ASSUME Validate(t) PROVE E(t)
  <2>1. UNCHANGED <<dstate, counters, shape>> /\ "validate" \notin Locking
    BY <1>12 DEF Validate, Locking
  <2>2. CASE Again(t, "validate")
    BY <1>2, <2>1, <2>2
  <2>3. CASE ~Again(t, "validate")
    <3>1. pc[t] = "validate" /\ validated(t)
      BY <1>12, <2>3 DEF Validate, Goto
    <3>2. home[t] = Current(0) /\ state[t] = dstate /\ ~Stored /\ \A u \in Threads : pc[u] \notin Locking
      BY <3>1, NoLocker DEF validated, Snapshots
    <3>3. home'[t] = maybeUpdateFromClosed(dstate, ticket[t], Current(0))
      BY <1>0, <1>12, <2>3, <3>2 DEF Validate
    <3>4. PICK i \in DOMAIN chain : home'[t] = chain[i] /\ Belongs(chain, ticket[t], i)
      BY <1>0, <3>2, <3>3, SearchFinds
    <3>5. ticket[t] >= getOffset(state[t]) => home'[t].offset = getOffset(state[t])
      BY <3>2, <3>3 DEF maybeUpdateFromClosed, Current
    <3>6. getOffset(state[t]) \in Nat
      BY <1>0, StateType
    <3>7. Finds(t)
      BY <1>0, <1>12, <2>1, <2>3, <3>1, <3>2, <3>4, <3>5, <3>6
      DEF Validate, Goto, Forget, Finds, Alone, KeepsShape, counters, shape
    <3> QED
      BY <3>7
  <2> QED
    BY <2>2, <2>3
<1>13. ASSUME Lock(t) PROVE E(t)
  <2>1. t \in Writers /\ home[t].offset = getOffset(state[t]) /\ home[t].cap # Capacity
    BY <1>13 DEF Lock, Acquire, Continue, Again, Goto, LockInv
  <2> QED
    BY <1>8, <1>13, <2>1 DEF Lock
<1>14. ASSUME LoadPushes(t) \/ LoadPops(t) PROVE Counts(t)
  BY <1>0, <1>14 DEF LoadPushes, LoadPops, Goto, Counts, Alone, KeepsShape, counters, shape
<1>15. ASSUME AllocationFails(t) PROVE GivesUp(t)
  BY <1>0, <1>15
  DEF AllocationFails, CannotExpand, Settle, Return, Goto, Forget, GivesUp, Alone, KeepsShape, counters
<1>16. ASSUME StoreSlots(t) \/ StoreCapacity(t) \/ StoreStride(t) PROVE Stores(t)
  BY <1>0, <1>16
  DEF StoreSlots, StoreCapacity, StoreStride, Continue, Goto, Stores, Alone, counters, locals
<1>17. ASSUME Unlock(t) PROVE Unlocks(t)
  BY <1>0, <1>17 DEF Unlock, Again, Goto, Forget, Unlocks, Alone, KeepsShape, counters, shape, dispenser
<1>18. ASSUME CheckSlot(t) \/ PopUnderWay(t) PROVE E(t)
  <2>1. UNCHANGED <<dstate, counters, shape>> /\ {"home", "pop"} \subseteq Placed \ Locking
    BY <1>18 DEF CheckSlot, PopUnderWay, Placed, Locking
  <2>2. t \in Writers /\ home[t].offset = getOffset(state[t])
    BY <1>18
    DEF CheckSlot, PopUnderWay, LockInv, Settle, Continue, Again, tryExpand, CannotExpand, Return, Goto
  <2>3. CASE Settle(t, "home") /\ way[t] = "blocking"
    BY <1>4, <2>1, <2>3
  <2>4. CASE Continue(t, "home", "pop")
    <3>1. Moves(t)
      BY <1>0, <2>1, <2>2, <2>4
      DEF Continue, Goto, Moves, Alone, KeepsShape, counters, shape, dispenser, Placed, Locking, locals
    <3> QED
      BY <3>1
  <2>5. CASE Again(t, "pop")
    BY <1>2, <2>1, <2>5
  <2>6. CASE tryExpand(t, "pop")
    BY <1>7, <2>1, <2>2, <2>6
  <2> QED
    BY <1>18, <2>3, <2>4, <2>5, <2>6 DEF CheckSlot, PopUnderWay
<1>19. ASSUME CheckReady(t) \/ Recheck(t) PROVE E(t)
  <2>1. UNCHANGED <<dstate, counters, shape>> /\ {"home", "recheck"} \subseteq Placed \ Locking
    BY <1>19 DEF CheckReady, Recheck, Placed, Locking
  <2>2. CASE way[t] = "ready" /\ Continue(t, "home", "cas")
    <3>1. Moves(t)
      BY <1>0, <2>1, <2>2
      DEF Continue, Goto, Moves, Alone, KeepsShape, counters, shape, dispenser, Placed, Locking, locals
    <3> QED
      BY <3>1
  <2>3. CASE t \in Writers /\ Continue(t, "home", "recheck")
    <3>1. Moves(t)
      BY <1>0, <2>1, <2>3
      DEF Continue, Goto, Moves, Alone, KeepsShape, counters, shape, dispenser, Placed, Locking, locals
    <3> QED
      BY <3>1
  <2>4. CASE Return(t, "home") \/ Return(t, "recheck")
    BY <1>3, <2>1, <2>4
  <2>5. CASE Again(t, "recheck")
    BY <1>2, <2>1, <2>5
  <2>6. CASE home[t].offset = getOffset(state[t]) /\ tryExpand(t, "recheck")
    <3>1. pc[t] = "recheck"
      BY <2>6 DEF tryExpand, CannotExpand, Settle, Return, Continue, Goto
    <3>2. t \in Writers
      BY <3>1 DEF LockInv
    <3> QED
      BY <1>7, <2>1, <2>6, <3>2
  <2> QED
    BY <1>19, <2>2, <2>3, <2>4, <2>5, <2>6 DEF CheckReady, Recheck
<1>20. ASSUME NEW from \in {"home", "cas"}, Advance(t, from), UNCHANGED <<dstate, shape>>,
              from = "cas" => way[t] = "ready", from = "home" => ~Refused(t)
       PROVE  E(t)
  <2>1. CASE Again(t, from) /\ UNCHANGED counters
    BY <1>2, <1>20, <2>1 DEF Locking
  <2>2. CASE /\ dispenser(t) = ticket[t]
             /\ Draw(t)
             /\ Goto(t, from, "turn")
             /\ Forget(t)
             /\ UNCHANGED <<way, home>>
    <3>1. Moves(t)
      BY <1>0, <1>20, <2>2
      DEF Draw, Goto, Forget, Moves, Alone, KeepsShape, shape, dispenser, Placed, Locking
    <3> QED
      BY <3>1
  <2> QED
    BY <1>20, <2>1, <2>2 DEF Advance
<1>21. ASSUME Cas(t) PROVE E(t)
  <2>1. way[t] = "ready"
    BY <1>21 DEF Cas, Advance, Again, Goto, LockInv
  <2> QED
    BY <1>20, <1>21, <2>1 DEF Cas
<1>22. ASSUME CheckPromised(t) PROVE E(t)
  <2>1. UNCHANGED shape /\ "home" \in Placed \ Locking
    BY <1>22 DEF CheckPromised, shape, slots, Placed, Locking
  <2>2. CASE ~Refused(t) /\ Advance(t, "home") /\ UNCHANGED dstate
    BY <1>20, <2>1, <2>2
  <2>3. CASE /\ t \in Writers /\ home[t].offset = getOffset(state[t]) /\ home[t].cap # Capacity
             /\ Acquire(t, "home") /\ UNCHANGED counters
    BY <1>8, <2>1, <2>3
  <2>4. CASE CannotExpand(t, "home") /\ UNCHANGED <<dstate, counters>>
    BY <1>5, <2>1, <2>4
  <2> QED
    BY <1>22, <2>2, <2>3, <2>4 DEF CheckPromised
<1>23. ASSUME TurnArrived(t) \/ Deadline(t) \/ Complete(t) PROVE Leaves(t)
  <2>1. UNCHANGED <<dstate, counters, shape>> /\ "wait" \notin Locking /\ "complete" \notin Locking
    BY <1>23 DEF TurnArrived, Deadline, Complete, Locking
  <2> QED
    BY <1>2, <1>3, <1>23, <2>1 DEF TurnArrived, Deadline, Complete
<1>24. ASSUME Enqueue(t) \/ Dequeue(t) PROVE Moves(t)
  BY <1>0, <1>24
  DEF Enqueue, Dequeue, Continue, Goto, Moves, Alone, KeepsShape, counters, shape, dispenser,
      Placed, Locking, locals
<1> QED
  BY <1>1, <1>9, <1>10, <1>11, <1>12, <1>13, <1>14, <1>15, <1>16, <1>17, <1>18, <1>19, <1>21, <1>22,
     <1>23, <1>24
  DEF Step

---------------------------------------------------------------------------
(* What a step does to the lock and the chain *)

\* The holder of the sequence lock has found the current array.
LEMMA HolderAtEnd ==
  ASSUME TypeInv, LockInv, ChainInv, HomeInv, NEW h \in Threads, pc[h] \in Locking
  PROVE  /\ home[h] = chain[Len(chain)]
         /\ state[h] \in Nat /\ ~Locked(state[h]) /\ dstate = state[h] + 1
         /\ getOffset(dstate) = getOffset(state[h])
         /\ getNumClosed(dstate) = getNumClosed(state[h])
<1>1. state[h] \in Nat /\ ~Locked(state[h]) /\ dstate = state[h] + 1
  BY DEF LockInv, TypeInv, LocalType
<1>2. getOffset(dstate) = getOffset(state[h]) /\ getNumClosed(dstate) = getNumClosed(state[h])
  BY <1>1, LockedState
<1>3. PICK i \in DOMAIN chain : home[h] = chain[i]
  BY DEF HomeInv, Placed
<1>4. chain[i].offset = chain[Len(chain)].offset
  BY <1>2, <1>3 DEF LockInv, ChainInv
<1>5. /\ DOMAIN chain = 1 .. Len(chain) /\ Len(chain) \in Nat
      /\ \A j \in DOMAIN chain : chain[j] \in Spot
  BY ChainType
<1>6. Len(chain) \in DOMAIN chain /\ i <= Len(chain)
  BY <1>5
<1>7. chain[i].offset \in Nat
  BY <1>5 DEF Spot
<1>8. i = Len(chain)
  <2>1. ~(i < Len(chain))
    BY <1>4, <1>6, <1>7 DEF ChainInv
  <2> QED
    BY <1>5, <1>6, <2>1
<1> QED
  BY <1>1, <1>2, <1>3, <1>8

LEMMA ChainKept ==
  ASSUME TypeInv, LockInv, ChainInv, HomeInv, NEW t \in Threads,
         \/ Leaves(t) \/ Reads(t) \/ ReadsShape(t) \/ Finds(t) \/ Moves(t)
         \/ Locks(t) \/ Counts(t) \/ GivesUp(t) \/ Stores(t)
  PROVE  /\ chain' = chain
         /\ getOffset(dstate') = getOffset(dstate)
         /\ getNumClosed(dstate') = getNumClosed(dstate)
         /\ Stored' <=> Stored \/ (pc[t] = "allocate" /\ pc'[t] = "resize")
<1>1. CASE \/ Leaves(t) \/ Reads(t) \/ ReadsShape(t) \/ Finds(t) \/ Moves(t) \/ Counts(t)
  <2>1. UNCHANGED <<dstate, closed, dslots, dcapacity, dstride>>
    BY <1>1 DEF Leaves, Reads, ReadsShape, Finds, Moves, Counts, KeepsShape
  <2>2. /\ pc[t] \notin {"resize", "resized", "unlock"} /\ pc'[t] \notin {"resize", "resized", "unlock"}
        /\ \A u \in Threads : u # t => pc'[u] = pc[u]
    BY <1>1 DEF Leaves, Reads, ReadsShape, Finds, Moves, Counts, Alone, Locking
  <2>3. Stored' <=> Stored
    BY <2>2 DEF Stored
  <2> QED
    BY <2>1, <2>2, <2>3 DEF chain, Current
<1>2. CASE Locks(t) \/ GivesUp(t)
  <2>1. state[t] \in Nat /\ ~Locked(state[t])
    BY <1>2 DEF Locks, GivesUp, LockInv, TypeInv, LocalType, Locking
  <2>2. \/ dstate = state[t] /\ dstate' = state[t] + 1
        \/ dstate' = state[t] /\ dstate = state[t] + 1
    BY <1>2 DEF Locks, GivesUp, LockInv, Locking
  <2>3. getOffset(dstate') = getOffset(dstate) /\ getNumClosed(dstate') = getNumClosed(dstate)
    BY <2>1, <2>2, LockedState
  <2>4. /\ pc[t] \notin {"resize", "resized", "unlock"} /\ pc'[t] \notin {"resize", "resized", "unlock"}
        /\ \A u \in Threads : u # t => pc'[u] = pc[u]
    BY <1>2 DEF Locks, GivesUp, Alone
  <2>5. Stored' <=> Stored
    BY <2>4 DEF Stored
  <2>6. UNCHANGED <<closed, dslots, dcapacity, dstride>>
    BY <1>2 DEF Locks, GivesUp, KeepsShape
  <2> QED
    BY <2>3, <2>4, <2>5, <2>6 DEF chain, Current
<1>3. CASE Stores(t)
  <2>1. pc[t] \in Locking /\ dstate' = dstate /\ Stored' /\ \A u \in Threads : u # t => pc'[u] = pc[u]
    BY <1>3 DEF Stores, Locking, Stored, Alone
  <2>2. CASE pc[t] \in {"resize", "resized"}
    <3>1. Stored /\ closed' = closed
      BY <1>3, <2>2 DEF Stores, Stored
    <3> QED
      BY <2>1, <2>2, <3>1 DEF chain
  <2>3. CASE pc[t] = "allocate"
    <3>1. ~Stored
      BY <2>1, <2>3 DEF LockInv, Stored, Locking
    <3>2. home[t] = Current(getOffset(dstate)) /\ getOffset(state[t]) = getOffset(dstate)
      BY <2>1, <3>1, HolderAtEnd, ChainType
    <3>3. closed' = Append(closed, Current(getOffset(dstate)))
      BY <1>3, <2>3, <3>2 DEF Stores, Current
    <3> QED
      BY <1>3, <2>1, <2>3, <3>1, <3>3 DEF chain, Stores
  <2> QED
    BY <1>3, <2>2, <2>3 DEF Stores
<1> QED
  BY <1>1, <1>2, <1>3

\* An expansion adds an array to the chain, above all tickets that have theirs.
LEMMA ChainGrows ==
  ASSUME TypeInv, LockInv, ChainInv, CapInv, HomeInv, Offsets, NEW t \in Threads, Unlocks(t)
  PROVE  /\ chain' = Append(chain, Current(other[t]))
         /\ getOffset(dstate') = other[t]
         /\ getNumClosed(dstate') = Len(chain)
         /\ ~Locked(dstate') /\ ~Stored' /\ Stored
         /\ dstate < dstate'
         /\ getOffset(dstate) < other[t] /\ other[t] \in Nat
         /\ Len(chain) \in 1 .. 31
<1>1. pc[t] = "unlock" /\ pc'[t] \in {"begin", "state"} /\ \A u \in Threads : u # t => pc'[u] = pc[u]
  BY DEF Unlocks, Alone
<1>2. pc[t] \in Locking /\ pc[t] \in Placed
  BY <1>1 DEF Locking, Placed
<1>3. Stored /\ ~Stored'
  <2>1. Stored
    BY <1>1 DEF Stored
  <2>2. \A u \in Threads : u # t => pc[u] \notin Locking
    BY <1>2 DEF LockInv
  <2>3. \A u \in Threads : u # t => pc'[u] \notin {"resize", "resized", "unlock"}
    BY <1>1, <2>2 DEF Locking
  <2> QED
    BY <1>1, <2>1, <2>3 DEF Stored
<1>4. /\ home[t] = chain[Len(chain)] /\ state[t] \in Nat /\ dstate = state[t] + 1
      /\ getOffset(dstate) = getOffset(state[t]) /\ getNumClosed(dstate) = getNumClosed(state[t])
  BY <1>2, HolderAtEnd
<1>5. Len(chain) = getNumClosed(state[t]) + 1
  BY <1>4 DEF ChainInv
<1>6. PICK n \in 0 .. 31 : n = getNumClosed(state[t])
  BY <1>4, StateType
<1>7. Len(chain) = n + 1
  BY <1>5, <1>6
<1>8. Len(chain) \in 1 .. 31
  <2>1. home[t].cap # Capacity
    BY <1>2 DEF LockInv
  <2>2. Len(chain) <= 31
    BY <1>4, <2>1 DEF CapInv
  <2>3. n + 1 <= 31
    BY <1>7, <2>2
  <2>4. n + 1 \in 1 .. 31
    BY <1>6, <2>3
  <2> QED
    BY <1>7, <2>4
<1>9. other[t] \in Nat /\ getOffset(dstate) < other[t]
  <2>1. other[t] \in Nat /\ ticket[t] \in Nat
    BY DEF TypeInv, LocalType
  <2>2. ticket[t] < other[t]
    BY <1>1, <1>2 DEF Offsets
  <2>3. home[t].offset <= ticket[t]
    BY <1>2 DEF HomeInv, Belongs
  <2>4. home[t].offset = getOffset(dstate)
    BY <1>2, <1>4 DEF LockInv
  <2>5. getOffset(dstate) \in Nat
    BY <1>4, StateType
  <2> QED
    BY <2>1, <2>2, <2>3, <2>4, <2>5
<1>10. dstate' = other[t] * SeqlockSpan + 2 * (n + 1)
  BY <1>6 DEF Unlocks
<1>11. n + 1 \in 0 .. 31
  BY <1>6, <1>7, <1>8
<1>12. /\ getOffset(dstate') = other[t] /\ getNumClosed(dstate') = n + 1 /\ ~Locked(dstate')
  BY <1>9, <1>10, <1>11, NewState
<1>13. dstate < dstate'
  <2>1. getOffset(state[t]) < other[t]
    BY <1>4, <1>9
  <2>2. n + 1 \in Nat \ {0}
    BY <1>6
  <2>3. state[t] + 1 < other[t] * SeqlockSpan + 2 * (n + 1)
    BY <1>4, <1>9, <2>1, <2>2, StateGrows
  <2> QED
    BY <1>4, <1>10, <2>3
<1>14. chain' = Append(chain, Current(other[t]))
  <2>1. UNCHANGED <<closed, dslots, dcapacity, dstride>>
    BY DEF Unlocks, KeepsShape
  <2> QED
    BY <1>3, <1>12, <2>1 DEF chain, Current
<1> QED
  BY <1>3, <1>7, <1>8, <1>9, <1>12, <1>13, <1>14

---------------------------------------------------------------------------
(* The invariant is inductive *)

Effect(t) == \/ Leaves(t) \/ Reads(t) \/ ReadsShape(t) \/ Finds(t) \/ Moves(t)
             \/ Locks(t) \/ Counts(t) \/ GivesUp(t) \/ Stores(t) \/ Unlocks(t)

LEMMA LockStep ==
  ASSUME TypeInv, TypeInv', LockInv, ChainInv, CapInv, HomeInv, Offsets, NEW t \in Threads, Effect(t)
  PROVE  LockInv'
<1> USE DEF Locking, Placed
<1>0. dstate \in Nat /\ \A u \in Threads : state[u] \in Nat
  BY DEF TypeInv, SharedType, LocalType
\* Steps that leave the lock alone.
<1>1. CASE Leaves(t) \/ Reads(t) \/ ReadsShape(t)
  BY <1>0, <1>1 DEF LockInv, Leaves, Reads, ReadsShape, Alone
<1>2. CASE Moves(t)
  BY <1>0, <1>2 DEF LockInv, Moves, Alone
<1>3. CASE Finds(t)
  BY <1>0, <1>3 DEF LockInv, Finds, Alone
<1>4. CASE Counts(t) \/ Stores(t)
  <2>1. /\ pc[t] \in Locking /\ pc'[t] \in Locking /\ Alone(t) /\ dstate' = dstate
        /\ state'[t] = state[t] /\ home'[t] = home[t]
    BY <1>4 DEF Counts, Stores
  <2> QED
    BY <1>0, <2>1 DEF LockInv, Alone
\* Steps that take it or give it back.
<1>5. CASE Locks(t)
  <2>1. ~Locked(dstate) /\ Locked(dstate')
    BY <1>0, <1>5, LockedState DEF Locks, LockInv
  <2>2. \A u \in Threads : pc[u] \notin Locking
    BY <2>1 DEF LockInv
  <2> QED
    BY <1>0, <1>5, <2>1, <2>2 DEF LockInv, Locks, Alone
<1>6. CASE GivesUp(t)
  <2>1. dstate' = state[t] /\ dstate = state[t] + 1 /\ ~Locked(dstate')
    BY <1>6 DEF GivesUp, LockInv
  <2>2. \A u \in Threads : u # t => pc[u] \notin Locking
    BY <1>6 DEF GivesUp, LockInv
  <2>3. ASSUME NEW u \in Threads, u # t, state[u] <= dstate, ~Locked(state[u])
        PROVE  state[u] <= dstate'
    <3>1. Locked(dstate)
      BY <1>0, <2>1, LockedState
    <3>2. state[u] # dstate
      BY <2>3, <3>1
    <3> QED
      BY <1>0, <2>1, <2>3, <3>2
  <2> QED
    BY <1>6, <2>1, <2>2, <2>3 DEF LockInv, GivesUp, Alone
<1>7. CASE Unlocks(t)
  <2>1. dstate < dstate' /\ ~Locked(dstate')
    BY <1>7, ChainGrows
  <2>2. dstate' \in Nat
    BY DEF TypeInv, SharedType
  <2>3. \A u \in Threads : u # t => pc[u] \notin Locking
    BY <1>7 DEF Unlocks, LockInv
  <2>4. ASSUME NEW u \in Threads, state[u] <= dstate PROVE state[u] <= dstate'
    BY <1>0, <2>1, <2>2, <2>4
  <2> QED
    BY <1>7, <2>1, <2>3, <2>4 DEF LockInv, Unlocks, Alone
<1> QED
  BY <1>1, <1>2, <1>3, <1>4, <1>5, <1>6, <1>7 DEF Effect

LEMMA TicketStep ==
  ASSUME TypeInv, TypeInv', TicketInv, NEW t \in Threads, Effect(t)
  PROVE  TicketInv'
<1>0. /\ pushTicket \in Nat /\ popTicket \in Nat /\ ticket \in [Threads -> Nat]
      /\ pushTicket' \in Nat /\ popTicket' \in Nat /\ ticket' \in [Threads -> Nat]
  BY DEF TypeInv, SharedType, LocalType
<1>1. Alone(t)
  BY DEF Effect, Leaves, Reads, ReadsShape, Finds, Moves, Locks, Counts, GivesUp, Stores, Unlocks
<1>2. ticket'[t] <= dispenser(t)'
  BY <1>0
  DEF Effect, Leaves, Reads, ReadsShape, Finds, Moves, Locks, Counts, GivesUp, Stores, Unlocks,
      TicketInv, dispenser, counters
<1>3. ASSUME NEW u \in Threads, u # t PROVE ticket'[u] <= dispenser(u)'
  <2>1. ticket'[u] = ticket[u] /\ ticket[u] <= dispenser(u)
    BY <1>1, <1>3 DEF Alone, TicketInv
  <2>2. pushTicket <= pushTicket' /\ popTicket <= popTicket'
    BY <1>1 DEF Alone
  <2> QED
    BY <1>0, <2>1, <2>2 DEF dispenser
<1> QED
  BY <1>2, <1>3 DEF TicketInv

LEMMA ChainStep ==
  ASSUME TypeInv, TypeInv', LockInv, ChainInv, CapInv, HomeInv, Offsets, NEW t \in Threads, Effect(t)
  PROVE  ChainInv'
<1>1. CASE ~Unlocks(t)
  <2>1. /\ chain' = chain
        /\ getOffset(dstate') = getOffset(dstate)
        /\ getNumClosed(dstate') = getNumClosed(dstate)
    BY <1>1, ChainKept DEF Effect
  <2> QED
    BY <2>1 DEF ChainInv
<1>2. CASE Unlocks(t)
  <2>0. chain \in Seq(Spot) /\ \A i \in DOMAIN chain : chain[i] \in Spot
    BY ChainType
  <2>1. /\ chain' = Append(chain, Current(other[t]))
        /\ getOffset(dstate') = other[t]
        /\ getNumClosed(dstate') = Len(chain)
        /\ getOffset(dstate) < other[t] /\ other[t] \in Nat
        /\ Len(chain) \in 1 .. 31
    BY <1>2, ChainGrows
  <2>2. /\ Len(chain') = Len(chain) + 1 /\ DOMAIN chain' = 1 .. Len(chain) + 1
        /\ DOMAIN chain = 1 .. Len(chain)
        /\ \A i \in DOMAIN chain : chain'[i] = chain[i]
        /\ chain'[Len(chain) + 1].offset = other[t]
    BY <2>0, <2>1 DEF Current
  <2>3. getOffset(dstate) \in Nat
    BY StateType DEF TypeInv, SharedType
  <2>4. ASSUME NEW i \in DOMAIN chain PROVE chain[i].offset <= getOffset(dstate)
    <3>1. chain[i].offset \in Nat
      BY <2>0 DEF Spot
    <3>2. i = Len(chain) \/ (i < Len(chain) /\ Len(chain) \in DOMAIN chain)
      BY <2>1, <2>2
    <3> QED
      BY <2>3, <3>1, <3>2 DEF ChainInv
  <2>5. ASSUME NEW i \in DOMAIN chain', NEW j \in DOMAIN chain', i < j
        PROVE  chain'[i].offset < chain'[j].offset
    <3>1. i \in DOMAIN chain /\ (j \in DOMAIN chain \/ j = Len(chain) + 1)
      BY <2>1, <2>2, <2>5
    <3>2. chain[i].offset \in Nat
      BY <2>0, <3>1 DEF Spot
    <3>3. CASE j \in DOMAIN chain
      BY <2>2, <2>5, <3>1, <3>3 DEF ChainInv
    <3>4. CASE j = Len(chain) + 1
      BY <2>1, <2>2, <2>3, <2>4, <3>1, <3>2, <3>4
    <3> QED
      BY <3>1, <3>3, <3>4
  <2>6. chain'[1].offset = 0
    <3>1. 1 \in DOMAIN chain
      BY <2>1, <2>2
    <3>2. chain'[1] = chain[1]
      BY <2>2, <3>1
    <3> QED
      BY <3>2 DEF ChainInv
  <2> QED
    BY <2>1, <2>2, <2>5, <2>6 DEF ChainInv
<1> QED
  BY <1>1, <1>2

LEMMA Doubling == \A n \in 1 .. 30 : powers[n + 1] = 2 * powers[n] /\ powers[n] \in Nat
BY DEF powers

LEMMA CapStep ==
  ASSUME TypeInv, TypeInv', LockInv, ChainInv, CapInv, HomeInv, Offsets, NEW t \in Threads, Effect(t)
  PROVE  CapInv'
<1>0. /\ chain \in Seq(Spot) /\ Len(chain) \in Nat
      /\ \A i \in DOMAIN chain : chain[i] \in Spot
  BY ChainType
<1>1. CASE ~Unlocks(t)
  <2>1. /\ chain' = chain
        /\ Stored' <=> Stored \/ (pc[t] = "allocate" /\ pc'[t] = "resize")
    BY <1>1, ChainKept DEF Effect
  <2>2. ASSUME Stored', ~Stored PROVE chain[Len(chain)].cap < Capacity
    <3>1. pc[t] \in Locking
      BY <2>1, <2>2 DEF Locking
    <3>2. home[t] = chain[Len(chain)] /\ home[t].cap # Capacity /\ home[t] \in Spot
      BY <3>1, HolderAtEnd DEF LockInv, TypeInv, LocalType
    <3> QED
      BY <3>2, CapacityAssumption DEF Spot
  <2>3. ASSUME NEW h \in Threads, pc'[h] \in {"resized", "unlock"}
        PROVE  dcapacity' = newCapacity(chain[Len(chain)].cap)
    <3>1. CASE h = t
      <4>1. Stores(t) /\ pc[t] \in {"resize", "resized"}
        BY <1>1, <2>3, <3>1
        DEF Effect, Leaves, Reads, ReadsShape, Finds, Moves, Locks, Counts, GivesUp, Stores, Locking
      <4>2. home[t] = chain[Len(chain)]
        BY <4>1, HolderAtEnd DEF Locking
      <4>3. pc[t] = "resized" => dcapacity = newCapacity(chain[Len(chain)].cap)
        BY DEF CapInv
      <4> QED
        BY <4>1, <4>2, <4>3 DEF Stores
    <3>2. CASE h # t
      <4>1. pc[h] \in {"resized", "unlock"}
        BY <1>1, <2>3, <3>2
        DEF Effect, Leaves, Reads, ReadsShape, Finds, Moves, Locks, Counts, GivesUp, Stores, Alone
      <4>2. pc[t] \notin Locking
        BY <3>2, <4>1 DEF LockInv, Locking
      <4>3. dcapacity' = dcapacity
        BY <1>1, <4>2
        DEF Effect, Leaves, Reads, ReadsShape, Finds, Moves, Locks, Counts, GivesUp, Stores,
            KeepsShape, Locking
      <4> QED
        BY <4>1, <4>3 DEF CapInv
    <3> QED
      BY <3>1, <3>2
  <2> QED
    BY <2>1, <2>2, <2>3 DEF CapInv
<1>2. CASE Unlocks(t)
  <2>1. /\ chain' = Append(chain, Current(other[t]))
        /\ ~Stored' /\ Stored
        /\ Len(chain) \in 1 .. 31
    BY <1>2, ChainGrows
  <2>2. /\ Len(chain') = Len(chain) + 1
        /\ chain'[Len(chain')].cap = dcapacity
    BY <1>0, <2>1 DEF Current
  <2> DEFINE last == chain[Len(chain)].cap
  <2>3. /\ last \in 1 .. Capacity /\ last < Capacity
        /\ powers[Len(chain)] <= last
        /\ dcapacity = newCapacity(last)
    <3>1. chain[Len(chain)] \in Spot
      BY <1>0, <2>1
    <3>2. last \in 1 .. Capacity
      BY <3>1 DEF Spot
    <3>3. last < Capacity
      BY <2>1 DEF CapInv
    <3>4. last # Capacity
      BY <3>2, <3>3, CapacityAssumption
    <3> QED
      BY <1>2, <3>2, <3>3, <3>4 DEF CapInv, Unlocks
  <2>4. ASSUME dcapacity # Capacity
        PROVE  Len(chain) + 1 <= 31 /\ powers[Len(chain) + 1] <= dcapacity
    <3>1. dcapacity = Multiplier * last /\ Multiplier * last <= Capacity
      BY <2>3, <2>4 DEF newCapacity
    <3>2. 2 * last <= Multiplier * last
      <4>1. Multiplier >= 2 /\ Multiplier \in Nat /\ last \in Nat
        BY <2>3, CapacityAssumption
      <4> HIDE DEF last
      <4> QED
        BY <4>1
    <3>3. Multiplier * last \in Nat
      BY <2>3, CapacityAssumption
    <3>4. Len(chain) # 31
      <4>1. ASSUME Len(chain) = 31 PROVE FALSE
        <5>1. powers[31] = 2 ^ 30
          BY DEF powers
        <5>2. 2 ^ 30 <= last /\ 2 * last <= Capacity
          BY <2>3, <3>1, <3>2, <3>3, <4>1, <5>1, CapacityAssumption
        <5>3. last \in Nat /\ Capacity \in Nat
          BY <2>3, CapacityAssumption
        <5> HIDE DEF last
        <5> QED
          BY <5>2, <5>3, ClosedAssumption
      <4> QED
        BY <4>1
    <3>5. Len(chain) \in 1 .. 30
      BY <2>1, <3>4
    <3>6. powers[Len(chain) + 1] = 2 * powers[Len(chain)] /\ powers[Len(chain)] \in Nat
      BY <3>5, Doubling
    <3>7. last \in Nat /\ dcapacity \in Nat /\ 2 * last <= dcapacity /\ powers[Len(chain)] <= last
      BY <2>3, <3>1, <3>2, <3>3
    <3> HIDE DEF last
    <3>8. 2 * powers[Len(chain)] <= dcapacity
      BY <3>6, <3>7
    <3>9. PICK n \in 1 .. 30 : n = Len(chain)
      BY <3>5
    <3>10. n + 1 <= 31
      OBVIOUS
    <3> QED
      BY <3>6, <3>8, <3>9, <3>10
  <2>5. \A h \in Threads : pc'[h] \notin {"resized", "unlock"}
    BY <2>1 DEF Stored
  <2>6. Len(chain') <= 32
    <3>1. PICK n \in 1 .. 31 : n = Len(chain)
      BY <2>1
    <3>2. Len(chain') = n + 1
      BY <2>2, <3>1
    <3>3. n + 1 <= 32
      OBVIOUS
    <3> QED
      BY <3>2, <3>3
  <2>7. chain'[Len(chain')].cap # Capacity =>
          Len(chain') <= 31 /\ powers[Len(chain')] <= chain'[Len(chain')].cap
    BY <2>2, <2>4
  <2> QED
    BY <2>1, <2>5, <2>6, <2>7 DEF CapInv
<1> QED
  BY <1>1, <1>2

LEMMA HomeStep ==
  ASSUME TypeInv, TypeInv', LockInv, ChainInv, CapInv, HomeInv, Offsets, NEW t \in Threads, Effect(t)
  PROVE  HomeInv'
<1>1. CASE ~Unlocks(t)
  <2>1. chain' = chain
    BY <1>1, ChainKept DEF Effect
  <2>2. ASSUME NEW u \in Threads, pc'[u] \in Placed
        PROVE  \E i \in DOMAIN chain : home'[u] = chain[i] /\ Belongs(chain, ticket'[u], i)
    <3>1. CASE u = t /\ Finds(t)
      BY <3>1 DEF Finds
    <3>2. CASE ~(u = t /\ Finds(t))
      <4>1. pc[u] \in Placed /\ home'[u] = home[u] /\ ticket'[u] = ticket[u]
        BY <1>1, <2>2, <3>2
        DEF Effect, Leaves, Reads, ReadsShape, Finds, Moves, Locks, Counts, GivesUp, Stores, Alone,
            Placed, Locking
      <4> QED
        BY <4>1 DEF HomeInv
    <3> QED
      BY <3>1, <3>2
  <2> QED
    BY <2>1, <2>2 DEF HomeInv, Belongs
<1>2. CASE Unlocks(t)
  <2>1. /\ chain' = Append(chain, Current(other[t])) /\ chain \in Seq(Spot)
    BY <1>2, ChainGrows, ChainType
  <2>2. /\ Len(chain) \in Nat /\ DOMAIN chain = 1 .. Len(chain)
        /\ DOMAIN chain' = 1 .. Len(chain) + 1
        /\ \A i \in DOMAIN chain : chain'[i] = chain[i]
        /\ chain'[Len(chain) + 1].offset = other[t]
    BY <2>1 DEF Current
  <2>3. ASSUME NEW u \in Threads, pc'[u] \in Placed
        PROVE  \E i \in DOMAIN chain' : home'[u] = chain'[i] /\ Belongs(chain', ticket'[u], i)
    <3>1. pc[u] \in Placed /\ home'[u] = home[u] /\ ticket'[u] = ticket[u]
      BY <1>2, <2>3 DEF Unlocks, Alone, Placed, Locking
    <3>2. PICK i \in DOMAIN chain : home[u] = chain[i] /\ Belongs(chain, ticket[u], i)
      BY <3>1 DEF HomeInv
    <3>3. ticket[u] < other[t] /\ ticket[u] \in Nat /\ other[t] \in Nat
      BY <1>2, <3>1 DEF Unlocks, Offsets, TypeInv, LocalType
    <3>4. i \in DOMAIN chain' /\ chain'[i] = chain[i]
      BY <2>2
    <3>5. ASSUME NEW j \in DOMAIN chain', j > i PROVE chain'[j].offset > ticket[u]
      <4>1. j \in DOMAIN chain \/ j = Len(chain) + 1
        BY <2>2
      <4>2. CASE j \in DOMAIN chain
        BY <2>2, <3>2, <3>5, <4>2 DEF Belongs
      <4>3. CASE j = Len(chain) + 1
        BY <2>2, <3>3, <4>3
      <4> QED
        BY <4>1, <4>2, <4>3
    <3>6. Belongs(chain', ticket[u], i)
      BY <3>2, <3>4, <3>5 DEF Belongs
    <3> QED
      BY <3>1, <3>2, <3>4, <3>6
  <2> QED
    BY <2>3 DEF HomeInv, Belongs
<1> QED
  BY <1>1, <1>2

LEMMA Parity == ASSUME NEW s \in Nat PROVE Locked(s + 1) <=> ~Locked(s)
BY DEF Locked

LEMMA SnapshotStep ==
  ASSUME TypeInv, TypeInv', LockInv, LockInv', ChainInv, CapInv, HomeInv, Offsets, Snapshots,
         NEW t \in Threads, Effect(t)
  PROVE  Snapshots'
<1> SUFFICES ASSUME NEW u \in Threads, pc'[u] = "validate",
                    \/ state'[u] = dstate'
                    \/ state'[u] + 1 = dstate' /\ ~Stored'
             PROVE  home'[u] = Current(0)'
  BY DEF Snapshots
<1>0. /\ dstate \in Nat /\ dstate' \in Nat /\ state'[u] \in Nat /\ state[t] \in Nat
      /\ ~Locked(state'[u]) /\ state'[u] <= dstate'
  BY DEF TypeInv, SharedType, LocalType, LockInv
<1>1. CASE u = t
  <2>1. ReadsShape(t)
    BY <1>1
    DEF Effect, Leaves, Reads, Finds, Moves, Locks, Counts, GivesUp, Stores, Unlocks, Placed
  <2> QED
    BY <1>1, <2>1 DEF ReadsShape, KeepsShape, Current
<1>2. CASE u # t
  <2>1. pc[u] = "validate" /\ state'[u] = state[u] /\ home'[u] = home[u]
    BY <1>2
    DEF Effect, Leaves, Reads, ReadsShape, Finds, Moves, Locks, Counts, GivesUp, Stores, Unlocks, Alone
  <2>2. ASSUME KeepsShape, state[u] = dstate \/ (state[u] + 1 = dstate /\ ~Stored)
        PROVE  home'[u] = Current(0)'
    BY <2>1, <2>2 DEF Snapshots, KeepsShape, Current
  <2>3. CASE \/ Leaves(t) \/ Reads(t) \/ ReadsShape(t) \/ Finds(t) \/ Moves(t) \/ Counts(t)
    <3>1. dstate' = dstate /\ KeepsShape
      BY <2>3 DEF Leaves, Reads, ReadsShape, Finds, Moves, Counts
    <3>2. Stored => Stored'
      BY <2>3, ChainKept
    <3> QED
      BY <2>1, <2>2, <3>1, <3>2
  <2>4. CASE Locks(t)
    <3>1. dstate' = dstate + 1 /\ KeepsShape
      BY <2>4 DEF Locks
    <3>2. ~Locked(dstate)
      BY <2>4 DEF Locks, LockInv
    <3>3. state'[u] # dstate'
      BY <1>0, <3>1, <3>2, Parity
    <3> QED
      BY <1>0, <2>1, <2>2, <3>1, <3>3
  <2>5. CASE GivesUp(t)
    <3>1. dstate = dstate' + 1 /\ ~Locked(dstate') /\ KeepsShape
      BY <2>5 DEF GivesUp, LockInv, Locking
    <3>2. state'[u] + 1 # dstate'
      BY <1>0, <3>1, Parity
    <3>3. ~Stored
      BY <2>5 DEF GivesUp, LockInv, Stored, Locking
    <3> QED
      BY <1>0, <2>1, <2>2, <3>1, <3>2, <3>3
  <2>6. CASE Stores(t)
    <3>1. dstate' = dstate /\ Stored' /\ Locked(dstate)
      BY <2>6 DEF Stores, Stored, LockInv, Locking
    <3> QED
      BY <1>0, <3>1
  <2>7. CASE Unlocks(t)
    <3>1. dstate < dstate' /\ ~Locked(dstate')
      BY <2>7, ChainGrows
    <3>2. state[u] <= dstate
      BY <2>1 DEF LockInv
    <3>3. state'[u] # dstate'
      BY <1>0, <2>1, <3>1, <3>2
    <3>4. state'[u] + 1 # dstate'
      BY <1>0, <3>1, Parity
    <3> QED
      BY <3>3, <3>4
  <2> QED
    BY <2>3, <2>4, <2>5, <2>6, <2>7 DEF Effect
<1> QED
  BY <1>1, <1>2

LEMMA OffsetStep ==
  ASSUME TypeInv, TypeInv', LockInv, LockInv', TicketInv, Offsets, NEW t \in Threads, Effect(t)
  PROVE  Offsets'
<1>0. /\ pushTicket \in Nat /\ popTicket \in Nat /\ other[t] \in Nat
      /\ \A u \in Threads : ticket[u] \in Nat
      /\ \A u \in Threads : ticket[u] <= dispenser(u)
  BY DEF TypeInv, SharedType, LocalType, TicketInv
<1>1. \A u \in Threads : u # t => /\ pc'[u] = pc[u] /\ ticket'[u] = ticket[u]
                                  /\ other'[u] = other[u]
  BY DEF Effect, Leaves, Reads, ReadsShape, Finds, Moves, Locks, Counts, GivesUp, Stores, Unlocks, Alone
<1> SUFFICES ASSUME NEW h \in Threads, NEW u \in Threads, pc'[u] \in Placed,
                    pc'[h] \in {"pushes", "pops", "allocate", "resize", "resized", "unlock"}
             PROVE  /\ pc'[h] = "pops" /\ u \in Writers => ticket'[u] <= other'[h]
                    /\ pc'[h] = "pushes" /\ u \notin Writers => ticket'[u] <= other'[h]
                    /\ pc'[h] \in {"allocate", "resize", "resized", "unlock"} => ticket'[u] < other'[h]
  BY DEF Offsets
\* An expansion admits nobody to the calls that know their array.
<1>2. pc[u] \in Placed /\ ticket'[u] = ticket[u]
  <2>1. CASE u # t
    BY <1>1, <2>1
  <2>2. CASE u = t
    <3>1. CASE Finds(t)
      BY <1>1, <2>2, <3>1 DEF Finds, Locking
    <3>2. CASE ~Finds(t)
      BY <2>2, <3>2
      DEF Effect, Leaves, Reads, ReadsShape, Moves, Locks, Counts, GivesUp, Stores, Unlocks, Placed,
          Locking
    <3> QED
      BY <3>1, <3>2
  <2> QED
    BY <2>1, <2>2
<1>3. CASE h # t
  BY <1>1, <1>2, <1>3 DEF Offsets
<1>4. CASE h = t
  <2>1. Counts(t) \/ Stores(t)
    BY <1>4
    DEF Effect, Leaves, Reads, ReadsShape, Finds, Moves, Locks, GivesUp, Unlocks, Placed, Locking
  <2>2. CASE Stores(t)
    BY <1>2, <1>4, <2>2 DEF Stores, Offsets
  <2>3. CASE Counts(t) /\ pc[t] = "count"
    BY <1>0, <1>2, <1>4, <2>3 DEF Counts, dispenser
  <2>4. CASE Counts(t) /\ pc[t] = "pops"
    <3>1. other'[t] = firstTicket(other[t], popTicket) /\ pc'[t] = "allocate"
      BY <2>4 DEF Counts
    <3>2. u \in Writers => ticket[u] <= other[t]
      BY <1>2, <2>4 DEF Offsets
    <3>3. u \notin Writers => ticket[u] <= popTicket
      BY <1>0 DEF dispenser
    <3> QED
      BY <1>0, <1>2, <1>4, <3>1, <3>2, <3>3 DEF firstTicket
  <2>5. CASE Counts(t) /\ pc[t] = "pushes"
    <3>1. other'[t] = firstTicket(other[t], pushTicket) /\ pc'[t] = "allocate"
      BY <2>5 DEF Counts
    <3>2. u \notin Writers => ticket[u] <= other[t]
      BY <1>2, <2>5 DEF Offsets
    <3>3. u \in Writers => ticket[u] <= pushTicket
      BY <1>0 DEF dispenser
    <3> QED
      BY <1>0, <1>2, <1>4, <3>1, <3>2, <3>3 DEF firstTicket
  <2> QED
    BY <2>1, <2>2, <2>3, <2>4, <2>5 DEF Counts
<1> QED
  BY <1>3, <1>4

LEMMA PromiseStep ==
  ASSUME TypeInv, TypeInv', PromiseInv, PromiseKept, NEW t \in Threads, Effect(t)
  PROVE  PromiseInv' /\ PromiseKept'
<1>0. /\ pushTicket \in Nat /\ popTicket \in Nat /\ pushTicket' \in Nat /\ popTicket' \in Nat
      /\ \A u \in Threads : /\ other[u] \in Nat /\ ticket[u] \in Nat
                            /\ other'[u] \in Nat /\ ticket'[u] \in Nat
                            /\ home[u] \in Spot /\ home'[u] \in Spot
  BY DEF TypeInv, SharedType, LocalType
<1>1. Alone(t)
  BY DEF Effect, Leaves, Reads, ReadsShape, Finds, Moves, Locks, Counts, GivesUp, Stores, Unlocks
<1>2. ASSUME NEW u \in Threads, way'[u] \in {"promised", "until"},
             pc'[u] \in {"state", "shape", "validate", "home"}
      PROVE  other'[u] <= (IF u \in Writers THEN popTicket' ELSE pushTicket')
  <2>1. CASE u = t /\ Leaves(t)
    BY <1>0, <1>1, <1>2, <2>1 DEF Leaves, Alone
  <2>2. CASE ~(u = t /\ Leaves(t))
    <3>1. /\ way[u] \in {"promised", "until"} /\ pc[u] \in {"state", "shape", "validate", "home"}
          /\ other'[u] = other[u]
      BY <1>1, <1>2, <2>2
      DEF Effect, Reads, ReadsShape, Finds, Moves, Locks, Counts, GivesUp, Stores, Unlocks, Alone,
          Placed, Locking
    <3>2. other[u] <= (IF u \in Writers THEN popTicket ELSE pushTicket)
      BY <3>1 DEF PromiseInv
    <3> QED
      BY <1>0, <1>1, <3>1, <3>2 DEF Alone
  <2> QED
    BY <2>1, <2>2
<1>3. ASSUME NEW u \in Threads, pc'[u] = "turn", way'[u] \in {"promised", "until"}
      PROVE  IF u \in Writers THEN ticket'[u] < popTicket' + home'[u].cap ELSE ticket'[u] < pushTicket'
  <2>0. home[u].cap \in Nat
    BY <1>0 DEF Spot
  <2>1. CASE u = t
    <3>1. Moves(t) /\ pc[t] = "home" /\ ~Refused(t)
      BY <1>3, <2>1
      DEF Effect, Leaves, Reads, ReadsShape, Finds, Moves, Locks, Counts, GivesUp, Stores, Unlocks
    <3>2. way'[t] = way[t] /\ ticket'[t] = ticket[t] /\ home'[t] = home[t]
      BY <3>1 DEF Moves
    <3>3. other[t] <= (IF t \in Writers THEN popTicket ELSE pushTicket)
      BY <1>3, <2>1, <3>1, <3>2 DEF PromiseInv
    <3> QED
      BY <1>0, <1>1, <2>0, <2>1, <3>1, <3>2, <3>3 DEF Refused, Alone
  <2>2. CASE u # t
    <3>1. /\ pc[u] = "turn" /\ way[u] \in {"promised", "until"}
          /\ ticket'[u] = ticket[u] /\ home'[u] = home[u]
      BY <1>1, <1>3, <2>2 DEF Alone
    <3>2. IF u \in Writers THEN ticket[u] < popTicket + home[u].cap ELSE ticket[u] < pushTicket
      BY <3>1 DEF PromiseKept
    <3> QED
      BY <1>0, <1>1, <2>0, <3>1, <3>2 DEF Alone
  <2> QED
    BY <2>1, <2>2
<1> QED
  BY <1>2, <1>3 DEF PromiseInv, PromiseKept

LEMMA DynamicInit == Init => DynamicInv /\ PromiseKept
<1> SUFFICES ASSUME Init PROVE DynamicInv /\ PromiseKept
  OBVIOUS
<1>1. TypeInv
  BY TypeInit
<1>2. getOffset(0) = 0 /\ getNumClosed(0) = 0 /\ ~Locked(0)
  BY DEF getOffset, getNumClosed, Locked, SeqlockSpan
<1>3. dstate = 0 /\ closed = <<>> /\ dcapacity = MinCapacity /\ \A t \in Threads : pc[t] = "idle" /\ ticket[t] = 0
  BY DEF Init
<1>4. ~Stored /\ chain = <<Current(0)>>
  BY <1>2, <1>3 DEF Stored, chain
<1>5. Len(chain) = 1 /\ chain[1] = Current(0) /\ DOMAIN chain = {1}
  BY <1>4
<1>6. ChainInv
  BY <1>2, <1>3, <1>5 DEF ChainInv, Current
<1>7. CapInv
  <2>1. powers[1] = 1
    BY DEF powers
  <2>2. chain[1].cap = MinCapacity
    BY <1>3, <1>5 DEF Current
  <2> QED
    BY <1>3, <1>4, <1>5, <2>1, <2>2, CapacityAssumption DEF CapInv
<1>8. LockInv /\ HomeInv /\ Snapshots /\ Offsets /\ PromiseInv /\ PromiseKept
  BY <1>2, <1>3 DEF LockInv, HomeInv, Snapshots, Offsets, PromiseInv, PromiseKept, Placed, Locking
<1>9. TicketInv
  BY <1>3 DEF Init, TicketInv, dispenser
<1> QED
  BY <1>1, <1>6, <1>7, <1>8, <1>9 DEF DynamicInv

LEMMA DynamicStep == DynamicInv /\ PromiseKept /\ [Next]_vars => DynamicInv' /\ PromiseKept'
<1> SUFFICES ASSUME DynamicInv, PromiseKept, [Next]_vars PROVE DynamicInv' /\ PromiseKept'
  OBVIOUS
<1> USE DEF DynamicInv
<1>1. TypeInv'
  BY TypeStep
<1>2. CASE UNCHANGED vars
  <2>1. UNCHANGED <<pushTicket, popTicket, dstate, dslots, dcapacity, dstride, closed, pc, way, ticket,
                    other, state, home>>
    BY <1>2 DEF vars, counters, shape, locals
  <2>2. chain' = chain /\ (Stored' <=> Stored)
    BY <2>1 DEF chain, Stored, Current
  <2>3. LockInv' /\ TicketInv'
    BY <2>1 DEF LockInv, TicketInv, dispenser
  <2>4. ChainInv' /\ CapInv' /\ HomeInv'
    BY <2>1, <2>2 DEF ChainInv, CapInv, HomeInv, Belongs
  <2>5. Snapshots' /\ Offsets'
    BY <2>1, <2>2 DEF Snapshots, Offsets, Current
  <2>6. PromiseInv' /\ PromiseKept'
    BY <2>1 DEF PromiseInv, PromiseKept
  <2> QED
    BY <1>1, <2>3, <2>4, <2>5, <2>6
<1>3. CASE Next
  <2>1. PICK t \in Threads : Effect(t)
    BY <1>3, Effects DEF Effect
  <2>2. LockInv' /\ TicketInv' /\ ChainInv' /\ CapInv' /\ HomeInv'
    BY <1>1, <2>1, LockStep, TicketStep, ChainStep, CapStep, HomeStep
  <2>3. Snapshots' /\ Offsets' /\ PromiseInv' /\ PromiseKept'
    BY <1>1, <2>1, <2>2, SnapshotStep, OffsetStep, PromiseStep
  <2> QED
    BY <1>1, <2>2, <2>3
<1> QED
  BY <1>2, <1>3

LEMMA DynamicInvariant == Spec => [](DynamicInv /\ PromiseKept)
BY DynamicInit, DynamicStep, PTL DEF Spec

---------------------------------------------------------------------------
(* Theorems *)

(***************************************************************************)
(* A call that maybeUpdateFromClosed has sent to an array is at the right  *)
(* one for good: tryExpand chooses its offset above the tickets of all     *)
(* calls that have passed the sequence lock, and no call passes it with a  *)
(* shape that an expansion has begun to change.                            *)
(***************************************************************************)
THEOREM HomesStay == Spec => []HomeStable
<1>1. DynamicInv => HomeStable
  <2> SUFFICES ASSUME DynamicInv, NEW t \in Threads, pc[t] \in {"turn", "complete", "wait"},
                      ~Locked(dstate)
               PROVE  home[t] = maybeUpdateFromClosed(dstate, ticket[t], Current(0))
    BY DEF HomeStable, Current
  <2>1. TypeInv /\ ChainInv /\ ticket[t] \in Nat
    BY DEF DynamicInv, TypeInv, LocalType
  <2>2. ~Stored
    BY DEF DynamicInv, LockInv, Stored, Locking
  <2>3. PICK i \in DOMAIN chain : /\ maybeUpdateFromClosed(dstate, ticket[t], Current(0)) = chain[i]
                                  /\ Belongs(chain, ticket[t], i)
    BY <2>1, <2>2, SearchFinds
  <2>4. PICK j \in DOMAIN chain : home[t] = chain[j] /\ Belongs(chain, ticket[t], j)
    BY DEF DynamicInv, HomeInv, Placed
  <2>5. i = j
    BY <2>1, <2>3, <2>4, BelongsOnce
  <2> QED
    BY <2>3, <2>4, <2>5
<1> QED
  BY <1>1, DynamicInvariant, PTL

(***************************************************************************)
(* The tickets that tryObtainPromisedPushTicket and                        *)
(* tryObtainPromisedPopTicket give out wait only for calls that have their *)
(* ticket already, in the current array or in a closed one.                *)
(***************************************************************************)
THEOREM DynamicPromisesKept == Spec => []PromiseKept
BY DynamicInvariant, PTL

=============================================================================
