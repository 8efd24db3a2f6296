--------------------------- MODULE MPMCQueueProofs ---------------------------
(***************************************************************************)
(* The safety properties of MPMCQueue for any number of writers and        *)
(* readers and any capacity.                                               *)
(***************************************************************************)
EXTENDS MPMCQueue, FiniteSetTheorems, SequenceTheorems, WellFoundedInduction, TLAPS

---------------------------------------------------------------------------
(* The stride *)

\* A product of two numbers that a small prime does not divide is not a multiple
\* of it.
LEMMA SmallPrimesPrime ==
  ASSUME NEW p \in smallPrimes, NEW r \in 1 .. p - 1, NEW s \in 1 .. p - 1, NEW n \in Int
  PROVE  r * s # n * p
<1>1. CASE p = 2
  BY <1>1
<1>2. CASE p = 3
  BY <1>2
<1>3. CASE p = 5
  BY <1>3
<1>4. CASE p = 7
  BY <1>4
<1>5. CASE p = 11
  BY <1>5
<1>6. CASE p = 13
  BY <1>6
<1>7. CASE p = 17
  BY <1>7
<1>8. CASE p = 19
  BY <1>8
<1>9. CASE p = 23
  BY <1>9
<1> QED
  BY <1>1, <1>2, <1>3, <1>4, <1>5, <1>6, <1>7, <1>8, <1>9 DEF smallPrimes

\* Remainders, as multiples and rests.
LEMMA Division ==
  ASSUME NEW n \in Int, NEW c \in Nat \ {0}
  PROVE  n \div c \in Int /\ n % c \in 0 .. c - 1 /\ n = c * (n \div c) + (n % c)
<1>1. n \div c \in Int
  OBVIOUS
<1>2. n % c \in 0 .. c - 1
  OBVIOUS
<1>3. n = c * (n \div c) + (n % c)
  OBVIOUS
<1> QED
  BY <1>1, <1>2, <1>3

\* A number below c in absolute value is a multiple of c only if it is 0.
LEMMA NoSmallMultiple ==
  ASSUME NEW c \in Nat \ {0}, NEW d \in Int, d < c, -d < c, NEW m \in Int, d = m * c
  PROVE  d = 0
<1>1. m >= 1 => m * c >= c
  OBVIOUS
<1>2. m <= -1 => m * c <= -c
  OBVIOUS
<1> QED
  BY <1>1, <1>2

\* Multiples of a small prime that does not divide c repeat modulo c no earlier
\* than the numbers themselves do.
LEMMA PrimeCancels ==
  ASSUME NEW p \in smallPrimes, NEW c \in Nat \ {0}, c % p # 0
  PROVE  \A d, m \in Int : d * p = m * c => \E k \in Int : d = k * c
<1> SUFFICES ASSUME NEW d \in Int, NEW m \in Int, d * p = m * c
             PROVE  \E k \in Int : d = k * c
  OBVIOUS
<1>0. p \in Nat \ {0}
  BY DEF smallPrimes
<1> DEFINE r == m % p
           s == c % p
           m1 == m \div p
           c1 == c \div p
<1>1. m1 \in Int /\ r \in 0 .. p - 1 /\ m = p * m1 + r
  BY <1>0, Division
<1>2. c1 \in Int /\ s \in 1 .. p - 1 /\ c = p * c1 + s
  <2>0. c \in Int
    OBVIOUS
  <2>1. c1 \in Int /\ s \in 0 .. p - 1 /\ c = p * c1 + s
    BY <1>0, <2>0, Division, Zenon DEF c1, s
  <2>2. s # 0
    OBVIOUS
  <2> QED
    BY <1>0, <2>1, <2>2
<1> HIDE DEF r, s, m1, c1
<1>3. r * s = (d - p * m1 * c1 - m1 * s - c1 * r) * p
  <2>1. m * c = (p * m1 + r) * (p * c1 + s)
    BY <1>1, <1>2
  <2>2. (p * m1 + r) * (p * c1 + s) = p * (p * m1 * c1) + p * (m1 * s) + p * (c1 * r) + r * s
    BY <1>0, <1>1, <1>2
  <2> QED
    BY <1>0, <1>1, <1>2, <2>1, <2>2
<1>4. r = 0
  <2>1. d - p * m1 * c1 - m1 * s - c1 * r \in Int
    BY <1>0, <1>1, <1>2
  <2> QED
    BY <1>1, <1>2, <1>3, <2>1, SmallPrimesPrime
<1>5. d * p = (m1 * c) * p
  BY <1>0, <1>1, <1>4
<1>6. d = m1 * c
  BY <1>0, <1>1, <1>5
<1> QED
  BY <1>1, <1>6

LEMMA LeastNat ==
  ASSUME NEW T, T \subseteq Nat, T # {}
  PROVE  \E x \in T : \A y \in T : x <= y
<1>1. PICK x \in T : \A y \in T : ~(<<y, x>> \in OpToRel(<, Nat))
  BY NatLessThanWellFounded, WFMin
<1>2. \A y \in T : ~(y < x)
  BY <1>1 DEF OpToRel
<1> QED
  BY <1>2

\* What computeStride returns: 1, or a small prime that does not divide c.
LEMMA StrideChosen ==
  ASSUME NEW c \in Nat \ {0}
  PROVE  \/ computeStride(c) = 1
         \/ computeStride(c) \in smallPrimes /\ c % computeStride(c) # 0
<1> DEFINE usable == {p \in smallPrimes :
                        p % c # 0 /\ c % p # 0 /\ separation(p, c) > 1}
           widest == {p \in usable : \A q \in usable : separation(q, c) <= separation(p, c)}
<1>1. computeStride(c) = IF usable = {} THEN 1 ELSE CHOOSE p \in widest : \A q \in widest : p <= q
  BY DEF computeStride
<1>2. usable \subseteq smallPrimes /\ \A p \in usable : c % p # 0
  OBVIOUS
<1>3. usable \subseteq 2 .. 23
  BY <1>2 DEF smallPrimes
<1>4. \A p \in usable : separation(p, c) \in 0 .. 23
  <2> SUFFICES ASSUME NEW p \in usable PROVE separation(p, c) \in 0 .. 23
    OBVIOUS
  <2>1. p \in 2 .. 23
    BY <1>3
  <2>2. p % c \in 0 .. c - 1 /\ p % c <= p
    <3>1. p % c \in 0 .. c - 1
      BY <2>1, Division
    <3>2. CASE p < c
      BY <2>1, <3>2
    <3>3. CASE p >= c
      BY <2>1, <3>1, <3>3
    <3> QED
      BY <2>1, <3>1, <3>2, <3>3
  <2> QED
    BY <2>1, <2>2 DEF separation
<1> HIDE DEF usable
<1>5. CASE usable = {}
  BY <1>1, <1>5
<1>6. CASE usable # {}
  <2> DEFINE T == {23 - separation(p, c) : p \in usable}
  <2>1. T \subseteq Nat /\ T # {}
    BY <1>4, <1>6
  <2>2. PICK x \in T : \A y \in T : x <= y
    BY <2>1, LeastNat
  <2>3. PICK p \in usable : x = 23 - separation(p, c)
    BY <2>2
  <2>4. \A q \in usable : separation(q, c) <= separation(p, c)
    <3> SUFFICES ASSUME NEW q \in usable PROVE separation(q, c) <= separation(p, c)
      OBVIOUS
    <3>1. 23 - separation(q, c) \in T
      OBVIOUS
    <3>2. x <= 23 - separation(q, c)
      BY <2>2, <3>1
    <3>3. separation(q, c) \in Int /\ separation(p, c) \in Int
      BY <1>4
    <3> QED
      BY ONLY <2>3, <3>2, <3>3
  <2>5. widest \subseteq Nat /\ widest # {}
    <3>1. p \in widest
      BY <2>4
    <3>2. widest \subseteq usable
      OBVIOUS
    <3>3. 2 .. 23 \subseteq Nat
      OBVIOUS
    <3> HIDE DEF widest
    <3> QED
      BY <1>3, <3>1, <3>2, <3>3
  <2>6. \E w \in widest : \A q \in widest : w <= q
    BY <2>5, LeastNat
  <2>7. computeStride(c) \in widest
    BY <1>1, <1>6, <2>6
  <2> QED
    BY <1>2, <2>7
<1> QED
  BY <1>5, <1>6

(***************************************************************************)
(* For every capacity, the stride that computeStride gives sends the       *)
(* tickets of one round to different slots.                                *)
(***************************************************************************)
THEOREM StrideSound ==
  ASSUME NEW c \in Nat \ {0}
  PROVE  Spreads(computeStride(c), c)
<1> DEFINE p == computeStride(c)
<1> SUFFICES ASSUME NEW a \in 0 .. c - 1, NEW b \in 0 .. c - 1, (a * p) % c = (b * p) % c
             PROVE  a = b
  BY DEF Spreads, idx
<1>1. p = 1 \/ (p \in smallPrimes /\ c % p # 0)
  BY StrideChosen
<1>2. p \in Nat \ {0}
  BY <1>1 DEF smallPrimes
<1> HIDE DEF p
<1>3. PICK m \in Int : (a - b) * p = m * c
  <2> DEFINE x == a * p
             y == b * p
  <2>1. x \in Int /\ y \in Int
    BY <1>2
  <2> HIDE DEF x, y
  <2>2. x % c = y % c
    BY DEF x, y
  <2>3. x \div c \in Int /\ x = c * (x \div c) + (x % c)
    BY <2>1, Division
  <2>4. y \div c \in Int /\ y = c * (y \div c) + (y % c)
    BY <2>1, Division
  <2>5. x - y = ((x \div c) - (y \div c)) * c
    BY <2>1, <2>2, <2>3, <2>4
  <2>6. x - y = (a - b) * p
    BY <1>2 DEF x, y
  <2>7. (x \div c) - (y \div c) \in Int
    BY <2>3, <2>4
  <2> QED
    BY ONLY <2>5, <2>6, <2>7
<1>4. \E k \in Int : a - b = k * c
  <2>1. CASE p = 1
    BY <1>3, <2>1
  <2>2. CASE p # 1
    <3>1. p \in smallPrimes /\ c % p # 0
      BY <1>1, <2>2
    <3>2. PICK d \in Int : d = a - b
      OBVIOUS
    <3>3. m \in Int /\ d * p = m * c
      BY <1>3, <3>2
    <3>4. \A e, n \in Int : e * p = n * c => \E k \in Int : e = k * c
      BY <3>1, PrimeCancels
    <3>5. \E k \in Int : d = k * c
      BY ONLY <3>3, <3>4, d \in Int, Zenon
    <3> QED
      BY <3>2, <3>5
  <2> QED
    BY <2>1, <2>2
<1>5. a - b = 0
  BY <1>4, NoSmallMultiple
<1> QED
  BY <1>5

---------------------------------------------------------------------------
(* Tickets, slots and rounds *)

\* A multiple of c does not count modulo c.
LEMMA MultipleVanishes ==
  ASSUME NEW c \in Nat \ {0}, NEW x \in Int, NEW y \in Int
  PROVE  (c * y + x) % c = x % c
<1>1. PICK z \in Int : z = c * y + x
  OBVIOUS
<1>2. PICK q \in Int, r \in 0 .. c - 1 : z % c = r /\ z = c * q + r
  <2>1. z \div c \in Int /\ z % c \in 0 .. c - 1 /\ z = c * (z \div c) + (z % c)
    BY Division
  <2> WITNESS z \div c \in Int, z % c \in 0 .. c - 1
  <2> QED
    BY ONLY <2>1, Zenon
<1>3. PICK p \in Int, e \in 0 .. c - 1 : x % c = e /\ x = c * p + e
  <2>1. x \div c \in Int /\ x % c \in 0 .. c - 1 /\ x = c * (x \div c) + (x % c)
    BY Division
  <2> WITNESS x \div c \in Int, x % c \in 0 .. c - 1
  <2> QED
    BY ONLY <2>1, Zenon
<1>4. PICK m \in Int : m = y + p - q
  OBVIOUS
<1>5. PICK d \in Int : d = r - e
  OBVIOUS
<1>6. c * q + r = c * y + (c * p + e)
  BY ONLY <1>1, <1>2, <1>3
<1>7. m * c = c * y + c * p - c * q
  BY ONLY <1>4, y \in Int, p \in Int, q \in Int, c \in Nat
<1>8. d = m * c
  <2>1. PICK cq \in Int, cy \in Int, cp \in Int : cq = c * q /\ cy = c * y /\ cp = c * p
    OBVIOUS
  <2> QED
    BY ONLY <1>5, <1>6, <1>7, <2>1, r \in 0 .. c - 1, e \in 0 .. c - 1, c \in Nat
<1>9. d < c /\ -d < c
  BY ONLY <1>5, r \in 0 .. c - 1, e \in 0 .. c - 1, c \in Nat
<1>10. d = 0
  BY ONLY <1>8, <1>9, NoSmallMultiple, c \in Nat \ {0}, d \in Int, m \in Int
<1>11. r = e
  BY ONLY <1>5, <1>10, r \in 0 .. c - 1, e \in 0 .. c - 1, c \in Nat
<1> QED
  BY <1>1, <1>2, <1>3, <1>11

LEMMA StrideNat == Stride \in Nat \ {0}
  BY StrideChosen, CapacityAssumption DEF Stride, smallPrimes

LEMMA PlaceType == \A k \in Nat : place(k) \in Slots
<1> SUFFICES ASSUME NEW k \in Nat PROVE place(k) \in Slots
  OBVIOUS
<1>1. k * Stride \in Int
  BY StrideNat
<1> QED
  BY <1>1, Division, CapacityAssumption DEF place, idx, Slots

\* The ticket of a round is told by its rest modulo the capacity.
LEMMA PlaceOfRest ==
  ASSUME NEW k \in Nat
  PROVE  place(k) = place(k % Capacity)
<1> DEFINE r == k % Capacity
           n == k \div Capacity
<1>1. n \in Int /\ r \in 0 .. Capacity - 1 /\ k = Capacity * n + r
  BY Division, CapacityAssumption
<1> HIDE DEF r, n
<1>2. k * Stride = Capacity * (n * Stride) + r * Stride
  BY <1>1, StrideNat, CapacityAssumption
<1>3. n * Stride \in Int /\ r * Stride \in Int
  BY <1>1, StrideNat
<1>4. (Capacity * (n * Stride) + r * Stride) % Capacity = (r * Stride) % Capacity
  BY <1>3, MultipleVanishes, CapacityAssumption
<1> QED
  BY <1>2, <1>4 DEF place, idx, r

\* Two tickets have the same slot just if they have the same rest.
LEMMA SamePlace ==
  ASSUME NEW a \in Nat, NEW b \in Nat
  PROVE  place(a) = place(b) <=> a % Capacity = b % Capacity
<1>1. a % Capacity = b % Capacity => place(a) = place(b)
  BY PlaceOfRest
<1>2. ASSUME place(a) = place(b) PROVE a % Capacity = b % Capacity
  <2>1. place(a % Capacity) = place(b % Capacity)
    BY <1>2, PlaceOfRest
  <2>2. a % Capacity \in 0 .. Capacity - 1 /\ b % Capacity \in 0 .. Capacity - 1
    BY Division, CapacityAssumption
  <2>3. Spreads(Stride, Capacity)
    BY StrideSound, CapacityAssumption DEF Stride
  <2> QED
    BY <2>1, <2>2, <2>3 DEF Spreads, place
<1> QED
  BY <1>1, <1>2

\* The round of a ticket.
round(k) == turn(k, Capacity)

LEMMA TicketParts ==
  ASSUME NEW k \in Nat
  PROVE  /\ round(k) \in Nat
         /\ k % Capacity \in 0 .. Capacity - 1
         /\ k = Capacity * round(k) + (k % Capacity)
<1>1. round(k) \in Int /\ k % Capacity \in 0 .. Capacity - 1 /\ k = Capacity * round(k) + (k % Capacity)
  BY Division, CapacityAssumption DEF round, turn
<1>2. round(k) >= 0
  <2>1. round(k) <= -1 => Capacity * round(k) <= -Capacity
    BY <1>1, CapacityAssumption
  <2> QED
    BY <1>1, <2>1, CapacityAssumption
<1> QED
  BY <1>1, <1>2

\* The parts of a number determine it: its round and its rest.
LEMMA RoundUnique ==
  ASSUME NEW n \in Nat, NEW r \in 0 .. Capacity - 1
  PROVE  /\ Capacity * n + r \in Nat
         /\ round(Capacity * n + r) = n
         /\ (Capacity * n + r) % Capacity = r
<1> DEFINE k == Capacity * n + r
<1>1. k \in Nat
  BY CapacityAssumption
<1>2. k % Capacity = r
  <2>1. k % Capacity = r % Capacity
    BY MultipleVanishes, CapacityAssumption, r \in Int, n \in Int
  <2>2. r % Capacity = r
    BY CapacityAssumption
  <2> QED
    BY <2>1, <2>2
<1>3. PICK m \in Nat : round(k) = m /\ k = Capacity * m + (k % Capacity)
  BY <1>1, TicketParts
<1>4. Capacity * m + r = Capacity * n + r
  BY <1>2, <1>3
<1>5. m = n
  BY <1>4, CapacityAssumption
<1> QED
  BY <1>1, <1>2, <1>3, <1>5

LEMMA SameTicket ==
  ASSUME NEW a \in Nat, NEW b \in Nat, place(a) = place(b), round(a) = round(b)
  PROVE  a = b
  BY SamePlace, TicketParts

LEMMA RoundMonotone ==
  ASSUME NEW a \in Nat, NEW b \in Nat, a <= b
  PROVE  round(a) <= round(b)
<1>1. /\ round(a) \in Nat /\ a % Capacity \in 0 .. Capacity - 1
      /\ a = Capacity * round(a) + (a % Capacity)
  BY TicketParts
<1>2. /\ round(b) \in Nat /\ b % Capacity \in 0 .. Capacity - 1
      /\ b = Capacity * round(b) + (b % Capacity)
  BY TicketParts
<1>3. round(a) >= round(b) + 1 => Capacity * round(a) >= Capacity * round(b) + Capacity
  BY <1>1, <1>2, CapacityAssumption
<1> QED
  BY <1>1, <1>2, <1>3, CapacityAssumption

\* Every slot has a ticket in every round.
LEMMA TicketOf ==
  ASSUME NEW s \in Slots, NEW n \in Nat
  PROVE  \E k \in Nat : place(k) = s /\ round(k) = n
<1> DEFINE f == [r \in Slots |-> place(r)]
<1>1. Slots \subseteq Nat
  BY CapacityAssumption DEF Slots
<1>2. f \in Injection(Slots, Slots)
  <2>1. f \in [Slots -> Slots]
    BY <1>1, PlaceType
  <2>2. \A a, b \in Slots : f[a] = f[b] => a = b
    <3>1. Spreads(Stride, Capacity)
      BY StrideSound, CapacityAssumption DEF Stride
    <3> QED
      BY <3>1 DEF Spreads, place, Slots
  <2> QED
    BY <2>1, <2>2 DEF Injection, IsInjective
<1>3. IsFiniteSet(Slots)
  BY FS_Interval, CapacityAssumption DEF Slots
<1>4. f \in Surjection(Slots, Slots)
  BY <1>2, <1>3, FS_Injection
<1>5. PICK r \in Slots : f[r] = s
  BY <1>4 DEF Surjection
<1>6. r \in 0 .. Capacity - 1
  BY DEF Slots
<1> DEFINE k == Capacity * n + r
<1>7. k \in Nat /\ round(k) = n /\ k % Capacity = r
  BY <1>6, RoundUnique
<1> HIDE DEF k
<1>8. place(k) = s
  BY <1>5, <1>7, PlaceOfRest
<1> QED
  BY <1>7, <1>8

---------------------------------------------------------------------------
(* The types, and the kinds of steps *)

\* Where a thread is while it has no ticket of its own, and while it has one.
Preparing == {"idle", "check", "recheck", "cas", "wait"}
Admitted  == {"turn", "complete"}

TypeInv ==
  /\ scenario \in Scenarios
  /\ pushTicket \in Nat
  /\ popTicket \in Nat
  /\ sequencer \in [Slots -> 0 .. TurnSpan - 1]
  /\ contents \in [Slots -> Nat \cup {Nothing}]
  /\ pc \in [Threads -> Preparing \cup Admitted]
  /\ way \in [Threads -> {"none", "blocking", "ready", "promised", "until"}]
  /\ ticket \in [Threads -> Nat]
  /\ item \in [Threads -> Nat \cup {Nothing}]
  /\ pushed \in Seq(Nat)
  /\ got \in Seq(Nat \cup {Nothing})

\* A ticket that was loaded is not ahead of its counter, one that was drawn is
\* behind it, and no two threads of one side have drawn the same.
TicketInv ==
  /\ \A t \in Threads : pc[t] \in Preparing \ {"idle"} => ticket[t] <= dispenser(t)
  /\ \A t \in Threads : pc[t] \in Admitted => ticket[t] < dispenser(t)
  /\ \A t, u \in Threads :
       /\ pc[t] \in Admitted
       /\ pc[u] \in Admitted
       /\ t \in Writers <=> u \in Writers
       /\ ticket[t] = ticket[u]
       => t = u

\* A step of a thread without a ticket: it goes on to p, and is in order there.
Prepares(t) ==
  /\ pc[t] \in Preparing
  /\ \E p \in Preparing, w \in {"none", "blocking", "ready", "promised", "until"},
        k \in Nat, i \in Nat \cup {Nothing} :
       /\ pc' = [pc EXCEPT ![t] = p]
       /\ way' = [way EXCEPT ![t] = w]
       /\ ticket' = [ticket EXCEPT ![t] = k]
       /\ item' = [item EXCEPT ![t] = i]
       /\ p # "idle" => k <= dispenser(t)
       /\ p = "cas" /\ w = "ready" => isTurn(t, k)
       /\ p = "cas" /\ w \in {"promised", "until"} => ~Refused(t, k)
       /\ pc[t] = "idle" => dispenser(t) < scenario.start + scenario.tickets
  /\ UNCHANGED <<counters, slots, history, scenario>>

\* The step in which a thread gets its ticket.
Draws(t) ==
  \/ Draw(t, "idle") /\ Call(t, "blocking") /\ UNCHANGED <<slots, scenario>>
  \/ Draw(t, "cas") /\ dispenser(t) = ticket[t] /\ UNCHANGED <<slots, way, scenario>>

LEMMA DispenserType ==
  ASSUME TypeInv
  PROVE  \A t \in Threads : dispenser(t) \in Nat
  BY DEF TypeInv, dispenser

LEMMA ScenarioType ==
  ASSUME TypeInv
  PROVE  /\ scenario.ways \subseteq {"blocking", "ready", "promised", "until"}
         /\ scenario.start \in Nat
         /\ scenario.tickets \in Nat
  BY ScenariosAssumption DEF TypeInv

\* Every step prepares, draws a ticket, uses the slot, or leaves the queue alone.
LEMMA StepKinds ==
  ASSUME TypeInv, \A t \in Threads : pc[t] \in Preparing \ {"idle"} => ticket[t] <= dispenser(t),
         [Next]_vars
  PROVE  \/ \E t \in Threads : Prepares(t)
         \/ \E t \in Threads : Draws(t)
         \/ \E t \in Threads : Enqueue(t)
         \/ \E t \in Threads : Dequeue(t)
         \/ \E t \in Threads : Complete(t)
         \/ UNCHANGED <<counters, slots, calls, history, scenario>>
<1> DEFINE Goal == \/ \E t \in Threads : Prepares(t)
                   \/ \E t \in Threads : Draws(t)
                   \/ \E t \in Threads : Enqueue(t)
                   \/ \E t \in Threads : Dequeue(t)
                   \/ \E t \in Threads : Complete(t)
                   \/ UNCHANGED <<counters, slots, calls, history, scenario>>
<1> USE ScenarioType, DispenserType DEF Preparing, Admitted
<1>1. ASSUME NEW t \in Threads, Blocking(t) PROVE Draws(t)
  BY <1>1 DEF Blocking, Draws, others
<1>2. ASSUME NEW t \in Threads, NEW w \in scenario.ways, Begin(t, w) PROVE Prepares(t)
  <2>1. w \in {"ready", "promised", "until"}
    BY <1>2 DEF Begin
  <2>2. item' = [item EXCEPT ![t] = item[t]] /\ item[t] \in Nat \cup {Nothing}
    BY <1>2 DEF Begin, TypeInv
  <2>3. dispenser(t) \in Nat /\ dispenser(t) <= dispenser(t)
    OBVIOUS
  <2> QED
    BY <1>2, <2>1, <2>2, <2>3 DEF Begin, Prepares, Goto, Call, Load, others
<1>3. ASSUME NEW t \in Threads, CheckReady(t) PROVE Prepares(t)
  <2>1. way' = [way EXCEPT ![t] = "ready"] /\ pc[t] = "check"
    BY <1>3 DEF CheckReady, Goto, TypeInv
  <2>2. item' = [item EXCEPT ![t] = item[t]] /\ item[t] \in Nat \cup {Nothing}
    BY <1>3 DEF CheckReady, TypeInv
  <2>3. ticket' = [ticket EXCEPT ![t] = ticket[t]] /\ ticket[t] \in Nat /\ ticket[t] <= dispenser(t)
    BY <1>3, <2>1 DEF CheckReady, TypeInv
  <2>4. PICK p \in {"cas", "recheck"} : pc' = [pc EXCEPT ![t] = p] /\ (p = "cas" => isTurn(t, ticket[t]))
    BY <1>3 DEF CheckReady, Goto
  <2>5. UNCHANGED <<counters, slots, history, scenario>>
    BY <1>3 DEF CheckReady, others
  <2>6. CASE p = "cas"
    BY <2>1, <2>2, <2>3, <2>4, <2>5, <2>6 DEF Prepares
  <2>7. CASE p = "recheck"
    BY <2>1, <2>2, <2>3, <2>4, <2>5, <2>7 DEF Prepares
  <2> QED
    BY <2>4, <2>6, <2>7
<1>4. ASSUME NEW t \in Threads, NEW from \in Preparing \ {"idle"}, Return(t, from),
             UNCHANGED <<counters, slots, history, others>>
      PROVE  Prepares(t)
  BY <1>4 DEF Return, Goto, Prepares, others
<1>5. ASSUME NEW t \in Threads, NEW from \in Preparing \ {"idle"}, Goto(t, from, "check"), Load(t),
             UNCHANGED <<counters, slots, way, item, history, others>>
      PROVE  Prepares(t)
  <2>2. item' = [item EXCEPT ![t] = item[t]] /\ item[t] \in Nat \cup {Nothing}
    BY <1>5 DEF TypeInv
  <2>3. way' = [way EXCEPT ![t] = way[t]]
        /\ way[t] \in {"none", "blocking", "ready", "promised", "until"}
    BY <1>5 DEF TypeInv
  <2>4. dispenser(t) \in Nat /\ dispenser(t) <= dispenser(t)
    OBVIOUS
  <2> QED
    BY <1>5, <2>2, <2>3, <2>4, ZenonT(30) DEF Goto, Load, Prepares, others
<1>6. ASSUME NEW t \in Threads, Recheck(t) PROVE Prepares(t)
  <2>1. UNCHANGED <<counters, slots, history, others>> /\ "recheck" \in Preparing \ {"idle"}
    BY <1>6 DEF Recheck
  <2>2. CASE Return(t, "recheck")
    BY <1>4, <2>1, <2>2
  <2>3. CASE Goto(t, "recheck", "check") /\ Load(t) /\ UNCHANGED <<way, item>>
    BY <1>5, <2>1, <2>3
  <2> QED
    BY <1>6, <2>2, <2>3 DEF Recheck
<1>7. ASSUME NEW t \in Threads, CheckPromised(t) PROVE Prepares(t)
  <2>1. UNCHANGED <<counters, slots, history, others>> /\ "check" \in Preparing \ {"idle"}
    BY <1>7 DEF CheckPromised
  <2>2. CASE Return(t, "check")
    BY <1>4, <2>1, <2>2
  <2>3. ASSUME NEW p \in {"cas", "wait"}, Goto(t, "check", p), UNCHANGED <<way, ticket, item>>,
               p = "cas" => ~Refused(t, ticket[t])
        PROVE  Prepares(t)
    <3>1. item' = [item EXCEPT ![t] = item[t]] /\ item[t] \in Nat \cup {Nothing}
      BY <2>3 DEF TypeInv
    <3>2. way' = [way EXCEPT ![t] = way[t]]
          /\ way[t] \in {"none", "blocking", "ready", "promised", "until"} /\ way[t] # "ready"
      BY <1>7, <2>3 DEF TypeInv, CheckPromised
    <3>3. ticket' = [ticket EXCEPT ![t] = ticket[t]] /\ ticket[t] \in Nat /\ ticket[t] <= dispenser(t)
      BY <2>3 DEF TypeInv, Goto
    <3> QED
      BY <2>1, <2>3, <3>1, <3>2, <3>3, ZenonT(30) DEF Goto, Prepares, others
  <2>4. CASE ~Refused(t, ticket[t]) /\ Goto(t, "check", "cas") /\ UNCHANGED <<way, ticket, item>>
    BY <2>3, <2>4
  <2>5. CASE Goto(t, "check", "wait") /\ UNCHANGED <<way, ticket, item>>
    BY <2>3, <2>5
  <2> QED
    BY <1>7, <2>2, <2>4, <2>5 DEF CheckPromised
<1>8. ASSUME NEW t \in Threads, TurnArrived(t) PROVE Prepares(t)
  BY <1>5, <1>8 DEF TurnArrived
<1>9. ASSUME NEW t \in Threads, Deadline(t) PROVE Prepares(t)
  BY <1>4, <1>9 DEF Deadline
<1>10. ASSUME NEW t \in Threads, Cas(t) PROVE Prepares(t) \/ Draws(t)
  <2>1. UNCHANGED <<slots, way, others>> /\ "cas" \in Preparing \ {"idle"}
    BY <1>10 DEF Cas
  <2>2. CASE dispenser(t) = ticket[t] /\ Draw(t, "cas")
    BY <2>1, <2>2 DEF Draws, others
  <2>3. CASE Goto(t, "cas", "check") /\ Load(t) /\ UNCHANGED <<counters, item, history>>
    BY <1>5, <2>1, <2>3
  <2> QED
    BY <1>10, <2>2, <2>3 DEF Cas
<1>11. ASSUME NEW t \in Threads, Step(t) PROVE Goal
  BY <1>3, <1>6, <1>7, <1>8, <1>10, <1>11 DEF Step
<1>12. SizeStep \/ UNCHANGED vars => UNCHANGED <<counters, slots, calls, history, scenario>>
  BY DEF SizeStep, SizeA, SizeB, SizeC, SizeD, SizeLoad, vars, others
<1> QED
  BY <1>1, <1>2, <1>9, <1>11, <1>12 DEF Next

\* What has been pushed and popped since the start, by the tickets.
HistoryInv ==
  /\ scenario.start <= pushTicket /\ Len(pushed) = pushTicket - scenario.start
  /\ scenario.start <= popTicket /\ Len(got) = popTicket - scenario.start
  /\ \A i \in 1 .. Len(pushed) : pushed[i] = i
  /\ \A t \in Threads : pc[t] \in Admitted => scenario.start <= ticket[t]
  /\ \A t \in Writers : pc[t] \in Admitted => item[t] = ticket[t] - scenario.start + 1
  /\ \A t \in Readers : pc[t] = "turn" => got[ticket[t] - scenario.start + 1] = Nothing

\* The steps that draw a ticket, on either side.
LEMMA DrawsEffect ==
  ASSUME TypeInv, NEW t \in Threads, Draws(t)
  PROVE  /\ pc[t] \in {"idle", "cas"} /\ pc' = [pc EXCEPT ![t] = "turn"]
         /\ pc[t] = "cas" => ticket[t] = dispenser(t) /\ way' = way
         /\ pc[t] = "idle" => way' = [way EXCEPT ![t] = "blocking"]
         /\ ticket' = [ticket EXCEPT ![t] = dispenser(t)]
         /\ UNCHANGED <<sequencer, contents, scenario>>
         /\ \/ /\ t \in Writers /\ t \notin Readers
               /\ pushTicket' = pushTicket + 1 /\ popTicket' = popTicket
               /\ item' = [item EXCEPT ![t] = Len(pushed) + 1]
               /\ pushed' = Append(pushed, Len(pushed) + 1) /\ got' = got
            \/ /\ t \in Readers /\ t \notin Writers
               /\ popTicket' = popTicket + 1 /\ pushTicket' = pushTicket
               /\ got' = Append(got, Nothing) /\ pushed' = pushed /\ item' = item
<1>1. ASSUME Draw(t, "idle"), Call(t, "blocking"), UNCHANGED <<slots, scenario>>
      PROVE  /\ pc[t] = "idle" /\ way' = [way EXCEPT ![t] = "blocking"]
             /\ UNCHANGED <<sequencer, contents, scenario>>
  BY <1>1 DEF Draw, Goto, Call, slots
<1>2. ASSUME Draw(t, "cas"), dispenser(t) = ticket[t], UNCHANGED <<slots, way, scenario>>
      PROVE  /\ pc[t] = "cas" /\ ticket[t] = dispenser(t) /\ way' = way
             /\ UNCHANGED <<sequencer, contents, scenario>>
  BY <1>2 DEF Draw, Goto, slots
<1>3. PICK from \in {"idle", "cas"} : Draw(t, from)
  BY DEF Draws
<1>4. /\ pc' = [pc EXCEPT ![t] = "turn"]
      /\ ticket' = [ticket EXCEPT ![t] = dispenser(t)]
      /\ \/ /\ t \in Writers /\ t \notin Readers
            /\ pushTicket' = pushTicket + 1 /\ popTicket' = popTicket
            /\ item' = [item EXCEPT ![t] = Len(pushed) + 1]
            /\ pushed' = Append(pushed, Len(pushed) + 1) /\ got' = got
         \/ /\ t \in Readers /\ t \notin Writers
            /\ popTicket' = popTicket + 1 /\ pushTicket' = pushTicket
            /\ got' = Append(got, Nothing) /\ pushed' = pushed /\ item' = item
  BY <1>3, ThreadsAssumption, Zenon DEF Draw, Goto, Load
<1>5. CASE Draw(t, "idle") /\ Call(t, "blocking") /\ UNCHANGED <<slots, scenario>>
  BY <1>1, <1>4, <1>5
<1>6. CASE Draw(t, "cas") /\ dispenser(t) = ticket[t] /\ UNCHANGED <<slots, way, scenario>>
  BY <1>2, <1>4, <1>6
<1> QED
  BY <1>5, <1>6 DEF Draws

LEMMA TypeStep ==
  ASSUME TypeInv, TicketInv, HistoryInv, [Next]_vars
  PROVE  TypeInv'
<1> USE DEF TypeInv
<1>0. \A t \in Threads : place(ticket[t]) \in Slots
  BY PlaceType
<1>1. ASSUME NEW t \in Threads, Prepares(t) PROVE TypeInv'
  <2>1. PICK p \in Preparing, w \in {"none", "blocking", "ready", "promised", "until"},
             k \in Nat, i \in Nat \cup {Nothing} :
          /\ pc' = [pc EXCEPT ![t] = p] /\ way' = [way EXCEPT ![t] = w]
          /\ ticket' = [ticket EXCEPT ![t] = k] /\ item' = [item EXCEPT ![t] = i]
    BY <1>1, ZenonT(30) DEF Prepares
  <2>2. UNCHANGED <<pushTicket, popTicket, sequencer, contents, pushed, got, scenario>>
    BY <1>1 DEF Prepares, counters, slots, history
  <2> QED
    BY <2>1, <2>2
<1>2. ASSUME NEW t \in Threads, Draws(t) PROVE TypeInv'
  <2>1. Len(pushed) + 1 \in Nat /\ Append(pushed, Len(pushed) + 1) \in Seq(Nat)
        /\ Append(got, Nothing) \in Seq(Nat \cup {Nothing}) /\ pushTicket + 1 \in Nat /\ popTicket + 1 \in Nat
    OBVIOUS
  <2>2. dispenser(t) \in Nat
    BY DEF dispenser
  <2>3. /\ pc' \in [Threads -> Preparing \cup Admitted]
        /\ way' \in [Threads -> {"none", "blocking", "ready", "promised", "until"}]
    BY <1>2, DrawsEffect DEF Admitted
  <2>4. ticket' \in [Threads -> Nat]
    <3>1. ticket' = [ticket EXCEPT ![t] = dispenser(t)]
      BY <1>2, DrawsEffect, Zenon
    <3> QED
      BY <2>2, <3>1
  <2>7. item' \in [Threads -> Nat \cup {Nothing}]
    <3>1. item' = item \/ item' = [item EXCEPT ![t] = Len(pushed) + 1]
      BY <1>2, DrawsEffect, Zenon
    <3> QED
      BY <2>1, <3>1
  <2>5. pushTicket' \in Nat /\ popTicket' \in Nat /\ UNCHANGED <<sequencer, contents, scenario>>
    BY <1>2, <2>1, DrawsEffect
  <2>6. pushed' \in Seq(Nat) /\ got' \in Seq(Nat \cup {Nothing})
    BY <1>2, <2>1, DrawsEffect, Zenon
  <2> QED
    BY <2>3, <2>4, <2>5, <2>6, <2>7
<1>3. ASSUME NEW t \in Threads, Enqueue(t) PROVE TypeInv'
  BY <1>0, <1>3 DEF Enqueue, Goto, Admitted, counters, history, others
<1>4. ASSUME NEW t \in Threads, Dequeue(t) PROVE TypeInv'
  <2>1. ticket[t] - scenario.start + 1 \in 1 .. Len(got)
    BY <1>4, ThreadsAssumption, ScenarioType, SMTT(30) DEF Dequeue, Goto, HistoryInv, TicketInv, Admitted, dispenser
  <2>2. contents[place(ticket[t])] \in Nat \cup {Nothing}
    BY <1>0
  <2>3. got' \in Seq(Nat \cup {Nothing})
    BY <1>4, <2>1, <2>2, ExceptSeq DEF Dequeue
  <2> QED
    BY <1>0, <1>4, <2>3 DEF Dequeue, Goto, Admitted, counters, others
<1>5. ASSUME NEW t \in Threads, Complete(t) PROVE TypeInv'
  <2>1. turnOf(t, ticket[t]) + 1 \in Int
    <3>1. round(ticket[t]) \in Nat
      BY TicketParts
    <3>2. 2 * turn(ticket[t], Capacity) + (IF t \in Writers THEN 0 ELSE 1) \in Int
      BY <3>1 DEF round
    <3>3. turnOf(t, ticket[t]) \in 0 .. TurnSpan - 1
      BY <3>2, Division, CapacityAssumption DEF turnOf
    <3> QED
      BY <3>3, CapacityAssumption
  <2>2. (turnOf(t, ticket[t]) + 1) % TurnSpan \in 0 .. TurnSpan - 1
    BY <2>1, Division, CapacityAssumption
  <2> QED
    BY <1>0, <1>5, <2>2 DEF Complete, Return, Goto, Preparing, counters, history, others
<1>6. CASE UNCHANGED <<counters, slots, calls, history, scenario>>
  BY <1>6 DEF counters, slots, calls, history
<1> QED
  BY <1>1, <1>2, <1>3, <1>4, <1>5, <1>6, StepKinds DEF TicketInv

LEMMA TicketStep ==
  ASSUME TypeInv, TicketInv, [Next]_vars
  PROVE  TicketInv'
<1> USE DEF TypeInv
<1>0. \A t \in Threads : dispenser(t) \in Nat
  BY DispenserType
<1>1. ASSUME NEW t \in Threads, Prepares(t) PROVE TicketInv'
  <2>1. \A u \in Threads : dispenser(u)' = dispenser(u)
    BY <1>1 DEF Prepares, counters, dispenser
  <2>2. \A u \in Threads \ {t} : pc'[u] = pc[u] /\ ticket'[u] = ticket[u]
    BY <1>1 DEF Prepares
  <2>3. pc'[t] \in Preparing /\ (pc'[t] # "idle" => ticket'[t] <= dispenser(t))
    BY <1>1 DEF Prepares
  <2> QED
    BY <2>1, <2>2, <2>3, ZenonT(30) DEF TicketInv, Preparing, Admitted
<1>2. ASSUME NEW t \in Threads, Draws(t) PROVE TicketInv'
  <2>1. \A u \in Threads : dispenser(u)' \in Nat /\ dispenser(u)' >= dispenser(u)
    BY <1>2, DrawsEffect, SMTT(30) DEF dispenser
  <2>2. \A u \in Threads \ {t} : pc'[u] = pc[u] /\ ticket'[u] = ticket[u]
    BY <1>2, DrawsEffect
  <2>3. pc'[t] = "turn" /\ ticket'[t] = dispenser(t) /\ dispenser(t) < dispenser(t)'
    BY <1>2, DrawsEffect DEF dispenser
  <2>4. \A u \in Threads : (t \in Writers <=> u \in Writers) => dispenser(u) = dispenser(t)
    BY DEF dispenser
  <2>5. \A u \in Threads : ticket[u] \in Nat /\ ticket'[u] \in Nat
    BY <1>0, <2>2, <2>3
  <2> HIDE DEF TypeInv
  <2>6. \A u \in Threads : pc'[u] \in Preparing \ {"idle"} => ticket'[u] <= dispenser(u)'
    BY <1>0, <2>1, <2>2, <2>3, <2>5 DEF TicketInv, Preparing
  <2>7. \A u \in Threads : pc'[u] \in Admitted => ticket'[u] < dispenser(u)'
    BY <1>0, <2>1, <2>2, <2>3, <2>5 DEF TicketInv
  <2>8. \A u \in Threads \ {t} : pc'[u] \in Admitted /\ (t \in Writers <=> u \in Writers) => ticket'[u] # ticket'[t]
    BY <1>0, <2>2, <2>3, <2>4, <2>5 DEF TicketInv
  <2> QED
    BY <2>2, <2>6, <2>7, <2>8 DEF TicketInv
<1>3. ASSUME NEW t \in Threads, Enqueue(t) \/ Dequeue(t) PROVE TicketInv'
  <2>1. pc[t] = "turn" /\ pc' = [pc EXCEPT ![t] = "complete"] /\ ticket' = ticket /\ UNCHANGED counters
    BY <1>3 DEF Enqueue, Dequeue, Goto
  <2>2. \A u \in Threads : dispenser(u)' = dispenser(u)
    BY <2>1 DEF counters, dispenser
  <2> QED
    BY <2>1, <2>2 DEF TicketInv, Preparing, Admitted
<1>4. ASSUME NEW t \in Threads, Complete(t) PROVE TicketInv'
  <2>1. pc' = [pc EXCEPT ![t] = "idle"] /\ UNCHANGED counters
        /\ \A u \in Threads \ {t} : ticket'[u] = ticket[u]
    BY <1>4 DEF Complete, Return, Goto
  <2>2. \A u \in Threads : dispenser(u)' = dispenser(u)
    BY <2>1 DEF counters, dispenser
  <2> QED
    BY <2>1, <2>2 DEF TicketInv, Preparing, Admitted
<1>5. CASE UNCHANGED <<counters, slots, calls, history, scenario>>
  BY <1>5 DEF counters, calls, TicketInv, dispenser
<1> QED
  BY <1>1, <1>2, <1>3, <1>4, <1>5, StepKinds DEF TicketInv

LEMMA HistoryStep ==
  ASSUME TypeInv, TicketInv, HistoryInv, [Next]_vars
  PROVE  HistoryInv'
<1> DEFINE start == scenario.start
<1>0. start \in Nat /\ Len(pushed) \in Nat /\ Len(got) \in Nat
  BY ScenarioType DEF TypeInv
<1>1. ASSUME NEW t \in Threads, Prepares(t) PROVE HistoryInv'
  <2>1. UNCHANGED <<pushTicket, popTicket, pushed, got, scenario>>
    BY <1>1 DEF Prepares, counters, history
  <2>2. \A u \in Threads \ {t} : pc'[u] = pc[u] /\ ticket'[u] = ticket[u] /\ item'[u] = item[u]
    BY <1>1 DEF Prepares, TypeInv
  <2>3. pc'[t] \notin Admitted
    BY <1>1 DEF Prepares, TypeInv, Preparing, Admitted
  <2>4. "turn" \in Admitted /\ Writers \subseteq Threads /\ Readers \subseteq Threads
    BY DEF Admitted, Threads
  <2> QED
    BY <2>1, <2>2, <2>3, <2>4 DEF HistoryInv
<1>2. ASSUME NEW t \in Threads, Draws(t) PROVE HistoryInv'
  <2>1. \A u \in Threads \ {t} : pc'[u] = pc[u] /\ ticket'[u] = ticket[u] /\ item'[u] = item[u]
    BY <1>2, DrawsEffect, SMTT(30) DEF TypeInv
  <2>2. pc'[t] = "turn" /\ ticket'[t] = dispenser(t) /\ scenario' = scenario
    BY <1>2, DrawsEffect DEF TypeInv
  <2>3. "turn" \in Admitted /\ Writers \subseteq Threads /\ Readers \subseteq Threads
    BY DEF Admitted, Threads
  <2>4. \A u \in Threads : pc'[u] \in Admitted => start <= ticket'[u]
    <3>1. start <= dispenser(t)
      BY DEF HistoryInv, dispenser
    <3> QED
      BY <2>1, <2>2, <3>1 DEF HistoryInv
  <2>5. CASE t \in Writers
    <3>1. /\ t \notin Readers /\ pushTicket' = pushTicket + 1 /\ popTicket' = popTicket
          /\ item'[t] = Len(pushed) + 1 /\ pushed' = Append(pushed, Len(pushed) + 1) /\ got' = got
      BY <1>2, <2>5, DrawsEffect DEF TypeInv
    <3>2. Len(pushed') = Len(pushed) + 1 /\ \A i \in 1 .. Len(pushed) + 1 : pushed'[i] = i
      <4>1. pushed \in Seq(Nat) /\ Len(pushed) + 1 \in Nat /\ \A i \in 1 .. Len(pushed) : pushed[i] = i
        BY <1>0 DEF HistoryInv, TypeInv
      <4>2. pushed' = Append(pushed, Len(pushed) + 1)
        BY <3>1
      <4> QED
        BY ONLY <4>1, <4>2
    <3>3. Len(pushed') = pushTicket' - start /\ Len(got') = popTicket' - start
          /\ start <= pushTicket' /\ start <= popTicket'
      BY <1>0, <3>1, <3>2 DEF HistoryInv, TypeInv
    <3>4. item'[t] = ticket'[t] - start + 1
      BY <2>2, <2>5, <3>1 DEF HistoryInv, dispenser
    <3>5. \A u \in Writers : pc'[u] \in Admitted => item'[u] = ticket'[u] - start + 1
      BY <2>1, <2>3, <3>4 DEF HistoryInv
    <3>6. \A u \in Readers : pc'[u] = "turn" => got'[ticket'[u] - start + 1] = Nothing
      BY <2>1, <2>3, <3>1 DEF HistoryInv
    <3> QED
      BY <2>2, <2>4, <3>2, <3>3, <3>5, <3>6 DEF HistoryInv
  <2>6. CASE t \in Readers
    <3>1. /\ t \notin Writers /\ popTicket' = popTicket + 1 /\ pushTicket' = pushTicket
          /\ got' = Append(got, Nothing) /\ pushed' = pushed /\ item' = item
      BY <1>2, <2>6, ThreadsAssumption, DrawsEffect
    <3>2. Len(got') = Len(got) + 1 /\ got'[Len(got) + 1] = Nothing
          /\ \A i \in 1 .. Len(got) : got'[i] = got[i]
      BY <3>1 DEF TypeInv
    <3>3. Len(pushed') = pushTicket' - start /\ Len(got') = popTicket' - start
          /\ start <= pushTicket' /\ start <= popTicket'
      BY <1>0, <3>1, <3>2, SMTT(30) DEF HistoryInv, TypeInv
    <3>4. ticket'[t] - start + 1 = Len(got) + 1
      BY <2>2, <3>1 DEF HistoryInv, dispenser
    <3>5. \A u \in Readers \ {t} : pc'[u] = "turn" => ticket'[u] - start + 1 \in 1 .. Len(got)
      <4> SUFFICES ASSUME NEW u \in Readers \ {t}, pc'[u] = "turn"
                   PROVE  ticket'[u] - start + 1 \in 1 .. Len(got)
        OBVIOUS
      <4>1. u \in Threads \ {t} /\ u \notin Writers /\ ticket[u] \in Nat
        BY <2>3, ThreadsAssumption DEF TypeInv
      <4>2. pc[u] = "turn" /\ ticket'[u] = ticket[u]
        BY <2>1, <4>1
      <4>3. start <= ticket[u] /\ ticket[u] < popTicket
        BY <2>3, <4>1, <4>2 DEF HistoryInv, TicketInv, dispenser
      <4>4. popTicket \in Nat /\ Len(got) = popTicket - start
        BY DEF HistoryInv, TypeInv
      <4> QED
        BY <1>0, <4>1, <4>2, <4>3, <4>4
    <3>6. \A u \in Readers : pc'[u] = "turn" => got'[ticket'[u] - start + 1] = Nothing
      <4> SUFFICES ASSUME NEW u \in Readers, pc'[u] = "turn"
                   PROVE  got'[ticket'[u] - start + 1] = Nothing
        OBVIOUS
      <4>1. CASE u = t
        BY <3>2, <3>4, <4>1
      <4>2. CASE u # t
        BY <2>1, <2>3, <3>2, <3>5, <4>2 DEF HistoryInv
      <4> QED
        BY <4>1, <4>2
    <3>7. \A u \in Writers : pc'[u] \in Admitted => item'[u] = ticket'[u] - start + 1
      BY <2>1, <2>3, <3>1 DEF HistoryInv
    <3> QED
      BY <2>2, <2>4, <3>1, <3>3, <3>6, <3>7 DEF HistoryInv
  <2> QED
    BY <2>5, <2>6 DEF Threads
<1>3. ASSUME NEW t \in Threads, Enqueue(t) PROVE HistoryInv'
  <2>1. pc[t] = "turn" /\ pc' = [pc EXCEPT ![t] = "complete"]
        /\ UNCHANGED <<pushTicket, popTicket, pushed, got, scenario, ticket, item>>
    BY <1>3 DEF Enqueue, Goto, counters, history, others
  <2> QED
    BY <2>1 DEF HistoryInv, Admitted, TypeInv
<1>4. ASSUME NEW t \in Threads, Dequeue(t) PROVE HistoryInv'
  <2>1. t \in Readers /\ pc[t] = "turn" /\ pc' = [pc EXCEPT ![t] = "complete"]
        /\ UNCHANGED <<pushTicket, popTicket, pushed, scenario, ticket, item>>
        /\ got' = [got EXCEPT ![ticket[t] - start + 1] = contents[place(ticket[t])]]
    BY <1>4 DEF Dequeue, Goto, counters, others
  <2>2. ticket[t] - start + 1 \in 1 .. Len(got)
    <3>1. start <= ticket[t] /\ ticket[t] < popTicket
      BY <2>1, ThreadsAssumption DEF HistoryInv, TicketInv, Admitted, dispenser
    <3>2. ticket[t] \in Nat /\ popTicket \in Nat /\ Len(got) = popTicket - start
      BY DEF HistoryInv, TypeInv
    <3> QED
      BY <1>0, <3>1, <3>2
  <2>3. Len(got') = Len(got)
        /\ \A j \in 1 .. Len(got) : j # ticket[t] - start + 1 => got'[j] = got[j]
    <3>1. contents[place(ticket[t])] \in Nat \cup {Nothing}
      BY PlaceType DEF TypeInv
    <3> QED
      BY <2>1, <2>2, <3>1, ExceptSeq DEF TypeInv
  <2>4. \A u \in Readers \ {t} : pc'[u] = "turn" => got'[ticket'[u] - start + 1] = Nothing
    <3> SUFFICES ASSUME NEW u \in Readers \ {t}, pc'[u] = "turn"
                 PROVE  got'[ticket'[u] - start + 1] = Nothing
      OBVIOUS
    <3>1. u \in Threads /\ u \notin Writers /\ t \notin Writers /\ pc[u] = "turn"
      BY <2>1, ThreadsAssumption DEF Threads, TypeInv
    <3>2. ticket[u] # ticket[t] /\ ticket[u] \in Nat /\ ticket[t] \in Nat
      BY <2>1, <3>1 DEF TicketInv, TypeInv, Admitted
    <3>3. ticket[u] - start + 1 \in 1 .. Len(got)
      <4>1. start <= ticket[u] /\ ticket[u] < popTicket
        BY <3>1 DEF HistoryInv, TicketInv, Admitted, dispenser
      <4>2. popTicket \in Nat /\ Len(got) = popTicket - start
        BY DEF HistoryInv, TypeInv
      <4> QED
        BY ONLY <1>0, <3>2, <4>1, <4>2
    <3>4. got[ticket[u] - start + 1] = Nothing
      BY <3>1 DEF HistoryInv
    <3> QED
      BY <1>0, <2>1, <2>3, <3>2, <3>3, <3>4
  <2>5. pc'[t] # "turn"
    BY <2>1 DEF TypeInv
  <2>6. \A u \in Readers : pc'[u] = "turn" => got'[ticket'[u] - start + 1] = Nothing
    BY <2>4, <2>5
  <2>7. Writers \subseteq Threads /\ \A u \in Threads : pc'[u] \in Admitted => pc[u] \in Admitted
    BY <2>1 DEF Threads, Admitted, TypeInv
  <2> QED
    BY <2>1, <2>3, <2>6, <2>7 DEF HistoryInv
<1>5. ASSUME NEW t \in Threads, Complete(t) PROVE HistoryInv'
  <2>1. UNCHANGED <<pushTicket, popTicket, pushed, got, scenario>>
    BY <1>5 DEF Complete, counters, history, others
  <2>2. \A u \in Threads \ {t} : pc'[u] = pc[u] /\ ticket'[u] = ticket[u] /\ item'[u] = item[u]
    BY <1>5 DEF Complete, Return, Goto, TypeInv
  <2>3. pc'[t] \notin Admitted
    BY <1>5 DEF Complete, Return, Goto, TypeInv, Admitted
  <2>4. "turn" \in Admitted /\ Writers \subseteq Threads /\ Readers \subseteq Threads
    BY DEF Admitted, Threads
  <2> QED
    BY <2>1, <2>2, <2>3, <2>4 DEF HistoryInv
<1>6. CASE UNCHANGED <<counters, slots, calls, history, scenario>>
  BY <1>6 DEF counters, calls, history, HistoryInv
<1> QED
  BY <1>1, <1>2, <1>3, <1>4, <1>5, <1>6, StepKinds DEF TicketInv

---------------------------------------------------------------------------
(* The turns *)

\* Pushes are side 0 of the queue, pops are side 1.
sideOf(t) == IF t \in Writers THEN 0 ELSE 1
drawn(b)  == IF b = 0 THEN pushTicket ELSE popTicket

\* The turn of a ticket before it is taken modulo TurnSpan.
fullTurn(b, k) == 2 * round(k) + b

Held(b, k) == \E t \in Threads : sideOf(t) = b /\ pc[t] \in Admitted /\ ticket[t] = k
Busy(s)    == \E t \in Threads : pc[t] = "complete" /\ place(ticket[t]) = s

\* The turns that the sequencers have really reached are R.  At each slot, the
\* turns that are still to come are those of the tickets that are not drawn yet
\* and of the tickets that some thread holds.
SequencerInv(R) == \A s \in Slots : sequencer[s] = R[s] % TurnSpan
OpenInv(R) ==
  \A b \in {0, 1}, k \in Nat : fullTurn(b, k) >= R[place(k)] <=> k >= drawn(b) \/ Held(b, k)

\* Who is inside a slot has its turn there, and so does a call of write() or
\* read() from the check of the slot on.
InsideInv(R) ==
  \A t \in Threads : pc[t] = "complete" => R[place(ticket[t])] = fullTurn(sideOf(t), ticket[t])
ReadyInv(R) ==
  \A t \in Threads :
    /\ way[t] = "ready"
    /\ pc[t] = "turn" \/ (pc[t] = "cas" /\ ticket[t] = dispenser(t))
    => R[place(ticket[t])] = fullTurn(sideOf(t), ticket[t])

\* A slot whose turn is a push is empty unless the writer is inside; one whose
\* turn is a pop holds the item of that round unless the reader is inside.
ContentsInv(R) ==
  /\ \A s \in Slots : contents[s] = Nothing <=> (R[s] % 2 = 0 <=> ~Busy(s))
  /\ \A k \in Nat :
       /\ contents[place(k)] # Nothing
       /\ R[place(k)] \in {fullTurn(0, k), fullTurn(1, k)}
       => contents[place(k)] = k - scenario.start + 1

RoundInv(R) ==
  SequencerInv(R) /\ OpenInv(R) /\ InsideInv(R) /\ ReadyInv(R) /\ ContentsInv(R)

LEMMA FullTurnType ==
  /\ \A t \in Threads : sideOf(t) \in {0, 1}
  /\ \A b \in {0, 1}, k \in Nat : fullTurn(b, k) \in Nat
  BY TicketParts DEF sideOf, fullTurn

\* A turn at a slot belongs to one ticket of one side.
LEMMA SameTurn ==
  ASSUME NEW b \in {0, 1}, NEW c \in {0, 1}, NEW k \in Nat, NEW m \in Nat,
         place(k) = place(m), fullTurn(b, k) = fullTurn(c, m)
  PROVE  b = c /\ k = m
<1>1. PICK x \in Nat, y \in Nat : x = round(k) /\ y = round(m) /\ 2 * x + b = 2 * y + c
  BY TicketParts DEF fullTurn
<1>2. b = c /\ x = y
  BY ONLY <1>1, b \in {0, 1}, c \in {0, 1}, x \in Nat, y \in Nat
<1> QED
  BY <1>1, <1>2, SameTicket

\* And to one thread.
LEMMA SameThread ==
  ASSUME TypeInv, TicketInv, NEW t \in Threads, NEW u \in Threads,
         pc[t] \in Admitted, pc[u] \in Admitted, place(ticket[t]) = place(ticket[u]),
         fullTurn(sideOf(t), ticket[t]) = fullTurn(sideOf(u), ticket[u])
  PROVE  t = u
<1>1. ticket[t] \in Nat /\ ticket[u] \in Nat
  BY DEF TypeInv
<1>2. sideOf(t) = sideOf(u) /\ ticket[t] = ticket[u]
  BY <1>1, FullTurnType, SameTurn
<1>3. t \in Writers <=> u \in Writers
  BY <1>2 DEF sideOf
<1> QED
  BY <1>2, <1>3 DEF TicketInv

\* The ticket j rounds earlier at the same slot.
LEMMA EarlierTicket ==
  ASSUME NEW k \in Nat, NEW j \in Nat, j <= round(k)
  PROVE  /\ k - Capacity * j \in Nat
         /\ place(k - Capacity * j) = place(k)
         /\ round(k - Capacity * j) = round(k) - j
<1>1. PICK n \in Nat, r \in 0 .. Capacity - 1 : n = round(k) /\ r = k % Capacity /\ k = Capacity * n + r
  BY TicketParts
<1>2. PICK e \in Nat : e = n - j
  BY <1>1
<1>3. k - Capacity * j = Capacity * e + r
  <2>1. Capacity * (n - j) = Capacity * n - Capacity * j
    BY CapacityAssumption
  <2>2. PICK x \in Int, y \in Int : x = Capacity * n /\ y = Capacity * j
    BY CapacityAssumption
  <2>3. Capacity * e = x - y /\ k = x + r
    BY <1>1, <1>2, <2>1, <2>2, Zenon
  <2> QED
    BY ONLY <2>2, <2>3, x \in Int, y \in Int, r \in 0 .. Capacity - 1, CapacityAssumption
<1>4. /\ Capacity * e + r \in Nat
      /\ round(Capacity * e + r) = e
      /\ (Capacity * e + r) % Capacity = r
  BY RoundUnique
<1>5. k - Capacity * j \in Nat /\ round(k - Capacity * j) = e /\ (k - Capacity * j) % Capacity = r
  BY <1>3, <1>4
<1> QED
  BY <1>1, <1>2, <1>5, SamePlace

\* A ticket that is held, or is the next to be drawn, is not mistaken for one of
\* another round: all the calls of its side in between would be waiting at the
\* slot, and there are not so many threads.
LEMMA NoAlias ==
  ASSUME TypeInv, TicketInv, NEW R \in [Slots -> Nat], OpenInv(R), NEW t \in Threads, NEW k \in Nat,
         \/ pc[t] \in Admitted /\ ticket[t] = k
         \/ pc[t] \notin Admitted /\ k = dispenser(t),
         fullTurn(sideOf(t), k) % TurnSpan = R[place(k)] % TurnSpan
  PROVE  R[place(k)] = fullTurn(sideOf(t), k)
<1>1. PICK b \in {0, 1} : b = sideOf(t)
  BY FullTurnType
<1>2. PICK h \in Nat \ {0} : TurnSpan = 2 * h
  <2>1. TurnSpan \div 2 \in Int /\ TurnSpan = 2 * (TurnSpan \div 2) + (TurnSpan % 2)
    BY Division, CapacityAssumption
  <2> QED
    BY <2>1, CapacityAssumption
<1>3. PICK S : /\ \A u \in Threads : u \in S <=> sideOf(u) = b
               /\ S \subseteq Threads /\ IsFiniteSet(S) /\ Cardinality(S) \in Nat /\ Cardinality(S) <= h
  <2>1. CASE b = 0
    <3>1. Cardinality(Writers) \in Nat
      BY ThreadsAssumption, FS_CardinalityType
    <3> QED
      BY <1>2, <2>1, <3>1, ThreadsAssumption, TurnsAssumption DEF sideOf, Threads
  <2>2. CASE b = 1
    <3>1. Cardinality(Readers) \in Nat
      BY ThreadsAssumption, FS_CardinalityType
    <3> QED
      BY <1>2, <2>2, <3>1, ThreadsAssumption, TurnsAssumption DEF sideOf, Threads
  <2> QED
    BY <2>1, <2>2
<1>4. PICK U \in Nat, r \in Nat : U = fullTurn(b, k) /\ r = R[place(k)]
  BY FullTurnType, PlaceType
<1>5. k <= drawn(b) /\ drawn(b) = dispenser(t) /\ drawn(b) \in Nat
  <2>1. drawn(b) = dispenser(t)
    BY <1>1 DEF drawn, dispenser, sideOf
  <2>2. dispenser(t) \in Nat
    BY DispenserType
  <2>3. pc[t] \in Admitted => ticket[t] < dispenser(t)
    BY DEF TicketInv
  <2> QED
    BY <2>1, <2>2, <2>3
<1>6. U >= r
  <2>1. k >= drawn(b) \/ Held(b, k)
    BY <1>1, <1>5 DEF Held
  <2> QED
    BY <1>4, <2>1 DEF OpenInv
<1>7. U = r \/ U >= r + 2 * h
  <2>0. U \in Int /\ r \in Int /\ TurnSpan \in Nat \ {0} /\ U % TurnSpan = r % TurnSpan
    BY <1>1, <1>4, CapacityAssumption
  <2>1. PICK q \in Int, e \in 0 .. TurnSpan - 1 : U % TurnSpan = e /\ U = TurnSpan * q + e
    BY ONLY <2>0, Division, Zenon
  <2>2. PICK p \in Int : r = TurnSpan * p + e
    <3>1. r \div TurnSpan \in Int /\ r = TurnSpan * (r \div TurnSpan) + (r % TurnSpan)
      BY ONLY <2>0, Division, Zenon
    <3> QED
      BY ONLY <2>0, <2>1, <3>1, Zenon
  <2>3. U - r = TurnSpan * (q - p)
    BY <2>1, <2>2, CapacityAssumption
  <2>4. CASE q - p >= 1
    <3>1. TurnSpan * (q - p) >= TurnSpan
      BY <2>4, CapacityAssumption
    <3> QED
      BY <1>2, <2>3, <3>1
  <2>5. CASE q = p
    BY <2>3, <2>5, CapacityAssumption
  <2>6. CASE q - p <= -1
    <3>1. TurnSpan * (q - p) <= -TurnSpan
      BY <2>6, CapacityAssumption
    <3> QED
      BY <1>6, <2>3, <3>1, CapacityAssumption
  <2> QED
    BY <2>4, <2>5, <2>6
<1>8. ASSUME U >= r + 2 * h PROVE FALSE
  <2>1. ASSUME NEW j \in 1 .. h
        PROVE  \E u \in S \ {t} : pc[u] \in Admitted /\ ticket[u] = k - Capacity * j
    <3>1. PICK n \in Nat : n = round(k) /\ U = 2 * n + b
      BY <1>4, TicketParts DEF fullTurn
    <3>2. j \in Nat /\ j >= 1 /\ j <= n /\ 2 * (n - j) + b >= r
      BY <1>8, <3>1
    <3>3. /\ k - Capacity * j \in Nat /\ place(k - Capacity * j) = place(k)
          /\ round(k - Capacity * j) = n - j
      BY <3>1, <3>2, EarlierTicket
    <3>4. k - Capacity * j < k
      BY <3>2, CapacityAssumption
    <3>5. PICK m \in Nat : m = k - Capacity * j
      BY <3>3
    <3>6. fullTurn(b, m) >= R[place(m)]
      BY <1>4, <3>2, <3>3, <3>5 DEF fullTurn
    <3>7. ~(m >= drawn(b))
      BY <1>5, <3>4, <3>5
    <3>8. Held(b, m)
      BY <3>6, <3>7 DEF OpenInv
    <3>9. PICK u \in Threads : sideOf(u) = b /\ pc[u] \in Admitted /\ ticket[u] = m
      BY <3>8 DEF Held
    <3>10. u # t
      BY <3>4, <3>5, <3>9
    <3> QED
      BY <1>3, <3>5, <3>9, <3>10
  <2> DEFINE f == [j \in 1 .. h |-> CHOOSE u \in S \ {t} : pc[u] \in Admitted /\ ticket[u] = k - Capacity * j]
  <2>2. \A j \in 1 .. h : f[j] \in S \ {t} /\ ticket[f[j]] = k - Capacity * j
    BY <2>1
  <2>3. f \in [1 .. h -> S \ {t}]
    BY <2>2
  <2>4. IsFiniteSet(1 .. h) /\ Cardinality(1 .. h) = h
    <3>1. 1 \in Int /\ h \in Int /\ ~(1 > h) /\ h - 1 + 1 = h
      OBVIOUS
    <3> QED
      BY <3>1, FS_Interval, Zenon
  <2>5. IsFiniteSet(S \ {t}) /\ Cardinality(S \ {t}) = Cardinality(S) - 1
    BY <1>1, <1>3, FS_RemoveElement
  <2>6. Cardinality(S \ {t}) < Cardinality(1 .. h)
    BY <1>3, <2>4, <2>5
  <2> HIDE DEF f
  <2>7. PICK x \in 1 .. h, y \in 1 .. h : x # y /\ f[x] = f[y]
    BY <2>3, <2>4, <2>5, <2>6, FS_PigeonHole
  <2>8. k - Capacity * x = k - Capacity * y
    BY <2>2, <2>7
  <2>9. x = y
    BY <2>8, CapacityAssumption
  <2> QED
    BY <2>7, <2>9
<1> QED
  BY <1>1, <1>4, <1>7, <1>8

\* Among a round of tickets from k on each slot has one.
LEMMA FirstTicket ==
  ASSUME NEW s \in Slots, NEW k \in Nat
  PROVE  \E n \in k .. k + Capacity - 1 : place(n) = s
<1>1. PICK n \in Nat, e \in 0 .. Capacity - 1 : n = round(k) /\ k = Capacity * n + e
  BY TicketParts
<1>2. PICK m \in Nat : place(m) = s /\ round(m) = n
  BY TicketOf
<1>3. PICK l \in Nat : place(l) = s /\ round(l) = n + 1
  BY TicketOf
<1>4. PICK r \in 0 .. Capacity - 1 : r = m % Capacity /\ m = Capacity * n + r
  BY <1>2, TicketParts
<1>5. l = Capacity * (n + 1) + r
  BY <1>2, <1>3, <1>4, TicketParts, SamePlace
<1>6. l = m + Capacity
  <2>1. Capacity * (n + 1) = Capacity * n + Capacity
    BY CapacityAssumption
  <2>2. PICK x \in Int : x = Capacity * n
    BY CapacityAssumption
  <2> QED
    BY <1>4, <1>5, <2>1, <2>2, CapacityAssumption
<1>7. m < k + Capacity /\ k < m + Capacity
  <2>1. PICK x \in Int : x = Capacity * n
    BY CapacityAssumption
  <2> QED
    BY <1>1, <1>4, <2>1, CapacityAssumption
<1>8. m \in k .. k + Capacity - 1 \/ l \in k .. k + Capacity - 1
  BY <1>6, <1>7, CapacityAssumption
<1> QED
  BY <1>2, <1>3, <1>8

LEMMA AfterFirst ==
  ASSUME NEW k \in Nat, NEW n \in k .. k + Capacity - 1, NEW m \in Nat, place(m) = place(n)
  PROVE  m >= k <=> round(m) >= round(n)
<1>0. n \in Nat
  BY CapacityAssumption
<1>1. PICK x \in Nat, r \in 0 .. Capacity - 1 : x = round(n) /\ r = n % Capacity /\ n = Capacity * x + r
  BY <1>0, TicketParts
<1>2. PICK y \in Nat : y = round(m) /\ m = Capacity * y + r
  BY <1>0, <1>1, TicketParts, SamePlace
<1>3. y >= x => Capacity * y >= Capacity * x
  BY CapacityAssumption
<1>4. y <= x - 1 => Capacity * y <= Capacity * x - Capacity
  BY CapacityAssumption
<1>5. PICK cx \in Int, cy \in Int : cx = Capacity * x /\ cy = Capacity * y
  BY CapacityAssumption
<1>6. y >= x => m >= k
  BY <1>1, <1>2, <1>3, <1>5, CapacityAssumption
<1>7. y <= x - 1 => m < k
  BY <1>1, <1>2, <1>4, <1>5, CapacityAssumption
<1> QED
  BY <1>1, <1>2, <1>6, <1>7

LEMMA RoundInit ==
  ASSUME Init, TypeInv
  PROVE  \E R \in [Slots -> Nat] : RoundInv(R)
<1>0. PICK start \in Nat : start = scenario.start /\ pushTicket = start /\ popTicket = start
  BY ScenarioType DEF Init
<1> DEFINE first(s) == CHOOSE n \in start .. start + Capacity - 1 : place(n) = s
           R == [s \in Slots |-> 2 * round(first(s))]
<1>1. \A s \in Slots : first(s) \in start .. start + Capacity - 1 /\ place(first(s)) = s
  BY FirstTicket
<1> HIDE DEF first
<1>2. \A s \in Slots : first(s) \in Nat /\ round(first(s)) \in Nat
  <2>1. start .. start + Capacity - 1 \subseteq Nat
    BY CapacityAssumption
  <2> QED
    BY <1>1, <2>1, TicketParts
<1>3. R \in [Slots -> Nat] /\ \A s \in Slots : R[s] = 2 * round(first(s))
  BY <1>2
<1>4. \A t \in Threads : pc[t] = "idle"
  BY DEF Init
<1> HIDE DEF R
<1>5. SequencerInv(R)
  <2> SUFFICES ASSUME NEW s \in Slots PROVE sequencer[s] = R[s] % TurnSpan
    BY DEF SequencerInv
  <2>1. sequencer[s] = nextTurn(s, start)
    BY <1>0 DEF Init
  <2>2. nextTurn(s, start) = pushTurn(first(s))
    BY DEF nextTurn, first
  <2> QED
    BY <1>3, <2>1, <2>2 DEF pushTurn, round
<1>6. OpenInv(R)
  <2> SUFFICES ASSUME NEW b \in {0, 1}, NEW k \in Nat
               PROVE  fullTurn(b, k) >= R[place(k)] <=> k >= drawn(b) \/ Held(b, k)
    BY DEF OpenInv
  <2>1. drawn(b) = start /\ ~Held(b, k)
    BY <1>0, <1>4 DEF drawn, Held, Admitted
  <2>2. place(k) \in Slots
    BY PlaceType
  <2>3. PICK n \in start .. start + Capacity - 1 : n = first(place(k)) /\ place(n) = place(k)
    BY <1>1, <2>2
  <2>4. k >= start <=> round(k) >= round(n)
    BY <2>3, AfterFirst
  <2>5. PICK x \in Nat, y \in Nat : x = round(k) /\ y = round(n) /\ R[place(k)] = 2 * y
    BY <1>2, <1>3, <2>2, <2>3, TicketParts
  <2>6. 2 * x + b >= 2 * y <=> x >= y
    BY ONLY x \in Nat, y \in Nat, b \in {0, 1}
  <2> QED
    BY <2>1, <2>4, <2>5, <2>6 DEF fullTurn
<1>7. InsideInv(R) /\ ReadyInv(R)
  BY <1>4 DEF InsideInv, ReadyInv
<1>8. ContentsInv(R)
  <2>1. \A s \in Slots : contents[s] = Nothing /\ ~Busy(s)
    BY <1>4 DEF Busy, Init
  <2>2. \A s \in Slots : R[s] % 2 = 0
    BY <1>2, <1>3
  <2> QED
    BY <2>1, <2>2, PlaceType DEF ContentsInv
<1> QED
  BY <1>3, <1>5, <1>6, <1>7, <1>8 DEF RoundInv

\* Whose turn a sequencer shows is alone at the slot.
LEMMA TurnReached ==
  ASSUME TypeInv, TicketInv, NEW R \in [Slots -> Nat], RoundInv(R), NEW t \in Threads,
         pc[t] = "turn", isTurn(t, ticket[t])
  PROVE  R[place(ticket[t])] = fullTurn(sideOf(t), ticket[t]) /\ ~Busy(place(ticket[t]))
<1>1. ticket[t] \in Nat /\ place(ticket[t]) \in Slots
  BY PlaceType DEF TypeInv
<1>2. fullTurn(sideOf(t), ticket[t]) % TurnSpan = R[place(ticket[t])] % TurnSpan
  <2>1. turnOf(t, ticket[t]) = fullTurn(sideOf(t), ticket[t]) % TurnSpan
    BY DEF turnOf, fullTurn, sideOf, round
  <2> QED
    BY <1>1, <2>1 DEF RoundInv, SequencerInv, isTurn
<1>3. R[place(ticket[t])] = fullTurn(sideOf(t), ticket[t])
  <2>1. pc[t] \in Admitted
    BY DEF Admitted
  <2> QED
    BY <1>1, <1>2, <2>1, NoAlias DEF RoundInv
<1>4. ASSUME NEW u \in Threads, pc[u] = "complete", place(ticket[u]) = place(ticket[t]) PROVE FALSE
  <2>1. R[place(ticket[u])] = fullTurn(sideOf(u), ticket[u])
    BY <1>4 DEF RoundInv, InsideInv
  <2>2. u = t
    BY <1>3, <1>4, <2>1, SameThread DEF Admitted
  <2> QED
    BY <1>4, <2>2
<1> QED
  BY <1>3, <1>4 DEF Busy

\* What a step that leaves the slots and the holders of tickets alone preserves.
LEMMA SlotsKept ==
  ASSUME TypeInv, NEW R \in [Slots -> Nat], RoundInv(R), UNCHANGED <<sequencer, contents, scenario>>,
         \A b \in {0, 1}, k \in Nat : (k >= drawn(b) \/ Held(b, k))' <=> k >= drawn(b) \/ Held(b, k),
         \A t \in Threads : pc'[t] = "complete" <=> pc[t] = "complete",
         \A t \in Threads : pc[t] = "complete" => ticket'[t] = ticket[t]
  PROVE  SequencerInv(R)' /\ OpenInv(R)' /\ InsideInv(R)' /\ ContentsInv(R)'
<1>1. SequencerInv(R)'
  BY DEF RoundInv, SequencerInv
<1>2. OpenInv(R)'
  BY DEF RoundInv, OpenInv
<1>3. InsideInv(R)'
  BY DEF RoundInv, InsideInv
<1>4. \A s \in Slots : Busy(s)' <=> Busy(s)
  BY DEF Busy
<1>5. ContentsInv(R)'
  BY <1>4 DEF RoundInv, ContentsInv
<1> QED
  BY <1>1, <1>2, <1>3, <1>5

LEMMA RoundPrepares ==
  ASSUME TypeInv, TicketInv, NEW R \in [Slots -> Nat], RoundInv(R), NEW t \in Threads, Prepares(t)
  PROVE  RoundInv(R)'
<1>1. PICK p \in Preparing, w \in {"none", "blocking", "ready", "promised", "until"},
           k \in Nat, i \in Nat \cup {Nothing} :
        /\ pc' = [pc EXCEPT ![t] = p] /\ way' = [way EXCEPT ![t] = w]
        /\ ticket' = [ticket EXCEPT ![t] = k]
        /\ p = "cas" /\ w = "ready" => isTurn(t, k)
  BY ZenonT(30) DEF Prepares
<1>2. UNCHANGED <<pushTicket, popTicket, sequencer, contents, scenario>> /\ pc[t] \in Preparing
  BY DEF Prepares, counters, slots
<1>3. \A u \in Threads \ {t} : pc'[u] = pc[u] /\ ticket'[u] = ticket[u] /\ way'[u] = way[u]
  BY <1>1 DEF TypeInv
<1>4. pc'[t] = p /\ ticket'[t] = k /\ way'[t] = w /\ p \notin Admitted /\ pc[t] \notin Admitted
  BY <1>1, <1>2 DEF TypeInv, Preparing, Admitted
<1>5. \A u \in Threads : dispenser(u)' = dispenser(u)
  BY <1>2 DEF dispenser
<1>6. \A b \in {0, 1}, l \in Nat : (l >= drawn(b) \/ Held(b, l))' <=> l >= drawn(b) \/ Held(b, l)
  BY <1>2, <1>3, <1>4 DEF drawn, Held
<1>7. \A u \in Threads : pc'[u] = "complete" <=> pc[u] = "complete"
  BY <1>3, <1>4 DEF Admitted
<1>8. \A u \in Threads : pc[u] = "complete" => ticket'[u] = ticket[u]
  BY <1>3, <1>4 DEF Admitted
<1>9. ReadyInv(R)'
  <2> SUFFICES ASSUME NEW u \in Threads, way'[u] = "ready",
                      pc'[u] = "turn" \/ (pc'[u] = "cas" /\ ticket'[u] = dispenser(u)')
               PROVE  R[place(ticket'[u])] = fullTurn(sideOf(u), ticket'[u])
    BY DEF ReadyInv
  <2>1. CASE u # t
    BY <1>3, <1>5, <2>1 DEF RoundInv, ReadyInv
  <2>2. CASE u = t
    <3>1. p = "cas" /\ w = "ready" /\ k = dispenser(t) /\ isTurn(t, k)
      BY <1>1, <1>4, <1>5, <2>2 DEF Admitted
    <3>2. turnOf(t, k) = fullTurn(sideOf(t), k) % TurnSpan
      BY DEF turnOf, fullTurn, sideOf, round
    <3>3. sequencer[place(k)] = R[place(k)] % TurnSpan
      BY PlaceType DEF RoundInv, SequencerInv
    <3>4. fullTurn(sideOf(t), k) % TurnSpan = R[place(k)] % TurnSpan
      BY <3>1, <3>2, <3>3 DEF isTurn
    <3>5. R[place(k)] = fullTurn(sideOf(t), k)
      BY <1>4, <3>1, <3>4, NoAlias DEF RoundInv
    <3> QED
      BY <1>4, <2>2, <3>5
  <2> QED
    BY <2>1, <2>2
<1> QED
  BY <1>2, <1>6, <1>7, <1>8, <1>9, SlotsKept DEF RoundInv

LEMMA RoundDraws ==
  ASSUME TypeInv, TicketInv, NEW R \in [Slots -> Nat], RoundInv(R), NEW t \in Threads, Draws(t)
  PROVE  RoundInv(R)'
<1>1. \A u \in Threads \ {t} : pc'[u] = pc[u] /\ ticket'[u] = ticket[u] /\ way'[u] = way[u]
  BY DrawsEffect, SMTT(30) DEF TypeInv
<1>2. /\ pc[t] \in {"idle", "cas"} /\ pc'[t] = "turn" /\ ticket'[t] = dispenser(t)
      /\ pc[t] = "cas" => ticket[t] = dispenser(t) /\ way'[t] = way[t]
      /\ pc[t] = "idle" => way'[t] = "blocking"
  BY DrawsEffect DEF TypeInv
<1>3. PICK d \in {0, 1} : /\ sideOf(t) = d /\ dispenser(t) = drawn(d) /\ drawn(d)' = drawn(d) + 1
                          /\ drawn(1 - d)' = drawn(1 - d)
  BY DrawsEffect DEF sideOf, drawn, dispenser
<1>4. \A b \in {0, 1} : drawn(b) \in Nat
  BY DEF drawn, TypeInv
<1>5. \A b \in {0, 1}, k \in Nat : Held(b, k)' <=> Held(b, k) \/ (b = d /\ k = drawn(d))
  BY <1>1, <1>2, <1>3 DEF Held, Admitted
<1>6. \A b \in {0, 1}, k \in Nat : (k >= drawn(b) \/ Held(b, k))' <=> k >= drawn(b) \/ Held(b, k)
  <2> SUFFICES ASSUME NEW b \in {0, 1}, NEW k \in Nat
               PROVE  (k >= drawn(b) \/ Held(b, k))' <=> k >= drawn(b) \/ Held(b, k)
    OBVIOUS
  <2>1. CASE b = d
    BY <1>3, <1>4, <1>5, <2>1
  <2>2. CASE b # d
    BY <1>3, <1>5, <2>2
  <2> QED
    BY <2>1, <2>2
<1>7. \A u \in Threads : /\ pc'[u] = "complete" <=> pc[u] = "complete"
                         /\ pc[u] = "complete" => ticket'[u] = ticket[u]
  BY <1>1, <1>2
<1>8. ReadyInv(R)'
  <2> SUFFICES ASSUME NEW u \in Threads, way'[u] = "ready",
                      pc'[u] = "turn" \/ (pc'[u] = "cas" /\ ticket'[u] = dispenser(u)')
               PROVE  R[place(ticket'[u])] = fullTurn(sideOf(u), ticket'[u])
    BY DEF ReadyInv
  <2>1. CASE u = t
    BY <1>2, <2>1 DEF RoundInv, ReadyInv
  <2>2. CASE u # t
    <3>1. pc[u] = "cas" => ticket[u] <= dispenser(u)
      BY DEF TicketInv, Preparing
    <3>2. dispenser(u) \in Nat /\ dispenser(u)' \in {dispenser(u), dispenser(u) + 1} /\ ticket[u] \in Nat
      BY DrawsEffect DEF dispenser, TypeInv
    <3>3. pc[u] = "cas" /\ ticket[u] = dispenser(u)' => ticket[u] = dispenser(u)
      BY <3>1, <3>2
    <3> QED
      BY <1>1, <2>2, <3>3 DEF RoundInv, ReadyInv
  <2> QED
    BY <2>1, <2>2
<1>9. UNCHANGED <<sequencer, contents, scenario>>
  BY DrawsEffect
<1> QED
  BY <1>6, <1>7, <1>8, <1>9, SlotsKept DEF RoundInv

LEMMA RoundUses ==
  ASSUME TypeInv, TicketInv, HistoryInv, NEW R \in [Slots -> Nat], RoundInv(R), NEW t \in Threads,
         Enqueue(t) \/ Dequeue(t)
  PROVE  RoundInv(R)'
<1>1. pc[t] = "turn" /\ isTurn(t, ticket[t]) /\ pc' = [pc EXCEPT ![t] = "complete"]
      /\ UNCHANGED <<pushTicket, popTicket, sequencer, way, ticket, scenario>>
  BY DEF Enqueue, Dequeue, Goto, counters, others
<1>2. PICK s \in Slots, k \in Nat : s = place(ticket[t]) /\ k = ticket[t]
  BY PlaceType DEF TypeInv
<1>3. R[s] = fullTurn(sideOf(t), k) /\ ~Busy(s)
  BY <1>1, <1>2, TurnReached
<1>4. \A u \in Threads \ {t} : pc'[u] = pc[u]
  BY <1>1 DEF TypeInv
<1>5. pc'[t] = "complete"
  BY <1>1 DEF TypeInv
<1>6. \A v \in Slots : Busy(v)' <=> Busy(v) \/ v = s
  BY <1>1, <1>2, <1>4, <1>5 DEF Busy
<1>7. SequencerInv(R)'
  BY <1>1 DEF RoundInv, SequencerInv
<1>8. OpenInv(R)'
  <2>1. \A b \in {0, 1}, l \in Nat : drawn(b)' = drawn(b) /\ (Held(b, l)' <=> Held(b, l))
    BY <1>1, <1>4, <1>5 DEF drawn, Held, Admitted
  <2> QED
    BY <2>1 DEF RoundInv, OpenInv
<1>9. InsideInv(R)'
  BY <1>1, <1>2, <1>3, <1>4 DEF RoundInv, InsideInv
<1>10. ReadyInv(R)'
  <2>1. \A u \in Threads : dispenser(u)' = dispenser(u)
    BY <1>1 DEF dispenser
  <2> QED
    BY <1>1, <1>4, <1>5, <2>1 DEF RoundInv, ReadyInv
<1>11. ContentsInv(R)'
  <2>1. CASE Enqueue(t)
    <3>1. t \in Writers /\ contents' = [contents EXCEPT ![s] = item[t]]
      BY <1>2, <2>1 DEF Enqueue
    <3>2. item[t] = k - scenario.start + 1 /\ item[t] # Nothing
      <4>1. item[t] = k - scenario.start + 1 /\ scenario.start <= k
        BY <1>1, <1>2, <3>1 DEF HistoryInv, Admitted
      <4>2. item[t] \in Nat
        BY <4>1, ScenarioType
      <4> QED
        BY <4>1, <4>2, ScenariosAssumption
    <3>3. R[s] = fullTurn(0, k)
      BY <1>3, <3>1 DEF sideOf
    <3>4. R[s] % 2 = 0
      BY <3>3, TicketParts DEF fullTurn
    <3>5. \A v \in Slots : contents'[v] = IF v = s THEN item[t] ELSE contents[v]
      BY <3>1 DEF TypeInv
    <3>6. \A v \in Slots : contents'[v] = Nothing <=> (R[v] % 2 = 0 <=> ~Busy(v)')
      <4> SUFFICES ASSUME NEW v \in Slots
                   PROVE  contents'[v] = Nothing <=> (R[v] % 2 = 0 <=> ~Busy(v)')
        OBVIOUS
      <4>1. CASE v = s
        BY <1>6, <3>2, <3>4, <3>5, <4>1
      <4>2. CASE v # s
        BY <1>6, <3>5, <4>2 DEF RoundInv, ContentsInv
      <4> QED
        BY <4>1, <4>2
    <3>7. ASSUME NEW l \in Nat, contents'[place(l)] # Nothing,
                 R[place(l)] \in {fullTurn(0, l), fullTurn(1, l)}
          PROVE  contents'[place(l)] = l - scenario.start + 1
      <4>1. place(l) \in Slots
        BY PlaceType
      <4>2. CASE place(l) # s
        BY <3>5, <3>7, <4>1, <4>2 DEF RoundInv, ContentsInv
      <4>3. CASE place(l) = s
        <5>1. l = k
          BY <1>2, <3>3, <3>7, <4>3, SameTurn
        <5> QED
          BY <3>2, <3>5, <4>1, <4>3, <5>1
      <4> QED
        BY <4>2, <4>3
    <3> QED
      BY <1>1, <3>6, <3>7 DEF ContentsInv
  <2>2. CASE Dequeue(t)
    <3>1. t \in Readers /\ t \notin Writers /\ contents' = [contents EXCEPT ![s] = Nothing]
      BY <1>2, <2>2, ThreadsAssumption DEF Dequeue
    <3>2. R[s] = fullTurn(1, k)
      BY <1>3, <3>1 DEF sideOf
    <3>3. R[s] % 2 # 0
      <4>1. PICK x \in Nat : x = round(k)
        BY TicketParts
      <4>2. R[s] = 2 * x + 1
        BY <3>2, <4>1 DEF fullTurn
      <4> QED
        BY <4>2
    <3>4. \A v \in Slots : contents'[v] = IF v = s THEN Nothing ELSE contents[v]
      BY <3>1 DEF TypeInv
    <3>5. \A v \in Slots : contents'[v] = Nothing <=> (R[v] % 2 = 0 <=> ~Busy(v)')
      BY <1>6, <3>3, <3>4 DEF RoundInv, ContentsInv
    <3>6. ASSUME NEW l \in Nat, contents'[place(l)] # Nothing,
                 R[place(l)] \in {fullTurn(0, l), fullTurn(1, l)}
          PROVE  contents'[place(l)] = l - scenario.start + 1
      BY <3>4, <3>6, PlaceType DEF RoundInv, ContentsInv
    <3> QED
      BY <1>1, <3>5, <3>6 DEF ContentsInv
  <2> QED
    BY <2>1, <2>2
<1> QED
  BY <1>7, <1>8, <1>9, <1>10, <1>11 DEF RoundInv

LEMMA RoundCompletes ==
  ASSUME TypeInv, TicketInv, NEW R \in [Slots -> Nat], RoundInv(R), NEW t \in Threads, Complete(t)
  PROVE  \E Q \in [Slots -> Nat] : RoundInv(Q)'
<1>1. PICK s \in Slots, k \in Nat, b \in {0, 1} : s = place(ticket[t]) /\ k = ticket[t] /\ b = sideOf(t)
  BY PlaceType, FullTurnType DEF TypeInv
<1>2. pc[t] = "complete" /\ UNCHANGED <<pushTicket, popTicket, contents, scenario>>
  BY DEF Complete, Return, Goto, counters, others
<1>3. \A u \in Threads \ {t} : pc'[u] = pc[u] /\ ticket'[u] = ticket[u] /\ way'[u] = way[u]
  BY DEF Complete, Return, Goto, TypeInv
<1>4. pc'[t] = "idle"
  BY DEF Complete, Return, Goto, TypeInv
<1>5. PICK U \in Nat : R[s] = U /\ U = fullTurn(b, k)
  BY <1>1, <1>2, FullTurnType DEF RoundInv, InsideInv
<1>6. PICK Q \in [Slots -> Nat] : Q = [R EXCEPT ![s] = U + 1]
  <2>1. U + 1 \in Nat
    OBVIOUS
  <2>2. [R EXCEPT ![s] = U + 1] \in [Slots -> Nat]
    BY <2>1
  <2> QED
    BY <2>2, Zenon
<1>7. Q[s] = U + 1 /\ \A v \in Slots \ {s} : Q[v] = R[v]
  BY <1>6
\* No other thread has this turn.
<1>8. \A u \in Threads \ {t} :
        pc[u] \in Admitted => place(ticket[u]) # s \/ fullTurn(sideOf(u), ticket[u]) # U
  BY <1>1, <1>2, <1>5, SameThread DEF Admitted
<1>9. SequencerInv(Q)'
  <2>1. sequencer' = [sequencer EXCEPT ![s] = (turnOf(t, k) + 1) % TurnSpan]
    BY <1>1 DEF Complete
  <2>2. turnOf(t, k) = U % TurnSpan
    BY <1>1, <1>5 DEF turnOf, fullTurn, sideOf, round
  <2>3. ((U % TurnSpan) + 1) % TurnSpan = (U + 1) % TurnSpan
    <3>0. U \in Int /\ TurnSpan \in Nat \ {0}
      BY CapacityAssumption
    <3>1. PICK q \in Int, e \in 0 .. TurnSpan - 1 : e = U % TurnSpan /\ U = TurnSpan * q + e
      BY ONLY <3>0, Division, Zenon
    <3>2. U + 1 = TurnSpan * q + (e + 1)
      <4>1. PICK x \in Int : x = TurnSpan * q
        BY CapacityAssumption
      <4> QED
        BY <3>1, <4>1
    <3>3. (TurnSpan * q + (e + 1)) % TurnSpan = (e + 1) % TurnSpan
      <4>1. e + 1 \in Int
        BY <3>0
      <4> QED
        BY ONLY <3>0, <4>1, q \in Int, MultipleVanishes, Zenon
    <3> QED
      BY <3>1, <3>2, <3>3
  <2> QED
    BY <1>7, <2>1, <2>2, <2>3 DEF RoundInv, SequencerInv, TypeInv
<1>10. OpenInv(Q)'
  <2> SUFFICES ASSUME NEW c \in {0, 1}, NEW l \in Nat
               PROVE  fullTurn(c, l) >= Q[place(l)] <=> l >= drawn(c)' \/ Held(c, l)'
    BY DEF OpenInv
  <2>1. drawn(c)' = drawn(c) /\ drawn(c) \in Nat
    BY <1>2 DEF drawn, TypeInv
  <2>2. fullTurn(c, l) >= R[place(l)] <=> l >= drawn(c) \/ Held(c, l)
    BY DEF RoundInv, OpenInv
  <2>3. place(l) \in Slots /\ fullTurn(c, l) \in Nat /\ R[place(l)] \in Nat
    BY PlaceType, FullTurnType
  <2>4. CASE c = b /\ l = k
    <3>1. ~(fullTurn(c, l) >= Q[place(l)])
      BY <1>1, <1>5, <1>7, <2>4
    <3>2. ~Held(c, l)'
      <4>1. ASSUME NEW u \in Threads, sideOf(u) = c, pc'[u] \in Admitted, ticket'[u] = l PROVE FALSE
        <5>1. u # t
          BY <1>4, <4>1 DEF Admitted
        <5>2. pc[u] \in Admitted /\ ticket[u] = l
          BY <1>3, <4>1, <5>1
        <5> QED
          BY <1>1, <1>5, <1>8, <2>4, <4>1, <5>1, <5>2
      <4> QED
        BY <4>1 DEF Held
    <3>3. ~(l >= drawn(c))
      <4>1. ticket[t] < dispenser(t)
        BY <1>2 DEF TicketInv, Admitted
      <4>2. drawn(c) = dispenser(t)
        BY <1>1, <2>4 DEF drawn, dispenser, sideOf
      <4> QED
        BY <1>1, <2>1, <2>4, <4>1, <4>2
    <3> QED
      BY <2>1, <3>1, <3>2, <3>3
  <2>5. CASE ~(c = b /\ l = k)
    <3>1. Held(c, l)' <=> Held(c, l)
      <4>1. ~(sideOf(t) = c /\ ticket[t] = l) /\ pc'[t] \notin Admitted
        BY <1>1, <1>4, <2>5 DEF Admitted
      <4> QED
        BY <1>3, <4>1 DEF Held
    <3>2. fullTurn(c, l) >= Q[place(l)] <=> fullTurn(c, l) >= R[place(l)]
      <4>1. CASE place(l) # s
        BY <1>7, <2>3, <4>1
      <4>2. CASE place(l) = s
        <5>1. fullTurn(c, l) # U
          BY <1>1, <1>5, <2>5, <4>2, SameTurn
        <5> QED
          BY <1>5, <1>7, <2>3, <4>2, <5>1
      <4> QED
        BY <4>1, <4>2
    <3> QED
      BY <2>1, <2>2, <3>1, <3>2
  <2> QED
    BY <2>4, <2>5
<1>11. InsideInv(Q)'
  <2> SUFFICES ASSUME NEW u \in Threads, pc'[u] = "complete"
               PROVE  Q[place(ticket'[u])] = fullTurn(sideOf(u), ticket'[u])
    BY DEF InsideInv
  <2>1. u # t /\ pc[u] = "complete" /\ ticket'[u] = ticket[u] /\ place(ticket[u]) \in Slots
    BY <1>3, <1>4, PlaceType DEF TypeInv
  <2>2. R[place(ticket[u])] = fullTurn(sideOf(u), ticket[u])
    BY <2>1 DEF RoundInv, InsideInv
  <2>3. place(ticket[u]) # s
    BY <1>5, <1>8, <2>1, <2>2 DEF Admitted
  <2> QED
    BY <1>7, <2>1, <2>2, <2>3
<1>12. ReadyInv(Q)'
  <2> SUFFICES ASSUME NEW u \in Threads, way'[u] = "ready",
                      pc'[u] = "turn" \/ (pc'[u] = "cas" /\ ticket'[u] = dispenser(u)')
               PROVE  Q[place(ticket'[u])] = fullTurn(sideOf(u), ticket'[u])
    BY DEF ReadyInv
  <2>1. u # t /\ way[u] = "ready" /\ pc'[u] = pc[u] /\ ticket'[u] = ticket[u] /\ dispenser(u)' = dispenser(u)
        /\ ticket[u] \in Nat /\ place(ticket[u]) \in Slots
    BY <1>2, <1>3, <1>4, PlaceType DEF TypeInv, dispenser
  <2>2. R[place(ticket[u])] = fullTurn(sideOf(u), ticket[u])
    BY <2>1 DEF RoundInv, ReadyInv
  <2>3. place(ticket[u]) # s
    <3>1. CASE pc[u] = "turn"
      BY <1>5, <1>8, <2>1, <2>2, <3>1 DEF Admitted
    <3>2. CASE pc[u] = "cas" /\ ticket[u] = dispenser(u) /\ place(ticket[u]) = s
      <4>0. /\ sideOf(u) \in {0, 1} /\ ticket[u] \in Nat
            /\ place(ticket[u]) = place(k)
            /\ fullTurn(sideOf(u), ticket[u]) = fullTurn(b, k)
        <5>1. place(ticket[u]) = place(k)
          BY <1>1, <3>2
        <5>2. fullTurn(sideOf(u), ticket[u]) = fullTurn(b, k)
          BY <1>5, <2>2, <3>2
        <5> QED
          BY <2>1, <5>1, <5>2, FullTurnType
      <4>1. sideOf(u) = b /\ ticket[u] = k
        BY ONLY <4>0, b \in {0, 1}, k \in Nat, SameTurn, Zenon
      <4>2. dispenser(u) = dispenser(t)
        BY <1>1, <4>1 DEF sideOf, dispenser
      <4>3. k < dispenser(t) /\ dispenser(t) \in Nat
        BY <1>1, <1>2, DispenserType DEF TicketInv, Admitted
      <4>4. k < k
        BY <3>2, <4>1, <4>2, <4>3, Zenon
      <4> QED
        BY <4>4
    <3> QED
      BY <2>1, <3>1, <3>2
  <2> QED
    BY <1>7, <2>1, <2>2, <2>3
<1>13. ContentsInv(Q)'
  <2>1. Busy(s) /\ ~Busy(s)'
    <3>1. Busy(s)
      BY <1>1, <1>2 DEF Busy
    <3>2. ASSUME NEW u \in Threads, pc'[u] = "complete", place(ticket'[u]) = s PROVE FALSE
      <4>1. u # t /\ pc[u] = "complete" /\ place(ticket[u]) = s
        BY <1>3, <1>4, <3>2
      <4>2. R[s] = fullTurn(sideOf(u), ticket[u])
        BY <4>1 DEF RoundInv, InsideInv
      <4> QED
        BY <1>5, <1>8, <4>1, <4>2 DEF Admitted
    <3> QED
      BY <3>1, <3>2 DEF Busy
  <2>2. \A v \in Slots \ {s} : Busy(v)' <=> Busy(v)
    BY <1>1, <1>3, <1>4 DEF Busy
  <2>3. U % 2 = 0 <=> ~((U + 1) % 2 = 0)
    BY ONLY U \in Nat
  <2>4. \A v \in Slots : contents'[v] = Nothing <=> (Q[v] % 2 = 0 <=> ~Busy(v)')
    <3> SUFFICES ASSUME NEW v \in Slots
                 PROVE  contents'[v] = Nothing <=> (Q[v] % 2 = 0 <=> ~Busy(v)')
      OBVIOUS
    <3>1. contents[v] = Nothing <=> (R[v] % 2 = 0 <=> ~Busy(v))
      BY DEF RoundInv, ContentsInv
    <3>2. CASE v = s
      BY <1>2, <1>5, <1>7, <2>1, <2>3, <3>1, <3>2
    <3>3. CASE v # s
      BY <1>2, <1>7, <2>2, <3>1, <3>3
    <3> QED
      BY <3>2, <3>3
  <2>5. ASSUME NEW l \in Nat, contents'[place(l)] # Nothing,
               Q[place(l)] \in {fullTurn(0, l), fullTurn(1, l)}
        PROVE  contents'[place(l)] = l - scenario'.start + 1
    <3>1. place(l) \in Slots
      BY PlaceType
    <3>2. R[place(l)] \in {fullTurn(0, l), fullTurn(1, l)}
      <4>1. CASE place(l) # s
        BY <1>7, <2>5, <3>1, <4>1
      <4>2. CASE place(l) = s
        \* The slot holds an item, so its turn is a pop now: it was the push of that round.
        <5>1. (U + 1) % 2 # 0
          BY <1>7, <2>1, <2>4, <2>5, <3>1, <4>2
        <5>2. PICK x \in Nat : x = round(l) /\ fullTurn(0, l) = 2 * x /\ fullTurn(1, l) = 2 * x + 1
          BY TicketParts DEF fullTurn
        <5>3. U + 1 = 2 * x + 1
          <6>1. U + 1 = 2 * x \/ U + 1 = 2 * x + 1
            BY <1>7, <2>5, <4>2, <5>2
          <6> QED
            BY <5>1, <6>1
        <5> QED
          BY <1>5, <4>2, <5>2, <5>3
      <4> QED
        BY <4>1, <4>2
    <3> QED
      BY <1>2, <2>5, <3>2 DEF RoundInv, ContentsInv
  <2> QED
    BY <2>4, <2>5 DEF ContentsInv
<1> QED
  BY <1>9, <1>10, <1>11, <1>12, <1>13 DEF RoundInv

---------------------------------------------------------------------------
(* The invariant of the queue, and what follows from it *)

QueueInv ==
  /\ TypeInv
  /\ TicketInv
  /\ HistoryInv
  /\ \E R \in [Slots -> Nat] : RoundInv(R)

LEMMA QueueInit == Init => QueueInv
<1> SUFFICES ASSUME Init PROVE QueueInv
  OBVIOUS
<1>1. scenario \in Scenarios /\ scenario.start \in Nat /\ pushTicket = scenario.start /\ popTicket = scenario.start
  BY ScenariosAssumption DEF Init
<1>2. \A t \in Threads : pc[t] = "idle"
  BY DEF Init
<1>3. TypeInv
  <2>1. sequencer \in [Slots -> 0 .. TurnSpan - 1]
    <3> SUFFICES ASSUME NEW s \in Slots PROVE nextTurn(s, scenario.start) \in 0 .. TurnSpan - 1
      BY DEF Init
    <3>1. PICK n \in Nat : nextTurn(s, scenario.start) = pushTurn(n)
      <4>1. scenario.start .. scenario.start + Capacity - 1 \subseteq Nat
        BY <1>1, CapacityAssumption
      <4>2. \E n \in scenario.start .. scenario.start + Capacity - 1 : place(n) = s
        BY <1>1, FirstTicket
      <4> QED
        BY <4>1, <4>2 DEF nextTurn
    <3>2. 2 * turn(n, Capacity) \in Int
      BY TicketParts DEF round
    <3> QED
      BY <3>1, <3>2, Division, CapacityAssumption DEF pushTurn
  <2> QED
    BY <1>1, <2>1 DEF TypeInv, Init, Preparing
<1>4. TicketInv
  BY <1>2 DEF TicketInv, Preparing, Admitted
<1>5. HistoryInv
  <2>1. pushed = <<>> /\ got = <<>> /\ Writers \subseteq Threads /\ Readers \subseteq Threads
    BY DEF Init, Threads
  <2> QED
    BY <1>1, <1>2, <2>1 DEF HistoryInv, Admitted
<1> QED
  BY <1>3, <1>4, <1>5, RoundInit DEF QueueInv

LEMMA QueueStep == QueueInv /\ [Next]_vars => QueueInv'
<1> SUFFICES ASSUME QueueInv, [Next]_vars PROVE QueueInv'
  OBVIOUS
<1> USE DEF QueueInv
<1>1. TypeInv' /\ TicketInv' /\ HistoryInv'
  BY TypeStep, TicketStep, HistoryStep
<1>2. PICK R \in [Slots -> Nat] : RoundInv(R)
  OBVIOUS
<1>3. ASSUME NEW t \in Threads, Prepares(t) PROVE RoundInv(R)'
  BY <1>2, <1>3, RoundPrepares
<1>4. ASSUME NEW t \in Threads, Draws(t) PROVE RoundInv(R)'
  BY <1>2, <1>4, RoundDraws
<1>5. ASSUME NEW t \in Threads, Enqueue(t) \/ Dequeue(t) PROVE RoundInv(R)'
  BY <1>2, <1>5, RoundUses
<1>6. ASSUME NEW t \in Threads, Complete(t) PROVE \E Q \in [Slots -> Nat] : RoundInv(Q)'
  BY <1>2, <1>6, RoundCompletes
<1>7. ASSUME UNCHANGED <<counters, slots, calls, history, scenario>> PROVE RoundInv(R)'
  <2>1. UNCHANGED <<pushTicket, popTicket, sequencer, contents, pc, way, ticket, scenario>>
    BY <1>7 DEF counters, slots, calls
  <2>2. \A b \in {0, 1}, k \in Nat : (k >= drawn(b) \/ Held(b, k))' <=> k >= drawn(b) \/ Held(b, k)
    BY <2>1 DEF drawn, Held
  <2>3. ReadyInv(R)'
    BY <1>2, <2>1 DEF RoundInv, ReadyInv, dispenser
  <2> QED
    BY <1>2, <2>1, <2>2, <2>3, SlotsKept DEF RoundInv
<1> QED
  BY <1>1, <1>3, <1>4, <1>5, <1>6, <1>7, StepKinds DEF TicketInv

LEMMA QueueInvariant == Spec => []QueueInv
<1> QED
  BY QueueInit, QueueStep, PTL DEF Spec

(***************************************************************************)
(* SlotExclusive: a slot that lets a writer in is empty, one that lets a   *)
(* reader in is not, and no two threads are inside a slot.                 *)
(***************************************************************************)
THEOREM SlotsExclusive == Spec => []SlotExclusive
<1>1. QueueInv => SlotExclusive
  <2> SUFFICES ASSUME QueueInv PROVE SlotExclusive
    OBVIOUS
  <2>1. PICK R \in [Slots -> Nat] : RoundInv(R)
    BY DEF QueueInv
  <2>2. ASSUME NEW t \in Threads, pc[t] = "turn", isTurn(t, ticket[t])
        PROVE  t \in Writers <=> contents[place(ticket[t])] = Nothing
    <3>1. R[place(ticket[t])] = fullTurn(sideOf(t), ticket[t]) /\ ~Busy(place(ticket[t]))
      BY <2>1, <2>2, TurnReached DEF QueueInv
    <3>2. PICK x \in Nat, b \in {0, 1} : b = sideOf(t) /\ R[place(ticket[t])] = 2 * x + b
      BY <3>1, TicketParts, FullTurnType DEF QueueInv, TypeInv, fullTurn
    <3>3. (2 * x + b) % 2 = 0 <=> b = 0
      BY ONLY x \in Nat, b \in {0, 1}
    <3>4. b = 0 <=> t \in Writers
      BY <3>2 DEF sideOf
    <3>5. contents[place(ticket[t])] = Nothing <=> (2 * x + b) % 2 = 0
      BY <2>1, <3>1, <3>2, PlaceType DEF RoundInv, ContentsInv, QueueInv, TypeInv
    <3> QED
      BY <3>3, <3>4, <3>5
  <2>3. ASSUME NEW t \in Threads, NEW u \in Threads, pc[t] = "complete", pc[u] = "complete",
               place(ticket[t]) = place(ticket[u])
        PROVE  t = u
    <3>1. fullTurn(sideOf(t), ticket[t]) = fullTurn(sideOf(u), ticket[u])
      BY <2>1, <2>3 DEF RoundInv, InsideInv
    <3> QED
      BY <2>3, <3>1, SameThread DEF QueueInv, Admitted
  <2> QED
    BY <2>2, <2>3 DEF SlotExclusive
<1> QED
  BY <1>1, QueueInvariant, PTL

(***************************************************************************)
(* ReadyNeverWaits: the slot that write() or read() found ready before the *)
(* compare-exchange is ready after it, so they do not wait.                *)
(***************************************************************************)
THEOREM ReadyCallsGoOn == Spec => []ReadyNeverWaits
<1>1. QueueInv => ReadyNeverWaits
  <2> SUFFICES ASSUME QueueInv, NEW t \in Threads, pc[t] = "turn", way[t] = "ready"
               PROVE  isTurn(t, ticket[t])
    BY DEF ReadyNeverWaits
  <2>1. PICK R \in [Slots -> Nat] : RoundInv(R)
    BY DEF QueueInv
  <2>2. R[place(ticket[t])] = fullTurn(sideOf(t), ticket[t])
    BY <2>1 DEF RoundInv, ReadyInv
  <2>3. sequencer[place(ticket[t])] = R[place(ticket[t])] % TurnSpan
    BY <2>1, PlaceType DEF RoundInv, SequencerInv, QueueInv, TypeInv
  <2>4. turnOf(t, ticket[t]) = fullTurn(sideOf(t), ticket[t]) % TurnSpan
    BY DEF turnOf, fullTurn, sideOf, round
  <2> QED
    BY <2>2, <2>3, <2>4 DEF isTurn
<1> QED
  BY <1>1, QueueInvariant, PTL

\* A call that was not refused has found room for its ticket, or an item: the
\* counters only grow, so it still does when the compare-exchange succeeds.
PromiseInv ==
  \A t \in Threads :
    pc[t] \in {"cas", "turn"} /\ way[t] \in {"promised", "until"} =>
      IF t \in Writers THEN ticket[t] < popTicket + Capacity ELSE ticket[t] < pushTicket

LEMMA PromiseStep == QueueInv /\ PromiseInv /\ [Next]_vars => PromiseInv'
<1> SUFFICES ASSUME QueueInv, PromiseInv, [Next]_vars PROVE PromiseInv'
  OBVIOUS
<1>0. TypeInv /\ TicketInv
  BY DEF QueueInv
<1>1. ASSUME NEW t \in Threads, Prepares(t) PROVE PromiseInv'
  <2>1. PICK p \in Preparing, w \in {"none", "blocking", "ready", "promised", "until"},
             k \in Nat, i \in Nat \cup {Nothing} :
          /\ pc' = [pc EXCEPT ![t] = p] /\ way' = [way EXCEPT ![t] = w]
          /\ ticket' = [ticket EXCEPT ![t] = k]
          /\ p = "cas" /\ w \in {"promised", "until"} => ~Refused(t, k)
    BY <1>1, ZenonT(30) DEF Prepares
  <2>2. UNCHANGED <<pushTicket, popTicket>>
    BY <1>1 DEF Prepares, counters
  <2>3. \A u \in Threads \ {t} : pc'[u] = pc[u] /\ ticket'[u] = ticket[u] /\ way'[u] = way[u]
    BY <1>0, <2>1 DEF TypeInv
  <2>4. pc'[t] = p /\ p # "turn" /\ ticket'[t] = k /\ way'[t] = w
    BY <1>0, <2>1 DEF TypeInv, Preparing
  <2>5. ~Refused(t, k) => IF t \in Writers THEN k < popTicket + Capacity ELSE k < pushTicket
    BY <1>0, CapacityAssumption DEF Refused, Full, Empty, TypeInv
  <2> QED
    BY <2>1, <2>2, <2>3, <2>4, <2>5 DEF PromiseInv
<1>2. ASSUME NEW t \in Threads, Draws(t) PROVE PromiseInv'
  <2>1. \A u \in Threads \ {t} : pc'[u] = pc[u] /\ ticket'[u] = ticket[u] /\ way'[u] = way[u]
    BY <1>0, <1>2, DrawsEffect DEF TypeInv
  <2>2. /\ pc[t] \in {"idle", "cas"} /\ ticket'[t] = dispenser(t)
        /\ pc[t] = "cas" => ticket[t] = dispenser(t) /\ way'[t] = way[t]
        /\ pc[t] = "idle" => way'[t] = "blocking"
    BY <1>0, <1>2, DrawsEffect DEF TypeInv
  <2>3. /\ pushTicket \in Nat /\ popTicket \in Nat
        /\ pushTicket' \in {pushTicket, pushTicket + 1} /\ popTicket' \in {popTicket, popTicket + 1}
    BY <1>0, <1>2, DrawsEffect DEF TypeInv
  <2>4. \A u \in Threads : ticket[u] \in Nat
    BY <1>0 DEF TypeInv
  <2> SUFFICES ASSUME NEW u \in Threads, pc'[u] \in {"cas", "turn"}, way'[u] \in {"promised", "until"}
               PROVE  IF u \in Writers THEN ticket'[u] < popTicket' + Capacity ELSE ticket'[u] < pushTicket'
    BY DEF PromiseInv
  <2>5. pc[u] \in {"cas", "turn"} /\ way[u] \in {"promised", "until"} /\ ticket'[u] = ticket[u]
    BY <2>1, <2>2
  <2>6. IF u \in Writers THEN ticket[u] < popTicket + Capacity ELSE ticket[u] < pushTicket
    BY <2>5 DEF PromiseInv
  <2> QED
    BY <2>3, <2>4, <2>5, <2>6, CapacityAssumption
<1>3. ASSUME NEW t \in Threads, Enqueue(t) \/ Dequeue(t) \/ Complete(t) PROVE PromiseInv'
  <2>1. UNCHANGED <<pushTicket, popTicket>> /\ pc'[t] \in {"idle", "complete"}
    BY <1>0, <1>3 DEF Enqueue, Dequeue, Complete, Return, Goto, counters, TypeInv
  <2>2. \A u \in Threads \ {t} : pc'[u] = pc[u] /\ ticket'[u] = ticket[u] /\ way'[u] = way[u]
    BY <1>0, <1>3 DEF Enqueue, Dequeue, Complete, Return, Goto, TypeInv
  <2> QED
    BY <2>1, <2>2 DEF PromiseInv
<1>4. CASE UNCHANGED <<counters, slots, calls, history, scenario>>
  BY <1>4 DEF counters, calls, PromiseInv
<1> QED
  BY <1>0, <1>1, <1>2, <1>3, <1>4, StepKinds DEF TicketInv

(***************************************************************************)
(* PromiseKept: a promised ticket waits only for a call that has drawn its *)
(* ticket already.                                                         *)
(***************************************************************************)
THEOREM PromisesKept == Spec => []PromiseKept
<1>1. Init => PromiseInv
  BY DEF Init, PromiseInv
<1>2. PromiseInv => PromiseKept
  BY DEF PromiseInv, PromiseKept
<1> QED
  BY <1>1, <1>2, QueueInvariant, PromiseStep, PTL DEF Spec

(***************************************************************************)
(* RefusalJustified: writeIfNotFull and readIfNotEmpty fail only when the  *)
(* queue is full or empty.  The ticket they compare may be stale, but it   *)
(* is not ahead of its counter.                                            *)
(***************************************************************************)
THEOREM RefusalsJustified == Spec => RefusalJustified
<1>1. ASSUME QueueInv, [Next]_vars
      PROVE  [\A t \in Threads :
                way[t] = "promised" /\ pc[t] = "check" /\ pc'[t] = "idle" =>
                  IF t \in Writers THEN pushTicket - popTicket >= Capacity ELSE popTicket >= pushTicket]_vars
  <2> SUFFICES ASSUME NEW t \in Threads, way[t] = "promised", pc[t] = "check", pc'[t] = "idle"
               PROVE  IF t \in Writers THEN pushTicket - popTicket >= Capacity ELSE popTicket >= pushTicket
    OBVIOUS
  <2>0. TypeInv /\ TicketInv
    BY <1>1 DEF QueueInv
  \* It is a step of t ...
  <2>1. ASSUME NEW u \in Threads, NEW from, NEW to, Goto(u, from, to) PROVE u = t /\ from = "check" /\ to = "idle"
    BY <2>0, <2>1 DEF Goto, TypeInv
  <2>2. ASSUME NEW u \in Threads, CheckPromised(u) PROVE u = t /\ Refused(u, ticket[u])
    <3>1. \E to \in {"cas", "idle", "wait"} : Goto(u, "check", to)
      BY <2>2 DEF CheckPromised, Return
    <3>2. CASE ~Refused(u, ticket[u]) /\ Goto(u, "check", "cas")
      BY <2>1, <3>2
    <3> QED
      BY <2>1, <2>2, <3>1, <3>2 DEF CheckPromised
  \* ... and no other one.
  <2>3. ASSUME NEW u \in Threads, Blocking(u) PROVE FALSE
    BY <2>1, <2>3 DEF Blocking, Draw
  <2>4. ASSUME NEW u \in Threads, NEW w, Begin(u, w) PROVE FALSE
    BY <2>1, <2>4 DEF Begin
  <2>5. ASSUME NEW u \in Threads, CheckReady(u) PROVE FALSE
    BY <2>1, <2>5 DEF CheckReady
  <2>6. ASSUME NEW u \in Threads, Recheck(u) PROVE FALSE
    BY <2>1, <2>6 DEF Recheck, Return
  <2>7. ASSUME NEW u \in Threads, TurnArrived(u) PROVE FALSE
    BY <2>1, <2>7 DEF TurnArrived
  <2>8. ASSUME NEW u \in Threads, Cas(u) PROVE FALSE
    BY <2>1, <2>8 DEF Cas, Draw
  <2>9. ASSUME NEW u \in Threads, Enqueue(u) \/ Dequeue(u) PROVE FALSE
    BY <2>1, <2>9 DEF Enqueue, Dequeue
  <2>10. ASSUME NEW u \in Threads, Complete(u) \/ Deadline(u) PROVE FALSE
    BY <2>1, <2>10 DEF Complete, Deadline, Return
  <2>11. SizeStep \/ UNCHANGED vars => pc' = pc
    BY DEF SizeStep, SizeA, SizeB, SizeC, SizeD, SizeLoad, calls, vars
  <2>12. Refused(t, ticket[t])
    BY <1>1, <2>2, <2>3, <2>4, <2>5, <2>6, <2>7, <2>8, <2>9, <2>10, <2>11 DEF Next, Step
  <2>13. ticket[t] <= dispenser(t)
    BY <2>0 DEF TicketInv, Preparing
  <2>14. ticket[t] \in Nat /\ pushTicket \in Nat /\ popTicket \in Nat
    BY <2>0 DEF TypeInv
  <2> QED
    BY <2>12, <2>13, <2>14, CapacityAssumption DEF Refused, Full, Empty, dispenser
<1> QED
  BY <1>1, QueueInvariant, PTL DEF Spec, RefusalJustified

---------------------------------------------------------------------------
(* size() *)

\* Since its last load, size() knows what the counters were then: was + pops or
\* pushes - was is the counter it did not load.
SizeInv ==
  /\ spc \in {"idle", "B", "C", "D"}
  /\ pushes \in Nat /\ pops \in Nat /\ was \in Int
  /\ spc # "idle" => pushes <= pushTicket
  /\ spc \in {"C", "D"} => pops <= popTicket
  /\ spc = "C" => pushes <= was + pops /\ was + pops <= pushTicket
  /\ spc = "D" => pops <= pushes - was /\ pushes - was <= popTicket

LEMMA SizeStepInv == QueueInv /\ SizeInv /\ [Next]_vars => SizeInv'
<1> SUFFICES ASSUME QueueInv, SizeInv, [Next]_vars PROVE SizeInv'
  OBVIOUS
<1>0. pushTicket \in Nat /\ popTicket \in Nat
  BY DEF QueueInv, TypeInv
<1> USE DEF SizeInv
<1>1. CASE SizeA
  BY <1>0, <1>1 DEF SizeA, SizeLoad, LoadPushes, counters
<1>2. CASE SizeB
  BY <1>0, <1>2 DEF SizeB, SizeLoad, LoadPops, counters
<1>3. CASE SizeC
  BY <1>0, <1>3 DEF SizeC, SizeLoad, LoadPushes, counters
<1>4. CASE SizeD
  BY <1>0, <1>4 DEF SizeD, SizeLoad, LoadPops, counters
<1>5. CASE UNCHANGED <<spc, pushes, pops, was>>
  <2>1. pushTicket' \in {pushTicket, pushTicket + 1} /\ popTicket' \in {popTicket, popTicket + 1}
    <3>1. ASSUME NEW t \in Threads, Draws(t)
          PROVE  pushTicket' \in {pushTicket, pushTicket + 1} /\ popTicket' \in {popTicket, popTicket + 1}
      BY <3>1, DrawsEffect DEF QueueInv
    <3>2. ASSUME NEW t \in Threads, Prepares(t) \/ Enqueue(t) \/ Dequeue(t) \/ Complete(t)
          PROVE  UNCHANGED <<pushTicket, popTicket>>
      BY <3>2 DEF Prepares, Enqueue, Dequeue, Complete, counters
    <3>3. UNCHANGED counters => UNCHANGED <<pushTicket, popTicket>>
      BY DEF counters
    <3> QED
      BY <3>1, <3>2, <3>3, StepKinds DEF QueueInv, TicketInv
  <2> QED
    BY <1>0, <1>5, <2>1
<1>6. ASSUME NEW t \in Threads, Blocking(t) \/ (\E w \in scenario.ways : Begin(t, w)) \/ Step(t) \/ Deadline(t)
      PROVE  UNCHANGED <<spc, pushes, pops, was>>
  BY <1>6 DEF Blocking, Begin, Step, Deadline, CheckReady, Recheck, CheckPromised, TurnArrived, Cas,
              Enqueue, Dequeue, Complete, others
<1>7. UNCHANGED vars => UNCHANGED <<spc, pushes, pops, was>>
  BY DEF vars, others
<1> QED
  BY <1>1, <1>2, <1>3, <1>4, <1>5, <1>6, <1>7 DEF Next, SizeStep

(***************************************************************************)
(* SizeLinearizable: size() returns the size that the queue had when it    *)
(* loaded a counter for the last time but one.                             *)
(***************************************************************************)
THEOREM SizeIsASnapshot == Spec => SizeLinearizable
<1>1. Init => SizeInv
  BY DEF Init, SizeInv
<1>2. ASSUME QueueInv, SizeInv, [Next]_vars
      PROVE  [spc # "idle" /\ spc' = "idle" => pushes - pops = was]_vars
  <2> SUFFICES ASSUME spc # "idle", spc' = "idle", ~UNCHANGED vars PROVE pushes - pops = was
    OBVIOUS
  <2>0. pushTicket \in Nat /\ popTicket \in Nat
    BY <1>2 DEF QueueInv, TypeInv
  <2>1. ASSUME NEW t \in Threads, Blocking(t) \/ (\E w \in scenario.ways : Begin(t, w)) \/ Step(t) \/ Deadline(t)
        PROVE  spc' = spc
    BY <2>1 DEF Blocking, Begin, Step, Deadline, CheckReady, Recheck, CheckPromised, TurnArrived, Cas,
                Enqueue, Dequeue, Complete, others
  <2>2. SizeA \/ SizeB => spc' # "idle"
    BY DEF SizeA, SizeB, SizeLoad
  <2>3. CASE SizeC
    BY <1>2, <2>0, <2>3 DEF SizeC, SizeLoad, LoadPushes, bracketed, SizeInv
  <2>4. CASE SizeD
    BY <1>2, <2>0, <2>4 DEF SizeD, SizeLoad, LoadPops, bracketed, SizeInv
  <2> QED
    BY <1>2, <2>1, <2>2, <2>3, <2>4 DEF Next, SizeStep
<1> QED
  BY <1>1, <1>2, QueueInvariant, SizeStepInv, PTL DEF Spec, SizeLinearizable

---------------------------------------------------------------------------
(* The queue implements FifoQueue *)

\* Writers that have begun a call and have no ticket yet.  Since no call begins
\* when the bound on the tickets is reached, they are all who can exceed it.
Undrawn == {t \in Writers : pc[t] \in Preparing \ {"idle"}}

BoundInv ==
  \/ pushTicket <= scenario.start + scenario.tickets
  \/ pushTicket + Cardinality(Undrawn) <= scenario.start + scenario.tickets + Cardinality(Writers)

LEMMA UndrawnFinite ==
  /\ Cardinality(Writers) \in Nat
  /\ IsFiniteSet(Undrawn) /\ Cardinality(Undrawn) \in Nat
<1>1. IsFiniteSet(Undrawn)
  BY ThreadsAssumption, FS_Subset DEF Undrawn
<1> QED
  BY <1>1, ThreadsAssumption, FS_CardinalityType

\* The number that a writer gives its item is one of Items.
LEMMA ItemNumbered ==
  ASSUME QueueInv, BoundInv, NEW t \in Writers, Draws(t)
  PROVE  Len(pushed) + 1 \in Items
<1>0. TypeInv /\ HistoryInv /\ t \in Threads
  BY DEF QueueInv, Threads
<1> DEFINE n == CHOOSE n \in {s.tickets : s \in Scenarios} : \A s \in Scenarios : s.tickets <= n
<1>1. n \in Nat /\ scenario.tickets <= n
  <2>1. \E m \in {s.tickets : s \in Scenarios} : \A s \in Scenarios : s.tickets <= m
    BY ScenariosAssumption
  <2>2. n \in {s.tickets : s \in Scenarios} /\ \A s \in Scenarios : s.tickets <= n
    BY <2>1
  <2>3. {s.tickets : s \in Scenarios} \subseteq Nat
    BY ScenariosAssumption
  <2> HIDE DEF n
  <2> QED
    BY <1>0, <2>2, <2>3 DEF TypeInv
<1>2. Items = 1 .. Cardinality(Writers) + n
  BY DEF Items
<1> HIDE DEF n
<1>3. /\ scenario.start \in Nat /\ scenario.tickets \in Nat /\ pushTicket \in Nat
      /\ scenario.start <= pushTicket /\ Len(pushed) = pushTicket - scenario.start
  BY <1>0, ScenarioType DEF TypeInv, HistoryInv
<1>4. pushTicket - scenario.start < scenario.tickets + Cardinality(Writers)
  <2>1. CASE Call(t, "blocking")
    BY <1>3, <2>1, UndrawnFinite DEF Call, dispenser
  <2>2. CASE pc[t] = "cas"
    <3>1. t \in Undrawn
      BY <2>2 DEF Undrawn, Preparing
    <3>2. Cardinality(Undrawn) >= 1 /\ Cardinality(Writers) >= 1
      <4>1. Cardinality(Undrawn) # 0
        BY <3>1, UndrawnFinite, FS_EmptySet
      <4>2. Cardinality(Writers) # 0
        BY ThreadsAssumption, FS_EmptySet
      <4> QED
        BY <4>1, <4>2, UndrawnFinite
    <3> QED
      BY <1>3, <3>2, UndrawnFinite, SMTT(30) DEF BoundInv
  <2> QED
    BY <2>1, <2>2 DEF Draws, Draw, Goto
<1> QED
  BY <1>1, <1>2, <1>3, <1>4, UndrawnFinite, SMTT(30)

LEMMA BoundStep == QueueInv /\ BoundInv /\ [Next]_vars => BoundInv'
<1> SUFFICES ASSUME QueueInv, BoundInv, [Next]_vars PROVE BoundInv'
  OBVIOUS
<1>0. TypeInv /\ TicketInv
  BY DEF QueueInv
<1>1. scenario.start \in Nat /\ scenario.tickets \in Nat /\ pushTicket \in Nat
  BY <1>0, ScenarioType DEF TypeInv
<1>2. Undrawn' \subseteq Undrawn => Cardinality(Undrawn') <= Cardinality(Undrawn) /\ Cardinality(Undrawn') \in Nat
  BY UndrawnFinite, FS_Subset, FS_CardinalityType
<1>3. UNCHANGED <<pushTicket, scenario>> /\ Undrawn' \subseteq Undrawn => BoundInv'
  BY <1>1, <1>2, UndrawnFinite DEF BoundInv
<1>4. UNCHANGED <<pushTicket, scenario>> /\ pushTicket <= scenario.start + scenario.tickets => BoundInv'
  BY DEF BoundInv
<1>5. ASSUME NEW t \in Threads, Prepares(t) PROVE BoundInv'
  <2>1. UNCHANGED <<pushTicket, scenario>>
    BY <1>5 DEF Prepares, counters
  <2>2. \A u \in Threads \ {t} : pc'[u] = pc[u]
    BY <1>0, <1>5 DEF Prepares, TypeInv
  <2>3. pc[t] # "idle" => Undrawn' \subseteq Undrawn
    BY <1>5, <2>2 DEF Prepares, Undrawn, Threads
  <2>4. t \notin Writers => Undrawn' \subseteq Undrawn
    BY <2>2 DEF Undrawn, Threads
  <2>5. pc[t] = "idle" /\ t \in Writers => pushTicket <= scenario.start + scenario.tickets
    BY <1>1, <1>5 DEF Prepares, dispenser
  <2> QED
    BY <1>3, <1>4, <2>1, <2>3, <2>4, <2>5
<1>6. ASSUME NEW t \in Threads, Draws(t) PROVE BoundInv'
  <2>1. scenario' = scenario /\ pc[t] \in {"idle", "cas"} /\ pc'[t] = "turn"
        /\ \A u \in Threads \ {t} : pc'[u] = pc[u]
    BY <1>0, <1>6, DrawsEffect DEF TypeInv
  <2>2. Undrawn' = Undrawn \ {t}
    BY <2>1 DEF Undrawn, Threads, Preparing
  <2>3. CASE t \in Readers
    <3>1. pushTicket' = pushTicket
      BY <1>0, <1>6, <2>3, DrawsEffect, ThreadsAssumption
    <3> QED
      BY <1>3, <2>1, <2>2, <3>1
  <2>4. CASE t \in Writers
    <3>1. pushTicket' = pushTicket + 1
      BY <1>0, <1>6, <2>4, DrawsEffect, ThreadsAssumption
    <3>2. CASE pc[t] = "idle"
      <4>1. pushTicket < scenario.start + scenario.tickets
        BY <1>6, <2>4, <3>2 DEF Draws, Draw, Goto, Call, dispenser
      <4> QED
        BY <1>1, <2>1, <3>1, <4>1 DEF BoundInv
    <3>3. CASE pc[t] = "cas"
      <4>1. t \in Undrawn
        BY <2>4, <3>3 DEF Undrawn, Preparing
      <4>2. Cardinality(Undrawn') = Cardinality(Undrawn) - 1
        BY <2>2, <4>1, UndrawnFinite, FS_RemoveElement
      <4>3. Cardinality(Undrawn) <= Cardinality(Writers)
        BY ThreadsAssumption, FS_Subset DEF Undrawn
      <4> QED
        BY <1>1, <2>1, <3>1, <4>2, <4>3, UndrawnFinite DEF BoundInv
    <3> QED
      BY <2>1, <3>2, <3>3
  <2> QED
    BY <2>3, <2>4 DEF Threads
<1>7. ASSUME NEW t \in Threads, Enqueue(t) \/ Dequeue(t) \/ Complete(t) PROVE BoundInv'
  <2>1. UNCHANGED <<pushTicket, scenario>> /\ pc'[t] \in {"idle", "complete"}
    BY <1>0, <1>7 DEF Enqueue, Dequeue, Complete, Return, Goto, counters, others, TypeInv
  <2>2. \A u \in Threads \ {t} : pc'[u] = pc[u]
    BY <1>0, <1>7 DEF Enqueue, Dequeue, Complete, Return, Goto, TypeInv
  <2>3. Undrawn' \subseteq Undrawn
    BY <2>1, <2>2 DEF Undrawn, Threads, Preparing
  <2> QED
    BY <1>3, <2>1, <2>3
<1>8. CASE UNCHANGED <<counters, slots, calls, history, scenario>>
  BY <1>8 DEF counters, calls, BoundInv, Undrawn
<1> QED
  BY <1>0, <1>5, <1>6, <1>7, <1>8, StepKinds DEF TicketInv

\* A reader that takes an item takes the one whose push ticket was its own.
LEMMA DequeueDelivers ==
  ASSUME QueueInv, NEW t \in Threads, Dequeue(t)
  PROVE  \E k \in DOMAIN got : Fifo!Deliver(k)
<1>0. TypeInv /\ TicketInv /\ HistoryInv
  BY DEF QueueInv
<1>1. PICK R \in [Slots -> Nat] : RoundInv(R)
  BY DEF QueueInv
<1>2. PICK m \in Nat, start \in Nat : m = ticket[t] /\ start = scenario.start
  BY <1>0, ScenarioType DEF TypeInv
<1>3. /\ t \in Readers /\ t \notin Writers /\ pc[t] = "turn" /\ isTurn(t, m)
      /\ got' = [got EXCEPT ![m - start + 1] = contents[place(m)]] /\ pushed' = pushed
  BY <1>2, ThreadsAssumption DEF Dequeue, Goto
<1>4. R[place(m)] = fullTurn(1, m) /\ ~Busy(place(m)) /\ place(m) \in Slots
  BY <1>0, <1>1, <1>2, <1>3, TurnReached, PlaceType DEF sideOf
<1>5. PICK x \in Nat : x = round(m) /\ fullTurn(0, m) = 2 * x /\ fullTurn(1, m) = 2 * x + 1
  BY TicketParts DEF fullTurn
<1>6. contents[place(m)] = m - start + 1
  <2>1. R[place(m)] % 2 # 0
    BY <1>4, <1>5
  <2>2. contents[place(m)] # Nothing
    BY <1>1, <1>4, <2>1 DEF RoundInv, ContentsInv
  <2> QED
    BY <1>1, <1>2, <1>4, <2>2 DEF RoundInv, ContentsInv
<1>7. m < pushTicket
  <2>1. ~(fullTurn(0, m) >= R[place(m)])
    BY <1>4, <1>5
  <2>2. fullTurn(0, m) >= R[place(m)] <=> m >= drawn(0) \/ Held(0, m)
    BY <1>1 DEF RoundInv, OpenInv
  <2>3. ~(m >= pushTicket)
    BY <2>1, <2>2 DEF drawn
  <2> QED
    BY <1>0, <2>3 DEF TypeInv
<1>8. start <= m /\ m < popTicket
  BY <1>0, <1>2, <1>3 DEF HistoryInv, TicketInv, Admitted, dispenser
<1>9. PICK k \in Nat : k = m - start + 1
  BY <1>8
<1>10. k \in 1 .. Len(got) /\ k \in 1 .. Len(pushed)
  <2>1. Len(got) = popTicket - start /\ Len(pushed) = pushTicket - start /\ pushTicket \in Nat /\ popTicket \in Nat
    BY <1>0, <1>2 DEF HistoryInv, TypeInv
  <2> QED
    BY <1>7, <1>8, <1>9, <2>1
<1>11. DOMAIN got = 1 .. Len(got)
  BY <1>0 DEF TypeInv
<1>12. pushed[k] = k /\ got[k] = Nothing /\ k <= Len(pushed)
  BY <1>0, <1>2, <1>3, <1>9, <1>10 DEF HistoryInv
<1>13. Fifo!Deliver(k)
  BY <1>3, <1>6, <1>9, <1>12 DEF Fifo!Deliver
<1> QED
  BY <1>10, <1>11, <1>13

(***************************************************************************)
(* IsFifo: the queue implements FifoQueue.  A push ticket that is drawn is *)
(* an admitted write, a pop ticket an admitted read, and a dequeue hands   *)
(* the read with the k-th pop ticket the item with the k-th push ticket.   *)
(***************************************************************************)
THEOREM QueueIsFifo == Spec => IsFifo
<1>1. Init => Fifo!Init
  BY DEF Init, Fifo!Init
<1>2. Init => BoundInv
  BY ScenariosAssumption DEF Init, BoundInv
<1>3. QueueInv /\ BoundInv /\ [Next]_vars => [Fifo!Next]_(Fifo!vars)
  <2> SUFFICES ASSUME QueueInv, BoundInv, [Next]_vars PROVE Fifo!Next \/ UNCHANGED Fifo!vars
    OBVIOUS
  <2>0. TypeInv
    BY DEF QueueInv
  <2>1. ASSUME NEW t \in Threads, Draws(t) PROVE Fifo!Next
    <3>1. CASE t \in Writers
      <4>1. Len(pushed) + 1 \in Items
        BY <2>1, <3>1, ItemNumbered
      <4>2. Fifo!Push(Len(pushed) + 1)
        BY <2>0, <2>1, <3>1, DrawsEffect, ThreadsAssumption DEF Fifo!Push
      <4> QED
        BY <4>1, <4>2 DEF Fifo!Next
    <3>2. CASE t \in Readers
      BY <2>0, <2>1, <3>2, DrawsEffect, ThreadsAssumption DEF Fifo!Next, Fifo!Pop
    <3> QED
      BY <3>1, <3>2 DEF Threads
  <2>2. ASSUME NEW t \in Threads, Dequeue(t) PROVE Fifo!Next
    BY <2>2, DequeueDelivers DEF Fifo!Next
  <2>3. ASSUME NEW t \in Threads, Prepares(t) \/ Enqueue(t) \/ Complete(t) PROVE UNCHANGED Fifo!vars
    BY <2>3 DEF Prepares, Enqueue, Complete, history, Fifo!vars
  <2>4. UNCHANGED history => UNCHANGED Fifo!vars
    BY DEF history, Fifo!vars
  <2> QED
    BY <2>1, <2>2, <2>3, <2>4, StepKinds DEF QueueInv, TicketInv
<1> QED
  BY <1>1, <1>2, <1>3, QueueInvariant, BoundStep, PTL DEF Spec, IsFifo, Fifo!Spec

=============================================================================
