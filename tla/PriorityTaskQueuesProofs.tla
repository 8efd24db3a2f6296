---------------------- MODULE PriorityTaskQueuesProofs ----------------------
(***************************************************************************)
(* The safety properties of PriorityTaskQueues for any number of threads,  *)
(* priorities and items and any capacity.                                  *)
(***************************************************************************)
EXTENDS PriorityTaskQueues, FiniteSetTheorems, TLAPS

Threads == Producers \cup Consumers

---------------------------------------------------------------------------
(* Priorities *)

\* Both kinds of queue take the middle of n priorities where n \div 2 is.
LEMMA Halves ==
  ASSUME NEW n \in Nat
  PROVE  n \div 2 \in 0 .. n /\ (n + 1) \div 2 = n - n \div 2
OBVIOUS

\* Every priority has a queue among n, ...
LEMMA QueueOfInRange ==
  ASSUME NEW n \in Nat \ {0}, NEW p \in Int
  PROVE  queueOf(n, p) \in 0 .. n - 1
BY Halves DEF queueOf, Larger, Smaller

\* ... and the two kinds of queue agree which.
LEMMA KindsAgree ==
  ASSUME NEW n \in Nat \ {0}, NEW p \in Int
  PROVE  translatePriority(n, p) = n - 1 - queueOf(n, p)
BY Halves DEF queueOf, translatePriority, Larger, Smaller

LEMMA RankInRange ==
  ASSUME NEW p \in Priorities
  PROVE  rank(p) \in Queues
<1>1. NumPriorities \in Nat \ {0} /\ p \in Int
  BY PrioritiesAssumption
<1>2. queueOf(NumPriorities, p) \in 0 .. NumPriorities - 1
  BY <1>1, QueueOfInRange
<1>3. rank(p) = queueOf(NumPriorities, p)
  BY <1>1, <1>2, KindsAgree DEF rank
<1> QED
  BY <1>2, <1>3 DEF Queues

\* Up to 127 the constructor's loop makes the queues it is asked for.
LEMMA AllQueuesMade ==
  ASSUME NEW n \in 1 .. 127
  PROVE  queuesMade(n) = n
<1> DEFINE Ends(k) == int8(k) >= n /\ \A j \in 0 .. k - 1 : int8(j) < n
<1>1. \A k \in 0 .. 127 : int8(k) = k
  BY DEF int8
<1>2. n \in 0 .. 128 /\ Ends(n)
  BY <1>1
<1>3. \A k \in 0 .. 128 : Ends(k) => k = n
  <2> SUFFICES ASSUME NEW k \in 0 .. 128, Ends(k) PROVE k = n
    OBVIOUS
  <2>1. ~(k < n)
    BY <1>1
  <2>2. ~(k > n)
    BY <1>1
  <2> QED
    BY <2>1, <2>2
<1> HIDE DEF Ends
<1>4. queuesMade(n) = CHOOSE k \in 0 .. 128 : Ends(k)
  BY DEF queuesMade, Ends
<1> QED
  BY <1>2, <1>3, <1>4

(***************************************************************************)
(* Whatever the number of priorities (as far as an int8_t counts), every   *)
(* priority of a task has an inner queue and both kinds of queue serve the *)
(* priorities in the same order.                                           *)
(***************************************************************************)
THEOREM PrioritiesSound == Spec => []PrioritiesAgree
<1>1. PrioritiesAgree
  <2>1. ASSUME NEW n \in 1 .. 127, NEW p \in -128 .. 127
        PROVE  /\ queueOf(n, p) \in 0 .. queuesMade(n) - 1
               /\ translatePriority(n, p) = n - 1 - queueOf(n, p)
    <3>1. n \in Nat \ {0} /\ p \in Int /\ queuesMade(n) = n
      BY AllQueuesMade
    <3> QED
      BY <3>1, QueueOfInRange, KindsAgree
  <2> QED
    BY <2>1 DEF PrioritiesAgree
<1> QED
  BY <1>1, PTL

---------------------------------------------------------------------------
(* Types *)

TypeInv ==
  /\ kind \in {"THROW", "BLOCK", "UNBOUNDED"}
  /\ sem \in Nat
  /\ pushes \in [Queues -> Nat] /\ pops \in [Queues -> Nat]
  /\ pc \in [Threads -> {"idle", "write", "post", "scan", "sem", "read", "terminated"}]
  /\ queue \in [Threads -> Queues]
  /\ began \in [Consumers -> [Queues -> Nat]]

LEMMA QueuesFacts == Queues \subseteq Nat /\ 0 \in Queues /\ top \in Queues
                     /\ \A q \in Queues : q <= top /\ (q > 0 => q - 1 \in Queues)
BY PrioritiesAssumption DEF Queues, top

LEMMA Count ==
  ASSUME NEW f \in [Queues -> Nat], NEW q \in Queues
  PROVE  [f EXCEPT ![q] = f[q] + 1] \in [Queues -> Nat]
OBVIOUS

LEMMA TypeInit == Init => TypeInv
BY QueuesFacts, QueuesAssumption DEF Init, TypeInv, none, Threads

LEMMA TypeStep == TypeInv /\ [Next]_vars => TypeInv'
<1> SUFFICES ASSUME TypeInv, [Next]_vars PROVE TypeInv'
  OBVIOUS
<1> USE QueuesFacts DEF TypeInv, inner, Goto, Threads
<1>1. ASSUME NEW p \in Producers, NEW i \in Priorities, Throw(p, i) PROVE TypeInv'
  BY <1>1 DEF Throw, vars
<1>2. ASSUME NEW p \in Producers, NEW i \in Priorities, Admit(p, i) PROVE TypeInv'
  <2>1. rank(i) \in Queues
    BY RankInRange
  <2>2. pushes' \in [Queues -> Nat]
    BY <1>2, <2>1, Count DEF Admit
  <2> QED
    BY <1>2, <2>1, <2>2 DEF Admit
<1>3. ASSUME NEW p \in Producers, Write(p) PROVE TypeInv'
  BY <1>3 DEF Write
<1>4. ASSUME NEW p \in Producers, Post(p) PROVE TypeInv'
  BY <1>4 DEF Post
<1>5. ASSUME NEW c \in Consumers, Take(c) PROVE TypeInv'
  BY <1>5 DEF Take, Scan
<1>6. ASSUME NEW c \in Consumers, Claim(c) PROVE TypeInv'
  <2>1. pops' \in [Queues -> Nat]
    BY <1>6, Count DEF Claim
  <2> QED
    BY <1>6, <2>1 DEF Claim
<1>7. ASSUME NEW c \in Consumers, Pass(c) PROVE TypeInv'
  BY <1>7 DEF Pass
<1>8. ASSUME NEW c \in Consumers, FoundNothing(c) PROVE TypeInv'
  BY <1>8 DEF FoundNothing, none
<1>9. ASSUME NEW c \in Consumers, Wait(c) PROVE TypeInv'
  BY <1>9 DEF Wait, Scan
<1>10. ASSUME NEW c \in Consumers, Read(c) PROVE TypeInv'
  BY <1>10 DEF Read, none
<1>11. ASSUME NEW c \in Consumers, TimedOut(c) PROVE TypeInv'
  BY <1>11 DEF TimedOut
<1>12. CASE UNCHANGED vars
  BY <1>12 DEF vars
<1> QED
  BY <1>1, <1>2, <1>3, <1>4, <1>5, <1>6, <1>7, <1>8, <1>9, <1>10, <1>11, <1>12
  DEF Next, Produce, Consume

---------------------------------------------------------------------------
(* The order in which items are served *)

\* A scan has seen everything above the queue it is at, as far as it was there
\* when the scan began.
ScanInv ==
  \A c \in Consumers :
    /\ \A q \in Queues : began[c][q] <= pushes[q]
    /\ pc[c] \in {"scan", "read"} =>
         \A q \in Queues : q > queue[c] => pops[q] >= began[c][q]

LEMMA ScanInit == Init => ScanInv
BY DEF Init, ScanInv, none

LEMMA ScanStep == TypeInv /\ ScanInv /\ [Next]_vars => ScanInv'
<1> SUFFICES ASSUME TypeInv, ScanInv, [Next]_vars PROVE ScanInv'
  OBVIOUS
<1> USE QueuesFacts DEF TypeInv, ScanInv, inner, Goto, Threads
<1>1. ASSUME NEW p \in Producers, NEW i \in Priorities, Throw(p, i) PROVE ScanInv'
  BY <1>1 DEF Throw, vars
<1>2. ASSUME NEW p \in Producers, NEW i \in Priorities, Admit(p, i) PROVE ScanInv'
  BY <1>2, RankInRange DEF Admit
<1>3. ASSUME NEW p \in Producers, Write(p) PROVE ScanInv'
  BY <1>3 DEF Write
<1>4. ASSUME NEW p \in Producers, Post(p) PROVE ScanInv'
  BY <1>4 DEF Post
<1>5. ASSUME NEW c \in Consumers, Take(c) PROVE ScanInv'
  BY <1>5 DEF Take, Scan
<1>6. ASSUME NEW c \in Consumers, Claim(c) PROVE ScanInv'
  BY <1>6 DEF Claim
<1>7. ASSUME NEW c \in Consumers, Pass(c) PROVE ScanInv'
  <2>1. /\ UNCHANGED <<pushes, pops, pc, began>>
        /\ queue' = [queue EXCEPT ![c] = queue[c] - 1]
        /\ pushes[queue[c]] <= pops[queue[c]]
    BY <1>7 DEF Pass
  <2>2. ASSUME NEW q \in Queues, q > queue[c] - 1, pc[c] \in {"scan", "read"}
        PROVE  pops[q] >= began[c][q]
    <3>1. CASE q = queue[c]
      <4>1. /\ began[c][q] <= pushes[q] /\ pushes[q] <= pops[q]
            /\ began[c][q] \in Nat /\ pushes[q] \in Nat /\ pops[q] \in Nat
        BY <2>1, <3>1
      <4> QED
        BY <4>1
    <3>2. CASE q > queue[c]
      BY <2>2, <3>2
    <3>3. q = queue[c] \/ q > queue[c]
      <4>1. queue[c] \in Queues
        OBVIOUS
      <4>2. q \in Nat /\ queue[c] \in Nat
        BY ONLY <4>1, q \in Queues, QueuesFacts
      <4> QED
        BY ONLY <2>2, <4>2
    <3> QED
      BY <3>1, <3>2, <3>3
  <2>3. ASSUME NEW q \in Queues, q > queue'[c], pc'[c] \in {"scan", "read"}
        PROVE  pops'[q] >= began'[c][q]
    BY <2>1, <2>2, <2>3
  <2> QED
    BY <2>1, <2>3
<1>8. ASSUME NEW c \in Consumers, FoundNothing(c) PROVE ScanInv'
  BY <1>8 DEF FoundNothing, none
<1>9. ASSUME NEW c \in Consumers, Wait(c) PROVE ScanInv'
  BY <1>9 DEF Wait, Scan
<1>10. ASSUME NEW c \in Consumers, Read(c) PROVE ScanInv'
  BY <1>10 DEF Read, none
<1>11. ASSUME NEW c \in Consumers, TimedOut(c) PROVE ScanInv'
  BY <1>11 DEF TimedOut
<1>12. CASE UNCHANGED vars
  BY <1>12 DEF vars
<1> QED
  BY <1>1, <1>2, <1>3, <1>4, <1>5, <1>6, <1>7, <1>8, <1>9, <1>10, <1>11, <1>12
  DEF Next, Produce, Consume

(***************************************************************************)
(* For any number of threads and priorities: a consumer never takes an     *)
(* item while one of higher priority, which was there when its scan began, *)
(* is left.                                                                *)
(***************************************************************************)
THEOREM ServedInOrder == Spec => []NoInversion
<1>1. TypeInv /\ ScanInv => NoInversion
  BY QueuesFacts DEF TypeInv, ScanInv, NoInversion, Threads, top, Queues
<1> QED
  BY TypeInit, TypeStep, ScanInit, ScanStep, <1>1, PTL DEF Spec

---------------------------------------------------------------------------
(* Tokens: every scan of the unbounded queue finds an item *)

\* The items nobody has claimed in the queues up to k, ...
Items(k) == {x \in Queues \X Nat : x[1] <= k /\ pops[x[1]] <= x[2] /\ x[2] < pushes[x[1]]}

\* ... the scans that have come down to them, ...
Scans(k) == {t \in Threads : pc[t] = "scan" /\ queue[t] <= k}

\* ... and those who have a token, or have one to post.
Entitled == {t \in Threads : pc[t] \in {"write", "post", "scan"}}

\* There is an item for every token, and one for every scan in the queues that the
\* scan has still to look at: items that come above it are not counted.
TokenInv ==
  /\ \A q \in Queues : pops[q] <= pushes[q]
  /\ IsFiniteSet(Items(top)) /\ IsFiniteSet(Entitled)
  /\ sem + Cardinality(Entitled) <= Cardinality(Items(top))
  /\ \A k \in Queues : Cardinality(Scans(k)) <= Cardinality(Items(k))

UnboundedInv == DequeueSucceeds /\ (kind = "UNBOUNDED" => TokenInv)

\* All the sets that are counted are finite.
LEMMA AllFinite ==
  ASSUME TypeInv, IsFiniteSet(Items(top)), IsFiniteSet(Entitled), NEW k \in Queues
  PROVE  /\ IsFiniteSet(Items(k)) /\ Cardinality(Items(k)) \in Nat
         /\ IsFiniteSet(Scans(k)) /\ Cardinality(Scans(k)) \in Nat
         /\ Cardinality(Entitled) \in Nat
<1>1. Items(k) \subseteq Items(top)
  <2>1. \A q \in Queues : q <= top
    BY QueuesFacts
  <2> QED
    BY <2>1 DEF Items
<1>2. Scans(k) \subseteq Entitled
  BY DEF Scans, Entitled
<1> QED
  BY <1>1, <1>2, FS_Subset, FS_CardinalityType

\* An item is added to queue r, ...
LEMMA ItemAdded ==
  ASSUME TypeInv, NEW r \in Queues, pops' = pops, pops[r] <= pushes[r],
         pushes' = [pushes EXCEPT ![r] = pushes[r] + 1], NEW k \in Queues
  PROVE  Items(k)' = (IF r <= k THEN Items(k) \cup {<<r, pushes[r]>>} ELSE Items(k))
<1>1. /\ \A q \in Queues : q \in Nat /\ pushes[q] \in Nat /\ pops[q] \in Nat
      /\ \A q \in Queues : pushes'[q] = IF q = r THEN pushes[r] + 1 ELSE pushes[q]
  BY QueuesFacts DEF TypeInv
<1>2. \A a \in Queues, b \in Nat : <<a, b>> \in Items(k)' <=>
        <<a, b>> \in Items(k) \/ (r <= k /\ a = r /\ b = pushes[r])
  <2> SUFFICES ASSUME NEW a \in Queues, NEW b \in Nat
               PROVE  <<a, b>> \in Items(k)' <=>
                        <<a, b>> \in Items(k) \/ (r <= k /\ a = r /\ b = pushes[r])
    OBVIOUS
  <2>1. <<a, b>> \in Items(k)' <=> a <= k /\ pops[a] <= b /\ b < pushes'[a]
    BY DEF Items
  <2>2. <<a, b>> \in Items(k) <=> a <= k /\ pops[a] <= b /\ b < pushes[a]
    BY DEF Items
  <2> QED
    BY <1>1, <2>1, <2>2
<1>3. Items(k)' \subseteq Queues \X Nat /\ Items(k) \subseteq Queues \X Nat
  BY DEF Items
<1>4. <<r, pushes[r]>> \in Queues \X Nat
  BY <1>1
<1>5. CASE r <= k
  <2>1. \A a \in Queues, b \in Nat : <<a, b>> \in Items(k)' <=>
          <<a, b>> \in Items(k) \cup {<<r, pushes[r]>>}
    BY <1>2, <1>5
  <2> QED
    BY <1>3, <1>4, <1>5, <2>1
<1>6. CASE ~(r <= k)
  BY <1>2, <1>3, <1>6
<1> QED
  BY <1>5, <1>6

\* ... and one is claimed from queue r.
LEMMA ItemClaimed ==
  ASSUME TypeInv, NEW r \in Queues, pushes' = pushes, pops[r] < pushes[r],
         pops' = [pops EXCEPT ![r] = pops[r] + 1], NEW k \in Queues
  PROVE  /\ Items(k)' = Items(k) \ {<<r, pops[r]>>}
         /\ <<r, pops[r]>> \in Items(k) <=> r <= k
<1>1. /\ \A q \in Queues : q \in Nat /\ pushes[q] \in Nat /\ pops[q] \in Nat
      /\ \A q \in Queues : pops'[q] = IF q = r THEN pops[r] + 1 ELSE pops[q]
  BY QueuesFacts DEF TypeInv
<1>2. \A a \in Queues, b \in Nat : <<a, b>> \in Items(k)' <=>
        <<a, b>> \in Items(k) /\ ~(a = r /\ b = pops[r])
  <2> SUFFICES ASSUME NEW a \in Queues, NEW b \in Nat
               PROVE  <<a, b>> \in Items(k)' <=>
                        <<a, b>> \in Items(k) /\ ~(a = r /\ b = pops[r])
    OBVIOUS
  <2>1. <<a, b>> \in Items(k)' <=> a <= k /\ pops'[a] <= b /\ b < pushes[a]
    BY DEF Items
  <2>2. <<a, b>> \in Items(k) <=> a <= k /\ pops[a] <= b /\ b < pushes[a]
    BY DEF Items
  <2> QED
    BY <1>1, <2>1, <2>2
<1>3. Items(k)' \subseteq Queues \X Nat /\ Items(k) \subseteq Queues \X Nat
  BY DEF Items
<1>4. <<r, pops[r]>> \in Items(k) <=> r <= k
  BY <1>1 DEF Items
<1> QED
  BY <1>2, <1>3, <1>4

\* A scan leaves an empty queue k: no item is left behind.
LEMMA NoneLeft ==
  ASSUME TypeInv, NEW k \in Queues, k > 0, pushes[k] <= pops[k]
  PROVE  Items(k) = Items(k - 1)
<1>1. \A q \in Queues : q \in Nat /\ pushes[q] \in Nat /\ pops[q] \in Nat
  BY QueuesFacts DEF TypeInv
<1>2. \A q \in Queues : q <= k - 1 <=> q <= k /\ q # k
  BY <1>1
<1>3. \A b \in Nat : ~(pops[k] <= b /\ b < pushes[k])
  BY <1>1
<1> QED
  BY <1>2, <1>3 DEF Items

LEMMA UnboundedInit == Init => UnboundedInv
<1> SUFFICES ASSUME Init PROVE UnboundedInv
  OBVIOUS
<1>1. Entitled = {} /\ \A k \in Queues : Scans(k) = {}
  BY DEF Init, Entitled, Scans, Threads
<1>2. \A k \in Queues : Items(k) = {}
  BY DEF Init, Items, none
<1>3. top \in Queues /\ sem = 0 /\ \A q \in Queues : pops[q] <= pushes[q]
  BY QueuesFacts DEF Init, none
<1>4. TokenInv
  BY <1>1, <1>2, <1>3, FS_EmptySet DEF TokenInv
<1> QED
  BY <1>4 DEF Init, UnboundedInv, DequeueSucceeds, Threads

\* A step that moves no token.
LEMMA TokensStay ==
  ASSUME TokenInv, UNCHANGED <<pushes, pops, sem>>, Entitled' = Entitled,
         \A k \in Queues : Scans(k)' = Scans(k)
  PROVE  TokenInv'
<1>1. \A k : Items(k)' = Items(k)
  BY DEF Items
<1> QED
  BY <1>1 DEF TokenInv

LEMMA UnboundedStep == TypeInv /\ UnboundedInv /\ [Next]_vars => UnboundedInv'
<1> SUFFICES ASSUME TypeInv, UnboundedInv, [Next]_vars PROVE UnboundedInv'
  OBVIOUS
<1>k. kind' = kind
  BY DEF Next, Produce, Consume, Throw, Admit, Write, Post, Take, Claim, Pass, FoundNothing, Wait,
         Read, TimedOut, vars
<1>b. CASE kind # "UNBOUNDED"
  <2>1. \A t \in Consumers : pc'[t] # "terminated"
    BY <1>b DEF TypeInv, UnboundedInv, DequeueSucceeds, Threads, Goto, Next, Produce, Consume,
       Throw, Admit, Write, Post, Take, Scan, Claim, Pass, FoundNothing, Wait, Read, TimedOut, vars
  <2> QED
    BY <1>b, <1>k, <2>1 DEF UnboundedInv, DequeueSucceeds
<1>u. CASE kind = "UNBOUNDED"
  <2> USE DEF Goto
  <2>q. /\ \A q \in Queues : q \in Nat /\ q <= top /\ pushes[q] \in Nat /\ pops[q] \in Nat
        /\ top \in Queues /\ 0 \in Queues /\ sem \in Nat
        /\ Producers \subseteq Threads /\ Consumers \subseteq Threads
        /\ \A t \in Threads : queue[t] \in Queues
        /\ DOMAIN pc = Threads /\ DOMAIN queue = Threads
    BY QueuesFacts DEF TypeInv, Threads
  <2>t. /\ \A q \in Queues : pops[q] <= pushes[q]
        /\ IsFiniteSet(Items(top)) /\ IsFiniteSet(Entitled)
        /\ sem + Cardinality(Entitled) <= Cardinality(Items(top))
        /\ \A k \in Queues : Cardinality(Scans(k)) <= Cardinality(Items(k))
    BY <1>u DEF UnboundedInv, TokenInv
  <2>f. \A k \in Queues :
          /\ IsFiniteSet(Items(k)) /\ Cardinality(Items(k)) \in Nat
          /\ IsFiniteSet(Scans(k)) /\ Cardinality(Scans(k)) \in Nat
          /\ Cardinality(Entitled) \in Nat
    BY <2>t, AllFinite
  <2>d. DequeueSucceeds
    BY DEF UnboundedInv
  \* An item is admitted, and its producer entitled to post.
  <2>1. ASSUME NEW p \in Producers, NEW i \in Priorities, Admit(p, i) PROVE UnboundedInv'
    <3> DEFINE r == rank(i)
    <3>1. r \in Queues
      BY RankInRange
    <3> HIDE DEF r
    <3>2. /\ pc[p] = "idle" /\ pc' = [pc EXCEPT ![p] = "write"]
          /\ queue' = [queue EXCEPT ![p] = r] /\ sem' = sem
          /\ pops' = pops /\ pushes' = [pushes EXCEPT ![r] = pushes[r] + 1]
      BY <2>1 DEF Admit, r
    <3>3. Entitled' = Entitled \cup {p} /\ p \notin Entitled
      BY <2>q, <3>2 DEF Entitled
    <3>4. \A k \in Queues : Scans(k)' = Scans(k)
      BY <2>q, <3>2 DEF Scans
    <3>5. \A k \in Queues : Items(k)' = (IF r <= k THEN Items(k) \cup {<<r, pushes[r]>>} ELSE Items(k))
      BY <2>t, <3>1, <3>2, ItemAdded
    <3>6. \A k \in Queues : <<r, pushes[r]>> \notin Items(k)
      BY <2>q, <3>1 DEF Items
    <3>7. \A k \in Queues : IsFiniteSet(Items(k)') /\ Cardinality(Items(k)') =
             (IF r <= k THEN Cardinality(Items(k)) + 1 ELSE Cardinality(Items(k)))
      BY <2>f, <3>5, <3>6, FS_AddElement
    <3>8. IsFiniteSet(Entitled') /\ Cardinality(Entitled') = Cardinality(Entitled) + 1
      BY <2>t, <3>3, FS_AddElement
    <3>9. TokenInv'
      <4>1. \A q \in Queues : pops'[q] <= pushes'[q]
        BY <2>q, <2>t, <3>1, <3>2 DEF TypeInv
      <4>2. sem' + Cardinality(Entitled') <= Cardinality(Items(top)')
        BY <2>q, <2>t, <2>f, <3>1, <3>2, <3>7, <3>8
      <4>3. \A k \in Queues : Cardinality(Scans(k)') <= Cardinality(Items(k)')
        BY <2>t, <2>f, <3>4, <3>7
      <4> QED
        BY <2>q, <3>7, <3>8, <4>1, <4>2, <4>3 DEF TokenInv
    <3> QED
      BY <2>d, <2>q, <3>2, <3>9 DEF UnboundedInv, DequeueSucceeds
  \* Steps that move no token.
  <2>2. ASSUME NEW t \in Threads, NEW from \in {"write", "idle", "sem", "read"},
               NEW to \in {"post", "sem", "idle"}, from = "write" <=> to = "post",
               pc[t] = from, pc' = [pc EXCEPT ![t] = to],
               \A u \in Threads : u # t => queue'[u] = queue[u],
               UNCHANGED <<pushes, pops, sem>>
        PROVE  UnboundedInv'
    <3>1. Entitled' = Entitled
      BY <2>2, <2>q DEF Entitled
    <3>2. \A k \in Queues : Scans(k)' = Scans(k)
      BY <2>2, <2>q DEF Scans
    <3>3. TokenInv'
      BY <2>2, <3>1, <3>2, <1>u, TokensStay DEF UnboundedInv
    <3> QED
      BY <2>2, <2>q, <2>d, <3>3 DEF UnboundedInv, DequeueSucceeds
  <2>3. ASSUME NEW p \in Producers, Write(p) PROVE UnboundedInv'
    BY <2>2, <2>3, <2>q DEF Write
  <2>4. ASSUME NEW c \in Consumers, Take(c) PROVE UnboundedInv'
    BY <1>u, <2>2, <2>4, <2>q DEF Take, inner
  <2>5. ASSUME NEW c \in Consumers, Read(c) PROVE UnboundedInv'
    BY <2>2, <2>5, <2>q DEF Read
  <2>6. ASSUME NEW c \in Consumers, TimedOut(c) PROVE UnboundedInv'
    BY <2>2, <2>6, <2>q DEF TimedOut, inner
  <2>7. CASE UNCHANGED vars
    <3>1. UNCHANGED <<pushes, pops, sem, pc, queue>>
      BY <2>7 DEF vars, inner
    <3>2. TokenInv'
      BY <3>1, <1>u, TokensStay DEF UnboundedInv, Entitled, Scans
    <3> QED
      BY <2>d, <3>1, <3>2 DEF UnboundedInv, DequeueSucceeds
  \* The producer's token becomes one of the semaphore.
  <2>8. ASSUME NEW p \in Producers, Post(p) PROVE UnboundedInv'
    <3>1. /\ pc[p] = "post" /\ pc' = [pc EXCEPT ![p] = "idle"]
          /\ queue' = [queue EXCEPT ![p] = 0] /\ sem' = sem + 1 /\ UNCHANGED <<pushes, pops>>
      BY <2>8 DEF Post, inner
    <3>2. Entitled' = Entitled \ {p} /\ p \in Entitled
      BY <2>q, <3>1 DEF Entitled
    <3>3. \A k \in Queues : Scans(k)' = Scans(k)
      BY <2>q, <3>1 DEF Scans
    <3>4. \A k \in Queues : Items(k)' = Items(k)
      BY <3>1 DEF Items
    <3>5. IsFiniteSet(Entitled') /\ Cardinality(Entitled') = Cardinality(Entitled) - 1
      BY <2>t, <3>2, FS_RemoveElement
    <3>6. sem' + Cardinality(Entitled') <= Cardinality(Items(top)')
      BY <2>q, <2>t, <2>f, <3>1, <3>4, <3>5
    <3>7. TokenInv'
      BY <2>q, <2>t, <3>1, <3>3, <3>4, <3>5, <3>6 DEF TokenInv
    <3> QED
      BY <2>d, <2>q, <3>1, <3>7 DEF UnboundedInv, DequeueSucceeds
  \* A scan has found an item: it is claimed with the token.
  <2>9. ASSUME NEW c \in Consumers, Claim(c) PROVE UnboundedInv'
    <3> DEFINE r == queue[c]
    <3>1. r \in Queues
      BY <2>q
    <3>2. /\ pc[c] = "scan" /\ pc' = [pc EXCEPT ![c] = "read"] /\ UNCHANGED <<queue, sem, pushes>>
          /\ pops[r] < pushes[r] /\ pops' = [pops EXCEPT ![r] = pops[r] + 1]
      BY <2>9, <2>q, <3>1 DEF Claim
    <3>3. Entitled' = Entitled \ {c} /\ c \in Entitled
      BY <2>q, <3>2 DEF Entitled
    <3>4. \A k \in Queues : Scans(k)' = Scans(k) \ {c} /\ (c \in Scans(k) <=> r <= k)
      BY <2>q, <3>2 DEF Scans
    <3> HIDE DEF r
    <3>5. \A k \in Queues : Items(k)' = Items(k) \ {<<r, pops[r]>>}
                            /\ (<<r, pops[r]>> \in Items(k) <=> r <= k)
      BY <3>1, <3>2, ItemClaimed
    <3>6. \A k \in Queues : IsFiniteSet(Items(k)') /\ Cardinality(Items(k)') =
             (IF r <= k THEN Cardinality(Items(k)) - 1 ELSE Cardinality(Items(k)))
      BY <2>f, <3>5, FS_RemoveElement
    <3>7. \A k \in Queues : Cardinality(Scans(k)') =
             (IF r <= k THEN Cardinality(Scans(k)) - 1 ELSE Cardinality(Scans(k)))
      BY <2>f, <3>4, FS_RemoveElement
    <3>8. IsFiniteSet(Entitled') /\ Cardinality(Entitled') = Cardinality(Entitled) - 1
      BY <2>t, <3>3, FS_RemoveElement
    <3>9. TokenInv'
      <4>1. \A q \in Queues : pops'[q] <= pushes'[q]
        BY <2>q, <2>t, <3>1, <3>2 DEF TypeInv
      <4>2. sem' + Cardinality(Entitled') <= Cardinality(Items(top)')
        BY <2>q, <2>t, <2>f, <3>1, <3>2, <3>6, <3>8
      <4>3. \A k \in Queues : Cardinality(Scans(k)') <= Cardinality(Items(k)')
        BY <2>t, <2>f, <3>6, <3>7
      <4> QED
        BY <2>q, <3>6, <3>8, <4>1, <4>2, <4>3 DEF TokenInv
    <3> QED
      BY <2>d, <2>q, <3>2, <3>9 DEF UnboundedInv, DequeueSucceeds
  \* A scan passes an empty queue.
  <2>10. ASSUME NEW c \in Consumers, Pass(c) PROVE UnboundedInv'
    <3>0. PICK r \in Queues : r = queue[c]
      BY <2>q
    <3>1. r \in Queues /\ r > 0 /\ r - 1 \in Queues
      BY <2>10, <2>q, <3>0, QueuesFacts DEF Pass
    <3>2. /\ pc[c] = "scan" /\ queue[c] = r /\ queue' = [queue EXCEPT ![c] = r - 1]
          /\ UNCHANGED <<pc, sem, pushes, pops>> /\ pushes[r] <= pops[r]
      BY <2>10, <3>0 DEF Pass, inner
    <3>3. Entitled' = Entitled
      BY <3>2 DEF Entitled
    <3>4. Scans(r - 1)' = Scans(r - 1) \cup {c}
      BY <2>q, <3>1, <3>2 DEF Scans
    <3>5. \A k \in Queues : k # r - 1 => Scans(k)' = Scans(k)
      BY <2>q, <3>1, <3>2 DEF Scans
    <3>6. Scans(r - 1)' \subseteq Scans(r)
      BY <2>q, <3>1, <3>2, <3>4 DEF Scans
    <3>7. \A k \in Queues : Items(k)' = Items(k)
      BY <3>2 DEF Items
    <3>8. Items(r) = Items(r - 1)
      BY <3>1, <3>2, NoneLeft
    <3>9. Cardinality(Scans(r - 1)') <= Cardinality(Scans(r))
      BY <2>f, <3>1, <3>6, FS_Subset
    <3>10. Cardinality(Scans(r - 1)') <= Cardinality(Items(r - 1)')
      <4>1. Cardinality(Scans(r - 1)') \in Nat
        BY <2>f, <3>1, <3>6, FS_Subset, FS_CardinalityType
      <4> QED
        BY <2>t, <2>f, <3>1, <3>7, <3>8, <3>9, <4>1
    <3>11. \A k \in Queues : Cardinality(Scans(k)') <= Cardinality(Items(k)')
      BY <2>t, <3>5, <3>7, <3>10
    <3>12. TokenInv'
      BY <2>q, <2>t, <3>2, <3>3, <3>7, <3>11 DEF TokenInv
    <3> QED
      BY <2>d, <3>2, <3>12 DEF UnboundedInv, DequeueSucceeds
  \* A scan at the last queue finds an item there: nothing is not found.
  <2>11. ASSUME NEW c \in Consumers, FoundNothing(c) PROVE FALSE
    <3>1. c \in Scans(0)
      BY <2>11, <2>q DEF FoundNothing, Scans
    <3>2. Items(0) = {}
      <4>1. pushes[0] <= pops[0]
        BY <2>11 DEF FoundNothing
      <4>2. \A q \in Queues : q <= 0 => q = 0
        BY <2>q
      <4> QED
        BY <2>q, <4>1, <4>2 DEF Items
    <3>3. Cardinality(Items(0)) = 0
      BY <3>2, FS_EmptySet
    <3>4. Cardinality(Scans(0)) = 0
      BY <2>q, <2>t, <2>f, <3>3
    <3> QED
      BY <2>q, <2>f, <3>1, <3>4, FS_EmptySet
  \* A token of the semaphore becomes one of a consumer, who begins at the top.
  <2>12. ASSUME NEW c \in Consumers, Wait(c) PROVE UnboundedInv'
    <3>1. /\ pc[c] = "sem" /\ pc' = [pc EXCEPT ![c] = "scan"]
          /\ queue' = [queue EXCEPT ![c] = top] /\ sem > 0 /\ sem' = sem - 1
          /\ UNCHANGED <<pushes, pops>>
      BY <2>12 DEF Wait, Scan, inner
    <3>2. Entitled' = Entitled \cup {c} /\ c \notin Entitled
      BY <2>q, <3>1 DEF Entitled
    <3>3. \A k \in Queues : k # top => Scans(k)' = Scans(k)
      BY <2>q, <3>1 DEF Scans
    <3>4. Scans(top)' \subseteq Entitled'
      BY DEF Scans, Entitled
    <3>5. \A k \in Queues : Items(k)' = Items(k)
      BY <3>1 DEF Items
    <3>6. IsFiniteSet(Entitled') /\ Cardinality(Entitled') = Cardinality(Entitled) + 1
      BY <2>t, <3>2, FS_AddElement
    <3>7. sem' + Cardinality(Entitled') <= Cardinality(Items(top)')
      BY <2>q, <2>t, <2>f, <3>1, <3>5, <3>6
    <3>8. Cardinality(Scans(top)') <= Cardinality(Items(top)')
      <4>1. /\ Cardinality(Scans(top)') \in Nat
            /\ Cardinality(Scans(top)') <= Cardinality(Entitled')
        BY <3>4, <3>6, FS_Subset, FS_CardinalityType
      <4>2. Cardinality(Entitled') \in Nat /\ Cardinality(Items(top)') \in Nat /\ sem' \in Nat
        BY <2>q, <2>f, <3>1, <3>5, <3>6
      <4> QED
        BY <3>7, <4>1, <4>2
    <3>9. \A k \in Queues : Cardinality(Scans(k)') <= Cardinality(Items(k)')
      BY <2>t, <3>3, <3>5, <3>8
    <3>10. TokenInv'
      BY <2>q, <2>t, <3>1, <3>5, <3>6, <3>7, <3>9 DEF TokenInv
    <3> QED
      BY <2>d, <2>q, <3>1, <3>10 DEF UnboundedInv, DequeueSucceeds
  <2> QED
    BY <2>1, <2>3, <2>4, <2>5, <2>6, <2>7, <2>8, <2>9, <2>10, <2>11, <2>12
    DEF Next, Produce, Consume, Throw
<1> QED
  BY <1>b, <1>u

(***************************************************************************)
(* For any number of threads and priorities: a thread that has had a token *)
(* of the unbounded queue finds an item, so "bug in task queue" is never   *)
(* reached, although items come and go above the queue its scan is at.     *)
(***************************************************************************)
THEOREM EveryTokenFinds == Spec => []DequeueSucceeds
<1>1. UnboundedInv => DequeueSucceeds
  BY DEF UnboundedInv
<1> QED
  BY TypeInit, TypeStep, UnboundedInit, UnboundedStep, <1>1, PTL DEF Spec

=============================================================================
