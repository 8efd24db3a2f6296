--------------------------- MODULE MPMCQueueBase ---------------------------
(***************************************************************************)
(* The arithmetic that the fixed and the dynamic MPMCQueue share: which    *)
(* slot a ticket uses, which turn it has there, and how far apart the      *)
(* slots of consecutive tickets lie.                                       *)
(***************************************************************************)
EXTENDS Integers

\* The slot of a ticket, counted from the first one after the padding.
idx(ticket, cap, stride) == (ticket * stride) % cap

turn(ticket, cap) == ticket \div cap

smallPrimes == {2, 3, 5, 7, 11, 13, 17, 19, 23}

\* Going around by stride is as bad as going around by capacity - stride.
separation(stride, capacity) ==
  LET sep == stride % capacity IN IF sep <= capacity - sep THEN sep ELSE capacity - sep

\* Mutant: divisors of the capacity are not left out.
computeStrideAny(capacity) ==
  LET usable == {p \in smallPrimes : separation(p, capacity) > 1}
      widest == {p \in usable : \A q \in usable : separation(q, capacity) <= separation(p, capacity)}
  IN  IF usable = {} THEN 1 ELSE CHOOSE p \in widest : \A q \in widest : p <= q

\* The first of the primes that keep the slots of neighbouring tickets as far
\* apart as any of them does, and 1 if all of them keep them next to each other.
computeStride(capacity) ==
  LET usable == {p \in smallPrimes :
                   p % capacity # 0 /\ capacity % p # 0 /\ separation(p, capacity) > 1}
      widest == {p \in usable : \A q \in usable : separation(q, capacity) <= separation(p, capacity)}
  IN  IF usable = {} THEN 1 ELSE CHOOSE p \in widest : \A q \in widest : p <= q

\* A stride is good for a capacity if that many consecutive tickets have slots
\* of their own.
Spreads(stride, capacity) ==
  \A a, b \in 0 .. capacity - 1 : idx(a, capacity, stride) = idx(b, capacity, stride) => a = b

=============================================================================
