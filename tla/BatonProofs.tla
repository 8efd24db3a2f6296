---------------------------- MODULE BatonProofs ----------------------------
(***************************************************************************)
(* The safety properties of Baton for any number of posters and lifetimes. *)
(***************************************************************************)
EXTENDS Baton, TLAPS

\* At most one post per lifetime, none in a lifetime still to come, and a call
\* under way belongs to a lifetime that has come.
PostInv ==
  /\ life \in Lifetimes
  /\ \A l \in Lifetimes : posts[l] \in {0, 1} /\ (l > life => posts[l] = 0)
  /\ \A p \in Posters : postLife[p] <= life
  /\ \A p, q \in Posters :
       postLife[p] = life /\ postLife[q] = life => p = q
  /\ posts[life] = 0 => \A p \in Posters : postLife[p] # life

\* What the word can hold while the waiter is at each of its control points ...
WaiterInv ==
  /\ wpc \in {"fresh", "spin", "block"} => state \in {"INIT", "EARLY_DELIVERY"}
  /\ wpc \in {"futex", "asleep", "awake", "expired"} => state \in {"WAITING", "LATE_DELIVERY"}
  /\ wpc = "true" => state \in {"EARLY_DELIVERY", "LATE_DELIVERY"}
  /\ wpc = "false" => state # "WAITING"

\* ... and what it says about the post of this lifetime.
DeliveryInv ==
  /\ state \in {"EARLY_DELIVERY", "LATE_DELIVERY"} =>
       posts[life] = 1 /\ \A p \in Posters : ppc[p] \notin {"cas", "store"}
  /\ state \in {"INIT", "WAITING"} /\ posts[life] = 1 =>
       \E p \in Posters : postLife[p] = life /\ ppc[p] \in {"cas", "store"}
  /\ \A p \in Posters : ppc[p] = "store" => state \in {"WAITING", "TIMED_OUT"}

BatonInv ==
  /\ TypeOK
  /\ PostInv
  /\ WaiterInv
  /\ DeliveryInv
  /\ MemoryReleased
  /\ NoLostWakeup

LEMMA BatonInit == Init => BatonInv
<1> SUFFICES ASSUME Init PROVE BatonInv
  OBVIOUS
<1>1. 1 \in Lifetimes
  BY LifetimesAssumption DEF Lifetimes
<1>2. TypeOK
  BY DEF Init, TypeOK, States, WaiterPCs, PosterPCs
<1>3. PostInv
  BY <1>1 DEF Init, PostInv
<1>4. WaiterInv /\ DeliveryInv /\ MemoryReleased /\ NoLostWakeup
  BY <1>1 DEF Init, WaiterInv, DeliveryInv, MemoryReleased, NoLostWakeup
<1> QED
  BY <1>2, <1>3, <1>4 DEF BatonInv

LEMMA BatonStep == BatonInv /\ [Next]_vars => BatonInv'
<1> SUFFICES ASSUME BatonInv, [Next]_vars PROVE BatonInv'
  OBVIOUS
<1> USE LifetimesAssumption
    DEF BatonInv, TypeOK, PostInv, WaiterInv, DeliveryInv, MemoryReleased, NoLostWakeup,
        States, WaiterPCs, PosterPCs, Lifetimes, waiter, poster, Return
<1>1. ASSUME NEW deadline \in BOOLEAN, wait(deadline) PROVE BatonInv'
  BY <1>1 DEF wait
<1>2. CASE Spin
  BY <1>2 DEF Spin, ready
<1>3. CASE Block
  BY <1>3 DEF Block
<1>4. CASE FutexWait
  BY <1>4 DEF FutexWait, mustSleep
<1>5. CASE Awake
  BY <1>5 DEF Awake, wasPosted
<1>6. CASE Expire
  BY <1>6 DEF Expire
<1>7. CASE SpuriousWakeup
  BY <1>7 DEF SpuriousWakeup
<1>8. CASE FutexTimeout
  BY <1>8 DEF FutexTimeout
<1>9. CASE reset
  BY <1>9 DEF reset
<1>10. ASSUME NEW p \in Posters, post(p) PROVE BatonInv'
  BY <1>10 DEF post, PostLoad, AfterLoad
<1>11. ASSUME NEW p \in Posters, PostCas(p) PROVE BatonInv'
  BY <1>11 DEF PostCas, AfterLoad
<1>12. ASSUME NEW p \in Posters, PostStore(p) PROVE BatonInv'
  BY <1>12 DEF PostStore
<1>13. ASSUME NEW p \in Posters, PostWake(p) PROVE BatonInv'
  BY <1>13 DEF PostWake
<1>14. CASE UNCHANGED vars
  BY <1>14 DEF vars
<1> QED
  BY <1>1, <1>2, <1>3, <1>4, <1>5, <1>6, <1>7, <1>8, <1>9, <1>10, <1>11, <1>12, <1>13, <1>14
  DEF Next, WaiterStep, PosterStep, Finished

LEMMA BatonInvariant == Spec => []BatonInv
BY BatonInit, BatonStep, PTL DEF Spec

(***************************************************************************)
(* For any number of posters and lifetimes: the assertions in wait() and   *)
(* reset() hold; in particular the state word is never one the waiter does *)
(* not expect when it looks at it.                                         *)
(***************************************************************************)
THEOREM WaiterSound == Spec => []WaiterAsserts
<1>1. BatonInv => WaiterAsserts
  BY DEF BatonInv, TypeOK, States, WaiterInv, WaiterAsserts
<1> QED
  BY BatonInvariant, <1>1, PTL

(***************************************************************************)
(* Once a wait has returned true the poster does not touch the word again, *)
(* so its owner may free it.                                               *)
(***************************************************************************)
THEOREM MemorySafe == Spec => []MemoryReleased
<1>1. BatonInv => MemoryReleased
  BY DEF BatonInv
<1> QED
  BY BatonInvariant, <1>1, PTL

(***************************************************************************)
(* No thread sleeps on a baton whose post has returned.                    *)
(***************************************************************************)
THEOREM WakeupKept == Spec => []NoLostWakeup
<1>1. BatonInv => NoLostWakeup
  BY DEF BatonInv
<1> QED
  BY BatonInvariant, <1>1, PTL

(***************************************************************************)
(* The assertions in post() hold, and a wait that returns true was posted  *)
(* in its own lifetime.                                                    *)
(***************************************************************************)
THEOREM PosterSound == Spec => [](PosterAsserts /\ TrueMeansPosted)
<1>1. BatonInv => PosterAsserts /\ TrueMeansPosted
  BY DEF BatonInv, TypeOK, States, PostInv, WaiterInv, DeliveryInv, PosterAsserts,
         TrueMeansPosted, Lifetimes
<1> QED
  BY BatonInvariant, <1>1, PTL

=============================================================================
