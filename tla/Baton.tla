------------------------------- MODULE Baton -------------------------------
(***************************************************************************)
(* synchronization/Baton.h, the may-block version: a one-shot hand-over    *)
(* from one poster to one waiter, over a futex word, that reset() readies  *)
(* for another lifetime.  The pool uses one for the start of each thread   *)
(* and one for the release of the last KeepAlive token.                    *)
(*                                                                         *)
(* A step is one access to state_ or one futex system call.  The wake-up   *)
(* of post() is sent after the store that releases the waiter, so it may   *)
(* arrive in a later lifetime of the baton and wake the wrong waiter.      *)
(***************************************************************************)
EXTENDS Integers

CONSTANTS
  Posters,        \* threads calling post()
  MaxLifetimes    \* bound: lifetimes, a lifetime ends with reset()

ASSUME LifetimesAssumption == MaxLifetimes \in Nat \ {0}

VARIABLES
  state,      \* state_
  wpc,        \* control point of the waiter
  timed,      \* whether it waits with a deadline
  ppc,        \* control point of each poster
  life,       \* the current lifetime
  posts,      \* post() calls begun in each lifetime
  postLife    \* the lifetime in which each poster began its call

vars == <<state, wpc, timed, ppc, life, posts, postLife>>

States == {"INIT", "EARLY_DELIVERY", "WAITING", "LATE_DELIVERY", "TIMED_OUT"}
WaiterPCs == {"fresh", "spin", "block", "futex", "asleep", "awake", "expired",
              "true", "false"}
PosterPCs == {"idle", "cas", "store", "wake"}
Lifetimes == 1 .. MaxLifetimes

Init ==
  /\ state = "INIT"
  /\ wpc = "fresh"
  /\ timed = FALSE
  /\ ppc = [p \in Posters |-> "idle"]
  /\ life = 1
  /\ posts = [l \in Lifetimes |-> 0]
  /\ postLife = [p \in Posters |-> 0]

waiter == <<wpc, timed>>
poster == <<ppc, posts, postLife>>

---------------------------------------------------------------------------
(* wait() and try_wait_for() *)

ready(s) == s \in {"EARLY_DELIVERY", "LATE_DELIVERY"}

Return(from, result) == wpc = from /\ wpc' = result

\* try_wait, the first thing a wait does.
wait(deadline) ==
  /\ Return("fresh", IF state = "EARLY_DELIVERY" THEN "true" ELSE "spin")
  /\ timed' = deadline
  /\ UNCHANGED <<state, poster, life>>

\* spin_pause_until: posted, out of time, or time to block.
Spin ==
  /\ \/ ready(state) /\ Return("spin", "true")
     \/ timed /\ Return("spin", "false")
     \/ Return("spin", "block")
  /\ UNCHANGED <<state, timed, poster, life>>

\* Mutant: the transition to blocking is a store.
BlockUnchecked ==
  /\ Return("block", "futex")
  /\ state' = "WAITING"
  /\ UNCHANGED <<timed, poster, life>>

\* The transition from spinning to blocking; the CAS fails if a post came first.
Block ==
  /\ \/ state = "INIT" /\ state' = "WAITING" /\ Return("block", "futex")
     \/ state # "INIT" /\ state' = state /\ Return("block", "true")
  /\ UNCHANGED <<timed, poster, life>>

\* Mutant: the kernel does not compare the word before it puts the caller to sleep.
sleepAnyway == TRUE

mustSleep == state = "WAITING"

\* futexWaitUntil(state_, WAITING, deadline)
FutexWait ==
  /\ Return("futex", IF mustSleep THEN "asleep" ELSE "awake")
  /\ UNCHANGED <<state, timed, poster, life>>

\* A signal, or a wake-up meant for another use of the same memory.
SpuriousWakeup ==
  /\ Return("asleep", "awake")
  /\ UNCHANGED <<state, timed, poster, life>>

FutexTimeout ==
  /\ timed
  /\ Return("asleep", "expired")
  /\ UNCHANGED <<state, timed, poster, life>>

\* The store that follows a time-out; it may hide a delivery.
Expire ==
  /\ Return("expired", "false")
  /\ state' = "TIMED_OUT"
  /\ UNCHANGED <<timed, poster, life>>

\* Mutant: whoever is woken was posted.
delivered == TRUE

wasPosted == state = "LATE_DELIVERY"

\* Whatever woke the thread, state_ tells whether it was posted.
Awake ==
  /\ Return("awake", IF wasPosted THEN "true" ELSE "futex")
  /\ UNCHANGED <<state, timed, poster, life>>

\* The waiter reuses the baton.  After a time-out a post may still be under way,
\* so it has to know that there is none.
reset ==
  /\ life < MaxLifetimes
  /\ \/ wpc = "true"
     \/ wpc = "false" /\ \A p \in Posters : postLife[p] = life => ppc[p] = "idle"
  /\ wpc' = "fresh"
  /\ state' = "INIT"
  /\ life' = life + 1
  /\ UNCHANGED <<timed, poster>>

---------------------------------------------------------------------------
(* post() *)

\* What post() goes on to do when it has seen state_ = s and not changed it.
AfterLoad(s) ==
  CASE s = "INIT" -> "cas"
    [] s = "TIMED_OUT" -> "idle"
    [] OTHER -> "store"

PostLoad(p) ==
  /\ ppc[p] = "idle"
  /\ ppc' = [ppc EXCEPT ![p] = AfterLoad(state)]
  /\ posts' = [posts EXCEPT ![life] = posts[life] + 1]
  /\ postLife' = [postLife EXCEPT ![p] = life]
  /\ UNCHANGED <<state, waiter, life>>

\* "There can be at most one call to post()" in a lifetime: the caller's duty.
post(p) == posts[life] = 0 /\ PostLoad(p)

\* Mutant: the compare-and-swap from INIT is a plain store.
PostCasBlind(p) ==
  /\ ppc[p] = "cas"
  /\ state' = "EARLY_DELIVERY"
  /\ ppc' = [ppc EXCEPT ![p] = "idle"]
  /\ UNCHANGED <<waiter, life, posts, postLife>>

PostCas(p) ==
  /\ ppc[p] = "cas"
  /\ \/ /\ state = "INIT"
        /\ state' = "EARLY_DELIVERY"
        /\ ppc' = [ppc EXCEPT ![p] = "idle"]
     \/ /\ state # "INIT"
        /\ state' = state
        /\ ppc' = [ppc EXCEPT ![p] = AfterLoad(state)]
  /\ UNCHANGED <<waiter, life, posts, postLife>>

PostStore(p) ==
  /\ ppc[p] = "store"
  /\ state' = "LATE_DELIVERY"
  /\ ppc' = [ppc EXCEPT ![p] = "wake"]
  /\ UNCHANGED <<waiter, life, posts, postLife>>

\* futexWake(&state_, 1) wakes whoever sleeps on the word by now.
PostWake(p) ==
  /\ ppc[p] = "wake"
  /\ ppc' = [ppc EXCEPT ![p] = "idle"]
  /\ wpc' = IF wpc = "asleep" THEN "awake" ELSE wpc
  /\ UNCHANGED <<state, timed, life, posts, postLife>>

---------------------------------------------------------------------------
PosterStep(p) == PostCas(p) \/ PostStore(p) \/ PostWake(p)

WaiterStep == Spin \/ Block \/ FutexWait \/ Awake \/ Expire

\* Nobody is inside a call and the last lifetime is over.
Finished ==
  /\ life = MaxLifetimes
  /\ wpc \in {"true", "false"}
  /\ posts[life] = 1
  /\ \A p \in Posters : ppc[p] = "idle"
  /\ UNCHANGED vars

Next ==
  \/ \E deadline \in BOOLEAN : wait(deadline)
  \/ WaiterStep
  \/ SpuriousWakeup
  \/ FutexTimeout
  \/ reset
  \/ \E p \in Posters : post(p) \/ PosterStep(p)
  \/ Finished

Spec == Init /\ [][Next]_vars

(* A thread inside wait() or post() keeps running; the kernel owes nobody a *)
(* spurious wake-up or a time-out.                                          *)
Fairness == WF_vars(WaiterStep) /\ \A p \in Posters : WF_vars(PosterStep(p))

FairSpec == Spec /\ Fairness

---------------------------------------------------------------------------
(* Properties *)

TypeOK ==
  /\ state \in States
  /\ wpc \in WaiterPCs
  /\ timed \in BOOLEAN
  /\ ppc \in [Posters -> PosterPCs]
  /\ life \in Nat
  /\ posts \in [Lifetimes -> Nat]
  /\ postLife \in [Posters -> Nat]

\* The assertions of wait(), tryWaitSlow() and reset(): the word never holds a
\* value its reader does not expect, even if a wake-up of an earlier lifetime
\* or a time-out comes in between.
WaiterAsserts ==
  /\ wpc = "fresh" => state \in {"INIT", "EARLY_DELIVERY"}
  /\ wpc = "block" => state \in {"INIT", "EARLY_DELIVERY"}
  /\ wpc = "awake" => state \in {"WAITING", "LATE_DELIVERY"}
  /\ wpc \in {"true", "false"} => state # "WAITING"

\* The assertions of post().
PosterAsserts ==
  /\ posts[life] = 0 => state \in {"INIT", "WAITING", "TIMED_OUT"}
  /\ \A p \in Posters : ppc[p] = "cas" => state \in {"INIT", "WAITING", "TIMED_OUT"}

\* wait() returns true only if post() was called in the same lifetime, whatever
\* stray wake-ups the thread received.
TrueMeansPosted == wpc = "true" => posts[life] > 0

\* Once a wait has returned true its thread may destroy or reset the baton: no
\* poster reads or writes state_ any more (the wake-up uses only its address).
MemoryReleased ==
  \A p \in Posters : ppc[p] \in {"cas", "store"} => postLife[p] = life /\ wpc # "true"

\* A thread sleeps on a posted baton only while the post is still under way, and
\* so is going to wake it: a post that has returned is never missed.
NoLostWakeup ==
  wpc = "asleep" /\ posts[life] > 0 =>
    \E p \in Posters : postLife[p] = life /\ ppc[p] # "idle"

\* A wait in a lifetime that has been posted returns; without a deadline too.
PostedWaitReturns ==
  \A l \in Lifetimes :
    life = l /\ posts[l] > 0 /\ wpc # "fresh" ~> wpc \in {"true", "false"} \/ life > l

=============================================================================
