---------------------- MODULE DefaultKeepAliveExecutor ----------------------
(***************************************************************************)
(* DefaultKeepAliveExecutor.h: the count of KeepAlive tokens that keeps an *)
(* executor from being destroyed, the weak references that may take a      *)
(* token as long as there is one, and the baton on which the owner waits   *)
(* for the last of them.  Composed with Baton, step by step: the executor  *)
(* must use its baton as Baton.h demands, one post and one wait in each    *)
(* lifetime.                                                               *)
(***************************************************************************)
EXTENDS Integers, FiniteSets

CONSTANTS
  Threads,       \* threads holding tokens and weak references
  Owner,         \* the thread that joins and destroys the executor
  MaxTokens,     \* bound: tokens one thread holds
  MaxLifetimes   \* bound: 1 + calls of joinAndResetKeepAlive

ASSUME ThreadsAssumption == Owner \notin Threads /\ IsFiniteSet(Threads) /\ Threads # {}
ASSUME BoundsAssumption == MaxTokens \in Nat /\ MaxLifetimes \in Nat \ {0}

VARIABLES
  count,     \* keepAliveCount_ of the control block
  tokens,    \* KeepAlive tokens in the hands of each thread; the owner's is keepAlive_
  tpc,       \* control point of each thread outside post() and wait()
  seen,      \* keepAliveCount_ as WeakRef::lock loaded it
  weak,      \* keepAliveCount_ of the WeakRef object itself
  holds,     \* the threads that hold a token of it
  deleted,   \* the WeakRef has deleted itself
  opc,       \* control point of the owner
  state, wpc, timed, ppc, life, posts, postLife   \* keepAliveReleaseBaton_

baton == <<state, wpc, timed, ppc, life, posts, postLife>>
weakRef == <<weak, holds, deleted>>
vars == <<count, tokens, tpc, seen, opc, weakRef, baton>>

Everyone == Threads \cup {Owner}

B == INSTANCE Baton WITH Posters <- Everyone

Init ==
  /\ count = 1
  /\ tokens = [t \in Everyone |-> IF t = Owner THEN 1 ELSE 0]
  /\ tpc = [t \in Everyone |-> "run"]
  /\ seen = [t \in Threads |-> 0]
  /\ opc = "live"
  /\ weak = Cardinality(Threads)
  /\ holds = Threads
  /\ deleted = FALSE
  /\ B!Init

---------------------------------------------------------------------------
(* WeakRef::lock *)

\* A thread may begin as long as it has room for one more token.
LockLoad(t) ==
  /\ tpc[t] = "run"
  /\ t \in holds
  /\ tokens[t] < MaxTokens
  /\ tpc' = [tpc EXCEPT ![t] = "lock"]
  /\ seen' = [seen EXCEPT ![t] = count]
  /\ UNCHANGED <<weakRef, count, tokens, opc, baton>>

\* Mutant: the count is checked once, before the loop.
LockCasUnchecked(t) ==
  /\ tpc[t] = "lock"
  /\ count' = count + 1
  /\ tokens' = [tokens EXCEPT ![t] = tokens[t] + 1]
  /\ tpc' = [tpc EXCEPT ![t] = "run"]
  /\ UNCHANGED <<weakRef, seen, opc, baton>>

\* The compare-exchange, which may fail although the count is as it was.
LockCas(t) ==
  /\ tpc[t] = "lock"
  /\ seen[t] # 0
  /\ \/ /\ count = seen[t]
        /\ count' = count + 1
        /\ tokens' = [tokens EXCEPT ![t] = tokens[t] + 1]
        /\ tpc' = [tpc EXCEPT ![t] = "run"]
        /\ seen' = seen
     \/ /\ seen' = [seen EXCEPT ![t] = count]
        /\ UNCHANGED <<count, tokens, tpc>>
  /\ UNCHANGED <<weakRef, opc, baton>>

\* The executor is gone: an empty token.
LockFails(t) ==
  /\ tpc[t] = "lock"
  /\ seen[t] = 0
  /\ tpc' = [tpc EXCEPT ![t] = "run"]
  /\ UNCHANGED <<weakRef, count, tokens, seen, opc, baton>>

---------------------------------------------------------------------------
(* Tokens of the WeakRef object, which nobody but its tokens keeps *)

\* A thread that has one copies it for another.
weakAcquire(t, u) ==
  /\ tpc[t] = "run"
  /\ t \in holds
  /\ u \notin holds
  /\ weak' = weak + 1
  /\ holds' = holds \cup {u}
  /\ UNCHANGED <<deleted, count, tokens, tpc, seen, opc, baton>>

\* Mutant: the count is taken for the one after the subtraction.
lastWeakMisread(n) == n = 2

lastWeak(n) == n = 1

weakRelease(t) ==
  /\ tpc[t] = "run"
  /\ t \in holds
  /\ weak' = weak - 1
  /\ holds' = holds \ {t}
  /\ deleted' = (deleted \/ lastWeak(weak))
  /\ UNCHANGED <<count, tokens, tpc, seen, opc, baton>>

---------------------------------------------------------------------------
(* KeepAlive tokens *)

\* Copying a token: keepAliveAcquire.
keepAliveAcquire(t) ==
  /\ tpc[t] = "run"
  /\ tokens[t] \in 1 .. MaxTokens - 1
  /\ count' = count + 1
  /\ tokens' = [tokens EXCEPT ![t] = tokens[t] + 1]
  /\ UNCHANGED <<weakRef, tpc, seen, opc, baton>>

\* Mutant: off by one, the last but one release posts.
lastTokenOffByOne(n) == n <= 2

\* Mutant: nobody posts, for the count before the release is never 0.
lastTokenMissed(n) == n = 0

lastToken(n) == n = 1

\* keepAliveRelease up to the post of the baton.
Release(t) ==
  /\ tpc[t] = "run"
  /\ tokens[t] > 0
  /\ count' = count - 1
  /\ tokens' = [tokens EXCEPT ![t] = tokens[t] - 1]
  /\ tpc' = [tpc EXCEPT ![t] = IF lastToken(count) THEN "post" ELSE "run"]

keepAliveRelease(t) == Release(t) /\ UNCHANGED <<weakRef, seen, opc, baton>>

\* keepAliveReleaseBaton_.post(), then its further steps.
PostBaton(t) ==
  /\ tpc[t] = "post"
  /\ B!PostLoad(t)
  /\ tpc' = [tpc EXCEPT ![t] = "posting"]
  /\ UNCHANGED <<weakRef, count, tokens, seen, opc>>

PostOn(t) ==
  /\ tpc[t] = "posting"
  /\ B!PosterStep(t)
  /\ UNCHANGED <<weakRef, count, tokens, tpc, seen, opc>>

PostReturn(t) ==
  /\ tpc[t] = "posting"
  /\ ppc[t] = "idle"
  /\ tpc' = [tpc EXCEPT ![t] = "run"]
  /\ UNCHANGED <<weakRef, count, tokens, seen, opc, baton>>

---------------------------------------------------------------------------
(* joinKeepAlive and joinAndResetKeepAlive *)

\* keepAlive_.reset(): the owner's token goes the way of all others.
joinKeepAlive ==
  /\ opc = "live"
  /\ Release(Owner)
  /\ opc' = "join"
  /\ UNCHANGED <<weakRef, seen, baton>>

\* keepAliveReleaseBaton_.wait(), once its own post, if any, has returned.
WaitBegin ==
  /\ opc = "join"
  /\ tpc[Owner] = "run"
  /\ B!wait(FALSE)
  /\ opc' = "wait"
  /\ UNCHANGED <<weakRef, count, tokens, tpc, seen>>

WaitOn ==
  /\ opc = "wait"
  /\ B!WaiterStep
  /\ UNCHANGED <<weakRef, count, tokens, tpc, seen, opc>>

WaitDisturbed ==
  /\ opc = "wait"
  /\ B!SpuriousWakeup
  /\ UNCHANGED <<weakRef, count, tokens, tpc, seen, opc>>

\* joinKeepAlive returns.
Joined ==
  /\ opc = "wait"
  /\ wpc = "true"
  /\ opc' = "joined"
  /\ UNCHANGED <<weakRef, count, tokens, tpc, seen, baton>>

\* joinAndResetKeepAlive goes on; weak references revive at once.
ResetCount ==
  /\ opc = "joined"
  /\ life < MaxLifetimes
  /\ count' = 1
  /\ opc' = "reset"
  /\ UNCHANGED <<weakRef, tokens, tpc, seen, baton>>

ResetBaton ==
  /\ opc = "reset"
  /\ B!reset
  /\ tokens' = [tokens EXCEPT ![Owner] = 1]
  /\ opc' = "live"
  /\ UNCHANGED <<weakRef, count, tpc, seen>>

---------------------------------------------------------------------------
ThreadStep(t) == LockCas(t) \/ LockFails(t)

PostStep(t) == PostBaton(t) \/ PostOn(t) \/ PostReturn(t)

OwnerStep == WaitBegin \/ WaitOn \/ Joined

\* The executor was destroyed and nobody is inside a call.
Finished ==
  /\ opc = "joined"
  /\ life = MaxLifetimes
  /\ \A t \in Everyone : tpc[t] = "run"
  /\ UNCHANGED vars

Next ==
  \/ \E t \in Threads :
       \/ LockLoad(t) \/ ThreadStep(t) \/ keepAliveAcquire(t) \/ keepAliveRelease(t)
       \/ weakRelease(t) \/ \E u \in Threads : weakAcquire(t, u)
  \/ \E t \in Everyone : PostStep(t)
  \/ joinKeepAlive
  \/ OwnerStep
  \/ WaitDisturbed
  \/ ResetCount
  \/ ResetBaton
  \/ Finished

Spec == Init /\ [][Next]_vars

(* A thread inside a call keeps running.  Nobody has to give up a token, and *)
(* the kernel owes nobody a spurious wake-up.                               *)
Fairness ==
  /\ \A t \in Threads : WF_vars(ThreadStep(t))
  /\ \A t \in Everyone : WF_vars(PostStep(t))
  /\ WF_vars(OwnerStep)

FairSpec == Spec /\ Fairness

---------------------------------------------------------------------------
(* Properties *)

\* Past joinKeepAlive nobody holds a token, so nobody may use the executor,
\* until joinAndResetKeepAlive readies it again.
JoinedMeansReleased ==
  opc = "joined" => count = 0 /\ \A t \in Everyone : tokens[t] = 0

\* "We should never increment from 0", and joinAndResetKeepAlive finds 0: the
\* DCHECKs of the class.  Only joinAndResetKeepAlive takes the count from 0.
NeverRevived == [][count = 0 => count' = 0 \/ opc' = "reset"]_vars

\* A WeakRef deletes itself with its last token, before or after the executor is
\* gone, and never under a thread that is inside lock().
WeakRefKept ==
  /\ deleted <=> holds = {}
  /\ \A t \in Threads : tpc[t] = "lock" => ~deleted

\* The baton is used as Baton.h demands: posted at most once in a lifetime,
\* waited for by one thread, reset only after a wait.
UsesBaton == B!Spec

\* Once the last token is gone the owner, who waits or is about to, returns
\* from joinKeepAlive.
JoinReturns == count = 0 ~> opc = "joined"

=============================================================================
