------------------- MODULE DefaultKeepAliveExecutorProofs -------------------
(***************************************************************************)
(* The safety properties of DefaultKeepAliveExecutor for any number of     *)
(* threads, tokens and lifetimes, and that it uses its baton as Baton.h    *)
(* demands.                                                                *)
(***************************************************************************)
EXTENDS DefaultKeepAliveExecutor, FiniteSetTheorems, TLAPS

BP == INSTANCE BatonProofs WITH Posters <- Everyone

TypeInv ==
  /\ count \in Nat
  /\ tokens \in [Everyone -> Nat]
  /\ tpc \in [Everyone -> {"run", "lock", "post", "posting"}]
  /\ seen \in [Threads -> Nat]
  /\ opc \in {"live", "join", "wait", "joined", "reset"}
  /\ holds \subseteq Threads
  /\ deleted \in BOOLEAN

\* The tokens one thread holds; those of the owner include the one that
\* joinAndResetKeepAlive has counted already but not made.
own(t) == IF t = Owner /\ opc = "reset" THEN 1 ELSE tokens[t]

TokenSet == {x \in Everyone \X (Nat \ {0}) : x[2] <= own(x[1])}

\* The count is that of the tokens.
CountInv ==
  /\ IsFiniteSet(TokenSet)
  /\ count = Cardinality(TokenSet)
  /\ tokens[Owner] = (IF opc = "live" THEN 1 ELSE 0)

\* Who lets the count go to 0 posts the baton, once in a lifetime, and nothing
\* raises the count before the owner has seen it.
PostInv ==
  /\ \A t \in Everyone : tpc[t] = "post" =>
       count = 0 /\ posts[life] = 0 /\ opc \in {"join", "wait"}
  /\ \A t, u \in Everyone : tpc[t] = "post" /\ tpc[u] = "post" => t = u
  /\ posts[life] # 0 => opc = "reset" \/ (count = 0 /\ opc # "live")
  /\ opc \in {"live", "join"} => wpc = "fresh"
  /\ opc \in {"joined", "reset"} => wpc = "true"

KeepAliveInv == TypeInv /\ CountInv /\ PostInv /\ BP!BatonInv

\* What a step of the baton keeps (BatonProofs), for the baton in this executor.
LEMMA BatonStepHere == BP!BatonInv /\ [B!Next]_(B!vars) => BP!BatonInv'
<1>1. B!Next <=> BP!Next
  BY DEF B!Next, BP!Next, B!vars, BP!vars, B!wait, BP!wait, B!WaiterStep, BP!WaiterStep,
         B!Spin, BP!Spin, B!Block, BP!Block, B!FutexWait, BP!FutexWait, B!Awake,
         BP!Awake, B!Expire, BP!Expire, B!SpuriousWakeup, BP!SpuriousWakeup,
         B!FutexTimeout, BP!FutexTimeout, B!reset, BP!reset, B!post, BP!post,
         B!PostLoad, BP!PostLoad, B!AfterLoad, BP!AfterLoad, B!PosterStep,
         BP!PosterStep, B!PostCas, BP!PostCas, B!PostStore, BP!PostStore, B!PostWake,
         BP!PostWake, B!Finished, BP!Finished, B!waiter, BP!waiter, B!poster, BP!poster,
         B!Return, BP!Return, B!ready, BP!ready, B!mustSleep, BP!mustSleep, B!wasPosted,
         BP!wasPosted, B!Lifetimes, BP!Lifetimes
<1>2. B!vars = BP!vars /\ B!vars' = BP!vars'
  BY DEF B!vars, BP!vars
<1>3. BP!BatonInv /\ [BP!Next]_(BP!vars) => BP!BatonInv'
  BY BP!BatonStep, BoundsAssumption DEF BP!LifetimesAssumption
<1> QED
  BY <1>1, <1>2, <1>3

LEMMA BatonFacts ==
  ASSUME BP!BatonInv
  PROVE  /\ life \in 1 .. MaxLifetimes
         /\ posts \in [1 .. MaxLifetimes -> Nat]
         /\ \A l \in 1 .. MaxLifetimes : l > life => posts[l] = 0
         /\ wpc = "true" => posts[life] # 0
BY DEF BP!BatonInv, BP!TypeOK, BP!PostInv, BP!WaiterInv, BP!DeliveryInv, BP!Lifetimes

\* Every step is a step of the baton or leaves it alone: only the post has to be
\* shown to be the first of its lifetime.
LEMMA BatonRefined == KeepAliveInv /\ [Next]_vars => [B!Next]_(B!vars)
<1> SUFFICES ASSUME KeepAliveInv, [Next]_vars PROVE [B!Next]_(B!vars)
  OBVIOUS
<1>1. ASSUME NEW t \in Everyone, PostBaton(t) PROVE B!Next
  BY <1>1 DEF PostBaton, KeepAliveInv, PostInv, B!Next, B!post
<1>2. ASSUME NEW t \in Everyone, PostOn(t) PROVE B!Next
  BY <1>2 DEF PostOn, B!Next
<1>3. CASE WaitBegin
  BY <1>3 DEF WaitBegin, B!Next
<1>4. CASE WaitOn
  BY <1>4 DEF WaitOn, B!Next
<1>5. CASE WaitDisturbed
  BY <1>5 DEF WaitDisturbed, B!Next
<1>6. CASE ResetBaton
  BY <1>6 DEF ResetBaton, B!Next
<1>7. CASE UNCHANGED baton
  BY <1>7 DEF baton, B!vars
<1>8. ASSUME NEW t \in Threads,
             \/ LockLoad(t) \/ LockCas(t) \/ LockFails(t) \/ keepAliveAcquire(t)
             \/ keepAliveRelease(t) \/ weakRelease(t) \/ \E u \in Threads : weakAcquire(t, u)
      PROVE  UNCHANGED baton
  BY <1>8 DEF LockLoad, LockCas, LockFails, keepAliveAcquire, keepAliveRelease, weakRelease,
              weakAcquire
<1>9. ASSUME NEW t \in Everyone, PostReturn(t) PROVE UNCHANGED baton
  BY <1>9 DEF PostReturn
<1>10. ASSUME joinKeepAlive \/ Joined \/ ResetCount \/ Finished \/ UNCHANGED vars
       PROVE  UNCHANGED baton
  BY <1>10 DEF joinKeepAlive, Joined, ResetCount, Finished, vars
<1> QED
  BY <1>1, <1>2, <1>3, <1>4, <1>5, <1>6, <1>7, <1>8, <1>9, <1>10
  DEF Next, ThreadStep, PostStep, OwnerStep

---------------------------------------------------------------------------
(* Counting tokens *)

LEMMA OwnType == TypeInv => \A t \in Everyone : own(t) \in Nat
BY DEF TypeInv, own

\* One thread has one token more, ...
LEMMA TokenMade ==
  ASSUME TypeInv, CountInv, NEW t \in Everyone,
         own(t)' = own(t) + 1, \A u \in Everyone : u # t => own(u)' = own(u)
  PROVE  IsFiniteSet(TokenSet') /\ Cardinality(TokenSet') = count + 1
<1> DEFINE x == <<t, own(t) + 1>>
<1>1. TokenSet' = TokenSet \cup {x}
  <2>1. \A u \in Everyone, i \in Nat \ {0} :
          <<u, i>> \in TokenSet' <=> <<u, i>> \in TokenSet \cup {x}
    BY OwnType DEF TokenSet
  <2>2. TokenSet' \subseteq Everyone \X (Nat \ {0})
    BY DEF TokenSet
  <2>3. TokenSet \cup {x} \subseteq Everyone \X (Nat \ {0})
    BY OwnType DEF TokenSet
  <2> QED
    BY <2>1, <2>2, <2>3
<1>2. x \notin TokenSet
  BY OwnType DEF TokenSet
<1> QED
  BY <1>1, <1>2, FS_AddElement DEF CountInv

\* ... or one less.
LEMMA TokenGone ==
  ASSUME TypeInv, CountInv, NEW t \in Everyone, own(t) > 0,
         own(t)' = own(t) - 1, \A u \in Everyone : u # t => own(u)' = own(u)
  PROVE  IsFiniteSet(TokenSet') /\ Cardinality(TokenSet') = count - 1
<1> DEFINE x == <<t, own(t)>>
<1>1. TokenSet' = TokenSet \ {x}
  <2>1. \A u \in Everyone, i \in Nat \ {0} :
          <<u, i>> \in TokenSet' <=> <<u, i>> \in TokenSet \ {x}
    BY OwnType DEF TokenSet
  <2>2. TokenSet' \subseteq Everyone \X (Nat \ {0}) /\ TokenSet \subseteq Everyone \X (Nat \ {0})
    BY DEF TokenSet
  <2> QED
    BY <2>1, <2>2
<1>2. x \in TokenSet
  BY OwnType DEF TokenSet
<1> QED
  BY <1>1, <1>2, FS_RemoveElement DEF CountInv

\* Whoever has a token knows that the count is not 0, ...
LEMMA HeldCounts ==
  ASSUME TypeInv, CountInv, NEW t \in Everyone, own(t) > 0
  PROVE  count > 0
<1>1. <<t, 1>> \in TokenSet
  BY OwnType DEF TokenSet
<1>2. count # 0
  BY <1>1, FS_EmptySet DEF CountInv
<1> QED
  BY <1>2 DEF TypeInv

\* ... and whoever has the last one, that nobody else has one.
LEMMA LastIsAlone ==
  ASSUME TypeInv, CountInv, NEW t \in Everyone, own(t) > 0, count = 1,
         NEW u \in Everyone, u # t
  PROVE  own(u) = 0
<1> SUFFICES ASSUME own(u) > 0 PROVE FALSE
  BY OwnType
<1>1. <<t, 1>> \in TokenSet /\ <<u, 1>> \in TokenSet
  BY OwnType DEF TokenSet
<1>2. PICK x : TokenSet = {x}
  BY FS_Singleton DEF CountInv
<1> QED
  BY <1>1, <1>2

---------------------------------------------------------------------------
(* The invariant *)

LEMMA KeepAliveInit == Init => KeepAliveInv
<1> SUFFICES ASSUME Init PROVE KeepAliveInv
  OBVIOUS
<1>1. Owner \in Everyone /\ 1 \in 1 .. MaxLifetimes
  BY BoundsAssumption DEF Everyone
<1>2. TypeInv
  BY <1>1 DEF Init, TypeInv
<1>3. CountInv
  <2>1. TokenSet = {<<Owner, 1>>}
    BY <1>1 DEF TokenSet, own, Init, Everyone
  <2> QED
    BY <1>1, <2>1, FS_Singleton DEF CountInv, Init
<1>4. BP!BatonInv
  <2>1. BP!Init
    BY DEF Init, B!Init, BP!Init, B!Lifetimes, BP!Lifetimes
  <2> QED
    BY <2>1, BP!BatonInit, BoundsAssumption DEF BP!LifetimesAssumption
<1>5. PostInv
  BY <1>1 DEF PostInv, Init, B!Init, B!Lifetimes
<1> QED
  BY <1>2, <1>3, <1>4, <1>5 DEF KeepAliveInv

\* A step that neither makes nor gives up a token, nor touches the baton.
LEMMA KeepAliveAside ==
  ASSUME KeepAliveInv, TypeInv', UNCHANGED <<count, tokens, opc, baton>>,
         \A t \in Everyone : tpc'[t] = "post" => tpc[t] = "post"
  PROVE  CountInv' /\ PostInv'
<1>1. TokenSet' = TokenSet
  BY DEF TokenSet, own
<1> QED
  BY <1>1 DEF KeepAliveInv, CountInv, PostInv, baton

\* A thread takes a token, which it may while the count is not 0.
LEMMA KeepAliveAcquired ==
  ASSUME KeepAliveInv, NEW t \in Threads, count # 0, count' = count + 1,
         tokens' = [tokens EXCEPT ![t] = tokens[t] + 1], UNCHANGED <<opc, baton>>,
         \A u \in Everyone : tpc'[u] = "post" => tpc[u] = "post"
  PROVE  CountInv' /\ PostInv'
<1>0. /\ t \in Everyone /\ t # Owner /\ Owner \in Everyone
      /\ tokens \in [Everyone -> Nat] /\ TypeInv /\ CountInv
  BY ThreadsAssumption DEF Everyone, KeepAliveInv, TypeInv
<1>1. own(t)' = own(t) + 1 /\ \A u \in Everyone : u # t => own(u)' = own(u)
  BY <1>0 DEF own
<1>2. CountInv'
  BY <1>0, <1>1, TokenMade DEF CountInv
<1>3. PostInv'
  BY DEF KeepAliveInv, PostInv, baton
<1> QED
  BY <1>2, <1>3

\* A token is released, by a thread or by the owner who joins.
LEMMA KeepAliveReleased ==
  ASSUME KeepAliveInv, NEW t \in Everyone, Release(t), UNCHANGED <<weakRef, seen, baton>>,
         opc' = (IF t = Owner THEN "join" ELSE opc), t = Owner => opc = "live"
  PROVE  TypeInv' /\ CountInv' /\ PostInv'
<1>0. /\ Owner \in Everyone /\ TypeInv /\ CountInv /\ PostInv
      /\ tokens \in [Everyone -> Nat] /\ count \in Nat
  BY DEF Everyone, KeepAliveInv, TypeInv
<1>1. /\ tpc[t] = "run" /\ tokens[t] > 0 /\ count' = count - 1
      /\ tokens' = [tokens EXCEPT ![t] = tokens[t] - 1]
      /\ tpc' = [tpc EXCEPT ![t] = IF count = 1 THEN "post" ELSE "run"]
  BY DEF Release, lastToken
<1>2. own(t) = tokens[t] /\ own(t) > 0 /\ own(t)' = own(t) - 1
  BY <1>0, <1>1 DEF own
<1>3. \A u \in Everyone : u # t => own(u)' = own(u)
  BY <1>0, <1>1 DEF own
<1>4. count > 0
  BY <1>0, <1>2, HeldCounts
<1>5. CountInv'
  BY <1>0, <1>1, <1>2, <1>3, TokenGone DEF CountInv
<1>6. count = 1 => opc' \in {"join", "wait"} /\ posts[life] = 0
  <2>1. CASE t = Owner
    BY <1>0, <2>1 DEF PostInv
  <2>2. CASE t # Owner /\ count = 1
    <3>1. own(Owner) = 0
      BY <1>0, <1>2, <2>2, LastIsAlone
    <3>2. opc \notin {"live", "reset"}
      BY <1>0, <3>1 DEF own, CountInv
    <3>3. posts[life] = 0
      BY <1>0, <2>2, <3>2 DEF PostInv
    <3>4. opc # "joined"
      BY <1>0, <3>3, BatonFacts DEF PostInv, KeepAliveInv
    <3> QED
      BY <1>0, <2>2, <3>2, <3>3, <3>4 DEF TypeInv
  <2> QED
    BY <2>1, <2>2
<1>7. TypeInv'
  BY <1>0, <1>1, <1>4 DEF TypeInv, weakRef
<1>8. PostInv'
  <2>1. \A u \in Everyone : tpc[u] # "post"
    BY <1>0, <1>4 DEF PostInv
  <2>2. UNCHANGED <<posts, life, wpc>>
    BY DEF baton
  <2>3. \A u \in Everyone : tpc'[u] = "post" => u = t /\ count = 1
    BY <1>0, <1>1, <2>1 DEF TypeInv
  <2>4. posts[life] # 0 => opc = "reset"
    BY <1>0, <1>4 DEF PostInv
  <2>5. posts[life] # 0 => opc' = "reset"
    BY <1>0, <2>4
  <2>6. /\ opc' \in {"live", "join"} => wpc = "fresh"
        /\ opc' \in {"joined", "reset"} => wpc = "true"
    BY <1>0 DEF PostInv
  <2> QED
    BY <1>0, <1>1, <1>6, <2>2, <2>3, <2>5, <2>6 DEF PostInv
<1> QED
  BY <1>5, <1>7, <1>8

LEMMA KeepAliveStep == KeepAliveInv /\ [Next]_vars => KeepAliveInv'
<1> SUFFICES ASSUME KeepAliveInv, [Next]_vars PROVE KeepAliveInv'
  OBVIOUS
<1>b. BP!BatonInv'
  BY BatonRefined, BatonStepHere DEF KeepAliveInv
<1> SUFFICES TypeInv' /\ CountInv' /\ PostInv'
  BY <1>b DEF KeepAliveInv
<1>0. /\ Owner \in Everyone /\ Threads \subseteq Everyone /\ Owner \notin Threads
      /\ TypeInv /\ CountInv /\ PostInv /\ BP!BatonInv
  BY ThreadsAssumption DEF Everyone, KeepAliveInv
<1> DEFINE Goal == TypeInv' /\ CountInv' /\ PostInv'
<1>1. ASSUME NEW t \in Threads, LockLoad(t) \/ LockFails(t) PROVE Goal
  <2>1. TypeInv'
    BY <1>0, <1>1 DEF LockLoad, LockFails, TypeInv, weakRef
  <2>2. /\ UNCHANGED <<count, tokens, opc, baton>>
        /\ \A u \in Everyone : tpc'[u] = "post" => tpc[u] = "post"
    BY <1>0, <1>1 DEF LockLoad, LockFails, TypeInv
  <2> QED
    BY <2>1, <2>2, KeepAliveAside
<1>2. ASSUME NEW t \in Threads, LockCas(t) PROVE Goal
  <2>1. TypeInv'
    BY <1>0, <1>2 DEF LockCas, TypeInv, weakRef
  <2>2. CASE UNCHANGED <<count, tokens, tpc>>
    BY <1>2, <2>1, <2>2, KeepAliveAside DEF LockCas
  <2>3. CASE ~UNCHANGED <<count, tokens, tpc>>
    <3>1. /\ count # 0 /\ count' = count + 1
          /\ tokens' = [tokens EXCEPT ![t] = tokens[t] + 1] /\ UNCHANGED <<opc, baton>>
          /\ tpc' = [tpc EXCEPT ![t] = "run"]
      BY <1>2, <2>3 DEF LockCas
    <3>2. \A u \in Everyone : tpc'[u] = "post" => tpc[u] = "post"
      BY <1>0, <3>1 DEF TypeInv
    <3> QED
      BY <2>1, <3>1, <3>2, KeepAliveAcquired
  <2> QED
    BY <2>2, <2>3
<1>3. ASSUME NEW t \in Threads, keepAliveAcquire(t) PROVE Goal
  <2>1. TypeInv'
    BY <1>0, <1>3 DEF keepAliveAcquire, TypeInv, weakRef
  <2>2. count # 0
    <3>1. own(t) > 0
      BY <1>0, <1>3, BoundsAssumption DEF keepAliveAcquire, own
    <3> QED
      BY <1>0, <3>1, HeldCounts DEF TypeInv
  <2> QED
    BY <1>3, <2>1, <2>2, KeepAliveAcquired DEF keepAliveAcquire
<1>4. ASSUME NEW t \in Threads, keepAliveRelease(t) PROVE Goal
  BY <1>0, <1>4, KeepAliveReleased DEF keepAliveRelease
<1>5. ASSUME NEW t \in Threads, weakRelease(t) \/ \E u \in Threads : weakAcquire(t, u) PROVE Goal
  <2>1. TypeInv'
    BY <1>0, <1>5 DEF weakRelease, weakAcquire, TypeInv
  <2> QED
    BY <1>5, <2>1, KeepAliveAside DEF weakRelease, weakAcquire
<1>6. ASSUME NEW t \in Everyone, PostBaton(t) PROVE Goal
  <2>1. /\ tpc[t] = "post" /\ tpc' = [tpc EXCEPT ![t] = "posting"]
        /\ UNCHANGED <<weakRef, count, tokens, seen, opc>>
        /\ posts' = [posts EXCEPT ![life] = posts[life] + 1] /\ UNCHANGED <<wpc, life>>
    BY <1>6 DEF PostBaton, B!PostLoad, B!waiter
  <2>2. count = 0 /\ posts[life] = 0 /\ opc \in {"join", "wait"}
    BY <1>0, <2>1 DEF PostInv
  <2>3. TypeInv'
    BY <1>0, <2>1 DEF TypeInv, weakRef
  <2>4. TokenSet' = TokenSet
    BY <2>1 DEF TokenSet, own
  <2>5. CountInv'
    BY <1>0, <2>1, <2>4 DEF CountInv
  <2>6. \A u \in Everyone : tpc'[u] # "post"
    BY <1>0, <2>1 DEF PostInv, TypeInv
  <2>7. PostInv'
    BY <1>0, <2>1, <2>2, <2>6 DEF PostInv
  <2> QED
    BY <2>3, <2>5, <2>7
<1>7. ASSUME NEW t \in Everyone, PostOn(t) PROVE Goal
  <2>1. /\ UNCHANGED <<weakRef, count, tokens, tpc, seen, opc, posts, life>>
        /\ wpc' = wpc \/ (wpc = "asleep" /\ wpc' = "awake")
    BY <1>7 DEF PostOn, B!PosterStep, B!PostCas, B!PostStore, B!PostWake, B!waiter
  <2>2. TypeInv'
    BY <1>0, <2>1 DEF TypeInv, weakRef
  <2>3. TokenSet' = TokenSet
    BY <2>1 DEF TokenSet, own
  <2> QED
    BY <1>0, <2>1, <2>2, <2>3 DEF CountInv, PostInv
<1>8. ASSUME NEW t \in Everyone, PostReturn(t) PROVE Goal
  <2>1. TypeInv'
    BY <1>0, <1>8 DEF PostReturn, TypeInv, weakRef
  <2>2. /\ UNCHANGED <<count, tokens, opc, baton>>
        /\ \A u \in Everyone : tpc'[u] = "post" => tpc[u] = "post"
    BY <1>0, <1>8 DEF PostReturn, TypeInv
  <2> QED
    BY <2>1, <2>2, KeepAliveAside
<1>9. CASE joinKeepAlive
  BY <1>0, <1>9, KeepAliveReleased DEF joinKeepAlive
<1>10. CASE WaitBegin \/ WaitOn \/ WaitDisturbed \/ Joined
  <2>1. /\ UNCHANGED <<weakRef, count, tokens, tpc, seen, posts, life>>
        /\ opc \in {"join", "wait"}
        /\ opc' = "wait" \/ (opc' = "joined" /\ wpc' = "true" /\ wpc = "true")
    BY <1>10 DEF WaitBegin, WaitOn, WaitDisturbed, Joined, baton, B!wait, B!WaiterStep, B!Spin,
                 B!Block, B!FutexWait, B!Awake, B!Expire, B!SpuriousWakeup, B!poster
  <2>2. TypeInv'
    BY <1>0, <2>1 DEF TypeInv, weakRef
  <2>3. TokenSet' = TokenSet
    BY <2>1 DEF TokenSet, own
  <2>4. CountInv'
    BY <1>0, <2>1, <2>3 DEF CountInv
  <2>5. opc' = "joined" => \A t \in Everyone : tpc[t] # "post"
    BY <1>0, <2>1, BatonFacts DEF PostInv
  <2>6. PostInv'
    BY <1>0, <2>1, <2>5 DEF PostInv
  <2> QED
    BY <2>2, <2>4, <2>6
<1>11. CASE ResetCount
  <2>1. /\ opc = "joined" /\ count' = 1 /\ opc' = "reset"
        /\ UNCHANGED <<weakRef, tokens, tpc, seen, posts, life, wpc>>
    BY <1>11 DEF ResetCount, baton
  <2>2. posts[life] # 0 /\ count = 0
    BY <1>0, <2>1, BatonFacts DEF PostInv
  <2>3. own(Owner)' = own(Owner) + 1
    BY <1>0, <2>1 DEF own, CountInv
  <2>4. \A u \in Everyone : u # Owner => own(u)' = own(u)
    BY <2>1 DEF own
  <2>5. CountInv'
    BY <1>0, <2>1, <2>2, <2>3, <2>4, TokenMade DEF CountInv
  <2>6. PostInv'
    BY <1>0, <2>1, <2>2 DEF PostInv
  <2>7. TypeInv'
    BY <1>0, <2>1 DEF TypeInv, weakRef
  <2> QED
    BY <2>5, <2>6, <2>7
<1>12. CASE ResetBaton
  <2>1. /\ opc = "reset" /\ opc' = "live" /\ tokens' = [tokens EXCEPT ![Owner] = 1]
        /\ life' = life + 1 /\ life < MaxLifetimes /\ wpc' = "fresh"
        /\ UNCHANGED <<weakRef, count, tpc, seen, posts>>
    BY <1>12 DEF ResetBaton, B!reset, B!poster
  <2>2. posts[life] # 0 /\ posts[life + 1] = 0
    BY <1>0, <2>1, BatonFacts, BoundsAssumption DEF PostInv
  <2>3. TypeInv'
    BY <1>0, <2>1 DEF TypeInv, weakRef
  <2>4. \A u \in Everyone : own(u)' = own(u)
    BY <1>0, <2>1 DEF own, TypeInv
  <2>5. TokenSet' = TokenSet
    BY <2>4 DEF TokenSet
  <2>6. CountInv'
    BY <1>0, <2>1, <2>5 DEF CountInv, TypeInv
  <2>7. PostInv'
    BY <1>0, <2>1, <2>2 DEF PostInv
  <2> QED
    BY <2>3, <2>6, <2>7
<1>13. CASE Finished \/ UNCHANGED vars
  <2>1. UNCHANGED <<count, tokens, tpc, seen, opc, weakRef, baton>>
    BY <1>13 DEF Finished, vars
  <2>2. TypeInv'
    BY <1>0, <2>1 DEF TypeInv, weakRef
  <2> QED
    BY <2>1, <2>2, KeepAliveAside
<1> QED
  BY <1>1, <1>2, <1>3, <1>4, <1>5, <1>6, <1>7, <1>8, <1>9, <1>10, <1>11, <1>12, <1>13
  DEF Next, ThreadStep, PostStep, OwnerStep

LEMMA KeepAliveInvariant == Spec => []KeepAliveInv
BY KeepAliveInit, KeepAliveStep, PTL DEF Spec

---------------------------------------------------------------------------
(* What follows *)

(***************************************************************************)
(* For any number of threads and tokens: past joinKeepAlive the count is 0 *)
(* and nobody holds a token, so nobody may use the executor.               *)
(***************************************************************************)
THEOREM JoinWaitsForAll == Spec => []JoinedMeansReleased
<1>1. KeepAliveInv => JoinedMeansReleased
  <2> SUFFICES ASSUME KeepAliveInv, opc = "joined"
               PROVE  count = 0 /\ \A t \in Everyone : tokens[t] = 0
    BY DEF JoinedMeansReleased
  <2>1. count = 0
    BY BatonFacts DEF KeepAliveInv, PostInv
  <2>2. \A t \in Everyone : ~(own(t) > 0)
    BY <2>1, HeldCounts DEF KeepAliveInv
  <2>3. \A t \in Everyone : own(t) = tokens[t] /\ tokens[t] \in Nat
    BY DEF own, KeepAliveInv, TypeInv
  <2> QED
    BY <2>1, <2>2, <2>3
<1> QED
  BY KeepAliveInvariant, <1>1, PTL

(***************************************************************************)
(* The count never leaves 0 but in joinAndResetKeepAlive: a weak reference *)
(* never revives an executor that is being destroyed.                      *)
(***************************************************************************)
THEOREM CountStaysZero == Spec => NeverRevived
<1>1. KeepAliveInv /\ [Next]_vars => [count = 0 => count' = 0 \/ opc' = "reset"]_vars
  <2> SUFFICES ASSUME KeepAliveInv, Next, count = 0 PROVE count' = 0 \/ opc' = "reset"
    OBVIOUS
  <2>1. \A t \in Everyone : ~(own(t) > 0)
    BY HeldCounts DEF KeepAliveInv
  <2>2. /\ \A t \in Threads : ~(tokens[t] > 0) /\ ~(tokens[t] \in 1 .. MaxTokens - 1)
        /\ opc = "live" => ~(tokens[Owner] > 0)
    BY <2>1, ThreadsAssumption, BoundsAssumption DEF own, Everyone, KeepAliveInv, TypeInv
  <2> QED
    BY <2>2 DEF Next, ThreadStep, PostStep, OwnerStep, LockLoad, LockCas, LockFails,
       keepAliveAcquire, keepAliveRelease, Release, weakRelease, weakAcquire, PostBaton, PostOn,
       PostReturn, joinKeepAlive, WaitBegin, WaitOn, WaitDisturbed, Joined, ResetCount, ResetBaton,
       Finished, vars
<1> QED
  BY KeepAliveInvariant, <1>1, PTL DEF Spec, NeverRevived

(***************************************************************************)
(* The executor uses its baton as Baton.h demands: it is posted at most    *)
(* once in each lifetime, one thread waits for it, and it is reset only    *)
(* after a wait has returned.                                              *)
(***************************************************************************)
THEOREM BatonUsedWell == Spec => UsesBaton
<1>1. Init => B!Init
  BY DEF Init
<1> QED
  BY KeepAliveInvariant, BatonRefined, <1>1, PTL DEF Spec, UsesBaton, B!Spec

---------------------------------------------------------------------------
(* The WeakRef object *)

WeakInv ==
  /\ IsFiniteSet(holds) /\ weak = Cardinality(holds)
  /\ WeakRefKept
  /\ \A t \in Threads : tpc[t] = "lock" => t \in holds

LEMMA WeakInit == Init => WeakInv
BY ThreadsAssumption DEF Init, WeakInv, WeakRefKept, Everyone

LEMMA WeakStep == TypeInv /\ WeakInv /\ [Next]_vars => WeakInv'
<1> SUFFICES ASSUME TypeInv, WeakInv, [Next]_vars PROVE WeakInv'
  OBVIOUS
<1>0. Threads \subseteq Everyone
  BY DEF Everyone
<1>1. ASSUME NEW t \in Threads, NEW u \in Threads, weakAcquire(t, u) PROVE WeakInv'
  <2>1. IsFiniteSet(holds') /\ weak' = Cardinality(holds')
    BY <1>1, FS_AddElement DEF WeakInv, weakAcquire
  <2> QED
    BY <1>1, <2>1 DEF WeakInv, WeakRefKept, weakAcquire
<1>2. ASSUME NEW t \in Threads, weakRelease(t) PROVE WeakInv'
  <2>1. IsFiniteSet(holds') /\ weak' = Cardinality(holds')
    BY <1>2, FS_RemoveElement DEF WeakInv, weakRelease
  <2>2. holds # {} /\ t \in holds /\ tpc[t] = "run"
    BY <1>2 DEF weakRelease
  <2>3. weak = 1 <=> holds = {t}
    <3>1. weak = 1 <=> \E x : holds = {x}
      BY FS_Singleton DEF WeakInv
    <3> QED
      BY <2>2, <3>1
  <2>4. deleted' <=> holds' = {}
    BY <1>2, <2>2, <2>3 DEF WeakInv, WeakRefKept, weakRelease, lastWeak, TypeInv
  <2> QED
    BY <1>2, <2>1, <2>2, <2>4 DEF WeakInv, WeakRefKept, weakRelease
<1>3. ASSUME UNCHANGED weakRef, \A t \in Threads : tpc'[t] = "lock" => t \in holds
      PROVE  WeakInv'
  BY <1>3 DEF WeakInv, WeakRefKept, weakRef
<1>4. ASSUME NEW t \in Threads,
             LockLoad(t) \/ ThreadStep(t) \/ keepAliveAcquire(t) \/ keepAliveRelease(t)
      PROVE  UNCHANGED weakRef /\ \A u \in Threads : tpc'[u] = "lock" => u \in holds
  BY <1>0, <1>4 DEF LockLoad, ThreadStep, LockCas, LockFails, keepAliveAcquire, keepAliveRelease,
     Release, WeakInv, TypeInv
<1>5. ASSUME NEW t \in Everyone, PostStep(t)
      PROVE  UNCHANGED weakRef /\ \A u \in Threads : tpc'[u] = "lock" => u \in holds
  BY <1>0, <1>5 DEF PostStep, PostBaton, PostOn, PostReturn, WeakInv, TypeInv
<1>6. ASSUME \/ joinKeepAlive \/ OwnerStep \/ WaitDisturbed \/ ResetCount \/ ResetBaton
             \/ Finished \/ UNCHANGED vars
      PROVE  UNCHANGED weakRef /\ \A u \in Threads : tpc'[u] = "lock" => u \in holds
  BY <1>0, <1>6 DEF joinKeepAlive, Release, OwnerStep, WaitBegin, WaitOn, Joined, WaitDisturbed,
     ResetCount, ResetBaton, Finished, vars, WeakInv, TypeInv
<1> QED
  BY <1>1, <1>2, <1>3, <1>4, <1>5, <1>6 DEF Next

(***************************************************************************)
(* For any number of threads: a WeakRef deletes itself with its last token *)
(* and never under a thread that is inside lock().                         *)
(***************************************************************************)
THEOREM WeakRefsKept == Spec => []WeakRefKept
<1>1. KeepAliveInv => TypeInv
  BY DEF KeepAliveInv
<1>2. WeakInv => WeakRefKept
  BY DEF WeakInv
<1> QED
  BY KeepAliveInvariant, WeakInit, WeakStep, <1>1, <1>2, PTL DEF Spec

=============================================================================
