------------------------ MODULE ConnectionPoolProofs ------------------------
(***************************************************************************)
(* Theorems about ConnectionPool, for any number of threads and any        *)
(* configuration.                                                          *)
(***************************************************************************)
EXTENDS ConnectionPool, FiniteSetTheorems, TLAPS

\* An element of a sequence is in its element set.
LEMMA ElementOfSeq ==
  ASSUME NEW S, NEW s \in Seq(S), NEW i \in DOMAIN s
  PROVE  s[i] \in S
OBVIOUS

\* Taking the front off a deque of wrappers leaves a deque of wrappers.
LEMMA TailOfSeq ==
  ASSUME NEW S, NEW s \in Seq(S), s # <<>>
  PROVE  /\ Head(s) \in S
         /\ Tail(s) \in Seq(S)
         /\ Len(Tail(s)) = Len(s) - 1
         /\ \A i \in DOMAIN Tail(s) : i + 1 \in DOMAIN s /\ Tail(s)[i] = s[i + 1]
OBVIOUS

\* The deque, the counters and the threads' states keep their types; `total`,
\* an unsigned counter in pool.hpp, never goes below zero.  That needs the
\* accounting: a thread that releases has been counted.
InUseCounted == total = Cardinality(InUse) + failures

HeldWhenLeased == \A t \in Threads : pc[t] = "leased" <=> held[t] # None

TypeInv == TypeOK /\ InUseCounted /\ HeldWhenLeased

\* The number of threads in use changes by one when one thread enters or
\* leaves that set.
LEMMA EnterInUse ==
  ASSUME TypeOK, TypeOK', NEW t \in Threads, NEW s,
         pc[t] \notin {"creating", "leased"}, s \in {"creating", "leased"},
         pc' = [pc EXCEPT ![t] = s]
  PROVE  /\ Cardinality(InUse') = Cardinality(InUse) + 1
         /\ Cardinality(InUse) \in Nat
<1>1. InUse' = InUse \union {t} /\ t \notin InUse
  BY DEF TypeOK, InUse
<1>2. IsFiniteSet(InUse)
  BY FS_Subset, PoolAssumption DEF InUse
<1>3. QED
  BY <1>1, <1>2, FS_AddElement, FS_CardinalityType

LEMMA LeaveInUse ==
  ASSUME NEW t \in InUse, InUse' = InUse \ {t}
  PROVE  /\ Cardinality(InUse') = Cardinality(InUse) - 1
         /\ Cardinality(InUse) \in Nat
         /\ Cardinality(InUse') \in Nat
<1>1. IsFiniteSet(InUse) /\ IsFiniteSet(InUse')
  BY FS_Subset, PoolAssumption DEF InUse
<1>2. QED
  BY <1>1, FS_RemoveElement, FS_CardinalityType

LEMMA StayInUse ==
  ASSUME TypeOK, TypeOK', NEW t \in Threads, NEW s,
         pc[t] \in {"creating", "leased"} <=> s \in {"creating", "leased"},
         pc' = [pc EXCEPT ![t] = s]
  PROVE  InUse' = InUse
BY DEF TypeOK, InUse

LEMMA TypeInit == Init => TypeInv
<1> SUFFICES ASSUME Init PROVE TypeInv
  OBVIOUS
<1>1. TypeOK
  <2>1. available \in Seq(Wrapper)
    <3>1. available \in [1 .. InitialSize -> Wrapper]
      BY DEF Init, Wrapper
    <3>2. InitialSize \in Nat
      BY PoolAssumption
    <3>3. QED
      BY <3>1, <3>2
  <2>2. QED
    BY <2>1 DEF Init, TypeOK
<1>2. InUseCounted
  <2>1. InUse = {}
    BY DEF Init, InUse
  <2>2. QED
    BY <2>1, FS_EmptySet DEF Init, InUseCounted
<1>3. HeldWhenLeased
  BY DEF Init, HeldWhenLeased
<1>4. QED
  BY <1>1, <1>2, <1>3 DEF TypeInv

LEMMA TypeStep == TypeInv /\ [Next]_vars => TypeInv'
<1> SUFFICES ASSUME TypeInv, [Next]_vars PROVE TypeInv'
  OBVIOUS
<1> USE DEF TypeInv
<1>1. ASSUME NEW t \in Threads, Refuse(t) PROVE TypeInv'
  <2>1. TypeOK'
    BY <1>1 DEF TypeOK, Refuse, poolVars, ttlVars
  <2>2. InUse' = InUse
    BY <1>1, <2>1, StayInUse DEF Refuse
  <2>3. QED
    BY <1>1, <2>1, <2>2 DEF TypeOK, Refuse, InUseCounted, HeldWhenLeased, poolVars
<1>2. ASSUME NEW t \in Threads, Admit(t) PROVE TypeInv'
  <2>1. TypeOK'
    BY <1>2 DEF TypeOK, Admit, poolVars, ttlVars
  <2>2. InUse' = InUse
    BY <1>2, <2>1, StayInUse DEF Admit
  <2>3. QED
    BY <1>2, <2>1, <2>2 DEF TypeOK, Admit, InUseCounted, HeldWhenLeased, poolVars
<1>3. ASSUME NEW t \in Threads, TakeIdle(t) PROVE TypeInv'
  <2>1. Head(available) \in Wrapper /\ Tail(available) \in Seq(Wrapper)
    BY <1>3, TailOfSeq DEF TypeOK, TakeIdle
  <2>2. TypeOK'
    BY <1>3, <2>1 DEF TypeOK, TakeIdle, Wrapper, Counted, FrontPopped, ttlVars
  <2>3. Cardinality(InUse') = Cardinality(InUse) + 1 /\ Cardinality(InUse) \in Nat
    BY <1>3, <2>2, EnterInUse DEF TakeIdle
  <2>4. InUseCounted'
    BY <1>3, <2>3 DEF TypeOK, TakeIdle, Counted, InUseCounted
  <2>5. HeldWhenLeased'
    BY <1>3, <2>1, PoolAssumption DEF TypeOK, TakeIdle, HeldWhenLeased, Wrapper
  <2>6. QED
    BY <2>2, <2>4, <2>5
<1>4. ASSUME NEW t \in Threads, BeginCreate(t) PROVE TypeInv'
  <2>1. TypeOK'
    BY <1>4 DEF TypeOK, BeginCreate, ttlVars
  <2>2. Cardinality(InUse') = Cardinality(InUse) + 1 /\ Cardinality(InUse) \in Nat
    BY <1>4, <2>1, EnterInUse DEF BeginCreate
  <2>3. QED
    BY <1>4, <2>1, <2>2 DEF TypeOK, BeginCreate, InUseCounted, HeldWhenLeased
<1>5. ASSUME NEW t \in Threads, CreateOk(t) PROVE TypeInv'
  <2>1. TypeOK'
    BY <1>5 DEF TypeOK, CreateOk, poolVars, ttlVars
  <2>2. InUse' = InUse
    BY <1>5, <2>1, StayInUse DEF CreateOk
  <2>3. HeldWhenLeased'
    BY <1>5, PoolAssumption DEF TypeOK, CreateOk, HeldWhenLeased
  <2>4. QED
    BY <1>5, <2>1, <2>2, <2>3 DEF CreateOk, InUseCounted, poolVars
<1>6. ASSUME NEW t \in Threads, CreateThrows(t) PROVE TypeInv'
  <2>1. TypeOK'
    BY <1>6 DEF TypeOK, CreateThrows, ttlVars
  <2>2. Cardinality(InUse') = Cardinality(InUse) - 1 /\ Cardinality(InUse) \in Nat
    <3>1. InUse' = InUse \ {t} /\ t \in InUse
      BY <1>6 DEF TypeOK, CreateThrows, InUse
    <3>2. QED
      BY <3>1, LeaveInUse
  <2>3. InUseCounted'
    <3>1. total' = total /\ failures' = failures + 1
      BY <1>6 DEF CreateThrows
    <3>2. total \in Nat /\ failures \in Nat /\ total = Cardinality(InUse) + failures
      BY DEF TypeOK, InUseCounted
    <3>3. QED
      BY <2>2, <3>1, <3>2 DEF InUseCounted
  <2>4. HeldWhenLeased'
    BY <1>6 DEF TypeOK, CreateThrows, HeldWhenLeased
  <2>5. QED
    BY <2>1, <2>3, <2>4
<1>7. ASSUME NEW t \in Threads, Recover(t) PROVE TypeInv'
  <2>1. TypeOK'
    BY <1>7 DEF TypeOK, Recover, poolVars, ttlVars
  <2>2. InUse' = InUse
    BY <1>7, <2>1, StayInUse DEF Recover
  <2>3. QED
    BY <1>7, <2>1, <2>2 DEF TypeOK, Recover, InUseCounted, HeldWhenLeased, poolVars
<1>8. ASSUME NEW t \in Threads, Invalidate(t) PROVE TypeInv'
  <2>1. InUse' = InUse
    BY <1>8 DEF Invalidate, InUse
  <2>2. QED
    BY <1>8, <2>1 DEF TypeOK, Invalidate, InUseCounted, HeldWhenLeased, ttlVars
<1>9. ASSUME NEW t \in Threads, Release(t) PROVE TypeInv'
  <2>1. pc' \in [Threads -> {"out", "refused", "admitted", "creating", "threw", "leased"}]
    BY <1>9 DEF TypeOK, Release
  <2>2. InUse' = InUse \ {t} /\ t \in InUse
    BY <1>9 DEF TypeOK, Release, InUse
  <2>4. /\ Cardinality(InUse') = Cardinality(InUse) - 1
        /\ Cardinality(InUse) \in Nat
        /\ Cardinality(InUse') \in Nat
    BY <2>2, LeaveInUse
  <2>5. total' \in Nat /\ InUseCounted'
    BY <1>9, <2>4 DEF TypeOK, Release, Decrement, InUseCounted
  <2>6. held[t] \in Connections
    BY <1>9 DEF TypeOK, Release, HeldWhenLeased
  <2>7. available' \in Seq(Wrapper)
    <3>1. [con |-> held[t], time |-> now] \in Wrapper
      BY <2>6 DEF TypeOK, Wrapper
    <3>2. PushBack(t) \in Seq(Wrapper)
      BY <3>1 DEF TypeOK, PushBack
    <3>3. QED
      BY <1>9, <3>2 DEF TypeOK, Release
  <2>8. TypeOK'
    BY <1>9, <2>1, <2>5, <2>7 DEF TypeOK, Release, ttlVars
  <2>9. HeldWhenLeased'
    BY <1>9 DEF TypeOK, Release, HeldWhenLeased
  <2>10. QED
    BY <2>5, <2>8, <2>9
<1>10. CASE Ttl \/ Destroy \/ Tick \/ UNCHANGED vars
  <2>1. InUse' = InUse
    BY <1>10 DEF InUse, Ttl, TtlWake, TtlRemove, TtlSleep, Destroy, Tick, vars
  <2>2. CASE TtlRemove
    BY <2>1, <2>2, TailOfSeq DEF TypeOK, TtlRemove, InUseCounted, HeldWhenLeased, ttlVars
  <2>3. CASE TtlWake
    BY <2>1, <2>3
    DEF TypeOK, InUseCounted, HeldWhenLeased, TtlWake, WakeTime, poolVars
  <2>4. CASE TtlSleep
    BY <2>1, <2>4 DEF TypeOK, InUseCounted, HeldWhenLeased, TtlSleep, poolVars
  <2>5. CASE Destroy
    BY <2>1, <2>5 DEF TypeOK, InUseCounted, HeldWhenLeased, Destroy
  <2>6. CASE Tick
    BY <2>1, <2>6 DEF TypeOK, InUseCounted, HeldWhenLeased, Tick, poolVars, ttlVars
  <2>7. CASE UNCHANGED vars
    BY <2>1, <2>7 DEF TypeOK, InUseCounted, HeldWhenLeased, vars
  <2>8. QED
    BY <1>10, <2>2, <2>3, <2>4, <2>5, <2>6, <2>7 DEF Ttl
<1>11. QED
  BY <1>1, <1>2, <1>3, <1>4, <1>5, <1>6, <1>7, <1>8, <1>9, <1>10
  DEF Next, Thread, Acquire, Gone

\* Type correctness: in particular `total`, unsigned in pool.hpp, never
\* underflows in release().
THEOREM TypeCorrect == Spec => []TypeOK
<1>1. Spec => []TypeInv
  BY TypeInit, TypeStep, PTL DEF Spec
<1>2. TypeInv => TypeOK
  BY DEF TypeInv
<1>3. QED
  BY <1>1, <1>2, PTL
-----------------------------------------------------------------------------
(***************************************************************************)
(* How far `total` can exceed maxConnections                               *)
(***************************************************************************)
\* `total` may go up by one for each thread that passed the test of line 113
\* and has not yet counted itself, and a thread that passes it finds `total`
\* below the maximum: then total + |Admitted| is at most
\* (MaxConnections - 1) + |Threads|, and no later step raises the sum.
Admitted == {t \in Threads : pc[t] = "admitted"}

BoundInv == total + Cardinality(Admitted) < MaxConnections + Cardinality(Threads)

LEMMA AdmittedFinite ==
  /\ IsFiniteSet(Admitted) /\ Cardinality(Admitted) \in Nat
  /\ Cardinality(Threads) \in Nat
  /\ Cardinality(Admitted) <= Cardinality(Threads)
<1>1. IsFiniteSet(Threads) /\ Admitted \subseteq Threads
  BY PoolAssumption DEF Admitted
<1>2. QED
  BY <1>1, FS_Subset, FS_CardinalityType

\* A thread that leaves the admitted ones makes room for one more unit.
LEMMA LeaveAdmitted ==
  ASSUME TypeOK, NEW t \in Threads, NEW s,
         pc[t] = "admitted", s # "admitted", pc' = [pc EXCEPT ![t] = s]
  PROVE  Cardinality(Admitted') = Cardinality(Admitted) - 1
<1>1. Admitted' = Admitted \ {t} /\ t \in Admitted
  BY DEF TypeOK, Admitted
<1>2. QED
  BY <1>1, AdmittedFinite, FS_RemoveElement

LEMMA BoundInit == Init => BoundInv
<1> SUFFICES ASSUME Init PROVE BoundInv
  OBVIOUS
<1>1. Admitted = {}
  BY DEF Init, Admitted
<1>2. Cardinality(Admitted) = 0
  BY <1>1, FS_EmptySet
<1>3. Cardinality(Threads) \in Nat /\ Cardinality(Threads) # 0
  BY PoolAssumption, FS_CardinalityType, FS_EmptySet
<1>4. MaxConnections \in Nat
  BY PoolAssumption
<1>5. QED
  BY <1>2, <1>3, <1>4 DEF Init, BoundInv

LEMMA BoundStep == TypeInv /\ BoundInv /\ [Next]_vars => BoundInv'
<1> SUFFICES ASSUME TypeInv, BoundInv, [Next]_vars PROVE BoundInv'
  OBVIOUS
<1>t. total \in Nat /\ MaxConnections \in Nat /\ TypeOK
  BY PoolAssumption DEF TypeInv, TypeOK
<1>c. Cardinality(Admitted) \in Nat /\ Cardinality(Threads) \in Nat
  BY AdmittedFinite
<1>1. ASSUME NEW t \in Threads, Admit(t) PROVE BoundInv'
  <2>1. total' = total /\ total < MaxConnections
    BY <1>1, <1>t DEF Admit, Full, poolVars
  <2>2. Admitted' \subseteq Threads
    BY DEF Admitted
  <2>3. /\ Cardinality(Admitted') \in Nat
        /\ Cardinality(Admitted') <= Cardinality(Threads)
    BY <2>2, PoolAssumption, FS_Subset, FS_CardinalityType
  <2>4. QED
    BY <1>t, <1>c, <2>1, <2>3 DEF BoundInv
<1>2. ASSUME NEW t \in Threads, TakeIdle(t) \/ BeginCreate(t) PROVE BoundInv'
  <2>1. Cardinality(Admitted') = Cardinality(Admitted) - 1
    <3>1. CASE TakeIdle(t)
      BY <3>1, <1>t, LeaveAdmitted DEF TakeIdle
    <3>2. CASE BeginCreate(t)
      BY <3>2, <1>t, LeaveAdmitted DEF BeginCreate
    <3>3. QED
      BY <1>2, <3>1, <3>2
  <2>2. total' = total + 1
    BY <1>2 DEF TakeIdle, BeginCreate, Counted
  <2>3. QED
    BY <1>t, <1>c, <2>1, <2>2 DEF BoundInv
<1>3. ASSUME NEW t \in Threads,
             Refuse(t) \/ CreateOk(t) \/ CreateThrows(t) \/ Recover(t) \/ Release(t)
      PROVE  BoundInv'
  <2>1. Admitted' = Admitted
    BY <1>3, <1>t
    DEF TypeOK, Admitted, Refuse, CreateOk, CreateThrows, Recover, Release
  <2>2. total' \in {total, total - 1}
    BY <1>3 DEF Refuse, CreateOk, CreateThrows, Recover, Release, Decrement, poolVars
  <2>3. QED
    BY <1>t, <1>c, <2>1, <2>2 DEF BoundInv
<1>4. ASSUME NEW t \in Threads, Invalidate(t) PROVE BoundInv'
  BY <1>4 DEF Invalidate, BoundInv, Admitted
<1>5. CASE Ttl \/ Destroy \/ Tick \/ UNCHANGED vars
  <2>1. pc' = pc /\ total' = total
    BY <1>5 DEF Ttl, TtlWake, TtlRemove, TtlSleep, Destroy, Tick, poolVars, vars
  <2>2. QED
    BY <2>1 DEF BoundInv, Admitted
<1>6. QED
  BY <1>1, <1>2, <1>3, <1>4, <1>5 DEF Next, Thread, Acquire, Gone

\* The unlocked test of acquire() limits the leases, the creations in progress
\* and the units lost to a throwing factory to fewer than
\* maxConnections + the number of threads.
THEOREM TotalIsBounded == Spec => []TotalBounded
<1>1. Spec => []TypeInv
  BY TypeInit, TypeStep, PTL DEF Spec
<1>2. Spec => []BoundInv
  BY <1>1, BoundInit, BoundStep, PTL DEF Spec
<1>3. TypeInv /\ BoundInv => TotalBounded
  BY AdmittedFinite, PoolAssumption DEF TypeInv, TypeOK, BoundInv, TotalBounded
<1>4. QED
  BY <1>1, <1>2, <1>3, PTL

\* `total` is exactly the leases, the creations in progress and the failures.
THEOREM TotalIsAccounted == Spec => []TotalAccounts
<1>1. Spec => []TypeInv
  BY TypeInit, TypeStep, PTL DEF Spec
<1>2. TypeInv => TotalAccounts
  BY DEF TypeInv, InUseCounted, TotalAccounts
<1>3. QED
  BY <1>1, <1>2, PTL
-----------------------------------------------------------------------------
(***************************************************************************)
(* The pool leases every connection to one thread at a time, keeps its     *)
(* deque in the order of release, closes no connection early, and so       *)
(* implements ConnectionLease: for any number of threads and connections.  *)
(***************************************************************************)

\* The connections of a deque of distinct connections without its front.
LEMMA IdleOfTail ==
  ASSUME available \in Seq(Wrapper), available # <<>>, available' = Tail(available),
         \A i, j \in DOMAIN available : available[i].con = available[j].con => i = j
  PROVE  /\ Idle' = Idle \ {Head(available).con}
         /\ Head(available).con \in Idle
         /\ \A i, j \in DOMAIN available' : available'[i].con = available'[j].con => i = j
<1>1. /\ DOMAIN available = 1 .. Len(available) /\ Len(available) \in Nat /\ Len(available) > 0
      /\ Head(available) = available[1]
      /\ DOMAIN available' = 1 .. (Len(available) - 1)
      /\ \A i \in DOMAIN available' : available'[i] = available[i + 1]
  OBVIOUS
<1>2. Head(available).con \in Idle
  BY <1>1 DEF Idle
<1>3. ASSUME NEW c \in Idle' PROVE c \in Idle \ {Head(available).con}
  <2>1. PICK i \in DOMAIN available' : c = available'[i].con
    BY <1>3 DEF Idle
  <2>2. i + 1 \in DOMAIN available /\ i + 1 # 1 /\ c = available[i + 1].con /\ 1 \in DOMAIN available
    BY <1>1, <2>1
  <2>3. QED
    BY <1>1, <2>2 DEF Idle
<1>4. ASSUME NEW c \in Idle, c # Head(available).con PROVE c \in Idle'
  <2>1. PICK i \in DOMAIN available : c = available[i].con
    BY <1>4 DEF Idle
  <2>2. i - 1 \in DOMAIN available' /\ c = available'[i - 1].con
    BY <1>1, <1>4, <2>1
  <2>3. QED
    BY <2>2 DEF Idle
<1>5. ASSUME NEW i \in DOMAIN available', NEW j \in DOMAIN available',
             available'[i].con = available'[j].con
      PROVE  i = j
  <2>1. i + 1 \in DOMAIN available /\ j + 1 \in DOMAIN available
    BY <1>1
  <2>2. available[i + 1].con = available[j + 1].con
    BY <1>1, <1>5
  <2>3. QED
    BY <1>1, <2>1, <2>2
<1>6. QED
  BY <1>2, <1>3, <1>4, <1>5

\* The connections of a deque with one more at its back.
LEMMA IdleOfPush ==
  ASSUME available \in Seq(Wrapper), NEW w \in Wrapper, available' = Append(available, w)
  PROVE  /\ Idle' = Idle \union {w.con}
         /\ DOMAIN available' = DOMAIN available \union {Len(available) + 1}
         /\ Len(available) \in Nat /\ DOMAIN available = 1 .. Len(available)
         /\ available'[Len(available) + 1] = w
         /\ \A i \in DOMAIN available : available'[i] = available[i]
<1>1. /\ DOMAIN available = 1 .. Len(available) /\ Len(available) \in Nat
      /\ DOMAIN available' = 1 .. (Len(available) + 1)
      /\ available'[Len(available) + 1] = w
      /\ \A i \in DOMAIN available : available'[i] = available[i]
  OBVIOUS
<1>2. DOMAIN available' = DOMAIN available \union {Len(available) + 1}
  BY <1>1
<1>3. Idle' = Idle \union {w.con}
  <2>1. Idle' = {available'[i].con : i \in DOMAIN available'}
    BY DEF Idle
  <2>2. QED
    BY <1>1, <1>2, <2>1 DEF Idle
<1>4. QED
  BY <1>1, <1>2, <1>3
-----------------------------------------------------------------------------
(***************************************************************************)
(* Exclusive leases                                                        *)
(***************************************************************************)
\* What every thread holds is in Holding.
LEMMA HeldIsHolding ==
  ASSUME TypeOK, NEW t \in Threads, held[t] # None
  PROVE  held[t] \in Connections /\ held[t] \in Holding
BY DEF TypeOK, Holding

LEMMA ExclusiveInit == Init => Exclusive
<1> SUFFICES ASSUME Init PROVE Exclusive
  OBVIOUS
<1>1. Holding = {}
  BY DEF Init, Holding
<1>2. \A i, j \in DOMAIN available : available[i].con = available[j].con => i = j
  <2>1. /\ available \in [1 .. InitialSize -> [con : Connections, time : {0}]]
        /\ \A i, j \in 1 .. InitialSize : available[i] = available[j] => i = j
    BY DEF Init
  <2> SUFFICES ASSUME NEW i \in DOMAIN available, NEW j \in DOMAIN available,
                      available[i].con = available[j].con
               PROVE  i = j
    OBVIOUS
  <2>2. /\ available[i] \in [con : Connections, time : {0}]
        /\ available[j] \in [con : Connections, time : {0}]
    BY <2>1
  <2>3. available[i] = available[j]
    BY <2>2
  <2>4. QED
    BY <2>1, <2>3
<1>3. QED
  BY <1>1, <1>2 DEF Exclusive, Init

LEMMA ExclusiveStep == TypeInv /\ Exclusive /\ [Next]_vars => Exclusive'
<1> SUFFICES ASSUME TypeInv, Exclusive, [Next]_vars PROVE Exclusive'
  OBVIOUS
<1>t. TypeOK /\ HeldWhenLeased /\ available \in Seq(Wrapper) /\ None \notin Connections
  BY PoolAssumption DEF TypeInv, TypeOK
<1>1. ASSUME NEW t \in Threads, TakeIdle(t) PROVE Exclusive'
  <2>1. /\ available # <<>> /\ available' = Tail(available)
        /\ held' = [held EXCEPT ![t] = Head(available).con] /\ held[t] = None
    BY <1>1, <1>t DEF TakeIdle, FrontPopped, HeldWhenLeased
  <2>2. /\ Idle' = Idle \ {Head(available).con}
        /\ Head(available).con \in Idle
        /\ \A i, j \in DOMAIN available' : available'[i].con = available'[j].con => i = j
    BY <1>t, <2>1, IdleOfTail DEF Exclusive
  <2>3. \A u \in Threads : held[u] # Head(available).con
    <3> SUFFICES ASSUME NEW u \in Threads, held[u] = Head(available).con PROVE FALSE
      OBVIOUS
    <3>0. Head(available) \in Wrapper
      BY <1>t, <2>1, TailOfSeq
    <3>1. Head(available).con # None
      BY <1>t, <3>0 DEF Wrapper
    <3>2. QED
      BY <1>t, <2>2, <3>1, HeldIsHolding DEF Exclusive
  <2>4. \A u, x \in Threads : held'[u] = held'[x] /\ held'[u] # None => u = x
    BY <1>t, <2>1, <2>3 DEF TypeOK, Exclusive
  <2>5. Holding' \subseteq Holding \union {Head(available).con}
    BY <1>t, <2>1 DEF TypeOK, Holding
  <2>6. QED
    BY <2>2, <2>4, <2>5 DEF Exclusive
<1>2. ASSUME NEW t \in Threads, CreateOk(t) PROVE Exclusive'
  <2>1. PICK c \in Connections \ (Idle \union Holding) : held' = [held EXCEPT ![t] = c]
    BY <1>2 DEF CreateOk
  <2>2. available' = available /\ Idle' = Idle
    BY <1>2 DEF CreateOk, poolVars, Idle
  <2>3. \A u \in Threads : held[u] # c
    BY <1>t, <2>1, HeldIsHolding
  <2>4. \A u, x \in Threads : held'[u] = held'[x] /\ held'[u] # None => u = x
    BY <1>t, <2>1, <2>3 DEF TypeOK, Exclusive
  <2>5. Holding' \subseteq Holding \union {c}
    BY <1>t, <2>1 DEF TypeOK, Holding
  <2>6. QED
    BY <2>1, <2>2, <2>4, <2>5 DEF Exclusive
<1>3. ASSUME NEW t \in Threads, Release(t) PROVE Exclusive'
  <2>1. /\ held[t] # None /\ held' = [held EXCEPT ![t] = None]
        /\ available' = IF Kept(t) THEN PushBack(t) ELSE available
    BY <1>3, <1>t DEF Release, HeldWhenLeased
  <2>2. held[t] \in Connections /\ held[t] \in Holding /\ held[t] \notin Idle
    BY <1>t, <2>1, HeldIsHolding DEF Exclusive
  <2>3. \A u, x \in Threads : held'[u] = held'[x] /\ held'[u] # None => u = x
    BY <1>t, <2>1 DEF TypeOK, Exclusive
  <2>4. Holding' \subseteq Holding \ {held[t]}
    BY <1>t, <2>1 DEF TypeOK, Exclusive, Holding
  <2>5. CASE Kept(t)
    <3> DEFINE w == [con |-> held[t], time |-> now]
    <3>1. w \in Wrapper /\ w.con = held[t] /\ available' = Append(available, w)
      BY <1>t, <2>1, <2>2, <2>5 DEF TypeOK, Wrapper, PushBack
    <3> HIDE DEF w
    <3>2. /\ Idle' = Idle \union {held[t]}
          /\ DOMAIN available' = DOMAIN available \union {Len(available) + 1}
          /\ Len(available) \in Nat /\ DOMAIN available = 1 .. Len(available)
          /\ available'[Len(available) + 1].con = held[t]
          /\ \A i \in DOMAIN available : available'[i] = available[i]
      BY <1>t, <3>1, IdleOfPush
    <3>3. \A i \in DOMAIN available : available'[i].con # held[t]
      BY <2>2, <3>2 DEF Idle
    <3>4. \A i, j \in DOMAIN available' : available'[i].con = available'[j].con => i = j
      BY <3>2, <3>3 DEF Exclusive
    <3>5. Idle' \intersect Holding' = {}
      BY <2>4, <3>2 DEF Exclusive
    <3>6. QED
      BY <2>3, <3>4, <3>5 DEF Exclusive
  <2>6. CASE ~ Kept(t)
    <3>1. available' = available /\ Idle' = Idle
      BY <2>1, <2>6 DEF Idle
    <3>2. QED
      BY <2>3, <2>4, <3>1 DEF Exclusive
  <2>7. QED
    BY <2>5, <2>6
<1>4. CASE TtlRemove
  <2>1. /\ available # <<>> /\ available' = Tail(available) /\ held' = held
    BY <1>4 DEF TtlRemove
  <2>2. /\ Idle' \subseteq Idle
        /\ \A i, j \in DOMAIN available' : available'[i].con = available'[j].con => i = j
    BY <1>t, <2>1, IdleOfTail DEF Exclusive
  <2>3. QED
    BY <2>1, <2>2 DEF Exclusive, Holding
<1>5. CASE Destroy
  <2>1. available' = <<>> /\ held' = held
    BY <1>5 DEF Destroy
  <2>2. Idle' = {} /\ Holding' = Holding
    BY <2>1 DEF Idle, Holding
  <2>3. QED
    BY <2>1, <2>2 DEF Exclusive
<1>6. ASSUME NEW t \in Threads,
             Refuse(t) \/ Admit(t) \/ BeginCreate(t) \/ CreateThrows(t) \/ Recover(t) \/ Invalidate(t)
      PROVE  Exclusive'
  <2>1. available' = available /\ held' = held
    BY <1>6 DEF Refuse, Admit, BeginCreate, CreateThrows, Recover, Invalidate, poolVars
  <2>2. QED
    BY <2>1 DEF Exclusive, Idle, Holding
<1>7. CASE TtlWake \/ TtlSleep \/ Tick \/ UNCHANGED vars
  <2>1. available' = available /\ held' = held
    BY <1>7 DEF TtlWake, TtlSleep, Tick, poolVars, vars
  <2>2. QED
    BY <2>1 DEF Exclusive, Idle, Holding
<1>8. QED
  BY <1>1, <1>2, <1>3, <1>4, <1>5, <1>6, <1>7 DEF Next, Thread, Acquire, Ttl, Gone

\* A connection is leased to one thread, or idle in one place of the deque.
THEOREM LeasesAreExclusive == Spec => []Exclusive
<1>1. Spec => []TypeInv
  BY TypeInit, TypeStep, PTL DEF Spec
<1>2. QED
  BY <1>1, ExclusiveInit, ExclusiveStep, PTL DEF Spec
-----------------------------------------------------------------------------
(***************************************************************************)
(* The order of the deque, and when connections are closed                 *)
(***************************************************************************)
\* The deque is sorted because a release appends the time of its own, and that
\* is not before the times the deque holds.
NoneLater == \A i \in DOMAIN available : available[i].time <= now

OrderInv == NoneLater /\ SortedByIdleTime /\ scanTime <= now

LEMMA OrderInit == Init => OrderInv
<1> SUFFICES ASSUME Init PROVE OrderInv
  OBVIOUS
<1>1. available \in [1 .. InitialSize -> [con : Connections, time : {0}]] /\ now = 0 /\ scanTime = 0
  BY DEF Init
<1>2. \A i \in DOMAIN available : available[i].time = 0
  BY <1>1
<1>3. QED
  BY <1>1, <1>2 DEF OrderInv, NoneLater, SortedByIdleTime

\* What a step that keeps the deque, or drops its front, does to the order.
LEMMA OrderKept ==
  ASSUME TypeOK, OrderInv, now' \in Nat, now' >= now, scanTime' <= now',
         \/ available' = available
         \/ available' = <<>>
         \/ available # <<>> /\ available' = Tail(available)
  PROVE  OrderInv'
<1>s. available \in Seq(Wrapper) /\ now \in Nat
  BY DEF TypeOK
<1>e. \A i \in DOMAIN available : available[i] \in Wrapper
  BY <1>s, ElementOfSeq
<1>t. /\ available \in Seq(Wrapper) /\ now \in Nat
      /\ \A i \in DOMAIN available : available[i].time \in Nat
  BY <1>s, <1>e DEF Wrapper
<1>1. CASE available' = available
  BY <1>t, <1>1 DEF OrderInv, NoneLater, SortedByIdleTime
<1>2. CASE available' = <<>>
  BY <1>2 DEF OrderInv, NoneLater, SortedByIdleTime
<1>3. CASE available # <<>> /\ available' = Tail(available)
  <2>1. /\ DOMAIN available = 1 .. Len(available) /\ Len(available) \in Nat
        /\ DOMAIN available' = 1 .. (Len(available) - 1)
        /\ \A i \in DOMAIN available' : i + 1 \in DOMAIN available /\ available'[i] = available[i + 1]
    BY <1>t, <1>3, TailOfSeq
  <2>2. NoneLater'
    BY <1>t, <2>1 DEF OrderInv, NoneLater
  <2>3. SortedByIdleTime'
    <3> SUFFICES ASSUME NEW i \in DOMAIN available', NEW j \in DOMAIN available', i < j
                 PROVE  available'[i].time <= available'[j].time
      BY DEF SortedByIdleTime
    <3>1. i + 1 \in DOMAIN available /\ j + 1 \in DOMAIN available /\ i + 1 < j + 1
      BY <2>1
    <3>2. QED
      BY <2>1, <3>1 DEF OrderInv, SortedByIdleTime
  <2>4. QED
    BY <2>2, <2>3 DEF OrderInv
<1>4. QED
  BY <1>1, <1>2, <1>3

LEMMA OrderStep == TypeInv /\ OrderInv /\ [Next]_vars => OrderInv'
<1> SUFFICES ASSUME TypeInv, OrderInv, [Next]_vars PROVE OrderInv'
  OBVIOUS
<1>t. TypeOK /\ HeldWhenLeased /\ now \in Nat /\ scanTime \in Nat /\ scanTime <= now
  BY DEF TypeInv, TypeOK, OrderInv
<1>1. ASSUME NEW t \in Threads, Acquire(t) \/ Invalidate(t) PROVE OrderInv'
  <2>1. /\ now' = now /\ scanTime' = scanTime
        /\ available' = available \/ (available # <<>> /\ available' = Tail(available))
    BY <1>1 DEF Acquire, Refuse, Admit, TakeIdle, FrontPopped, BeginCreate, CreateOk,
                CreateThrows, Recover, Invalidate, poolVars, ttlVars
  <2>2. QED
    BY <1>t, <2>1, OrderKept
<1>2. ASSUME NEW t \in Threads, Release(t) PROVE OrderInv'
  <2>1. now' = now /\ scanTime' = scanTime /\ held[t] \in Connections
    BY <1>t, <1>2, HeldIsHolding DEF Release, HeldWhenLeased, ttlVars
  <2>2. CASE ~ Kept(t)
    BY <1>t, <1>2, <2>1, <2>2, OrderKept DEF Release
  <2>3. CASE Kept(t)
    <3> DEFINE w == [con |-> held[t], time |-> now]
    <3>1. w \in Wrapper /\ w.time = now /\ available' = Append(available, w)
      BY <1>t, <1>2, <2>1, <2>3 DEF Wrapper, Release, PushBack
    <3> HIDE DEF w
    <3>2. /\ DOMAIN available' = DOMAIN available \union {Len(available) + 1}
          /\ Len(available) \in Nat /\ DOMAIN available = 1 .. Len(available)
          /\ available'[Len(available) + 1].time = now
          /\ \A i \in DOMAIN available : available'[i] = available[i]
      BY <1>t, <3>1, IdleOfPush DEF TypeOK
    <3>3. NoneLater'
      BY <1>t, <2>1, <3>2 DEF OrderInv, NoneLater
    <3>4. SortedByIdleTime'
      BY <1>t, <3>2 DEF OrderInv, NoneLater, SortedByIdleTime
    <3>5. QED
      BY <1>t, <2>1, <3>3, <3>4 DEF OrderInv
  <2>4. QED
    BY <2>2, <2>3
<1>3. CASE Ttl \/ Destroy
  <2>1. /\ now' = now /\ scanTime' \in {scanTime, now}
        /\ \/ available' = available \/ available' = <<>>
           \/ available # <<>> /\ available' = Tail(available)
    BY <1>3 DEF Ttl, TtlWake, WakeTime, TtlRemove, TtlSleep, Destroy, poolVars, ttlVars
  <2>2. QED
    BY <1>t, <2>1, OrderKept
<1>4. CASE Tick
  <2>1. now' = now + 1 /\ scanTime' = scanTime /\ available' = available
    BY <1>4 DEF Tick, poolVars, ttlVars
  <2>2. QED
    BY <1>t, <2>1, OrderKept
<1>5. CASE UNCHANGED vars
  BY <1>t, <1>5, OrderKept DEF vars
<1>6. QED
  BY <1>1, <1>2, <1>3, <1>4, <1>5 DEF Next, Thread, Gone

\* The deque is sorted by idle time, so the scan that stops at the first
\* connection that is not expired misses none.
THEOREM DequeIsSorted == Spec => []SortedByIdleTime
<1>1. Spec => []TypeInv
  BY TypeInit, TypeStep, PTL DEF Spec
<1>2. Spec => []OrderInv
  BY <1>1, OrderInit, OrderStep, PTL DEF Spec
<1>3. OrderInv => SortedByIdleTime
  BY DEF OrderInv
<1>4. QED
  BY <1>2, <1>3, PTL
-----------------------------------------------------------------------------
\* The deque holds connections.
LEMMA IdleIsTyped == TypeOK => Idle \subseteq Connections
<1> SUFFICES ASSUME TypeOK, NEW i \in DOMAIN available PROVE available[i].con \in Connections
  BY DEF Idle
<1>1. available[i] \in Wrapper
  BY ElementOfSeq DEF TypeOK
<1>2. QED
  BY <1>1 DEF Wrapper

\* A connection that leaves the deque for no lease has been idle long enough:
\* the predicate on a step that NeverClosedEarly says of every step.
EarlyStep ==
  \A i \in DOMAIN available :
    available[i].con \notin Idle' \union Holding' /\ ttl' # "joined"
      => now - available[i].time >= MaxIdleTime

LEMMA EarlyOfStep == TypeInv /\ Exclusive /\ OrderInv /\ [Next]_vars => EarlyStep
<1> SUFFICES ASSUME TypeInv, Exclusive, OrderInv, [Next]_vars PROVE EarlyStep
  OBVIOUS
<1>t. TypeOK /\ HeldWhenLeased /\ available \in Seq(Wrapper) /\ now \in Nat /\ scanTime \in Nat
  BY DEF TypeInv, TypeOK
<1>x. \A i, j \in DOMAIN available : available[i].con = available[j].con => i = j
  BY DEF Exclusive
<1>i. \A i \in DOMAIN available : available[i].con \in Idle
  BY DEF Idle
<1>1. CASE Idle \subseteq Idle' \union Holding'
  BY <1>i, <1>1 DEF EarlyStep
<1>2. ASSUME NEW t \in Threads, TakeIdle(t) PROVE EarlyStep
  <2>1. Idle' = Idle \ {Head(available).con} /\ Head(available).con \in Idle
    BY <1>t, <1>x, <1>2, IdleOfTail DEF TakeIdle, FrontPopped
  <2>2. held'[t] = Head(available).con /\ Head(available).con # None
    <3>1. Idle \subseteq Connections
      BY <1>t, IdleIsTyped
    <3>2. held' = [held EXCEPT ![t] = Head(available).con] /\ held \in [Threads -> Connections \union {None}]
      BY <1>t, <1>2 DEF TakeIdle, TypeOK
    <3>3. QED
      BY <2>1, <3>1, <3>2, PoolAssumption DEF PoolAssumption
  <2>3. Head(available).con \in Holding'
    BY <2>2 DEF Holding
  <2>4. QED
    BY <1>1, <2>1, <2>3
<1>3. ASSUME NEW t \in Threads, Release(t) PROVE EarlyStep
  <2>1. CASE Kept(t)
    <3> DEFINE w == [con |-> held[t], time |-> now]
    <3>1. w \in Wrapper
      BY <1>t, <1>3, HeldIsHolding DEF Wrapper, Release, HeldWhenLeased
    <3>2. available' = Append(available, w)
      BY <1>3, <2>1 DEF Release, PushBack
    <3> HIDE DEF w
    <3>3. Idle' = Idle \union {w.con}
      BY <1>t, <3>1, <3>2, IdleOfPush
    <3>4. QED
      BY <1>1, <3>3
  <2>2. CASE ~ Kept(t)
    BY <1>1, <1>3, <2>2 DEF Release, Idle
  <2>3. QED
    BY <2>1, <2>2
<1>4. CASE TtlRemove
  <2>1. /\ available # <<>> /\ available' = Tail(available)
        /\ scanTime - Head(available).time >= MaxIdleTime
    BY <1>4 DEF TtlRemove, Expired
  <2>2. Idle' = Idle \ {Head(available).con}
    BY <1>t, <1>x, <2>1, IdleOfTail
  <2>3. /\ DOMAIN available = 1 .. Len(available) /\ Len(available) \in Nat
        /\ 1 \in DOMAIN available /\ Head(available) = available[1]
    BY <1>t, <2>1
  <2>4. available[1].time \in Nat
    <3>1. available[1] \in Wrapper
      BY <1>t, <2>3, ElementOfSeq
    <3>2. QED
      BY <3>1 DEF Wrapper
  <2>5. now - available[1].time >= MaxIdleTime
    BY <1>t, <2>1, <2>3, <2>4, PoolAssumption DEF OrderInv, PoolAssumption
  <2>6. ASSUME NEW i \in DOMAIN available, available[i].con \notin Idle' PROVE i = 1
    BY <1>i, <1>x, <2>2, <2>3, <2>6
  <2>7. QED
    BY <2>5, <2>6 DEF EarlyStep
<1>5. CASE Destroy
  BY <1>5 DEF Destroy, EarlyStep
<1>6. ASSUME NEW t \in Threads,
             Refuse(t) \/ Admit(t) \/ BeginCreate(t) \/ CreateOk(t) \/ CreateThrows(t)
               \/ Recover(t) \/ Invalidate(t)
      PROVE  EarlyStep
  <2>1. available' = available
    BY <1>6 DEF Refuse, Admit, BeginCreate, CreateOk, CreateThrows, Recover, Invalidate, poolVars
  <2>2. QED
    BY <1>1, <2>1 DEF Idle
<1>7. CASE TtlWake \/ TtlSleep \/ Tick \/ UNCHANGED vars
  <2>1. available' = available
    BY <1>7 DEF TtlWake, TtlSleep, Tick, poolVars, vars
  <2>2. QED
    BY <1>1, <2>1 DEF Idle
<1>8. QED
  BY <1>2, <1>3, <1>4, <1>5, <1>6, <1>7 DEF Next, Thread, Acquire, Ttl, Gone

\* The TTL thread closes a connection only when it has idled for maxIdleTime,
\* by the clock of the moment it is closed.
THEOREM NoneIsClosedEarly == Spec => NeverClosedEarly
<1>1. Spec => []TypeInv
  BY TypeInit, TypeStep, PTL DEF Spec
<1>2. Spec => []Exclusive
  BY LeasesAreExclusive
<1>3. Spec => []OrderInv
  BY <1>1, OrderInit, OrderStep, PTL DEF Spec
<1>4. TypeInv /\ Exclusive /\ OrderInv /\ [Next]_vars => [EarlyStep]_vars
  BY EarlyOfStep
<1>5. Spec => [][EarlyStep]_vars
  BY <1>1, <1>2, <1>3, <1>4, PTL DEF Spec
<1>6. QED
  BY <1>5, PTL DEF NeverClosedEarly, EarlyStep
-----------------------------------------------------------------------------
(***************************************************************************)
(* The pool implements exclusive leases                                    *)
(***************************************************************************)
LEMMA LeaseInitially == Init => Lease!LeaseInit
<1> SUFFICES ASSUME Init PROVE Lease!LeaseInit
  OBVIOUS
<1>1. Idle \subseteq Connections
  BY TypeInit, IdleIsTyped DEF TypeInv
<1>2. QED
  BY <1>1 DEF Init, Lease!LeaseInit

\* Every step of the pool is a step of the abstract leases, or changes none.
LEMMA LeaseStep ==
  TypeInv /\ Exclusive /\ [Next]_vars => [Lease!LeaseNext]_(Lease!leaseVars)
<1> SUFFICES ASSUME TypeInv, Exclusive, [Next]_vars
             PROVE  [Lease!LeaseNext]_(Lease!leaseVars)
  OBVIOUS
<1>t. TypeOK /\ HeldWhenLeased /\ available \in Seq(Wrapper)
  BY DEF TypeInv, TypeOK
<1>x. \A i, j \in DOMAIN available : available[i].con = available[j].con => i = j
  BY DEF Exclusive
<1>1. ASSUME NEW t \in Threads, TakeIdle(t) PROVE Lease!Reuse(t)
  <2>1. Idle' = Idle \ {Head(available).con} /\ Head(available).con \in Idle
    BY <1>t, <1>x, <1>1, IdleOfTail DEF TakeIdle, FrontPopped
  <2>2. /\ held' = [held EXCEPT ![t] = Head(available).con] /\ invalid' = invalid
        /\ held[t] = None
    BY <1>t, <1>1 DEF TakeIdle, HeldWhenLeased
  <2>3. QED
    BY <2>1, <2>2 DEF Lease!Reuse
<1>2. ASSUME NEW t \in Threads, CreateOk(t) PROVE Lease!Open(t)
  <2>1. held[t] = None /\ available' = available /\ invalid' = invalid
    BY <1>t, <1>2 DEF CreateOk, HeldWhenLeased, poolVars
  <2>2. \E c \in Connections \ (Idle \union Holding) : held' = [held EXCEPT ![t] = c]
    BY <1>2 DEF CreateOk
  <2>3. QED
    BY <2>1, <2>2 DEF Lease!Open, Lease!Leased, Holding, Idle
<1>3. ASSUME NEW t \in Threads, Invalidate(t) PROVE Lease!Fail(t)
  BY <1>t, <1>3 DEF Invalidate, Lease!Fail, HeldWhenLeased, Idle
<1>4. ASSUME NEW t \in Threads, Release(t) PROVE Lease!Return(t)
  <2>1. /\ held[t] # None /\ held' = [held EXCEPT ![t] = None]
        /\ invalid' = invalid \ {held[t]}
    BY <1>t, <1>4 DEF Release, HeldWhenLeased
  <2>2. CASE Kept(t)
    <3> DEFINE w == [con |-> held[t], time |-> now]
    <3>1. w \in Wrapper /\ w.con = held[t]
      BY <1>t, <1>4, HeldIsHolding DEF Wrapper, Release, HeldWhenLeased, TypeOK
    <3>2. available' = Append(available, w)
      BY <1>4, <2>2 DEF Release, PushBack
    <3> HIDE DEF w
    <3>3. Idle' = Idle \union {held[t]} /\ held[t] \notin invalid
      BY <1>t, <2>2, <3>1, <3>2, IdleOfPush DEF Kept
    <3>4. QED
      BY <2>1, <3>3 DEF Lease!Return
  <2>3. CASE ~ Kept(t)
    <3>1. Idle' = Idle
      BY <1>4, <2>3 DEF Release, Idle
    <3>2. QED
      BY <2>1, <3>1 DEF Lease!Return
  <2>4. QED
    BY <2>2, <2>3
<1>5. CASE TtlRemove \/ Destroy
  <2>1. held' = held /\ invalid' = invalid
    BY <1>5 DEF TtlRemove, Destroy
  <2>2. Idle' \subseteq Idle
    <3>1. CASE TtlRemove
      BY <1>t, <1>x, <3>1, IdleOfTail DEF TtlRemove
    <3>2. CASE Destroy
      BY <3>2 DEF Destroy, Idle
    <3>3. QED
      BY <1>5, <3>1, <3>2
  <2>3. QED
    BY <2>1, <2>2 DEF Lease!LeaseNext, Lease!Close
<1>6. ASSUME NEW t \in Threads,
             Refuse(t) \/ Admit(t) \/ BeginCreate(t) \/ CreateThrows(t) \/ Recover(t)
      PROVE  UNCHANGED Lease!leaseVars
  BY <1>6 DEF Refuse, Admit, BeginCreate, CreateThrows, Recover, poolVars, Lease!leaseVars, Idle
<1>7. CASE TtlWake \/ TtlSleep \/ Tick \/ UNCHANGED vars
  BY <1>7 DEF TtlWake, TtlSleep, Tick, poolVars, vars, Lease!leaseVars, Idle
<1>8. QED
  BY <1>1, <1>2, <1>3, <1>4, <1>5, <1>6, <1>7
     DEF Next, Thread, Acquire, Ttl, Gone, Lease!LeaseNext

\* The pool's counter, clock, mutex and deque are an implementation of leases
\* that are exclusive and never of a connection that failed.
THEOREM ImplementsTheLease == Spec => ImplementsLease
<1>1. Spec => []TypeInv
  BY TypeInit, TypeStep, PTL DEF Spec
<1>2. QED
  BY <1>1, LeasesAreExclusive, LeaseInitially, LeaseStep, PTL
     DEF Spec, ImplementsLease, Lease!LeaseSpec
=============================================================================
