--------------------------- MODULE ConnectionPool ---------------------------
(***************************************************************************)
(* The client library's connection pool, src/src/api/pool/pool.hpp.        *)
(*                                                                         *)
(* Threads acquire and release connections; a TTL thread wakes up every    *)
(* second and closes the connections that have been idle for too long.     *)
(* Every access to the deque is under one mutex.  The factory runs with    *)
(* the mutex held, for as long as a connect takes, so a creation in        *)
(* progress is a state of its own; every other critical section is one     *)
(* action.  acquire() reads `total` before it locks: the read is an action *)
(* of its own.  (It is a data race; the build does one aligned load, which *)
(* returns a value `total` has at that moment.)                            *)
(***************************************************************************)
EXTENDS Integers, Sequences, FiniteSets

CONSTANTS Threads,          \* the threads that use the pool
          Connections,      \* connection identities; a closed one may be reused
          None,             \* no connection
          InitialSize,      \* Configuration::initialSize
          MaxPoolSize,      \* Configuration::maxPoolSize
          MaxConnections,   \* Configuration::maxConnections
          MaxIdleTime,      \* Configuration::maxIdleTime, in seconds
          MaxTime,          \* bound: the clock stops here
          MaxFailures       \* bound: how often the factory throws

ASSUME PoolAssumption ==
  /\ IsFiniteSet(Threads) /\ Threads # {}
  /\ None \notin Connections
  /\ {InitialSize, MaxPoolSize, MaxConnections, MaxIdleTime} \subseteq Nat
  /\ {MaxTime, MaxFailures} \subseteq Nat

VARIABLES available,   \* the deque: front is the connection idle for longest
          total,       \* `total`
          pc,          \* pc[t]: where thread t is in acquire() or in its lease
          held,        \* held[t]: the connection in t's Proxy
          invalid,     \* the leased connections whose valid() is false
          now,         \* system_clock, in seconds
          ttl,         \* where the TTL thread is
          scanTime,    \* `now` of removeExpired(), read once before its loop
          failures     \* history: factory calls that threw

vars == <<available, total, pc, held, invalid, now, ttl, scanTime, failures>>
poolVars == <<available, total, invalid, failures>>
ttlVars == <<ttl, scanTime>>

\* The ConnectionWrappers of the deque.
Wrapper == [con : Connections, time : Nat]

Idle == {available[i].con : i \in DOMAIN available}
Holding == {held[t] : t \in Threads} \ {None}

\* The only critical section with a state inside it is the one that creates.
MutexFree == \A t \in Threads : pc[t] # "creating"
-----------------------------------------------------------------------------
(***************************************************************************)
(* Pool::Pool: initialSize connections, and the TTL thread is started.     *)
(***************************************************************************)
Init ==
  /\ available \in {s \in [1 .. InitialSize -> [con : Connections, time : {0}]] :
                      \A i, j \in 1 .. InitialSize : s[i] = s[j] => i = j}
  /\ total = 0
  /\ pc = [t \in Threads |-> "out"]
  /\ held = [t \in Threads |-> None]
  /\ invalid = {}
  /\ now = 0
  /\ ttl = "asleep"
  /\ scanTime = 0
  /\ failures = 0
-----------------------------------------------------------------------------
(***************************************************************************)
(* acquire()                                                               *)
(***************************************************************************)
\* Line 113.  Mutant: one lease too many.
FullOffByOne == total > MaxConnections
Full == total >= MaxConnections

\* Line 113, before the lock: too many leases, nullopt is returned.
Refuse(t) ==
  /\ pc[t] = "out" /\ ttl # "joined"
  /\ Full
  /\ pc' = [pc EXCEPT ![t] = "refused"]
  /\ UNCHANGED <<poolVars, held, now, ttlVars>>

\* Line 113, before the lock: the thread may go on and wait for the mutex.
Admit(t) ==
  /\ pc[t] = "out" /\ ttl # "joined"
  /\ ~ Full
  /\ pc' = [pc EXCEPT ![t] = "admitted"]
  /\ UNCHANGED <<poolVars, held, now, ttlVars>>

\* Line 116 of an acquire that finds a connection.  Mutant: only created
\* connections are counted.
CountedUncounted == total
Counted == total + 1

\* Line 125.  Mutant: the moved-from wrapper stays in the deque.
FrontKept == available
FrontPopped == Tail(available)

\* Lines 115-116 and 124-127: the connection that idled longest is leased.
TakeIdle(t) ==
  /\ pc[t] = "admitted" /\ MutexFree
  /\ available # <<>>
  /\ total' = Counted
  /\ held' = [held EXCEPT ![t] = Head(available).con]
  /\ available' = FrontPopped
  /\ pc' = [pc EXCEPT ![t] = "leased"]
  /\ UNCHANGED <<invalid, failures, now, ttlVars>>

\* Lines 115-121: the deque is empty, the factory is called under the mutex.
BeginCreate(t) ==
  /\ pc[t] = "admitted" /\ MutexFree
  /\ available = <<>>
  /\ total' = total + 1
  /\ pc' = [pc EXCEPT ![t] = "creating"]
  /\ UNCHANGED <<available, invalid, failures, held, now, ttlVars>>

\* Line 121: the factory returns a new connection.
CreateOk(t) ==
  /\ pc[t] = "creating"
  /\ \E c \in Connections \ (Idle \union Holding) :
       held' = [held EXCEPT ![t] = c]
  /\ pc' = [pc EXCEPT ![t] = "leased"]
  /\ UNCHANGED <<poolVars, now, ttlVars>>

\* Line 121: the factory throws.  The exception leaves acquire(), the mutex is
\* unlocked on the way out and `total` keeps the unit added at line 116.
CreateThrows(t) ==
  /\ pc[t] = "creating"
  /\ failures < MaxFailures
  /\ failures' = failures + 1
  /\ pc' = [pc EXCEPT ![t] = "threw"]
  /\ UNCHANGED <<available, total, invalid, held, now, ttlVars>>

\* The caller has seen nullopt, or the exception, and may try again.
Recover(t) ==
  /\ pc[t] \in {"refused", "threw"}
  /\ pc' = [pc EXCEPT ![t] = "out"]
  /\ UNCHANGED <<poolVars, held, now, ttlVars>>
-----------------------------------------------------------------------------
(***************************************************************************)
(* The lease, and release() from ~Proxy                                    *)
(***************************************************************************)
\* The connection fails in use and its valid() turns false.
Invalidate(t) ==
  /\ pc[t] = "leased"
  /\ held[t] \notin invalid
  /\ invalid' = invalid \union {held[t]}
  /\ UNCHANGED <<available, total, failures, pc, held, now, ttlVars>>

\* Lines 134 and 136.  Mutant: the validity is not tested.
KeptUnchecked(t) == Len(available) < MaxPoolSize
Kept(t) == held[t] \notin invalid /\ Len(available) < MaxPoolSize

\* Line 136.  Mutant: pushed to the front, as on a stack.
PushFront(t) == <<[con |-> held[t], time |-> now]>> \o available
PushBack(t) == Append(available, [con |-> held[t], time |-> now])

\* Lines 133-134.  Mutant: an invalid connection returns before the decrement.
DecrementIfValid(t) == IF held[t] \in invalid THEN total ELSE total - 1
Decrement(t) == total - 1

\* Lines 132-136: kept when it is valid and the deque has room, else closed.
Release(t) ==
  /\ pc[t] = "leased" /\ MutexFree
  /\ total' = Decrement(t)
  /\ available' = IF Kept(t) THEN PushBack(t) ELSE available
  /\ invalid' = invalid \ {held[t]}
  /\ held' = [held EXCEPT ![t] = None]
  /\ pc' = [pc EXCEPT ![t] = "out"]
  /\ UNCHANGED <<failures, now, ttlVars>>
-----------------------------------------------------------------------------
(***************************************************************************)
(* ttlMonitor() and removeExpired()                                        *)
(***************************************************************************)
\* Line 160.  Mutant: the clock is read when the thread starts, not per scan.
StartTime == scanTime
WakeTime == now

\* Lines 181-183 and 160: the TTL thread wakes up and reads the clock once.
TtlWake ==
  /\ ttl = "asleep"
  /\ ttl' = "scanning"
  /\ scanTime' = WakeTime
  /\ UNCHANGED <<poolVars, pc, held, now>>

\* Line 169, the complement of the test that ends the loop.  Mutant: the
\* comparison is off by one.
ExpiredOffByOne(w, at) == at - w.time + 1 >= MaxIdleTime
Expired(w, at) == at - w.time >= MaxIdleTime

\* Lines 164-174: one round of the loop closes the front of the deque.
TtlRemove ==
  /\ ttl = "scanning" /\ MutexFree
  /\ available # <<>>
  /\ Expired(Head(available), scanTime)
  /\ available' = Tail(available)
  /\ UNCHANGED <<total, invalid, failures, pc, held, now, ttlVars>>

\* Lines 166 and 169: the loop ends and the thread sleeps for a second.
TtlSleep ==
  /\ ttl = "scanning" /\ MutexFree
  /\ available # <<>> => ~ Expired(Head(available), scanTime)
  /\ ttl' = "asleep"
  /\ UNCHANGED <<poolVars, pc, held, now, scanTime>>

\* Pool::~Pool, lines 102-106, when no thread is in acquire() or has a lease:
\* the TTL thread ends its sleep and is joined, then the deque is destroyed.
Destroy ==
  /\ \A t \in Threads : pc[t] = "out"
  /\ ttl = "asleep"
  /\ ttl' = "joined"
  /\ available' = <<>>
  /\ UNCHANGED <<total, invalid, failures, pc, held, now, scanTime>>

\* A second passes.
Tick ==
  /\ now < MaxTime
  /\ now' = now + 1
  /\ UNCHANGED <<poolVars, pc, held, ttlVars>>

\* Nothing is left to do once the pool is gone.
Gone == ttl = "joined" /\ now = MaxTime /\ UNCHANGED vars
-----------------------------------------------------------------------------
Acquire(t) ==
  \/ Refuse(t) \/ Admit(t) \/ TakeIdle(t) \/ BeginCreate(t)
  \/ CreateOk(t) \/ CreateThrows(t) \/ Recover(t)

Thread(t) == Acquire(t) \/ Invalidate(t) \/ Release(t)

Ttl == TtlWake \/ TtlRemove \/ TtlSleep

Next == (\E t \in Threads : Thread(t)) \/ Ttl \/ Destroy \/ Tick \/ Gone

Spec == Init /\ [][Next]_vars

(***************************************************************************)
(* A thread waiting for the mutex gets it in the end although others take  *)
(* it in between (strong fairness: the operating system wakes waiters up); *)
(* a connect ends, one way or the other; the TTL thread runs.  Nothing     *)
(* makes a caller acquire, or release what it holds.                       *)
(***************************************************************************)
Fairness ==
  /\ \A t \in Threads : /\ SF_vars(TakeIdle(t) \/ BeginCreate(t))
                        /\ WF_vars(CreateOk(t) \/ CreateThrows(t))
  /\ WF_vars(TtlWake) /\ SF_vars(TtlRemove \/ TtlSleep)

FairSpec == Spec /\ Fairness
-----------------------------------------------------------------------------
(***************************************************************************)
(* Properties                                                              *)
(***************************************************************************)
TypeOK ==
  /\ available \in Seq(Wrapper)
  /\ total \in Nat
  /\ pc \in [Threads -> {"out", "refused", "admitted", "creating", "threw", "leased"}]
  /\ held \in [Threads -> Connections \union {None}]
  /\ invalid \subseteq Connections
  /\ now \in Nat
  /\ ttl \in {"asleep", "scanning", "joined"}
  /\ scanTime \in Nat
  /\ failures \in Nat

\* How far the unlocked test of line 113 lets `total` run past maxConnections:
\* every other thread may have passed it before the first of them counts.
TotalBounded == total < MaxConnections + Cardinality(Threads)

InUse == {t \in Threads : pc[t] \in {"creating", "leased"}}

\* `total` counts the leases, the creations in progress, and one unit for
\* every factory call that threw: an invalid connection or a full deque at
\* release (lines 134, 136) must not lose the decrement.
TotalAccounts == total = Cardinality(InUse) + failures

\* Every lease is exclusive: a connection is in one Proxy, or once in the
\* deque, never both, whatever the pops, pushes and TTL erasures did.
Exclusive ==
  /\ \A t, u \in Threads : held[t] = held[u] /\ held[t] # None => t = u
  /\ \A i, j \in DOMAIN available : available[i].con = available[j].con => i = j
  /\ Idle \intersect Holding = {}

\* The deque is sorted by the time of release.  removeExpired() looks at the
\* front only and stops at the first connection that is not expired, so an
\* expired one behind a younger one would never be closed.
SortedByIdleTime ==
  \A i, j \in DOMAIN available : i < j => available[i].time <= available[j].time

\* The TTL thread never closes a connection that idled for less than
\* maxIdleTime, although it uses one reading of the clock for a whole scan.
NeverClosedEarly ==
  [][\A i \in DOMAIN available :
       available[i].con \notin Idle' \union Holding' /\ ttl' # "joined"
         => now - available[i].time >= MaxIdleTime]_vars

IdleTooLong ==
  {available[i].con : i \in {j \in DOMAIN available : now - available[j].time >= MaxIdleTime}}

\* An expired connection does not stay in the deque for ever: it is leased or
\* closed.
ExpiredLeavesPool ==
  \A c \in Connections : c \in IdleTooLong ~> c \notin IdleTooLong

\* The pool implements exclusive leases.
Lease == INSTANCE ConnectionLease
           WITH Clients <- Threads, lease <- held, idle <- Idle, broken <- invalid

ImplementsLease == Lease!LeaseSpec
=============================================================================
