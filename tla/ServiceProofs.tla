--------------------------- MODULE ServiceProofs ---------------------------
(***************************************************************************)
(* Theorems about Service, for any number of requests, io threads and      *)
(* clients.                                                                *)
(***************************************************************************)
EXTENDS Service, FiniteSetTheorems, FunctionTheorems, TLAPS

\* Where an actor is says what the thread it has started may be doing.
Coherent ==
  /\ \A x \in Actors :
       /\ at[x] \in {"queued", "using", "add", "done"} => worker[x] = "idle"
       /\ at[x] = "acquire" => worker[x] \in {"popping", "late"}
       /\ at[x] = "helper" => worker[x] # "saving"
       /\ at[x] = "flush" => worker[x] # "idle"
  /\ at[Main] \in {"queued", "flush", "done"}

\* ClientsInUse, one owner at a time.
OwnersAreUsers ==
  \A x \in Actors :
    /\ Self(x) \in owners <=> x \in RequestIds /\ at[x] \in {"using", "helper"}
    /\ Worker(x) \in owners <=> worker[x] = "using"

\* A handler needs an io thread.
ActiveBounded == Cardinality(Active) <= Threads

ClientInv == TypeOK /\ Coherent /\ OwnersAreUsers

LEMMA ClientInit == Init => ClientInv
<1> SUFFICES ASSUME Init PROVE ClientInv
  OBVIOUS
<1>1. Main \in Actors /\ RequestIds \subseteq Actors
  BY DEF Actors
<1>2. TypeOK
  BY <1>1 DEF Init, TypeOK
<1>3. Coherent /\ OwnersAreUsers
  BY <1>1 DEF Init, Coherent, OwnersAreUsers, Self, Worker
<1>4. QED
  BY <1>2, <1>3 DEF ClientInv

\* Every step keeps the owners to those who use their client.
LEMMA ClientStep == ClientInv /\ [Next]_vars => ClientInv'
<1> SUFFICES ASSUME ClientInv, [Next]_vars PROVE ClientInv'
  OBVIOUS
<1> USE ServiceAssumption DEF ClientInv, Actors
<1>1. ASSUME NEW r \in RequestIds, Begin(r) PROVE ClientInv'
  <2>1. TypeOK'
    BY <1>1 DEF TypeOK, Coherent, Begin, Self, Worker, config, metrics
  <2>2. Coherent'
    BY <1>1 DEF TypeOK, Coherent, Begin, config, metrics
  <2>3. OwnersAreUsers'
    BY <1>1 DEF TypeOK, Coherent, OwnersAreUsers, Begin, Self, Worker
  <2>4. QED
    BY <2>1, <2>2, <2>3
<1>2. ASSUME NEW r \in RequestIds, Call(r) PROVE ClientInv'
  <2>1. TypeOK'
    BY <1>2 DEF TypeOK, Coherent, Call, Self, Worker, config, metrics
  <2>2. Coherent'
    BY <1>2 DEF TypeOK, Coherent, Call, config, metrics
  <2>3. OwnersAreUsers'
    <3>0. \A x, y \in Actors : Self(x) # Worker(y) /\ (Self(x) = Self(y) => x = y)
      BY DEF Self, Worker
    <3>1. at[r] = "using" /\ worker[r] = "idle" /\ Self(r) \in owners
      BY <1>2 DEF TypeOK, Coherent, OwnersAreUsers, Call
    <3>2. CASE r \in Helped
      <4>1. /\ at' = [at EXCEPT ![r] = "helper"] /\ worker' = [worker EXCEPT ![r] = "popping"]
            /\ owners' = owners
        BY <1>2, <3>2 DEF Call
      <4> QED BY <3>1, <4>1 DEF TypeOK, OwnersAreUsers
    <3>3. CASE r \notin Helped
      <4>1. at' = [at EXCEPT ![r] = "add"] /\ worker' = worker /\ owners' = owners \ {Self(r)}
        BY <1>2, <3>3 DEF Call
      <4> QED BY <3>0, <3>1, <4>1 DEF TypeOK, OwnersAreUsers
    <3> QED BY <3>2, <3>3
  <2>4. QED
    BY <2>1, <2>2, <2>3
<1>3. ASSUME NEW r \in RequestIds, CallFails(r) PROVE ClientInv'
  <2>1. TypeOK'
    BY <1>3 DEF TypeOK, Coherent, CallFails, Self, Worker, config, metrics
  <2>2. Coherent'
    BY <1>3 DEF TypeOK, Coherent, CallFails, config, metrics
  <2>3. OwnersAreUsers'
    BY <1>3 DEF TypeOK, Coherent, OwnersAreUsers, CallFails, Self, Worker
  <2>4. QED
    BY <2>1, <2>2, <2>3
<1>4. ASSUME NEW r \in RequestIds, HelperEnds(r) PROVE ClientInv'
  <2>1. TypeOK'
    BY <1>4 DEF TypeOK, Coherent, HelperEnds, Self, Worker, config, metrics
  <2>2. Coherent'
    BY <1>4 DEF TypeOK, Coherent, HelperEnds, config, metrics
  <2>3. OwnersAreUsers'
    BY <1>4 DEF TypeOK, Coherent, OwnersAreUsers, HelperEnds, Self, Worker
  <2>4. QED
    BY <2>1, <2>2, <2>3
<1>5. ASSUME NEW r \in RequestIds, HandlerEnds(r) PROVE ClientInv'
  <2>1. TypeOK'
    BY <1>5 DEF TypeOK, Coherent, HandlerEnds, ReturnsClient, Self, Worker, config, metrics
  <2>2. Coherent'
    BY <1>5 DEF TypeOK, Coherent, HandlerEnds, ReturnsClient, config, metrics
  <2>3. OwnersAreUsers'
    BY <1>5 DEF TypeOK, Coherent, OwnersAreUsers, HandlerEnds, ReturnsClient, Self, Worker
  <2>4. QED
    BY <2>1, <2>2, <2>3
<1>6. ASSUME NEW r \in RequestIds, SkipMetric(r) PROVE ClientInv'
  <2>1. TypeOK'
    BY <1>6 DEF TypeOK, Coherent, SkipMetric, Measures, Self, Worker, config, metrics
  <2>2. Coherent'
    BY <1>6 DEF TypeOK, Coherent, SkipMetric, Measures, config, metrics
  <2>3. OwnersAreUsers'
    BY <1>6 DEF TypeOK, Coherent, OwnersAreUsers, SkipMetric, Measures, Self, Worker
  <2>4. QED
    BY <2>1, <2>2, <2>3
<1>7. ASSUME NEW r \in RequestIds, Add(r) PROVE ClientInv'
  <2>1. TypeOK'
    BY <1>7 DEF TypeOK, Coherent, Add, Measures, Self, Worker, config, metrics
  <2>2. Coherent'
    BY <1>7 DEF TypeOK, Coherent, Add, Measures, config, metrics
  <2>3. OwnersAreUsers'
    BY <1>7 DEF TypeOK, Coherent, OwnersAreUsers, Add, Measures, Self, Worker
  <2>4. QED
    BY <2>1, <2>2, <2>3
<1>8. ASSUME NEW r \in RequestIds, AddLast(r) PROVE ClientInv'
  <2>1. TypeOK'
    BY <1>8 DEF TypeOK, Coherent, AddLast, Measures, StartSaving, Moved, Self, Worker, config, metrics
  <2>2. Coherent'
    BY <1>8 DEF TypeOK, Coherent, AddLast, Measures, StartSaving, Moved, config, metrics
  <2>3. OwnersAreUsers'
    BY <1>8 DEF TypeOK, Coherent, OwnersAreUsers, AddLast, Measures, StartSaving, Moved, Self, Worker
  <2>4. QED
    BY <2>1, <2>2, <2>3
<1>9. ASSUME NEW x \in Actors, TimesOut(x) PROVE ClientInv'
  <2>1. TypeOK'
    BY <1>9 DEF TypeOK, Coherent, TimesOut, Self, Worker, config, metrics
  <2>2. Coherent'
    BY <1>9 DEF TypeOK, Coherent, TimesOut, config, metrics
  <2>3. OwnersAreUsers'
    BY <1>9 DEF TypeOK, Coherent, OwnersAreUsers, TimesOut, Self, Worker
  <2>4. QED
    BY <2>1, <2>2, <2>3
<1>10. ASSUME NEW x \in Actors, Pop(x) PROVE ClientInv'
  <2>1. TypeOK'
    BY <1>10 DEF TypeOK, Coherent, Pop, Self, Worker, config, metrics
  <2>2. Coherent'
    BY <1>10 DEF TypeOK, Coherent, Pop, config, metrics
  <2>3. OwnersAreUsers'
    <3>1. CASE at[x] = "acquire"
      <4>1. /\ at' = [at EXCEPT ![x] = "using"]
            /\ worker' = [worker EXCEPT ![x] = "idle"]
            /\ owners' = owners \union {Self(x)}
        BY <1>10, <3>1 DEF Pop
      <4>2. x \in RequestIds
        BY <3>1 DEF Coherent
      <4>3. worker[x] # "using"
        BY <1>10 DEF Pop
      <4>4. QED
        BY <4>1, <4>2, <4>3 DEF TypeOK, OwnersAreUsers, Self, Worker
    <3>2. CASE at[x] # "acquire"
      <4>1. /\ at' = at
            /\ worker' = [worker EXCEPT ![x] = "using"]
            /\ owners' = owners \union {Worker(x)}
        BY <1>10, <3>2 DEF Pop
      <4>2. QED
        BY <4>1 DEF TypeOK, OwnersAreUsers, Self, Worker
    <3>3. QED
      BY <3>1, <3>2
  <2>4. QED
    BY <2>1, <2>2, <2>3
<1>11. ASSUME NEW x \in Actors, PopLate(x) PROVE ClientInv'
  <2>1. TypeOK'
    BY <1>11 DEF TypeOK, Coherent, PopLate, LateReturned, Self, Worker, config, metrics
  <2>2. Coherent'
    BY <1>11 DEF TypeOK, Coherent, PopLate, LateReturned, config, metrics
  <2>3. OwnersAreUsers'
    BY <1>11 DEF TypeOK, Coherent, OwnersAreUsers, PopLate, LateReturned, Self, Worker
  <2>4. QED
    BY <2>1, <2>2, <2>3
<1>12. ASSUME NEW x \in Actors, MongoSaves(x) PROVE ClientInv'
  <2>1. TypeOK'
    BY <1>12 DEF TypeOK, Coherent, MongoSaves, Self, Worker, config, metrics
  <2>2. Coherent'
    BY <1>12 DEF TypeOK, Coherent, MongoSaves, config, metrics
  <2>3. OwnersAreUsers'
    BY <1>12 DEF TypeOK, Coherent, OwnersAreUsers, MongoSaves, Self, Worker
  <2>4. QED
    BY <2>1, <2>2, <2>3
<1>13. ASSUME NEW x \in Actors, IlpSaves(x) PROVE ClientInv'
  <2>1. TypeOK'
    BY <1>13 DEF TypeOK, Coherent, IlpSaves, BufferRest, Self, Worker, config, metrics
  <2>2. Coherent'
    BY <1>13 DEF TypeOK, Coherent, IlpSaves, BufferRest, config, metrics
  <2>3. OwnersAreUsers'
    BY <1>13 DEF TypeOK, Coherent, OwnersAreUsers, IlpSaves, BufferRest, Self, Worker
  <2>4. QED
    BY <2>1, <2>2, <2>3
<1>14. ASSUME Finish PROVE ClientInv'
  <2>1. TypeOK'
    BY <1>14 DEF TypeOK, Coherent, Finish, StartSaving, Moved, Self, Worker, config, metrics
  <2>2. Coherent'
    BY <1>14 DEF TypeOK, Coherent, Finish, StartSaving, Moved, config, metrics
  <2>3. OwnersAreUsers'
    BY <1>14 DEF TypeOK, Coherent, OwnersAreUsers, Finish, StartSaving, Moved, Self, Worker
  <2>4. QED
    BY <2>1, <2>2, <2>3
<1>15. ASSUME Stop \/ UNCHANGED vars PROVE ClientInv'
  BY <1>15 DEF TypeOK, Coherent, OwnersAreUsers, Stop, vars, config, metrics, Self, Worker
<1>16. QED
  BY <1>1, <1>2, <1>3, <1>4, <1>5, <1>6, <1>7, <1>8, <1>9, <1>10, <1>11, <1>12, <1>13, <1>14, <1>15 DEF Next, Handle, Run, Stopped
-----------------------------------------------------------------------------
\* All variables but history ones keep their types, in every reachable state.
THEOREM TypeCorrect == Spec => []TypeOK
<1>1. Init => ClientInv
  BY ClientInit
<1>2. ClientInv /\ [Next]_vars => ClientInv'
  BY ClientStep
<1>3. ClientInv => TypeOK
  BY DEF ClientInv
<1>4. QED
  BY <1>1, <1>2, <1>3, PTL DEF Spec

LEMMA OwnersKnown == ClientInv => ClientsInUse
<1> SUFFICES ASSUME ClientInv PROVE ClientsInUse
  OBVIOUS
<1> DEFINE Users == {Self(r) : r \in {q \in RequestIds : at[q] \in {"using", "helper"}}}
                      \union {Worker(x) : x \in {y \in Actors : worker[y] = "using"}}
<1>1. ASSUME NEW o \in owners PROVE o \in Users
  <2>1. PICK x \in Actors : o = Self(x) \/ o = Worker(x)
    BY <1>1 DEF ClientInv, TypeOK, Self, Worker
  <2>2. QED
    BY <1>1, <2>1 DEF ClientInv, OwnersAreUsers
<1>2. ASSUME NEW o \in Users PROVE o \in owners
  BY <1>2 DEF ClientInv, OwnersAreUsers, Actors
<1>3. QED
  BY <1>1, <1>2 DEF ClientsInUse

\* No client of the pool leaks: one that is not in the pool is in use by a
\* handler, or by a thread that somebody waits for, whatever calls failed and
\* whatever pops came too late.
THEOREM NoClientLeaks == Spec => []ClientsInUse
<1>1. Init => ClientInv
  BY ClientInit
<1>2. ClientInv /\ [Next]_vars => ClientInv'
  BY ClientStep
<1>3. ClientInv => ClientsInUse
  BY OwnersKnown
<1>4. QED
  BY <1>1, <1>2, <1>3, PTL DEF Spec
-----------------------------------------------------------------------------
(***************************************************************************)
(* Deadlock on the client pool                                             *)
(***************************************************************************)
LEMMA ActiveFinite == /\ IsFiniteSet(Active) /\ Cardinality(Active) \in Nat
BY FS_Subset, FS_CardinalityType, ServiceAssumption DEF Active

LEMMA ActiveInit == Init => ActiveBounded
<1> SUFFICES ASSUME Init PROVE ActiveBounded
  OBVIOUS
<1>1. Active = {}
  BY DEF Init, Active, Actors
<1>2. QED
  BY <1>1, FS_EmptySet, ServiceAssumption DEF ActiveBounded

\* Only Begin adds a busy io thread, and it looks for a free one.
LEMMA ActiveStep ==
  ClientInv /\ ActiveBounded /\ [Next]_vars => ActiveBounded'
<1> SUFFICES ASSUME ClientInv, ActiveBounded, [Next]_vars PROVE ActiveBounded'
  OBVIOUS
<1> USE ServiceAssumption DEF Actors
<1>1. ASSUME NEW r \in RequestIds, Begin(r) PROVE ActiveBounded'
  <2>1. Active' = Active \union {r} /\ r \notin Active
    BY <1>1 DEF ClientInv, TypeOK, Begin, Active
  <2>2. Cardinality(Active') = Cardinality(Active) + 1
    BY <2>1, ActiveFinite, FS_AddElement
  <2>3. QED
    BY <1>1, <2>2, ActiveFinite DEF Begin, ActiveBounded
<1>2. ASSUME Active' \subseteq Active PROVE ActiveBounded'
  <2>1. Cardinality(Active') <= Cardinality(Active) /\ Cardinality(Active') \in Nat
    BY <1>2, ActiveFinite, FS_Subset, FS_CardinalityType
  <2>2. QED
    BY <2>1, ActiveFinite DEF ActiveBounded
<1>3. ASSUME NEW r \in RequestIds, Handle(r) PROVE Active' \subseteq Active
  <2>1. at[r] \notin {"queued", "done"}
    BY <1>3 DEF Handle, Call, CallFails, HelperEnds, HandlerEnds, SkipMetric, Add, AddLast
  <2>2. \A q \in RequestIds \ {r} : at'[q] = at[q]
    BY <1>3 DEF ClientInv, TypeOK, Handle, Call, CallFails, HelperEnds, HandlerEnds,
                SkipMetric, Add, AddLast, StartSaving
  <2>3. QED
    BY <2>1, <2>2 DEF Active
<1>4. ASSUME NEW x \in Actors, TimesOut(x) \/ Run(x) PROVE Active' \subseteq Active
  <2>1. worker[x] # "idle"
    BY <1>4 DEF TimesOut, Run, Pop, PopLate, MongoSaves, IlpSaves
  <2>2. at[x] \notin {"queued", "done"}
    BY <2>1 DEF ClientInv, Coherent
  <2>3. \A q \in RequestIds \ {x} : at'[q] = at[q]
    BY <1>4 DEF ClientInv, TypeOK, TimesOut, Run, Pop, PopLate, MongoSaves, IlpSaves
  <2>4. QED
    BY <2>2, <2>3 DEF Active
<1>5. ASSUME Stop \/ Finish \/ UNCHANGED vars PROVE Active' \subseteq Active
  BY <1>5 DEF ClientInv, TypeOK, Stop, Finish, StartSaving, vars, Active
<1>6. QED
  BY <1>1, <1>2, <1>3, <1>4, <1>5 DEF Next, Stopped

\* If every client is held by a handler that waits for another, there are as
\* many such handlers as clients.
LEMMA HoldersBounded ==
  ASSUME ClientInv, CanGoOn = {}
  PROVE  /\ Cardinality(owners) <= Cardinality(Active)
         /\ Cardinality(owners) \in Nat
<1> DEFINE Holders == {r \in RequestIds : Self(r) \in owners}
<1>1. Holders \subseteq Active
  BY DEF ClientInv, OwnersAreUsers, Active, Actors
<1>2. IsFiniteSet(Holders) /\ Cardinality(Holders) <= Cardinality(Active)
  BY <1>1, ActiveFinite, FS_Subset
<1>3. \A o \in owners : \E r \in Holders : o = Self(r)
  <2> SUFFICES ASSUME NEW o \in owners PROVE \E r \in Holders : o = Self(r)
    OBVIOUS
  <2>1. PICK x \in Actors : o = Self(x) \/ o = Worker(x)
    BY DEF ClientInv, TypeOK, Self, Worker
  <2>2. CASE o = Worker(x)
    BY <2>2 DEF ClientInv, OwnersAreUsers, CanGoOn
  <2>3. CASE o = Self(x)
    BY <2>3 DEF ClientInv, OwnersAreUsers
  <2>4. QED
    BY <2>1, <2>2, <2>3
<1> DEFINE f == [r \in Holders |-> Self(r)]
<1>4. f \in Surjection(Holders, owners)
  BY <1>3, Fun_IsSurj DEF Self
<1>5. Cardinality(owners) <= Cardinality(Holders) /\ IsFiniteSet(owners)
  BY <1>2, <1>4, FS_Surjection
<1>6. QED
  BY <1>2, <1>5, ActiveFinite, FS_CardinalityType

LEMMA NobodyStuck == ClientInv /\ ActiveBounded => NoHoldAndWait
<1> SUFFICES ASSUME ClientInv, ActiveBounded, PoolSize > Threads, CanGoOn = {}
             PROVE  FreeClient
  BY DEF NoHoldAndWait
<1>1. Cardinality(owners) <= Cardinality(Active) /\ Cardinality(owners) \in Nat
  BY HoldersBounded
<1>2. QED
  BY <1>1, ActiveFinite, ServiceAssumption DEF ActiveBounded, FreeClient

\* With more clients than io threads, an empty pool is never for ever: somebody
\* who has a client can return it without getting another.
THEOREM NoDeadlock == Spec => []NoHoldAndWait
<1>1. Init => ClientInv /\ ActiveBounded
  BY ClientInit, ActiveInit
<1>2. ClientInv /\ ActiveBounded /\ [Next]_vars => (ClientInv /\ ActiveBounded)'
  BY ClientStep, ActiveStep
<1>3. ClientInv /\ ActiveBounded => NoHoldAndWait
  BY NobodyStuck
<1>4. QED
  BY <1>1, <1>2, <1>3, PTL DEF Spec
-----------------------------------------------------------------------------
(***************************************************************************)
(* The metrics                                                             *)
(***************************************************************************)
\* The collector's mutex, and the joined io threads of the shutdown.
FlushInv ==
  /\ \A x, y \in Actors : at[x] = "flush" /\ at[y] = "flush" => x = y
  /\ at[Main] # "queued" => stopping /\ Active = {}

LEMMA FlushInit == Init => FlushInv
BY DEF Init, FlushInv, Actors

LEMMA FlushStep == ClientInv /\ FlushInv /\ [Next]_vars => FlushInv'
<1> SUFFICES ASSUME ClientInv, FlushInv, [Next]_vars PROVE FlushInv'
  OBVIOUS
<1> USE ServiceAssumption DEF Actors
<1>1. ASSUME NEW r \in RequestIds, Begin(r) PROVE FlushInv'
  BY <1>1 DEF ClientInv, TypeOK, Coherent, FlushInv, Active, Begin, config, metrics
<1>2. ASSUME NEW r \in RequestIds, Call(r) PROVE FlushInv'
  BY <1>2 DEF ClientInv, TypeOK, Coherent, FlushInv, Active, Call, config, metrics
<1>3. ASSUME NEW r \in RequestIds, CallFails(r) PROVE FlushInv'
  BY <1>3 DEF ClientInv, TypeOK, Coherent, FlushInv, Active, CallFails, config, metrics
<1>4. ASSUME NEW r \in RequestIds, HelperEnds(r) PROVE FlushInv'
  BY <1>4 DEF ClientInv, TypeOK, Coherent, FlushInv, Active, HelperEnds, config, metrics
<1>5. ASSUME NEW r \in RequestIds, HandlerEnds(r) PROVE FlushInv'
  BY <1>5 DEF ClientInv, TypeOK, Coherent, FlushInv, Active, HandlerEnds, ReturnsClient, config, metrics
<1>6. ASSUME NEW r \in RequestIds, SkipMetric(r) PROVE FlushInv'
  BY <1>6 DEF ClientInv, TypeOK, Coherent, FlushInv, Active, SkipMetric, Measures, config, metrics
<1>7. ASSUME NEW r \in RequestIds, Add(r) PROVE FlushInv'
  BY <1>7 DEF ClientInv, TypeOK, Coherent, FlushInv, Active, Add, Measures, MutexFree, config, metrics
<1>8. ASSUME NEW r \in RequestIds, AddLast(r) PROVE FlushInv'
  BY <1>8 DEF ClientInv, TypeOK, Coherent, FlushInv, Active, AddLast, Measures, MutexFree, StartSaving, Moved, config, metrics
<1>9. ASSUME NEW x \in Actors, TimesOut(x) PROVE FlushInv'
  BY <1>9 DEF ClientInv, TypeOK, Coherent, FlushInv, Active, TimesOut, config, metrics
<1>10. ASSUME NEW x \in Actors, Pop(x) PROVE FlushInv'
  BY <1>10 DEF ClientInv, TypeOK, Coherent, FlushInv, Active, Pop, config, metrics
<1>11. ASSUME NEW x \in Actors, PopLate(x) PROVE FlushInv'
  BY <1>11 DEF ClientInv, TypeOK, Coherent, FlushInv, Active, PopLate, LateReturned, config, metrics
<1>12. ASSUME NEW x \in Actors, MongoSaves(x) PROVE FlushInv'
  BY <1>12 DEF ClientInv, TypeOK, Coherent, FlushInv, Active, MongoSaves, config, metrics
<1>13. ASSUME NEW x \in Actors, IlpSaves(x) PROVE FlushInv'
  BY <1>13 DEF ClientInv, TypeOK, Coherent, FlushInv, Active, IlpSaves, BufferRest, config, metrics
<1>14. ASSUME Finish PROVE FlushInv'
  BY <1>14 DEF ClientInv, TypeOK, Coherent, FlushInv, Active, Finish, Joined, StartSaving, Moved, config, metrics
<1>15. ASSUME Stop \/ UNCHANGED vars PROVE FlushInv'
  BY <1>15 DEF ClientInv, TypeOK, Coherent, FlushInv, Active, Stop, vars, config, metrics
<1>16. QED
  BY <1>1, <1>2, <1>3, <1>4, <1>5, <1>6, <1>7, <1>8, <1>9, <1>10, <1>11, <1>12, <1>13, <1>14, <1>15 DEF Next, Handle, Run, Stopped

LEMMA AtMostOne ==
  ASSUME NEW S, \A x, y \in S : x = y
  PROVE  Cardinality(S) <= 1
<1>1. CASE S = {}
  BY <1>1, FS_EmptySet
<1>2. ASSUME NEW x \in S PROVE Cardinality(S) <= 1
  <2>1. S = {x}
    OBVIOUS
  <2>2. QED
    BY <2>1, FS_Singleton
<1>3. QED
  BY <1>1, <1>2

\* Batches of metrics are saved one at a time, the last one by the main thread
\* included: the buffer and the socket of the ILP client are never shared.
THEOREM SavedOneAtATime == Spec => []OneSaves
<1>1. Init => ClientInv /\ FlushInv
  BY ClientInit, FlushInit
<1>2. ClientInv /\ FlushInv /\ [Next]_vars => (ClientInv /\ FlushInv)'
  BY ClientStep, FlushStep
<1>3. FlushInv => OneSaves
  <2> SUFFICES ASSUME FlushInv PROVE OneSaves
    OBVIOUS
  <2>1. \A x, y \in {z \in Actors : at[z] = "flush"} : x = y
    BY DEF FlushInv
  <2>2. QED
    BY <2>1, AtMostOne DEF OneSaves
<1>4. QED
  BY <1>1, <1>2, <1>3, PTL DEF Spec

\* Where the metric of a request is; a request that saves a batch has its own
\* metric in it.
Kept(r) ==
  \/ r \in vector \union unsent \union saved \union dropped
  \/ \E x \in Actors : r \in batch[x]

MetricInv ==
  /\ \A r \in measured : at[r] = "done" => Kept(r)
  /\ \A x \in Actors : at[x] # "flush" => batch[x] = {}
  /\ \A r \in RequestIds : at[r] = "flush" => r \in batch[r]

LEMMA MetricInit == Init => MetricInv
BY DEF Init, MetricInv, Actors

LEMMA MetricStep == ClientInv /\ MetricInv /\ [Next]_vars => MetricInv'
<1> SUFFICES ASSUME ClientInv, MetricInv, [Next]_vars PROVE MetricInv'
  OBVIOUS
<1> USE ServiceAssumption DEF Actors
<1>1. ASSUME NEW r \in RequestIds, Begin(r) PROVE MetricInv'
  BY <1>1 DEF ClientInv, TypeOK, Coherent, MetricInv, Kept, Begin, config, metrics
<1>2. ASSUME NEW r \in RequestIds, Call(r) PROVE MetricInv'
  BY <1>2 DEF ClientInv, TypeOK, Coherent, MetricInv, Kept, Call, config, metrics
<1>3. ASSUME NEW r \in RequestIds, CallFails(r) PROVE MetricInv'
  BY <1>3 DEF ClientInv, TypeOK, Coherent, MetricInv, Kept, CallFails, config, metrics
<1>4. ASSUME NEW r \in RequestIds, HelperEnds(r) PROVE MetricInv'
  BY <1>4 DEF ClientInv, TypeOK, Coherent, MetricInv, Kept, HelperEnds, config, metrics
<1>5. ASSUME NEW r \in RequestIds, HandlerEnds(r) PROVE MetricInv'
  BY <1>5 DEF ClientInv, TypeOK, Coherent, MetricInv, Kept, HandlerEnds, ReturnsClient, config, metrics
<1>6. ASSUME NEW r \in RequestIds, SkipMetric(r) PROVE MetricInv'
  BY <1>6 DEF ClientInv, TypeOK, Coherent, MetricInv, Kept, SkipMetric, Measures, config, metrics
<1>7. ASSUME NEW r \in RequestIds, Add(r) PROVE MetricInv'
  BY <1>7 DEF ClientInv, TypeOK, Coherent, MetricInv, Kept, Add, Measures, MutexFree, config, metrics
<1>8. ASSUME NEW r \in RequestIds, AddLast(r) PROVE MetricInv'
  BY <1>8 DEF ClientInv, TypeOK, Coherent, MetricInv, Kept, AddLast, Measures, MutexFree, StartSaving, Moved, config, metrics
<1>9. ASSUME NEW x \in Actors, TimesOut(x) PROVE MetricInv'
  BY <1>9 DEF ClientInv, TypeOK, Coherent, MetricInv, Kept, TimesOut, config, metrics
<1>10. ASSUME NEW x \in Actors, Pop(x) PROVE MetricInv'
  BY <1>10 DEF ClientInv, TypeOK, Coherent, MetricInv, Kept, Pop, config, metrics
<1>11. ASSUME NEW x \in Actors, PopLate(x) PROVE MetricInv'
  BY <1>11 DEF ClientInv, TypeOK, Coherent, MetricInv, Kept, PopLate, LateReturned, config, metrics
<1>12. ASSUME NEW x \in Actors, MongoSaves(x) PROVE MetricInv'
  BY <1>12 DEF ClientInv, TypeOK, Coherent, MetricInv, Kept, MongoSaves, config, metrics
<1>13. ASSUME NEW x \in Actors, IlpSaves(x) PROVE MetricInv'
  BY <1>13 DEF ClientInv, TypeOK, Coherent, MetricInv, Kept, IlpSaves, BufferRest, config, metrics
<1>14. ASSUME Finish PROVE MetricInv'
  BY <1>14 DEF ClientInv, TypeOK, Coherent, MetricInv, Kept, Finish, Joined, StartSaving, Moved, config, metrics
<1>15. ASSUME Stop \/ UNCHANGED vars PROVE MetricInv'
  BY <1>15 DEF ClientInv, TypeOK, Coherent, MetricInv, Kept, Stop, vars, config, metrics
<1>16. QED
  BY <1>1, <1>2, <1>3, <1>4, <1>5, <1>6, <1>7, <1>8, <1>9, <1>10, <1>11, <1>12, <1>13, <1>14, <1>15 DEF Next, Handle, Run, Stopped

\* No metric is forgotten without a trace, whatever sends, saves and pops fail.
THEOREM NoMetricForgotten == Spec => []MetricsAreAccounted
<1>1. Init => ClientInv /\ MetricInv
  BY ClientInit, MetricInit
<1>2. ClientInv /\ MetricInv /\ [Next]_vars => (ClientInv /\ MetricInv)'
  BY ClientStep, MetricStep
<1>3. MetricInv => MetricsAreAccounted
  BY DEF MetricInv, Kept, MetricsAreAccounted
<1>4. QED
  BY <1>1, <1>2, <1>3, PTL DEF Spec
=============================================================================
