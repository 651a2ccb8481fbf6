------------------------------ MODULE Service ------------------------------
(***************************************************************************)
(* What the requests of the service share: its io threads, the pool of     *)
(* MongoDB clients (src/src/service/db/pool.cpp), the version history      *)
(* updates of renameCollection and dropCollection (.../internal/rename.cpp *)
(* and drop.cpp), the metrics and their batches (metricscollector.cpp,     *)
(* src/src/ilp/ilp.cpp), and the shutdown (server/service.cpp).            *)
(*                                                                         *)
(* An io thread is busy from the start of a request to its reply.  Three   *)
(* calls run on another thread that std::async starts: the pop of a        *)
(* client, the update of the version history, and the save of a batch of   *)
(* metrics.  The caller waits for it even when it does not want to, since  *)
(* the destructor of such a future waits.                                  *)
(***************************************************************************)
EXTENDS Integers, FiniteSets

CONSTANTS RequestIds,   \* the requests
          Helped,       \* those that rename, or drop and clear, the version history
          MaySkip,      \* those that may say skipMetric
          Main,         \* the main thread, once the io threads are joined
          Threads,      \* number of io threads
          PoolSize,     \* maxPoolSize of the MongoDB client pool
          BatchSize     \* metrics in a batch

ASSUME ServiceAssumption ==
  /\ IsFiniteSet(RequestIds) /\ Main \notin RequestIds
  /\ Helped \subseteq RequestIds /\ MaySkip \subseteq RequestIds
  /\ {Threads, PoolSize, BatchSize} \subseteq Nat \ {0}

VARIABLES at,        \* at[x]: where request x, or the main thread, is
          worker,    \* worker[x]: the std::async thread x waits for, if any
          owners,    \* who has a client of the pool
          measured,  \* the requests without skipMetric
          ilp,       \* the metrics go to an ILP server, not to MongoDB
          healthy,   \* the environment: no pop takes a second, no save fails
          vector,    \* the metrics collected, as the requests they are of
          batch,     \* batch[x]: the metrics x is saving
          unsent,    \* what the ILP client has in its buffer
          saved,     \* the metrics that have been sent, or inserted
          dropped,   \* history: the metrics of batches that were given up
          stopping   \* a signal has stopped the io context

vars == <<at, worker, owners, measured, ilp, healthy, vector, batch, unsent, saved, dropped, stopping>>
config == <<measured, ilp, healthy>>
metrics == <<vector, batch, unsent, saved, dropped>>

Actors == RequestIds \union {Main}
Active == {r \in RequestIds : at[r] \notin {"queued", "done"}}
Waiting == {x \in Actors : worker[x] \in {"popping", "late"}}

\* A request has a client itself, the thread it started may have another.
Self(x) == <<x, "self">>
Worker(x) == <<x, "worker">>
FreeClient == Cardinality(owners) < PoolSize

Init ==
  /\ at = [x \in Actors |-> "queued"]
  /\ worker = [x \in Actors |-> "idle"]
  /\ owners = {}
  /\ measured \in {RequestIds \ s : s \in SUBSET MaySkip}
  /\ ilp \in BOOLEAN
  /\ healthy \in BOOLEAN
  /\ vector = {}
  /\ batch = [x \in Actors |-> {}]
  /\ unsent = {}
  /\ saved = {}
  /\ dropped = {}
  /\ stopping = FALSE
-----------------------------------------------------------------------------
(***************************************************************************)
(* Pool::acquire                                                           *)
(***************************************************************************)
\* A free io thread takes a request; its handler asks for a client.
Begin(r) ==
  /\ at[r] = "queued" /\ ~ stopping
  /\ Cardinality(Active) < Threads
  /\ at' = [at EXCEPT ![r] = "acquire"]
  /\ worker' = [worker EXCEPT ![r] = "popping"]
  /\ UNCHANGED <<owners, config, metrics, stopping>>

\* A second has passed: acquire() returns nullopt, but not before the
\* destructor of its future has waited for the thread that pops.
TimesOut(x) ==
  /\ worker[x] = "popping" /\ ~ healthy
  /\ worker' = [worker EXCEPT ![x] = "late"]
  /\ UNCHANGED <<at, owners, config, metrics, stopping>>

\* The pop returns in time.
Pop(x) ==
  /\ worker[x] = "popping" /\ FreeClient
  /\ IF at[x] = "acquire"
     THEN /\ at' = [at EXCEPT ![x] = "using"]
          /\ worker' = [worker EXCEPT ![x] = "idle"]
          /\ owners' = owners \union {Self(x)}
     ELSE /\ at' = at
          /\ worker' = [worker EXCEPT ![x] = "using"]
          /\ owners' = owners \union {Worker(x)}
  /\ UNCHANGED <<config, metrics, stopping>>

\* The client that came too late goes back to the pool with the future's state.
\* Mutant: it does not.
LateKept(x) == owners \union {Worker(x)}
LateReturned(x) == owners

\* The pop returns too late.  The handler replies that the pool is exhausted,
\* the update of the version history is skipped, the batch of metrics is lost.
PopLate(x) ==
  /\ worker[x] = "late" /\ FreeClient
  /\ worker' = [worker EXCEPT ![x] = "idle"]
  /\ owners' = LateReturned(x)
  /\ at' = [at EXCEPT ![x] = CASE @ = "acquire" -> "add"
                               [] @ = "helper"  -> "helper"
                               [] @ = "flush"   -> "done"]
  /\ dropped' = dropped \union batch[x]
  /\ batch' = [batch EXCEPT ![x] = {}]
  /\ UNCHANGED <<config, vector, unsent, saved, stopping>>
-----------------------------------------------------------------------------
(***************************************************************************)
(* The handler                                                             *)
(***************************************************************************)
\* The database call returns.  A rename, or a drop that clears the version
\* history, starts a thread that asks for a client of its own; the handler
\* keeps its client and waits.
Call(r) ==
  /\ at[r] = "using"
  /\ IF r \in Helped
     THEN /\ at' = [at EXCEPT ![r] = "helper"]
          /\ worker' = [worker EXCEPT ![r] = "popping"]
          /\ owners' = owners
     ELSE /\ at' = [at EXCEPT ![r] = "add"]
          /\ worker' = worker
          /\ owners' = owners \ {Self(r)}
  /\ UNCHANGED <<config, metrics, stopping>>

\* The call throws, or the target of the rename exists.
CallFails(r) ==
  /\ at[r] = "using"
  /\ at' = [at EXCEPT ![r] = "add"]
  /\ owners' = owners \ {Self(r)}
  /\ UNCHANGED <<worker, config, metrics, stopping>>

\* The version history is updated, or an exception is logged.
HelperEnds(r) ==
  /\ at[r] = "helper" /\ worker[r] = "using"
  /\ worker' = [worker EXCEPT ![r] = "idle"]
  /\ owners' = owners \ {Worker(r)}
  /\ UNCHANGED <<at, config, metrics, stopping>>

\* The destructor of the future returns, then that of the client's entry.
\* Mutant: the entry is moved to the thread and not returned by the handler.
KeepsClient(r) == owners
ReturnsClient(r) == owners \ {Self(r)}

HandlerEnds(r) ==
  /\ at[r] = "helper" /\ worker[r] = "idle"
  /\ at' = [at EXCEPT ![r] = "add"]
  /\ owners' = ReturnsClient(r)
  /\ UNCHANGED <<worker, config, metrics, stopping>>
-----------------------------------------------------------------------------
(***************************************************************************)
(* The metrics                                                             *)
(***************************************************************************)
\* The collector's mutex is held while a batch is saved.  Mutant: it is not.
MutexIgnored == TRUE
MutexFree == \A r \in RequestIds : at[r] # "flush"

\* skipMetric, of db::process().  Mutant: it is ignored.
EveryRequest(r) == TRUE
Measures(r) == r \in measured

SkipMetric(r) ==
  /\ at[r] = "add" /\ ~ Measures(r)
  /\ at' = [at EXCEPT ![r] = "done"]
  /\ UNCHANGED <<worker, owners, config, metrics, stopping>>

\* add(), lines 116-119.
Add(r) ==
  /\ at[r] = "add" /\ Measures(r) /\ MutexFree
  /\ Cardinality(vector) + 1 # BatchSize
  /\ vector' = vector \union {r}
  /\ at' = [at EXCEPT ![r] = "done"]
  /\ UNCHANGED <<worker, owners, config, batch, unsent, saved, dropped, stopping>>

\* What is left to collect in, line 129.
Moved(x) == {}

\* Whether ilp() or mongo() saves the batch: mongo() asks for a client first.
StartSaving(x, what) ==
  /\ at' = [at EXCEPT ![x] = "flush"]
  /\ batch' = [batch EXCEPT ![x] = what]
  /\ vector' = Moved(x)
  /\ worker' = [worker EXCEPT ![x] = IF what = {} \/ ilp THEN "saving" ELSE "popping"]

\* Lines 119-130: the last metric of a batch; the mutex stays locked.
AddLast(r) ==
  /\ at[r] = "add" /\ Measures(r) /\ MutexFree
  /\ Cardinality(vector) + 1 = BatchSize
  /\ StartSaving(r, vector \union {r})
  /\ UNCHANGED <<owners, config, unsent, saved, dropped, stopping>>

\* mongo(), lines 85-104: an unacknowledged bulk write, or an exception.
MongoSaves(x) ==
  /\ at[x] = "flush" /\ worker[x] = "using"
  /\ \/ saved' = saved \union batch[x] /\ dropped' = dropped
     \/ ~ healthy /\ saved' = saved /\ dropped' = dropped \union batch[x]
  /\ at' = [at EXCEPT ![x] = "done"]
  /\ worker' = [worker EXCEPT ![x] = "idle"]
  /\ owners' = owners \ {Worker(x)}
  /\ batch' = [batch EXCEPT ![x] = {}]
  /\ UNCHANGED <<config, vector, unsent, stopping>>

\* ilp(), and ILPClient::write, lines 37-49: the batch goes to the end of the
\* buffer, where what a send does not take stays for the next batch; or it is
\* lost to an exception on the way there.  An empty batch is not saved.
\* Mutant: the buffer is cleared whatever was sent.
BufferCleared(x, sent) == {}
BufferRest(x, sent) == (unsent \union batch[x]) \ sent

IlpSaves(x) ==
  /\ at[x] = "flush" /\ worker[x] = "saving"
  /\ \/ /\ batch[x] # {}
        /\ \E sent \in {{}, unsent, unsent \union batch[x]} :
             /\ healthy => sent = unsent \union batch[x]
             /\ saved' = saved \union sent
             /\ unsent' = BufferRest(x, sent)
        /\ dropped' = dropped
     \/ /\ batch[x] = {} \/ ~ healthy
        /\ dropped' = dropped \union batch[x]
        /\ UNCHANGED <<saved, unsent>>
  /\ at' = [at EXCEPT ![x] = "done"]
  /\ worker' = [worker EXCEPT ![x] = "idle"]
  /\ batch' = [batch EXCEPT ![x] = {}]
  /\ UNCHANGED <<owners, config, vector, stopping>>
-----------------------------------------------------------------------------
(***************************************************************************)
(* The shutdown                                                            *)
(***************************************************************************)
\* A signal: no handler starts any more, those that run end.
Stop ==
  /\ ~ stopping
  /\ stopping' = TRUE
  /\ UNCHANGED <<at, worker, owners, config, metrics>>

\* run(), lines 176-177, and finish(): the io threads are joined, then what was
\* collected is saved.  Mutant: the threads are not waited for.
NotJoined == TRUE
Joined == Active = {}

Finish ==
  /\ stopping /\ Joined
  /\ at[Main] = "queued"
  /\ StartSaving(Main, vector)
  /\ UNCHANGED <<owners, config, unsent, saved, dropped, stopping>>

Stopped == at[Main] = "done" /\ Active = {} /\ UNCHANGED vars
-----------------------------------------------------------------------------
Run(x) == Pop(x) \/ PopLate(x) \/ MongoSaves(x) \/ IlpSaves(x)

Handle(r) ==
  \/ Call(r) \/ CallFails(r) \/ HelperEnds(r) \/ HandlerEnds(r)
  \/ SkipMetric(r) \/ Add(r) \/ AddLast(r)

Next ==
  \/ \E r \in RequestIds : Begin(r) \/ Handle(r)
  \/ \E x \in Actors : TimesOut(x) \/ Run(x)
  \/ Stop \/ Finish \/ Stopped

Spec == Init /\ [][Next]_vars

(***************************************************************************)
(* Database calls return, and threads run; whoever waits for a client of   *)
(* the pool or for the mutex gets it in the end although others take it in *)
(* between (strong fairness: a condition variable and a mutex wake their   *)
(* waiters).  Nothing makes a signal come or a second pass.                *)
(***************************************************************************)
Fairness ==
  /\ \A r \in RequestIds : SF_vars(Handle(r) \/ Run(r))
  /\ SF_vars(Finish \/ Run(Main))

FairSpec == Spec /\ Fairness
-----------------------------------------------------------------------------
(***************************************************************************)
(* Properties                                                              *)
(***************************************************************************)
TypeOK ==
  /\ at \in [Actors -> {"queued", "acquire", "using", "helper", "add", "flush", "done"}]
  /\ worker \in [Actors -> {"idle", "popping", "late", "using", "saving"}]
  /\ owners \subseteq Actors \X {"self", "worker"}
  /\ measured \subseteq RequestIds /\ {ilp, healthy} \subseteq BOOLEAN
  /\ {vector, unsent, saved, dropped} \subseteq SUBSET measured
  /\ batch \in [Actors -> SUBSET measured]
  /\ stopping \in BOOLEAN

\* No client leaks: whoever has one is using it, or waits for the thread that
\* it started, on every path out of a handler, a late pop or a failed call.
ClientsInUse ==
  owners = {Self(r) : r \in {q \in RequestIds : at[q] \in {"using", "helper"}}}
             \union {Worker(x) : x \in {y \in Actors : worker[y] = "using"}}

\* Those who have a client and do not wait for another.
CanGoOn ==
  {r \in RequestIds : at[r] = "using" \/ (at[r] = "helper" /\ worker[r] = "idle")}
    \union {x \in Actors : worker[x] = "using"}

\* There is no deadlock on the client pool: when the pool is empty, somebody who
\* has a client can go on and return it.  It takes more clients than io threads,
\* which nothing in the code asks for.
NoHoldAndWait == PoolSize > Threads /\ ~ FreeClient => CanGoOn # {}

\* Every request that was answered, and measured, has its metric somewhere:
\* collected, in a batch on its way, in the buffer of the ILP client, saved, or in
\* a batch that was given up with a line in the log.
MetricsAreAccounted ==
  \A r \in measured :
    at[r] = "done" =>
      r \in vector \union (UNION {batch[x] : x \in Actors}) \union unsent \union saved \union dropped

\* A batch of metrics is saved by one thread at a time: the ILP client has one
\* buffer, and nothing but the collector's mutex protects it.
OneSaves == Cardinality({x \in Actors : at[x] = "flush"}) <= 1

\* A request that has started is answered, in spite of the waits for clients, for
\* the version history and for the metrics of others.
RequestsAreAnswered ==
  \A r \in RequestIds : at[r] = "acquire" ~> at[r] = "done"

\* A signal ends the service with the metric of every answered request saved: none is
\* left in the collector or comes too late for it.  Only if the environment was not
\* healthy may metrics have been given up, or die in the buffer of the ILP client.
StopSavesMetrics ==
  stopping ~> /\ at[Main] = "done"
              /\ \A r \in measured :
                   at[r] = "done" => \/ r \in saved
                                     \/ ~ healthy /\ r \in dropped \union unsent

=============================================================================
