---------------------------- MODULE Transaction ----------------------------
(***************************************************************************)
(* The transaction action, src/src/service/db/internal/transaction.cpp.    *)
(*                                                                         *)
(* A request carries a list of items, each a create, an update (a full     *)
(* replacement by _id) or a delete.  The driver's with_transaction calls   *)
(* the handler's callback, which applies the items one after the other in  *)
(* a session, and commits; on a transient error it calls the callback      *)
(* again, with the result the earlier calls have left.  Each item, with    *)
(* the version it records, is an action: a session is private until it     *)
(* commits, and only the write of the document can conflict.               *)
(*                                                                         *)
(* MongoDB gives a session a snapshot, and fails a write of a document     *)
(* that another session has written since.                                 *)
(***************************************************************************)
EXTENDS Integers, SequencesExt

CONSTANTS RequestIds,   \* the transaction requests
          Requests,     \* what a request may be: its items (or None), and
                        \* whether it names a database
          Ids,          \* document identities
          Values,       \* what a document may hold besides its _id
          None,         \* a missing property; no document; no reply
          Stores,       \* contents of the collection at the start
          MaxAttempts,  \* the driver gives up after so many attempts (120 seconds)
          Failures      \* whether calls may fail and the service may crash

\* What an item may be, "retrieve" standing for every action that is no write.
Items == [op : {"create", "update", "delete", "retrieve", "invalid", "malformed"},
          id : Ids \union {None}, value : Values \union {None}, skip : BOOLEAN, hist : BOOLEAN]

\* What is sent for a request, or happened to it.
Replies == {"ok", "missingField", "poolExhausted", "transactionError", "unexpected", "crashed"}

ASSUME TransactionAssumption ==
  /\ None \notin Ids \union Values \union RequestIds \union Replies
  /\ \A q \in Requests : q.items # None =>
       /\ q.items \in Seq(Items)
       /\ \A k \in DOMAIN q.items :
            q.items[k].op \in {"create", "update"} => q.items[k].value # None
  /\ Stores \subseteq [Ids -> Values \union {None}]
  /\ MaxAttempts \in Nat \ {0}
  /\ Failures \in BOOLEAN

VARIABLES store,     \* the collection, as committed
          history,   \* the version history collection, as committed
          request,   \* request[r]: the request r, chosen once
          at,        \* at[r]: where r is
          item,      \* item[r]: the index of the item r turns to next
          session,   \* session[r]: what r has read and written, uncommitted
          result,    \* result[r]: the Result of the handler, and of its reply
          attempt,   \* attempt[r]: number of calls of the callback
          committed, \* the requests whose transaction MongoDB has committed
          reply      \* reply[r]: the answer sent for r

vars == <<store, history, request, at, item, session, result, attempt, committed, reply>>

Open == {r \in RequestIds : at[r] \in {"items", "commit"}}

\* Two requests share the version history: a document it holds has an oid of
\* its own, here the request and how many it has generated before.
Version(oid, a, i, v) == [oid |-> oid, by |-> oid[1], action |-> a, id |-> i, value |-> v]

\* start_session, and start_transaction of every attempt.
Snapshot(s) == [view |-> s, wrote |-> {}, stale |-> {}, versions |-> <<>>]

NoResult == [created |-> 0, updated |-> 0, deleted |-> 0, vhidc |-> <<>>, vhidd |-> <<>>]

Init ==
  /\ store \in Stores
  /\ history = {Version(<<None, i>>, "create", i, store[i]) : i \in {x \in Ids : store[x] # None}}
  /\ request \in [RequestIds -> Requests]
  /\ at = [r \in RequestIds |-> "queued"]
  /\ item = [r \in RequestIds |-> 1]
  /\ session = [r \in RequestIds |-> Snapshot(store)]
  /\ result = [r \in RequestIds |-> NoResult]
  /\ attempt = [r \in RequestIds |-> 0]
  /\ committed = {}
  /\ reply = [r \in RequestIds |-> None]
-----------------------------------------------------------------------------
(***************************************************************************)
(* The reply                                                               *)
(***************************************************************************)
\* db::process() reads the database of the request for its metric once the
\* handler is done, and throws if there is none: serve() answers "unexpected
\* error".  Mutant: a handler that fails sends no reply.
AnswerUnlessError(r, what) == reply' = IF what = "ok" THEN [reply EXCEPT ![r] = what] ELSE reply
Answer(r, what) ==
  reply' = [reply EXCEPT ![r] = IF request[r].database THEN what ELSE "unexpected"]

Finish(r, what) ==
  /\ at' = [at EXCEPT ![r] = "done"]
  /\ Answer(r, what)

Begin(r) ==
  /\ at[r] = "queued"
  /\ \/ /\ request[r].items = None \/ Failures
        /\ Finish(r, IF request[r].items = None THEN "missingField" ELSE "poolExhausted")
        /\ UNCHANGED <<session, attempt>>
     \/ /\ request[r].items # None
        /\ at' = [at EXCEPT ![r] = "items"]
        /\ session' = [session EXCEPT ![r] = Snapshot(store)]
        /\ attempt' = [attempt EXCEPT ![r] = 1]
        /\ UNCHANGED reply
  /\ UNCHANGED <<store, history, request, item, result, committed>>
-----------------------------------------------------------------------------
(***************************************************************************)
(* The callback: the items, in order                                       *)
(***************************************************************************)
Current(r) == request[r].items[item[r]]
HasItem(r) == at[r] = "items" /\ item[r] <= Len(request[r].items)

\* An item that is no document, or whose _id is no oid: an exception of BSON.
Throws(d) == d.op = "malformed"

\* Lines 51-64.
Refused(d) == d.id = None \/ d.hist

\* The document an update or delete selects in the session's view.
Matches(r, d) ==
  /\ session[r].view[d.id] # None
  /\ d.op = "delete" => d.value \in {None, session[r].view[d.id]}

Writes(r, d) ==
  \/ d.op = "create"
  \/ d.op \in {"update", "delete"} /\ Matches(r, d)

Conflicts(r, d) ==
  /\ Writes(r, d)
  /\ \/ d.id \in session[r].stale
     \/ \E o \in Open \ {r} : d.id \in session[o].wrote

Duplicate(r, d) == d.op = "create" /\ session[r].view[d.id] # None

\* The document a version records: the new one, or the one found (line 128).
Entity(r, d) == IF d.op = "delete" THEN session[r].view[d.id] ELSE d.value

\* Lines 71, 96, 115: an update is versioned whether it matches or not.
\* Mutant: updates have no version.
VersionedUnlessUpdate(r, d) ==
  ~ d.skip /\ (d.op = "create" \/ (d.op = "delete" /\ Matches(r, d)))
Versioned(r, d) ==
  /\ ~ d.skip
  /\ d.op \in {"create", "update"} \/ (d.op = "delete" /\ Matches(r, d))

Oid(r) == <<r, Len(result[r].vhidc) + Len(result[r].vhidd)>>

Stored(r, d) ==
  IF Writes(r, d)
  THEN [session[r].view EXCEPT ![d.id] = IF d.op = "delete" THEN None ELSE d.value]
  ELSE session[r].view

\* Line 136: deleted_count.
Deleted(r, d) == IF Matches(r, d) THEN 1 ELSE 0

Counted(r, d) ==
  CASE d.op = "create" -> [result[r] EXCEPT !.created = @ + 1]
    [] d.op = "update" -> [result[r] EXCEPT !.updated = @ + 1]
    [] d.op = "delete" -> [result[r] EXCEPT !.deleted = @ + Deleted(r, d)]
    [] OTHER           -> result[r]

\* Lines 84, 109 and 131: updates are listed with the creates.
\* Mutant: the oids of updates are not listed.
ListedUnlessUpdate(r, d, res) ==
  IF ~ Versioned(r, d) \/ d.op = "update" THEN res
  ELSE IF d.op = "delete" THEN [res EXCEPT !.vhidd = Append(@, Oid(r))]
  ELSE [res EXCEPT !.vhidc = Append(@, Oid(r))]
Listed(r, d, res) ==
  IF ~ Versioned(r, d) THEN res
  ELSE IF d.op = "delete" THEN [res EXCEPT !.vhidd = Append(@, Oid(r))]
  ELSE [res EXCEPT !.vhidc = Append(@, Oid(r))]

\* The callback passes an item that is not valid.
SkipInvalid(r) ==
  /\ HasItem(r) /\ Current(r).op = "invalid"
  /\ item' = [item EXCEPT ![r] = @ + 1]
  /\ UNCHANGED <<store, history, request, at, session, result, attempt, committed, reply>>

\* The item of the callback that goes well.
Process(r) ==
  LET d == Current(r) IN
  /\ HasItem(r) /\ d.op \notin {"invalid", "malformed"} /\ ~ Refused(d)
  /\ ~ Conflicts(r, d) /\ ~ Duplicate(r, d)
  /\ session' = [session EXCEPT ![r] =
       [view     |-> Stored(r, d),
        wrote    |-> IF Writes(r, d) THEN @.wrote \union {d.id} ELSE @.wrote,
        stale    |-> @.stale,
        versions |-> IF Versioned(r, d)
                     THEN Append(@.versions, Version(Oid(r), d.op, d.id, Entity(r, d)))
                     ELSE @.versions]]
  /\ result' = [result EXCEPT ![r] = Listed(r, d, Counted(r, d))]
  /\ item' = [item EXCEPT ![r] = @ + 1]
  /\ UNCHANGED <<store, history, request, at, attempt, committed, reply>>

\* An item without an _id, or of the version history: abort_transaction, and
\* the loop is left.  with_transaction returns as if all was well.
\* Mutant: the loop is left without the abort.
StopAndCommit(r) ==
  /\ at' = [at EXCEPT ![r] = "commit"]
  /\ UNCHANGED reply
Stop(r) == Finish(r, "ok")

Refuse(r) ==
  /\ HasItem(r) /\ Current(r).op \notin {"invalid", "malformed"} /\ Refused(Current(r))
  /\ Stop(r)
  /\ UNCHANGED <<store, history, request, item, session, result, attempt, committed>>

CallbackReturns(r) ==
  /\ at[r] = "items" /\ ~ HasItem(r)
  /\ at' = [at EXCEPT ![r] = "commit"]
  /\ UNCHANGED <<store, history, request, item, session, result, attempt, committed, reply>>
-----------------------------------------------------------------------------
(***************************************************************************)
(* with_transaction: exceptions, retries and the commit                    *)
(***************************************************************************)
\* The callback throws something that is no transient error.  transaction()
\* catches what the driver throws, process() the rest.
CallbackThrows(r) ==
  /\ HasItem(r)
  /\ \/ Throws(Current(r)) /\ Finish(r, "unexpected")
     \/ /\ Current(r).op = "create" /\ ~ Refused(Current(r))
        /\ Duplicate(r, Current(r)) /\ ~ Conflicts(r, Current(r))
        /\ Finish(r, "transactionError")
  /\ UNCHANGED <<store, history, request, item, session, result, attempt, committed>>

\* A transient error: the transaction is aborted and, if there is time, run
\* again from its first item.  The result is not reset.
Retry(r) ==
  IF attempt[r] < MaxAttempts
  THEN /\ attempt' = [attempt EXCEPT ![r] = @ + 1]
       /\ item' = [item EXCEPT ![r] = 1]
       /\ session' = [session EXCEPT ![r] = Snapshot(store)]
       /\ at' = [at EXCEPT ![r] = "items"]
       /\ UNCHANGED reply
  ELSE /\ Finish(r, "transactionError")
       /\ UNCHANGED <<attempt, item, session>>

\* A write conflict, or a call that fails: before or after the write of the
\* document is counted, or once everything is.
CallbackRetries(r) ==
  LET d == Current(r) IN
  /\ HasItem(r) /\ d.op \in {"create", "update", "delete"} /\ ~ Refused(d)
  /\ \/ /\ Conflicts(r, d)
        /\ result' = [result EXCEPT ![r] = IF d.op = "delete" THEN Listed(r, d, @) ELSE @]
     \/ /\ Failures /\ ~ Duplicate(r, d)
        /\ \E res \in {result[r], Counted(r, d), Listed(r, d, result[r])} :
             result' = [result EXCEPT ![r] = res]
  /\ Retry(r)
  /\ UNCHANGED <<store, history, request, committed>>

\* commitTransaction, applied at most once however often it is sent.
Apply(r) ==
  IF r \in committed THEN UNCHANGED <<store, history, committed, session>>
  ELSE /\ store' = [i \in Ids |-> IF i \in session[r].wrote THEN session[r].view[i] ELSE store[i]]
       /\ history' = history \union ToSet(session[r].versions)
       /\ committed' = committed \union {r}
       /\ session' = [o \in RequestIds |->
                        IF o \in Open \ {r}
                        THEN [session[o] EXCEPT !.stale = @ \union session[r].wrote]
                        ELSE session[o]]

Commit(r) ==
  /\ at[r] = "commit"
  /\ Apply(r)
  /\ Finish(r, "ok")
  /\ UNCHANGED <<request, item, result, attempt>>

\* The answer is lost: the driver sends the commit again, or gives up.
CommitLost(r) ==
  /\ Failures /\ at[r] = "commit"
  /\ Apply(r) \/ UNCHANGED <<store, history, committed, session>>
  /\ UNCHANGED <<at, reply>> \/ Finish(r, "transactionError")
  /\ UNCHANGED <<request, item, result, attempt>>

CommitRetries(r) ==
  /\ Failures /\ at[r] = "commit" /\ r \notin committed
  /\ Retry(r)
  /\ UNCHANGED <<store, history, request, result, committed>>

\* The service crashes: MongoDB aborts what was not committed.
Crash ==
  /\ Failures /\ Open # {}
  /\ at' = [r \in RequestIds |-> IF r \in Open THEN "done" ELSE at[r]]
  /\ reply' = [r \in RequestIds |-> IF r \in Open THEN "crashed" ELSE reply[r]]
  /\ UNCHANGED <<store, history, request, item, session, result, attempt, committed>>

Done == (\A r \in RequestIds : at[r] = "done") /\ UNCHANGED vars
-----------------------------------------------------------------------------
Handle(r) ==
  \/ Begin(r) \/ SkipInvalid(r) \/ Process(r) \/ Refuse(r) \/ CallbackReturns(r)
  \/ CallbackThrows(r) \/ CallbackRetries(r) \/ Commit(r)

Next ==
  \/ \E r \in RequestIds : Handle(r) \/ CommitLost(r) \/ CommitRetries(r)
  \/ Crash
  \/ Done

Spec == Init /\ [][Next]_vars

-----------------------------------------------------------------------------
(***************************************************************************)
(* Properties                                                              *)
(***************************************************************************)
Oids == (RequestIds \union {None}) \X (Nat \union Ids)
Versions == [oid : Oids, by : RequestIds \union {None},
             action : {"create", "update", "delete"}, id : Ids, value : Values]
Results == [created : Nat, updated : Nat, deleted : Nat, vhidc : Seq(Oids), vhidd : Seq(Oids)]

TypeOK ==
  /\ store \in [Ids -> Values \union {None}]
  /\ history \subseteq Versions
  /\ request \in [RequestIds -> Requests]
  /\ at \in [RequestIds -> {"queued", "items", "commit", "done"}]
  /\ item \in [RequestIds -> Nat]
  /\ result \in [RequestIds -> Results]
  /\ attempt \in [RequestIds -> 0 .. MaxAttempts]
  /\ committed \subseteq RequestIds
  /\ reply \in [RequestIds -> Replies \union {None}]
  /\ \A r \in RequestIds : reply[r] # None <=> at[r] = "done"

Steps(r) == {k \in DOMAIN request[r].items :
               request[r].items[k].op \in {"create", "update", "delete"}}
VersionsBy(r) == {v \in history : v.by = r}

\* All or nothing: a transaction that changes the database is one whose every
\* item went well.  An item that is refused, throws or conflicts half way leaves
\* no trace of the items before it, whatever attempt it is.
CommitsInFull ==
  [][\A r \in committed' \ committed :
       /\ \A k \in Steps(r) : ~ Refused(request[r].items[k])
       /\ \A k \in DOMAIN request[r].items : ~ Throws(request[r].items[k])
       /\ \A k \in Steps(r) :
            request[r].items[k].op # "delete" /\ ~ request[r].items[k].skip
              => \E v \in history' \ history :
                   /\ v.by = r /\ v.action = request[r].items[k].op
                   /\ v.id = request[r].items[k].id]_vars

\* A success lists the oid of every version the transaction has committed, so
\* that the client can find it, however many attempts it took.
VersionsAreListed ==
  \A r \in RequestIds :
    reply[r] = "ok" => \A v \in VersionsBy(r) :
                         v.oid \in ToSet(result[r].vhidc) \union ToSet(result[r].vhidd)

\* Documents and versions are committed together: each step implements one of the
\* abstract specification, whatever was retried before (transaction.cpp:38).  Items
\* that skip their versions are exempt.
Skipped == UNION {{request[r].items[k].id : k \in {j \in Steps(r) : request[r].items[j].skip}}
                  : r \in {q \in RequestIds : request[q].items # None}}
Abstract == INSTANCE VersionedStore WITH exempt <- Skipped
ImplementsVersionedStore == Abstract!Spec

=============================================================================
