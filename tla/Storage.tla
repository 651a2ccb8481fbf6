------------------------------ MODULE Storage ------------------------------
(***************************************************************************)
(* The write actions of the service and the version history they keep,     *)
(* src/src/service/db/storage.cpp.                                         *)
(*                                                                         *)
(* A request runs on one of the service's io threads from its first        *)
(* database call to its reply; each database call is an action, so the     *)
(* calls of concurrent requests interleave.  A document is an identity and *)
(* a value, a filter the identities and the values it selects, a version   *)
(* history document what it records and (by) the request that wrote it.    *)
(* A call that fails may have been applied, or applied in part; a write    *)
(* that is not acknowledged takes effect when it is sent, or is dropped.   *)
(* `seen` and `overlapped` are history variables.                          *)
(***************************************************************************)
EXTENDS Integers, FiniteSets, SequencesExt

CONSTANTS RequestIds,    \* the requests that clients send
          Requests,      \* what a request may be, a set of records
          Ids,           \* document identities, the _id
          Values,        \* what a document may hold besides its _id
          ErrorValues,   \* the values with a string property named "error"
          None,          \* an optional property that is missing; no document
          Stores,        \* contents of the collection at the start
          Threads,       \* number of io threads
          Failures       \* whether database calls may fail and the service may crash

Docs == [id : Ids, value : Values]
Filters == [ids : SUBSET Ids, vals : SUBSET Values, byId : BOOLEAN]
Replacements == [id : Ids \union {None}, value : Values]

\* What is sent for a request, or happened to it.
Replies == {"ok", "skipped", "notFound", "document", "error", "crashed", "poolExhausted",
            "notModifyable", "missingId", "invalidUpdate", "missingArrays"}

ASSUME StorageAssumption ==
  /\ None \notin RequestIds \union Ids \union Values \union Replies
  /\ Requests \subseteq
       [op : {"create", "update", "delete", "bulk"}, id : Ids \union {None},
        value : Values \union {None}, filter : Filters \union {None},
        replace : Replacements \union {None},
        upsert : BOOLEAN, skip : BOOLEAN, hist : BOOLEAN,
        ack : BOOLEAN, clientAck : BOOLEAN,   \* write concern of the write, and of the client
        insert : Seq(Docs), remove : Seq(Filters)]
  /\ \A q \in Requests : /\ q.id # None => q.value # None
                         /\ q.op = "delete" => q.filter # None
                         /\ q.op = "bulk" => q.ack = q.clientAck
  /\ IsFiniteSet(RequestIds) /\ IsFiniteSet(Ids)
  /\ ErrorValues \subseteq Values
  /\ Stores \subseteq [Ids -> Values \union {None}]
  /\ Threads \in Nat
  /\ Failures \in BOOLEAN

VARIABLES store,      \* the collection
          history,    \* the version history collection, in order of insertion
          request,    \* request[r]: the request r, chosen once
          at,         \* at[r]: the database call that r makes next
          left,       \* left[r]: documents, or bulk filters, r has still to handle
          pending,    \* pending[r]: version history documents r is about to insert
          action,     \* action[r]: the action recorded for an update
          reply,      \* reply[r]: the answer sent for r
          seen,       \* history: documents stored since r's write, or its query
          overlapped  \* history: the requests that ran beside another one

vars == <<store, history, request, at, left, pending, action, reply, seen, overlapped>>
locals == <<left, pending, action>>

DocsIn(s) == {d \in Docs : s[d.id] = d.value}
Matching(s, f) == {i \in f.ids : s[i] \in f.vals}
MatchingDocs(s, f) == {d \in DocsIn(s) : d.id \in Matching(s, f)}
ById(i) == [ids |-> {i}, vals |-> Values, byId |-> TRUE]
Version(r, a, d) == [by |-> r, action |-> a, id |-> d.id, value |-> d.value]

Calls == {"find", "write", "reread", "record", "delete"}
Active == {r \in RequestIds : at[r] \in Calls}

\* What was stored while r was active; from now on only, when r restarts.
Watch(r, restart) ==
  seen' = [x \in RequestIds |->
             IF x = r /\ restart THEN DocsIn(store')
             ELSE IF x \in Active THEN seen[x] \union DocsIn(store') ELSE seen[x]]
-----------------------------------------------------------------------------
(***************************************************************************)
(* Which handler a request gets, and what MongoDB makes of its write       *)
(***************************************************************************)
\* process() and update(): the handler depends on the shape of the document, and
\* the tests are made in this order.
Handler(q) ==
  IF q.op # "update" THEN q.op
  ELSE IF q.id # None THEN "updateOne"
  ELSE IF q.filter = None THEN "invalid"
  ELSE IF q.replace # None THEN "replaceOne"
  ELSE IF q.value = None THEN "invalid"
  ELSE IF q.filter.byId THEN "updateByFilter" ELSE "updateMany"

\* Lines 410, 852 and 963; bulk() has no such test.
GuardsHistory(q) == q.hist /\ Handler(q) # "bulk"

\* The replies that need no database.
Immediate(q) ==
  IF GuardsHistory(q) THEN {"notModifyable"}
  ELSE CASE Handler(q) = "create" /\ q.id = None -> {"missingId"}
         [] Handler(q) = "invalid"              -> {"invalidUpdate"}
         [] Handler(q) = "bulk" /\ q.insert = <<>> /\ q.remove = <<>> -> {"missingArrays"}
         [] OTHER                               -> {}

\* The identity an upsert inserts: the one of the filter, or a generated one.
NewIds(s, f) == {i \in (IF f.byId THEN f.ids ELSE Ids) : s[i] = None}

\* update_one and replace_one: one document that matches, or an upserted one,
\* among those whose identity the write may have.
WriteOne(s, f, v, upsert, allowed) ==
  IF Matching(s, f) = {} /\ ~ upsert THEN {[store |-> s, upserted |-> FALSE]}
  ELSE {[store |-> [s EXCEPT ![i] = v], upserted |-> Matching(s, f) = {}] :
          i \in allowed \intersect
                 IF Matching(s, f) = {} THEN NewIds(s, f) ELSE Matching(s, f)}

UpdateOne(s, f, v, upsert) == WriteOne(s, f, v, upsert, Ids)

\* MongoDB does not let a replacement change the _id.
ReplaceOne(s, f, d, upsert) ==
  WriteOne(s, f, d.value, upsert, IF d.id = None THEN Ids ELSE {d.id})

UpdateMany(s, f, v, upsert) ==
  IF Matching(s, f) = {} THEN UpdateOne(s, f, v, upsert)
  ELSE {[store |-> [i \in Ids |-> IF i \in Matching(s, f) THEN v ELSE s[i]],
         upserted |-> FALSE]}

\* An ordered bulk write: the inserts up to the first whose _id is there already ...
Inserted(s, q) ==
  {n \in DOMAIN q.insert : \A k \in 1 .. n :
     /\ s[q.insert[k].id] = None
     /\ \A j \in 1 .. k - 1 : q.insert[j].id # q.insert[k].id}

BulkInserts(s, q) ==
  [i \in Ids |-> IF \E n \in Inserted(s, q) : q.insert[n].id = i
                 THEN q.insert[CHOOSE n \in Inserted(s, q) : q.insert[n].id = i].value
                 ELSE s[i]]

\* ... then, for each filter, the delete of a document that it still selects.
Deletions(s, q) ==
  {d \in [DOMAIN q.remove -> Ids \union {None}] : \A n \in DOMAIN q.remove :
     LET rest == Matching(s, q.remove[n]) \ {d[k] : k \in 1 .. n - 1}
     IN  IF rest = {} THEN d[n] = None ELSE d[n] \in rest}

BulkDeletes(s, q) ==
  {[i \in Ids |-> IF \E n \in DOMAIN q.remove : d[n] = i THEN None ELSE s[i]] : d \in Deletions(s, q)}

\* What the write of a request makes of the collection when it succeeds ...
Effects(s, q) ==
  CASE Handler(q) = "create" ->
         {[store |-> [s EXCEPT ![q.id] = q.value], upserted |-> FALSE] : i \in {q.id} \ {x \in Ids : s[x] # None}}
    [] Handler(q) = "updateOne"      -> UpdateOne(s, ById(q.id), q.value, q.upsert)
    [] Handler(q) = "updateByFilter" -> UpdateOne(s, q.filter, q.value, q.upsert)
    [] Handler(q) = "updateMany"     -> UpdateMany(s, q.filter, q.value, q.upsert)
    [] Handler(q) = "replaceOne"     -> ReplaceOne(s, q.filter, q.replace, q.upsert)
    [] Handler(q) = "bulk" ->
         {[store |-> x, upserted |-> FALSE] :
            x \in IF Inserted(s, q) = DOMAIN q.insert THEN BulkDeletes(BulkInserts(s, q), q) ELSE {}}

\* ... when MongoDB refuses it: a duplicate _id, or a replacement with another one ...
Refusal(s, q) ==
  IF Handler(q) = "bulk" THEN BulkInserts(s, q) ELSE s

\* ... and when it breaks off: some documents of an update_many, the first
\* operations of a bulk write; all of it, if only the answer was lost.
FirstOperations(s, q) ==
  {[q EXCEPT !.insert = i, !.remove = <<>>] : i \in Prefixes(q.insert)}
  \union {[q EXCEPT !.remove = f] :
            f \in IF Inserted(s, q) = DOMAIN q.insert THEN Prefixes(q.remove) ELSE {}}

Partial(s, q) ==
  {s} \union {e.store : e \in Effects(s, q)} \union
  CASE Handler(q) = "updateMany" ->
         {[i \in Ids |-> IF i \in m THEN q.value ELSE s[i]] : m \in SUBSET Matching(s, q.filter)}
    [] Handler(q) = "bulk" ->
         UNION {BulkDeletes(BulkInserts(s, p), p) : p \in FirstOperations(s, q)}
    [] OTHER -> {}
-----------------------------------------------------------------------------
\* What is stored at the start has been created, and versioned, before.  The client
\* of a request has the write concern of the connection string, or the one that a
\* transaction has left in it (transaction.cpp:200).
Init ==
  /\ store \in Stores
  /\ history = SetToSeq({Version(None, "create", d) : d \in DocsIn(store)})
  /\ request \in [RequestIds -> Requests]
  /\ at = [r \in RequestIds |-> "queued"]
  /\ left = [r \in RequestIds |-> <<>>]
  /\ pending = [r \in RequestIds |-> <<>>]
  /\ action = [r \in RequestIds |-> "update"]
  /\ reply = [r \in RequestIds |-> None]
  /\ seen = [r \in RequestIds |-> {}]
  /\ overlapped = {}

\* The end of the handler: the thread is free, locals are gone.
\* Mutant: an exception leaves the handler and no reply is sent.
FinishUnanswered(r, what) ==
  /\ at' = [at EXCEPT ![r] = "done"]
  /\ reply' = IF what = "error" THEN reply ELSE [reply EXCEPT ![r] = what]
  /\ left' = [left EXCEPT ![r] = <<>>]
  /\ pending' = [pending EXCEPT ![r] = <<>>]

Finish(r, what) ==
  /\ at' = [at EXCEPT ![r] = "done"]
  /\ reply' = [reply EXCEPT ![r] = what]
  /\ left' = [left EXCEPT ![r] = <<>>]
  /\ pending' = [pending EXCEPT ![r] = <<>>]

GoTo(r, call) ==
  /\ at' = [at EXCEPT ![r] = call]
  /\ reply' = reply

\* A handler starts on a free thread and takes a client from the pool.
Begin(r) ==
  LET q == request[r] IN
  /\ at[r] = "queued"
  /\ Cardinality(Active) < Threads
  /\ \/ \E e \in Immediate(q) \union (IF Failures THEN {"poolExhausted"} ELSE {}) :
          Finish(r, e)
     \/ /\ Immediate(q) = {}
        /\ \/ /\ Handler(q) = "delete" \/ (Handler(q) = "updateMany" /\ ~ q.skip)
              /\ GoTo(r, "find")
              /\ UNCHANGED <<left, pending>>
           \/ /\ Handler(q) = "bulk" /\ q.remove # <<>> /\ ~ q.skip
              /\ GoTo(r, "find")
              /\ left' = [left EXCEPT ![r] = q.remove]
              /\ pending' = [pending EXCEPT ![r] =
                               [k \in DOMAIN q.insert |-> Version(r, "create", q.insert[k])]]
           \/ /\ Handler(q) = "bulk" /\ (q.remove = <<>> \/ q.skip)
              /\ GoTo(r, "write")
              /\ left' = left
              /\ pending' = [pending EXCEPT ![r] =
                               IF q.skip THEN <<>>
                               ELSE [k \in DOMAIN q.insert |-> Version(r, "create", q.insert[k])]]
           \/ /\ \/ Handler(q) \in {"create", "updateOne", "updateByFilter", "replaceOne"}
                 \/ Handler(q) = "updateMany" /\ q.skip
              /\ GoTo(r, "write")
              /\ UNCHANGED <<left, pending>>
  /\ overlapped' = overlapped \union IF Active = {} THEN {} ELSE Active \union {r}
  /\ UNCHANGED <<store, history, request, action, seen>>
-----------------------------------------------------------------------------
(***************************************************************************)
(* The queries in front of a write                                         *)
(***************************************************************************)
\* update(), lines 890-896: the documents to version are those that match now.
FindMany(r) ==
  /\ at[r] = "find" /\ Handler(request[r]) = "updateMany"
  /\ \E s \in SetToSeqs(MatchingDocs(store, request[r].filter)) :
       left' = [left EXCEPT ![r] = s]
  /\ GoTo(r, "write")
  /\ UNCHANGED <<store, history, request, pending, action, overlapped>>
  /\ Watch(r, FALSE)

\* remove(), lines 993-995: the documents to delete, as they are now.
FindDeleted(r) ==
  /\ at[r] = "find" /\ Handler(request[r]) = "delete"
  /\ \E s \in SetToSeqs(MatchingDocs(store, request[r].filter)) :
       IF s = <<>> THEN Finish(r, "ok")
       ELSE /\ left' = [left EXCEPT ![r] = s]
            /\ GoTo(r, "delete")
            /\ pending' = pending
  /\ UNCHANGED <<store, history, request, action, overlapped>>
  /\ Watch(r, TRUE)

\* bulk(), lines 1138-1155: one query per filter, before anything is written;
\* each document it returns will be recorded as deleted.
FindBulk(r) ==
  /\ at[r] = "find" /\ Handler(request[r]) = "bulk"
  /\ \E s \in SetToSeqs(MatchingDocs(store, Head(left[r]))) :
       pending' = [pending EXCEPT ![r] =
                     @ \o [k \in DOMAIN s |-> Version(r, "delete", s[k])]]
  /\ left' = [left EXCEPT ![r] = Tail(@)]
  /\ GoTo(r, IF Len(left[r]) = 1 THEN "write" ELSE "find")
  /\ UNCHANGED <<store, history, request, action, overlapped>>
  /\ Watch(r, FALSE)
-----------------------------------------------------------------------------
(***************************************************************************)
(* The write                                                               *)
(***************************************************************************)
\* Whether the resulting document is read back, or known without a query (lines
\* 444 and 783).  Mutant: an update by _id records what the request asked for.
RereadsUnlessById(q) == Handler(q) \in {"updateByFilter", "updateMany"}
Rereads(q) ==
  \/ Handler(q) \in {"updateOne", "updateByFilter", "updateMany"}
  \/ Handler(q) = "replaceOne" /\ q.replace.id = None

\* What a request that reads nothing back records, once it has written.
Recorded(r, q, upserted) ==
  CASE Handler(q) = "bulk"       -> pending[r]
    [] Handler(q) = "replaceOne" -> <<Version(r, "replace", q.replace)>>
    [] OTHER -> <<Version(r, IF Handler(q) = "create" \/ upserted THEN "create" ELSE "update",
                          [id |-> q.id, value |-> q.value])>>

\* Lines 437, 620, 693, 778, 902 and 1161.  Mutant: an upsert is not versioned.
SkipsUpserts(q) == q.skip \/ q.upsert
SkipsVersion(q) == q.skip

Written(r, upserted) ==
  LET q == request[r] IN
  IF SkipsVersion(q) \/ (Handler(q) = "updateMany" /\ left[r] = <<>>)
            \/ (Handler(q) = "bulk" /\ pending[r] = <<>>)
  THEN Finish(r, IF q.skip THEN "skipped" ELSE "ok") /\ action' = action
  ELSE /\ action' = [action EXCEPT ![r] =
                       IF Handler(q) = "replaceOne" THEN "replace"
                       ELSE IF upserted THEN "create" ELSE "update"]
       /\ left' = left
       /\ IF Rereads(q)
          THEN GoTo(r, "reread") /\ pending' = pending
          ELSE /\ GoTo(r, "record")
               /\ pending' = [pending EXCEPT ![r] = Recorded(r, q, upserted)]

\* The write succeeds; without acknowledgement no result says that it upserted.
Write(r) ==
  /\ at[r] = "write"
  /\ ~ (request[r].hist /\ Handler(request[r]) = "bulk")
  /\ \E e \in Effects(store, request[r]) :
       /\ store' = e.store
       /\ Written(r, e.upserted /\ request[r].ack)
  /\ Watch(r, Handler(request[r]) # "bulk")
  /\ UNCHANGED <<history, request, overlapped>>

\* MongoDB refuses the write, or an unacknowledged one breaks off.  A refused write
\* throws if it is acknowledged; the handler goes on as if it had been applied
\* if it is not.
WriteRefused(r) ==
  /\ at[r] = "write"
  /\ ~ (request[r].hist /\ Handler(request[r]) = "bulk")
  /\ \/ Effects(store, request[r]) = {} /\ store' = Refusal(store, request[r])
     \/ ~ request[r].ack /\ store' \in Partial(store, request[r])
  /\ IF request[r].ack THEN Finish(r, "error") /\ action' = action
     ELSE Written(r, FALSE)
  /\ Watch(r, Handler(request[r]) # "bulk")
  /\ UNCHANGED <<history, request, overlapped>>

\* bulk() does not look at where it writes: it edits the version history when
\* the request names that collection (modelled with skipVersion).
EditHistory(r) ==
  LET q == request[r]
      hits == {k \in DOMAIN history : /\ history[k].id \in Head(q.remove).ids
                                      /\ history[k].value \in Head(q.remove).vals}
  IN
  /\ at[r] = "write" /\ q.hist /\ Handler(q) = "bulk"
  /\ \/ (hits = {} \/ ~ q.ack) /\ history' = history
     \/ \E k \in hits : history' = RemoveAt(history, k)
  /\ Finish(r, "skipped")
  /\ UNCHANGED <<store, request, action, seen, overlapped>>

\* Lines 1012-1015.
Removed(r) == Version(r, "delete", Head(left[r]))

\* remove(), lines 1017-1039: delete_one by _id, whatever it deletes; without
\* acknowledgement the handler goes on even if it was dropped.
Delete(r) ==
  /\ at[r] = "delete"
  /\ \/ store' = [store EXCEPT ![Head(left[r]).id] = None]
     \/ ~ request[r].ack /\ store' = store
  /\ IF request[r].skip
     THEN IF Len(left[r]) = 1 THEN Finish(r, "skipped")
          ELSE /\ left' = [left EXCEPT ![r] = Tail(@)]
               /\ GoTo(r, "delete")
               /\ pending' = pending
     ELSE /\ left' = [left EXCEPT ![r] = Tail(@)]
          /\ pending' = [pending EXCEPT ![r] = <<Removed(r)>>]
          /\ GoTo(r, "record")
  /\ Watch(r, FALSE)
  /\ UNCHANGED <<history, request, action, overlapped>>
-----------------------------------------------------------------------------
(***************************************************************************)
(* Reading back what was written, and recording it                         *)
(***************************************************************************)
\* The filter of the query that reads the document back (line 910 asks by _id).
\* Mutant: update() repeats the filter of the request.
RereadByRequest(r) ==
  IF Handler(request[r]) = "updateOne" THEN ById(request[r].id) ELSE request[r].filter
RereadFilter(r) ==
  CASE Handler(request[r]) = "updateOne"  -> ById(request[r].id)
    [] Handler(request[r]) = "updateMany" -> ById(Head(left[r]).id)
    [] OTHER                              -> request[r].filter

\* What update() has left after this document.
Rest(r) == IF Handler(request[r]) = "updateMany" THEN Tail(left[r]) ELSE <<>>

\* Lines 622, 695, 796 and 910: find_one, after the write.
Reread(r) ==
  LET q == request[r]
      hits == MatchingDocs(store, RereadFilter(r))
      rest == Rest(r)
  IN
  /\ at[r] = "reread"
  /\ \/ /\ hits = {} /\ rest = <<>>
        /\ Finish(r, IF Handler(q) = "updateMany" THEN "ok" ELSE "notFound")
     \/ /\ hits = {} /\ rest # <<>>
        /\ left' = [left EXCEPT ![r] = rest]
        /\ GoTo(r, "reread")
        /\ pending' = pending
     \/ \E d \in hits :
          IF Handler(q) \in {"updateOne", "updateByFilter"} /\ d.value \in ErrorValues
          THEN Finish(r, "document")
          ELSE /\ left' = [left EXCEPT ![r] = rest]
               /\ GoTo(r, "record")
               /\ pending' = [pending EXCEPT ![r] = <<Version(r, action[r], d)>>]
  /\ UNCHANGED <<store, history, request, action, seen, overlapped>>

\* The versions that an insert without an error leaves in the history: all, if the
\* client is acknowledged (the request's write concern is that of its write).
Landing(r) ==
  IF request[r].clientAck THEN {pending[r]} ELSE Prefixes(pending[r])

\* history(), and the bulk write of line 1165: the versions are inserted, then
\* the handler turns to the next document, if it has one.
Record(r) ==
  /\ at[r] = "record"
  /\ \E v \in Landing(r) : history' = history \o v
  /\ IF left[r] = <<>> THEN Finish(r, "ok")
     ELSE /\ GoTo(r, IF Handler(request[r]) = "delete" THEN "delete" ELSE "reread")
          /\ pending' = [pending EXCEPT ![r] = <<>>]
          /\ left' = left
  /\ UNCHANGED <<store, request, action, seen, overlapped>>
-----------------------------------------------------------------------------
(***************************************************************************)
(* Failures                                                                *)
(***************************************************************************)
\* A database call throws: process() catches, the handler is over.  The call
\* may have been applied nevertheless, or in part.
CallFails(r) ==
  /\ Failures
  /\ \/ /\ at[r] \in {"find", "reread"}
        /\ UNCHANGED <<store, history>>
     \/ /\ at[r] = "write" /\ ~ request[r].hist
        /\ store' \in Partial(store, request[r])
        /\ UNCHANGED history
     \/ /\ at[r] = "delete"
        /\ store' \in {store, [store EXCEPT ![Head(left[r]).id] = None]}
        /\ UNCHANGED history
     \/ /\ at[r] = "record"
        /\ \E v \in Prefixes(pending[r]) : history' = history \o v
        /\ UNCHANGED store
  /\ Finish(r, "error")
  /\ Watch(r, FALSE)
  /\ UNCHANGED <<request, action, overlapped>>

\* The service crashes and restarts: requests in progress are gone, unanswered.
Crash ==
  /\ Failures /\ Active # {}
  /\ at' = [r \in RequestIds |-> IF r \in Active THEN "done" ELSE at[r]]
  /\ reply' = [r \in RequestIds |-> IF r \in Active THEN "crashed" ELSE reply[r]]
  /\ left' = [r \in RequestIds |-> <<>>]
  /\ pending' = [r \in RequestIds |-> <<>>]
  /\ UNCHANGED <<store, history, request, action, seen, overlapped>>

Done == (\A r \in RequestIds : at[r] = "done") /\ UNCHANGED vars
-----------------------------------------------------------------------------
Handle(r) ==
  \/ FindMany(r) \/ FindDeleted(r) \/ FindBulk(r)
  \/ Write(r) \/ WriteRefused(r) \/ EditHistory(r) \/ Delete(r)
  \/ Reread(r) \/ Record(r)

Next ==
  \/ \E r \in RequestIds : Begin(r) \/ Handle(r) \/ CallFails(r)
  \/ Crash
  \/ Done

Spec == Init /\ [][Next]_vars
-----------------------------------------------------------------------------
(***************************************************************************)
(* Properties                                                              *)
(***************************************************************************)
Versions == [by : RequestIds \union {None}, action : {"create", "update", "replace", "delete"},
             id : Ids, value : Values]

TypeOK ==
  /\ store \in [Ids -> Values \union {None}]
  /\ history \in Seq(Versions)
  /\ request \in [RequestIds -> Requests]
  /\ at \in [RequestIds -> Calls \union {"queued", "done"}]
  /\ left \in [RequestIds -> Seq(Docs \union Filters)]
  /\ pending \in [RequestIds -> Seq(Versions)]
  /\ action \in [RequestIds -> {"create", "update", "replace"}]
  /\ reply \in [RequestIds -> Replies \union {None}]
  /\ \A r \in RequestIds : reply[r] # None <=> at[r] = "done"
  /\ seen \in [RequestIds -> SUBSET Docs]
  /\ overlapped \subseteq RequestIds

Recorders == {history[k].by : k \in DOMAIN history}

\* Nobody edits the version history with a bulk request.
NoEdits == \A r \in RequestIds : ~ request[r].hist

\* When the service's client is acknowledged, a success for a single write that
\* was not told to skip the version promises a version history document of that
\* write, whatever other requests, failing calls and crashes did (history()).
SuccessIsVersioned ==
  \A r \in RequestIds :
    /\ NoEdits /\ reply[r] = "ok" /\ request[r].clientAck
    /\ Handler(request[r]) \in {"create", "updateOne", "updateByFilter", "replaceOne"}
    => r \in Recorders

\* The requests for which a version is written of nothing but what was stored: an
\* unacknowledged write of what is not read back is versioned even if it was
\* dropped, a replacement with an _id even if nothing matched, an insert of a bulk
\* request even if the same request deletes it before it is seen.
Plain(q) ==
  /\ Handler(q) \in {"create", "bulk"} => q.ack
  /\ Handler(q) = "replaceOne" => q.replace.id = None \/ (q.upsert /\ q.ack)
  /\ Handler(q) = "bulk" =>
       \A n \in DOMAIN q.insert, m \in DOMAIN q.remove :
         q.insert[n].id \in q.remove[m].ids => q.insert[n].value \notin q.remove[m].vals

\* The version of a plain request is of a document the collection did hold, and no
\* older than the write it stands for: a document read back after an update was
\* stored at or after that update, one recorded by a delete at or after its query.
VersionsWereStored ==
  \A k \in DOMAIN history :
    history[k].by # None /\ Plain(request[history[k].by])
      => [id |-> history[k].id, value |-> history[k].value] \in seen[history[k].by]

\* The request and the client are acknowledged, and the write is to be versioned.
Versioned(q) == q.ack /\ q.clientAck /\ ~ q.skip /\ ~ q.hist

\* The filter names one document at most.
OneId(f) == \A x, y \in f.ids : x = y

\* The requests after which the history can be used to restore the documents.  A
\* document is read back with the filter of the request, which has to select what
\* was written, and nothing else; what update() upserts for a filter is not read
\* back; bulk() records every document that a filter selects, and deletes one.
\* A request of each kind that is left out can leave a document that the history
\* does not show, even alone.
Restorable(q) ==
  /\ Plain(q)
  /\ Handler(q) = "updateByFilter" => OneId(q.filter) /\ q.value \in q.filter.vals
  /\ Handler(q) = "updateMany" => ~ q.upsert
  /\ Handler(q) = "replaceOne" /\ q.replace.id = None =>
       q.filter.byId /\ OneId(q.filter) /\ q.replace.value \in q.filter.vals
  /\ Handler(q) = "bulk" => \A m \in DOMAIN q.remove : OneId(q.remove[m])

\* Every request ran to its end, none beside another, none of them failed or stored
\* what a handler takes for an error, and the history can follow each of them.
Quiet ==
  /\ overlapped = {}
  /\ \A r \in RequestIds :
       /\ at[r] = "done" /\ reply[r] \notin {"error", "crashed", "document"}
       /\ Versioned(request[r]) /\ Restorable(request[r])

\* The newest of the versions h of the document i holds v, or says with None
\* that it was deleted; a document without a version is not stored.
Shows(h, i, v) ==
  \/ v = None /\ \A k \in DOMAIN h : h[k].id # i
  \/ \E k \in DOMAIN h :
       /\ h[k].id = i /\ \A n \in DOMAIN h : n > k => h[n].id # i
       /\ v = IF h[k].action = "delete" THEN None ELSE h[k].value

\* When requests run one after the other, the newest version of a document is
\* the document, and that of a deleted one says that it was deleted: the
\* version history can be used to restore it (src/README.md:85-89).
NewestVersionIsStored == Quiet => \A i \in Ids : Shows(history, i, store[i])

\* An acknowledged update that succeeded has a version with the document it left
\* (src/README.md:388-390, "A version history document with the resulting stored
\* document is also created").
UpdateHasVersion(r) ==
  /\ NoEdits /\ reply[r] = "ok" /\ Handler(request[r]) = "updateOne"
  /\ request[r].ack /\ request[r].clientAck
  => \E k \in DOMAIN history :
       history[k].id = request[r].id /\ history[k].value = request[r].value

UpdateIsVersioned == \A r \in RequestIds : UpdateHasVersion(r)

\* The document that a delete removes is, in this step, the one it will record.
RecordsCurrent(r) ==
  \A i \in Ids :
    at[r] = "delete" /\ at'[r] = "record" /\ store'[i] # store[i]
      => \E k \in DOMAIN pending'[r] :
           pending'[r][k].id = i /\ pending'[r][k].value = store[i]

\* A delete records the document it removed (src/README.md:86, "Deleting a
\* document will move the current document into the version history").
DeleteRecordsCurrent == [][\A r \in RequestIds : RecordsCurrent(r)]_vars
=============================================================================
