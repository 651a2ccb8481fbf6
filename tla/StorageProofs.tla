---------------------------- MODULE StorageProofs ----------------------------
(***************************************************************************)
(* Theorems about Storage, for any number of requests, threads, documents  *)
(* and values: what a success and a version of a document can be relied    *)
(* upon for.                                                               *)
(***************************************************************************)
EXTENDS Storage, FiniteSetTheorems, SequenceTheorems, WellFoundedInduction, TLAPS

StoreTypes == [Ids -> Values \union {None}]
Single == {"create", "updateOne", "updateByFilter", "replaceOne"}
Writing == Single \union {"updateMany", "bulk"}

\* Where a request is tells what it has still to handle.
Stage(r) ==
  LET q == request[r]
      h == Handler(q)
  IN
  /\ at[r] \in Calls => Immediate(q) = {}
  /\ at[r] \in {"queued", "done"} => left[r] = <<>> /\ pending[r] = <<>>
  /\ at[r] = "find" => h \in {"delete", "updateMany", "bulk"}
  /\ at[r] = "find" /\ h = "bulk" => left[r] \in Seq(Filters) /\ left[r] # <<>>
  /\ at[r] = "write" => h \in Writing
  /\ at[r] = "reread" => h \in Single \union {"updateMany"} /\ Rereads(q)
  /\ at[r] = "reread" /\ h = "updateMany" => left[r] # <<>>
  /\ at[r] = "record" => h \in Writing \union {"delete"} /\ pending[r] # <<>>
  /\ \A k \in DOMAIN pending[r] : pending[r][k].by = r
  /\ at[r] = "delete" => h = "delete" /\ left[r] # <<>>
  /\ at[r] \in Calls /\ (h \in Single \/ (h = "bulk" /\ at[r] # "find")) => left[r] = <<>>
  /\ at[r] \in Calls /\ h \in {"delete", "updateMany"} => left[r] \in Seq(Docs)

Stages == \A r \in RequestIds : Stage(r)
TypeInv == TypeOK /\ Stages
-----------------------------------------------------------------------------
(***************************************************************************)
(* Requests and the writes of MongoDB                                      *)
(***************************************************************************)
LEMMA RequestFacts ==
  ASSUME NEW q \in Requests
  PROVE  /\ q.op \in {"create", "update", "delete", "bulk"} /\ q.id \in Ids \union {None}
         /\ q.value \in Values \union {None} /\ q.filter \in Filters \union {None}
         /\ q.replace \in Replacements \union {None}
         /\ q.skip \in BOOLEAN /\ q.ack \in BOOLEAN /\ q.hist \in BOOLEAN /\ q.upsert \in BOOLEAN
         /\ q.insert \in Seq(Docs) /\ q.remove \in Seq(Filters)
         /\ q.id # None => q.value # None
         /\ q.op = "delete" => q.filter # None
         /\ q.clientAck \in BOOLEAN /\ (q.op = "bulk" => q.ack = q.clientAck)
         /\ \A x, y : /\ [q EXCEPT !.insert = x, !.remove = y].insert = x
                       /\ [q EXCEPT !.insert = x, !.remove = y].remove = y
                       /\ [q EXCEPT !.remove = y].insert = q.insert
                       /\ [q EXCEPT !.remove = y].remove = y
<1> DEFINE R == [op : {"create", "update", "delete", "bulk"}, id : Ids \union {None},
                 value : Values \union {None}, filter : Filters \union {None},
                 replace : Replacements \union {None},
                 upsert : BOOLEAN, skip : BOOLEAN, hist : BOOLEAN,
                 ack : BOOLEAN, clientAck : BOOLEAN,
                 insert : Seq(Docs), remove : Seq(Filters)]
<1>1. q \in R
  BY StorageAssumption
<1>2. /\ (q.id # None => q.value # None) /\ (q.op = "delete" => q.filter # None)
      /\ (q.op = "bulk" => q.ack = q.clientAck)
  BY StorageAssumption
<1> QED BY <1>1, <1>2

LEMMA HandlerFacts ==
  ASSUME NEW q \in Requests
  PROVE  /\ Handler(q) \in Writing \union {"delete", "invalid"}
         /\ Handler(q) \in {"create", "updateOne"} /\ Immediate(q) = {} => q.id \in Ids /\ q.value \in Values
         /\ Handler(q) \in {"updateByFilter", "updateMany"} => q.filter \in Filters /\ q.value \in Values
         /\ Handler(q) = "replaceOne" => q.filter \in Filters /\ q.replace \in Replacements
         /\ Handler(q) = "delete" => q.filter \in Filters
<1>1. CASE q.op # "update"
  <2>1. Handler(q) = q.op
    BY <1>1 DEF Handler
  <2>2. q.op = "create" /\ q.id = None => "missingId" \in Immediate(q) \/ "notModifyable" \in Immediate(q)
    BY <2>1 DEF Immediate
  <2> QED BY <1>1, <2>1, <2>2, RequestFacts DEF Writing, Single
<1>2. CASE q.op = "update" /\ q.id # None
  <2>1. Handler(q) = "updateOne"
    BY <1>2 DEF Handler
  <2> QED BY <1>2, <2>1, RequestFacts DEF Writing, Single
<1>3. CASE q.op = "update" /\ q.id = None /\ q.filter = None
  <2>1. Handler(q) = "invalid"
    BY <1>3 DEF Handler
  <2> QED BY <2>1
<1>4. CASE q.op = "update" /\ q.id = None /\ q.filter # None
  <2>1. /\ Handler(q) \in {"replaceOne", "invalid", "updateByFilter", "updateMany"}
        /\ Handler(q) = "replaceOne" => q.replace # None
        /\ Handler(q) \in {"updateByFilter", "updateMany"} => q.value # None
    BY <1>4 DEF Handler
  <2> QED BY <1>4, <2>1, RequestFacts DEF Writing, Single
<1> QED BY <1>1, <1>2, <1>3, <1>4, RequestFacts

LEMMA WriteOneType ==
  ASSUME NEW s \in StoreTypes, NEW f \in Filters, NEW v \in Values, NEW upsert, NEW allowed,
         NEW e \in WriteOne(s, f, v, upsert, allowed)
  PROVE  e.store \in StoreTypes /\ e.upserted \in BOOLEAN
<1>1. CASE e = [store |-> s, upserted |-> FALSE]
  BY <1>1
<1>2. CASE \E i : e = [store |-> [s EXCEPT ![i] = v], upserted |-> Matching(s, f) = {}]
  <2>1. PICK i : e = [store |-> [s EXCEPT ![i] = v], upserted |-> Matching(s, f) = {}]
    BY <1>2
  <2>2. [s EXCEPT ![i] = v] \in StoreTypes
    BY DEF StoreTypes
  <2> QED BY <2>1, <2>2
<1> QED BY <1>1, <1>2 DEF WriteOne

LEMMA BulkTypes ==
  ASSUME NEW s \in StoreTypes, NEW q, q.insert \in Seq(Docs), q.remove \in Seq(Filters)
  PROVE  BulkInserts(s, q) \in StoreTypes /\ BulkDeletes(s, q) \subseteq StoreTypes
<1>1. BulkInserts(s, q) \in StoreTypes
  <2> SUFFICES ASSUME NEW i \in Ids, \E n \in Inserted(s, q) : q.insert[n].id = i
               PROVE  q.insert[CHOOSE n \in Inserted(s, q) : q.insert[n].id = i].value \in Values
    BY DEF BulkInserts, StoreTypes
  <2>1. (CHOOSE n \in Inserted(s, q) : q.insert[n].id = i) \in DOMAIN q.insert
    BY DEF Inserted
  <2>2. \A n \in DOMAIN q.insert : q.insert[n] \in Docs
    OBVIOUS
  <2> QED BY <2>1, <2>2 DEF Docs
<1>2. BulkDeletes(s, q) \subseteq StoreTypes
  BY DEF BulkDeletes, StoreTypes
<1> QED BY <1>1, <1>2

LEMMA EffectTypes ==
  ASSUME NEW s \in StoreTypes, NEW q \in Requests, Handler(q) \in Writing, Immediate(q) = {}
  PROVE  /\ \A e \in Effects(s, q) : e.store \in StoreTypes /\ e.upserted \in BOOLEAN
         /\ Refusal(s, q) \in StoreTypes
<1>0. Refusal(s, q) \in StoreTypes
  BY RequestFacts, BulkTypes DEF Refusal
<1> SUFFICES ASSUME NEW e \in Effects(s, q)
             PROVE  e.store \in StoreTypes /\ e.upserted \in BOOLEAN
  BY <1>0
<1>1. CASE Handler(q) = "create"
  <2>1. Effects(s, q) = {[store |-> [s EXCEPT ![q.id] = q.value], upserted |-> FALSE] :
                           i \in {q.id} \ {x \in Ids : s[x] # None}}
    BY <1>1 DEF Effects
  <2>2. q.id \in Ids /\ q.value \in Values
    BY <1>1, HandlerFacts
  <2>3. [s EXCEPT ![q.id] = q.value] \in StoreTypes
    BY <2>2 DEF StoreTypes
  <2>4. e = [store |-> [s EXCEPT ![q.id] = q.value], upserted |-> FALSE]
    BY <2>1
  <2> QED BY <2>3, <2>4
<1>2. CASE Handler(q) = "updateOne"
  <2>1. Effects(s, q) = WriteOne(s, ById(q.id), q.value, q.upsert, Ids)
    BY <1>2 DEF Effects, UpdateOne
  <2>2. ById(q.id) \in Filters /\ q.value \in Values
    BY <1>2, HandlerFacts DEF ById, Filters
  <2> QED BY <2>1, <2>2, WriteOneType
<1>3. CASE Handler(q) = "updateByFilter"
  <2>1. Effects(s, q) = WriteOne(s, q.filter, q.value, q.upsert, Ids)
    BY <1>3 DEF Effects, UpdateOne
  <2> QED BY <1>3, <2>1, HandlerFacts, WriteOneType
<1>4. CASE Handler(q) = "updateMany"
  <2>1. Effects(s, q) = UpdateMany(s, q.filter, q.value, q.upsert)
    BY <1>4 DEF Effects
  <2>2. CASE Matching(s, q.filter) = {}
    <3>1. Effects(s, q) = WriteOne(s, q.filter, q.value, q.upsert, Ids)
      BY <2>1, <2>2 DEF UpdateMany, UpdateOne
    <3> QED BY <1>4, <3>1, HandlerFacts, WriteOneType
  <2>3. CASE Matching(s, q.filter) # {}
    <3>1. e = [store |-> [i \in Ids |-> IF i \in Matching(s, q.filter) THEN q.value ELSE s[i]],
               upserted |-> FALSE]
      BY <2>1, <2>3 DEF UpdateMany
    <3>2. q.value \in Values
      BY <1>4, HandlerFacts
    <3> QED BY <3>1, <3>2 DEF StoreTypes
  <2> QED BY <2>2, <2>3
<1>5. CASE Handler(q) = "replaceOne"
  <2>1. PICK allowed : Effects(s, q) = WriteOne(s, q.filter, q.replace.value, q.upsert, allowed)
    BY <1>5 DEF Effects, ReplaceOne
  <2>2. q.filter \in Filters /\ q.replace.value \in Values
    BY <1>5, HandlerFacts DEF Replacements
  <2> QED BY <2>1, <2>2, WriteOneType
<1>6. CASE Handler(q) = "bulk"
  <2>1. PICK x \in BulkDeletes(BulkInserts(s, q), q) : e = [store |-> x, upserted |-> FALSE]
    BY <1>6 DEF Effects
  <2> QED BY <2>1, RequestFacts, BulkTypes
<1> QED BY <1>1, <1>2, <1>3, <1>4, <1>5, <1>6 DEF Writing, Single

\* The prefixes of a sequence are sequences of its elements.
LEMMA PrefixType ==
  ASSUME NEW S, NEW s \in Seq(S), NEW x \in Prefixes(s)
  PROVE  /\ x \in Seq(S)
         /\ \A k \in DOMAIN x : k \in DOMAIN s /\ x[k] = s[k]
<1>1. PICK n \in 0 .. Len(s) : x = SubSeq(s, 1, n)
  BY DEF Prefixes
<1>2. /\ x \in Seq(S) /\ Len(x) = n
      /\ \A k \in 1 .. n : x[k] = s[k]
  BY <1>1
<1> QED BY <1>1, <1>2

LEMMA WholeIsPrefix ==
  ASSUME NEW S, NEW s \in Seq(S)
  PROVE  s \in Prefixes(s)
<1>1. Len(s) \in 0 .. Len(s)
  OBVIOUS
<1>2. SubSeq(s, 1, Len(s)) = s
  OBVIOUS
<1> QED BY <1>1, <1>2, Zenon DEF Prefixes

\* A write that breaks off leaves a collection too.
LEMMA PartialTypes ==
  ASSUME NEW s \in StoreTypes, NEW q \in Requests, Handler(q) \in Writing, Immediate(q) = {}
  PROVE  Partial(s, q) \subseteq StoreTypes
<1>0. {s} \union {e.store : e \in Effects(s, q)} \subseteq StoreTypes
  <2>1. \A e \in Effects(s, q) : e.store \in StoreTypes
    BY EffectTypes
  <2> QED BY <2>1
<1>1. CASE Handler(q) = "updateMany"
  <2>1. Partial(s, q) = {s} \union {e.store : e \in Effects(s, q)} \union
          {[i \in Ids |-> IF i \in m THEN q.value ELSE s[i]] : m \in SUBSET Matching(s, q.filter)}
    BY <1>1 DEF Partial
  <2>2. \A m : [i \in Ids |-> IF i \in m THEN q.value ELSE s[i]] \in StoreTypes
    BY <1>1, HandlerFacts DEF StoreTypes
  <2> QED BY <1>0, <2>1, <2>2
<1>2. CASE Handler(q) = "bulk"
  <2>1. Partial(s, q) = {s} \union {e.store : e \in Effects(s, q)} \union
          UNION {BulkDeletes(BulkInserts(s, p), p) : p \in FirstOperations(s, q)}
    BY <1>2 DEF Partial
  <2>2. ASSUME NEW p \in FirstOperations(s, q)
        PROVE  BulkDeletes(BulkInserts(s, p), p) \subseteq StoreTypes
    <3> DEFINE Inserts == {[q EXCEPT !.insert = i, !.remove = <<>>] : i \in Prefixes(q.insert)}
               Removes == {[q EXCEPT !.remove = f] :
                             f \in IF Inserted(s, q) = DOMAIN q.insert THEN Prefixes(q.remove) ELSE {}}
    <3>1. CASE p \in Inserts
      <4>1. PICK i \in Prefixes(q.insert) : p = [q EXCEPT !.insert = i, !.remove = <<>>]
        BY <3>1, Zenon
      <4>2. p.insert \in Seq(Docs) /\ p.remove \in Seq(Filters)
        BY <4>1, RequestFacts, PrefixType
      <4> QED BY <4>2, BulkTypes
    <3>2. CASE p \in Removes
      <4>1. PICK f \in Prefixes(q.remove) : p = [q EXCEPT !.remove = f]
        BY <3>2, Zenon
      <4>2. p.insert \in Seq(Docs) /\ p.remove \in Seq(Filters)
        BY <4>1, RequestFacts, PrefixType
      <4> QED BY <4>2, BulkTypes
    <3>3. FirstOperations(s, q) = Inserts \union Removes
      BY Zenon DEF FirstOperations
    <3> HIDE DEF Inserts, Removes
    <3> QED BY <3>1, <3>2, <3>3
  <2> QED BY <1>0, <2>1, <2>2
<1>3. CASE Handler(q) \notin {"updateMany", "bulk"}
  <2>1. Partial(s, q) = {s} \union {e.store : e \in Effects(s, q)}
    BY <1>3 DEF Partial
  <2> QED BY <1>0, <2>1
<1> QED BY <1>1, <1>2, <1>3 DEF Partial

\* The documents of a store are as many as their identities at most.
LEMMA DocsFinite ==
  ASSUME NEW s \in StoreTypes
  PROVE  /\ IsFiniteSet(DocsIn(s)) /\ DocsIn(s) \subseteq Docs
         /\ \A f : IsFiniteSet(MatchingDocs(s, f)) /\ MatchingDocs(s, f) \subseteq DocsIn(s)
         /\ \A d, e \in DocsIn(s) : d.id = e.id => d = e
<1>1. \A d, e \in DocsIn(s) : d.id = e.id => d = e
  BY DEF DocsIn, Docs
<1>2. DocsIn(s) \subseteq Docs
  BY DEF DocsIn
<1>3. [d \in DocsIn(s) |-> d.id] \in Injection(DocsIn(s), Ids)
  BY <1>1, <1>2 DEF Injection, IsInjective, Docs
<1>4. IsFiniteSet(DocsIn(s))
  BY <1>3, FS_Injection, StorageAssumption
<1>5. \A f : IsFiniteSet(MatchingDocs(s, f)) /\ MatchingDocs(s, f) \subseteq DocsIn(s)
  BY <1>4, FS_Subset DEF MatchingDocs
<1> QED BY <1>1, <1>2, <1>4, <1>5

\* SetToSeqs(S): the sequences of the elements of S.
LEMMA SetToSeqsType ==
  ASSUME NEW S, IsFiniteSet(S), NEW s \in SetToSeqs(S)
  PROVE  /\ s \in Seq(S)
         /\ \A i, j \in DOMAIN s : i # j => s[i] # s[j]
<1>1. /\ s \in [1 .. Cardinality(S) -> S]
      /\ \A i, j \in 1 .. Cardinality(S) : i # j => s[i] # s[j]
  BY DEF SetToSeqs
<1>2. Cardinality(S) \in Nat
  BY FS_CardinalityType
<1>3. s \in Seq(S)
  BY <1>1, <1>2
<1> QED BY <1>1, <1>3

LEMMA SetToSeqType ==
  ASSUME NEW S, IsFiniteSet(S)
  PROVE  SetToSeq(S) \in Seq(S)
<1>1. Cardinality(S) \in Nat /\ ExistsBijection(1 .. Cardinality(S), S)
  BY FS_CardinalityType
<1>2. PICK f : f \in [1 .. Cardinality(S) -> S] /\ IsInjective(f)
  BY <1>1 DEF ExistsBijection, Bijection, Injection
<1>3. SetToSeq(S) \in [1 .. Cardinality(S) -> S]
  BY <1>2 DEF SetToSeq
<1> QED BY <1>1, <1>3

-----------------------------------------------------------------------------
(***************************************************************************)
(* Types and stages                                                        *)
(***************************************************************************)
Step(r) == Begin(r) \/ Handle(r) \/ CallFails(r)

\* A handler goes on to another call, or ends.
LEMMA GoToType ==
  ASSUME TypeOK, NEW r \in RequestIds, NEW call \in Calls, GoTo(r, call), at[r] # "done"
  PROVE  /\ at' \in [RequestIds -> Calls \union {"queued", "done"}] /\ at'[r] = call
         /\ reply' \in [RequestIds -> Replies \union {None}] /\ reply' = reply
         /\ \A o \in RequestIds : reply'[o] # None <=> at'[o] = "done"
         /\ \A o \in RequestIds : o # r => at'[o] = at[o]
BY DEF TypeOK, GoTo, Calls

LEMMA FinishType ==
  ASSUME TypeOK, NEW r \in RequestIds, NEW what \in Replies, Finish(r, what)
  PROVE  /\ at' \in [RequestIds -> Calls \union {"queued", "done"}] /\ at'[r] = "done"
         /\ reply' \in [RequestIds -> Replies \union {None}] /\ reply'[r] = what
         /\ \A o \in RequestIds : reply'[o] # None <=> at'[o] = "done"
         /\ left' \in [RequestIds -> Seq(Docs \union Filters)] /\ left'[r] = <<>>
         /\ pending' \in [RequestIds -> Seq(Versions)] /\ pending'[r] = <<>>
         /\ \A o \in RequestIds : o # r =>
              at'[o] = at[o] /\ reply'[o] = reply[o] /\ left'[o] = left[o] /\ pending'[o] = pending[o]
<1>1. what # None
  BY StorageAssumption
<1>2. /\ at' = [at EXCEPT ![r] = "done"] /\ reply' = [reply EXCEPT ![r] = what]
      /\ left' = [left EXCEPT ![r] = <<>>] /\ pending' = [pending EXCEPT ![r] = <<>>]
  BY DEF Finish
<1>3. <<>> \in Seq(Versions) /\ <<>> \in Seq(Docs \union Filters)
  OBVIOUS
<1>4. /\ at' \in [RequestIds -> Calls \union {"queued", "done"}] /\ at'[r] = "done"
      /\ \A o \in RequestIds : o # r => at'[o] = at[o]
  BY <1>2 DEF TypeOK
<1>5. /\ reply' \in [RequestIds -> Replies \union {None}] /\ reply'[r] = what
      /\ \A o \in RequestIds : o # r => reply'[o] = reply[o]
  BY <1>2 DEF TypeOK
<1>6. /\ left' \in [RequestIds -> Seq(Docs \union Filters)] /\ left'[r] = <<>>
      /\ \A o \in RequestIds : o # r => left'[o] = left[o]
  BY <1>2, <1>3 DEF TypeOK
<1>7. /\ pending' \in [RequestIds -> Seq(Versions)] /\ pending'[r] = <<>>
      /\ \A o \in RequestIds : o # r => pending'[o] = pending[o]
  BY <1>2, <1>3 DEF TypeOK
<1> QED BY <1>1, <1>4, <1>5, <1>6, <1>7 DEF TypeOK

LEMMA WatchType ==
  ASSUME TypeOK, NEW r \in RequestIds, NEW restart, Watch(r, restart)
  PROVE  /\ seen' \in [RequestIds -> SUBSET Docs]
         /\ restart => seen'[r] = DocsIn(store')
         /\ \A x \in RequestIds : ~ (x = r /\ restart) => seen[x] \subseteq seen'[x]
         /\ \A x \in Active : DocsIn(store') \subseteq seen'[x]
         /\ \A x \in RequestIds : seen'[x] \subseteq seen[x] \union DocsIn(store')
<1>1. DocsIn(store') \subseteq Docs
  BY DEF DocsIn
<1>2. \A x \in RequestIds : seen'[x] = IF x = r /\ restart THEN DocsIn(store')
                                       ELSE IF x \in Active THEN seen[x] \union DocsIn(store') ELSE seen[x]
  BY DEF Watch
<1>3. seen' \in [RequestIds -> SUBSET Docs]
  BY <1>1 DEF Watch, TypeOK
<1> QED BY <1>2, <1>3 DEF Active

\* One entry of a function is replaced.
LEMMA PutOne ==
  ASSUME NEW T, NEW f \in [RequestIds -> T], NEW r \in RequestIds, NEW v \in T
  PROVE  /\ [f EXCEPT ![r] = v] \in [RequestIds -> T]
         /\ [f EXCEPT ![r] = v][r] = v
         /\ \A o \in RequestIds \ {r} : [f EXCEPT ![r] = v][o] = f[o]
OBVIOUS

\* What a step of r leaves to the other requests ...
Others(r) ==
  /\ request' = request
  /\ \A o \in RequestIds \ {r} : /\ at'[o] = at[o] /\ left'[o] = left[o] /\ pending'[o] = pending[o]
                                 /\ reply'[o] = reply[o] /\ action'[o] = action[o]
\* ... and what it is shown to preserve.
Kept(r) == TypeOK' /\ Stage(r)' /\ Others(r)

LEMMA KeptIsEnough ==
  ASSUME TypeInv, NEW r \in RequestIds, Kept(r)
  PROVE  TypeInv'
<1>1. ASSUME NEW o \in RequestIds \ {r}
      PROVE  Stage(o)'
  <2>1. Stage(o) /\ request'[o] = request[o] /\ at'[o] = at[o] /\ left'[o] = left[o] /\ pending'[o] = pending[o]
    BY DEF Kept, Others, TypeInv, Stages
  <2> QED BY <2>1 DEF Stage
<1> QED BY <1>1 DEF Kept, TypeInv, Stages

\* A handler goes on to a call with these values of its locals.
Goes(r, call, lf, pd, ac) ==
  /\ GoTo(r, call) /\ at[r] # "done" /\ call \in Calls
  /\ left' = [left EXCEPT ![r] = lf] /\ lf \in Seq(Docs \union Filters)
  /\ pending' = [pending EXCEPT ![r] = pd] /\ pd \in Seq(Versions)
  /\ action' = [action EXCEPT ![r] = ac] /\ ac \in {"create", "update", "replace"}
\* The rest of the state is as it should be.
Around ==
  /\ store' \in StoreTypes /\ history' \in Seq(Versions) /\ request' = request
  /\ seen' \in [RequestIds -> SUBSET Docs] /\ overlapped' \subseteq RequestIds

\* A handler that ends leaves nothing behind.
LEMMA FinishKeeps ==
  ASSUME TypeInv, NEW r \in RequestIds, NEW what \in Replies, Finish(r, what),
         action' = action, Around
  PROVE  Kept(r)
<1>1. TypeOK
  BY DEF TypeInv
<1>2. TypeOK'
  BY <1>1, FinishType DEF TypeOK, StoreTypes, Around
<1>3. at'[r] = "done" /\ left'[r] = <<>> /\ pending'[r] = <<>>
  BY <1>1, FinishType
<1>4. Stage(r)'
  BY <1>3 DEF Stage, Calls
<1>5. Others(r)
  BY <1>1, FinishType DEF Others, Around
<1> QED BY <1>2, <1>4, <1>5 DEF Kept

\* A handler that goes on keeps its types.
LEMMA GoToKeeps ==
  ASSUME TypeInv, NEW r \in RequestIds, NEW call, NEW lf, NEW pd, NEW ac,
         Goes(r, call, lf, pd, ac), Around
  PROVE  /\ TypeOK' /\ Others(r) /\ request'[r] = request[r]
         /\ at'[r] = call /\ left'[r] = lf /\ pending'[r] = pd /\ action'[r] = ac
<1>0. /\ GoTo(r, call) /\ at[r] # "done" /\ call \in Calls
      /\ left' = [left EXCEPT ![r] = lf] /\ lf \in Seq(Docs \union Filters)
      /\ pending' = [pending EXCEPT ![r] = pd] /\ pd \in Seq(Versions)
      /\ action' = [action EXCEPT ![r] = ac] /\ ac \in {"create", "update", "replace"}
      /\ store' \in StoreTypes /\ history' \in Seq(Versions) /\ request' = request
      /\ seen' \in [RequestIds -> SUBSET Docs] /\ overlapped' \subseteq RequestIds
  BY DEF Goes, Around
<1>1. TypeOK
  BY DEF TypeInv
<1>2. /\ at' \in [RequestIds -> Calls \union {"queued", "done"}] /\ at'[r] = call
      /\ reply' \in [RequestIds -> Replies \union {None}] /\ reply' = reply
      /\ \A o \in RequestIds : reply'[o] # None <=> at'[o] = "done"
      /\ \A o \in RequestIds : o # r => at'[o] = at[o]
  BY <1>0, <1>1, GoToType
<1>3. /\ left' \in [RequestIds -> Seq(Docs \union Filters)] /\ left'[r] = lf
      /\ \A o \in RequestIds \ {r} : left'[o] = left[o]
  BY <1>0, <1>1, PutOne DEF TypeOK
<1>4. /\ pending' \in [RequestIds -> Seq(Versions)] /\ pending'[r] = pd
      /\ \A o \in RequestIds \ {r} : pending'[o] = pending[o]
  BY <1>0, <1>1, PutOne DEF TypeOK
<1>5. /\ action' \in [RequestIds -> {"create", "update", "replace"}] /\ action'[r] = ac
      /\ \A o \in RequestIds \ {r} : action'[o] = action[o]
  BY <1>0, <1>1, PutOne DEF TypeOK
<1>6. Others(r)
  BY <1>0, <1>2, <1>3, <1>4, <1>5 DEF Others
<1> QED BY <1>0, <1>1, <1>2, <1>3, <1>4, <1>5, <1>6 DEF TypeOK, StoreTypes

\* A variable that is left alone has the value it had.
LEMMA SameIsPut ==
  ASSUME TypeOK, NEW r \in RequestIds
  PROVE  /\ left' = left => left' = [left EXCEPT ![r] = left[r]]
         /\ pending' = pending => pending' = [pending EXCEPT ![r] = pending[r]]
         /\ action' = action => action' = [action EXCEPT ![r] = action[r]]
         /\ left[r] \in Seq(Docs \union Filters) /\ pending[r] \in Seq(Versions)
         /\ action[r] \in {"create", "update", "replace"}
         /\ at[r] \in Calls \union {"queued", "done"} /\ request[r] \in Requests
BY DEF TypeOK
-----------------------------------------------------------------------------
LEMMA ImmediateReplies ==
  ASSUME NEW q
  PROVE  Immediate(q) \subseteq Replies
<1>1. CASE GuardsHistory(q)
  BY <1>1 DEF Immediate, Replies
<1>2. CASE ~ GuardsHistory(q)
  <2>1. Immediate(q) = CASE Handler(q) = "create" /\ q.id = None -> {"missingId"}
                         [] Handler(q) = "invalid"              -> {"invalidUpdate"}
                         [] Handler(q) = "bulk" /\ q.insert = <<>> /\ q.remove = <<>> -> {"missingArrays"}
                         [] OTHER                               -> {}
    BY <1>2 DEF Immediate
  <2>2. CASE Handler(q) = "create" /\ q.id = None
    BY <2>1, <2>2 DEF Replies
  <2>3. CASE Handler(q) = "invalid"
    BY <2>1, <2>3 DEF Replies
  <2>4. CASE Handler(q) = "bulk" /\ q.insert = <<>> /\ q.remove = <<>>
    BY <2>1, <2>4 DEF Replies
  <2>5. CASE /\ ~ (Handler(q) = "create" /\ q.id = None) /\ Handler(q) # "invalid"
             /\ ~ (Handler(q) = "bulk" /\ q.insert = <<>> /\ q.remove = <<>>)
    BY <2>1, <2>5
  <2> QED BY <2>2, <2>3, <2>4, <2>5
<1> QED BY <1>1, <1>2

\* The versions a bulk request starts with.
LEMMA InsertVersions ==
  ASSUME NEW r \in RequestIds, NEW s \in Seq(Docs), NEW a \in {"create", "update", "replace", "delete"}
  PROVE  /\ [k \in DOMAIN s |-> Version(r, a, s[k])] \in Seq(Versions)
         /\ \A k \in DOMAIN s : Version(r, a, s[k]).by = r
<1>1. Len(s) \in Nat /\ DOMAIN s = 1 .. Len(s) /\ \A k \in DOMAIN s : s[k] \in Docs
  OBVIOUS
<1>2. \A k \in DOMAIN s : Version(r, a, s[k]) \in Versions /\ Version(r, a, s[k]).by = r
  BY <1>1 DEF Version, Versions, Docs
<1>3. [k \in 1 .. Len(s) |-> Version(r, a, s[k])] \in [1 .. Len(s) -> Versions]
  BY <1>1, <1>2
<1>4. [k \in 1 .. Len(s) |-> Version(r, a, s[k])] \in Seq(Versions)
  BY <1>1, <1>3
<1> QED BY <1>1, <1>2, <1>4

LEMMA BeginKeeps ==
  ASSUME TypeInv, NEW r \in RequestIds, Begin(r)
  PROVE  Kept(r)
<1> DEFINE q == request[r]
           h == Handler(q)
           versions == [k \in DOMAIN q.insert |-> Version(r, "create", q.insert[k])]
           ac == action[r]
<1>1. /\ TypeOK /\ Stage(r) /\ at[r] = "queued" /\ q \in Requests
      /\ left[r] = <<>> /\ pending[r] = <<>> /\ ac \in {"create", "update", "replace"}
  BY SameIsPut DEF TypeInv, Stages, Stage, Begin
<1>2. /\ Around /\ action' = action /\ action' = [action EXCEPT ![r] = ac]
      /\ request' = request
  BY <1>1 DEF Begin, TypeOK, StoreTypes, Around, Active
<1>3. /\ left' = left => left' = [left EXCEPT ![r] = <<>>]
      /\ pending' = pending => pending' = [pending EXCEPT ![r] = <<>>]
  BY <1>1, SameIsPut
<1>4. /\ <<>> \in Seq(Docs \union Filters) /\ <<>> \in Seq(Versions) /\ <<>> \in Seq(Docs)
      /\ at[r] # "done" /\ "find" \in Calls /\ "write" \in Calls
  BY <1>1 DEF Calls
<1>5. q.insert \in Seq(Docs) /\ q.remove \in Seq(Filters)
  BY <1>1, RequestFacts
<1>6. q.remove \in Seq(Docs \union Filters)
  BY <1>5
<1>7. versions \in Seq(Versions) /\ \A k \in DOMAIN versions : versions[k].by = r
  <2>1. /\ [k \in DOMAIN q.insert |-> Version(r, "create", q.insert[k])] \in Seq(Versions)
        /\ \A k \in DOMAIN q.insert : Version(r, "create", q.insert[k]).by = r
    BY <1>5, InsertVersions
  <2>2. DOMAIN versions = DOMAIN q.insert
    OBVIOUS
  <2> QED BY <2>1, <2>2
<1>8. CASE \E e \in Immediate(q) \union (IF Failures THEN {"poolExhausted"} ELSE {}) : Finish(r, e)
  <2>1. PICK e \in Replies : Finish(r, e)
    BY <1>8, ImmediateReplies DEF Replies
  <2> QED BY <1>2, <2>1, FinishKeeps
<1> HIDE DEF versions, h, ac
<1>9. CASE /\ Immediate(q) = {}
           /\ h = "delete" \/ (h = "updateMany" /\ ~ q.skip)
           /\ GoTo(r, "find")
           /\ left' = left /\ pending' = pending
  <2>1. Goes(r, "find", <<>>, <<>>, ac)
    BY <1>1, <1>2, <1>3, <1>4, <1>9 DEF Goes
  <2>2. /\ TypeOK' /\ Others(r) /\ request'[r] = q
        /\ at'[r] = "find" /\ left'[r] = <<>> /\ pending'[r] = <<>>
    BY <1>2, <2>1, GoToKeeps
  <2>3. Stage(r)'
    BY <1>4, <1>9, <2>2 DEF Stage, h
  <2> QED BY <2>2, <2>3 DEF Kept
<1>10. CASE /\ Immediate(q) = {}
            /\ h = "bulk" /\ q.remove # <<>> /\ ~ q.skip
            /\ GoTo(r, "find")
            /\ left' = [left EXCEPT ![r] = q.remove]
            /\ pending' = [pending EXCEPT ![r] = versions]
  <2>1. Goes(r, "find", q.remove, versions, ac)
    BY <1>1, <1>2, <1>4, <1>6, <1>7, <1>10 DEF Goes
  <2>2. /\ TypeOK' /\ Others(r) /\ request'[r] = q
        /\ at'[r] = "find" /\ left'[r] = q.remove /\ pending'[r] = versions
    BY <1>2, <2>1, GoToKeeps
  <2>3. Stage(r)'
    BY <1>5, <1>7, <1>10, <2>2 DEF Stage, Single, h
  <2> QED BY <2>2, <2>3 DEF Kept
<1>11. CASE /\ Immediate(q) = {}
            /\ h = "bulk" /\ GoTo(r, "write") /\ left' = left
            /\ pending' = [pending EXCEPT ![r] = IF q.skip THEN <<>> ELSE versions]
  <2> DEFINE pd == IF q.skip THEN <<>> ELSE versions
  <2>1. pd \in Seq(Versions) /\ \A k \in DOMAIN pd : pd[k].by = r
    <3>1. CASE q.skip
      BY <1>4, <3>1
    <3>2. CASE ~ q.skip
      BY <1>7, <3>2
    <3> QED BY <3>1, <3>2
  <2>2. pending' = [pending EXCEPT ![r] = pd]
    BY <1>11
  <2> HIDE DEF pd
  <2>3. Goes(r, "write", <<>>, pd, ac)
    BY <1>1, <1>2, <1>3, <1>4, <1>11, <2>1, <2>2 DEF Goes
  <2>4. /\ TypeOK' /\ Others(r) /\ request'[r] = q
        /\ at'[r] = "write" /\ left'[r] = <<>> /\ pending'[r] = pd
    BY <1>2, <2>3, GoToKeeps
  <2>5. Stage(r)'
    BY <1>11, <2>1, <2>4 DEF Stage, Single, Writing, h
  <2> QED BY <2>4, <2>5 DEF Kept
<1>12. CASE /\ Immediate(q) = {}
            /\ h \in Single \union {"updateMany"}
            /\ GoTo(r, "write") /\ left' = left /\ pending' = pending
  <2>1. Goes(r, "write", <<>>, <<>>, ac)
    BY <1>1, <1>2, <1>3, <1>4, <1>12 DEF Goes
  <2>2. /\ TypeOK' /\ Others(r) /\ request'[r] = q
        /\ at'[r] = "write" /\ left'[r] = <<>> /\ pending'[r] = <<>>
    BY <1>2, <2>1, GoToKeeps
  <2>3. Stage(r)'
    BY <1>4, <1>12, <2>2 DEF Stage, Single, Writing, h
  <2> QED BY <2>2, <2>3 DEF Kept
<1> QED BY <1>8, <1>9, <1>10, <1>11, <1>12 DEF Begin, Single, h, versions
-----------------------------------------------------------------------------
(***************************************************************************)
(* What the calls of a handler do                                          *)
(***************************************************************************)
\* What is known of a request before each call.
LEMMA Known ==
  ASSUME TypeInv, NEW r \in RequestIds
  PROVE  /\ TypeOK /\ Stage(r) /\ request[r] \in Requests /\ store \in StoreTypes
         /\ history \in Seq(Versions) /\ seen \in [RequestIds -> SUBSET Docs]
         /\ overlapped \subseteq RequestIds
         /\ left[r] \in Seq(Docs \union Filters) /\ pending[r] \in Seq(Versions)
         /\ action[r] \in {"create", "update", "replace"}
         /\ action' = action => action' = [action EXCEPT ![r] = action[r]]
         /\ pending' = pending => pending' = [pending EXCEPT ![r] = pending[r]]
         /\ left' = left => left' = [left EXCEPT ![r] = left[r]]
BY SameIsPut DEF TypeInv, Stages, TypeOK, StoreTypes

\* The documents that a query returns, in some order.
LEMMA QueryType ==
  ASSUME NEW s \in StoreTypes, NEW f, NEW d \in SetToSeqs(MatchingDocs(s, f))
  PROVE  /\ d \in Seq(MatchingDocs(s, f)) /\ d \in Seq(DocsIn(s)) /\ d \in Seq(Docs)
         /\ d \in Seq(Docs \union Filters)
         /\ \A i, j \in DOMAIN d : i # j => d[i] # d[j]
<1>1. /\ IsFiniteSet(MatchingDocs(s, f)) /\ MatchingDocs(s, f) \subseteq DocsIn(s)
      /\ DocsIn(s) \subseteq Docs
  BY DocsFinite
<1>2. /\ d \in Seq(MatchingDocs(s, f))
      /\ \A i, j \in DOMAIN d : i # j => d[i] # d[j]
  BY <1>1, SetToSeqsType
<1>3. \A S, T : S \subseteq T /\ d \in Seq(S) => d \in Seq(T)
  OBVIOUS
<1>4. d \in Seq(DocsIn(s))
  BY <1>1, <1>2, <1>3
<1>5. d \in Seq(Docs)
  BY <1>1, <1>3, <1>4
<1>6. d \in Seq(Docs \union Filters)
  BY <1>3, <1>5
<1> QED BY <1>2, <1>4, <1>5, <1>6

LEMMA FindManyDoes ==
  ASSUME TypeInv, NEW r \in RequestIds, FindMany(r)
  PROVE  /\ Around /\ store' = store /\ history' = history
         /\ \E d \in Seq(Docs) : Goes(r, "write", d, pending[r], action[r])
<1>1. /\ store' = store /\ history' = history /\ request' = request /\ pending' = pending
      /\ action' = action /\ GoTo(r, "write") /\ Watch(r, FALSE) /\ at[r] # "done"
      /\ overlapped' = overlapped
  BY DEF FindMany
<1>2. Around
  BY <1>1, Known, WatchType DEF Around
<1>3. PICK d \in SetToSeqs(MatchingDocs(store, request[r].filter)) : left' = [left EXCEPT ![r] = d]
  BY DEF FindMany
<1>4. d \in Seq(Docs) /\ d \in Seq(Docs \union Filters)
  BY <1>3, Known, QueryType
<1>5. Goes(r, "write", d, pending[r], action[r])
  BY <1>1, <1>3, <1>4, Known DEF Goes, Calls
<1> QED BY <1>1, <1>2, <1>4, <1>5

LEMMA FindDeletedDoes ==
  ASSUME TypeInv, NEW r \in RequestIds, FindDeleted(r)
  PROVE  /\ Around /\ store' = store /\ history' = history /\ Watch(r, TRUE) /\ action' = action
         /\ \/ Finish(r, "ok")
            \/ \E d \in SetToSeqs(MatchingDocs(store, request[r].filter)) :
                 d # <<>> /\ Goes(r, "delete", d, pending[r], action[r])
<1>1. /\ store' = store /\ history' = history /\ request' = request
      /\ action' = action /\ Watch(r, TRUE) /\ at[r] # "done" /\ overlapped' = overlapped
  BY DEF FindDeleted
<1>2. Around
  BY <1>1, Known, WatchType DEF Around
<1>3. PICK d \in SetToSeqs(MatchingDocs(store, request[r].filter)) :
        \/ Finish(r, "ok")
        \/ d # <<>> /\ left' = [left EXCEPT ![r] = d] /\ GoTo(r, "delete") /\ pending' = pending
  BY DEF FindDeleted
<1>4. CASE d # <<>> /\ left' = [left EXCEPT ![r] = d] /\ GoTo(r, "delete") /\ pending' = pending
  <2>1. d \in Seq(Docs \union Filters)
    BY <1>3, Known, QueryType
  <2>2. Goes(r, "delete", d, pending[r], action[r])
    BY <1>1, <1>4, <2>1, Known DEF Goes, Calls
  <2> QED BY <1>1, <1>2, <1>3, <1>4, <2>2
<1> QED BY <1>1, <1>2, <1>3, <1>4

LEMMA FindBulkDoes ==
  ASSUME TypeInv, NEW r \in RequestIds, FindBulk(r)
  PROVE  /\ Around /\ store' = store /\ history' = history /\ Watch(r, FALSE)
         /\ \E d \in Seq(DocsIn(store)), call \in {"find", "write"}, lf \in Seq(Filters) :
              /\ call = "find" => lf # <<>>
              /\ call = "write" => lf = <<>>
              /\ d \in Seq(Docs)
              /\ Goes(r, call, lf, pending[r] \o [k \in DOMAIN d |-> Version(r, "delete", d[k])], action[r])
<1> DEFINE call == IF Len(left[r]) = 1 THEN "write" ELSE "find"
           lf == Tail(left[r])
<1>1. /\ store' = store /\ history' = history /\ request' = request
      /\ action' = action /\ Watch(r, FALSE) /\ at[r] = "find" /\ Handler(request[r]) = "bulk"
      /\ left' = [left EXCEPT ![r] = lf] /\ GoTo(r, call) /\ overlapped' = overlapped
  BY DEF FindBulk
<1>2. Around
  BY <1>1, Known, WatchType DEF Around
<1>3. PICK d :
        /\ d \in SetToSeqs(MatchingDocs(store, Head(left[r])))
        /\ pending' = [pending EXCEPT ![r] =
                         pending[r] \o [k \in DOMAIN d |-> Version(r, "delete", d[k])]]
  BY DEF FindBulk
<1>4. d \in Seq(Docs) /\ d \in Seq(DocsIn(store))
  BY <1>3, Known, QueryType
<1> DEFINE versions == [k \in DOMAIN d |-> Version(r, "delete", d[k])]
<1>5. versions \in Seq(Versions)
  BY <1>4, InsertVersions
<1>6. left[r] \in Seq(Filters) /\ left[r] # <<>>
  BY <1>1, Known DEF Stage
<1>7. /\ lf \in Seq(Filters) /\ lf \in Seq(Docs \union Filters)
      /\ call = "find" => lf # <<>>
      /\ call = "write" => lf = <<>>
      /\ call \in {"find", "write"} /\ call \in Calls
  <2>1. lf \in Seq(Filters) /\ Len(lf) = Len(left[r]) - 1 /\ Len(left[r]) \in Nat \ {0}
    BY <1>6
  <2>2. \A S, T : S \subseteq T /\ lf \in Seq(S) => lf \in Seq(T)
    OBVIOUS
  <2>3. lf \in Seq(Docs \union Filters)
    BY <2>1, <2>2
  <2> HIDE DEF lf
  <2>4. lf = <<>> <=> Len(lf) = 0
    BY <2>1, EmptySeq
  <2>5. Len(left[r]) = 1 <=> lf = <<>>
    BY <2>1, <2>4
  <2> QED BY <2>1, <2>3, <2>5 DEF Calls
<1> HIDE DEF versions, call, lf
<1>8. pending[r] \o versions \in Seq(Versions)
  BY <1>5, Known
<1>9. pending' = [pending EXCEPT ![r] = pending[r] \o versions]
  BY <1>3 DEF versions
<1>10. Goes(r, call, lf, pending[r] \o versions, action[r])
  BY <1>1, <1>7, <1>8, <1>9, Known DEF Goes
<1> QED BY <1>1, <1>2, <1>4, <1>7, <1>10 DEF versions

\* A write is over: what the handler does then, and what it will record.
LEMMA RecordedType ==
  ASSUME TypeInv, NEW r \in RequestIds, NEW u \in BOOLEAN, at[r] = "write",
         ~ Rereads(request[r]), Handler(request[r]) = "bulk" => pending[r] # <<>>
  PROVE  /\ Handler(request[r]) \in {"create", "replaceOne", "bulk"}
         /\ Recorded(r, request[r], u) \in Seq(Versions)
         /\ Recorded(r, request[r], u) # <<>>
         /\ \A k \in DOMAIN Recorded(r, request[r], u) : Recorded(r, request[r], u)[k].by = r
<1> DEFINE q == request[r]
<1>1. /\ q \in Requests /\ Immediate(q) = {} /\ Handler(q) \in Writing
      /\ \A k \in DOMAIN pending[r] : pending[r][k].by = r
  BY Known DEF Stage, Calls
<1>2. Handler(q) \in {"create", "replaceOne", "bulk"}
  BY <1>1 DEF Rereads, Writing, Single
<1>3. ASSUME NEW v \in Versions, v.by = r
      PROVE  /\ <<v>> \in Seq(Versions) /\ <<v>> # <<>>
             /\ \A k \in DOMAIN <<v>> : <<v>>[k].by = r
  <2>1. DOMAIN <<v>> = {1} /\ <<v>>[1] = v
    OBVIOUS
  <2> QED BY <1>3, <2>1
<1>4. CASE Handler(q) = "bulk"
  <2>1. Recorded(r, q, u) = pending[r]
    BY <1>4 DEF Recorded
  <2> QED BY <1>1, <1>2, <1>4, <2>1, Known
<1>5. CASE Handler(q) = "replaceOne"
  <2>1. Recorded(r, q, u) = <<Version(r, "replace", q.replace)>>
    BY <1>5 DEF Recorded
  <2>2. q.replace \in Replacements /\ q.replace.id # None
    BY <1>1, <1>5, HandlerFacts DEF Rereads
  <2>3. Version(r, "replace", q.replace) \in Versions /\ Version(r, "replace", q.replace).by = r
    BY <2>2 DEF Version, Versions, Replacements
  <2> HIDE DEF q
  <2> QED BY <1>2, <1>3, <2>1, <2>3 DEF q
<1>6. CASE Handler(q) = "create"
  <2> DEFINE v == Version(r, "create", [id |-> q.id, value |-> q.value])
  <2>1. Recorded(r, q, u) = <<v>>
    BY <1>6 DEF Recorded
  <2>2. q.id \in Ids /\ q.value \in Values
    BY <1>1, <1>6, HandlerFacts
  <2>3. v \in Versions /\ v.by = r
    BY <2>2 DEF Version, Versions
  <2> HIDE DEF v
  <2> QED BY <1>2, <1>3, <2>1, <2>3
<1> QED BY <1>2, <1>4, <1>5, <1>6

LEMMA WrittenDoes ==
  ASSUME TypeInv, NEW r \in RequestIds, NEW u \in BOOLEAN, at[r] = "write", Written(r, u)
  PROVE  \/ \E what \in {"ok", "skipped"} :
              /\ Finish(r, what) /\ action' = action
              /\ what = "ok" => Handler(request[r]) \in {"updateMany", "bulk"}
         \/ \E ac \in {"create", "update", "replace"} :
              /\ Goes(r, "reread", left[r], pending[r], ac)
              /\ Rereads(request[r]) /\ Handler(request[r]) \in Single \union {"updateMany"}
              /\ Handler(request[r]) = "updateMany" => left[r] # <<>>
         \/ \E ac \in {"create", "update", "replace"} :
              /\ Goes(r, "record", left[r], Recorded(r, request[r], u), ac)
              /\ ~ Rereads(request[r])
              /\ Handler(request[r]) = "bulk" => pending[r] # <<>>
<1> DEFINE q == request[r]
           h == Handler(q)
           over == SkipsVersion(q) \/ (h = "updateMany" /\ left[r] = <<>>)
                     \/ (h = "bulk" /\ pending[r] = <<>>)
           ac == IF h = "replaceOne" THEN "replace" ELSE IF u THEN "create" ELSE "update"
<1>1. /\ h \in Writing /\ at[r] # "done" /\ "reread" \in Calls /\ "record" \in Calls
      /\ ac \in {"create", "update", "replace"}
  BY Known DEF Stage, Calls
<1>2. CASE over
  <2>1. Finish(r, IF q.skip THEN "skipped" ELSE "ok") /\ action' = action
    BY <1>2 DEF Written
  <2>2. q.skip \/ h \in {"updateMany", "bulk"}
    BY <1>2 DEF SkipsVersion
  <2>3. CASE q.skip
    BY <2>1, <2>3
  <2>4. CASE ~ q.skip
    BY <2>1, <2>2, <2>4
  <2> QED BY <2>3, <2>4
<1>3. CASE ~ over
  <2>1. /\ action' = [action EXCEPT ![r] = ac] /\ left' = left
        /\ IF Rereads(q) THEN GoTo(r, "reread") /\ pending' = pending
           ELSE GoTo(r, "record") /\ pending' = [pending EXCEPT ![r] = Recorded(r, q, u)]
    BY <1>3 DEF Written
  <2>2. CASE Rereads(q)
    <3>1. Goes(r, "reread", left[r], pending[r], ac)
      BY <1>1, <2>1, <2>2, Known DEF Goes
    <3>2. h # "bulk"
      BY <2>2 DEF Rereads
    <3> QED BY <1>1, <1>3, <2>2, <3>1, <3>2 DEF Writing
  <2>3. CASE ~ Rereads(q)
    <3>1. h = "bulk" => pending[r] # <<>>
      BY <1>3
    <3>2. Recorded(r, q, u) \in Seq(Versions)
      BY <2>3, <3>1, RecordedType
    <3>3. Goes(r, "record", left[r], Recorded(r, q, u), ac)
      BY <1>1, <2>1, <2>3, <3>2, Known DEF Goes
    <3> QED BY <1>1, <2>3, <3>1, <3>3
  <2> QED BY <2>2, <2>3
<1> QED BY <1>2, <1>3

\* What the collection is after a write, and which write it is.
LEMMA WriteDoes ==
  ASSUME TypeInv, NEW r \in RequestIds, Write(r)
  PROVE  /\ Around /\ history' = history /\ at[r] = "write"
         /\ Watch(r, Handler(request[r]) # "bulk")
         /\ \E e \in Effects(store, request[r]) : \E u \in BOOLEAN :
              store' = e.store /\ u = (e.upserted /\ request[r].ack) /\ Written(r, u)
<1>1. /\ history' = history /\ request' = request /\ at[r] = "write"
      /\ Watch(r, Handler(request[r]) # "bulk") /\ overlapped' = overlapped
  BY DEF Write
<1>2. PICK e \in Effects(store, request[r]) :
        store' = e.store /\ Written(r, e.upserted /\ request[r].ack)
  BY DEF Write
<1>3. e.store \in StoreTypes /\ e.upserted \in BOOLEAN /\ request[r].ack \in BOOLEAN
  BY <1>1, <1>2, Known, EffectTypes, RequestFacts DEF Stage, Calls
<1>4. Around
  BY <1>1, <1>2, <1>3, Known, WatchType DEF Around
<1> QED BY <1>1, <1>2, <1>3, <1>4

LEMMA WriteRefusedDoes ==
  ASSUME TypeInv, NEW r \in RequestIds, WriteRefused(r)
  PROVE  /\ Around /\ history' = history /\ at[r] = "write"
         /\ Watch(r, Handler(request[r]) # "bulk")
         /\ \/ request[r].ack /\ Finish(r, "error") /\ action' = action
            \/ ~ request[r].ack /\ Written(r, FALSE)
<1>1. /\ history' = history /\ request' = request /\ at[r] = "write"
      /\ Watch(r, Handler(request[r]) # "bulk") /\ overlapped' = overlapped
      /\ store' = Refusal(store, request[r]) \/ store' \in Partial(store, request[r])
  BY DEF WriteRefused
<1>2. store' \in StoreTypes /\ request[r].ack \in BOOLEAN
  <2>1. /\ store \in StoreTypes /\ request[r] \in Requests
        /\ Handler(request[r]) \in Writing /\ Immediate(request[r]) = {}
    BY <1>1, Known DEF Stage, Calls
  <2>2. Refusal(store, request[r]) \in StoreTypes /\ Partial(store, request[r]) \subseteq StoreTypes
    BY <2>1, EffectTypes, PartialTypes
  <2> QED BY <1>1, <2>1, <2>2, RequestFacts
<1>3. Around
  BY <1>1, <1>2, Known, WatchType DEF Around
<1>4. IF request[r].ack THEN Finish(r, "error") /\ action' = action ELSE Written(r, FALSE)
  BY DEF WriteRefused
<1> QED BY <1>1, <1>2, <1>3, <1>4

LEMMA EditHistoryDoes ==
  ASSUME TypeInv, NEW r \in RequestIds, EditHistory(r)
  PROVE  /\ Around /\ store' = store /\ request[r].hist /\ Handler(request[r]) = "bulk"
         /\ Finish(r, "skipped") /\ action' = action /\ seen' = seen
         /\ history' = history \/ \E k \in DOMAIN history : history' = RemoveAt(history, k)
<1>1. /\ store' = store /\ request' = request /\ request[r].hist /\ Handler(request[r]) = "bulk"
      /\ Finish(r, "skipped") /\ action' = action /\ seen' = seen /\ overlapped' = overlapped
      /\ history' = history \/ \E k \in DOMAIN history : history' = RemoveAt(history, k)
  BY DEF EditHistory
<1>2. ASSUME NEW k \in DOMAIN history, history' = RemoveAt(history, k)
      PROVE  history' \in Seq(Versions)
  BY <1>2, Known DEF RemoveAt
<1>3. Around
  BY <1>1, <1>2, Known DEF Around
<1> QED BY <1>1, <1>3

\* The document a delete is at, and those it has left.
LEMMA HeadOfLeft ==
  ASSUME TypeInv, NEW r \in RequestIds, at[r] = "delete"
  PROVE  /\ Handler(request[r]) = "delete" /\ left[r] # <<>> /\ left[r] \in Seq(Docs)
         /\ Head(left[r]) \in Docs /\ Head(left[r]) = left[r][1] /\ Tail(left[r]) \in Seq(Docs)
         /\ Tail(left[r]) \in Seq(Docs \union Filters) /\ Len(left[r]) \in Nat \ {0}
         /\ Tail(left[r]) = <<>> <=> Len(left[r]) = 1
         /\ \A k \in DOMAIN Tail(left[r]) : k + 1 \in DOMAIN left[r] /\ Tail(left[r])[k] = left[r][k + 1]
         /\ [store EXCEPT ![Head(left[r]).id] = None] \in StoreTypes
         /\ Removed(r) \in Versions /\ Removed(r).by = r
<1>1. Handler(request[r]) = "delete" /\ left[r] # <<>> /\ left[r] \in Seq(Docs)
  BY Known DEF Stage, Calls
<1> DEFINE lf == left[r]
           rest == Tail(lf)
<1> HIDE DEF lf
<1>2. lf \in Seq(Docs) /\ lf # <<>> /\ lf = left[r]
  BY <1>1 DEF lf
<1>3. /\ Head(lf) \in Docs /\ Head(lf) = lf[1] /\ rest \in Seq(Docs) /\ Len(lf) \in Nat \ {0}
      /\ Len(rest) = Len(lf) - 1
      /\ \A k \in DOMAIN rest : k + 1 \in DOMAIN lf /\ rest[k] = lf[k + 1]
  BY <1>2
<1>4. rest = <<>> <=> Len(rest) = 0
  <2> HIDE DEF rest
  <2> QED BY <1>3, EmptySeq
<1>5. rest = <<>> <=> Len(lf) = 1
  BY <1>3, <1>4
<1>6. \A S, T : S \subseteq T /\ rest \in Seq(S) => rest \in Seq(T)
  OBVIOUS
<1>7. rest \in Seq(Docs \union Filters)
  BY <1>3, <1>6
<1>8. [store EXCEPT ![Head(lf).id] = None] \in StoreTypes
  BY Known DEF StoreTypes
<1>9. Removed(r) \in Versions /\ Removed(r).by = r
  BY <1>2, <1>3 DEF Removed, Version, Versions, Docs
<1> QED BY <1>1, <1>2, <1>3, <1>5, <1>7, <1>8, <1>9

LEMMA OneVersion ==
  ASSUME NEW v \in Versions, NEW r, v.by = r
  PROVE  /\ <<v>> \in Seq(Versions) /\ <<v>> # <<>>
         /\ DOMAIN <<v>> = {1} /\ <<v>>[1] = v
         /\ \A k \in DOMAIN <<v>> : <<v>>[k].by = r
<1>1. DOMAIN <<v>> = {1} /\ <<v>>[1] = v /\ <<v>> \in Seq(Versions) /\ <<v>> # <<>>
  OBVIOUS
<1> QED BY <1>1

LEMMA DeleteDoes ==
  ASSUME TypeInv, NEW r \in RequestIds, Delete(r)
  PROVE  /\ Around /\ history' = history /\ action' = action /\ Watch(r, FALSE) /\ at[r] = "delete"
         /\ \/ store' = [store EXCEPT ![Head(left[r]).id] = None]
            \/ ~ request[r].ack /\ store' = store
         /\ \/ Finish(r, "skipped")
            \/ Tail(left[r]) # <<>> /\ Goes(r, "delete", Tail(left[r]), pending[r], action[r])
            \/ Goes(r, "record", Tail(left[r]), <<Removed(r)>>, action[r])
<1>1. /\ history' = history /\ request' = request /\ action' = action /\ Watch(r, FALSE) /\ at[r] = "delete"
      /\ \/ store' = [store EXCEPT ![Head(left[r]).id] = None]
         \/ ~ request[r].ack /\ store' = store
      /\ overlapped' = overlapped
      /\ "delete" \in Calls /\ "record" \in Calls
  BY DEF Delete, Calls
<1>2. Around
  <2>1. [store EXCEPT ![Head(left[r]).id] = None] \in StoreTypes
    BY <1>1, HeadOfLeft
  <2>2. store' \in StoreTypes
    BY <1>1, <2>1, Known
  <2> QED BY <1>1, <2>2, Known, WatchType DEF Around
<1>3. CASE request[r].skip /\ Len(left[r]) = 1
  BY <1>1, <1>2, <1>3 DEF Delete
<1>4. CASE request[r].skip /\ Len(left[r]) # 1
  <2>1. left' = [left EXCEPT ![r] = Tail(left[r])] /\ GoTo(r, "delete") /\ pending' = pending
    BY <1>4 DEF Delete
  <2>2. Tail(left[r]) # <<>> /\ Tail(left[r]) \in Seq(Docs \union Filters)
    BY <1>1, <1>4, HeadOfLeft
  <2>3. Goes(r, "delete", Tail(left[r]), pending[r], action[r])
    BY <1>1, <2>1, <2>2, Known DEF Goes
  <2> QED BY <1>1, <1>2, <2>2, <2>3
<1>5. CASE ~ request[r].skip
  <2>1. /\ left' = [left EXCEPT ![r] = Tail(left[r])] /\ GoTo(r, "record")
        /\ pending' = [pending EXCEPT ![r] = <<Removed(r)>>]
    BY <1>5 DEF Delete
  <2>2. Tail(left[r]) \in Seq(Docs \union Filters) /\ <<Removed(r)>> \in Seq(Versions)
    BY <1>1, HeadOfLeft, OneVersion
  <2>3. Goes(r, "record", Tail(left[r]), <<Removed(r)>>, action[r])
    BY <1>1, <2>1, <2>2, Known DEF Goes
  <2> QED BY <1>1, <1>2, <2>3
<1> QED BY <1>3, <1>4, <1>5

LEMMA RestType ==
  ASSUME TypeInv, NEW r \in RequestIds, at[r] = "reread"
  PROVE  /\ Rest(r) \in Seq(Docs \union Filters) /\ Rest(r) \in Seq(Docs)
         /\ Handler(request[r]) \in Single => Rest(r) = <<>>
         /\ Handler(request[r]) \in Single \union {"updateMany"}
<1>1. Handler(request[r]) \in Single \union {"updateMany"}
  BY Known DEF Stage
<1>2. CASE Handler(request[r]) = "updateMany"
  <2>1. left[r] # <<>> /\ left[r] \in Seq(Docs)
    BY <1>2, Known DEF Stage, Calls
  <2>2. Tail(left[r]) \in Seq(Docs) /\ Rest(r) = Tail(left[r])
    BY <1>2, <2>1 DEF Rest
  <2>3. \A S, T, f : S \subseteq T /\ f \in Seq(S) => f \in Seq(T)
    OBVIOUS
  <2>4. Tail(left[r]) \in Seq(Docs \union Filters)
    BY <2>2, <2>3
  <2> QED BY <1>1, <1>2, <2>2, <2>4 DEF Single
<1>3. CASE Handler(request[r]) # "updateMany"
  BY <1>1, <1>3 DEF Rest
<1> QED BY <1>2, <1>3

LEMMA RereadDoes ==
  ASSUME TypeInv, NEW r \in RequestIds, Reread(r)
  PROVE  /\ Around /\ store' = store /\ history' = history /\ action' = action /\ seen' = seen
         /\ at[r] = "reread"
         /\ \/ \E what \in {"ok", "notFound", "document"} :
                 /\ Finish(r, what)
                 /\ what = "ok" => Handler(request[r]) = "updateMany"
            \/ /\ Rest(r) # <<>>
               /\ Goes(r, "reread", Rest(r), pending[r], action[r])
            \/ \E d \in DocsIn(store) :
                 /\ d \in Docs
                 /\ Version(r, action[r], d) \in Versions
                 /\ Goes(r, "record", Rest(r), <<Version(r, action[r], d)>>, action[r])
<1> DEFINE hits == MatchingDocs(store, RereadFilter(r))
           h == Handler(request[r])
<1>1. /\ store' = store /\ history' = history /\ request' = request /\ action' = action /\ seen' = seen
      /\ at[r] = "reread" /\ "reread" \in Calls /\ "record" \in Calls /\ overlapped' = overlapped
  BY DEF Reread, Calls
<1>2. Around
  BY <1>1, Known DEF Around
<1>3. \/ Finish(r, IF h = "updateMany" THEN "ok" ELSE "notFound")
      \/ Rest(r) # <<>> /\ left' = [left EXCEPT ![r] = Rest(r)] /\ GoTo(r, "reread") /\ pending' = pending
      \/ Finish(r, "document")
      \/ \E d \in hits : /\ left' = [left EXCEPT ![r] = Rest(r)]
                         /\ GoTo(r, "record")
                         /\ pending' = [pending EXCEPT ![r] = <<Version(r, action[r], d)>>]
  BY DEF Reread
<1>4. CASE Finish(r, IF h = "updateMany" THEN "ok" ELSE "notFound")
  BY <1>1, <1>2, <1>4
<1>5. CASE Rest(r) # <<>> /\ left' = [left EXCEPT ![r] = Rest(r)] /\ GoTo(r, "reread") /\ pending' = pending
  <2>1. Goes(r, "reread", Rest(r), pending[r], action[r])
    BY <1>1, <1>5, Known, RestType DEF Goes
  <2> QED BY <1>1, <1>2, <1>5, <2>1
<1>6. CASE \E d \in hits : /\ left' = [left EXCEPT ![r] = Rest(r)]
                           /\ GoTo(r, "record")
                           /\ pending' = [pending EXCEPT ![r] = <<Version(r, action[r], d)>>]
  <2>1. PICK d \in hits : /\ left' = [left EXCEPT ![r] = Rest(r)]
                          /\ GoTo(r, "record")
                          /\ pending' = [pending EXCEPT ![r] = <<Version(r, action[r], d)>>]
    BY <1>6
  <2>2. d \in DocsIn(store) /\ d \in Docs
    BY <2>1, Known, DocsFinite
  <2>3. Version(r, action[r], d) \in Versions
    BY <2>2, Known DEF Version, Versions, Docs
  <2> DEFINE v == Version(r, action[r], d)
  <2> HIDE DEF v
  <2>4. <<v>> \in Seq(Versions)
    BY <2>3 DEF v
  <2>5. Goes(r, "record", Rest(r), <<v>>, action[r])
    BY <1>1, <2>1, <2>4, Known, RestType DEF Goes, v
  <2> QED BY <1>1, <1>2, <2>2, <2>3, <2>5 DEF v
<1>7. CASE Finish(r, "document")
  BY <1>1, <1>2, <1>7
<1> QED BY <1>3, <1>4, <1>5, <1>6, <1>7

LEMMA RecordDoes ==
  ASSUME TypeInv, NEW r \in RequestIds, Record(r)
  PROVE  /\ Around /\ store' = store /\ action' = action /\ seen' = seen
         /\ at[r] = "record"
         /\ \E v \in Prefixes(pending[r]) :
              /\ history' = history \o v /\ v \in Seq(Versions)
              /\ request[r].clientAck => v = pending[r]
         /\ \/ Finish(r, "ok")
            \/ /\ left[r] # <<>> /\ Handler(request[r]) \in {"delete", "updateMany"}
               /\ Goes(r, IF Handler(request[r]) = "delete" THEN "delete" ELSE "reread", left[r], <<>>, action[r])
<1>1. /\ store' = store /\ request' = request /\ action' = action /\ seen' = seen
      /\ at[r] = "record" /\ overlapped' = overlapped
      /\ "delete" \in Calls /\ "reread" \in Calls /\ "record" \in Calls /\ "find" # "record"
  BY DEF Record, Calls
<1>v. \E v \in Prefixes(pending[r]) :
        /\ history' = history \o v /\ v \in Seq(Versions)
        /\ request[r].clientAck => v = pending[r]
  <2>1. PICK v \in Landing(r) : history' = history \o v
    BY DEF Record
  <2>2. pending[r] \in Prefixes(pending[r])
    BY Known, WholeIsPrefix
  <2>3. v \in Prefixes(pending[r]) /\ (request[r].clientAck => v = pending[r])
    BY <2>1, <2>2 DEF Landing
  <2>4. v \in Seq(Versions)
    BY <2>3, Known, PrefixType
  <2> QED BY <2>1, <2>3, <2>4
<1>2. Around
  BY <1>1, <1>v, Known DEF Around
<1>3. CASE left[r] = <<>>
  BY <1>1, <1>v, <1>2, <1>3 DEF Record
<1>4. CASE left[r] # <<>>
  <2>1. /\ GoTo(r, IF Handler(request[r]) = "delete" THEN "delete" ELSE "reread")
        /\ pending' = [pending EXCEPT ![r] = <<>>] /\ left' = left
    BY <1>4 DEF Record
  <2>2. Handler(request[r]) \in {"delete", "updateMany"}
    BY <1>1, <1>4, Known DEF Stage, Writing
  <2>3. <<>> \in Seq(Versions)
    OBVIOUS
  <2>4. Goes(r, IF Handler(request[r]) = "delete" THEN "delete" ELSE "reread", left[r], <<>>, action[r])
    BY <1>1, <2>1, <2>2, <2>3, Known DEF Goes
  <2> QED BY <1>1, <1>v, <1>2, <1>4, <2>2, <2>4
<1> QED BY <1>3, <1>4

LEMMA CallFailsDoes ==
  ASSUME TypeInv, NEW r \in RequestIds, CallFails(r)
  PROVE  /\ Around /\ Finish(r, "error") /\ action' = action /\ Watch(r, FALSE) /\ at[r] \in Calls
         /\ \/ history' = history
            \/ /\ at[r] = "record" /\ store' = store
               /\ \E v \in Prefixes(pending[r]) : history' = history \o v /\ v \in Seq(Versions)
<1>1. /\ request' = request /\ Finish(r, "error") /\ action' = action /\ Watch(r, FALSE)
      /\ at[r] \in Calls /\ overlapped' = overlapped
  BY DEF CallFails, Calls
<1>2. CASE at[r] \in {"find", "reread"} /\ store' = store /\ history' = history
  <2>1. Around
    BY <1>1, <1>2, Known, WatchType DEF Around
  <2> QED BY <1>1, <1>2, <2>1
<1>3. CASE /\ at[r] = "write" /\ history' = history
           /\ store' \in Partial(store, request[r])
  <2>0. /\ store \in StoreTypes /\ request[r] \in Requests
        /\ Handler(request[r]) \in Writing /\ Immediate(request[r]) = {}
    BY <1>1, <1>3, Known DEF Stage
  <2>1. store' \in StoreTypes
    BY <1>3, <2>0, PartialTypes
  <2>2. Around
    BY <1>1, <1>3, <2>1, Known, WatchType DEF Around
  <2> QED BY <1>1, <1>3, <2>2
<1>4. CASE /\ at[r] = "delete" /\ history' = history
           /\ store' \in {store, [store EXCEPT ![Head(left[r]).id] = None]}
  <2>1. store' \in StoreTypes
    <3>1. store \in StoreTypes /\ [store EXCEPT ![Head(left[r]).id] = None] \in StoreTypes
      BY <1>4, Known, HeadOfLeft
    <3> QED BY <1>4, <3>1
  <2>2. Around
    BY <1>1, <1>4, <2>1, Known, WatchType DEF Around
  <2> QED BY <1>1, <1>4, <2>2
<1>5. CASE /\ at[r] = "record" /\ store' = store
           /\ \E v \in Prefixes(pending[r]) : history' = history \o v
  <2>1. PICK v \in Prefixes(pending[r]) : history' = history \o v
    BY <1>5
  <2>2. pending[r] \in Seq(Versions) /\ history \in Seq(Versions)
    BY Known
  <2>3. v \in Seq(Versions)
    BY <2>1, <2>2, PrefixType
  <2>4. history' \in Seq(Versions)
    BY <2>1, <2>2, <2>3
  <2>5. Around
    BY <1>1, <1>5, <2>4, Known, WatchType DEF Around
  <2> QED BY <1>1, <1>5, <2>1, <2>3, <2>5
<1> QED BY <1>2, <1>3, <1>4, <1>5 DEF CallFails

\* A call of a handler keeps the types and the stage of its request.
LEMMA StepKeeps ==
  ASSUME TypeInv, NEW r \in RequestIds, Step(r)
  PROVE  Kept(r)
<1> DEFINE q == request[r]
           h == Handler(q)
<1>0. /\ \A k \in DOMAIN pending[r] : pending[r][k].by = r
      /\ at[r] \in Calls => Immediate(q) = {}
      /\ {"ok", "skipped", "error", "notFound", "document"} \subseteq Replies
      /\ q \in Requests
  BY Known DEF Stage, Replies
<1>f. ASSUME Around, action' = action, NEW what \in {"ok", "skipped", "error", "notFound", "document"},
             Finish(r, what)
      PROVE  Kept(r)
  BY <1>0, <1>f, FinishKeeps
<1>1. CASE Begin(r)
  BY <1>1, BeginKeeps
<1>2. CASE FindMany(r)
  <2>1. PICK d \in Seq(Docs) : Goes(r, "write", d, pending[r], action[r])
    BY <1>2, FindManyDoes
  <2>2. /\ TypeOK' /\ Others(r) /\ request'[r] = q
        /\ at'[r] = "write" /\ left'[r] = d /\ pending'[r] = pending[r]
    BY <1>2, <2>1, FindManyDoes, GoToKeeps
  <2>3. h = "updateMany" /\ at[r] \in Calls
    BY <1>2 DEF FindMany, Calls
  <2>4. Stage(r)'
    BY <1>0, <2>1, <2>2, <2>3 DEF Stage, Writing, Single
  <2> QED BY <2>2, <2>4 DEF Kept
<1>3. CASE FindDeleted(r)
  <2>1. CASE Finish(r, "ok")
    BY <1>3, <1>f, <2>1, FindDeletedDoes
  <2>2. CASE \E d \in SetToSeqs(MatchingDocs(store, request[r].filter)) :
               d # <<>> /\ Goes(r, "delete", d, pending[r], action[r])
    <3>1. PICK d \in SetToSeqs(MatchingDocs(store, request[r].filter)) :
            d # <<>> /\ Goes(r, "delete", d, pending[r], action[r])
      BY <2>2
    <3>2. /\ TypeOK' /\ Others(r) /\ request'[r] = q
          /\ at'[r] = "delete" /\ left'[r] = d /\ pending'[r] = pending[r]
      BY <1>3, <3>1, FindDeletedDoes, GoToKeeps
    <3>3. h = "delete" /\ at[r] \in Calls /\ d \in Seq(Docs)
      BY <1>3, <3>1, Known, QueryType DEF FindDeleted, Calls
    <3>4. Stage(r)'
      BY <1>0, <3>1, <3>2, <3>3 DEF Stage, Writing, Single
    <3> QED BY <3>2, <3>4 DEF Kept
  <2> QED BY <1>3, <2>1, <2>2, FindDeletedDoes
<1>4. CASE FindBulk(r)
  <2>1. PICK d \in Seq(DocsIn(store)), call \in {"find", "write"}, lf \in Seq(Filters) :
          /\ call = "find" => lf # <<>>
          /\ call = "write" => lf = <<>>
          /\ d \in Seq(Docs)
          /\ Goes(r, call, lf, pending[r] \o [k \in DOMAIN d |-> Version(r, "delete", d[k])], action[r])
    BY <1>4, FindBulkDoes
  <2> DEFINE versions == [k \in DOMAIN d |-> Version(r, "delete", d[k])]
             pd == pending[r] \o versions
  <2>2. versions \in Seq(Versions) /\ \A k \in DOMAIN versions : versions[k].by = r
    <3>1. \A k \in DOMAIN d : Version(r, "delete", d[k]).by = r
      BY <2>1, InsertVersions
    <3>2. versions \in Seq(Versions)
      BY <2>1, InsertVersions
    <3> QED BY <3>1, <3>2
  <2> HIDE DEF versions
  <2>3. \A k \in DOMAIN pd : pd[k].by = r
    <3>1. pending[r] \in Seq(Versions)
      BY Known
    <3>2. \A k \in DOMAIN pd : \/ k \in DOMAIN pending[r] /\ pd[k] = pending[r][k]
                               \/ \E j \in DOMAIN versions : pd[k] = versions[j]
      <4> SUFFICES ASSUME NEW k \in DOMAIN pd
                   PROVE  \/ k \in DOMAIN pending[r] /\ pd[k] = pending[r][k]
                          \/ \E j \in DOMAIN versions : pd[k] = versions[j]
        OBVIOUS
      <4>1. k \in 1 .. Len(pending[r]) + Len(versions)
        BY <2>2, <3>1, ConcatProperties
      <4>2. CASE k <= Len(pending[r])
        BY <2>2, <3>1, <4>1, <4>2, ConcatProperties
      <4>3. CASE k > Len(pending[r])
        BY <2>2, <3>1, <4>1, <4>3, ConcatProperties
      <4> QED BY <4>1, <4>2, <4>3, <3>1, <2>2
    <3> QED BY <1>0, <2>2, <3>2
  <2> HIDE DEF pd
  <2>4. /\ TypeOK' /\ Others(r) /\ request'[r] = q
        /\ at'[r] = call /\ left'[r] = lf /\ pending'[r] = pd
    <3>1. Goes(r, call, lf, pd, action[r])
      BY <2>1 DEF pd, versions
    <3>2. Around
      BY <1>4, FindBulkDoes
    <3> QED BY <3>1, <3>2, GoToKeeps
  <2>5. h = "bulk" /\ at[r] \in Calls
    BY <1>4 DEF FindBulk, Calls
  <2>6. Stage(r)'
    BY <1>0, <2>1, <2>3, <2>4, <2>5 DEF Stage, Writing, Single
  <2> QED BY <2>4, <2>6 DEF Kept
<1>w. ASSUME NEW u \in BOOLEAN, at[r] = "write", Written(r, u), Around
      PROVE  Kept(r)
  <2>0. h \in Writing /\ (h \in Single \union {"bulk"} => left[r] = <<>>) /\ at[r] \in Calls
        /\ (h = "updateMany" => left[r] \in Seq(Docs))
    BY <1>w, Known DEF Stage, Calls
  <2>1. CASE \E what \in {"ok", "skipped"} :
               /\ Finish(r, what) /\ action' = action
               /\ what = "ok" => Handler(request[r]) \in {"updateMany", "bulk"}
    BY <1>w, <1>f, <2>1
  <2>2. CASE \E ac \in {"create", "update", "replace"} :
               /\ Goes(r, "reread", left[r], pending[r], ac)
               /\ Rereads(request[r]) /\ Handler(request[r]) \in Single \union {"updateMany"}
               /\ Handler(request[r]) = "updateMany" => left[r] # <<>>
    <3>1. PICK ac \in {"create", "update", "replace"} : Goes(r, "reread", left[r], pending[r], ac)
      BY <2>2
    <3>2. /\ TypeOK' /\ Others(r) /\ request'[r] = q
          /\ at'[r] = "reread" /\ left'[r] = left[r] /\ pending'[r] = pending[r]
      BY <1>w, <3>1, GoToKeeps
    <3>3. Stage(r)'
      BY <1>0, <2>0, <2>2, <3>2 DEF Stage, Writing, Single
    <3> QED BY <3>2, <3>3 DEF Kept
  <2>3. CASE \E ac \in {"create", "update", "replace"} :
               /\ Goes(r, "record", left[r], Recorded(r, request[r], u), ac)
               /\ ~ Rereads(request[r])
               /\ Handler(request[r]) = "bulk" => pending[r] # <<>>
    <3>1. PICK ac \in {"create", "update", "replace"} :
            Goes(r, "record", left[r], Recorded(r, request[r], u), ac)
      BY <2>3
    <3> DEFINE pd == Recorded(r, request[r], u)
    <3>2. h # "updateMany" /\ pd # <<>> /\ \A k \in DOMAIN pd : pd[k].by = r
      BY <1>w, <2>3, RecordedType
    <3> HIDE DEF pd
    <3>3. /\ TypeOK' /\ Others(r) /\ request'[r] = q
          /\ at'[r] = "record" /\ left'[r] = left[r] /\ pending'[r] = pd
      BY <1>w, <3>1, GoToKeeps DEF pd
    <3>4. Stage(r)'
      BY <1>0, <2>0, <3>2, <3>3 DEF Stage, Writing, Single
    <3> QED BY <3>3, <3>4 DEF Kept
  <2> QED BY <1>w, <2>1, <2>2, <2>3, WrittenDoes
<1>5. CASE Write(r)
  BY <1>5, <1>w, WriteDoes
<1>6. CASE WriteRefused(r)
  <2>1. CASE Finish(r, "error") /\ action' = action
    BY <1>6, <1>f, <2>1, WriteRefusedDoes
  <2>2. CASE Written(r, FALSE)
    BY <1>6, <1>w, <2>2, WriteRefusedDoes
  <2> QED BY <1>6, <2>1, <2>2, WriteRefusedDoes
<1>7. CASE EditHistory(r)
  BY <1>7, <1>f, EditHistoryDoes
<1>8. CASE Delete(r)
  <2>0. /\ h = "delete" /\ at[r] \in Calls /\ Tail(left[r]) \in Seq(Docs)
        /\ Removed(r) \in Versions /\ Removed(r).by = r
    BY <1>8, DeleteDoes, HeadOfLeft DEF Calls
  <2>1. CASE Finish(r, "skipped")
    BY <1>8, <1>f, <2>1, DeleteDoes
  <2>2. CASE Tail(left[r]) # <<>> /\ Goes(r, "delete", Tail(left[r]), pending[r], action[r])
    <3>1. /\ TypeOK' /\ Others(r) /\ request'[r] = q
          /\ at'[r] = "delete" /\ left'[r] = Tail(left[r]) /\ pending'[r] = pending[r]
      BY <1>8, <2>2, DeleteDoes, GoToKeeps
    <3>2. Stage(r)'
      BY <1>0, <2>0, <2>2, <3>1 DEF Stage, Writing, Single
    <3> QED BY <3>1, <3>2 DEF Kept
  <2>3. CASE Goes(r, "record", Tail(left[r]), <<Removed(r)>>, action[r])
    <3> DEFINE pd == <<Removed(r)>>
    <3>1. pd # <<>> /\ \A k \in DOMAIN pd : pd[k].by = r
      BY <2>0, OneVersion
    <3> HIDE DEF pd
    <3>2. Around /\ Goes(r, "record", Tail(left[r]), pd, action[r])
      BY <1>8, <2>3, DeleteDoes DEF pd
    <3>4. /\ TypeOK' /\ Others(r) /\ request'[r] = q
          /\ at'[r] = "record" /\ left'[r] = Tail(left[r]) /\ pending'[r] = pd
      BY <3>2, GoToKeeps
    <3>3. Stage(r)'
      BY <1>0, <2>0, <3>1, <3>4 DEF Stage, Writing, Single
    <3> QED BY <3>4, <3>3 DEF Kept
  <2> QED BY <1>8, <2>1, <2>2, <2>3, DeleteDoes
<1>9. CASE Reread(r)
  <2>0. /\ h \in Single \union {"updateMany"} /\ at[r] \in Calls /\ Rereads(q)
        /\ Rest(r) \in Seq(Docs) /\ (h \in Single => Rest(r) = <<>>)
    BY <1>9, RereadDoes, RestType, Known DEF Stage, Calls
  <2>1. CASE \E what \in {"ok", "notFound", "document"} :
               /\ Finish(r, what)
               /\ what = "ok" => Handler(request[r]) = "updateMany"
    BY <1>9, <1>f, <2>1, RereadDoes
  <2>2. CASE Rest(r) # <<>> /\ Goes(r, "reread", Rest(r), pending[r], action[r])
    <3>1. /\ TypeOK' /\ Others(r) /\ request'[r] = q
          /\ at'[r] = "reread" /\ left'[r] = Rest(r) /\ pending'[r] = pending[r]
      BY <1>9, <2>2, RereadDoes, GoToKeeps
    <3>2. Stage(r)'
      BY <1>0, <2>0, <2>2, <3>1 DEF Stage, Writing, Single
    <3> QED BY <3>1, <3>2 DEF Kept
  <2>3. CASE \E d \in DocsIn(store) :
               /\ d \in Docs
               /\ Version(r, action[r], d) \in Versions
               /\ Goes(r, "record", Rest(r), <<Version(r, action[r], d)>>, action[r])
    <3>1. PICK d \in DocsIn(store) : /\ d \in Docs
                                     /\ Version(r, action[r], d) \in Versions
                                     /\ Goes(r, "record", Rest(r), <<Version(r, action[r], d)>>, action[r])
      BY <2>3
    <3> DEFINE pd == <<Version(r, action[r], d)>>
    <3>2. Version(r, action[r], d).by = r
      BY DEF Version
    <3>3. pd # <<>> /\ \A k \in DOMAIN pd : pd[k].by = r
      BY <3>1, <3>2, OneVersion
    <3> HIDE DEF pd
    <3>4. /\ TypeOK' /\ Others(r) /\ request'[r] = q
          /\ at'[r] = "record" /\ left'[r] = Rest(r) /\ pending'[r] = pd
      BY <1>9, <3>1, RereadDoes, GoToKeeps DEF pd
    <3>5. Stage(r)'
      BY <1>0, <2>0, <3>3, <3>4 DEF Stage, Writing, Single
    <3> QED BY <3>4, <3>5 DEF Kept
  <2> QED BY <1>9, <2>1, <2>2, <2>3, RereadDoes
<1>10. CASE Record(r)
  <2>0. /\ at[r] \in Calls /\ at[r] = "record"
        /\ (h \in Single \union {"bulk"} => left[r] = <<>>) /\ (h \in {"delete", "updateMany"} => left[r] \in Seq(Docs))
    BY <1>10, RecordDoes, Known DEF Stage, Calls
  <2>1. CASE Finish(r, "ok")
    BY <1>10, <1>f, <2>1, RecordDoes
  <2>2. CASE /\ left[r] # <<>> /\ h \in {"delete", "updateMany"}
             /\ Goes(r, IF h = "delete" THEN "delete" ELSE "reread", left[r], <<>>, action[r])
    <3>1. /\ TypeOK' /\ Others(r) /\ request'[r] = q
          /\ at'[r] = (IF h = "delete" THEN "delete" ELSE "reread") /\ left'[r] = left[r] /\ pending'[r] = <<>>
      BY <1>10, <2>2, RecordDoes, GoToKeeps
    <3>2. Stage(r)'
      BY <1>0, <2>0, <2>2, <3>1 DEF Stage, Writing, Single, Rereads
    <3> QED BY <3>1, <3>2 DEF Kept
  <2> QED BY <1>10, <2>1, <2>2, RecordDoes
<1>11. CASE CallFails(r)
  BY <1>11, <1>f, CallFailsDoes
<1> QED BY <1>1, <1>2, <1>3, <1>4, <1>5, <1>6, <1>7, <1>8, <1>9, <1>10, <1>11 DEF Step, Handle

LEMMA CrashKeeps ==
  ASSUME TypeInv, Crash
  PROVE  TypeInv'
<1>1. /\ at' = [r \in RequestIds |-> IF r \in Active THEN "done" ELSE at[r]]
      /\ reply' = [r \in RequestIds |-> IF r \in Active THEN "crashed" ELSE reply[r]]
      /\ left' = [r \in RequestIds |-> <<>>]
      /\ pending' = [r \in RequestIds |-> <<>>]
      /\ store' = store /\ history' = history /\ request' = request /\ action' = action /\ seen' = seen
      /\ overlapped' = overlapped
  BY DEF Crash
<1>2. "crashed" \in Replies /\ "crashed" # None
  BY StorageAssumption DEF Replies
<1>3. <<>> \in Seq(Versions) /\ <<>> \in Seq(Docs \union Filters)
  OBVIOUS
<1>4. /\ at' \in [RequestIds -> Calls \union {"queued", "done"}]
      /\ reply' \in [RequestIds -> Replies \union {None}]
      /\ \A r \in RequestIds : reply'[r] # None <=> at'[r] = "done"
  BY <1>1, <1>2 DEF TypeInv, TypeOK, Active, Calls
<1>5. left' \in [RequestIds -> Seq(Docs \union Filters)] /\ pending' \in [RequestIds -> Seq(Versions)]
  BY <1>1, <1>3
<1>6. TypeOK'
  BY <1>1, <1>4, <1>5 DEF TypeInv, TypeOK
<1>7. ASSUME NEW r \in RequestIds
      PROVE  Stage(r)'
  <2>1. at'[r] \in {"queued", "done"} /\ left'[r] = <<>> /\ pending'[r] = <<>>
    BY <1>1, Known DEF Active, TypeOK
  <2> QED BY <2>1 DEF Stage, Calls
<1> QED BY <1>6, <1>7 DEF TypeInv, Stages

LEMMA TypeInit == Init => TypeInv
<1> SUFFICES ASSUME Init PROVE TypeInv
  OBVIOUS
<1>1. store \in StoreTypes
  BY StorageAssumption DEF Init, StoreTypes
<1>2. history \in Seq(Versions)
  <2> DEFINE V == {Version(None, "create", d) : d \in DocsIn(store)}
  <2>1. IsFiniteSet(DocsIn(store)) /\ DocsIn(store) \subseteq Docs
    BY <1>1, DocsFinite
  <2>2. IsFiniteSet(V)
    <3> DEFINE f == [d \in DocsIn(store) |-> Version(None, "create", d)]
    <3>1. f \in Surjection(DocsIn(store), V)
      BY DEF Surjection
    <3> QED BY <2>1, <3>1, FS_Surjection
  <2>3. V \subseteq Versions
    BY <2>1 DEF Version, Versions, Docs
  <2>4. history = SetToSeq(V)
    BY DEF Init
  <2> HIDE DEF V
  <2>5. history \in Seq(V)
    BY <2>2, <2>4, SetToSeqType
  <2> QED BY <2>3, <2>5
<1>3. /\ at \in [RequestIds -> Calls \union {"queued", "done"}]
      /\ request \in [RequestIds -> Requests]
      /\ action \in [RequestIds -> {"create", "update", "replace"}]
      /\ reply \in [RequestIds -> Replies \union {None}]
      /\ \A r \in RequestIds : reply[r] # None <=> at[r] = "done"
      /\ seen \in [RequestIds -> SUBSET Docs] /\ overlapped \subseteq RequestIds
  BY DEF Init
<1>4. left \in [RequestIds -> Seq(Docs \union Filters)] /\ pending \in [RequestIds -> Seq(Versions)]
  <2>1. <<>> \in Seq(Versions) /\ <<>> \in Seq(Docs \union Filters)
    OBVIOUS
  <2> QED BY <2>1 DEF Init
<1>5. TypeOK
  BY <1>1, <1>2, <1>3, <1>4 DEF TypeOK, StoreTypes
<1>6. \A r \in RequestIds : at[r] = "queued" /\ left[r] = <<>> /\ pending[r] = <<>>
  BY DEF Init
<1>7. Stages
  BY <1>6 DEF Stages, Stage, Calls
<1> QED BY <1>5, <1>7 DEF TypeInv

LEMMA TypeStep == TypeInv /\ [Next]_vars => TypeInv'
<1> SUFFICES ASSUME TypeInv, [Next]_vars PROVE TypeInv'
  OBVIOUS
<1>1. CASE \E r \in RequestIds : Step(r)
  BY <1>1, StepKeeps, KeptIsEnough
<1>2. CASE Crash
  BY <1>2, CrashKeeps
<1>3. CASE UNCHANGED vars
  BY <1>3 DEF TypeInv, TypeOK, Stages, Stage, vars
<1> QED BY <1>1, <1>2, <1>3 DEF Next, Step, Done

\* The variables of the write handlers keep their types, and each database call
\* of a handler finds the locals that the calls before it left (storage.cpp).
THEOREM TypeCorrect == Spec => []TypeOK
<1>1. TypeInv => TypeOK
  BY DEF TypeInv
<1> QED BY <1>1, TypeInit, TypeStep, PTL DEF Spec
-----------------------------------------------------------------------------
(***************************************************************************)
(* A success has a version                                                 *)
(***************************************************************************)
\* Versions are added to the history and never taken away.
LEMMA Appended ==
  ASSUME NEW more \in Seq(Versions), history \in Seq(Versions), history' = history \o more
  PROVE  /\ Recorders \subseteq Recorders'
         /\ more # <<>> => more[1].by \in Recorders'
         /\ \A k \in DOMAIN history' : \/ k \in DOMAIN history /\ history'[k] = history[k]
                                       \/ \E j \in DOMAIN more : history'[k] = more[j]
<1>1. /\ Len(history) \in Nat /\ Len(more) \in Nat /\ Len(history') = Len(history) + Len(more)
      /\ history' \in Seq(Versions)
      /\ \A k \in 1 .. Len(history) : history'[k] = history[k]
      /\ \A k \in 1 .. Len(more) : history'[Len(history) + k] = more[k]
  BY ConcatProperties
<1>2. ASSUME NEW k \in DOMAIN history'
      PROVE  \/ k \in DOMAIN history /\ history'[k] = history[k]
             \/ \E j \in DOMAIN more : history'[k] = more[j]
  <2>1. k \in 1 .. Len(history) + Len(more)
    BY <1>1
  <2>2. CASE k <= Len(history)
    BY <1>1, <2>1, <2>2
  <2>3. CASE k > Len(history)
    <3>1. k - Len(history) \in 1 .. Len(more) /\ Len(history) + (k - Len(history)) = k
      BY <1>1, <2>1, <2>3
    <3>2. k - Len(history) \in DOMAIN more
      BY <3>1
    <3> QED BY <1>1, <3>1, <3>2
  <2> QED BY <1>1, <2>1, <2>2, <2>3
<1>3. \A k \in DOMAIN history : k \in DOMAIN history' /\ history'[k] = history[k]
  BY <1>1
<1>4. Recorders \subseteq Recorders'
  BY <1>3 DEF Recorders
<1>5. ASSUME more # <<>>
      PROVE  more[1].by \in Recorders'
  <2>1. Len(more) >= 1
    BY <1>1, <1>5, EmptySeq
  <2>2. Len(history) + 1 \in DOMAIN history' /\ history'[Len(history) + 1] = more[1]
    BY <1>1, <2>1
  <2> QED BY <2>2 DEF Recorders
<1> QED BY <1>2, <1>4, <1>5

LEMMA ImmediateNotOk ==
  ASSUME NEW q
  PROVE  "ok" \notin Immediate(q)
<1>1. CASE GuardsHistory(q)
  BY <1>1 DEF Immediate
<1>2. CASE ~ GuardsHistory(q)
  BY <1>2 DEF Immediate
<1> QED BY <1>1, <1>2

\* How a step may answer "ok".
LEMMA OkAnswers ==
  ASSUME TypeInv, NEW r \in RequestIds, Step(r), reply'[r] = "ok"
  PROVE  Handler(request[r]) \notin Single \/ Record(r)
<1>0. /\ {"ok", "skipped", "error", "notFound", "document"} \subseteq Replies
      /\ None # "ok" /\ at[r] # "done" /\ reply[r] = None
  <2>1. at[r] # "done"
    BY DEF Step, Handle, Begin, FindMany, FindDeleted, FindBulk, Write, WriteRefused,
           EditHistory, Delete, Reread, Record, CallFails
  <2>2. None # "ok" /\ {"ok", "skipped", "error", "notFound", "document"} \subseteq Replies
    BY StorageAssumption DEF Replies
  <2> QED BY <2>1, <2>2 DEF TypeInv, TypeOK
<1>1. ASSUME NEW what \in Replies, Finish(r, what)
      PROVE  what = "ok"
  BY <1>1, FinishType DEF TypeInv
<1>2. ASSUME NEW call, GoTo(r, call)
      PROVE  FALSE
  BY <1>0, <1>2 DEF GoTo
<1>3. ASSUME NEW call, NEW lf, NEW pd, NEW ac, Goes(r, call, lf, pd, ac)
      PROVE  FALSE
  BY <1>2, <1>3 DEF Goes
<1>4. ASSUME NEW u \in BOOLEAN, at[r] = "write", Written(r, u)
      PROVE  Handler(request[r]) \notin Single
  <2>1. PICK what \in {"ok", "skipped"} :
          /\ Finish(r, what)
          /\ what = "ok" => Handler(request[r]) \in {"updateMany", "bulk"}
    BY <1>3, <1>4, WrittenDoes
  <2> QED BY <1>0, <1>1, <2>1 DEF Single
<1>5. CASE Begin(r)
  <2>1. PICK e \in Immediate(request[r]) \union {"poolExhausted"} : Finish(r, e)
    BY <1>2, <1>5 DEF Begin
  <2>2. e \in Replies /\ e # "ok"
    <3>1. "ok" \notin Immediate(request[r])
      BY ImmediateNotOk
    <3> QED BY <2>1, <3>1, ImmediateReplies DEF Replies
  <2> QED BY <1>1, <2>1, <2>2
<1>6. CASE FindMany(r)
  BY <1>3, <1>6, FindManyDoes
<1>7. CASE FindDeleted(r)
  BY <1>7 DEF FindDeleted, Single
<1>8. CASE FindBulk(r)
  BY <1>8 DEF FindBulk, Single
<1>9. CASE Write(r)
  BY <1>4, <1>9, WriteDoes
<1>10. CASE WriteRefused(r)
  <2>1. ~ Finish(r, "error")
    BY <1>0, <1>1
  <2> QED BY <1>4, <1>10, <2>1, WriteRefusedDoes
<1>11. CASE EditHistory(r)
  BY <1>11 DEF EditHistory, Single
<1>12. CASE Delete(r)
  BY <1>12, DeleteDoes, HeadOfLeft DEF Single
<1>13. CASE Reread(r)
  <2>1. PICK what \in {"ok", "notFound", "document"} :
          Finish(r, what) /\ (what = "ok" => Handler(request[r]) = "updateMany")
    BY <1>3, <1>13, RereadDoes
  <2> QED BY <1>0, <1>1, <2>1 DEF Single
<1>14. CASE CallFails(r)
  BY <1>0, <1>1, <1>14, CallFailsDoes
<1> QED BY <1>5, <1>6, <1>7, <1>8, <1>9, <1>10, <1>11, <1>12, <1>13, <1>14 DEF Step, Handle

\* What a step does to the version history.
LEMMA HistoryGrows ==
  ASSUME NoEdits, TypeInv, NEW r \in RequestIds, Step(r)
  PROVE  /\ Recorders \subseteq Recorders'
         /\ Record(r) /\ request[r].clientAck => r \in Recorders'
<1>1. CASE history' = history /\ ~ Record(r)
  BY <1>1 DEF Recorders
<1>2. CASE Record(r)
  <2>1. /\ history \in Seq(Versions) /\ pending[r] \in Seq(Versions)
        /\ pending[r] # <<>> /\ \A k \in DOMAIN pending[r] : pending[r][k].by = r
    BY <1>2, RecordDoes, Known DEF Stage
  <2>2. PICK v \in Seq(Versions) : history' = history \o v /\ (request[r].clientAck => v = pending[r])
    BY <1>2, RecordDoes
  <2>3. 1 \in DOMAIN pending[r]
    BY <2>1, EmptySeq
  <2>4. Recorders \subseteq Recorders' /\ (v # <<>> => v[1].by \in Recorders')
    BY <2>1, <2>2, Appended
  <2> QED BY <2>1, <2>2, <2>3, <2>4
<1>3. CASE CallFails(r) /\ history' # history /\ ~ Record(r)
  <2>1. PICK v \in Seq(Versions) : history' = history \o v
    BY <1>3, CallFailsDoes
  <2>2. Recorders \subseteq Recorders'
    BY <2>1, Known, Appended
  <2> QED BY <1>3, <2>2
<1>4. ~ EditHistory(r)
  BY DEF EditHistory, NoEdits
<1>5. \/ history' = history \/ Record(r) \/ CallFails(r)
  BY <1>4, FindManyDoes, FindDeletedDoes, FindBulkDoes, WriteDoes, WriteRefusedDoes, DeleteDoes, RereadDoes
     DEF Step, Handle, Begin
<1> QED BY <1>1, <1>2, <1>3, <1>5

LEMMA SuccessStep ==
  ASSUME TypeInv, SuccessIsVersioned, [Next]_vars
  PROVE  SuccessIsVersioned'
<1>1. CASE \E r \in RequestIds : Step(r)
  <2>1. PICK r \in RequestIds : Step(r)
    BY <1>1
  <2>2. Others(r)
    BY <2>1, StepKeeps DEF Kept
  <2> SUFFICES ASSUME NoEdits'
               PROVE  SuccessIsVersioned'
    BY DEF SuccessIsVersioned
  <2>0. NoEdits
    BY <2>2 DEF NoEdits, Others
  <2>3. Recorders \subseteq Recorders' /\ (Record(r) /\ request[r].clientAck => r \in Recorders')
    BY <2>0, <2>1, HistoryGrows
  <2>4. ASSUME NEW o \in RequestIds, reply'[o] = "ok", Handler(request'[o]) \in Single,
               request'[o].clientAck
        PROVE  o \in Recorders'
    <3>1. CASE o = r
      BY <2>1, <2>2, <2>3, <2>4, <3>1, OkAnswers DEF Others
    <3>2. CASE o # r
      BY <2>0, <2>2, <2>3, <2>4, <3>2 DEF Others, SuccessIsVersioned, Single
    <3> QED BY <3>1, <3>2
  <2> QED BY <2>4 DEF SuccessIsVersioned, Single
<1>2. CASE Crash
  BY <1>2 DEF Crash, SuccessIsVersioned, Recorders, NoEdits
<1>3. CASE UNCHANGED vars
  BY <1>3 DEF vars, SuccessIsVersioned, Recorders, NoEdits
<1> QED BY <1>1, <1>2, <1>3 DEF Next, Step, Done

\* When the service's client is acknowledged and no bulk request edits the version
\* history, a client that gets a success for a single write can rely on a version
\* history document of that write, whatever other requests, failing calls and
\* crashes do (storage.cpp, history()).
THEOREM SuccessHasVersion == Spec => []SuccessIsVersioned
<1>1. Init => SuccessIsVersioned
  <2>1. None # "ok"
    BY StorageAssumption DEF Replies
  <2> QED BY <2>1 DEF Init, SuccessIsVersioned
<1>2. TypeInv /\ SuccessIsVersioned /\ [Next]_vars => SuccessIsVersioned'
  BY SuccessStep
<1> QED BY <1>1, <1>2, TypeInit, TypeStep, PTL DEF Spec
-----------------------------------------------------------------------------
(***************************************************************************)
(* A version is of a document that was stored                              *)
(***************************************************************************)
DocumentOf(v) == [id |-> v.id, value |-> v.value]

Watched(r) ==
  LET h == Handler(request[r]) IN
  /\ at[r] \in {"reread", "record", "delete"} => DocsIn(store) \subseteq seen[r]
  /\ at[r] \in {"record", "delete"} /\ h = "delete" => \A k \in DOMAIN left[r] : left[r][k] \in seen[r]
  /\ at[r] = "record" => \A k \in DOMAIN pending[r] : DocumentOf(pending[r][k]) \in seen[r]
  /\ at[r] \in {"find", "write"} /\ h = "bulk" =>
       \A k \in DOMAIN pending[r] :
         \/ DocumentOf(pending[r][k]) \in seen[r]
         \/ \E n \in DOMAIN request[r].insert : DocumentOf(pending[r][k]) = request[r].insert[n]
  /\ at[r] \in {"queued", "find", "write"} => \A k \in DOMAIN history : history[k].by # r

StoredInv ==
  TypeInv /\ VersionsWereStored /\ \A r \in RequestIds : Plain(request[r]) => Watched(r)

LEMMA WriteOneLeaves ==
  ASSUME NEW s \in StoreTypes, NEW f \in Filters, NEW v \in Values, NEW i \in Ids,
         NEW e \in WriteOne(s, f, v, TRUE, {i})
  PROVE  e.store[i] = v
<1>1. e \in {[store |-> [s EXCEPT ![x] = v], upserted |-> Matching(s, f) = {}] :
               x \in {i} \intersect IF Matching(s, f) = {} THEN NewIds(s, f) ELSE Matching(s, f)}
  BY DEF WriteOne
<1>2. e.store = [s EXCEPT ![i] = v]
  BY <1>1
<1> QED BY <1>2 DEF StoreTypes

LEMMA BulkLeaves ==
  ASSUME NEW s \in StoreTypes, NEW q \in Requests, Plain(q), Handler(q) = "bulk",
         NEW e \in Effects(s, q), NEW n \in DOMAIN q.insert
  PROVE  q.insert[n] \in DocsIn(e.store)
<1> DEFINE b == BulkInserts(s, q)
           i == q.insert[n].id
<1>1. q.insert \in Seq(Docs) /\ q.remove \in Seq(Filters) /\ q.insert[n] \in Docs /\ i \in Ids
  <2>1. q.insert \in Seq(Docs) /\ q.remove \in Seq(Filters)
    BY RequestFacts
  <2>2. q.insert[n] \in Docs
    BY <2>1
  <2> QED BY <2>1, <2>2 DEF Docs
<1>2. PICK x \in BulkDeletes(b, q) : e.store = x /\ Inserted(s, q) = DOMAIN q.insert
  BY DEF Effects
<1>3. \A m \in DOMAIN q.insert : \A j \in 1 .. m - 1 : q.insert[j].id # q.insert[m].id
  <2>1. \A m \in Inserted(s, q) : \A j \in 1 .. m - 1 : q.insert[j].id # q.insert[m].id
    BY <1>1 DEF Inserted
  <2> QED BY <1>2, <2>1
<1>4. \A m \in DOMAIN q.insert : q.insert[m].id = i => m = n
  <2> SUFFICES ASSUME NEW m \in DOMAIN q.insert, q.insert[m].id = i, m # n
               PROVE  FALSE
    OBVIOUS
  <2>1. m \in Nat \ {0} /\ n \in Nat \ {0}
    BY <1>1
  <2>2. m \in 1 .. n - 1 \/ n \in 1 .. m - 1
    BY <2>1
  <2> QED BY <1>3, <2>2
<1>5. b[i] = q.insert[n].value
  <2>1. (CHOOSE m \in Inserted(s, q) : q.insert[m].id = i) = n
    BY <1>2, <1>4
  <2>2. \E m \in Inserted(s, q) : q.insert[m].id = i
    BY <1>2
  <2> QED BY <1>1, <2>1, <2>2 DEF BulkInserts
<1>6. PICK d \in Deletions(b, q) :
        x = [y \in Ids |-> IF \E m \in DOMAIN q.remove : d[m] = y THEN None ELSE b[y]]
  BY <1>2 DEF BulkDeletes
<1> HIDE DEF b
<1>7. \A m \in DOMAIN q.remove : d[m] # i
  <2> SUFFICES ASSUME NEW m \in DOMAIN q.remove, d[m] = i
               PROVE  FALSE
    OBVIOUS
  <2>1. LET rest == Matching(b, q.remove[m]) \ {d[k] : k \in 1 .. m - 1}
        IN  IF rest = {} THEN d[m] = None ELSE d[m] \in rest
    BY <1>6 DEF Deletions
  <2>2. i # None
    BY <1>1, StorageAssumption
  <2>3. i \in Matching(b, q.remove[m])
    BY <2>1, <2>2
  <2>4. i \in q.remove[m].ids /\ b[i] \in q.remove[m].vals
    BY <2>3 DEF Matching
  <2> QED BY <1>5, <2>4 DEF Plain
<1>8. x[i] = q.insert[n].value
  BY <1>1, <1>5, <1>6, <1>7
<1> QED BY <1>1, <1>2, <1>8 DEF DocsIn

\* What a request records without a query is in the collection after its write.
LEMMA WriteLeaves ==
  ASSUME NEW s \in StoreTypes, NEW q \in Requests, Plain(q), Immediate(q) = {}, NEW e \in Effects(s, q)
  PROVE  /\ Handler(q) = "create" => [id |-> q.id, value |-> q.value] \in DocsIn(e.store)
         /\ Handler(q) = "replaceOne" /\ q.replace.id # None =>
              [id |-> q.replace.id, value |-> q.replace.value] \in DocsIn(e.store)
         /\ Handler(q) = "bulk" => \A n \in DOMAIN q.insert : q.insert[n] \in DocsIn(e.store)
<1>1. ASSUME Handler(q) = "create"
      PROVE  [id |-> q.id, value |-> q.value] \in DocsIn(e.store)
  <2>1. Effects(s, q) = {[store |-> [s EXCEPT ![q.id] = q.value], upserted |-> FALSE] :
                           i \in {q.id} \ {x \in Ids : s[x] # None}}
    BY <1>1 DEF Effects
  <2>2. q.id \in Ids /\ q.value \in Values /\ e.store = [s EXCEPT ![q.id] = q.value]
    BY <1>1, <2>1, HandlerFacts
  <2>3. e.store[q.id] = q.value
    BY <2>2 DEF StoreTypes
  <2> QED BY <2>2, <2>3 DEF DocsIn, Docs
<1>2. ASSUME Handler(q) = "replaceOne", q.replace.id # None
      PROVE  [id |-> q.replace.id, value |-> q.replace.value] \in DocsIn(e.store)
  <2>1. q.upsert = TRUE
    BY <1>2, RequestFacts DEF Plain
  <2>2. Effects(s, q) = WriteOne(s, q.filter, q.replace.value, q.upsert, {q.replace.id})
    BY <1>2 DEF Effects, ReplaceOne
  <2>3. q.filter \in Filters /\ q.replace.id \in Ids /\ q.replace.value \in Values
    BY <1>2, HandlerFacts DEF Replacements
  <2>4. e \in WriteOne(s, q.filter, q.replace.value, TRUE, {q.replace.id})
    BY <2>1, <2>2
  <2>5. e.store[q.replace.id] = q.replace.value
    BY <2>3, <2>4, WriteOneLeaves
  <2> QED BY <2>3, <2>5 DEF DocsIn, Docs
<1>3. ASSUME Handler(q) = "bulk", NEW n \in DOMAIN q.insert
      PROVE  q.insert[n] \in DocsIn(e.store)
  BY <1>3, BulkLeaves
<1> QED BY <1>1, <1>2, <1>3

\* Where the versions of a step come from.
LEMMA HistoryFrom ==
  ASSUME TypeInv, NEW r \in RequestIds, Step(r), NEW k \in DOMAIN history'
  PROVE  \/ \E j \in DOMAIN history : history'[k] = history[j]
         \/ at[r] = "record" /\ \E j \in DOMAIN pending[r] : history'[k] = pending[r][j]
<1>0. history \in Seq(Versions) /\ pending[r] \in Seq(Versions)
  BY Known
<1>1. CASE history' = history
  BY <1>1
<1>p. ASSUME NEW v \in Prefixes(pending[r]), history' = history \o v
      PROVE  \/ \E j \in DOMAIN history : history'[k] = history[j]
             \/ \E j \in DOMAIN pending[r] : history'[k] = pending[r][j]
  <2>1. v \in Seq(Versions) /\ \A j \in DOMAIN v : j \in DOMAIN pending[r] /\ v[j] = pending[r][j]
    BY <1>0, PrefixType
  <2>2. \/ k \in DOMAIN history /\ history'[k] = history[k]
        \/ \E j \in DOMAIN v : history'[k] = v[j]
    BY <1>0, <1>p, <2>1, Appended
  <2> QED BY <2>1, <2>2
<1>2. CASE Record(r)
  BY <1>2, <1>p, RecordDoes
<1>3. CASE EditHistory(r) /\ history' # history
  <2>1. PICK x \in DOMAIN history : history' = RemoveAt(history, x)
    BY <1>3, EditHistoryDoes
  <2>2. x \in 1 .. Len(history) /\ Len(history) \in Nat
    BY <1>0
  <2>3. history' = SubSeq(history, 1, x - 1) \o SubSeq(history, x + 1, Len(history))
    BY <2>1 DEF RemoveAt
  <2> DEFINE s1 == SubSeq(history, 1, x - 1)
             s2 == SubSeq(history, x + 1, Len(history))
  <2>a. /\ s1 \in Seq(Versions) /\ Len(s1) = x - 1
        /\ \A j \in 1 .. Len(s1) : s1[j] = history[j]
    BY <1>0, <2>2
  <2>b. /\ s2 \in Seq(Versions) /\ Len(s2) = Len(history) - x
        /\ \A j \in 1 .. Len(s2) : s2[j] = history[x + j]
    <3>1. x + 1 \in 1 .. Len(history) + 1 /\ Len(history) \in 0 .. Len(history)
      BY <2>2
    <3>2. /\ s2 \in Seq(Versions) /\ DOMAIN s2 = 1 .. Len(s2)
          /\ Len(s2) = IF x + 1 <= Len(history) THEN Len(history) - (x + 1) + 1 ELSE 0
          /\ \A j \in 1 .. Len(s2) : s2[j] = history[x + 1 + j - 1]
      BY <1>0, <2>2, <3>1, SubSeqProperties
    <3>3. Len(s2) = Len(history) - x
      BY <2>2, <3>2
    <3>4. \A j \in 1 .. Len(s2) : x + 1 + j - 1 = x + j
      BY <2>2, <3>3
    <3> QED BY <3>2, <3>3, <3>4
  <2>4. /\ s1 \in Seq(Versions) /\ s2 \in Seq(Versions)
        /\ Len(s1) = x - 1 /\ Len(s2) = Len(history) - x
        /\ \A j \in 1 .. Len(s1) : s1[j] = history[j]
        /\ \A j \in 1 .. Len(s2) : s2[j] = history[x + j]
    BY <2>a, <2>b
  <2> HIDE DEF s1, s2
  <2>5. history' = s1 \o s2
    BY <2>3 DEF s1, s2
  <2>6. k \in 1 .. Len(s1) + Len(s2)
    BY <2>4, <2>5, ConcatProperties
  <2>7. CASE k <= Len(s1)
    <3>0. Len(s1) \in Nat /\ Len(s2) \in Nat /\ k \in 1 .. Len(s1)
      BY <2>2, <2>4, <2>6, <2>7
    <3>1. history'[k] = s1[k]
      BY <2>4, <2>5, <3>0, ConcatProperties
    <3>2. history'[k] = history[k] /\ k \in DOMAIN history
      BY <1>0, <2>2, <2>4, <3>0, <3>1
    <3> QED BY <3>2
  <2>8. CASE k > Len(s1)
    <3>0. Len(s1) \in Nat /\ Len(s2) \in Nat /\ k \in Nat
      BY <2>2, <2>4, <2>6
    <3>1. history'[k] = s2[k - Len(s1)] /\ k - Len(s1) \in 1 .. Len(s2)
      <4>1. history'[k] = IF k <= Len(s1) THEN s1[k] ELSE s2[k - Len(s1)]
        BY <2>4, <2>5, <2>6, ConcatProperties
      <4> QED BY <2>6, <2>8, <3>0, <4>1
    <3>2. history'[k] = history[x + (k - Len(s1))] /\ x + (k - Len(s1)) \in DOMAIN history
      BY <1>0, <2>2, <2>4, <3>1
    <3> QED BY <3>2
  <2> QED BY <2>2, <2>4, <2>6, <2>7, <2>8
<1>4. CASE CallFails(r) /\ history' # history
  <2>1. at[r] = "record" /\ \E v \in Prefixes(pending[r]) : history' = history \o v
    BY <1>4, CallFailsDoes
  <2> QED BY <1>p, <2>1
<1>5. history' = history \/ Record(r) \/ CallFails(r) \/ EditHistory(r)
  BY FindManyDoes, FindDeletedDoes, FindBulkDoes, WriteDoes, WriteRefusedDoes, DeleteDoes, RereadDoes
     DEF Step, Handle, Begin
<1> QED BY <1>1, <1>2, <1>3, <1>4, <1>5

\* What a step shows to the requests that are active.
LEMMA StepSees ==
  ASSUME TypeInv, NEW r \in RequestIds, Step(r)
  PROVE  /\ \A o \in RequestIds \ {r} :
              /\ seen[o] \subseteq seen'[o]
              /\ at[o] \in Calls => DocsIn(store') \subseteq seen'[o] \/ (store' = store /\ seen' = seen)
         /\ at[r] \in Calls => DocsIn(store') \subseteq seen'[r] \/ (store' = store /\ seen' = seen)
         /\ at[r] \in {"reread", "record", "delete"} \/ (at[r] \in {"find", "write"} /\ Handler(request[r]) = "bulk")
              => seen[r] \subseteq seen'[r]
<1>1. CASE store' = store /\ seen' = seen
  BY <1>1
<1>2. ASSUME NEW restart \in BOOLEAN, Watch(r, restart),
             at[r] \in {"reread", "record", "delete"} \/ (at[r] \in {"find", "write"} /\ Handler(request[r]) = "bulk")
               => ~ restart
      PROVE  /\ \A o \in RequestIds \ {r} :
                  /\ seen[o] \subseteq seen'[o]
                  /\ at[o] \in Calls => DocsIn(store') \subseteq seen'[o]
             /\ at[r] \in Calls => DocsIn(store') \subseteq seen'[r]
             /\ at[r] \in {"reread", "record", "delete"}
                  \/ (at[r] \in {"find", "write"} /\ Handler(request[r]) = "bulk")
                  => seen[r] \subseteq seen'[r]
  BY <1>2, WatchType DEF TypeInv, Active
<1>3. CASE FindMany(r)
  BY <1>2, <1>3 DEF FindMany
<1>4. CASE FindDeleted(r)
  BY <1>2, <1>4 DEF FindDeleted
<1>5. CASE FindBulk(r)
  BY <1>2, <1>5 DEF FindBulk
<1>6. CASE Write(r)
  BY <1>2, <1>6, WriteDoes
<1>7. CASE WriteRefused(r)
  BY <1>2, <1>7, WriteRefusedDoes
<1>8. CASE Delete(r)
  BY <1>2, <1>8, DeleteDoes
<1>9. CASE CallFails(r)
  BY <1>2, <1>9, CallFailsDoes
<1>10. CASE Begin(r) \/ EditHistory(r) \/ Reread(r) \/ Record(r)
  BY <1>1, <1>10 DEF Begin, EditHistory, Reread, Record
<1> QED BY <1>3, <1>4, <1>5, <1>6, <1>7, <1>8, <1>9, <1>10 DEF Step, Handle

\* The versions that were there, and those of the step, are of documents its
\* request saw.
LEMMA StoredHolds ==
  ASSUME StoredInv, NEW r \in RequestIds, Step(r)
  PROVE  VersionsWereStored'
<1>0. TypeInv /\ VersionsWereStored /\ request' = request /\ (Plain(request[r]) => Watched(r))
  BY StepKeeps DEF StoredInv, Kept, Others
<1> SUFFICES ASSUME NEW k \in DOMAIN history', history'[k].by # None,
                    Plain(request[history'[k].by])
             PROVE  DocumentOf(history'[k]) \in seen'[history'[k].by]
  BY <1>0 DEF VersionsWereStored, DocumentOf
<1>1. CASE \E j \in DOMAIN history : history'[k] = history[j]
  <2>1. PICK j \in DOMAIN history : history'[k] = history[j]
    BY <1>1
  <2> DEFINE o == history[j].by
  <2>2. history[j] \in Versions
    BY <1>0, Known
  <2>3. o \in RequestIds /\ DocumentOf(history[j]) \in seen[o]
    BY <1>0, <2>1, <2>2 DEF VersionsWereStored, Versions, DocumentOf
  <2>4. seen[o] \subseteq seen'[o]
    <3>1. CASE o = r
      <4>1. at[r] \notin {"queued", "find", "write"}
        BY <1>0, <2>1, <3>1 DEF Watched
      <4>2. at[r] \in {"reread", "record", "delete"}
        BY <1>0, <4>1 DEF Step, Handle, Begin, FindMany, FindDeleted, FindBulk, Write, WriteRefused,
                          EditHistory, Delete, Reread, Record, CallFails
      <4> QED BY <1>0, <3>1, <4>2, StepSees
    <3>2. CASE o # r
      BY <1>0, <2>3, <3>2, StepSees
    <3> QED BY <3>1, <3>2
  <2> QED BY <2>1, <2>3, <2>4
<1>2. CASE at[r] = "record" /\ \E j \in DOMAIN pending[r] : history'[k] = pending[r][j]
  <2>1. PICK j \in DOMAIN pending[r] : history'[k] = pending[r][j]
    BY <1>2
  <2>2. pending[r][j].by = r /\ DocumentOf(pending[r][j]) \in seen[r]
    BY <1>0, <1>2, Known DEF Watched, Stage
  <2>3. seen[r] \subseteq seen'[r]
    BY <1>0, <1>2, StepSees
  <2> QED BY <2>1, <2>2, <2>3
<1> QED BY <1>0, <1>1, <1>2, HistoryFrom

\* The other requests go on seeing what is stored.
LEMMA OthersWatch ==
  ASSUME StoredInv, NEW r \in RequestIds, Step(r), NEW o \in RequestIds \ {r}, Plain(request[o])
  PROVE  Watched(o)'
<1>0. TypeInv /\ Watched(o) /\ Stage(r)
  BY DEF StoredInv, TypeInv, Stages
<1>1. /\ request'[o] = request[o] /\ at'[o] = at[o] /\ left'[o] = left[o] /\ pending'[o] = pending[o]
  BY <1>0, StepKeeps DEF Kept, Others
<1>2. /\ seen[o] \subseteq seen'[o]
      /\ at[o] \in Calls => DocsIn(store') \subseteq seen'[o] \/ (store' = store /\ seen' = seen)
  BY <1>0, StepSees
<1>3. ASSUME at[o] \in {"reread", "record", "delete"}
      PROVE  DocsIn(store') \subseteq seen'[o]
  BY <1>0, <1>2, <1>3 DEF Watched, Calls
<1>4. ASSUME at[o] \in {"queued", "find", "write"}, NEW k \in DOMAIN history'
      PROVE  history'[k].by # o
  <2>1. CASE \E j \in DOMAIN history : history'[k] = history[j]
    BY <1>0, <1>4, <2>1 DEF Watched
  <2>2. CASE \E j \in DOMAIN pending[r] : history'[k] = pending[r][j]
    BY <1>0, <2>2 DEF Stage
  <2> QED BY <1>0, <2>1, <2>2, HistoryFrom
<1>5. /\ at[o] \in {"record", "delete"} /\ Handler(request[o]) = "delete" =>
           \A k \in DOMAIN left[o] : left[o][k] \in seen'[o]
      /\ at[o] = "record" => \A k \in DOMAIN pending[o] : DocumentOf(pending[o][k]) \in seen'[o]
      /\ at[o] \in {"find", "write"} /\ Handler(request[o]) = "bulk" =>
           \A k \in DOMAIN pending[o] :
             \/ DocumentOf(pending[o][k]) \in seen'[o]
             \/ \E n \in DOMAIN request[o].insert : DocumentOf(pending[o][k]) = request[o].insert[n]
  BY <1>0, <1>2 DEF Watched
<1> QED BY <1>1, <1>3, <1>4, <1>5 DEF Watched

\* A handler whose versions are in the history when it ends watches no more.
LEMMA DoneWatches ==
  ASSUME TypeInv, NEW r \in RequestIds, NEW what \in Replies, Finish(r, what)
  PROVE  Watched(r)'
<1>1. at'[r] = "done"
  BY FinishType DEF TypeInv
<1> QED BY <1>1 DEF Watched

LEMMA BeginWatches ==
  ASSUME StoredInv, NEW r \in RequestIds, Begin(r), Plain(request[r])
  PROVE  Watched(r)'
<1> DEFINE q == request[r]
<1>0. /\ TypeInv /\ Watched(r) /\ at[r] = "queued" /\ q \in Requests
      /\ pending[r] = <<>> /\ Around /\ history' = history
      /\ request' = request
  BY Known DEF StoredInv, Begin, Stage, Around, TypeInv, TypeOK, StoreTypes, Active
<1>1. CASE \E e \in Immediate(q) \union {"poolExhausted"} : Finish(r, e)
  <2>1. PICK e \in Replies : Finish(r, e)
    BY <1>1, ImmediateReplies DEF Replies
  <2> QED BY <1>0, <2>1, DoneWatches
<1> DEFINE versions == [k \in DOMAIN q.insert |-> Version(r, "create", q.insert[k])]
<1>2. CASE /\ ~ \E e \in Immediate(q) \union {"poolExhausted"} : Finish(r, e)
  <2>1. /\ GoTo(r, "find") \/ GoTo(r, "write")
        /\ Handler(q) = "bulk" => pending' = [pending EXCEPT ![r] = <<>>]
                               \/ pending' = [pending EXCEPT ![r] = versions]
    BY <1>2 DEF Begin
  <2>2. at'[r] \in {"find", "write"}
    BY <1>0, <2>1 DEF GoTo, TypeInv, TypeOK
  <2>3. \A k \in DOMAIN history' : history'[k].by # r
    BY <1>0 DEF Watched
  <2>4. ASSUME Handler(q) = "bulk", NEW k \in DOMAIN pending'[r]
        PROVE  \E n \in DOMAIN q.insert : DocumentOf(pending'[r][k]) = q.insert[n]
    <3>1. pending'[r] = <<>> \/ pending'[r] = versions
      BY <1>0, <2>1, <2>4 DEF TypeInv, TypeOK
    <3>2. pending'[r] = versions
      BY <2>4, <3>1
    <3>3. k \in DOMAIN q.insert /\ pending'[r][k] = Version(r, "create", q.insert[k])
      BY <2>4, <3>2
    <3>4. q.insert[k] \in Docs
      <4>1. q.insert \in Seq(Docs)
        BY <1>0, RequestFacts
      <4> QED BY <3>3, <4>1
    <3>5. DocumentOf(pending'[r][k]) = q.insert[k]
      BY <3>3, <3>4 DEF DocumentOf, Version, Docs
    <3> QED BY <3>3, <3>5
  <2> QED BY <1>0, <2>2, <2>3, <2>4 DEF Watched
<1> QED BY <1>1, <1>2

\* What a request is about to record, it has seen.
LEMMA WrittenWatches ==
  ASSUME TypeInv, NEW r \in RequestIds, NEW u \in BOOLEAN, at[r] = "write", Written(r, u), Around,
         history' = history, Watched(r), DocsIn(store') \subseteq seen'[r], Plain(request[r]),
         Handler(request[r]) = "bulk" => seen[r] \subseteq seen'[r],
         NEW e \in Effects(store, request[r]), store' = e.store
  PROVE  Watched(r)'
<1> DEFINE q == request[r]
           h == Handler(q)
<1>0. /\ Stage(r) /\ q \in Requests /\ store \in StoreTypes /\ Immediate(q) = {}
      /\ {"ok", "skipped"} \subseteq Replies /\ h # "delete"
  BY Known DEF Stage, Calls, Replies, Writing, Single
<1>1. CASE \E what \in {"ok", "skipped"} : Finish(r, what)
  BY <1>0, <1>1, DoneWatches
<1>2. CASE \E ac : Goes(r, "reread", left[r], pending[r], ac)
  <2>1. at'[r] = "reread" /\ request'[r] = q
    BY <1>2, GoToKeeps
  <2> QED BY <1>0, <2>1 DEF Watched
<1>3. CASE \E ac : /\ Goes(r, "record", left[r], Recorded(r, q, u), ac)
                   /\ ~ Rereads(q)
                   /\ h = "bulk" => pending[r] # <<>>
  <2> DEFINE pd == Recorded(r, q, u)
  <2>1. h \in {"create", "replaceOne", "bulk"}
    BY <1>3, RecordedType
  <2>2. ASSUME NEW k \in DOMAIN pd
        PROVE  DocumentOf(pd[k]) \in DocsIn(store') \/ (h = "bulk" /\ DocumentOf(pd[k]) \in seen[r])
    <3>1. CASE h = "create"
      <4>1. pd = <<Version(r, "create", [id |-> q.id, value |-> q.value])>>
        BY <3>1 DEF Recorded
      <4>2. k = 1 /\ pd[k] = Version(r, "create", [id |-> q.id, value |-> q.value])
        BY <2>2, <4>1
      <4>3. DocumentOf(pd[k]) = [id |-> q.id, value |-> q.value]
        BY <4>2 DEF DocumentOf, Version
      <4> QED BY <1>0, <3>1, <4>3, WriteLeaves
    <3>2. CASE h = "replaceOne"
      <4>1. pd = <<Version(r, "replace", q.replace)>> /\ q.replace.id # None
        BY <1>3, <3>2 DEF Recorded, Rereads
      <4>2. k = 1 /\ pd[k] = Version(r, "replace", q.replace)
        BY <2>2, <4>1
      <4>3. DocumentOf(pd[k]) = [id |-> q.replace.id, value |-> q.replace.value]
        BY <4>2 DEF DocumentOf, Version
      <4> QED BY <1>0, <3>2, <4>1, <4>3, WriteLeaves
    <3>3. CASE h = "bulk"
      <4>1. pd = pending[r]
        BY <3>3 DEF Recorded
      <4>2. \A n \in DOMAIN q.insert : q.insert[n] \in DocsIn(store')
        BY <1>0, <3>3, WriteLeaves
      <4>3. \/ DocumentOf(pd[k]) \in seen[r]
            \/ \E n \in DOMAIN q.insert : DocumentOf(pd[k]) = q.insert[n]
        BY <2>2, <3>3, <4>1 DEF Watched
      <4> QED BY <3>3, <4>2, <4>3
    <3> QED BY <2>1, <3>1, <3>2, <3>3
  <2> HIDE DEF pd
  <2>3. /\ at'[r] = "record" /\ pending'[r] = pd /\ request'[r] = q
    BY <1>3, GoToKeeps DEF pd
  <2> QED BY <1>0, <2>1, <2>2, <2>3 DEF Watched
<1> QED BY <1>1, <1>2, <1>3, WrittenDoes

LEMMA StepWatches ==
  ASSUME StoredInv, NEW r \in RequestIds, Step(r), Plain(request[r])
  PROVE  Watched(r)'
<1> DEFINE q == request[r]
           h == Handler(q)
<1>0. /\ TypeInv /\ Watched(r) /\ Stage(r) /\ q \in Requests /\ Plain(q) /\ store \in StoreTypes
      /\ {"ok", "skipped", "error", "notFound", "document"} \subseteq Replies
  BY Known DEF StoredInv, Replies
<1>f. ASSUME NEW what \in {"ok", "skipped", "error", "notFound", "document"}, Finish(r, what)
      PROVE  Watched(r)'
  BY <1>0, <1>f, DoneWatches
<1>1. CASE Begin(r)
  BY <1>1, BeginWatches
<1>2. CASE FindMany(r)
  <2>1. at'[r] = "write" /\ request'[r] = q /\ history' = history
    BY <1>0, <1>2, FindManyDoes, GoToKeeps
  <2>2. h = "updateMany" /\ at[r] = "find"
    BY <1>2 DEF FindMany
  <2> QED BY <1>0, <2>1, <2>2 DEF Watched
<1>3. CASE FindDeleted(r)
  <2>1. CASE Finish(r, "ok")
    BY <1>f, <2>1
  <2>2. CASE \E d \in SetToSeqs(MatchingDocs(store, request[r].filter)) :
               d # <<>> /\ Goes(r, "delete", d, pending[r], action[r])
    <3>1. PICK d \in SetToSeqs(MatchingDocs(store, request[r].filter)) :
            d # <<>> /\ Goes(r, "delete", d, pending[r], action[r])
      BY <2>2
    <3>2. at'[r] = "delete" /\ left'[r] = d /\ request'[r] = q
      <4>1. Around /\ TypeInv
        BY <1>0, <1>3, FindDeletedDoes
      <4> QED BY <3>1, <4>1, GoToKeeps
    <3>3. seen'[r] = DocsIn(store') /\ store' = store
      BY <1>0, <1>3, FindDeletedDoes, WatchType DEF TypeInv
    <3>4. d \in Seq(DocsIn(store))
      BY <1>0, <3>1, QueryType
    <3>5. \A k \in DOMAIN d : d[k] \in DocsIn(store)
      BY <3>4
    <3> QED BY <3>2, <3>3, <3>5 DEF Watched
  <2> QED BY <1>0, <1>3, <2>1, <2>2, FindDeletedDoes
<1>4. CASE FindBulk(r)
  <2>1. PICK d \in Seq(DocsIn(store)), call \in {"find", "write"}, lf \in Seq(Filters) :
          /\ d \in Seq(Docs)
          /\ Goes(r, call, lf, pending[r] \o [k \in DOMAIN d |-> Version(r, "delete", d[k])], action[r])
    BY <1>0, <1>4, FindBulkDoes
  <2> DEFINE versions == [k \in DOMAIN d |-> Version(r, "delete", d[k])]
             pd == pending[r] \o versions
  <2>2. at[r] = "find" /\ h = "bulk" /\ history' = history /\ store' = store
    BY <1>0, <1>4, FindBulkDoes DEF FindBulk
  <2>3. DocsIn(store) \subseteq seen'[r] /\ seen[r] \subseteq seen'[r]
    <3>1. Watch(r, FALSE) /\ r \in Active
      BY <1>0, <1>4, <2>2, FindBulkDoes DEF Active, Calls
    <3> QED BY <1>0, <2>2, <3>1, WatchType DEF TypeInv
  <2>4. versions \in Seq(Versions) /\ pending[r] \in Seq(Versions)
    BY <1>0, <2>1, InsertVersions, Known
  <2>5. \A k \in DOMAIN versions : DocumentOf(versions[k]) \in DocsIn(store)
    <3> SUFFICES ASSUME NEW k \in DOMAIN versions PROVE DocumentOf(versions[k]) \in DocsIn(store)
      OBVIOUS
    <3>1. k \in DOMAIN d /\ versions[k] = Version(r, "delete", d[k])
      OBVIOUS
    <3>2. d[k] \in DocsIn(store) /\ d[k] \in Docs
      BY <2>1, <3>1
    <3>3. DocumentOf(versions[k]) = d[k]
      BY <3>1, <3>2 DEF DocumentOf, Version, Docs
    <3> QED BY <3>2, <3>3
  <2> HIDE DEF versions
  <2>6. ASSUME NEW k \in DOMAIN pd
        PROVE  \/ DocumentOf(pd[k]) \in seen'[r]
               \/ \E n \in DOMAIN q.insert : DocumentOf(pd[k]) = q.insert[n]
    <3>1. k \in 1 .. Len(pending[r]) + Len(versions)
      BY <2>4, <2>6, ConcatProperties
    <3>2. CASE k <= Len(pending[r])
      <4>1. k \in DOMAIN pending[r] /\ pd[k] = pending[r][k]
        BY <2>4, <3>1, <3>2, ConcatProperties
      <4> QED BY <1>0, <2>2, <2>3, <4>1 DEF Watched
    <3>3. CASE k > Len(pending[r])
      <4>1. k - Len(pending[r]) \in DOMAIN versions /\ pd[k] = versions[k - Len(pending[r])]
        BY <2>4, <3>1, <3>3, ConcatProperties
      <4> QED BY <2>3, <2>5, <4>1
    <3> QED BY <2>4, <3>1, <3>2, <3>3
  <2> HIDE DEF pd
  <2>7. at'[r] = call /\ request'[r] = q /\ pending'[r] = pd
    <3>1. Goes(r, call, lf, pd, action[r])
      BY <2>1 DEF pd, versions
    <3>2. Around
      BY <1>0, <1>4, FindBulkDoes
    <3> QED BY <1>0, <3>1, <3>2, GoToKeeps
  <2>8. \A k \in DOMAIN history' : history'[k].by # r
    BY <1>0, <2>2 DEF Watched
  <2> QED BY <2>6, <2>7, <2>8 DEF Watched
<1>5. CASE Write(r)
  <2>1. PICK e \in Effects(store, q), u \in BOOLEAN : store' = e.store /\ Written(r, u)
    BY <1>0, <1>5, WriteDoes
  <2>2. at[r] = "write" /\ Around /\ history' = history /\ Watch(r, h # "bulk")
    BY <1>0, <1>5, WriteDoes
  <2>3. DocsIn(store') \subseteq seen'[r] /\ (h = "bulk" => seen[r] \subseteq seen'[r])
    BY <1>0, <2>2, WatchType DEF TypeInv, Active, Calls
  <2> QED BY <1>0, <2>1, <2>2, <2>3, WrittenWatches
<1>6. CASE WriteRefused(r)
  <2>1. CASE Finish(r, "error")
    BY <1>f, <2>1
  <2>2. CASE ~ q.ack /\ Written(r, FALSE)
    <3>1. at[r] = "write" /\ Around /\ Watch(r, h # "bulk") /\ h # "delete"
      BY <1>0, <1>6, WriteRefusedDoes DEF Stage, Writing, Single
    <3>2. CASE \E what \in {"ok", "skipped"} : Finish(r, what)
      BY <1>f, <3>2
    <3>3. CASE \E ac : Goes(r, "reread", left[r], pending[r], ac)
      <4>1. at'[r] = "reread" /\ request'[r] = q
        BY <1>0, <3>1, <3>3, GoToKeeps
      <4>2. DocsIn(store') \subseteq seen'[r]
        BY <1>0, <3>1, WatchType DEF TypeInv, Active, Calls
      <4> QED BY <3>1, <4>1, <4>2 DEF Watched
    <3>4. CASE ~ Rereads(q) /\ (h = "bulk" => pending[r] # <<>>)
      <4>1. h \in {"create", "replaceOne", "bulk"}
        BY <1>0, <3>1, <3>4, RecordedType
      <4> QED BY <1>0, <2>2, <3>4, <4>1 DEF Plain, Rereads
    <3> QED BY <1>0, <2>2, <3>1, <3>2, <3>3, <3>4, WrittenDoes
  <2> QED BY <1>0, <1>6, <2>1, <2>2, WriteRefusedDoes
<1>7. CASE EditHistory(r)
  BY <1>0, <1>7, <1>f, EditHistoryDoes
<1>8. CASE Delete(r)
  <2>0. /\ at[r] = "delete" /\ h = "delete" /\ Around
        /\ Head(left[r]) = left[r][1] /\ 1 \in DOMAIN left[r] /\ Head(left[r]) \in Docs
        /\ \A k \in DOMAIN Tail(left[r]) : k + 1 \in DOMAIN left[r] /\ Tail(left[r])[k] = left[r][k + 1]
    <3>1. at[r] = "delete" /\ Around
      BY <1>0, <1>8, DeleteDoes
    <3>2. left[r] \in Seq(Docs) /\ Len(left[r]) \in Nat \ {0}
      BY <1>0, <3>1, HeadOfLeft
    <3>3. 1 \in DOMAIN left[r]
      BY <3>2
    <3> QED BY <1>0, <3>1, <3>3, HeadOfLeft
  <2>1. DocsIn(store') \subseteq seen'[r] /\ seen[r] \subseteq seen'[r]
    <3>1. Watch(r, FALSE) /\ r \in Active
      BY <1>0, <1>8, <2>0, DeleteDoes DEF Active, Calls
    <3> QED BY <1>0, <3>1, WatchType DEF TypeInv
  <2>2. \A k \in DOMAIN Tail(left[r]) : Tail(left[r])[k] \in seen'[r]
    BY <1>0, <2>0, <2>1 DEF Watched
  <2>3. Head(left[r]) \in seen'[r]
    BY <1>0, <2>0, <2>1 DEF Watched
  <2>4. CASE Finish(r, "skipped")
    BY <1>f, <2>4
  <2>5. CASE Goes(r, "delete", Tail(left[r]), pending[r], action[r])
    <3>1. at'[r] = "delete" /\ request'[r] = q /\ left'[r] = Tail(left[r])
      BY <1>0, <2>0, <2>5, GoToKeeps
    <3> QED BY <2>1, <2>2, <3>1 DEF Watched
  <2>6. CASE Goes(r, "record", Tail(left[r]), <<Removed(r)>>, action[r])
    <3> DEFINE pd == <<Removed(r)>>
    <3>1. \A k \in DOMAIN pd : DocumentOf(pd[k]) \in seen'[r]
      <4>1. \A k \in DOMAIN pd : pd[k] = Removed(r)
        OBVIOUS
      <4>2. DocumentOf(Removed(r)) = Head(left[r])
        BY <2>0 DEF DocumentOf, Removed, Version, Docs
      <4> QED BY <2>3, <4>1, <4>2
    <3> HIDE DEF pd
    <3>2. at'[r] = "record" /\ request'[r] = q /\ left'[r] = Tail(left[r]) /\ pending'[r] = pd
      BY <1>0, <2>0, <2>6, GoToKeeps DEF pd
    <3> QED BY <2>1, <2>2, <3>1, <3>2 DEF Watched
  <2> QED BY <1>0, <1>8, <2>4, <2>5, <2>6, DeleteDoes
<1>9. CASE Reread(r)
  <2>0. /\ at[r] = "reread" /\ h # "delete" /\ Around /\ store' = store /\ seen' = seen
    BY <1>0, <1>9, RereadDoes, RestType DEF Single
  <2>1. CASE \E what \in {"ok", "notFound", "document"} : Finish(r, what)
    BY <1>f, <2>1
  <2>2. CASE Goes(r, "reread", Rest(r), pending[r], action[r])
    <3>1. at'[r] = "reread" /\ request'[r] = q
      BY <1>0, <2>0, <2>2, GoToKeeps
    <3> QED BY <1>0, <2>0, <3>1 DEF Watched
  <2>3. CASE \E d \in DocsIn(store) :
               d \in Docs /\ Goes(r, "record", Rest(r), <<Version(r, action[r], d)>>, action[r])
    <3>1. PICK d \in DocsIn(store) :
            d \in Docs /\ Goes(r, "record", Rest(r), <<Version(r, action[r], d)>>, action[r])
      BY <2>3
    <3> DEFINE pd == <<Version(r, action[r], d)>>
    <3>2. \A k \in DOMAIN pd : DocumentOf(pd[k]) \in seen[r]
      <4>1. \A k \in DOMAIN pd : pd[k] = Version(r, action[r], d)
        OBVIOUS
      <4>2. DocumentOf(Version(r, action[r], d)) = d
        BY <3>1 DEF DocumentOf, Version, Docs
      <4> QED BY <1>0, <2>0, <3>1, <4>1, <4>2 DEF Watched
    <3> HIDE DEF pd
    <3>3. at'[r] = "record" /\ request'[r] = q /\ pending'[r] = pd
      BY <1>0, <2>0, <3>1, GoToKeeps DEF pd
    <3> QED BY <1>0, <2>0, <3>2, <3>3 DEF Watched
  <2> QED BY <1>0, <1>9, <2>1, <2>2, <2>3, RereadDoes
<1>10. CASE Record(r)
  <2>0. at[r] = "record" /\ Around /\ store' = store /\ seen' = seen
    BY <1>0, <1>10, RecordDoes
  <2>1. CASE Finish(r, "ok")
    BY <1>f, <2>1
  <2>2. CASE Goes(r, IF h = "delete" THEN "delete" ELSE "reread", left[r], <<>>, action[r])
    <3>1. /\ at'[r] = (IF h = "delete" THEN "delete" ELSE "reread") /\ request'[r] = q
          /\ left'[r] = left[r]
      BY <1>0, <2>0, <2>2, GoToKeeps
    <3> QED BY <1>0, <2>0, <3>1 DEF Watched
  <2> QED BY <1>0, <1>10, <2>1, <2>2, RecordDoes
<1>11. CASE CallFails(r)
  BY <1>0, <1>11, <1>f, CallFailsDoes
<1> QED BY <1>1, <1>2, <1>3, <1>4, <1>5, <1>6, <1>7, <1>8, <1>9, <1>10, <1>11 DEF Step, Handle

LEMMA StoredInit == Init => StoredInv
<1> SUFFICES ASSUME Init PROVE StoredInv
  OBVIOUS
<1>1. TypeInv
  BY TypeInit
<1>2. \A k \in DOMAIN history : history[k].by = None
  <2> DEFINE V == {Version(None, "create", d) : d \in DocsIn(store)}
  <2>1. store \in StoreTypes
    BY <1>1, StorageAssumption DEF Init, StoreTypes
  <2>2. IsFiniteSet(V)
    <3> DEFINE f == [d \in DocsIn(store) |-> Version(None, "create", d)]
    <3>1. f \in Surjection(DocsIn(store), V)
      BY DEF Surjection
    <3> QED BY <2>1, <3>1, FS_Surjection, DocsFinite
  <2>3. \A v \in V : v.by = None
    BY DEF Version
  <2>4. history = SetToSeq(V)
    BY DEF Init
  <2> HIDE DEF V
  <2>5. history \in Seq(V)
    BY <2>2, <2>4, SetToSeqType
  <2> QED BY <2>3, <2>5
<1>3. VersionsWereStored
  BY <1>2 DEF VersionsWereStored
<1>4. ASSUME NEW r \in RequestIds
      PROVE  Watched(r)
  <2>1. at[r] = "queued" /\ r # None
    BY StorageAssumption DEF Init
  <2> QED BY <1>2, <2>1 DEF Watched
<1> QED BY <1>1, <1>3, <1>4 DEF StoredInv

LEMMA StoredStep ==
  ASSUME StoredInv, [Next]_vars
  PROVE  StoredInv'
<1>0. TypeInv'
  BY TypeStep DEF StoredInv
<1>1. CASE \E r \in RequestIds : Step(r)
  <2>1. PICK r \in RequestIds : Step(r)
    BY <1>1
  <2>2. request' = request
    BY <2>1, StepKeeps DEF StoredInv, Kept, Others
  <2>3. ASSUME NEW o \in RequestIds, Plain(request[o])
        PROVE  Watched(o)'
    BY <2>1, <2>3, OthersWatch, StepWatches
  <2>4. VersionsWereStored'
    BY <2>1, StoredHolds
  <2> QED BY <1>0, <2>2, <2>3, <2>4 DEF StoredInv
<1>2. CASE Crash
  <2>1. /\ at' = [r \in RequestIds |-> IF r \in Active THEN "done" ELSE at[r]]
        /\ store' = store /\ history' = history /\ request' = request /\ action' = action /\ seen' = seen
    BY <1>2 DEF Crash
  <2>2. VersionsWereStored'
    BY <2>1 DEF StoredInv, VersionsWereStored
  <2>3. ASSUME NEW r \in RequestIds, Plain(request[r])
        PROVE  Watched(r)'
    <3>1. at'[r] \in {"queued", "done"} /\ (at'[r] = "queued" => at[r] = "queued")
      BY <2>1, Known DEF Active, StoredInv, TypeInv, TypeOK
    <3> QED BY <2>1, <2>3, <3>1 DEF Watched, StoredInv
  <2> QED BY <1>0, <2>1, <2>2, <2>3 DEF StoredInv
<1>3. CASE UNCHANGED vars
  <2>1. VersionsWereStored'
    BY <1>3 DEF vars, StoredInv, VersionsWereStored
  <2>2. \A r \in RequestIds : Plain(request[r]) => Watched(r)'
    BY <1>3 DEF vars, StoredInv, Watched
  <2> QED BY <1>0, <1>3, <2>1, <2>2 DEF vars, StoredInv
<1> QED BY <1>1, <1>2, <1>3 DEF Next, Step, Done

\* Every version that the service writes for a plain request is of a document that
\* the collection held, at or after the write or the query it stands for, however
\* requests interleave and whatever calls fail (storage.cpp, history()).
THEOREM VersionsAreOfStored == Spec => []VersionsWereStored
<1>1. StoredInv => VersionsWereStored
  BY DEF StoredInv
<1>2. StoredInv /\ [Next]_vars => StoredInv'
  BY StoredStep
<1> QED BY <1>1, <1>2, StoredInit, PTL DEF Spec
-----------------------------------------------------------------------------
(***************************************************************************)
(* Deletes that run beside no other request                                *)
(***************************************************************************)
\* What a delete has left to remove is in the collection.
Current(r) ==
  at[r] \in {"delete", "record"} /\ Handler(request[r]) = "delete" =>
    /\ \A k \in DOMAIN left[r] : left[r][k] \in DocsIn(store)
    /\ \A j, k \in DOMAIN left[r] : j # k => left[r][j] # left[r][k]

\* Requests that run beside another one are known as such; while a request does
\* not, it is the only one that changes the store.
AloneInv ==
  /\ TypeInv
  /\ \A r, o \in Active : r # o => r \in overlapped
  /\ \A r \in RequestIds : r \notin overlapped => Current(r)

LEMMA StepAlone ==
  ASSUME AloneInv, NEW r \in RequestIds, Step(r)
  PROVE  /\ overlapped \subseteq overlapped'
         /\ \A o \in RequestIds \ {r} : at'[o] = at[o]
         /\ \A o \in RequestIds \ {r} : at[o] \in Calls => {r, o} \subseteq overlapped'
<1>1. \A o \in RequestIds \ {r} : at'[o] = at[o]
  BY StepKeeps DEF AloneInv, Kept, Others
<1>2. CASE Begin(r)
  <2>1. overlapped' = overlapped \union IF Active = {} THEN {} ELSE Active \union {r}
    BY <1>2 DEF Begin
  <2> QED BY <1>1, <2>1 DEF Active
<1>3. CASE ~ Begin(r)
  <2>1. overlapped' = overlapped /\ at[r] \in Calls
    BY <1>3 DEF Step, Handle, FindMany, FindDeleted, FindBulk, Write, WriteRefused,
                EditHistory, Delete, Reread, Record, CallFails, Calls
  <2>2. \A o \in RequestIds \ {r} : at[o] \in Calls => {r, o} \subseteq overlapped
    BY <2>1 DEF AloneInv, Active
  <2> QED BY <1>1, <2>1, <2>2
<1> QED BY <1>2, <1>3

LEMMA StepCurrent ==
  ASSUME TypeInv, NEW r \in RequestIds, Step(r), Current(r)
  PROVE  Current(r)'
<1> DEFINE h == Handler(request[r])
<1>0. /\ TypeInv /\ Current(r) /\ Stage(r) /\ store \in StoreTypes
      /\ {"ok", "skipped", "error", "notFound", "document"} \subseteq Replies
  BY Known DEF Replies
<1>1. request' = request
  BY <1>0, StepKeeps DEF Kept, Others
<1>f. ASSUME NEW what \in Replies, Finish(r, what)
      PROVE  Current(r)'
  <2>1. at'[r] = "done"
    BY <1>0, <1>f, FinishType DEF TypeInv
  <2> QED BY <2>1 DEF Current
<1>2. CASE h # "delete"
  BY <1>1, <1>2 DEF Current
<1>3. CASE h = "delete" /\ Begin(r)
  <2>1. at'[r] \in {"find", "write", "done"}
    <3>1. CASE \E e \in Immediate(request[r]) \union {"poolExhausted"} : Finish(r, e)
      <4>1. PICK e \in Replies : Finish(r, e)
        BY <3>1, ImmediateReplies DEF Replies
      <4> QED BY <1>0, <4>1, FinishType DEF TypeInv
    <3>2. CASE GoTo(r, "find") \/ GoTo(r, "write")
      BY <1>0, <3>2 DEF GoTo, TypeInv, TypeOK
    <3> QED BY <1>3, <3>1, <3>2 DEF Begin
  <2> QED BY <2>1 DEF Current
<1>4. CASE FindDeleted(r)
  <2>1. CASE Finish(r, "ok")
    BY <1>0, <1>f, <2>1
  <2>2. CASE \E d \in SetToSeqs(MatchingDocs(store, request[r].filter)) :
               d # <<>> /\ Goes(r, "delete", d, pending[r], action[r])
    <3>1. PICK d \in SetToSeqs(MatchingDocs(store, request[r].filter)) :
            Goes(r, "delete", d, pending[r], action[r])
      BY <2>2
    <3>2. left'[r] = d /\ store' = store
      BY <1>0, <1>4, <3>1, FindDeletedDoes, GoToKeeps
    <3>3. d \in Seq(DocsIn(store)) /\ \A j, k \in DOMAIN d : j # k => d[j] # d[k]
      BY <1>0, <3>1, QueryType
    <3>4. \A k \in DOMAIN d : d[k] \in DocsIn(store)
      BY <3>3
    <3> QED BY <3>2, <3>3, <3>4 DEF Current
  <2> QED BY <1>0, <1>4, <2>1, <2>2, FindDeletedDoes
<1>5. CASE Delete(r)
  <2>0. /\ at[r] = "delete" /\ Around
        /\ store' = [store EXCEPT ![Head(left[r]).id] = None] \/ store' = store
    BY <1>0, <1>5, DeleteDoes
  <2>1. /\ Head(left[r]) = left[r][1] /\ left[r] \in Seq(Docs) /\ Len(left[r]) \in Nat \ {0}
        /\ Tail(left[r]) \in Seq(Docs) /\ h = "delete"
        /\ \A k \in DOMAIN Tail(left[r]) : k + 1 \in DOMAIN left[r] /\ Tail(left[r])[k] = left[r][k + 1]
    BY <1>0, <2>0, HeadOfLeft
  <2> DEFINE rest == Tail(left[r])
  <2>2. 1 \in DOMAIN left[r] /\ Head(left[r]) \in DocsIn(store)
    <3>1. 1 \in DOMAIN left[r]
      BY <2>1
    <3> QED BY <1>0, <2>0, <2>1, <3>1 DEF Current
  <2> HIDE DEF rest
  <2>3. ASSUME NEW k \in DOMAIN rest
        PROVE  rest[k] \in DocsIn(store')
    <3>1. k \in Nat \ {0} /\ k + 1 \in DOMAIN left[r] /\ rest[k] = left[r][k + 1]
      BY <2>1, <2>3 DEF rest
    <3>2. rest[k] \in DocsIn(store) /\ rest[k] # Head(left[r])
      BY <1>0, <2>0, <2>1, <2>2, <3>1 DEF Current
    <3>3. rest[k].id # Head(left[r]).id /\ rest[k] \in Docs
      BY <1>0, <2>2, <3>2, DocsFinite
    <3>4. store'[rest[k].id] = store[rest[k].id]
      BY <1>0, <2>0, <3>3 DEF StoreTypes, Docs
    <3> QED BY <3>2, <3>3, <3>4 DEF DocsIn
  <2>4. ASSUME NEW j \in DOMAIN rest, NEW k \in DOMAIN rest, j # k
        PROVE  rest[j] # rest[k]
    <3>1. /\ j + 1 \in DOMAIN left[r] /\ rest[j] = left[r][j + 1]
          /\ k + 1 \in DOMAIN left[r] /\ rest[k] = left[r][k + 1]
          /\ j \in Int /\ k \in Int
      BY <2>1, <2>4 DEF rest
    <3>2. j + 1 # k + 1
      BY <2>4, <3>1
    <3> QED BY <1>0, <2>0, <2>1, <3>1, <3>2 DEF Current
  <2>5. CASE Finish(r, "skipped")
    BY <1>0, <1>f, <2>5
  <2>6. CASE left'[r] = rest
    BY <2>3, <2>4, <2>6 DEF Current
  <2>7. Finish(r, "skipped") \/ left'[r] = rest
    BY <1>0, <1>5, <2>0, DeleteDoes, GoToKeeps DEF rest
  <2> QED BY <2>5, <2>6, <2>7
<1>6. CASE h = "delete" /\ Record(r)
  <2>0. at[r] = "record" /\ Around /\ store' = store
    BY <1>0, <1>6, RecordDoes
  <2>1. CASE Finish(r, "ok")
    BY <1>0, <1>f, <2>1
  <2>2. CASE Goes(r, IF h = "delete" THEN "delete" ELSE "reread", left[r], <<>>, action[r])
    <3>1. left'[r] = left[r]
      BY <1>0, <2>0, <2>2, GoToKeeps
    <3> QED BY <1>0, <1>1, <1>6, <2>0, <3>1 DEF Current
  <2> QED BY <1>0, <1>6, <2>1, <2>2, RecordDoes
<1>7. CASE CallFails(r)
  BY <1>0, <1>7, <1>f, CallFailsDoes
<1>8. h = "delete" => Begin(r) \/ FindDeleted(r) \/ Delete(r) \/ Record(r) \/ CallFails(r)
  <2>1. h = "delete" => at[r] \notin {"write", "reread"}
    BY <1>0 DEF Stage, Writing, Single
  <2> QED BY <2>1 DEF Step, Handle, FindMany, FindBulk, Write, WriteRefused, EditHistory, Reread
<1> QED BY <1>2, <1>3, <1>4, <1>5, <1>6, <1>7, <1>8

LEMMA AloneStep ==
  ASSUME AloneInv, [Next]_vars
  PROVE  AloneInv'
<1>0. TypeInv'
  BY TypeStep DEF AloneInv
<1>1. CASE \E r \in RequestIds : Step(r)
  <2>1. PICK r \in RequestIds : Step(r)
    BY <1>1
  <2>2. /\ overlapped \subseteq overlapped'
        /\ \A o \in RequestIds \ {r} : at'[o] = at[o]
        /\ \A o \in RequestIds \ {r} : at[o] \in Calls => {r, o} \subseteq overlapped'
    BY <2>1, StepAlone
  <2>3. r \notin overlapped' => Current(r)'
    BY <2>1, <2>2, StepCurrent DEF AloneInv
  <2>4. ASSUME NEW o \in RequestIds \ {r}, o \notin overlapped'
        PROVE  Current(o)'
    <3>1. at'[o] \notin Calls
      BY <2>2, <2>4
    <3> QED BY <3>1 DEF Current, Calls
  <2>5. ASSUME NEW x \in Active', NEW y \in Active', x # y
        PROVE  x \in overlapped'
    <3>1. x \in RequestIds /\ y \in RequestIds /\ at'[x] \in Calls /\ at'[y] \in Calls
      BY <2>5 DEF Active
    <3>2. CASE x = r \/ y = r
      BY <2>2, <2>5, <3>1, <3>2
    <3>3. CASE x # r /\ y # r
      BY <2>2, <2>5, <3>1, <3>3 DEF AloneInv, Active
    <3> QED BY <3>2, <3>3
  <2> QED BY <1>0, <2>3, <2>4, <2>5 DEF AloneInv
<1>2. CASE Crash
  <2>1. \A r \in RequestIds : at'[r] \notin Calls
    BY <1>2 DEF Crash, Active, Calls
  <2> QED BY <1>0, <2>1 DEF AloneInv, Active, Current, Calls
<1>3. CASE UNCHANGED vars
  BY <1>0, <1>3 DEF AloneInv, Active, Current, vars
<1> QED BY <1>1, <1>2, <1>3 DEF Next, Step, Done

LEMMA RecordsCurrentStep ==
  ASSUME AloneInv, [Next]_vars
  PROVE  [\A r \in RequestIds : r \notin overlapped => RecordsCurrent(r)]_vars
<1> SUFFICES ASSUME NEW r \in RequestIds, NEW i \in Ids, r \notin overlapped,
                    at[r] = "delete", at'[r] = "record", store'[i] # store[i]
             PROVE  \E k \in DOMAIN pending'[r] :
                      pending'[r][k].id = i /\ pending'[r][k].value = store[i]
  BY DEF RecordsCurrent
<1>0. TypeInv /\ Current(r) /\ TypeOK /\ store \in StoreTypes
  BY Known DEF AloneInv
<1>1. ~ Crash /\ ~ UNCHANGED vars
  BY DEF Crash, vars
<1>2. PICK o \in RequestIds : Step(o)
  BY <1>1 DEF Next, Step, Done
<1>3. o = r
  BY <1>0, <1>2, StepKeeps DEF Kept, Others
<1>4. Delete(r)
  <2>1. ~ CallFails(r)
    <3>1. "error" \in Replies
      BY DEF Replies
    <3> QED BY <1>0, <3>1, CallFailsDoes, FinishType
  <2> QED BY <1>2, <1>3, <2>1 DEF Step, Handle, Begin, FindMany, FindDeleted, FindBulk, Write,
                                  WriteRefused, EditHistory, Reread, Record
<1>5. /\ Around /\ store' = [store EXCEPT ![Head(left[r]).id] = None]
      /\ Goes(r, "record", Tail(left[r]), <<Removed(r)>>, action[r])
  <2>1. ~ Finish(r, "skipped")
    <3>1. "skipped" \in Replies
      BY DEF Replies
    <3> QED BY <1>0, <3>1, FinishType
  <2>2. ~ Goes(r, "delete", Tail(left[r]), pending[r], action[r])
    <3>1. Around
      BY <1>0, <1>4, DeleteDoes
    <3> QED BY <1>0, <3>1, GoToKeeps
  <2> QED BY <1>0, <1>4, <2>1, <2>2, DeleteDoes
<1>6. pending'[r] = <<Removed(r)>>
  BY <1>0, <1>5, GoToKeeps
<1>7. /\ Handler(request[r]) = "delete" /\ Head(left[r]) = left[r][1] /\ Head(left[r]) \in Docs
      /\ left[r] \in Seq(Docs) /\ Len(left[r]) \in Nat \ {0}
  BY <1>0, HeadOfLeft
<1>8. Head(left[r]) \in DocsIn(store)
  <2>1. 1 \in DOMAIN left[r]
    BY <1>7
  <2> QED BY <1>0, <1>7, <2>1 DEF Current
<1>9. i = Head(left[r]).id
  BY <1>0, <1>5 DEF StoreTypes
<1>10. Removed(r).id = i /\ Removed(r).value = store[i]
  BY <1>8, <1>9 DEF Removed, Version, DocsIn
<1> HIDE DEF Removed
<1> DEFINE v == Removed(r)
<1> HIDE DEF v
<1>11. 1 \in DOMAIN <<v>> /\ <<v>>[1] = v
  OBVIOUS
<1> QED BY <1>6, <1>10, <1>11 DEF v

\* A delete beside which no other request ran records the documents as they were
\* when it removed them (storage.cpp, remove()); of one that overlaps an update,
\* that is false.
THEOREM DeletesRecordCurrent ==
  Spec => [][\A r \in RequestIds : r \notin overlapped => RecordsCurrent(r)]_vars
<1>1. Init => AloneInv
  <2>1. Init => \A r \in RequestIds : at[r] = "queued"
    BY DEF Init
  <2> QED BY <2>1, TypeInit DEF AloneInv, Active, Current, Calls
<1>2. AloneInv /\ [Next]_vars => AloneInv'
  BY AloneStep
<1>3. AloneInv /\ [Next]_vars =>
        [\A r \in RequestIds : r \notin overlapped => RecordsCurrent(r)]_vars
  BY RecordsCurrentStep
<1> QED BY <1>1, <1>2, <1>3, PTL DEF Spec
-----------------------------------------------------------------------------
(*****************************************************************************)
(* The newest version of a document                                        *)
(*****************************************************************************)
\* A set of places in a sequence has a last one.
LEMMA LastPlace ==
  ASSUME NEW n \in Nat, NEW P, P \subseteq 1 .. n, P # {}
  PROVE  \E k \in P : \A j \in P : j <= k
<1> DEFINE Less == OpToRel(<, Nat)
           T == {n - k : k \in P}
<1>1. IsWellFoundedOn(Less, Nat)
  BY NatLessThanWellFounded
<1>2. T \subseteq Nat /\ T # {}
  <2>1. \A k \in P : n - k \in Nat
    OBVIOUS
  <2>2. \E k \in P : n - k \in T
    OBVIOUS
  <2> QED BY <2>1, <2>2
<1>3. \A x, y \in Nat : x < y => <<x, y>> \in Less
  BY DEF OpToRel
<1> HIDE DEF Less, T
<1>4. PICK x \in T : \A y \in T : ~ (<<y, x>> \in Less)
  BY <1>1, <1>2, WFMin
<1>5. PICK k \in P : x = n - k
  BY DEF T
<1>6. \A j \in P : n - j \in T
  BY DEF T
<1>7. \A j \in P : ~ (n - j < x)
  BY <1>2, <1>3, <1>4, <1>6
<1>8. \A j \in P : j <= k
  BY <1>5, <1>7
<1> QED BY <1>8

\* The parts of a history that has grown.
LEMMA ConcatParts ==
  ASSUME NEW h \in Seq(Versions), NEW p \in Seq(Versions)
  PROVE  /\ Len(h) \in Nat /\ Len(p) \in Nat
         /\ DOMAIN h = 1 .. Len(h) /\ DOMAIN p = 1 .. Len(p)
         /\ DOMAIN (h \o p) = 1 .. Len(h) + Len(p)
         /\ \A k \in 1 .. Len(h) : (h \o p)[k] = h[k]
         /\ \A k \in 1 .. Len(p) : (h \o p)[Len(h) + k] = p[k]
<1>1. h \o p \in Seq(Versions) /\ Len(h \o p) = Len(h) + Len(p)
  BY ConcatProperties
<1> QED BY <1>1, ConcatProperties

\* Versions of other documents change nothing ...
LEMMA ShowsOlder ==
  ASSUME NEW h \in Seq(Versions), NEW p \in Seq(Versions), NEW i, NEW v,
         \A k \in DOMAIN p : p[k].id # i, Shows(h, i, v)
  PROVE  Shows(h \o p, i, v)
<1> DEFINE c == h \o p
<1>1. /\ Len(h) \in Nat /\ Len(p) \in Nat
      /\ DOMAIN h = 1 .. Len(h) /\ DOMAIN p = 1 .. Len(p)
      /\ DOMAIN c = 1 .. Len(h) + Len(p)
      /\ \A k \in 1 .. Len(h) : c[k] = h[k]
      /\ \A k \in 1 .. Len(p) : c[Len(h) + k] = p[k]
  BY ConcatParts
<1> HIDE DEF c
<1>2. ASSUME NEW n \in DOMAIN c, c[n].id = i
      PROVE  n \in DOMAIN h /\ c[n] = h[n]
  <2>1. CASE n <= Len(h)
    BY <1>1, <2>1
  <2>2. CASE n > Len(h)
    <3>1. n - Len(h) \in 1 .. Len(p) /\ Len(h) + (n - Len(h)) = n
      BY <1>1, <2>2
    <3>2. c[n] = p[n - Len(h)] /\ n - Len(h) \in DOMAIN p
      BY <1>1, <3>1
    <3> QED BY <1>2, <3>2
  <2> QED BY <1>1, <2>1, <2>2
<1>3. CASE v = None /\ \A k \in DOMAIN h : h[k].id # i
  <2>1. \A k \in DOMAIN c : c[k].id # i
    BY <1>2, <1>3
  <2> QED BY <1>3, <2>1 DEF Shows, c
<1>4. CASE \E k \in DOMAIN h :
             /\ h[k].id = i /\ \A n \in DOMAIN h : n > k => h[n].id # i
             /\ v = IF h[k].action = "delete" THEN None ELSE h[k].value
  <2>1. PICK k \in DOMAIN h :
             /\ h[k].id = i /\ \A n \in DOMAIN h : n > k => h[n].id # i
             /\ v = IF h[k].action = "delete" THEN None ELSE h[k].value
    BY <1>4
  <2>2. k \in DOMAIN c /\ c[k] = h[k]
    BY <1>1
  <2>3. \A n \in DOMAIN c : n > k => c[n].id # i
    BY <1>2, <2>1
  <2> QED BY <2>1, <2>2, <2>3 DEF Shows, c
<1> QED BY <1>3, <1>4 DEF Shows

\* ... and newer versions of the document tell v, when all of them do.
LEMMA ShowsNewer ==
  ASSUME NEW h \in Seq(Versions), NEW p \in Seq(Versions), NEW i, NEW v,
         \E k \in DOMAIN p : p[k].id = i,
         \A k \in DOMAIN p : p[k].id = i => v = IF p[k].action = "delete" THEN None ELSE p[k].value
  PROVE  Shows(h \o p, i, v)
<1> DEFINE c == h \o p
           P == {k \in DOMAIN p : p[k].id = i}
<1>1. /\ Len(h) \in Nat /\ Len(p) \in Nat
      /\ DOMAIN h = 1 .. Len(h) /\ DOMAIN p = 1 .. Len(p)
      /\ DOMAIN c = 1 .. Len(h) + Len(p)
      /\ \A k \in 1 .. Len(h) : c[k] = h[k]
      /\ \A k \in 1 .. Len(p) : c[Len(h) + k] = p[k]
  BY ConcatParts
<1> HIDE DEF c
<1>2. PICK k \in P : \A j \in P : j <= k
  <2>1. P \subseteq 1 .. Len(p) /\ P # {}
    BY <1>1
  <2> HIDE DEF P
  <2> QED BY <1>1, <2>1, LastPlace
<1>3. k \in 1 .. Len(p) /\ p[k].id = i /\ \A n \in 1 .. Len(p) : n > k => p[n].id # i
  BY <1>1, <1>2
<1>4. Len(h) + k \in DOMAIN c /\ c[Len(h) + k] = p[k]
  BY <1>1, <1>3
<1>5. ASSUME NEW n \in DOMAIN c, n > Len(h) + k
      PROVE  c[n].id # i
  <2>1. n - Len(h) \in 1 .. Len(p) /\ n - Len(h) > k /\ Len(h) + (n - Len(h)) = n
    BY <1>1, <1>3, <1>5
  <2> QED BY <1>1, <1>3, <2>1
<1>6. v = IF c[Len(h) + k].action = "delete" THEN None ELSE c[Len(h) + k].value
  BY <1>1, <1>3, <1>4
<1> QED BY <1>3, <1>4, <1>5, <1>6 DEF Shows, c

\* One version more.
LEMMA ShowsVersion ==
  ASSUME NEW h \in Seq(Versions), NEW e \in Versions, NEW i, NEW v,
         e.id = i => v = IF e.action = "delete" THEN None ELSE e.value,
         e.id # i => Shows(h, i, v)
  PROVE  Shows(h \o <<e>>, i, v)
<1> DEFINE p == <<e>>
<1>1. p \in Seq(Versions) /\ DOMAIN p = {1} /\ p[1] = e
  OBVIOUS
<1> HIDE DEF p
<1>2. CASE e.id = i
  BY <1>1, <1>2, ShowsNewer DEF p
<1>3. CASE e.id # i
  BY <1>1, <1>3, ShowsOlder DEF p
<1> QED BY <1>2, <1>3

\* Every element of the set is in the sequence.
LEMMA SetToSeqsOnto ==
  ASSUME NEW S, IsFiniteSet(S), NEW s \in SetToSeqs(S), NEW x \in S
  PROVE  \E k \in DOMAIN s : s[k] = x
<1> DEFINE D == 1 .. Cardinality(S)
<1>1. Cardinality(S) \in Nat
  BY FS_CardinalityType
<1>2. s \in [D -> S] /\ \A j, k \in D : j # k => s[j] # s[k]
  BY DEF SetToSeqs
<1>3. s \in Injection(D, S)
  BY <1>2 DEF Injection, IsInjective
<1>4. Cardinality(D) = Cardinality(S)
  BY <1>1, FS_Interval
<1> HIDE DEF D
<1>5. s \in Surjection(D, S)
  BY <1>3, <1>4, FS_Injection
<1>6. \E k \in D : s[k] = x
  BY <1>5 DEF Surjection
<1> QED BY <1>2, <1>6

LEMMA SetToSeqOnto ==
  ASSUME NEW S, IsFiniteSet(S), NEW x \in S
  PROVE  \E k \in DOMAIN SetToSeq(S) : SetToSeq(S)[k] = x
<1> DEFINE D == 1 .. Cardinality(S)
           s == SetToSeq(S)
<1>1. Cardinality(S) \in Nat /\ ExistsBijection(D, S)
  BY FS_CardinalityType
<1>2. PICK f : f \in [D -> S] /\ IsInjective(f)
  BY <1>1 DEF ExistsBijection, Bijection, Injection
<1>3. s \in [D -> S] /\ IsInjective(s)
  BY <1>2 DEF SetToSeq
<1> HIDE DEF s
<1>4. \A j, k \in D : j # k => s[j] # s[k]
  BY <1>3 DEF IsInjective
<1>5. s \in SetToSeqs(S)
  BY <1>3, <1>4 DEF SetToSeqs
<1> QED BY <1>5, SetToSeqsOnto DEF s
-----------------------------------------------------------------------------
(*****************************************************************************)
(* What the history lacks while a request runs                             *)
(*****************************************************************************)
\* What Quiet says of requests, while they run.
Careful ==
  \A r \in RequestIds : /\ reply[r] \notin {"error", "crashed", "document"}
                         /\ Versioned(request[r]) /\ Restorable(request[r])

\* The newest versions of h tell what the store s holds.
ShownIn(h, s) == \A i \in Ids : Shows(h, i, s[i])

\* The documents that r has written and has still to read back.
Unread(r) ==
  IF Handler(request[r]) = "updateMany" THEN {left[r][k].id : k \in DOMAIN left[r]}
  ELSE IF at[r] = "reread" THEN RereadFilter(r).ids ELSE {}

\* What a bulk request has gathered before its write: its inserts, then the
\* documents that the filters it is through with select.
FoundAll(r) ==
  LET q == request[r] IN
  /\ \A k \in DOMAIN left[r] : \E m \in DOMAIN q.remove : left[r][k] = q.remove[m]
  /\ \A n \in DOMAIN q.insert :
       n \in DOMAIN pending[r] /\ pending[r][n] = Version(r, "create", q.insert[n])
  /\ \A k \in DOMAIN pending[r] : k \notin DOMAIN q.insert =>
       /\ pending[r][k].action = "delete"
       /\ \E m \in DOMAIN q.remove : pending[r][k].id \in Matching(store, q.remove[m])
  /\ \A m \in DOMAIN q.remove :
       \/ \E k \in DOMAIN left[r] : left[r][k] = q.remove[m]
       \/ \A i \in Matching(store, q.remove[m]) : \E k \in DOMAIN pending[r] : pending[r][k].id = i

\* What the history lacks, as r goes from call to call.
Follows(r) ==
  LET h == Handler(request[r]) IN
  /\ at[r] \in {"find", "write", "delete"} => ShownIn(history, store)
  /\ at[r] = "write" /\ h = "updateMany" => Matching(store, request[r].filter) \subseteq Unread(r)
  /\ at[r] \in {"find", "write"} /\ h = "bulk" => FoundAll(r)
  /\ at[r] = "reread" =>
       \A i \in Ids : \/ Shows(history, i, store[i])
                      \/ i \in Unread(r) /\ store[i] \in RereadFilter(r).vals
  /\ at[r] = "record" =>
       \A i \in Ids : \/ Shows(history \o pending[r], i, store[i])
                      \/ i \in Unread(r) /\ store[i] \in Values

\* ... and once it is done.
Settled(r) == IF at[r] \in Calls THEN Follows(r) ELSE ShownIn(history, store)

LEMMA VersionParts ==
  ASSUME NEW r, NEW a, NEW d
  PROVE  Version(r, a, d).id = d.id /\ Version(r, a, d).value = d.value /\ Version(r, a, d).action = a
BY DEF Version

\* The documents that a filter selects.
LEMMA MatchingFacts ==
  ASSUME NEW s \in StoreTypes, NEW f \in Filters
  PROVE  /\ f.ids \subseteq Ids /\ f.vals \subseteq Values
         /\ Matching(s, f) \subseteq f.ids
         /\ \A i \in Matching(s, f) : /\ s[i] \in f.vals
                                      /\ [id |-> i, value |-> s[i]] \in MatchingDocs(s, f)
         /\ \A d \in MatchingDocs(s, f) : d \in Docs /\ d.id \in Matching(s, f) /\ s[d.id] = d.value
         /\ \A i \in f.ids : s[i] \in f.vals => i \in Matching(s, f)
<1>1. f.ids \subseteq Ids /\ f.vals \subseteq Values
  BY DEF Filters
<1>2. Matching(s, f) \subseteq f.ids /\ \A i \in Matching(s, f) : s[i] \in f.vals
  BY DEF Matching
<1>3. ASSUME NEW i \in Matching(s, f)
      PROVE  [id |-> i, value |-> s[i]] \in MatchingDocs(s, f)
  <2> DEFINE d == [id |-> i, value |-> s[i]]
  <2>1. d \in Docs
    BY <1>1, <1>2 DEF Docs
  <2>2. d.id = i /\ d.value = s[i]
    OBVIOUS
  <2> HIDE DEF d
  <2> QED BY <1>3, <2>1, <2>2 DEF MatchingDocs, DocsIn, d
<1>4. \A d \in MatchingDocs(s, f) : d \in Docs /\ d.id \in Matching(s, f) /\ s[d.id] = d.value
  BY DEF MatchingDocs, DocsIn
<1>5. \A i \in f.ids : s[i] \in f.vals => i \in Matching(s, f)
  BY DEF Matching
<1> QED BY <1>1, <1>2, <1>3, <1>4, <1>5

\* The queries in front of a write.
LEMMA FindManyFollows ==
  ASSUME TypeInv, NEW r \in RequestIds, FindMany(r), Follows(r)
  PROVE  Settled(r)'
<1>0. TypeOK /\ request[r] \in Requests /\ store \in StoreTypes
  BY Known
<1>1. PICK s \in SetToSeqs(MatchingDocs(store, request[r].filter)) : left' = [left EXCEPT ![r] = s]
  BY DEF FindMany
<1>2. /\ at[r] = "find" /\ Handler(request[r]) = "updateMany" /\ at'[r] = "write" /\ left'[r] = s
      /\ request' = request /\ store' = store /\ history' = history
  BY <1>0, <1>1 DEF FindMany, GoTo, TypeOK
<1>3. request[r].filter \in Filters
  BY <1>0, <1>2, HandlerFacts
<1>4. ASSUME NEW i \in Matching(store, request[r].filter)
      PROVE  i \in {s[k].id : k \in DOMAIN s}
  <2>1. [id |-> i, value |-> store[i]] \in MatchingDocs(store, request[r].filter)
    BY <1>0, <1>3, MatchingFacts
  <2>2. PICK k \in DOMAIN s : s[k] = [id |-> i, value |-> store[i]]
    BY <1>0, <2>1, DocsFinite, SetToSeqsOnto
  <2> QED BY <2>2
<1>5. ShownIn(history, store)
  BY <1>2 DEF Follows
<1>6. Matching(store', request'[r].filter) \subseteq Unread(r)'
  BY <1>2, <1>4 DEF Unread
<1> QED BY <1>2, <1>5, <1>6 DEF Settled, Follows, Calls

LEMMA FindDeletedFollows ==
  ASSUME TypeInv, NEW r \in RequestIds, FindDeleted(r), Follows(r)
  PROVE  Settled(r)'
<1>0. TypeOK
  BY Known
<1>1. /\ at[r] = "find" /\ at'[r] \in {"done", "delete"}
      /\ store' = store /\ history' = history
  BY <1>0 DEF FindDeleted, GoTo, Finish, TypeOK
<1>2. ShownIn(history, store)
  BY <1>1 DEF Follows
<1> QED BY <1>1, <1>2 DEF Settled, Follows, Calls

LEMMA FindBulkFollows ==
  ASSUME TypeInv, NEW r \in RequestIds, FindBulk(r), Follows(r)
  PROVE  Settled(r)'
<1> DEFINE q == request[r]
           f == Head(left[r])
<1>0. /\ TypeOK /\ q \in Requests /\ store \in StoreTypes /\ pending[r] \in Seq(Versions)
      /\ Stage(r) /\ at[r] = "find" /\ Handler(q) = "bulk"
  BY Known DEF FindBulk
<1>1. PICK s \in SetToSeqs(MatchingDocs(store, f)) :
        pending' = [pending EXCEPT ![r] = @ \o [k \in DOMAIN s |-> Version(r, "delete", s[k])]]
  BY DEF FindBulk
<1> DEFINE more == [k \in DOMAIN s |-> Version(r, "delete", s[k])]
           p == pending[r]
           c == p \o more
           lf == left[r]
<1>2. /\ lf \in Seq(Filters) /\ Len(lf) \in Nat \ {0} /\ DOMAIN lf = 1 .. Len(lf)
      /\ f = lf[1] /\ f \in Filters
      /\ \A k \in DOMAIN Tail(lf) : k + 1 \in DOMAIN lf /\ Tail(lf)[k] = lf[k + 1]
      /\ \A k \in DOMAIN lf : k # 1 => k - 1 \in DOMAIN Tail(lf) /\ Tail(lf)[k - 1] = lf[k]
  <2>1. lf \in Seq(Filters) /\ lf # <<>>
    BY <1>0 DEF Stage
  <2> HIDE DEF lf
  <2> QED BY <2>1 DEF lf
<1>3. s \in Seq(Docs) /\ \A k \in DOMAIN s : s[k] \in MatchingDocs(store, f)
  <2>1. s \in Seq(MatchingDocs(store, f)) /\ s \in Seq(Docs)
    BY <1>0, QueryType
  <2> QED BY <2>1
<1>4. /\ at'[r] \in {"find", "write"} /\ left'[r] = Tail(lf) /\ pending'[r] = c
      /\ request' = request /\ store' = store /\ history' = history
  BY <1>0, <1>1 DEF FindBulk, GoTo, TypeOK
<1>5. more \in Seq(Versions) /\ DOMAIN more = DOMAIN s
  BY <1>3, InsertVersions
<1>6. \A k \in DOMAIN s : more[k] = Version(r, "delete", s[k])
  OBVIOUS
<1> HIDE DEF more, q, f, c
<1>7. /\ Len(p) \in Nat /\ Len(more) \in Nat
      /\ DOMAIN p = 1 .. Len(p) /\ DOMAIN more = 1 .. Len(more)
      /\ DOMAIN c = 1 .. Len(p) + Len(more)
      /\ \A k \in 1 .. Len(p) : c[k] = p[k]
      /\ \A k \in 1 .. Len(more) : c[Len(p) + k] = more[k]
  BY <1>0, <1>5, ConcatParts DEF c
<1>8. /\ \A k \in DOMAIN p : k \in DOMAIN c /\ c[k] = p[k]
      /\ \A k \in DOMAIN more : Len(p) + k \in DOMAIN c /\ c[Len(p) + k] = more[k]
      /\ \A k \in DOMAIN c : k \in DOMAIN p \/ \E j \in DOMAIN more : c[k] = more[j]
  <2>1. ASSUME NEW k \in DOMAIN c, k \notin DOMAIN p
        PROVE  \E j \in DOMAIN more : c[k] = more[j]
    <3>1. k - Len(p) \in 1 .. Len(more) /\ Len(p) + (k - Len(p)) = k
      BY <1>7, <2>1
    <3> QED BY <1>7, <3>1
  <2> QED BY <1>7, <2>1
<1> HIDE DEF p, lf
<1>9. FoundAll(r) /\ ShownIn(history, store)
  BY <1>0 DEF Follows, q
<1>10. PICK mf \in DOMAIN q.remove : f = q.remove[mf]
  BY <1>2, <1>9 DEF FoundAll, q, lf
<1>a. \A k \in DOMAIN Tail(lf) : \E m \in DOMAIN q.remove : Tail(lf)[k] = q.remove[m]
  BY <1>2, <1>9 DEF FoundAll, q, lf
<1>b. \A n \in DOMAIN q.insert : n \in DOMAIN c /\ c[n] = Version(r, "create", q.insert[n])
  BY <1>8, <1>9 DEF FoundAll, q, p
<1>c. ASSUME NEW k \in DOMAIN c, k \notin DOMAIN q.insert
      PROVE  c[k].action = "delete" /\ \E m \in DOMAIN q.remove : c[k].id \in Matching(store, q.remove[m])
  <2>1. CASE k \in DOMAIN p
    BY <1>8, <1>9, <1>c, <2>1 DEF FoundAll, q, p
  <2>2. CASE \E j \in DOMAIN more : c[k] = more[j]
    <3>1. PICK j \in DOMAIN s : c[k] = Version(r, "delete", s[j])
      BY <1>5, <1>6, <2>2
    <3>2. s[j].id \in Matching(store, f)
      BY <1>0, <1>2, <1>3, MatchingFacts
    <3> QED BY <1>10, <3>1, <3>2, VersionParts
  <2> QED BY <1>8, <2>1, <2>2
<1>d. ASSUME NEW m \in DOMAIN q.remove
      PROVE  \/ \E k \in DOMAIN Tail(lf) : Tail(lf)[k] = q.remove[m]
             \/ \A i \in Matching(store, q.remove[m]) : \E k \in DOMAIN c : c[k].id = i
  <2>1. CASE \E k \in DOMAIN lf : lf[k] = q.remove[m]
    <3>1. PICK k \in DOMAIN lf : lf[k] = q.remove[m]
      BY <2>1
    <3>2. CASE k # 1
      BY <1>2, <3>1, <3>2
    <3>3. CASE k = 1
      <4> SUFFICES ASSUME NEW i \in Matching(store, q.remove[m])
                   PROVE  \E n \in DOMAIN c : c[n].id = i
        OBVIOUS
      <4>1. [id |-> i, value |-> store[i]] \in MatchingDocs(store, f)
        BY <1>0, <1>2, <3>1, <3>3, MatchingFacts
      <4>2. PICK j \in DOMAIN s : s[j] = [id |-> i, value |-> store[i]]
        BY <1>0, <4>1, DocsFinite, SetToSeqsOnto
      <4>3. more[j].id = i
        BY <1>6, <4>2, VersionParts
      <4> QED BY <1>5, <1>8, <4>2, <4>3
    <3> QED BY <3>2, <3>3
  <2>2. CASE \A i \in Matching(store, q.remove[m]) : \E k \in DOMAIN p : p[k].id = i
    BY <1>8, <2>2
  <2> QED BY <1>9, <2>1, <2>2 DEF FoundAll, q, lf, p
<1>11. FoundAll(r)'
  BY <1>4, <1>a, <1>b, <1>c, <1>d DEF FoundAll, q
<1>12. Handler(request'[r]) = "bulk"
  BY <1>0, <1>4 DEF q
<1> QED BY <1>4, <1>9, <1>11, <1>12 DEF Settled, Follows, Calls
\* Where a handler goes from its write.
LEMMA WrittenGoes ==
  ASSUME TypeInv, NEW r \in RequestIds, NEW u \in BOOLEAN, at[r] = "write", Written(r, u),
         ~ request[r].skip
  PROVE  LET q == request[r]
             h == Handler(q)
         IN
         /\ h \in Single /\ Rereads(q) => at'[r] = "reread" /\ left'[r] = left[r]
         /\ h \in Single /\ ~ Rereads(q) => at'[r] = "record" /\ pending'[r] = Recorded(r, q, u)
         /\ h = "updateMany" => IF left[r] = <<>> THEN at'[r] = "done"
                                ELSE at'[r] = "reread" /\ left'[r] = left[r]
         /\ h = "bulk" => IF pending[r] = <<>> THEN at'[r] = "done"
                          ELSE at'[r] = "record" /\ pending'[r] = pending[r]
<1> DEFINE q == request[r]
           h == Handler(q)
<1>0. TypeOK
  BY Known
<1>1. CASE SkipsVersion(q) \/ (h = "updateMany" /\ left[r] = <<>>) \/ (h = "bulk" /\ pending[r] = <<>>)
  <2>1. ~ SkipsVersion(q)
    BY DEF SkipsVersion
  <2>2. at'[r] = "done"
    BY <1>0, <1>1 DEF Written, Finish, TypeOK
  <2> QED BY <1>1, <2>1, <2>2 DEF Single
<1>2. CASE ~ (SkipsVersion(q) \/ (h = "updateMany" /\ left[r] = <<>>) \/ (h = "bulk" /\ pending[r] = <<>>))
  <2>1. /\ left' = left
        /\ IF Rereads(q) THEN GoTo(r, "reread") /\ pending' = pending
           ELSE GoTo(r, "record") /\ pending' = [pending EXCEPT ![r] = Recorded(r, q, u)]
    BY <1>2 DEF Written
  <2>2. h = "updateMany" => Rereads(q)
    BY DEF Rereads
  <2>3. h = "bulk" => ~ Rereads(q) /\ Recorded(r, q, u) = pending[r]
    BY DEF Rereads, Recorded
  <2>4. Rereads(q) => at'[r] = "reread"
    BY <1>0, <2>1 DEF GoTo, TypeOK
  <2>5. ~ Rereads(q) => at'[r] = "record" /\ pending'[r] = Recorded(r, q, u)
    BY <1>0, <2>1 DEF GoTo, TypeOK
  <2> QED BY <1>2, <2>1, <2>2, <2>3, <2>4, <2>5
<1> QED BY <1>1, <1>2

\* What a write of one document does to the store.
LEMMA WriteOneDoes ==
  ASSUME NEW s \in StoreTypes, NEW f \in Filters, NEW v \in Values, NEW upsert, NEW allowed,
         NEW e \in WriteOne(s, f, v, upsert, allowed)
  PROVE  \/ e.store = s /\ Matching(s, f) = {}
         \/ \E i \in allowed : /\ f.byId => i \in f.ids
                               /\ i \in f.ids \union Ids
                               /\ e.store = [s EXCEPT ![i] = v]
<1>1. CASE Matching(s, f) = {} /\ e = [store |-> s, upserted |-> FALSE]
  BY <1>1
<1>2. CASE e \in {[store |-> [s EXCEPT ![i] = v], upserted |-> Matching(s, f) = {}] :
                    i \in allowed \intersect
                      IF Matching(s, f) = {} THEN NewIds(s, f) ELSE Matching(s, f)}
  <2>1. PICK i \in allowed \intersect IF Matching(s, f) = {} THEN NewIds(s, f) ELSE Matching(s, f) :
          e = [store |-> [s EXCEPT ![i] = v], upserted |-> Matching(s, f) = {}]
    BY <1>2
  <2>2. e.store = [s EXCEPT ![i] = v]
    BY <2>1
  <2>3. (f.byId => i \in f.ids) /\ i \in f.ids \union Ids
    BY <2>1 DEF NewIds, Matching
  <2> QED BY <2>1, <2>2, <2>3
<1> QED BY <1>1, <1>2 DEF WriteOne

\* A document that is read back with the filter of the write.
LEMMA OneFollows ==
  ASSUME TypeInv, NEW r \in RequestIds, at[r] = "write", Follows(r),
         Restorable(request[r]), Handler(request[r]) \in Single, Rereads(request[r]),
         NEW e \in Effects(store, request[r]), store' = e.store,
         request' = request, history' = history, at'[r] = "reread", left'[r] = left[r]
  PROVE  Settled(r)'
<1> DEFINE q == request[r]
           h == Handler(q)
           f == RereadFilter(r)
<1>0. /\ q \in Requests /\ store \in StoreTypes /\ Immediate(q) = {} /\ ShownIn(history, store)
  BY Known DEF Stage, Calls, Follows
<1>1. PICK v \in Values, upsert \in BOOLEAN :
        /\ e \in WriteOne(store, f, v, upsert, Ids)
        /\ f \in Filters /\ f.byId /\ OneId(f) /\ v \in f.vals
  <2>1. CASE h = "updateOne"
    <3>1. f = ById(q.id) /\ q.id \in Ids /\ q.value \in Values
      BY <1>0, <2>1, HandlerFacts DEF RereadFilter
    <3>2. f \in Filters /\ f.byId /\ OneId(f) /\ q.value \in f.vals
      BY <3>1 DEF ById, OneId, Filters
    <3>3. e \in WriteOne(store, f, q.value, q.upsert, Ids)
      BY <2>1, <3>1 DEF Effects, UpdateOne
    <3> QED BY <1>0, <3>1, <3>2, <3>3, RequestFacts
  <2>2. CASE h = "updateByFilter"
    <3>1. f = q.filter /\ f \in Filters /\ q.value \in Values
      BY <1>0, <2>2, HandlerFacts DEF RereadFilter
    <3>2. f.byId
      <4>1. q.op = "update" /\ q.filter.byId
        BY <1>0, <2>2, RequestFacts DEF Handler
      <4> QED BY <3>1, <4>1
    <3>3. e \in WriteOne(store, f, q.value, q.upsert, Ids)
      BY <2>2, <3>1 DEF Effects, UpdateOne
    <3> QED BY <1>0, <2>2, <3>1, <3>2, <3>3, RequestFacts DEF Restorable
  <2>3. CASE h = "replaceOne"
    <3>1. f = q.filter /\ f \in Filters /\ q.replace.value \in Values
      BY <1>0, <2>3, HandlerFacts DEF RereadFilter, Replacements
    <3>2. q.replace.id = None
      BY <2>3 DEF Rereads
    <3>3. e \in WriteOne(store, f, q.replace.value, q.upsert, Ids)
      BY <2>3, <3>1, <3>2 DEF Effects, ReplaceOne
    <3> QED BY <1>0, <2>3, <3>1, <3>2, <3>3, RequestFacts DEF Restorable
  <2>4. h # "create"
    BY DEF Rereads
  <2> QED BY <2>1, <2>2, <2>3, <2>4 DEF Single
<1>2. RereadFilter(r)' = f /\ Unread(r)' = f.ids
  <2>1. h # "updateMany"
    BY DEF Single
  <2>2. RereadFilter(r)' = f
    BY DEF RereadFilter
  <2> QED BY <2>1, <2>2 DEF Unread
<1> HIDE DEF f
<1>3. ASSUME NEW i \in Ids
      PROVE  Shows(history, i, store'[i]) \/ (i \in f.ids /\ store'[i] \in f.vals)
  <2>1. CASE e.store = store
    BY <1>0, <2>1 DEF ShownIn
  <2>2. CASE \E x \in Ids : x \in f.ids /\ e.store = [store EXCEPT ![x] = v]
    <3>1. PICK x \in Ids : x \in f.ids /\ e.store = [store EXCEPT ![x] = v]
      BY <2>2
    <3>2. CASE i = x
      BY <1>0, <1>1, <3>1, <3>2 DEF StoreTypes
    <3>3. CASE i # x
      <4>1. store'[i] = store[i]
        BY <1>0, <3>1, <3>3 DEF StoreTypes
      <4> QED BY <1>0, <4>1 DEF ShownIn
    <3> QED BY <3>2, <3>3
  <2> QED BY <1>0, <1>1, <2>1, <2>2, WriteOneDoes
<1>4. h # "updateMany" /\ h # "bulk"
  BY DEF Single
<1> QED BY <1>2, <1>3, <1>4 DEF Settled, Follows, Calls

\* A document that is recorded as it was sent.
LEMMA SentFollows ==
  ASSUME TypeInv, NEW r \in RequestIds, at[r] = "write", Follows(r), NEW u \in BOOLEAN,
         Restorable(request[r]), Handler(request[r]) \in Single, ~ Rereads(request[r]),
         NEW e \in Effects(store, request[r]), store' = e.store,
         request' = request, history' = history, at'[r] = "record",
         pending'[r] = Recorded(r, request[r], u)
  PROVE  Settled(r)'
<1> DEFINE q == request[r]
           h == Handler(q)
<1>0. /\ q \in Requests /\ store \in StoreTypes /\ Immediate(q) = {} /\ ShownIn(history, store)
      /\ history \in Seq(Versions) /\ Plain(q)
  BY Known DEF Stage, Calls, Follows, Restorable
<1>1. PICK a \in {"create", "update", "replace"}, d \in Docs :
        /\ pending'[r] = <<Version(r, a, d)>>
        /\ e.store = [store EXCEPT ![d.id] = d.value]
  <2>1. CASE h = "create"
    <3> DEFINE d == [id |-> q.id, value |-> q.value]
    <3>1. q.id \in Ids /\ q.value \in Values
      BY <1>0, <2>1, HandlerFacts
    <3>2. d \in Docs /\ d.id = q.id /\ d.value = q.value
      BY <3>1 DEF Docs
    <3>3. pending'[r] = <<Version(r, "create", d)>>
      BY <2>1 DEF Recorded
    <3>4. Effects(store, q) = {[store |-> [store EXCEPT ![q.id] = q.value], upserted |-> FALSE] :
                                 i \in {q.id} \ {x \in Ids : store[x] # None}}
      BY <2>1 DEF Effects
    <3>5. e.store = [store EXCEPT ![q.id] = q.value]
      BY <3>4
    <3> HIDE DEF d
    <3> QED BY <3>2, <3>3, <3>5
  <2>2. CASE h = "replaceOne"
    <3> DEFINE d == q.replace
    <3>1. q.replace.id # None
      BY <2>2 DEF Rereads
    <3>2. q.filter \in Filters /\ d \in Docs /\ q.upsert = TRUE
      BY <1>0, <2>2, <3>1, HandlerFacts, RequestFacts DEF Replacements, Docs, Plain
    <3>3. pending'[r] = <<Version(r, "replace", d)>>
      BY <2>2 DEF Recorded
    <3>4. e \in WriteOne(store, q.filter, d.value, TRUE, {d.id})
      BY <2>2, <3>1, <3>2 DEF Effects, ReplaceOne
    <3>5. e \in {[store |-> [store EXCEPT ![i] = d.value], upserted |-> Matching(store, q.filter) = {}] :
                   i \in {d.id} \intersect IF Matching(store, q.filter) = {}
                                           THEN NewIds(store, q.filter) ELSE Matching(store, q.filter)}
      BY <3>4 DEF WriteOne
    <3>6. e.store = [store EXCEPT ![d.id] = d.value]
      BY <3>5
    <3> QED BY <3>2, <3>3, <3>6
  <2>3. h \notin {"updateOne", "updateByFilter"}
    BY DEF Rereads
  <2> QED BY <2>1, <2>2, <2>3 DEF Single
<1> DEFINE v == Version(r, a, d)
<1>2. v \in Versions /\ v.id = d.id /\ v.value = d.value /\ v.action # "delete"
  BY <1>1 DEF Version, Versions, Docs
<1> HIDE DEF v
<1>3. ASSUME NEW i \in Ids
      PROVE  Shows(history \o <<v>>, i, store'[i])
  <2>1. CASE i = d.id
    <3>1. store'[i] = d.value
      BY <1>0, <1>1, <2>1 DEF StoreTypes
    <3> QED BY <1>0, <1>2, <2>1, <3>1, ShowsVersion
  <2>2. CASE i # d.id
    <3>1. store'[i] = store[i]
      BY <1>0, <1>1, <2>2 DEF StoreTypes, Docs
    <3> QED BY <1>0, <1>2, <2>2, <3>1, ShowsVersion DEF ShownIn
  <2> QED BY <2>1, <2>2
<1>4. pending'[r] = <<v>>
  BY <1>1 DEF v
<1> QED BY <1>3, <1>4 DEF Settled, Follows, Calls

\* The documents that update() changes are those it has to read back.
LEMMA ManyFollows ==
  ASSUME TypeInv, NEW r \in RequestIds, at[r] = "write", Follows(r),
         Restorable(request[r]), Handler(request[r]) = "updateMany",
         NEW e \in Effects(store, request[r]), store' = e.store,
         request' = request, history' = history,
         IF left[r] = <<>> THEN at'[r] = "done" ELSE at'[r] = "reread" /\ left'[r] = left[r]
  PROVE  Settled(r)'
<1> DEFINE q == request[r]
           m == Matching(store, q.filter)
<1>0. /\ q \in Requests /\ store \in StoreTypes /\ ShownIn(history, store) /\ m \subseteq Unread(r)
  BY Known DEF Follows
<1>1. q.filter \in Filters /\ q.value \in Values /\ ~ q.upsert
  BY <1>0, HandlerFacts DEF Restorable
<1>2. Unread(r) = {left[r][k].id : k \in DOMAIN left[r]}
  BY DEF Unread
<1>3. /\ \A i \in Ids : i \in m => store'[i] = q.value
      /\ \A i \in Ids : i \notin m => store'[i] = store[i]
  <2>1. e \in UpdateMany(store, q.filter, q.value, q.upsert)
    BY DEF Effects
  <2>2. CASE m = {}
    <3>1. e = [store |-> store, upserted |-> FALSE]
      BY <1>1, <2>1, <2>2 DEF UpdateMany, UpdateOne, WriteOne
    <3> QED BY <2>2, <3>1
  <2>3. CASE m # {}
    <3>1. e = [store |-> [i \in Ids |-> IF i \in m THEN q.value ELSE store[i]], upserted |-> FALSE]
      BY <2>1, <2>3 DEF UpdateMany
    <3> QED BY <3>1
  <2> QED BY <2>2, <2>3
<1> HIDE DEF m
<1>4. CASE left[r] = <<>>
  <2>1. m = {}
    BY <1>0, <1>2, <1>4
  <2> QED BY <1>0, <1>3, <1>4, <2>1 DEF ShownIn, Settled, Calls
<1>5. CASE left[r] # <<>>
  <2>1. at'[r] = "reread" /\ left'[r] = left[r]
    BY <1>5
  <2>2. Unread(r)' = Unread(r)
    BY <1>2, <2>1 DEF Unread
  <2>3. RereadFilter(r)'.vals = Values
    <3>1. RereadFilter(r)' = ById(Head(left[r]).id)
      BY <2>1 DEF RereadFilter
    <3> QED BY <3>1 DEF ById
  <2>4. \A i \in Ids : Shows(history, i, store'[i]) \/ (i \in Unread(r) /\ store'[i] \in Values)
    BY <1>0, <1>1, <1>3 DEF ShownIn
  <2> QED BY <2>1, <2>2, <2>3, <2>4 DEF Settled, Follows, Calls
<1> QED BY <1>4, <1>5

\* The versions that a bulk request has gathered tell what it has made of the store.
LEMMA BulkShows ==
  ASSUME TypeInv, NEW r \in RequestIds, Restorable(request[r]), Handler(request[r]) = "bulk",
         FoundAll(r), left[r] = <<>>, ShownIn(history, store),
         NEW e \in Effects(store, request[r]), NEW i \in Ids
  PROVE  Shows(history \o pending[r], i, e.store[i])
<1> DEFINE q == request[r]
           p == pending[r]
           b == BulkInserts(store, q)
<1>0. /\ q \in Requests /\ store \in StoreTypes /\ Plain(q)
      /\ history \in Seq(Versions) /\ p \in Seq(Versions)
      /\ \A m \in DOMAIN q.remove : OneId(q.remove[m])
      /\ Shows(history, i, store[i])
  BY Known DEF Restorable, ShownIn
<1>1. q.insert \in Seq(Docs) /\ q.remove \in Seq(Filters) /\ \A m \in DOMAIN q.remove : q.remove[m] \in Filters
  <2>1. q.insert \in Seq(Docs) /\ q.remove \in Seq(Filters)
    BY <1>0, RequestFacts
  <2> QED BY <2>1
<1>2. PICK x \in BulkDeletes(b, q) : e.store = x /\ Inserted(store, q) = DOMAIN q.insert
  BY DEF Effects
<1>3. PICK d \in Deletions(b, q) :
        x = [y \in Ids |-> IF \E m \in DOMAIN q.remove : d[m] = y THEN None ELSE b[y]]
  BY <1>2 DEF BulkDeletes
<1>4. \A n \in DOMAIN q.insert : store[q.insert[n].id] = None
  <2> SUFFICES ASSUME NEW n \in DOMAIN q.insert
               PROVE  store[q.insert[n].id] = None
    OBVIOUS
  <2>1. \A k \in 1 .. n : store[q.insert[k].id] = None
    BY <1>2 DEF Inserted
  <2>2. n \in 1 .. n
    BY <1>1
  <2> QED BY <2>1, <2>2
<1>5. \A m \in DOMAIN q.remove : i \in Matching(store, q.remove[m]) => store[i] # None
  BY <1>1, StorageAssumption DEF Matching, Filters
<1>6. /\ \A n \in DOMAIN q.insert : n \in DOMAIN p /\ p[n] = Version(r, "create", q.insert[n])
      /\ \A k \in DOMAIN p : k \notin DOMAIN q.insert =>
           p[k].action = "delete" /\ \E m \in DOMAIN q.remove : p[k].id \in Matching(store, q.remove[m])
      /\ \A m \in DOMAIN q.remove : \A y \in Matching(store, q.remove[m]) : \E k \in DOMAIN p : p[k].id = y
  <2>1. DOMAIN left[r] = {}
    OBVIOUS
  <2> QED BY <2>1 DEF FoundAll
<1>7. CASE \E n \in DOMAIN q.insert : q.insert[n].id = i
  <2>1. PICK n \in DOMAIN q.insert : q.insert[n].id = i
    BY <1>7
  <2>2. store[i] = None
    BY <1>4, <2>1
  <2>3. n \in DOMAIN p /\ p[n].id = i
    BY <1>6, <2>1, VersionParts
  <2>4. ASSUME NEW k \in DOMAIN p, p[k].id = i
        PROVE  p[k].action # "delete" /\ p[k].value = e.store[i]
    <3>1. k \in DOMAIN q.insert
      BY <1>5, <1>6, <2>2, <2>4
    <3>2. q.insert[k] \in DocsIn(e.store)
      BY <1>0, <3>1, BulkLeaves
    <3>3. p[k] = Version(r, "create", q.insert[k])
      BY <1>6, <3>1
    <3>4. p[k].action = "create" /\ p[k].id = q.insert[k].id /\ p[k].value = q.insert[k].value
      BY <3>3, VersionParts
    <3> QED BY <2>4, <3>2, <3>4 DEF DocsIn
  <2> QED BY <1>0, <2>3, <2>4, ShowsNewer
<1>8. CASE \A n \in DOMAIN q.insert : q.insert[n].id # i
  <2>1. b[i] = store[i]
    BY <1>2, <1>8 DEF BulkInserts
  <2> HIDE DEF b
  <2>2. \A m \in DOMAIN q.remove : i \in Matching(b, q.remove[m]) <=> i \in Matching(store, q.remove[m])
    BY <2>1 DEF Matching
  <2>3. ASSUME NEW k \in DOMAIN p, p[k].id = i
        PROVE  p[k].action = "delete" /\ \E m \in DOMAIN q.remove : i \in Matching(store, q.remove[m])
    <3>1. k \notin DOMAIN q.insert
      BY <1>6, <1>8, <2>3, VersionParts
    <3> QED BY <1>6, <2>3, <3>1
  <2>4. CASE \E m \in DOMAIN q.remove : i \in Matching(store, q.remove[m])
    <3>1. PICK m \in DOMAIN q.remove : i \in Matching(store, q.remove[m])
      BY <2>4
    <3>2. \E n \in DOMAIN q.remove : d[n] = i
      <4> DEFINE rest == Matching(b, q.remove[m]) \ {d[k] : k \in 1 .. m - 1}
      <4>1. IF rest = {} THEN d[m] = None ELSE d[m] \in rest
        BY <1>3 DEF Deletions
      <4>2. CASE i \in {d[k] : k \in 1 .. m - 1}
        BY <1>1, <4>2
      <4>3. CASE i \notin {d[k] : k \in 1 .. m - 1}
        <5>1. i \in rest
          BY <2>2, <3>1, <4>3
        <5>2. d[m] \in Matching(b, q.remove[m])
          BY <4>1, <5>1
        <5>3. d[m] \in q.remove[m].ids /\ i \in q.remove[m].ids
          BY <3>1, <5>2 DEF Matching
        <5>4. d[m] = i
          BY <1>0, <5>3 DEF OneId
        <5> QED BY <5>4
      <4> QED BY <4>2, <4>3
    <3>3. e.store[i] = None
      BY <1>2, <1>3, <3>2
    <3>4. \E k \in DOMAIN p : p[k].id = i
      BY <1>6, <3>1
    <3> QED BY <1>0, <2>3, <3>3, <3>4, ShowsNewer
  <2>5. CASE ~ \E m \in DOMAIN q.remove : i \in Matching(store, q.remove[m])
    <3>1. \A m \in DOMAIN q.remove : d[m] # i
      <4> SUFFICES ASSUME NEW m \in DOMAIN q.remove, d[m] = i
                   PROVE  FALSE
        OBVIOUS
      <4>1. LET rest == Matching(b, q.remove[m]) \ {d[k] : k \in 1 .. m - 1}
            IN  IF rest = {} THEN d[m] = None ELSE d[m] \in rest
        BY <1>3 DEF Deletions
      <4>2. i # None
        BY StorageAssumption
      <4>3. i \in Matching(b, q.remove[m])
        BY <4>1, <4>2
      <4> QED BY <2>2, <2>5, <4>3
    <3>2. e.store[i] = store[i]
      BY <1>2, <1>3, <2>1, <3>1
    <3>3. \A k \in DOMAIN p : p[k].id # i
      BY <2>3, <2>5
    <3> QED BY <1>0, <3>2, <3>3, ShowsOlder
  <2> QED BY <2>4, <2>5
<1> QED BY <1>7, <1>8

LEMMA BulkFollows ==
  ASSUME TypeInv, NEW r \in RequestIds, at[r] = "write", Follows(r),
         Restorable(request[r]), Handler(request[r]) = "bulk",
         NEW e \in Effects(store, request[r]), store' = e.store,
         request' = request, history' = history,
         IF pending[r] = <<>> THEN at'[r] = "done" ELSE at'[r] = "record" /\ pending'[r] = pending[r]
  PROVE  Settled(r)'
<1>0. /\ left[r] = <<>> /\ history \in Seq(Versions)
      /\ FoundAll(r) /\ ShownIn(history, store)
  BY Known DEF Stage, Follows, Calls
<1>1. \A i \in Ids : Shows(history \o pending[r], i, store'[i])
  BY <1>0, BulkShows
<1>2. CASE pending[r] = <<>>
  <2>1. history \o pending[r] = history
    BY <1>0, <1>2
  <2> QED BY <1>1, <1>2, <2>1 DEF Settled, ShownIn, Calls
<1>3. CASE pending[r] # <<>>
  BY <1>1, <1>3 DEF Settled, Follows, Calls
<1> QED BY <1>2, <1>3

LEMMA WriteFollows ==
  ASSUME TypeInv, NEW r \in RequestIds, Write(r), Follows(r),
         Versioned(request[r]), Restorable(request[r])
  PROVE  Settled(r)'
<1> DEFINE q == request[r]
           h == Handler(q)
<1>1. PICK e \in Effects(store, q), u \in BOOLEAN : store' = e.store /\ Written(r, u)
  BY WriteDoes
<1>2. at[r] = "write" /\ history' = history /\ request' = request /\ ~ q.skip
  BY DEF Write, Versioned
<1>3. h \in Writing
  BY <1>2, Known DEF Stage
<1>4. CASE h \in Single /\ Rereads(q)
  <2>1. at'[r] = "reread" /\ left'[r] = left[r]
    BY <1>1, <1>2, <1>4, WrittenGoes
  <2> QED BY <1>1, <1>2, <1>4, <2>1, OneFollows
<1>5. CASE h \in Single /\ ~ Rereads(q)
  <2>1. at'[r] = "record" /\ pending'[r] = Recorded(r, q, u)
    BY <1>1, <1>2, <1>5, WrittenGoes
  <2> QED BY <1>1, <1>2, <1>5, <2>1, SentFollows
<1>6. CASE h = "updateMany"
  <2>1. IF left[r] = <<>> THEN at'[r] = "done" ELSE at'[r] = "reread" /\ left'[r] = left[r]
    BY <1>1, <1>2, <1>6, WrittenGoes
  <2> QED BY <1>1, <1>2, <1>6, <2>1, ManyFollows
<1>7. CASE h = "bulk"
  <2>1. IF pending[r] = <<>> THEN at'[r] = "done" ELSE at'[r] = "record" /\ pending'[r] = pending[r]
    BY <1>1, <1>2, <1>7, WrittenGoes
  <2> QED BY <1>1, <1>2, <1>7, <2>1, BulkFollows
<1> QED BY <1>3, <1>4, <1>5, <1>6, <1>7 DEF Writing

\* The calls after a write.
LEMMA DeleteFollows ==
  ASSUME TypeInv, NEW r \in RequestIds, Delete(r), Follows(r), Versioned(request[r])
  PROVE  Settled(r)'
<1> DEFINE v == Removed(r)
<1>0. /\ TypeOK /\ store \in StoreTypes /\ history \in Seq(Versions) /\ at[r] = "delete"
      /\ Handler(request[r]) = "delete" /\ v \in Versions /\ Head(left[r]) \in Docs
  BY Known, HeadOfLeft DEF Delete
<1>1. v.id = Head(left[r]).id /\ v.action = "delete"
  BY VersionParts DEF Removed
<1>2. ShownIn(history, store)
  BY <1>0 DEF Follows
<1> HIDE DEF v
<1>3. /\ at'[r] = "record" /\ pending'[r] = <<v>> /\ history' = history
      /\ store' = [store EXCEPT ![Head(left[r]).id] = None]
  BY <1>0 DEF Delete, Versioned, GoTo, TypeOK, v
<1>4. ASSUME NEW i \in Ids
      PROVE  Shows(history \o <<v>>, i, store'[i])
  <2>1. CASE i = v.id
    <3>1. store'[i] = None
      BY <1>0, <1>1, <1>3, <2>1 DEF StoreTypes
    <3> QED BY <1>0, <1>1, <2>1, <3>1, ShowsVersion
  <2>2. CASE i # v.id
    <3>1. store'[i] = store[i]
      BY <1>0, <1>1, <1>3, <2>2 DEF StoreTypes, Docs
    <3> QED BY <1>0, <1>2, <2>2, <3>1, ShowsVersion DEF ShownIn
  <2> QED BY <2>1, <2>2
<1> QED BY <1>3, <1>4 DEF Settled, Follows, Calls

\* A document read back is the one whose version is missing.
LEMMA HitFollows ==
  ASSUME TypeInv, NEW r \in RequestIds, Follows(r), at[r] = "reread", Restorable(request[r]),
         NEW d \in MatchingDocs(store, RereadFilter(r)),
         request' = request, store' = store, history' = history, at'[r] = "record",
         left'[r] = Rest(r), pending'[r] = <<Version(r, action[r], d)>>
  PROVE  Settled(r)'
<1> DEFINE q == request[r]
           h == Handler(q)
           f == RereadFilter(r)
           v == Version(r, action[r], d)
<1>0. /\ q \in Requests /\ store \in StoreTypes /\ history \in Seq(Versions)
      /\ action[r] \in {"create", "update", "replace"} /\ Stage(r) /\ h \in Single \union {"updateMany"}
      /\ Rereads(q) /\ Immediate(q) = {}
  BY Known DEF Stage, Calls
<1>1. d \in Docs /\ store[d.id] = d.value /\ d.id \in f.ids
  BY DEF MatchingDocs, DocsIn, Matching
<1>2. v \in Versions /\ v.id = d.id /\ v.value = d.value /\ v.action # "delete"
  BY <1>0, <1>1 DEF Version, Versions, Docs
<1>3. \A i \in Ids : Shows(history, i, store[i]) \/ (i \in Unread(r) /\ store[i] \in f.vals)
  BY DEF Follows
<1> HIDE DEF v, f
<1>4. CASE h = "updateMany"
  <2>1. left[r] # <<>> /\ left[r] \in Seq(Docs)
    BY <1>0, <1>4 DEF Stage, Calls
  <2>2. /\ DOMAIN left[r] = 1 .. Len(left[r]) /\ Len(left[r]) \in Nat /\ Rest(r) = Tail(left[r])
        /\ \A k \in DOMAIN left[r] : k # 1 => k - 1 \in DOMAIN Rest(r) /\ Rest(r)[k - 1] = left[r][k]
    BY <1>4, <2>1 DEF Rest
  <2>3. f = ById(Head(left[r]).id) /\ f.vals = Values /\ f.ids = {Head(left[r]).id}
    BY <1>4 DEF RereadFilter, ById, f
  <2>4. Head(left[r]) = left[r][1]
    BY <2>1
  <2>5. /\ Unread(r) = {left[r][k].id : k \in DOMAIN left[r]}
        /\ Unread(r)' = {Rest(r)[k].id : k \in DOMAIN Rest(r)}
    BY <1>4 DEF Unread
  <2>6. \A i \in Unread(r) : i = d.id \/ i \in Unread(r)'
    BY <1>1, <2>2, <2>3, <2>4, <2>5
  <2>7. ASSUME NEW i \in Ids
        PROVE  Shows(history \o <<v>>, i, store[i]) \/ (i \in Unread(r)' /\ store[i] \in Values)
    <3>1. CASE i = d.id
      BY <1>0, <1>1, <1>2, <3>1, ShowsVersion
    <3>2. CASE i # d.id
      BY <1>0, <1>2, <1>3, <2>3, <2>6, <3>2, ShowsVersion
    <3> QED BY <3>1, <3>2
  <2> QED BY <2>7 DEF Settled, Follows, Calls, v
<1>5. CASE h \in Single
  <2>1. OneId(f)
    <3>1. CASE h = "updateOne"
      BY <3>1 DEF RereadFilter, ById, OneId, f
    <3>2. CASE h \in {"updateByFilter", "replaceOne"}
      <4>1. f = q.filter
        BY <3>2 DEF RereadFilter, f
      <4>2. OneId(q.filter)
        BY <1>0, <3>2 DEF Restorable, Rereads
      <4> QED BY <4>1, <4>2
    <3> QED BY <1>0, <1>5, <3>1, <3>2 DEF Single, Rereads
  <2>2. Unread(r) = f.ids
    BY <1>5 DEF Unread, Single, f
  <2>3. ASSUME NEW i \in Ids
        PROVE  Shows(history \o <<v>>, i, store[i])
    <3>1. CASE i = d.id
      BY <1>0, <1>1, <1>2, <3>1, ShowsVersion
    <3>2. CASE i # d.id
      <4>1. i \notin f.ids
        BY <1>1, <2>1, <3>2 DEF OneId
      <4> QED BY <1>0, <1>2, <1>3, <2>2, <3>2, <4>1, ShowsVersion
    <3> QED BY <3>1, <3>2
  <2> QED BY <2>3 DEF Settled, Follows, Calls, v
<1> QED BY <1>0, <1>4, <1>5

\* When nothing is read back, no version is missing of what was asked for.
LEMMA MissFollows ==
  ASSUME TypeInv, NEW r \in RequestIds, Follows(r), at[r] = "reread",
         MatchingDocs(store, RereadFilter(r)) = {},
         request' = request, store' = store, history' = history,
         \/ Rest(r) = <<>> /\ at'[r] = "done"
         \/ Rest(r) # <<>> /\ at'[r] = "reread" /\ left'[r] = Rest(r)
  PROVE  Settled(r)'
<1> DEFINE q == request[r]
           h == Handler(q)
           f == RereadFilter(r)
<1>0. /\ q \in Requests /\ store \in StoreTypes /\ Stage(r) /\ h \in Single \union {"updateMany"}
      /\ Rereads(q) /\ Immediate(q) = {}
  BY Known DEF Stage, Calls
<1>1. \A i \in Ids : Shows(history, i, store[i]) \/ (i \in Unread(r) /\ store[i] \in f.vals)
  BY DEF Follows
<1>2. f.vals \subseteq Values /\ \A i \in f.ids \intersect Ids : store[i] \notin f.vals
  <2>1. f.vals \subseteq Values
    <3>1. CASE h \in {"updateOne", "updateMany"}
      BY <3>1 DEF RereadFilter, ById
    <3>2. CASE h \in {"updateByFilter", "replaceOne"}
      <4>1. f = q.filter /\ q.filter \in Filters
        BY <1>0, <3>2, HandlerFacts DEF RereadFilter
      <4> QED BY <4>1 DEF Filters
    <3> QED BY <1>0, <3>1, <3>2 DEF Single, Rereads
  <2>2. ASSUME NEW i \in f.ids, i \in Ids, store[i] \in f.vals
        PROVE  FALSE
    <3> DEFINE d == [id |-> i, value |-> store[i]]
    <3>1. d \in Docs /\ d.id = i /\ d.value = store[i]
      BY <2>1, <2>2 DEF Docs
    <3> HIDE DEF d
    <3>2. d \in MatchingDocs(store, f)
      BY <2>2, <3>1 DEF MatchingDocs, DocsIn, Matching
    <3> QED BY <3>2
  <2> QED BY <2>1, <2>2
<1> HIDE DEF f
<1>3. CASE h \in Single
  <2>1. Unread(r) = f.ids
    BY <1>3 DEF Unread, Single, f
  <2>2. ShownIn(history, store)
    BY <1>1, <1>2, <2>1 DEF ShownIn
  <2>3. at'[r] = "done"
    BY <1>3 DEF Rest, Single
  <2> QED BY <2>2, <2>3 DEF Settled, Calls
<1>4. CASE h = "updateMany"
  <2>1. left[r] # <<>> /\ left[r] \in Seq(Docs)
    BY <1>0, <1>4 DEF Stage, Calls
  <2>2. /\ DOMAIN left[r] = 1 .. Len(left[r]) /\ Len(left[r]) \in Nat /\ Rest(r) = Tail(left[r])
        /\ \A k \in DOMAIN left[r] : k # 1 => k - 1 \in DOMAIN Rest(r) /\ Rest(r)[k - 1] = left[r][k]
    BY <1>4, <2>1 DEF Rest
  <2>3. f = ById(Head(left[r]).id) /\ f.vals = Values /\ f.ids = {Head(left[r]).id}
    BY <1>4 DEF RereadFilter, ById, f
  <2>4. Head(left[r]) = left[r][1]
    BY <2>1
  <2>5. Unread(r) = {left[r][k].id : k \in DOMAIN left[r]}
    BY <1>4 DEF Unread
  <2>6. ASSUME NEW i \in Unread(r), i \notin f.ids
        PROVE  i \in {Rest(r)[k].id : k \in DOMAIN Rest(r)}
    <3>1. PICK k \in DOMAIN left[r] : i = left[r][k].id
      BY <2>5
    <3>2. k # 1
      BY <2>3, <2>4, <2>6, <3>1
    <3> QED BY <2>2, <3>1, <3>2
  <2>7. \A i \in Ids : \/ Shows(history, i, store[i])
                       \/ i \in {Rest(r)[k].id : k \in DOMAIN Rest(r)} /\ store[i] \in Values
    BY <1>1, <1>2, <2>6
  <2>8. CASE Rest(r) = <<>> /\ at'[r] = "done"
    <3>1. ShownIn(history, store)
      BY <2>7, <2>8 DEF ShownIn
    <3> QED BY <2>8, <3>1 DEF Settled, Calls
  <2>9. CASE Rest(r) # <<>> /\ at'[r] = "reread" /\ left'[r] = Rest(r)
    <3>1. Unread(r)' = {Rest(r)[k].id : k \in DOMAIN Rest(r)}
      BY <1>4, <2>9 DEF Unread
    <3>2. RereadFilter(r)'.vals = Values
      <4>1. RereadFilter(r)' = ById(Head(left'[r]).id)
        BY <1>4 DEF RereadFilter
      <4> QED BY <4>1 DEF ById
    <3> QED BY <2>7, <2>9, <3>1, <3>2 DEF Settled, Follows, Calls
  <2> QED BY <2>8, <2>9
<1> QED BY <1>0, <1>3, <1>4

LEMMA RereadFollows ==
  ASSUME TypeInv, NEW r \in RequestIds, Reread(r), Follows(r), Restorable(request[r]),
         reply'[r] # "document"
  PROVE  Settled(r)'
<1> DEFINE q == request[r]
           hits == MatchingDocs(store, RereadFilter(r))
<1>0. /\ TypeOK /\ at[r] = "reread" /\ request' = request /\ store' = store /\ history' = history
  BY Known DEF Reread
<1>1. CASE hits = {} /\ Rest(r) = <<>> /\ Finish(r, IF Handler(q) = "updateMany" THEN "ok" ELSE "notFound")
  <2>1. at'[r] = "done"
    BY <1>0, <1>1 DEF Finish, TypeOK
  <2> QED BY <1>0, <1>1, <2>1, MissFollows
<1>2. CASE hits = {} /\ Rest(r) # <<>> /\ left' = [left EXCEPT ![r] = Rest(r)] /\ GoTo(r, "reread")
  <2>1. at'[r] = "reread" /\ left'[r] = Rest(r)
    BY <1>0, <1>2 DEF GoTo, TypeOK
  <2> QED BY <1>0, <1>2, <2>1, MissFollows
<1>3. CASE \E d \in hits : Finish(r, "document")
  <2>1. reply'[r] = "document"
    BY <1>0, <1>3 DEF Finish, TypeOK
  <2> QED BY <2>1
<1>4. CASE \E d \in hits : /\ left' = [left EXCEPT ![r] = Rest(r)] /\ GoTo(r, "record")
                           /\ pending' = [pending EXCEPT ![r] = <<Version(r, action[r], d)>>]
  <2>1. PICK d \in hits : /\ left' = [left EXCEPT ![r] = Rest(r)] /\ GoTo(r, "record")
                          /\ pending' = [pending EXCEPT ![r] = <<Version(r, action[r], d)>>]
    BY <1>4
  <2>2. at'[r] = "record" /\ left'[r] = Rest(r) /\ pending'[r] = <<Version(r, action[r], d)>>
    BY <1>0, <2>1 DEF GoTo, TypeOK
  <2> QED BY <1>0, <2>2, HitFollows
<1> QED BY <1>1, <1>2, <1>3, <1>4 DEF Reread

LEMMA RecordFollows ==
  ASSUME TypeInv, NEW r \in RequestIds, Record(r), Follows(r), Versioned(request[r])
  PROVE  Settled(r)'
<1> DEFINE h == Handler(request[r])
<1>a. /\ TypeOK /\ at[r] = "record" /\ request' = request /\ store' = store
      /\ left[r] # <<>> => h \in {"delete", "updateMany"}
  BY Known DEF Record, Stage, Calls, Writing, Single
<1>b. history' = history \o pending[r]
  BY RecordDoes DEF Versioned
<1>0. /\ TypeOK /\ at[r] = "record" /\ request' = request /\ store' = store
      /\ history' = history \o pending[r]
      /\ left[r] # <<>> => h \in {"delete", "updateMany"}
  BY <1>a, <1>b
<1>1. \A i \in Ids : Shows(history', i, store[i]) \/ (i \in Unread(r) /\ store[i] \in Values)
  BY <1>0 DEF Follows
<1>2. h # "updateMany" => Unread(r) = {}
  BY <1>0 DEF Unread
<1>3. h = "updateMany" => Unread(r) = {left[r][k].id : k \in DOMAIN left[r]}
  BY DEF Unread
<1>4. CASE left[r] = <<>>
  <2>1. Unread(r) = {}
    BY <1>2, <1>3, <1>4
  <2>2. at'[r] = "done"
    BY <1>0, <1>4 DEF Record, Finish, TypeOK
  <2> QED BY <1>0, <1>1, <2>1, <2>2 DEF Settled, ShownIn, Calls
<1>5. CASE left[r] # <<>> /\ h = "delete"
  <2>1. at'[r] = "delete"
    BY <1>0, <1>5 DEF Record, GoTo, TypeOK
  <2> QED BY <1>0, <1>1, <1>2, <1>5, <2>1 DEF Settled, Follows, ShownIn, Calls
<1>6. CASE left[r] # <<>> /\ h = "updateMany"
  <2>1. at'[r] = "reread" /\ left'[r] = left[r]
    BY <1>0, <1>6 DEF Record, GoTo, TypeOK
  <2>2. Unread(r)' = Unread(r)
    BY <1>0, <1>3, <1>6, <2>1 DEF Unread
  <2>3. RereadFilter(r)'.vals = Values
    <3>1. RereadFilter(r)' = ById(Head(left'[r]).id)
      BY <1>0, <1>6 DEF RereadFilter
    <3> QED BY <3>1 DEF ById
  <2> QED BY <1>0, <1>1, <2>1, <2>2, <2>3 DEF Settled, Follows, Calls
<1> QED BY <1>0, <1>4, <1>5, <1>6

LEMMA BeginFollows ==
  ASSUME TypeInv, NEW r \in RequestIds, Begin(r), ShownIn(history, store), Versioned(request[r])
  PROVE  Settled(r)'
<1> DEFINE q == request[r]
           h == Handler(q)
           versions == [k \in DOMAIN q.insert |-> Version(r, "create", q.insert[k])]
<1>0. /\ TypeOK /\ request' = request /\ store' = store /\ history' = history /\ ~ q.skip
      /\ left[r] = <<>> /\ pending[r] = <<>>
  BY Known DEF Begin, Versioned, Stage
<1>1. CASE \E e \in Immediate(q) \union (IF Failures THEN {"poolExhausted"} ELSE {}) : Finish(r, e)
  <2>1. at'[r] = "done"
    BY <1>0, <1>1 DEF Finish, TypeOK
  <2> QED BY <1>0, <2>1 DEF Settled, Calls
<1>2. CASE /\ h = "delete" \/ (h = "updateMany" /\ ~ q.skip)
           /\ GoTo(r, "find")
  <2>1. at'[r] = "find"
    BY <1>0, <1>2 DEF GoTo, TypeOK
  <2> QED BY <1>0, <1>2, <2>1 DEF Settled, Follows, Calls
<1>f. ASSUME h = "bulk", left'[r] = q.remove, pending'[r] = versions
      PROVE  FoundAll(r)'
  <2>1. \A n \in DOMAIN q.insert : n \in DOMAIN versions /\ versions[n] = Version(r, "create", q.insert[n])
    OBVIOUS
  <2>2. DOMAIN versions = DOMAIN q.insert
    OBVIOUS
  <2> HIDE DEF versions
  <2> QED BY <1>0, <1>f, <2>1, <2>2 DEF FoundAll
<1>3. CASE /\ h = "bulk" /\ GoTo(r, "find")
           /\ left' = [left EXCEPT ![r] = q.remove]
           /\ pending' = [pending EXCEPT ![r] = versions]
  <2>1. at'[r] = "find" /\ left'[r] = q.remove /\ pending'[r] = versions
    BY <1>0, <1>3 DEF GoTo, TypeOK
  <2> HIDE DEF versions
  <2> QED BY <1>0, <1>3, <1>f, <2>1 DEF Settled, Follows, Calls
<1>4. CASE /\ h = "bulk" /\ GoTo(r, "write") /\ q.remove = <<>> /\ left' = left
           /\ pending' = [pending EXCEPT ![r] = versions]
  <2>1. at'[r] = "write" /\ left'[r] = q.remove /\ pending'[r] = versions
    BY <1>0, <1>4 DEF GoTo, TypeOK
  <2> HIDE DEF versions
  <2> QED BY <1>0, <1>4, <1>f, <2>1 DEF Settled, Follows, Calls
<1>5. CASE h \in {"create", "updateOne", "updateByFilter", "replaceOne"} /\ GoTo(r, "write")
  <2>1. at'[r] = "write"
    BY <1>0, <1>5 DEF GoTo, TypeOK
  <2> QED BY <1>0, <1>5, <2>1 DEF Settled, Follows, Calls
<1> HIDE DEF h
<1> QED BY <1>0, <1>1, <1>2, <1>3, <1>4, <1>5 DEF Begin, h

\* Alone, and after requests that ended well, the history follows the store.
FollowInv ==
  /\ AloneInv
  /\ overlapped = {} /\ Careful =>
       /\ \A r \in Active : Follows(r)
       /\ Active = {} => ShownIn(history, store)

\* A step of a request that ends well leaves the history as the next step needs it.
LEMMA StepFollows ==
  ASSUME TypeInv, NEW r \in RequestIds, Step(r), Versioned(request[r]), Restorable(request[r]),
         reply'[r] \notin {"error", "crashed", "document"},
         at[r] = "queued" => ShownIn(history, store),
         at[r] \in Calls => Follows(r)
  PROVE  Settled(r)'
<1>0. TypeOK
  BY Known
<1>1. ~ Finish(r, "error")
  BY <1>0 DEF Finish, TypeOK
<1>2. ~ WriteRefused(r) /\ ~ EditHistory(r) /\ ~ CallFails(r)
  BY <1>1 DEF WriteRefused, EditHistory, CallFails, Versioned
<1>3. CASE Begin(r)
  <2>1. at[r] = "queued"
    BY <1>3 DEF Begin
  <2> QED BY <1>3, <2>1, BeginFollows
<1>4. CASE FindMany(r)
  BY <1>4, FindManyFollows DEF FindMany, Calls
<1>5. CASE FindDeleted(r)
  BY <1>5, FindDeletedFollows DEF FindDeleted, Calls
<1>6. CASE FindBulk(r)
  BY <1>6, FindBulkFollows DEF FindBulk, Calls
<1>7. CASE Write(r)
  BY <1>7, WriteFollows DEF Write, Calls
<1>8. CASE Delete(r)
  BY <1>8, DeleteFollows DEF Delete, Calls
<1>9. CASE Reread(r)
  BY <1>9, RereadFollows DEF Reread, Calls
<1>10. CASE Record(r)
  BY <1>10, RecordFollows DEF Record, Calls
<1> QED BY <1>2, <1>3, <1>4, <1>5, <1>6, <1>7, <1>8, <1>9, <1>10 DEF Step, Handle

LEMMA FollowStep ==
  ASSUME FollowInv, [Next]_vars
  PROVE  FollowInv'
<1>0. AloneInv /\ AloneInv' /\ TypeInv /\ TypeOK
  BY AloneStep DEF FollowInv, AloneInv, TypeInv
<1> SUFFICES ASSUME overlapped' = {}, Careful'
             PROVE  /\ \A r \in Active' : Follows(r)'
                    /\ Active' = {} => ShownIn(history', store')
  BY <1>0 DEF FollowInv
<1>1. CASE \E r \in RequestIds : Step(r)
  <2>1. PICK r \in RequestIds : Step(r)
    BY <1>1
  <2>a. Others(r)
    BY <1>0, <2>1, StepKeeps DEF Kept
  <2>b. /\ overlapped \subseteq overlapped'
        /\ \A o \in RequestIds \ {r} : at'[o] = at[o]
        /\ \A o \in RequestIds \ {r} : at[o] \in Calls => {r, o} \subseteq overlapped'
    BY <1>0, <2>1, StepAlone
  <2>2. /\ Others(r) /\ overlapped = {}
        /\ \A o \in Active' : o = r
        /\ \A o \in RequestIds \ {r} : at[o] \notin Calls
    BY <2>a, <2>b DEF Active
  <2>3. at[r] # "done"
    BY <2>1 DEF Step, Handle, Begin, FindMany, FindDeleted, FindBulk, Write, WriteRefused,
                EditHistory, Delete, Reread, Record, CallFails
  <2>4. reply[r] = None /\ None \notin {"error", "crashed", "document"}
    BY <1>0, <2>3, StorageAssumption DEF TypeOK, Replies
  <2>5. Careful
    BY <2>2, <2>4 DEF Careful, Others
  <2>6. Versioned(request[r]) /\ Restorable(request[r]) /\ reply'[r] \notin {"error", "crashed", "document"}
    BY <2>5 DEF Careful
  <2>7. at[r] = "queued" => ShownIn(history, store)
    <3>1. at[r] = "queued" => Active = {}
      BY <2>2 DEF Active, Calls
    <3> QED BY <2>2, <2>5, <3>1 DEF FollowInv
  <2>8. at[r] \in Calls => Follows(r)
    BY <2>2, <2>5 DEF FollowInv, Active
  <2>9. Settled(r)'
    BY <1>0, <2>1, <2>6, <2>7, <2>8, StepFollows
  <2>10. CASE at'[r] \in Calls
    <3>1. r \in Active'
      BY <2>10 DEF Active
    <3>2. Follows(r)'
      BY <2>9, <2>10 DEF Settled
    <3> QED BY <2>2, <3>1, <3>2
  <2>11. CASE at'[r] \notin Calls
    <3>1. r \notin Active'
      BY <2>11 DEF Active
    <3>2. ShownIn(history', store')
      BY <2>9, <2>11 DEF Settled
    <3> QED BY <2>2, <3>1, <3>2
  <2> QED BY <2>10, <2>11
<1>2. CASE Crash
  <2>1. PICK r \in RequestIds : r \in Active
    BY <1>2 DEF Crash, Active
  <2>2. reply'[r] = "crashed"
    BY <1>2, <2>1 DEF Crash
  <2> QED BY <2>2 DEF Careful
<1>3. CASE UNCHANGED vars
  <2>1. Careful /\ overlapped = {} /\ Active' = Active
    BY <1>3 DEF vars, Careful, Active
  <2>2. \A r \in Active : Follows(r)'
    <3> SUFFICES ASSUME NEW r \in Active
                 PROVE  Follows(r)'
      OBVIOUS
    <3>1. RereadFilter(r)' = RereadFilter(r)
      BY <1>3 DEF vars, RereadFilter
    <3>2. Unread(r)' = Unread(r)
      BY <1>3, <3>1 DEF vars, Unread
    <3>3. FoundAll(r) => FoundAll(r)'
      BY <1>3 DEF vars, FoundAll
    <3>4. Follows(r)
      BY <2>1 DEF FollowInv
    <3> QED BY <1>3, <3>1, <3>2, <3>3, <3>4 DEF vars, Follows
  <2> QED BY <1>3, <2>1, <2>2 DEF vars, FollowInv
<1> QED BY <1>1, <1>2, <1>3 DEF Next, Step, Done

LEMMA FollowInit == Init => FollowInv
<1> SUFFICES ASSUME Init PROVE FollowInv
  OBVIOUS
<1>1. TypeInv /\ store \in StoreTypes
  BY TypeInit DEF TypeInv, TypeOK, StoreTypes
<1>2. \A r \in RequestIds : at[r] = "queued"
  BY DEF Init
<1>3. AloneInv /\ Active = {}
  BY <1>1, <1>2 DEF AloneInv, Active, Current, Calls
<1>4. ShownIn(history, store)
  <2> DEFINE V == {Version(None, "create", d) : d \in DocsIn(store)}
  <2>1. IsFiniteSet(DocsIn(store)) /\ DocsIn(store) \subseteq Docs
    BY <1>1, DocsFinite
  <2>2. IsFiniteSet(V)
    <3> DEFINE f == [d \in DocsIn(store) |-> Version(None, "create", d)]
    <3>1. f \in Surjection(DocsIn(store), V)
      BY DEF Surjection
    <3> QED BY <2>1, <3>1, FS_Surjection
  <2>3. \A v \in V : v \in Versions /\ v.action = "create" /\ store[v.id] = v.value
    BY <2>1 DEF Version, Versions, Docs, DocsIn
  <2>4. \A d \in DocsIn(store) : \E v \in V : v.id = d.id
    <3>1. \A d \in DocsIn(store) : Version(None, "create", d) \in V
      OBVIOUS
    <3> HIDE DEF V
    <3> QED BY <3>1, VersionParts
  <2>5. history = SetToSeq(V)
    BY DEF Init
  <2> HIDE DEF V
  <2>6. history \in Seq(V)
    BY <2>2, <2>5, SetToSeqType
  <2>7. \A k \in DOMAIN history : history[k] \in V
    BY <2>6
  <2>8. history \in Seq(Versions)
    BY <2>3, <2>6
  <2>9. history = <<>> \o history /\ <<>> \in Seq(Versions)
    BY <2>8
  <2>10. ASSUME NEW i \in Ids
         PROVE  Shows(history, i, store[i])
    <3>1. CASE \E k \in DOMAIN history : history[k].id = i
      <4>1. \A k \in DOMAIN history : history[k].id = i => history[k].action # "delete" /\ history[k].value = store[i]
        BY <2>3, <2>7
      <4>2. Shows(<<>> \o history, i, store[i])
        BY <2>8, <2>9, <3>1, <4>1, ShowsNewer
      <4> QED BY <2>9, <4>2
    <3>2. CASE \A k \in DOMAIN history : history[k].id # i
      <4>1. store[i] = None
        <5> SUFFICES ASSUME store[i] # None
                     PROVE  FALSE
          OBVIOUS
        <5>1. [id |-> i, value |-> store[i]] \in DocsIn(store)
          BY <1>1 DEF DocsIn, Docs, StoreTypes
        <5>2. PICK v \in V : v.id = i
          BY <2>4, <5>1
        <5>3. PICK k \in DOMAIN history : history[k] = v
          BY <2>2, <2>5, SetToSeqOnto
        <5> QED BY <3>2, <5>2, <5>3
      <4> QED BY <3>2, <4>1 DEF Shows
    <3> QED BY <3>1, <3>2
  <2> QED BY <2>10 DEF ShownIn
<1> QED BY <1>3, <1>4 DEF FollowInv

LEMMA FollowQuiet ==
  ASSUME FollowInv
  PROVE  NewestVersionIsStored
<1> SUFFICES ASSUME Quiet
             PROVE  ShownIn(history, store)
  BY DEF NewestVersionIsStored, ShownIn
<1>1. Careful
  BY DEF Quiet, Careful, Versioned
<1>2. Active = {} /\ overlapped = {}
  BY DEF Quiet, Active, Calls
<1> QED BY <1>1, <1>2 DEF FollowInv

\* When no request runs beside another one and all are restorable, end well, and ask
\* for versions and for acknowledgement, the newest version of a document is the
\* document, and that of a deleted one says so (storage.cpp, history()).
THEOREM NewestIsStored == Spec => []NewestVersionIsStored
<1>1. FollowInv => NewestVersionIsStored
  BY FollowQuiet
<1>2. FollowInv /\ [Next]_vars => FollowInv'
  BY FollowStep
<1> QED BY <1>1, <1>2, FollowInit, PTL DEF Spec
-----------------------------------------------------------------------------
(*****************************************************************************)
(* Updates by _id that run beside no other request                         *)
(*****************************************************************************)
\* A version of what the update r asked for is in h.
Tells(r, h) ==
  \E k \in DOMAIN h : h[k].id = request[r].id /\ h[k].value = request[r].value

\* An update by _id reads back, and records, what it wrote.
AsAsked(r) ==
  Handler(request[r]) = "updateOne" /\ request[r].ack /\ request[r].clientAck =>
    /\ at[r] = "reread" => store[request[r].id] \in {request[r].value, None}
    /\ at[r] = "record" => Tells(r, pending[r])
    /\ reply[r] = "ok" => Tells(r, history)

AskedInv ==
  AloneInv /\ (NoEdits => \A r \in RequestIds : r \notin overlapped => AsAsked(r))

\* Versions stay where they are, when nobody edits the history.
LEMMA HistoryKeeps ==
  ASSUME TypeInv, NEW r \in RequestIds, Step(r), ~ request[r].hist
  PROVE  /\ \A k \in DOMAIN history : k \in DOMAIN history' /\ history'[k] = history[k]
         /\ Record(r) /\ request[r].clientAck =>
              \A k \in DOMAIN pending[r] : \E n \in DOMAIN history' : history'[n] = pending[r][k]
<1>0. history \in Seq(Versions) /\ pending[r] \in Seq(Versions)
  BY Known
<1>1. ASSUME NEW more \in Seq(Versions), history' = history \o more
      PROVE  /\ \A k \in DOMAIN history : k \in DOMAIN history' /\ history'[k] = history[k]
             /\ \A k \in DOMAIN more : \E n \in DOMAIN history' : history'[n] = more[k]
  <2>1. /\ Len(history) \in Nat /\ Len(more) \in Nat
        /\ DOMAIN history = 1 .. Len(history) /\ DOMAIN more = 1 .. Len(more)
        /\ DOMAIN history' = 1 .. Len(history) + Len(more)
        /\ \A k \in 1 .. Len(history) : history'[k] = history[k]
        /\ \A k \in 1 .. Len(more) : history'[Len(history) + k] = more[k]
    BY <1>0, <1>1, ConcatParts
  <2>2. \A k \in DOMAIN more : Len(history) + k \in DOMAIN history'
    BY <2>1
  <2> QED BY <2>1, <2>2
<1>2. CASE Record(r)
  <2>1. PICK v \in Seq(Versions) : history' = history \o v /\ (request[r].clientAck => v = pending[r])
    BY <1>2, RecordDoes
  <2> QED BY <1>1, <2>1
<1>3. CASE history' = history /\ ~ Record(r)
  BY <1>3
<1>4. CASE CallFails(r) /\ history' # history /\ ~ Record(r)
  <2>1. \E v \in Seq(Versions) : history' = history \o v
    BY <1>4, CallFailsDoes
  <2> QED BY <1>1, <1>4, <2>1
<1>5. ~ EditHistory(r)
  BY DEF EditHistory
<1>6. \/ history' = history \/ Record(r) \/ CallFails(r)
  BY <1>5, FindManyDoes, FindDeletedDoes, FindBulkDoes, WriteDoes, WriteRefusedDoes, DeleteDoes, RereadDoes
     DEF Step, Handle, Begin
<1> QED BY <1>2, <1>3, <1>4, <1>6

\* The write of an update by _id leaves the document it asked for, or none.
LEMMA UpdateLeaves ==
  ASSUME NEW s \in StoreTypes, NEW q \in Requests, Handler(q) = "updateOne", Immediate(q) = {},
         NEW e \in Effects(s, q)
  PROVE  e.store[q.id] \in {q.value, None}
<1>1. q.id \in Ids /\ q.value \in Values
  BY HandlerFacts
<1> DEFINE f == ById(q.id)
<1>2. f \in Filters /\ f.ids = {q.id} /\ f.vals = Values /\ f.byId
  BY <1>1 DEF ById, Filters
<1>3. e \in WriteOne(s, f, q.value, q.upsert, Ids)
  BY DEF Effects, UpdateOne
<1> HIDE DEF f
<1>4. CASE e.store = s /\ Matching(s, f) = {}
  <2>1. s[q.id] \notin Values
    BY <1>2, <1>4 DEF Matching
  <2> QED BY <1>1, <1>4, <2>1 DEF StoreTypes
<1>5. CASE \E i \in f.ids : e.store = [s EXCEPT ![i] = q.value]
  <2>1. e.store = [s EXCEPT ![q.id] = q.value]
    BY <1>2, <1>5
  <2> QED BY <1>1, <2>1 DEF StoreTypes
<1>6. \/ e.store = s /\ Matching(s, f) = {}
      \/ \E i \in Ids : (f.byId => i \in f.ids) /\ e.store = [s EXCEPT ![i] = q.value]
  BY <1>1, <1>2, <1>3, WriteOneDoes
<1> QED BY <1>2, <1>4, <1>5, <1>6

\* A call of the handler, step by step.
LEMMA StepAsAsked ==
  ASSUME TypeInv, NEW r \in RequestIds, Step(r), AsAsked(r), ~ request[r].hist
  PROVE  AsAsked(r)'
<1> DEFINE q == request[r]
           h == Handler(q)
<1>0. /\ TypeOK /\ Stage(r) /\ q \in Requests /\ store \in StoreTypes /\ request' = request
      /\ history \in Seq(Versions) /\ pending[r] \in Seq(Versions) /\ action[r] \in {"create", "update", "replace"}
  BY Known, StepKeeps DEF Kept, Others
<1> SUFFICES ASSUME h = "updateOne", q.ack, q.clientAck
             PROVE  /\ at'[r] = "reread" => store'[q.id] \in {q.value, None}
                    /\ at'[r] = "record" => \E k \in DOMAIN pending'[r] :
                         pending'[r][k].id = q.id /\ pending'[r][k].value = q.value
                    /\ reply'[r] = "ok" => \E k \in DOMAIN history' :
                         history'[k].id = q.id /\ history'[k].value = q.value
  BY <1>0 DEF AsAsked, Tells
<1>d. at[r] # "done" /\ reply[r] = None /\ None # "ok"
  <2>1. at[r] # "done"
    BY DEF Step, Handle, Begin, FindMany, FindDeleted, FindBulk, Write, WriteRefused,
           EditHistory, Delete, Reread, Record, CallFails
  <2>2. None # "ok"
    BY StorageAssumption DEF Replies
  <2> QED BY <1>0, <2>1, <2>2 DEF TypeOK
<1>f. ASSUME NEW what, what # "ok", Finish(r, what)
      PROVE  at'[r] = "done" /\ reply'[r] # "ok"
  BY <1>0, <1>f DEF Finish, TypeOK
<1>1. CASE Begin(r)
  <2>1. CASE \E e \in Immediate(q) \union (IF Failures THEN {"poolExhausted"} ELSE {}) : Finish(r, e)
    <3>1. PICK e \in Immediate(q) \union {"poolExhausted"} : Finish(r, e)
      BY <2>1
    <3>2. e # "ok"
      BY <3>1, ImmediateNotOk
    <3> QED BY <1>f, <3>1, <3>2
  <2>2. CASE GoTo(r, "find") \/ GoTo(r, "write")
    <3>1. at'[r] \in {"find", "write"} /\ reply'[r] # "ok"
      BY <1>0, <1>d, <2>2 DEF GoTo, TypeOK
    <3> QED BY <3>1
  <2> QED BY <1>1, <2>1, <2>2 DEF Begin
<1>2. CASE Write(r)
  <2>1. PICK e \in Effects(store, q), u \in BOOLEAN : store' = e.store /\ Written(r, u) /\ at[r] = "write"
    BY <1>2, WriteDoes
  <2>2. Immediate(q) = {}
    BY <1>0, <2>1 DEF Stage, Calls
  <2>3. store'[q.id] \in {q.value, None}
    BY <1>0, <2>1, <2>2, UpdateLeaves
  <2>4. CASE q.skip
    <3>1. Finish(r, "skipped")
      BY <2>1, <2>4 DEF Written, SkipsVersion
    <3> QED BY <1>f, <3>1
  <2>5. CASE ~ q.skip
    <3>1. h \in Single /\ Rereads(q)
      BY DEF Single, Rereads
    <3>2. at'[r] = "reread"
      BY <2>1, <2>5, <3>1, WrittenGoes
    <3>3. reply'[r] # "ok"
      <4>1. GoTo(r, "reread")
        BY <2>1, <2>5, <3>1 DEF Written, SkipsVersion
      <4> QED BY <1>d, <4>1 DEF GoTo
    <3> QED BY <2>3, <3>2, <3>3
  <2> QED BY <2>4, <2>5
<1>3. CASE WriteRefused(r)
  <2>1. Finish(r, "error")
    BY <1>3 DEF WriteRefused
  <2> QED BY <1>f, <2>1
<1>4. CASE Reread(r)
  <2>1. CASE \E what \in {"notFound", "document"} : Finish(r, what)
    BY <1>f, <2>1
  <2>2. CASE \E d \in MatchingDocs(store, RereadFilter(r)) :
               /\ GoTo(r, "record")
               /\ pending' = [pending EXCEPT ![r] = <<Version(r, action[r], d)>>]
    <3>1. PICK d \in MatchingDocs(store, RereadFilter(r)) :
               /\ GoTo(r, "record")
               /\ pending' = [pending EXCEPT ![r] = <<Version(r, action[r], d)>>]
      BY <2>2
    <3>2. RereadFilter(r) = ById(q.id)
      BY DEF RereadFilter
    <3>3. d.id = q.id /\ d.value = store[q.id] /\ d.value \in Values
      BY <3>1, <3>2 DEF MatchingDocs, DocsIn, Matching, ById, Docs
    <3>4. store[q.id] = q.value
      BY <1>4, <3>3, StorageAssumption DEF AsAsked, Reread
    <3> DEFINE v == Version(r, action[r], d)
    <3>5. v.id = q.id /\ v.value = q.value
      BY <3>3, <3>4, VersionParts
    <3> HIDE DEF v
    <3>6. at'[r] = "record" /\ pending'[r] = <<v>> /\ reply'[r] # "ok"
      BY <1>0, <1>d, <3>1 DEF GoTo, TypeOK, v
    <3>7. 1 \in DOMAIN <<v>> /\ <<v>>[1] = v
      OBVIOUS
    <3> QED BY <3>5, <3>6, <3>7
  <2>3. Rest(r) = <<>>
    BY DEF Rest
  <2>4. Finish(r, "notFound") \/ Finish(r, "document") \/ \E d \in MatchingDocs(store, RereadFilter(r)) :
               /\ GoTo(r, "record")
               /\ pending' = [pending EXCEPT ![r] = <<Version(r, action[r], d)>>]
    BY <1>4, <2>3 DEF Reread
  <2> QED BY <2>1, <2>2, <2>4
<1>5. CASE Record(r)
  <2>1. at[r] = "record" /\ left[r] = <<>>
    BY <1>0, <1>5 DEF Record, Stage, Calls, Single
  <2>2. at'[r] = "done"
    BY <1>0, <1>5, <2>1 DEF Record, Finish, TypeOK
  <2>3. PICK k \in DOMAIN pending[r] : pending[r][k].id = q.id /\ pending[r][k].value = q.value
    BY <2>1 DEF AsAsked, Tells
  <2>4. \E n \in DOMAIN history' : history'[n] = pending[r][k]
    BY <1>5, HistoryKeeps
  <2> QED BY <2>2, <2>3, <2>4
<1>6. CASE CallFails(r)
  BY <1>6, <1>f DEF CallFails
<1>7. Begin(r) \/ Write(r) \/ WriteRefused(r) \/ Reread(r) \/ Record(r) \/ CallFails(r)
  <2>1. ~ Delete(r)
    BY HeadOfLeft DEF Delete
  <2> QED BY <2>1 DEF Step, Handle, FindMany, FindDeleted, FindBulk, EditHistory
<1> QED BY <1>1, <1>2, <1>3, <1>4, <1>5, <1>6, <1>7

LEMMA AskedStep ==
  ASSUME AskedInv, [Next]_vars
  PROVE  AskedInv'
<1>0. AloneInv' /\ AloneInv /\ TypeInv /\ TypeOK
  BY AloneStep DEF AskedInv, AloneInv, TypeInv
<1> SUFFICES ASSUME NoEdits', NEW o \in RequestIds, o \notin overlapped'
             PROVE  AsAsked(o)'
  BY <1>0 DEF AskedInv
<1>1. CASE \E r \in RequestIds : Step(r)
  <2>1. PICK r \in RequestIds : Step(r)
    BY <1>1
  <2>2. Others(r)
    BY <1>0, <2>1, StepKeeps DEF Kept
  <2>a. /\ overlapped \subseteq overlapped'
        /\ o # r => at'[o] = at[o] /\ (at[o] \in Calls => o \in overlapped')
    BY <1>0, <2>1, StepAlone
  <2>3. NoEdits /\ AsAsked(o) /\ ~ request[r].hist
    BY <2>2, <2>a DEF NoEdits, Others, AskedInv
  <2>4. CASE o = r
    BY <1>0, <2>1, <2>3, <2>4, StepAsAsked
  <2>5. CASE o # r
    <3>1. at'[o] \notin Calls
      BY <2>5, <2>a
    <3>2. reply'[o] = reply[o] /\ request' = request
      BY <2>2, <2>5 DEF Others
    <3>3. \A k \in DOMAIN history : k \in DOMAIN history' /\ history'[k] = history[k]
      BY <1>0, <2>1, <2>3, HistoryKeeps
    <3>4. Tells(o, history) => Tells(o, history)'
      BY <3>2, <3>3 DEF Tells
    <3> QED BY <2>3, <3>1, <3>2, <3>4 DEF AsAsked, Calls
  <2> QED BY <2>4, <2>5
<1>2. CASE Crash
  <2>1. /\ at'[o] \notin Calls /\ request' = request /\ history' = history
        /\ reply'[o] \in {reply[o], "crashed"} /\ overlapped' = overlapped
    BY <1>2 DEF Crash, Active, Calls
  <2>2. NoEdits
    BY <2>1 DEF NoEdits
  <2>3. AsAsked(o)
    BY <2>1, <2>2 DEF AskedInv
  <2> QED BY <2>1, <2>3 DEF AsAsked, Tells, Calls
<1>3. CASE UNCHANGED vars
  <2>1. NoEdits
    BY <1>3 DEF NoEdits, vars
  <2>2. AsAsked(o)
    BY <1>3, <2>1 DEF AskedInv, vars
  <2> QED BY <1>3, <2>2 DEF AsAsked, Tells, vars
<1> QED BY <1>1, <1>2, <1>3 DEF Next, Step, Done

\* Of updates by _id beside which no other request ran: one that is acknowledged
\* and succeeded has a version with the document it asked for, whatever calls fail
\* (src/README.md, "the resulting stored document"; storage.cpp, updateOne()); of
\* one that overlaps another update, that is false.
THEOREM UpdatesAreVersioned ==
  Spec => [](\A r \in RequestIds : r \notin overlapped => UpdateHasVersion(r))
<1>1. Init => AskedInv
  <2> SUFFICES ASSUME Init PROVE AskedInv
    OBVIOUS
  <2>1. \A r \in RequestIds : at[r] = "queued" /\ reply[r] = None /\ None # "ok"
    BY StorageAssumption DEF Init, Replies
  <2>2. AloneInv
    BY <2>1, TypeInit DEF AloneInv, Active, Current, Calls
  <2> QED BY <2>1, <2>2 DEF AskedInv, AsAsked
<1>2. AskedInv => \A r \in RequestIds : r \notin overlapped => UpdateHasVersion(r)
  BY DEF AskedInv, AsAsked, Tells, UpdateHasVersion
<1>3. AskedInv /\ [Next]_vars => AskedInv'
  BY AskedStep
<1> QED BY <1>1, <1>2, <1>3, PTL DEF Spec
=============================================================================
