---------------------------- MODULE Collections ----------------------------
(***************************************************************************)
(* Requests that create, rename and drop collections while documents are   *)
(* created in them: src/src/service/db/internal/{create,rename,drop}.cpp   *)
(* and create() of src/src/service/db/storage.cpp.                         *)
(*                                                                         *)
(* A version names the collection of its document, so a rename and a drop  *)
(* have to follow in the version history.  They do so with a second call,  *)
(* on another thread for which the handler waits, whose failure is only    *)
(* logged.  MongoDB applies each call at once; a call may fail before or   *)
(* after it was applied, and a crash of the service is the failure of the  *)
(* calls it has not made.  Each document is created by one request.        *)
(***************************************************************************)
EXTENDS FiniteSets

CONSTANTS RequestIds,   \* the requests
          Requests,     \* what a request may be: [op, name, target, doc, clear]
          Names,        \* collections of one database
          Docs,         \* documents
          None,         \* no collection, no document
          Inits         \* contents of the database at the start

ASSUME CollectionAssumption ==
  /\ None \notin Names \cup Docs
  /\ Inits \subseteq [Docs -> Names \cup {None}]
  /\ \A q \in Requests :
       /\ q.op \in {"create", "make", "rename", "drop"}
       /\ q.name \in Names /\ q.target \in Names \cup {None} /\ q.doc \in Docs \cup {None}
       /\ q.op = "rename" => q.target # None
       /\ q.op = "create" => q.doc # None

VARIABLES colls,      \* the collections that exist
          in,         \* in[d]: the collection document d is in
          tag,        \* tag[d]: the collection the version of d names
          request,    \* request[r]: chosen once
          pc,         \* pc[r]: the call r makes next
          mixed,      \* history: names about which nothing is promised any more
          kept        \* history: documents dropped without their versions

vars == <<colls, in, tag, request, pc, mixed, kept>>
database == <<colls, in, tag>>

NamesOf(r) == {request[r].name, request[r].target} \ {None}
InProgress == {r \in RequestIds : pc[r] \notin {"queued", "done"}}

Init ==
  /\ in \in Inits
  /\ colls = {in[d] : d \in Docs} \ {None}
  /\ tag = in
  /\ request \in [RequestIds -> Requests]
  /\ \A r, s \in RequestIds : request[r].doc = request[s].doc => r = s \/ request[r].doc = None
  /\ \A r \in RequestIds : request[r].doc # None => in[request[r].doc] = None
  /\ pc = [r \in RequestIds |-> "queued"]
  /\ mixed = {}
  /\ kept = {}
-----------------------------------------------------------------------------
First(r) == CASE request[r].op = "create" -> "insert"
              [] request[r].op = "drop" -> "drop"
              [] OTHER -> "look"

GoTo(r, where) == pc' = [pc EXCEPT ![r] = where]
Unsettled(r) == mixed' = mixed \cup NamesOf(r)

\* The client is acquired, or the pool is exhausted.  (History: names that two
\* requests use at once are mixed.)
Begin(r) ==
  LET others == {o \in InProgress : NamesOf(o) \cap NamesOf(r) # {}} IN
  /\ pc[r] = "queued"
  /\ \/ /\ GoTo(r, First(r))
        /\ mixed' = IF others = {} THEN mixed
                    ELSE mixed \cup NamesOf(r) \cup UNION {NamesOf(o) : o \in others}
     \/ GoTo(r, "done") /\ UNCHANGED mixed
  /\ UNCHANGED <<database, request, kept>>

\* The driver throws, before the call of the handler was applied, or loses the reply.
Throws(r) == GoTo(r, "done") /\ Unsettled(r)

\* has_collection of a rename and of a createCollection.
Look(r) ==
  LET looked == IF request[r].op = "rename" THEN request[r].target ELSE request[r].name IN
  /\ pc[r] = "look"
  /\ GoTo(r, IF looked \in colls THEN "done" ELSE request[r].op)
  /\ UNCHANGED <<database, request, mixed, kept>>

\* create_collection: an error when the collection exists by now.
Make(r) ==
  /\ pc[r] = "make"
  /\ colls' = colls \cup {request[r].name}
  /\ GoTo(r, "done")
  /\ UNCHANGED <<in, tag, request, mixed, kept>>

\* Mutant: the collection is not made.
InsertOnly(r) ==
  /\ pc[r] = "insert"
  /\ in' = [in EXCEPT ![request[r].doc] = request[r].name]
  /\ GoTo(r, "record")
  /\ UNCHANGED <<colls, tag, request, mixed, kept>>
\* insert_one makes the collection if need be.
Insert(r) ==
  /\ pc[r] = "insert"
  /\ colls' = colls \cup {request[r].name}
  /\ in' = [in EXCEPT ![request[r].doc] = request[r].name]
  /\ (GoTo(r, "record") /\ UNCHANGED mixed) \/ Throws(r)
  /\ UNCHANGED <<tag, request, kept>>

\* history(): the version names the collection of the request.
Record(r) ==
  /\ pc[r] = "record"
  /\ \/ /\ tag' = [tag EXCEPT ![request[r].doc] = request[r].name]
        /\ UNCHANGED mixed
     \/ UNCHANGED tag /\ Unsettled(r)
  /\ GoTo(r, "done")
  /\ UNCHANGED <<colls, in, request, kept>>

\* The rename of a collection that is missing, or to one that exists by now, fails.
\* (History: a mixed collection is mixed under its new name.)
Rename(r) ==
  LET from == request[r].name
      to == request[r].target
  IN
  /\ pc[r] = "rename"
  /\ IF from \in colls /\ to \notin colls
     THEN /\ colls' = (colls \ {from}) \cup {to}
          /\ in' = [d \in Docs |-> IF in[d] = from THEN to ELSE in[d]]
          /\ \/ /\ GoTo(r, "update")
                /\ mixed' = IF from \in mixed THEN mixed \cup {to} ELSE mixed
             \/ Throws(r)
     ELSE UNCHANGED <<colls, in, mixed>> /\ GoTo(r, "done")
  /\ UNCHANGED <<tag, request, kept>>

\* prename::update.  Mutant: selects the versions of the target.
Retagged(r, names) ==
  tag' = [d \in Docs |-> IF tag[d] \in names THEN request[r].target ELSE tag[d]]
UpdateNothing(r) ==
  /\ pc[r] = "update"
  /\ Retagged(r, {request[r].target}) /\ UNCHANGED mixed
  /\ GoTo(r, "done")
  /\ UNCHANGED <<colls, in, request, kept>>
\* No client, or the call fails: that is logged, and the reply is a success.
Update(r) ==
  /\ pc[r] = "update"
  /\ \/ Retagged(r, {request[r].name}) /\ UNCHANGED mixed
     \/ UNCHANGED tag /\ Unsettled(r)
  /\ GoTo(r, "done")
  /\ UNCHANGED <<colls, in, request, kept>>

Drop(r) ==
  LET dropped == {d \in Docs : in[d] = request[r].name} IN
  /\ pc[r] = "drop"
  /\ colls' = colls \ {request[r].name}
  /\ in' = [d \in Docs |-> IF d \in dropped THEN None ELSE in[d]]
  /\ IF request[r].clear
     THEN ((GoTo(r, "remove") /\ UNCHANGED mixed) \/ Throws(r)) /\ UNCHANGED kept
     ELSE GoTo(r, "done") /\ UNCHANGED mixed /\ kept' = kept \cup dropped
  /\ UNCHANGED <<tag, request>>

\* Mutant: selects the versions of the target.
RemoveNothing(r) ==
  /\ pc[r] = "remove"
  /\ tag' = [d \in Docs |-> IF tag[d] = request[r].target THEN None ELSE tag[d]]
  /\ UNCHANGED mixed
  /\ GoTo(r, "done")
  /\ UNCHANGED <<colls, in, request, kept>>
\* pdrop::remove.
Remove(r) ==
  /\ pc[r] = "remove"
  /\ \/ /\ tag' = [d \in Docs |-> IF tag[d] = request[r].name THEN None ELSE tag[d]]
        /\ UNCHANGED mixed
     \/ UNCHANGED tag /\ Unsettled(r)
  /\ GoTo(r, "done")
  /\ UNCHANGED <<colls, in, request, kept>>

\* The first call of a handler fails and changes nothing.
CallFails(r) ==
  /\ pc[r] \in {"look", "make", "insert", "rename", "drop"}
  /\ GoTo(r, "done")
  /\ UNCHANGED <<database, request, mixed, kept>>

Done == (\A r \in RequestIds : pc[r] = "done") /\ UNCHANGED vars

Next ==
  \/ \E r \in RequestIds :
       \/ Begin(r) \/ CallFails(r)
       \/ Look(r) \/ Make(r)
       \/ Insert(r) \/ Record(r)
       \/ Rename(r) \/ Update(r)
       \/ Drop(r) \/ Remove(r)
  \/ Done

Spec == Init /\ [][Next]_vars
-----------------------------------------------------------------------------
TypeOK ==
  /\ colls \subseteq Names
  /\ in \in [Docs -> Names \cup {None}]
  /\ tag \in [Docs -> Names \cup {None}]
  /\ request \in [RequestIds -> Requests]
  /\ pc \in [RequestIds -> {"queued", "look", "make", "insert", "record", "rename",
                             "update", "drop", "remove", "done"}]
  /\ mixed \subseteq Names
  /\ kept \subseteq Docs
  /\ {in[d] : d \in Docs} \ {None} \subseteq colls

\* A collection no request is about, and whose requests went well one by one.
Settled(name) == name \notin mixed /\ \A r \in InProgress : name \notin NamesOf(r)

\* The versions of a document are under the name of the collection it is in, whatever
\* happens to other collections meanwhile (rename.cpp:47).
VersionsFollow ==
  \A d \in Docs : in[d] # None /\ Settled(in[d]) => tag[d] = in[d]

\* A version is of a document of the collection it names, unless that was dropped and
\* its history kept: versions of other documents are not found under a new collection
\* with an old name (rename.cpp:47, drop.cpp:39).
NoStrayVersions ==
  \A d \in Docs : tag[d] # None /\ Settled(tag[d]) => in[d] = tag[d] \/ d \in kept
=============================================================================
