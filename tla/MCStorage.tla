------------------------------ MODULE MCStorage ------------------------------
(***************************************************************************)
(* Storage for TLC: the requests of each run.                              *)
(***************************************************************************)
EXTENDS Storage

CONSTANTS d1, d2,       \* documents
          a, b,         \* values
          err           \* a value with a property named "error"

AllDocs == [ids |-> {d1, d2}, vals |-> {a, b, err}, byId |-> FALSE]
Only(i) == [ids |-> {i}, vals |-> {a, b, err}, byId |-> TRUE]
OnlyWith(i, v) == [ids |-> {i}, vals |-> {v}, byId |-> TRUE]
With(v) == [ids |-> {d1, d2}, vals |-> {v}, byId |-> FALSE]

Base == [op |-> "update", id |-> None, filter |-> None, replace |-> None, value |-> None,
         upsert |-> FALSE, skip |-> FALSE, hist |-> FALSE, ack |-> TRUE, clientAck |-> TRUE,
         insert |-> <<>>, remove |-> <<>>]

Create(i, v) == [Base EXCEPT !.op = "create", !.id = i, !.value = v]
Update(i, v) == [Base EXCEPT !.id = i, !.value = v]
UpdateBy(f, v) == [Base EXCEPT !.filter = f, !.value = v]
Replace(f, i, v) == [Base EXCEPT !.filter = f, !.replace = [id |-> i, value |-> v]]
Deletes(f) == [Base EXCEPT !.op = "delete", !.filter = f]
Bulk(ins, del) == [Base EXCEPT !.op = "bulk", !.insert = ins, !.remove = del]
Upsert(q) == [q EXCEPT !.upsert = TRUE]
Skip(q) == [q EXCEPT !.skip = TRUE]
Unacknowledged(q) == [q EXCEPT !.ack = FALSE]
\* On a client whose connection string has w=0; a request may ask for an
\* acknowledgement of its write nevertheless.
ByDefault(q) == [q EXCEPT !.ack = FALSE, !.clientAck = FALSE]
OnlyTheWrite(q) == [q EXCEPT !.clientAck = FALSE]
InHistory(q) == [q EXCEPT !.hist = TRUE]
Doc(i, v) == [id |-> i, value |-> v]

EmptyStore == [i \in {d1, d2} |-> None]
FullStore == [i \in {d1, d2} |-> a]
HalfStore == [EmptyStore EXCEPT ![d1] = a]

\* Requests of every handler, with the client acknowledged.
Acknowledged ==
  {Create(d2, b), Create(d1, a), Update(d1, b), Update(d1, err), Upsert(Update(d2, b)),
   UpdateBy(Only(d1), b), UpdateBy(Only(d2), a), Upsert(UpdateBy(OnlyWith(d1, b), b)),
   UpdateBy(AllDocs, b), UpdateBy(With(a), b),
   Replace(Only(d1), None, b), Upsert(Replace(Only(d1), d1, b)), Replace(Only(d2), d1, a),
   Deletes(AllDocs), Deletes(With(b)),
   Bulk(<<Doc(d2, b)>>, <<Only(d1)>>), Bulk(<<Doc(d2, b), Doc(d1, b)>>, <<>>)}

\* Those that write no version, or are refused before the database.
Unversioned ==
  {Skip(Create(d2, a)), Skip(Update(d1, b)), Skip(UpdateBy(AllDocs, b)), Skip(Deletes(AllDocs)),
   Skip(Bulk(<<Doc(d2, b)>>, <<AllDocs>>)), Skip(InHistory(Bulk(<<>>, <<AllDocs>>))),
   InHistory(Create(d1, a)), InHistory(Update(d1, a)), InHistory(Deletes(AllDocs)),
   Base, UpdateBy(AllDocs, None), Create(None, a), Bulk(<<>>, <<>>)}

\* Those of which the write, the insert of the version, or both are not acknowledged.
NotAcknowledged ==
  {Unacknowledged(Update(d1, b)), Unacknowledged(Deletes(AllDocs)),
   Unacknowledged(Upsert(Update(d2, b))), Unacknowledged(UpdateBy(AllDocs, b)),
   OnlyTheWrite(Create(d2, b)), OnlyTheWrite(Deletes(AllDocs)),
   ByDefault(Update(d1, b)), ByDefault(Create(d1, a)),
   ByDefault(Bulk(<<Doc(d2, b)>>, <<Only(d1)>>))}

EveryRequest == Acknowledged \union Unversioned \union NotAcknowledged

StartStores == {HalfStore, FullStore}

ConcurrentUpdates == {Update(d1, a), Update(d1, b)}
UpdateAndDelete == {Update(d1, b), Deletes(Only(d1))}

\* Requests are alike.
Symmetry == Permutations(RequestIds)
=============================================================================
