---------------------------- MODULE MCTransaction ----------------------------
(***************************************************************************)
(* Transaction for TLC: the requests of each run.                          *)
(***************************************************************************)
EXTENDS Transaction

CONSTANTS d1, d2,   \* documents
          a, b      \* values

Item(op, i, v) == [op |-> op, id |-> i, value |-> v, skip |-> FALSE, hist |-> FALSE]
Create(i, v) == Item("create", i, v)
Update(i, v) == Item("update", i, v)
Delete(i) == Item("delete", i, None)
DeleteIf(i, v) == Item("delete", i, v)
NoId == Item("create", None, a)
Invalid == Item("invalid", None, None)
Malformed == Item("malformed", None, None)
Other == Item("retrieve", d1, None)
Skip1(d) == [d EXCEPT !.skip = TRUE]
InHistory(d) == [d EXCEPT !.hist = TRUE]

Transact(items) == [items |-> items, database |-> TRUE]
WithoutDatabase(q) == [q EXCEPT !.database = FALSE]

EmptyStore == [i \in {d1, d2} |-> None]
HalfStore == [EmptyStore EXCEPT ![d1] = a]
HalfStores == {HalfStore}

\* Transactions that write the same documents, in both orders, and items of
\* every other kind in front of and behind one that writes.
EveryRequest ==
  {Transact(<<Create(d2, b), Update(d1, b)>>),
   Transact(<<Update(d1, b), Delete(d2)>>),
   Transact(<<Delete(d1), Create(d1, b)>>),
   Transact(<<DeleteIf(d1, b), Update(d2, a)>>),
   Transact(<<Update(d1, b), Create(d1, a)>>),
   Transact(<<Create(d2, b), NoId, Delete(d1)>>),
   Transact(<<Create(d2, b), InHistory(Create(d1, b))>>),
   Transact(<<Invalid, Update(d1, b), Other, Malformed>>),
   Transact(<<Other, Skip1(Update(d1, b)), Delete(d1)>>),
   WithoutDatabase(Transact(<<Invalid, Delete(d1)>>)),
   [items |-> None, database |-> TRUE],
   Transact(<<>>)}
=============================================================================
