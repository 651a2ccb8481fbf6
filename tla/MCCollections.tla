--------------------------- MODULE MCCollections ----------------------------
(***************************************************************************)
(* Collections for TLC: the requests of the runs.                          *)
(***************************************************************************)
EXTENDS Collections

CONSTANTS d1, d2, d3, A, B, C

Request(op, name, target, doc, clear) ==
  [op |-> op, name |-> name, target |-> target, doc |-> doc, clear |-> clear]
CreateDoc(d, n) == Request("create", n, None, d, FALSE)
RenameTo(n, t) == Request("rename", n, t, None, FALSE)
DropIt(n, clear) == Request("drop", n, None, None, clear)
MakeIt(n) == Request("make", n, None, None, FALSE)

EveryRequest ==
  {CreateDoc(d2, A), CreateDoc(d2, B), CreateDoc(d3, A), CreateDoc(d3, C),
   RenameTo(A, B), RenameTo(B, C), RenameTo(B, A),
   DropIt(A, TRUE), DropIt(A, FALSE), DropIt(B, TRUE), MakeIt(A), MakeIt(B)}

OneDocument == {[d \in {d1, d2, d3} |-> IF d = d1 THEN A ELSE None]}
=============================================================================
