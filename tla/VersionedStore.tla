--------------------------- MODULE VersionedStore ---------------------------
(***************************************************************************)
(* What the version history is for: the documents of a collection and      *)
(* their versions change together.  A step that changes documents adds, at *)
(* the same time, for each a version with what it holds now, or one that   *)
(* says it was deleted; a version of a deletion holds a document that was  *)
(* stored.  Versions are never removed or changed.                         *)
(***************************************************************************)
CONSTANTS Ids,   \* document identities
          None   \* no document

VARIABLES store,     \* store[i]: the document i
          history,   \* its versions, and those of the others
          exempt     \* documents that requests write without versions

Explains(v, i, value) ==
  /\ v.id = i
  /\ IF value = None THEN v.action = "delete" ELSE v.action # "delete" /\ v.value = value

Init ==
  \A i \in Ids \ exempt : store[i] # None => \E v \in history : Explains(v, i, store[i])

Change ==
  LET added == history' \ history IN
  /\ history \subseteq history'
  /\ \A i \in Ids \ exempt :
       store'[i] # store[i] => \E v \in added : Explains(v, i, store'[i])
  /\ \A v \in added : v.action = "delete" /\ v.id \notin exempt =>
       \/ v.value = store[v.id]
       \/ \E w \in added : Explains(w, v.id, v.value)
  /\ UNCHANGED exempt

Spec == Init /\ [][Change]_<<store, history, exempt>>
=============================================================================
