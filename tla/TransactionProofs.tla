------------------------- MODULE TransactionProofs --------------------------
(***************************************************************************)
(* Theorems about Transaction, for any number of requests, items,          *)
(* documents and attempts: documents and versions change together.         *)
(***************************************************************************)
EXTENDS Transaction, SequenceTheorems, TLAPS

Uncommitted == Open \ committed
Listing(r) == ToSet(result[r].vhidc) \union ToSet(result[r].vhidd)
Writing == {"create", "update", "delete"}

SessionOK ==
  session \in [RequestIds -> [view : [Ids -> Values \union {None}], wrote : SUBSET Ids,
                              stale : SUBSET Ids, versions : Seq(Versions)]]

\* Where a request is tells how far it has come.
Phases ==
  \A r \in RequestIds :
    /\ r \in Open => request[r].items # None /\ item[r] \in 1 .. Len(request[r].items) + 1
    /\ at[r] = "queued" => item[r] = 1
    /\ at[r] = "commit" => item[r] = Len(request[r].items) + 1
    /\ at[r] \in {"queued", "items"} => r \notin committed

\* Two open sessions write different documents.
Isolated ==
  \A r, o \in Open : r # o => session[r].wrote \cap session[o].wrote = {}

\* What a session has not written, and is not told to be stale, is as stored.
Snapshots ==
  \A r \in Uncommitted : \A i \in Ids :
    i \notin session[r].wrote \union session[r].stale => session[r].view[i] = store[i]

\* Versions are of the request that made them, and not stored before it commits.
Owned ==
  /\ \A r \in RequestIds : \A v \in ToSet(session[r].versions) :
       v.by = r /\ (v.action = "delete" => v.id \in session[r].wrote)
  /\ \A v \in history : v.by = None \/ v.by \in committed

\* A document that a session has written has a version with what it holds.
Explained ==
  \A r \in Uncommitted : \A i \in session[r].wrote \ Skipped :
    \E v \in ToSet(session[r].versions) : Abstract!Explains(v, i, session[r].view[i])

\* A version of a deletion holds what is stored, or what the session wrote before.
DeletesStored ==
  \A r \in Uncommitted : \A v \in ToSet(session[r].versions) :
    v.action = "delete" /\ v.id \notin Skipped =>
      \/ v.value = store[v.id]
      \/ \E w \in ToSet(session[r].versions) : Abstract!Explains(w, v.id, v.value)

\* The items behind a request went well, and have their versions.
Passed ==
  \A r \in Uncommitted : \A k \in 1 .. item[r] - 1 :
    /\ ~ Throws(request[r].items[k])
    /\ k \in Steps(r) =>
         /\ ~ Refused(request[r].items[k])
         /\ request[r].items[k].op # "delete" /\ ~ request[r].items[k].skip
              => \E v \in ToSet(session[r].versions) :
                   /\ v.action = request[r].items[k].op /\ v.id = request[r].items[k].id

\* The result lists every version, stored or not.
Listings ==
  /\ \A r \in RequestIds : \A v \in ToSet(session[r].versions) : v.oid \in Listing(r)
  /\ \A v \in history : v.by # None => v.oid \in Listing(v.by)

Sessions == /\ Phases /\ Isolated /\ Snapshots /\ Owned /\ Explained /\ DeletesStored
            /\ Passed /\ Listings
Inv == TypeOK /\ SessionOK /\ Sessions
-----------------------------------------------------------------------------
(***************************************************************************)
(* Items, sequences and lists                                              *)
(***************************************************************************)
LEMMA ToSetAppend ==
  ASSUME NEW S, NEW s \in Seq(S), NEW e \in S
  PROVE  ToSet(Append(s, e)) = ToSet(s) \union {e}
<1>1. /\ DOMAIN Append(s, e) = 1 .. Len(s) + 1 /\ Len(s) \in Nat /\ DOMAIN s = 1 .. Len(s)
      /\ Append(s, e)[Len(s) + 1] = e
      /\ \A i \in 1 .. Len(s) : Append(s, e)[i] = s[i]
  OBVIOUS
<1> QED BY <1>1 DEF ToSet

LEMMA LenNat ==
  ASSUME NEW S, NEW s \in Seq(S), NEW t \in Seq(S)
  PROVE  Len(s) + Len(t) \in Nat
OBVIOUS

LEMMA SkippedKept == UNCHANGED request => Skipped' = Skipped
BY DEF Skipped, Steps

LEMMA ItemFacts ==
  ASSUME Inv, NEW r \in RequestIds, HasItem(r)
  PROVE  /\ request[r].items # None /\ request[r].items \in Seq(Items)
         /\ item[r] \in DOMAIN request[r].items /\ item[r] \in 1 .. Len(request[r].items)
         /\ Current(r) \in Items
         /\ Current(r).op \in {"create", "update"} => Current(r).value # None
         /\ Current(r).op \in Writing /\ Current(r).skip => Current(r).id \in Skipped
         /\ ~ Refused(Current(r)) => Current(r).id \in Ids
         /\ r \in Uncommitted
<1>1. r \in Uncommitted /\ request[r].items # None
      /\ item[r] \in 1 .. Len(request[r].items) + 1 /\ item[r] <= Len(request[r].items)
  BY DEF Inv, Sessions, Phases, HasItem, Uncommitted, Open
<1>2. request[r] \in Requests
  BY DEF Inv, TypeOK
<1>3. /\ request[r].items \in Seq(Items)
      /\ \A k \in DOMAIN request[r].items :
           request[r].items[k].op \in {"create", "update"} => request[r].items[k].value # None
  BY <1>1, <1>2, TransactionAssumption
<1>4. item[r] \in DOMAIN request[r].items /\ item[r] \in 1 .. Len(request[r].items)
  BY <1>1, <1>3
<1>5. Current(r) \in Items
  BY <1>3, <1>4 DEF Current
<1>6. Current(r).op \in Writing /\ Current(r).skip => Current(r).id \in Skipped
  <2>1. SUFFICES ASSUME request[r].items[item[r]].op \in Writing, request[r].items[item[r]].skip
                 PROVE  request[r].items[item[r]].id \in Skipped
    BY DEF Current
  <2>2. item[r] \in {j \in Steps(r) : request[r].items[j].skip}
    BY <1>4, <2>1 DEF Steps, Writing
  <2>3. r \in {q \in RequestIds : request[q].items # None}
    BY <1>1
  <2> DEFINE SkippedBy(q) == {request[q].items[k].id : k \in {j \in Steps(q) : request[q].items[j].skip}}
  <2>4. request[r].items[item[r]].id \in SkippedBy(r)
    BY <2>2
  <2>5. Skipped = UNION {SkippedBy(q) : q \in {q \in RequestIds : request[q].items # None}}
    BY DEF Skipped
  <2> HIDE DEF SkippedBy
  <2> QED BY <2>3, <2>4, <2>5
<1>7. ~ Refused(Current(r)) => Current(r).id \in Ids
  BY <1>5 DEF Refused, Items
<1> QED BY <1>1, <1>3, <1>4, <1>5, <1>6, <1>7 DEF Current

\* What a result may become keeps its type and its lists.
Grows(r, res) ==
  /\ res \in Results
  /\ Listing(r) \subseteq ToSet(res.vhidc) \union ToSet(res.vhidd)

\* A result that only counts more has the same lists.
SameLists(new, res) == new \in Results /\ new.vhidc = res.vhidc /\ new.vhidd = res.vhidd

LEMMA ResultCounts ==
  ASSUME NEW res \in Results, NEW n \in Nat
  PROVE  /\ SameLists(res, res)
         /\ SameLists([res EXCEPT !.created = @ + 1], res)
         /\ SameLists([res EXCEPT !.updated = @ + 1], res)
         /\ SameLists([res EXCEPT !.deleted = @ + n], res)
<1>0. res.created + 1 \in Nat /\ res.updated + 1 \in Nat /\ res.deleted + n \in Nat
  BY DEF Results
<1>1. SameLists(res, res)
  BY DEF SameLists
<1>2. SameLists([res EXCEPT !.created = @ + 1], res)
  BY <1>0 DEF Results, SameLists
<1>3. SameLists([res EXCEPT !.updated = @ + 1], res)
  BY <1>0 DEF Results, SameLists
<1>4. SameLists([res EXCEPT !.deleted = @ + n], res)
  BY <1>0 DEF Results, SameLists
<1> QED BY <1>1, <1>2, <1>3, <1>4

LEMMA ListedGrows ==
  ASSUME TypeOK, NEW r \in RequestIds, NEW d, NEW res \in {result[r], Counted(r, d)}
  PROVE  /\ Grows(r, res) /\ Grows(r, Listed(r, d, res))
         /\ Versioned(r, d) => Oid(r) \in ToSet(Listed(r, d, res).vhidc)
                                          \union ToSet(Listed(r, d, res).vhidd)
         /\ Oid(r) \in Oids
<1>1. result[r] \in Results
  BY DEF TypeOK
<1>2. res \in Results /\ res.vhidc = result[r].vhidc /\ res.vhidd = result[r].vhidd
  <2>1. Deleted(r, d) \in Nat
    BY DEF Deleted
  <2>4. SameLists(Counted(r, d), result[r])
    <3>1. CASE d.op = "create"
      BY <1>1, <2>1, <3>1, ResultCounts DEF Counted
    <3>2. CASE d.op = "update"
      BY <1>1, <2>1, <3>2, ResultCounts DEF Counted
    <3>3. CASE d.op = "delete"
      BY <1>1, <2>1, <3>3, ResultCounts DEF Counted
    <3>4. CASE d.op \notin {"create", "update", "delete"}
      BY <1>1, <2>1, <3>4, ResultCounts DEF Counted
    <3> QED BY <3>1, <3>2, <3>3, <3>4
  <2>5. CASE res = result[r]
    BY <1>1, <2>5
  <2>6. CASE res = Counted(r, d)
    BY <2>4, <2>6 DEF SameLists
  <2> QED BY <2>5, <2>6
<1>3. Oid(r) \in Oids
  <2>1. result[r].vhidc \in Seq(Oids) /\ result[r].vhidd \in Seq(Oids)
    BY <1>1 DEF Results
  <2>2. Len(result[r].vhidc) + Len(result[r].vhidd) \in Nat
    BY <2>1, LenNat
  <2> QED BY <2>2 DEF Oid, Oids
<1>4. /\ res.vhidc \in Seq(Oids) /\ res.vhidd \in Seq(Oids)
      /\ Append(res.vhidc, Oid(r)) \in Seq(Oids) /\ Append(res.vhidd, Oid(r)) \in Seq(Oids)
      /\ ToSet(Append(res.vhidc, Oid(r))) = ToSet(res.vhidc) \union {Oid(r)}
      /\ ToSet(Append(res.vhidd, Oid(r))) = ToSet(res.vhidd) \union {Oid(r)}
  BY <1>2, <1>3, ToSetAppend DEF Results
<1>5. Grows(r, res)
  BY <1>2 DEF Grows, Listing
<1>6. CASE ~ Versioned(r, d)
  BY <1>3, <1>5, <1>6 DEF Listed
<1>7. CASE Versioned(r, d) /\ d.op = "delete"
  <2>1. Listed(r, d, res) = [res EXCEPT !.vhidd = Append(@, Oid(r))]
    BY <1>7 DEF Listed
  <2>2. /\ Listed(r, d, res) \in Results /\ Listed(r, d, res).vhidc = res.vhidc
        /\ Listed(r, d, res).vhidd = Append(res.vhidd, Oid(r))
    BY <1>2, <1>4, <2>1 DEF Results
  <2> QED BY <1>2, <1>3, <1>4, <1>5, <2>2 DEF Grows, Listing
<1>8. CASE Versioned(r, d) /\ d.op # "delete"
  <2>1. Listed(r, d, res) = [res EXCEPT !.vhidc = Append(@, Oid(r))]
    BY <1>8 DEF Listed
  <2>2. /\ Listed(r, d, res) \in Results /\ Listed(r, d, res).vhidd = res.vhidd
        /\ Listed(r, d, res).vhidc = Append(res.vhidc, Oid(r))
    BY <1>2, <1>4, <2>1 DEF Results
  <2> QED BY <1>2, <1>3, <1>4, <1>5, <2>2 DEF Grows, Listing
<1> QED BY <1>6, <1>7, <1>8

-----------------------------------------------------------------------------
(***************************************************************************)
(* An item that goes well                                                  *)
(***************************************************************************)
LEMMA ProcessEffect ==
  ASSUME Inv, NEW r \in RequestIds, Process(r)
  PROVE  LET d == Current(r)
             s == session[r]
             t == session'[r]
             v == Version(Oid(r), d.op, d.id, Entity(r, d))
         IN  /\ SessionOK' /\ \A o \in RequestIds : o # r => session'[o] = session[o]
             /\ t.stale = s.stale
             /\ t.wrote = IF Writes(r, d) THEN s.wrote \union {d.id} ELSE s.wrote
             /\ t.view = Stored(r, d)
             /\ ToSet(t.versions) = IF Versioned(r, d) THEN ToSet(s.versions) \union {v}
                                                       ELSE ToSet(s.versions)
             /\ Versioned(r, d) => v \in Versions
<1> DEFINE d == Current(r)
           s == session[r]
           v == Version(Oid(r), d.op, d.id, Entity(r, d))
           S == [view : [Ids -> Values \union {None}], wrote : SUBSET Ids,
                 stale : SUBSET Ids, versions : Seq(Versions)]
           new == [view     |-> Stored(r, d),
                   wrote    |-> IF Writes(r, d) THEN s.wrote \union {d.id} ELSE s.wrote,
                   stale    |-> s.stale,
                   versions |-> IF Versioned(r, d) THEN Append(s.versions, v) ELSE s.versions]
<1>1. session' = [session EXCEPT ![r] = new] /\ ~ Refused(d) /\ HasItem(r)
  BY DEF Process
<1>2. s \in S /\ session \in [RequestIds -> S]
  BY DEF Inv, SessionOK
<1>3. d \in Items /\ d.id \in Ids /\ (d.op \in {"create", "update"} => d.value \in Values)
  BY <1>1, ItemFacts DEF Items
<1>4. Stored(r, d) \in [Ids -> Values \union {None}]
  BY <1>2, <1>3 DEF Stored, Writes
<1>5. Versioned(r, d) => v \in Versions
  <2> SUFFICES ASSUME Versioned(r, d) PROVE v \in Versions
    OBVIOUS
  <2>1. Oid(r) \in Oids /\ Oid(r)[1] = r
    BY ListedGrows DEF Inv, Oid
  <2>2. Entity(r, d) \in Values
    BY <1>2, <1>3 DEF Versioned, Entity, Matches
  <2>3. d.op \in Writing
    BY DEF Versioned, Writing
  <2> QED BY <1>3, <2>1, <2>2, <2>3 DEF Version, Versions, Writing
<1>6. /\ Versioned(r, d) => /\ Append(s.versions, v) \in Seq(Versions)
                           /\ ToSet(Append(s.versions, v)) = ToSet(s.versions) \union {v}
  BY <1>2, <1>5, ToSetAppend
<1> HIDE DEF d, v
<1>7. new \in S
  BY <1>2, <1>3, <1>4, <1>6
<1>8. session'[r] = new /\ session' \in [RequestIds -> S]
      /\ \A o \in RequestIds : o # r => session'[o] = session[o]
  BY <1>1, <1>2, <1>7
<1>9. SessionOK'
  BY <1>8 DEF SessionOK
<1>10. /\ new.stale = s.stale
       /\ new.wrote = IF Writes(r, d) THEN s.wrote \union {d.id} ELSE s.wrote
       /\ new.view = Stored(r, d)
       /\ new.versions = IF Versioned(r, d) THEN Append(s.versions, v) ELSE s.versions
  OBVIOUS
<1> HIDE DEF new
<1>11. /\ session'[r].stale = s.stale
       /\ session'[r].wrote = IF Writes(r, d) THEN s.wrote \union {d.id} ELSE s.wrote
       /\ session'[r].view = Stored(r, d)
  BY <1>8, <1>10
<1>12. ToSet(session'[r].versions) = IF Versioned(r, d) THEN ToSet(s.versions) \union {v}
                                                        ELSE ToSet(s.versions)
  BY <1>6, <1>8, <1>10
<1> QED BY <1>5, <1>8, <1>9, <1>11, <1>12 DEF d, v

LEMMA ProcessSessions ==
  ASSUME Inv, NEW r \in RequestIds, Process(r)
  PROVE  Sessions' /\ SessionOK'
<1> DEFINE d == Current(r)
           s == session[r]
           t == session'[r]
           v == Version(Oid(r), d.op, d.id, Entity(r, d))
<1>1. /\ HasItem(r) /\ ~ Conflicts(r, d) /\ ~ Refused(d) /\ d.op \notin {"invalid", "malformed"}
      /\ UNCHANGED <<store, history, request, at, committed>>
      /\ item' = [item EXCEPT ![r] = @ + 1]
      /\ result' = [result EXCEPT ![r] = Listed(r, d, Counted(r, d))]
  BY DEF Process
<1>2. /\ SessionOK' /\ \A o \in RequestIds : o # r => session'[o] = session[o]
      /\ t.stale = s.stale
      /\ t.wrote = IF Writes(r, d) THEN s.wrote \union {d.id} ELSE s.wrote
      /\ t.view = Stored(r, d)
      /\ ToSet(t.versions) = IF Versioned(r, d) THEN ToSet(s.versions) \union {v}
                                                ELSE ToSet(s.versions)
  BY ProcessEffect
<1>3. /\ request[r].items # None /\ item[r] \in 1 .. Len(request[r].items)
      /\ Len(request[r].items) \in Nat
      /\ d.op \in Writing /\ d.skip => d.id \in Skipped
      /\ d.op \in {"create", "update"} => d.value # None
      /\ d.id \in Ids /\ r \in Uncommitted /\ d \in Items
      /\ request[r].items[item[r]] = d
  BY <1>1, ItemFacts, LenProperties DEF Current
<1>4. Open' = Open /\ Uncommitted' = Uncommitted /\ Skipped' = Skipped /\ Steps(r)' = Steps(r)
      /\ Uncommitted \subseteq Open /\ Open \subseteq RequestIds
  BY <1>1, SkippedKept DEF Open, Uncommitted, Steps
<1>5. /\ s.view \in [Ids -> Values \union {None}]
      /\ Writes(r, d) => t.view = [s.view EXCEPT ![d.id] = IF d.op = "delete" THEN None ELSE d.value]
      /\ ~ Writes(r, d) => t.view = s.view
  BY <1>2 DEF Inv, SessionOK, Stored
<1>6. /\ v.by = r /\ v.oid = Oid(r) /\ v.action = d.op /\ v.id = d.id /\ v.value = Entity(r, d)
  BY DEF Version, Oid
<1>7. /\ Writes(r, d) => d.op \in Writing
      /\ Writes(r, d) /\ d.id \notin Skipped => Versioned(r, d)
      /\ Versioned(r, d) /\ d.op = "delete" => Writes(r, d)
      /\ Versioned(r, d) => ~ d.skip
      /\ d.op \in Writing /\ d.op # "delete" /\ ~ d.skip => Versioned(r, d)
  BY <1>3 DEF Writes, Versioned, Writing
<1>8. Writes(r, d) => /\ d.id \notin s.stale
                      /\ \A o \in Open : o # r => d.id \notin session[o].wrote
  BY <1>1 DEF Conflicts
<1>9. /\ d.op = "delete" => Entity(r, d) = s.view[d.id]
      /\ d.op # "delete" => Entity(r, d) = d.value
  BY DEF Entity
<1>10. item'[r] = item[r] + 1 /\ \A o \in RequestIds : o # r => item'[o] = item[o]
  BY <1>1 DEF Inv, TypeOK
<1> HIDE DEF d, s, t, v
<1>11. Phases'
  BY <1>1, <1>3, <1>4, <1>10 DEF Inv, Sessions, Phases, HasItem
<1>12. Isolated'
  <2> SUFFICES ASSUME NEW p \in Open, NEW o \in Open, p # o
               PROVE  session'[p].wrote \cap session'[o].wrote = {}
    BY <1>4 DEF Isolated
  <2>1. session[p].wrote \cap session[o].wrote = {}
    BY DEF Inv, Sessions, Isolated
  <2>2. p # r => session'[p] = session[p]
    BY <1>2, <1>4
  <2>3. o # r => session'[o] = session[o]
    BY <1>2, <1>4
  <2> QED BY <1>2, <1>8, <2>1, <2>2, <2>3 DEF s, t
<1>13. Snapshots'
  <2> SUFFICES ASSUME NEW o \in Uncommitted, NEW i \in Ids,
                      i \notin session'[o].wrote \union session'[o].stale
               PROVE  session'[o].view[i] = store[i]
    BY <1>1, <1>4 DEF Snapshots
  <2>1. CASE o # r
    BY <1>2, <1>4, <2>1 DEF Inv, Sessions, Snapshots
  <2>2. CASE o = r
    <3>1. i \notin s.wrote \union s.stale /\ t.view[i] = s.view[i]
      BY <1>2, <1>3, <1>5, <2>2 DEF t
    <3> QED BY <2>2, <3>1 DEF Inv, Sessions, Snapshots, s, t
  <2> QED BY <2>1, <2>2
<1>14. Owned'
  <2>1. ASSUME NEW o \in RequestIds, NEW w \in ToSet(session'[o].versions)
        PROVE  w.by = o /\ (w.action = "delete" => w.id \in session'[o].wrote)
    <3>1. CASE o # r
      BY <1>2, <2>1, <3>1 DEF Inv, Sessions, Owned
    <3>2. CASE o = r
      BY <1>2, <1>6, <1>7, <2>1, <3>2 DEF Inv, Sessions, Owned, s, t
    <3> QED BY <3>1, <3>2
  <2>2. \A w \in history : w.by = None \/ w.by \in committed
    BY DEF Inv, Sessions, Owned
  <2> QED BY <1>1, <2>1, <2>2 DEF Owned
<1>15. Explained'
  <2> SUFFICES ASSUME NEW o \in Uncommitted, NEW i \in session'[o].wrote \ Skipped
               PROVE  \E w \in ToSet(session'[o].versions) :
                        Abstract!Explains(w, i, session'[o].view[i])
    BY <1>4 DEF Explained, Abstract!Explains
  <2>1. CASE o # r
    BY <1>2, <1>4, <2>1 DEF Inv, Sessions, Explained
  <2>2. CASE o = r /\ Writes(r, d) /\ i = d.id
    <3>1. v \in ToSet(t.versions)
      BY <1>2, <1>7, <2>2
    <3>2. t.view[i] = IF d.op = "delete" THEN None ELSE d.value
      BY <1>3, <1>5, <2>2
    <3>3. Abstract!Explains(v, i, t.view[i])
      BY <1>3, <1>6, <1>7, <1>9, <2>2, <3>2 DEF Abstract!Explains, Writing
    <3> QED BY <2>2, <3>1, <3>3 DEF t
  <2>3. CASE o = r /\ ~ (Writes(r, d) /\ i = d.id)
    <3>1. i \in s.wrote \ Skipped /\ i \in Ids
      BY <1>2, <2>3 DEF t, s, Inv, SessionOK
    <3>2. t.view[i] = s.view[i]
      BY <1>3, <1>5, <2>3, <3>1
    <3>3. PICK w \in ToSet(s.versions) : Abstract!Explains(w, i, s.view[i])
      BY <1>3, <3>1 DEF Inv, Sessions, Explained, s
    <3> QED BY <1>2, <2>3, <3>2, <3>3 DEF t
  <2> QED BY <2>1, <2>2, <2>3
<1>16. DeletesStored'
  <2> SUFFICES ASSUME NEW o \in Uncommitted, NEW u \in ToSet(session'[o].versions),
                      u.action = "delete", u.id \notin Skipped
               PROVE  \/ u.value = store[u.id]
                      \/ \E w \in ToSet(session'[o].versions) : Abstract!Explains(w, u.id, u.value)
    BY <1>1, <1>4 DEF DeletesStored, Abstract!Explains
  <2>1. CASE o # r
    BY <1>2, <1>4, <2>1 DEF Inv, Sessions, DeletesStored
  <2>2. CASE o = r /\ u \in ToSet(s.versions)
    BY <1>2, <1>3, <2>2 DEF Inv, Sessions, DeletesStored, s, t
  <2>3. CASE o = r /\ u = v /\ Versioned(r, d)
    <3>1. u.id = d.id /\ u.value = s.view[d.id] /\ Writes(r, d)
      BY <1>6, <1>7, <1>9, <2>3
    <3>2. CASE d.id \in s.wrote
      <4>1. PICK w \in ToSet(s.versions) : Abstract!Explains(w, d.id, s.view[d.id])
        BY <1>3, <3>1, <3>2 DEF Inv, Sessions, Explained, s
      <4> QED BY <1>2, <2>3, <3>1, <4>1 DEF t
    <3>3. CASE d.id \notin s.wrote
      BY <1>3, <1>8, <3>1, <3>3 DEF Inv, Sessions, Snapshots, s
    <3> QED BY <3>2, <3>3
  <2> QED BY <1>2, <2>1, <2>2, <2>3 DEF t
<1>17. Passed'
  <2> SUFFICES ASSUME NEW o \in Uncommitted, NEW k \in 1 .. item'[o] - 1
               PROVE  /\ ~ Throws(request[o].items[k])
                      /\ k \in Steps(o) =>
                           /\ ~ Refused(request[o].items[k])
                           /\ request[o].items[k].op # "delete" /\ ~ request[o].items[k].skip
                                => \E w \in ToSet(session'[o].versions) :
                                     /\ w.action = request[o].items[k].op
                                     /\ w.id = request[o].items[k].id
    BY <1>1, <1>4 DEF Passed, Steps
  <2>1. CASE o # r
    BY <1>2, <1>4, <1>10, <2>1 DEF Inv, Sessions, Passed
  <2>2. CASE o = r /\ k = item[r]
    BY <1>1, <1>2, <1>3, <1>6, <1>7, <2>2 DEF Throws, Steps, Writing, t
  <2>3. CASE o = r /\ k # item[r]
    <3>1. k \in 1 .. item[r] - 1
      BY <1>3, <1>10, <2>3
    <3>2. ToSet(s.versions) \subseteq ToSet(t.versions)
      BY <1>2
    <3> QED BY <1>3, <2>3, <3>1, <3>2 DEF Inv, Sessions, Passed, s, t
  <2> QED BY <2>1, <2>2, <2>3
<1>18. Listings'
  <2>1. /\ Grows(r, Listed(r, d, Counted(r, d)))
        /\ Versioned(r, d) => Oid(r) \in ToSet(Listed(r, d, Counted(r, d)).vhidc)
                                         \union ToSet(Listed(r, d, Counted(r, d)).vhidd)
    BY ListedGrows DEF Inv
  <2>2. /\ Listing(r) \subseteq Listing(r)' /\ \A o \in RequestIds : o # r => Listing(o)' = Listing(o)
        /\ Versioned(r, d) => Oid(r) \in Listing(r)'
    BY <1>1, <2>1 DEF Grows, Listing, Inv, TypeOK
  <2>3. ASSUME NEW o \in RequestIds, NEW w \in ToSet(session'[o].versions)
        PROVE  w.oid \in Listing(o)'
    <3>1. CASE o # r
      BY <1>2, <2>2, <2>3, <3>1 DEF Inv, Sessions, Listings
    <3>2. CASE o = r
      BY <1>2, <1>6, <2>2, <2>3, <3>2 DEF Inv, Sessions, Listings, s, t
    <3> QED BY <3>1, <3>2
  <2>4. ASSUME NEW w \in history, w.by # None PROVE w.oid \in Listing(w.by)'
    <3>1. w.by \in RequestIds /\ w.oid \in Listing(w.by)
      BY <2>4 DEF Inv, TypeOK, Versions, Sessions, Listings
    <3> QED BY <2>2, <3>1
  <2> QED BY <1>1, <2>3, <2>4 DEF Listings
<1> QED BY <1>2, <1>11, <1>12, <1>13, <1>14, <1>15, <1>16, <1>17, <1>18 DEF Sessions

-----------------------------------------------------------------------------
(***************************************************************************)
(* Steps that commit nothing                                               *)
(***************************************************************************)
LEMMA FreshOK ==
  ASSUME Inv
  PROVE  /\ Snapshot(store) \in [view : [Ids -> Values \union {None}], wrote : SUBSET Ids,
                                 stale : SUBSET Ids, versions : Seq(Versions)]
         /\ Snapshot(store).view = store /\ Snapshot(store).wrote = {}
         /\ ToSet(Snapshot(store).versions) = {}
<1>1. store \in [Ids -> Values \union {None}]
  BY DEF Inv, TypeOK
<1>2. <<>> \in Seq(Versions) /\ ToSet(<<>>) = {}
  BY DEF ToSet
<1> QED BY <1>1, <1>2 DEF Snapshot

\* Sessions that stay or start afresh, where none that is closed comes back.
LEMMA QuietSessions ==
  ASSUME Inv, UNCHANGED <<store, history, request, committed>>, Phases', Passed',
         \A o \in RequestIds : /\ Listing(o) \subseteq Listing(o)'
                               /\ \/ session'[o] = session[o] /\ (o \in Open' => o \in Open)
                                  \/ session'[o] = Snapshot(store)
  PROVE  Sessions'
<1>1. /\ Skipped' = Skipped /\ Open' \subseteq RequestIds /\ Uncommitted' = Open' \ committed
      /\ Open \subseteq RequestIds
  BY SkippedKept DEF Open, Uncommitted
<1>2. /\ Snapshot(store).view = store /\ Snapshot(store).wrote = {}
      /\ ToSet(Snapshot(store).versions) = {}
  BY FreshOK
<1>3. ASSUME NEW o \in Open'
      PROVE  \/ session'[o] = session[o] /\ o \in Open
             \/ session'[o] = Snapshot(store)
  BY <1>1, <1>3
<1>4. Isolated'
  BY <1>2, <1>3 DEF Inv, Sessions, Isolated
<1>5. Snapshots'
  <2> SUFFICES ASSUME NEW o \in Open', o \notin committed, NEW i \in Ids,
                      i \notin session'[o].wrote \union session'[o].stale
               PROVE  session'[o].view[i] = store[i]
    BY <1>1 DEF Snapshots
  <2> QED BY <1>2, <1>3 DEF Inv, Sessions, Snapshots, Uncommitted
<1>6. Owned'
  <2>1. ASSUME NEW o \in RequestIds, NEW w \in ToSet(session'[o].versions)
        PROVE  w.by = o /\ (w.action = "delete" => w.id \in session'[o].wrote)
    BY <1>2, <2>1 DEF Inv, Sessions, Owned
  <2> QED BY <2>1 DEF Inv, Sessions, Owned
<1>7. Explained'
  <2> SUFFICES ASSUME NEW o \in Open', o \notin committed, NEW i \in session'[o].wrote \ Skipped
               PROVE  \E w \in ToSet(session'[o].versions) :
                        Abstract!Explains(w, i, session'[o].view[i])
    BY <1>1 DEF Explained, Abstract!Explains
  <2>1. session'[o] = session[o] /\ o \in Uncommitted
    BY <1>2, <1>3 DEF Uncommitted
  <2> QED BY <2>1 DEF Inv, Sessions, Explained
<1>8. DeletesStored'
  <2> SUFFICES ASSUME NEW o \in Open', o \notin committed, NEW u \in ToSet(session'[o].versions),
                      u.action = "delete", u.id \notin Skipped
               PROVE  \/ u.value = store[u.id]
                      \/ \E w \in ToSet(session'[o].versions) : Abstract!Explains(w, u.id, u.value)
    BY <1>1 DEF DeletesStored, Abstract!Explains
  <2>1. session'[o] = session[o] /\ o \in Uncommitted
    BY <1>2, <1>3 DEF Uncommitted
  <2> QED BY <2>1 DEF Inv, Sessions, DeletesStored
<1>9. Listings'
  <2>1. ASSUME NEW o \in RequestIds, NEW w \in ToSet(session'[o].versions)
        PROVE  w.oid \in Listing(o)'
    BY <1>2, <2>1 DEF Inv, Sessions, Listings
  <2>2. ASSUME NEW w \in history, w.by # None PROVE w.oid \in Listing(w.by)'
    <3>1. w.by \in RequestIds /\ w.oid \in Listing(w.by)
      BY <2>2 DEF Inv, TypeOK, Versions, Sessions, Listings
    <3> QED BY <3>1
  <2> QED BY <2>1, <2>2 DEF Listings
<1> QED BY <1>4, <1>5, <1>6, <1>7, <1>8, <1>9 DEF Sessions

\* Requests that are where they were, or closed, with their items and sessions;
\* their results may have grown.
LEMMA GrowingSessions ==
  ASSUME Inv, UNCHANGED <<store, history, request, committed, item, session>>,
         \A o \in RequestIds : at'[o] = at[o] \/ at'[o] = "done",
         \A o \in RequestIds : Listing(o) \subseteq Listing(o)'
  PROVE  Sessions' /\ SessionOK'
<1>1. \A o \in RequestIds : o \in Open' => o \in Open
  BY DEF Open
<1>2. Phases'
  BY <1>1 DEF Inv, Sessions, Phases
<1>3. Passed'
  <2>1. \A o \in Uncommitted' : o \in Uncommitted
    BY <1>1 DEF Uncommitted, Open
  <2> QED BY <2>1 DEF Inv, Sessions, Passed, Steps
<1>4. SessionOK'
  BY DEF Inv, SessionOK
<1> QED BY <1>1, <1>2, <1>3, <1>4, QuietSessions

LEMMA ClosingSessions ==
  ASSUME Inv, UNCHANGED <<store, history, request, committed, item, session, result>>,
         \A o \in RequestIds : at'[o] = at[o] \/ at'[o] = "done"
  PROVE  Sessions' /\ SessionOK'
<1>1. \A o \in RequestIds : Listing(o)' = Listing(o)
  BY DEF Listing
<1> QED BY <1>1, GrowingSessions

\* A request that starts (again) from its first item.
LEMMA FreshSessions ==
  ASSUME Inv, UNCHANGED <<store, history, request, committed>>, NEW r \in RequestIds,
         r \notin committed, request[r].items # None,
         at' = [at EXCEPT ![r] = "items"], session' = [session EXCEPT ![r] = Snapshot(store)],
         item'[r] = 1, \A o \in RequestIds : o # r => item'[o] = item[o],
         \A o \in RequestIds : Listing(o) \subseteq Listing(o)'
  PROVE  Sessions' /\ SessionOK'
<1>1. SessionOK'
  BY FreshOK DEF Inv, SessionOK
<1>2. /\ \A o \in RequestIds : o # r => session'[o] = session[o] /\ at'[o] = at[o]
      /\ session'[r] = Snapshot(store) /\ at'[r] = "items"
  BY DEF Inv, TypeOK, SessionOK
<1>3. \A o \in RequestIds : o # r => (o \in Open' <=> o \in Open)
  BY <1>2 DEF Open
<1>4. Phases'
  <2> SUFFICES ASSUME NEW o \in RequestIds
               PROVE  /\ o \in Open' => /\ request[o].items # None
                                        /\ item'[o] \in 1 .. Len(request[o].items) + 1
                      /\ at'[o] = "queued" => item'[o] = 1
                      /\ at'[o] = "commit" => item'[o] = Len(request[o].items) + 1
                      /\ at'[o] \in {"queued", "items"} => o \notin committed
    BY DEF Phases
  <2>1. CASE o # r
    BY <1>2, <1>3, <2>1 DEF Inv, Sessions, Phases
  <2>2. CASE o = r
    <3>1. request[r].items \in Seq(Items)
      BY TransactionAssumption DEF Inv, TypeOK
    <3>2. Len(request[r].items) \in Nat
      BY <3>1, LenProperties
    <3> QED BY <1>2, <2>2, <3>2
  <2> QED BY <2>1, <2>2
<1>5. Passed'
  <2> SUFFICES ASSUME NEW o \in Uncommitted', NEW k \in 1 .. item'[o] - 1
               PROVE  /\ ~ Throws(request[o].items[k])
                      /\ k \in Steps(o) =>
                           /\ ~ Refused(request[o].items[k])
                           /\ request[o].items[k].op # "delete" /\ ~ request[o].items[k].skip
                                => \E w \in ToSet(session'[o].versions) :
                                     /\ w.action = request[o].items[k].op
                                     /\ w.id = request[o].items[k].id
    BY DEF Passed, Steps
  <2>1. o # r /\ o \in Uncommitted
    BY <1>3 DEF Uncommitted, Open
  <2>2. session'[o] = session[o] /\ item'[o] = item[o]
    BY <1>2, <2>1 DEF Uncommitted, Open
  <2> QED BY <2>1, <2>2 DEF Inv, Sessions, Passed
<1> QED BY <1>1, <1>2, <1>3, <1>4, <1>5, QuietSessions

\* A request that passes an item that is invalid, or turns to its commit.
LEMMA AdvanceSessions ==
  ASSUME Inv, NEW r \in RequestIds, SkipInvalid(r) \/ CallbackReturns(r)
  PROVE  Sessions' /\ SessionOK'
<1>1. /\ UNCHANGED <<store, history, request, session, result, committed>>
      /\ at[r] = "items" /\ at' \in {at, [at EXCEPT ![r] = "commit"]}
      /\ item' \in {item, [item EXCEPT ![r] = @ + 1]}
  BY DEF SkipInvalid, CallbackReturns, HasItem
<1>2. SessionOK' /\ \A o \in RequestIds : Listing(o)' = Listing(o)
  BY <1>1 DEF Inv, SessionOK, Listing
<1>3. /\ \A o \in RequestIds : o # r => at'[o] = at[o] /\ item'[o] = item[o]
      /\ r \in Open /\ at'[r] \in {"items", "commit"}
  BY <1>1 DEF Inv, TypeOK, Open
<1>4. Open' = Open /\ Uncommitted' = Uncommitted
  BY <1>1, <1>3 DEF Open, Uncommitted
<1>5. \/ /\ item'[r] = item[r] + 1 /\ at'[r] = "items" /\ HasItem(r)
         /\ request[r].items[item[r]].op = "invalid"
      \/ item'[r] = item[r] /\ at'[r] = "commit" /\ ~ HasItem(r)
  BY DEF SkipInvalid, CallbackReturns, Inv, TypeOK, HasItem, Current
<1>6. /\ request[r].items # None /\ item[r] \in 1 .. Len(request[r].items) + 1
      /\ Len(request[r].items) \in Nat /\ r \notin committed
  <2>1. request[r].items # None /\ item[r] \in 1 .. Len(request[r].items) + 1
        /\ r \notin committed
    BY <1>1, <1>3 DEF Inv, Sessions, Phases
  <2>2. request[r].items \in Seq(Items)
    BY <2>1, TransactionAssumption DEF Inv, TypeOK
  <2> QED BY <2>1, <2>2, LenProperties
<1>7. Phases'
  <2> SUFFICES ASSUME NEW o \in RequestIds
               PROVE  /\ o \in Open => /\ request[o].items # None
                                       /\ item'[o] \in 1 .. Len(request[o].items) + 1
                      /\ at'[o] = "queued" => item'[o] = 1
                      /\ at'[o] = "commit" => item'[o] = Len(request[o].items) + 1
                      /\ at'[o] \in {"queued", "items"} => o \notin committed
    BY <1>1, <1>4 DEF Phases
  <2>1. CASE o # r
    BY <1>3, <2>1 DEF Inv, Sessions, Phases
  <2>2. CASE o = r
    BY <1>1, <1>5, <1>6, <2>2 DEF HasItem
  <2> QED BY <2>1, <2>2
<1>8. Passed'
  <2> SUFFICES ASSUME NEW o \in Uncommitted, NEW k \in 1 .. item'[o] - 1
               PROVE  /\ ~ Throws(request[o].items[k])
                      /\ k \in Steps(o) =>
                           /\ ~ Refused(request[o].items[k])
                           /\ request[o].items[k].op # "delete" /\ ~ request[o].items[k].skip
                                => \E w \in ToSet(session[o].versions) :
                                     /\ w.action = request[o].items[k].op
                                     /\ w.id = request[o].items[k].id
    BY <1>1, <1>4 DEF Passed, Steps
  <2>1. CASE k \in 1 .. item[o] - 1
    BY <2>1 DEF Inv, Sessions, Passed
  <2>2. CASE k \notin 1 .. item[o] - 1
    <3>1. o = r /\ k = item[r] /\ request[r].items[k].op = "invalid"
      BY <1>3, <1>5, <1>6, <2>2 DEF Uncommitted, Open
    <3> QED BY <3>1 DEF Throws, Steps
  <2> QED BY <2>1, <2>2
<1> QED BY <1>1, <1>2, <1>4, <1>7, <1>8, QuietSessions

-----------------------------------------------------------------------------
(***************************************************************************)
(* The commit                                                              *)
(***************************************************************************)
LEMMA ApplyEffect ==
  ASSUME Inv, NEW r \in RequestIds, at[r] = "commit", r \notin committed, Apply(r)
  PROVE  /\ store' = [i \in Ids |-> IF i \in session[r].wrote THEN session[r].view[i]
                                                              ELSE store[i]]
         /\ history' = history \union ToSet(session[r].versions)
         /\ history' \ history = ToSet(session[r].versions)
         /\ committed' = committed \union {r} /\ r \in Uncommitted
         /\ SessionOK'
         /\ \A o \in RequestIds : /\ session'[o].view = session[o].view
                                  /\ session'[o].wrote = session[o].wrote
                                  /\ session'[o].versions = session[o].versions
         /\ \A o \in Open \ {r} : session'[o].stale = session[o].stale \union session[r].wrote
<1> DEFINE S == [view : [Ids -> Values \union {None}], wrote : SUBSET Ids,
                 stale : SUBSET Ids, versions : Seq(Versions)]
           new(o) == [session[o] EXCEPT !.stale = @ \union session[r].wrote]
<1>1. /\ store' = [i \in Ids |-> IF i \in session[r].wrote THEN session[r].view[i] ELSE store[i]]
      /\ history' = history \union ToSet(session[r].versions)
      /\ committed' = committed \union {r}
      /\ session' = [o \in RequestIds |-> IF o \in Open \ {r} THEN new(o) ELSE session[o]]
  BY DEF Apply
<1>2. r \in Uncommitted /\ Open \subseteq RequestIds
  BY DEF Uncommitted, Open
<1>3. session \in [RequestIds -> S]
  BY DEF Inv, SessionOK
<1>4. ASSUME NEW o \in RequestIds
      PROVE  /\ new(o) \in S /\ new(o).view = session[o].view /\ new(o).wrote = session[o].wrote
             /\ new(o).versions = session[o].versions
             /\ new(o).stale = session[o].stale \union session[r].wrote
  <2>1. session[o] \in S /\ session[r] \in S
    BY <1>3
  <2> QED BY <2>1
<1> HIDE DEF S, new
<1>5. ASSUME NEW o \in RequestIds
      PROVE  /\ session'[o] = IF o \in Open \ {r} THEN new(o) ELSE session[o]
             /\ session'[o] \in S
  BY <1>1, <1>3, <1>4
<1>6. SessionOK'
  <2>1. session' \in [RequestIds -> S]
    BY <1>1, <1>5
  <2> QED BY <2>1 DEF SessionOK, S
<1>7. history' \ history = ToSet(session[r].versions)
  <2>1. \A v \in ToSet(session[r].versions) : v.by = r
    BY DEF Inv, Sessions, Owned
  <2>2. \A v \in history : v.by = None \/ v.by \in committed
    BY DEF Inv, Sessions, Owned
  <2>3. r # None
    BY TransactionAssumption
  <2> QED BY <1>1, <2>1, <2>2, <2>3
<1> QED BY <1>1, <1>2, <1>4, <1>5, <1>6, <1>7

LEMMA ApplySessions ==
  ASSUME Inv, NEW r \in RequestIds, at[r] = "commit", r \notin committed, Apply(r),
         UNCHANGED <<request, item, result>>,
         \A o \in RequestIds : at'[o] = at[o] \/ (o = r /\ at'[o] = "done")
  PROVE  Sessions' /\ SessionOK'
<1>1. /\ store' = [i \in Ids |-> IF i \in session[r].wrote THEN session[r].view[i] ELSE store[i]]
      /\ history' = history \union ToSet(session[r].versions)
      /\ committed' = committed \union {r} /\ r \in Uncommitted
      /\ SessionOK'
      /\ \A o \in RequestIds : /\ session'[o].view = session[o].view
                               /\ session'[o].wrote = session[o].wrote
                               /\ session'[o].versions = session[o].versions
      /\ \A o \in Open \ {r} : session'[o].stale = session[o].stale \union session[r].wrote
  BY ApplyEffect
<1>2. /\ Skipped' = Skipped /\ Open \subseteq RequestIds /\ Open' \subseteq Open
      /\ Uncommitted' \subseteq Uncommitted \ {r} /\ Uncommitted \subseteq Open
  BY <1>1, SkippedKept DEF Open, Uncommitted
<1>3. Phases'
  BY <1>1, <1>2 DEF Inv, Sessions, Phases
<1>4. Isolated'
  BY <1>1, <1>2 DEF Inv, Sessions, Isolated
<1>5. Snapshots'
  <2> SUFFICES ASSUME NEW o \in Uncommitted', NEW i \in Ids,
                      i \notin session'[o].wrote \union session'[o].stale
               PROVE  session'[o].view[i] = store'[i]
    BY DEF Snapshots
  <2>1. o \in Open \ {r} /\ o \in Uncommitted /\ o \in RequestIds
    BY <1>2
  <2>2. i \notin session[o].wrote /\ i \notin session[o].stale /\ i \notin session[r].wrote
    BY <1>1, <2>1
  <2>3. store'[i] = store[i] /\ session'[o].view = session[o].view
    BY <1>1, <2>1, <2>2
  <2> QED BY <2>1, <2>2, <2>3 DEF Inv, Sessions, Snapshots
<1>6. Owned'
  <2>1. ASSUME NEW o \in RequestIds, NEW w \in ToSet(session'[o].versions)
        PROVE  w.by = o /\ (w.action = "delete" => w.id \in session'[o].wrote)
    BY <1>1, <2>1 DEF Inv, Sessions, Owned
  <2>2. \A w \in ToSet(session[r].versions) : w.by = r
    BY DEF Inv, Sessions, Owned
  <2>3. \A w \in history : w.by = None \/ w.by \in committed
    BY DEF Inv, Sessions, Owned
  <2> QED BY <1>1, <2>1, <2>2, <2>3 DEF Owned
<1>7. Explained'
  <2> SUFFICES ASSUME NEW o \in Uncommitted', NEW i \in session'[o].wrote \ Skipped
               PROVE  \E w \in ToSet(session'[o].versions) :
                        Abstract!Explains(w, i, session'[o].view[i])
    BY <1>2 DEF Explained, Abstract!Explains
  <2>1. o \in Uncommitted /\ i \in session[o].wrote \ Skipped
    BY <1>1, <1>2
  <2>2. PICK w \in ToSet(session[o].versions) : Abstract!Explains(w, i, session[o].view[i])
    BY <2>1 DEF Inv, Sessions, Explained
  <2> QED BY <1>1, <1>2, <2>1, <2>2
<1>8. DeletesStored'
  <2> SUFFICES ASSUME NEW o \in Uncommitted', NEW u \in ToSet(session'[o].versions),
                      u.action = "delete", u.id \notin Skipped
               PROVE  \/ u.value = store'[u.id]
                      \/ \E w \in ToSet(session'[o].versions) : Abstract!Explains(w, u.id, u.value)
    BY <1>2 DEF DeletesStored, Abstract!Explains
  <2>1. /\ o \in Uncommitted /\ o # r /\ o \in Open /\ r \in Open /\ o \in RequestIds
        /\ u \in ToSet(session[o].versions) /\ session'[o].versions = session[o].versions
    BY <1>1, <1>2
  <2>2. u.id \in session[o].wrote
    BY <2>1 DEF Inv, Sessions, Owned
  <2>3. u.id \notin session[r].wrote /\ u.id \in Ids
    BY <2>1, <2>2 DEF Inv, Sessions, Isolated, SessionOK
  <2>4. store'[u.id] = store[u.id]
    BY <1>1, <2>3
  <2> QED BY <2>1, <2>4 DEF Inv, Sessions, DeletesStored
<1>9. Passed'
  <2> SUFFICES ASSUME NEW o \in Uncommitted', NEW k \in 1 .. item[o] - 1
               PROVE  /\ ~ Throws(request[o].items[k])
                      /\ k \in Steps(o) =>
                           /\ ~ Refused(request[o].items[k])
                           /\ request[o].items[k].op # "delete" /\ ~ request[o].items[k].skip
                                => \E w \in ToSet(session'[o].versions) :
                                     /\ w.action = request[o].items[k].op
                                     /\ w.id = request[o].items[k].id
    BY DEF Passed, Steps
  <2>1. o \in Uncommitted /\ session'[o].versions = session[o].versions
    BY <1>1, <1>2
  <2> QED BY <2>1 DEF Inv, Sessions, Passed
<1>10. Listings'
  <2>1. \A o \in RequestIds : Listing(o)' = Listing(o)
    BY DEF Listing
  <2>2. ASSUME NEW o \in RequestIds, NEW w \in ToSet(session'[o].versions)
        PROVE  w.oid \in Listing(o)'
    BY <1>1, <2>1, <2>2 DEF Inv, Sessions, Listings
  <2>3. ASSUME NEW w \in history', w.by # None PROVE w.oid \in Listing(w.by)'
    <3>1. CASE w \in history
      <4>1. w.by \in RequestIds /\ w.oid \in Listing(w.by)
        BY <2>3, <3>1 DEF Inv, TypeOK, Versions, Sessions, Listings
      <4> QED BY <2>1, <4>1
    <3>2. CASE w \in ToSet(session[r].versions)
      <4>1. w.by = r /\ w.oid \in Listing(r)
        BY <3>2 DEF Inv, Sessions, Owned, Listings
      <4> QED BY <2>1, <4>1
    <3> QED BY <1>1, <2>3, <3>1, <3>2
  <2> QED BY <2>2, <2>3 DEF Listings
<1> QED BY <1>1, <1>3, <1>4, <1>5, <1>6, <1>7, <1>8, <1>9, <1>10 DEF Sessions

-----------------------------------------------------------------------------
(***************************************************************************)
(* Every step                                                              *)
(***************************************************************************)
LEMMA InvInit == Init => Inv
<1> SUFFICES ASSUME Init PROVE Inv
  OBVIOUS
<1>1. /\ store \in [Ids -> Values \union {None}]
      /\ session = [r \in RequestIds |-> Snapshot(store)]
      /\ Open = {} /\ Uncommitted = {} /\ committed = {}
  BY TransactionAssumption DEF Init, Open, Uncommitted
<1>2. ASSUME NEW v \in history
      PROVE  /\ v \in Versions /\ v.by = None /\ v.action = "create"
  <2>1. PICK i \in Ids : store[i] # None /\ v = Version(<<None, i>>, "create", i, store[i])
    BY DEF Init
  <2>2. <<None, i>> \in Oids /\ <<None, i>>[1] = None /\ store[i] \in Values
    BY <1>1, <2>1 DEF Oids
  <2> QED BY <2>1, <2>2 DEF Version, Versions
<1>3. NoResult \in Results
  BY DEF NoResult, Results
<1>4. TypeOK
  <2>1. history \subseteq Versions
    BY <1>2
  <2>2. result \in [RequestIds -> Results]
    BY <1>3 DEF Init
  <2>3. attempt \in [RequestIds -> 0 .. MaxAttempts] /\ item \in [RequestIds -> Nat]
    BY TransactionAssumption DEF Init
  <2>4. /\ at \in [RequestIds -> {"queued", "items", "commit", "done"}]
        /\ reply \in [RequestIds -> Replies \union {None}]
        /\ request \in [RequestIds -> Requests]
        /\ \A r \in RequestIds : reply[r] # None <=> at[r] = "done"
    BY DEF Init
  <2> QED BY <1>1, <2>1, <2>2, <2>3, <2>4 DEF TypeOK
<1>5. /\ Snapshot(store) \in [view : [Ids -> Values \union {None}], wrote : SUBSET Ids,
                              stale : SUBSET Ids, versions : Seq(Versions)]
      /\ ToSet(Snapshot(store).versions) = {}
  <2>1. <<>> \in Seq(Versions) /\ ToSet(<<>>) = {}
    BY DEF ToSet
  <2> QED BY <1>1, <2>1 DEF Snapshot
<1>6. SessionOK
  BY <1>1, <1>5 DEF SessionOK
<1>7. Phases /\ Isolated /\ Snapshots /\ Explained /\ DeletesStored /\ Passed
  BY <1>1 DEF Init, Phases, Isolated, Snapshots, Explained, DeletesStored, Passed
<1>8. Owned /\ Listings
  BY <1>1, <1>2, <1>5 DEF Owned, Listings
<1> QED BY <1>4, <1>6, <1>7, <1>8 DEF Inv, Sessions

\* The answers of a request that is done, and of no other.
LEMMA FinishType ==
  ASSUME TypeOK, NEW r \in RequestIds, NEW what \in Replies, Finish(r, what)
  PROVE  /\ at' \in [RequestIds -> {"queued", "items", "commit", "done"}]
         /\ reply' \in [RequestIds -> Replies \union {None}]
         /\ \A o \in RequestIds : reply'[o] # None <=> at'[o] = "done"
         /\ at'[r] = "done" /\ \A o \in RequestIds : o # r => at'[o] = at[o]
<1> DEFINE given == IF request[r].database THEN what ELSE "unexpected"
<1>1. given \in Replies /\ given # None
  BY TransactionAssumption DEF Replies
<1>2. /\ reply' = [reply EXCEPT ![r] = given] /\ at' = [at EXCEPT ![r] = "done"]
  BY DEF Finish, Answer
<1> HIDE DEF given
<1> QED BY <1>1, <1>2 DEF TypeOK

LEMMA RetryEffect ==
  ASSUME Inv, NEW r \in RequestIds, at[r] \in {"items", "commit"}, Retry(r)
  PROVE  /\ attempt' \in [RequestIds -> 0 .. MaxAttempts] /\ item' \in [RequestIds -> Nat]
         /\ at' \in [RequestIds -> {"queued", "items", "commit", "done"}]
         /\ reply' \in [RequestIds -> Replies \union {None}]
         /\ \A o \in RequestIds : reply'[o] # None <=> at'[o] = "done"
         /\ \/ /\ at' = [at EXCEPT ![r] = "items"] /\ item'[r] = 1
               /\ session' = [session EXCEPT ![r] = Snapshot(store)]
               /\ \A o \in RequestIds : o # r => item'[o] = item[o]
            \/ /\ UNCHANGED <<item, session>>
               /\ \A o \in RequestIds : at'[o] = at[o] \/ at'[o] = "done"
<1>1. CASE attempt[r] < MaxAttempts
  <2>1. /\ attempt' = [attempt EXCEPT ![r] = @ + 1] /\ item' = [item EXCEPT ![r] = 1]
        /\ session' = [session EXCEPT ![r] = Snapshot(store)]
        /\ at' = [at EXCEPT ![r] = "items"] /\ reply' = reply
    BY <1>1 DEF Retry
  <2>2. attempt[r] + 1 \in 0 .. MaxAttempts
    BY <1>1, TransactionAssumption DEF Inv, TypeOK
  <2> QED BY <2>1, <2>2 DEF Inv, TypeOK
<1>2. CASE ~ (attempt[r] < MaxAttempts)
  <2>1. Finish(r, "transactionError") /\ UNCHANGED <<attempt, item, session>>
    BY <1>2 DEF Retry
  <2> QED BY <2>1, FinishType DEF Inv, TypeOK, Replies
<1> QED BY <1>1, <1>2

\* A call of the callback that fails leaves more in the result, never less.
LEMMA RetriesGrow ==
  ASSUME Inv, NEW r \in RequestIds, CallbackRetries(r)
  PROVE  /\ result' \in [RequestIds -> Results]
         /\ \A o \in RequestIds : Listing(o) \subseteq Listing(o)'
<1> DEFINE d == Current(r)
<1>1. PICK res \in {result[r], Counted(r, d), Listed(r, d, result[r])} :
        result' = [result EXCEPT ![r] = res]
  BY DEF CallbackRetries
<1>2. Grows(r, res)
  BY <1>1, ListedGrows DEF Inv
<1> HIDE DEF d
<1> QED BY <1>1, <1>2 DEF Inv, TypeOK, Grows, Listing

LEMMA InvStep == Inv /\ [Next]_vars => Inv'
<1> SUFFICES ASSUME Inv, [Next]_vars PROVE Inv'
  OBVIOUS
<1>0. CASE UNCHANGED vars
  <2>1. TypeOK'
    BY <1>0 DEF vars, Inv, TypeOK
  <2> QED BY <1>0, <2>1, ClosingSessions DEF vars, Inv
<1>1. ASSUME NEW r \in RequestIds, Begin(r) PROVE Inv'
  <2>1. /\ UNCHANGED <<store, history, request, item, result, committed>> /\ at[r] = "queued"
    BY <1>1 DEF Begin
  <2>2. CASE UNCHANGED <<session, attempt>> /\ \E what \in Replies : Finish(r, what)
    <3>1. TypeOK'
      BY <2>1, <2>2, FinishType DEF Inv, TypeOK
    <3> QED BY <2>1, <2>2, <3>1, FinishType, ClosingSessions DEF Inv
  <2>3. CASE /\ request[r].items # None /\ UNCHANGED reply
             /\ at' = [at EXCEPT ![r] = "items"] /\ attempt' = [attempt EXCEPT ![r] = 1]
             /\ session' = [session EXCEPT ![r] = Snapshot(store)]
    <3>1. TypeOK'
      BY <2>1, <2>3, TransactionAssumption DEF Inv, TypeOK
    <3>2. r \notin committed
      BY <2>1 DEF Inv, Sessions, Phases
    <3>3. \A o \in RequestIds : Listing(o)' = Listing(o)
      BY <2>1 DEF Listing
    <3>4. item[r] = 1
      BY <2>1 DEF Inv, Sessions, Phases
    <3> QED BY <2>1, <2>3, <3>1, <3>2, <3>3, <3>4, FreshSessions DEF Inv
  <2> QED BY <1>1, <2>2, <2>3 DEF Begin, Replies
<1>2. ASSUME NEW r \in RequestIds, SkipInvalid(r) \/ CallbackReturns(r) PROVE Inv'
  <2>1. /\ UNCHANGED <<store, history, request, result, attempt, committed, reply>>
        /\ at[r] = "items" /\ at' \in {at, [at EXCEPT ![r] = "commit"]}
        /\ item' \in {item, [item EXCEPT ![r] = @ + 1]}
    BY <1>2 DEF SkipInvalid, CallbackReturns, HasItem
  <2>2. /\ at' \in [RequestIds -> {"queued", "items", "commit", "done"}]
        /\ item' \in [RequestIds -> Nat]
        /\ \A o \in RequestIds : at'[o] = "done" <=> at[o] = "done"
    BY <2>1 DEF Inv, TypeOK
  <2>3. TypeOK'
    BY <2>1, <2>2 DEF Inv, TypeOK
  <2> QED BY <1>2, <2>3, AdvanceSessions DEF Inv
<1>3. ASSUME NEW r \in RequestIds, Process(r) PROVE Inv'
  <2>1. /\ UNCHANGED <<store, history, request, at, attempt, committed, reply>>
        /\ item' = [item EXCEPT ![r] = @ + 1]
        /\ result' = [result EXCEPT ![r] = Listed(r, Current(r), Counted(r, Current(r)))]
    BY <1>3 DEF Process
  <2>2. Listed(r, Current(r), Counted(r, Current(r))) \in Results
    BY ListedGrows DEF Inv, Grows
  <2>3. TypeOK'
    BY <2>1, <2>2 DEF Inv, TypeOK
  <2> QED BY <1>3, <2>3, ProcessSessions DEF Inv
<1>4. ASSUME NEW r \in RequestIds, Refuse(r) \/ CallbackThrows(r) PROVE Inv'
  <2>1. /\ UNCHANGED <<store, history, request, item, session, result, attempt, committed>>
        /\ \E what \in Replies : Finish(r, what)
    BY <1>4 DEF Refuse, Stop, CallbackThrows, Replies
  <2>2. TypeOK'
    BY <2>1, FinishType DEF Inv, TypeOK
  <2> QED BY <2>1, <2>2, FinishType, ClosingSessions DEF Inv
<1>5. ASSUME NEW r \in RequestIds, CallbackRetries(r) \/ CommitRetries(r) PROVE Inv'
  <2>1. /\ UNCHANGED <<store, history, request, committed>> /\ Retry(r)
        /\ at[r] \in {"items", "commit"} /\ r \notin committed
        /\ CommitRetries(r) => UNCHANGED result
    BY <1>5 DEF CallbackRetries, CommitRetries, HasItem, Inv, Sessions, Phases
  <2>2. result' \in [RequestIds -> Results] /\ \A o \in RequestIds : Listing(o) \subseteq Listing(o)'
    BY <1>5, <2>1, RetriesGrow DEF Inv, TypeOK, Listing
  <2>3. TypeOK'
    BY <2>1, <2>2, RetryEffect DEF Inv, TypeOK
  <2>4. request[r].items # None
    BY <2>1 DEF Inv, Sessions, Phases, Open
  <2>5. CASE /\ at' = [at EXCEPT ![r] = "items"] /\ item'[r] = 1
             /\ session' = [session EXCEPT ![r] = Snapshot(store)]
             /\ \A o \in RequestIds : o # r => item'[o] = item[o]
    BY <2>1, <2>2, <2>3, <2>4, <2>5, FreshSessions DEF Inv
  <2>6. CASE /\ UNCHANGED <<item, session>>
             /\ \A o \in RequestIds : at'[o] = at[o] \/ at'[o] = "done"
    BY <2>1, <2>2, <2>3, <2>6, GrowingSessions DEF Inv
  <2> QED BY <2>1, <2>5, <2>6, RetryEffect
<1>6. ASSUME NEW r \in RequestIds, Commit(r) \/ CommitLost(r) PROVE Inv'
  <2>1. /\ UNCHANGED <<request, item, result, attempt>> /\ at[r] = "commit"
        /\ Apply(r) \/ UNCHANGED <<store, history, committed, session>>
        /\ UNCHANGED <<at, reply>> \/ \E what \in Replies : Finish(r, what)
    BY <1>6 DEF Commit, CommitLost, Replies
  <2>2. /\ at' \in [RequestIds -> {"queued", "items", "commit", "done"}]
        /\ reply' \in [RequestIds -> Replies \union {None}]
        /\ \A o \in RequestIds : reply'[o] # None <=> at'[o] = "done"
        /\ \A o \in RequestIds : at'[o] = at[o] \/ (o = r /\ at'[o] = "done")
    BY <2>1, FinishType DEF Inv, TypeOK
  <2>3. CASE UNCHANGED <<store, history, committed, session>>
    <3>1. TypeOK'
      BY <2>1, <2>2, <2>3 DEF Inv, TypeOK
    <3> QED BY <2>1, <2>2, <2>3, <3>1, ClosingSessions DEF Inv
  <2>4. CASE Apply(r) /\ r \notin committed
    <3>1. /\ store' = [i \in Ids |-> IF i \in session[r].wrote THEN session[r].view[i]
                                                               ELSE store[i]]
          /\ history' = history \union ToSet(session[r].versions)
          /\ committed' = committed \union {r}
      BY <2>1, <2>4, ApplyEffect
    <3>2. /\ session[r].view \in [Ids -> Values \union {None}]
          /\ session[r].versions \in Seq(Versions)
      BY DEF Inv, SessionOK
    <3>3. ToSet(session[r].versions) \subseteq Versions
      BY <3>2 DEF ToSet
    <3>4. TypeOK'
      BY <2>1, <2>2, <3>1, <3>2, <3>3 DEF Inv, TypeOK
    <3> QED BY <2>1, <2>2, <2>4, <3>4, ApplySessions DEF Inv
  <2>5. r \in committed /\ Apply(r) => UNCHANGED <<store, history, committed, session>>
    BY DEF Apply
  <2> QED BY <2>1, <2>3, <2>4, <2>5
<1>7. CASE Crash
  <2>1. /\ UNCHANGED <<store, history, request, item, session, result, attempt, committed>>
        /\ at' = [r \in RequestIds |-> IF r \in Open THEN "done" ELSE at[r]]
        /\ reply' = [r \in RequestIds |-> IF r \in Open THEN "crashed" ELSE reply[r]]
    BY <1>7 DEF Crash
  <2>2. TypeOK'
    BY <2>1, TransactionAssumption DEF Inv, TypeOK, Replies
  <2> QED BY <2>1, <2>2, ClosingSessions DEF Inv
<1> QED BY <1>0, <1>1, <1>2, <1>3, <1>4, <1>5, <1>6, <1>7 DEF Next, Handle, Done
-----------------------------------------------------------------------------
(***************************************************************************)
(* Theorems                                                                *)
(***************************************************************************)
\* The variables keep their types, and a request that has an answer is done.
THEOREM TypeCorrect == Spec => []TypeOK
<1>1. Inv => TypeOK
  BY DEF Inv
<1> QED BY <1>1, InvInit, InvStep, PTL DEF Spec

\* The reply of a transaction that succeeds lists every version it has stored,
\* however often with_transaction called the callback.
THEOREM ListsAreComplete == Spec => []VersionsAreListed
<1>1. Inv => VersionsAreListed
  BY TransactionAssumption DEF Inv, Sessions, Listings, VersionsAreListed, VersionsBy, Listing
<1> QED BY <1>1, InvInit, InvStep, PTL DEF Spec

\* What a step commits.
LEMMA CommitStep ==
  ASSUME Inv, [Next]_vars
  PROVE  \/ UNCHANGED <<store, history, committed, request>>
         \/ \E r \in RequestIds : /\ at[r] = "commit" /\ r \notin committed /\ Apply(r)
                                  /\ UNCHANGED request
<1>1. ASSUME NEW r \in RequestIds, Commit(r) \/ CommitLost(r)
      PROVE  /\ UNCHANGED request /\ at[r] = "commit"
             /\ \/ UNCHANGED <<store, history, committed>>
                \/ r \notin committed /\ Apply(r)
  BY <1>1 DEF Commit, CommitLost, Apply
<1> QED BY <1>1 DEF Next, Handle, Done, vars, Begin, SkipInvalid, Process, Refuse,
             CallbackReturns, CallbackThrows, CallbackRetries, CommitRetries, Crash

\* A transaction is committed only if none of its items was refused or threw, and
\* with a version for every create and update that asks for one.
THEOREM CommitsAreFull == Spec => CommitsInFull
<1>1. ASSUME Inv, [Next]_vars, NEW r \in committed' \ committed
      PROVE  /\ \A k \in Steps(r) : ~ Refused(request[r].items[k])
             /\ \A k \in DOMAIN request[r].items : ~ Throws(request[r].items[k])
             /\ \A k \in Steps(r) :
                  request[r].items[k].op # "delete" /\ ~ request[r].items[k].skip
                    => \E v \in history' \ history :
                         /\ v.by = r /\ v.action = request[r].items[k].op
                         /\ v.id = request[r].items[k].id
  <2>1. PICK q \in RequestIds : at[q] = "commit" /\ q \notin committed /\ Apply(q)
    BY <1>1, CommitStep
  <2>2. q = r /\ history' \ history = ToSet(session[r].versions) /\ r \in Uncommitted
    BY <1>1, <2>1, ApplyEffect
  <2>3. item[r] = Len(request[r].items) + 1 /\ request[r].items # None
    BY <1>1, <2>1, <2>2 DEF Inv, Sessions, Phases, Open, Uncommitted
  <2>4. request[r].items \in Seq(Items)
    BY <1>1, <2>1, <2>2, <2>3, TransactionAssumption DEF Inv, TypeOK
  <2>5. DOMAIN request[r].items = 1 .. item[r] - 1
    BY <2>3, <2>4, LenProperties
  <2>6. \A k \in Steps(r) : k \in DOMAIN request[r].items
    BY DEF Steps
  <2>7. \A v \in ToSet(session[r].versions) : v.by = r
    BY <1>1, <2>1, <2>2 DEF Inv, Sessions, Owned
  <2>8. \A k \in 1 .. item[r] - 1 :
          /\ ~ Throws(request[r].items[k])
          /\ k \in Steps(r) =>
               /\ ~ Refused(request[r].items[k])
               /\ request[r].items[k].op # "delete" /\ ~ request[r].items[k].skip
                    => \E v \in ToSet(session[r].versions) :
                         /\ v.action = request[r].items[k].op
                         /\ v.id = request[r].items[k].id
    BY <1>1, <2>2 DEF Inv, Sessions, Passed
  <2> QED BY <2>2, <2>5, <2>6, <2>7, <2>8
<1>2. Inv /\ [Next]_vars =>
        [\A r \in committed' \ committed :
           /\ \A k \in Steps(r) : ~ Refused(request[r].items[k])
           /\ \A k \in DOMAIN request[r].items : ~ Throws(request[r].items[k])
           /\ \A k \in Steps(r) :
                request[r].items[k].op # "delete" /\ ~ request[r].items[k].skip
                  => \E v \in history' \ history :
                       /\ v.by = r /\ v.action = request[r].items[k].op
                       /\ v.id = request[r].items[k].id]_vars
  BY <1>1
<1> QED BY <1>2, InvInit, InvStep, PTL DEF Spec, CommitsInFull

\* Transactions implement a store whose documents change together with their
\* versions, where a version of a deletion holds a document that was stored.
THEOREM ImplementsTheStore == Spec => ImplementsVersionedStore
<1>1. Init => Abstract!Init
  <2> SUFFICES ASSUME Init, NEW i \in Ids, store[i] # None
               PROVE  \E v \in history : Abstract!Explains(v, i, store[i])
    BY DEF Abstract!Init, Abstract!Explains
  <2>1. Version(<<None, i>>, "create", i, store[i]) \in history
    BY DEF Init
  <2> QED BY <2>1 DEF Version, Abstract!Explains
<1>2. Inv /\ [Next]_vars => [Abstract!Change]_<<store, history, Skipped>>
  <2> SUFFICES ASSUME Inv, [Next]_vars
               PROVE  [Abstract!Change]_<<store, history, Skipped>>
    OBVIOUS
  <2>1. CASE UNCHANGED <<store, history, committed, request>>
    BY <2>1, SkippedKept
  <2>2. ASSUME NEW r \in RequestIds, at[r] = "commit", r \notin committed, Apply(r),
               UNCHANGED request
        PROVE  Abstract!Change
    <3>1. /\ store' = [i \in Ids |-> IF i \in session[r].wrote THEN session[r].view[i]
                                                               ELSE store[i]]
          /\ history' = history \union ToSet(session[r].versions)
          /\ history' \ history = ToSet(session[r].versions) /\ r \in Uncommitted
      BY <2>2, ApplyEffect
    <3>2. ASSUME NEW i \in Ids \ Skipped, store'[i] # store[i]
          PROVE  \E v \in history' \ history : Abstract!Explains(v, i, store'[i])
      <4>1. i \in session[r].wrote /\ store'[i] = session[r].view[i]
        BY <3>1, <3>2
      <4> QED BY <3>1, <3>2, <4>1 DEF Inv, Sessions, Explained
    <3>3. ASSUME NEW v \in history' \ history, v.action = "delete", v.id \notin Skipped
          PROVE  \/ v.value = store[v.id]
                 \/ \E w \in history' \ history : Abstract!Explains(w, v.id, v.value)
      BY <3>1, <3>3 DEF Inv, Sessions, DeletesStored
    <3>4. history \subseteq history' /\ Skipped' = Skipped
      BY <2>2, <3>1, SkippedKept
    <3> QED BY <3>2, <3>3, <3>4 DEF Abstract!Change, Abstract!Explains
  <2> QED BY <2>1, <2>2, CommitStep
<1> QED BY <1>1, <1>2, InvInit, InvStep, PTL DEF Spec, ImplementsVersionedStore, Abstract!Spec
=============================================================================
