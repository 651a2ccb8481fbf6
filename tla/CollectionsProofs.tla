------------------------- MODULE CollectionsProofs --------------------------
(***************************************************************************)
(* Theorems about Collections, for any number of requests, collections and *)
(* documents: the version history of a collection follows it.              *)
(***************************************************************************)
EXTENDS Collections, TLAPS

Phases ==
  \A r \in RequestIds :
    /\ pc[r] \in {"insert", "record"} => request[r].op = "create"
    /\ pc[r] \in {"rename", "update"} => request[r].op = "rename"
    /\ pc[r] \in {"look"} => request[r].op \in {"rename", "make"}

\* Two requests that share a name are mixed, with all their names.
Overlap ==
  \A r, s \in InProgress : r # s /\ NamesOf(r) \cap NamesOf(s) # {}
    => NamesOf(r) \subseteq mixed /\ NamesOf(s) \subseteq mixed

\* Each document has one request that creates it.
OneCreator ==
  \A r, s \in RequestIds : request[r].doc = request[s].doc => r = s \/ request[r].doc = None
Uncreated ==
  \A r \in RequestIds : pc[r] \in {"queued", "insert"} /\ request[r].doc # None
    => in[request[r].doc] = None /\ tag[request[r].doc] = None

\* A document is under its collection, or its version is about to be.
Follows ==
  \A d \in Docs : in[d] # None /\ in[d] \notin mixed =>
    \/ tag[d] = in[d]
    \/ \E r \in RequestIds : pc[r] = "record" /\ request[r].doc = d /\ request[r].name = in[d]
    \/ \E r \in RequestIds : pc[r] = "update" /\ request[r].target = in[d]
                             /\ tag[d] = request[r].name

\* A version is of a document that is where it says, or is about to leave.
Belongs ==
  \A d \in Docs : tag[d] # None /\ tag[d] \notin mixed =>
    \/ in[d] = tag[d] \/ d \in kept
    \/ \E r \in RequestIds : pc[r] = "update" /\ request[r].name = tag[d]
                             /\ (request[r].target \in mixed \/ in[d] = request[r].target)
    \/ \E r \in RequestIds : pc[r] = "remove" /\ request[r].name = tag[d]

\* A renamed collection is mixed when it was before.
TakenAlong ==
  \A r \in RequestIds : pc[r] = "update" /\ request[r].name \in mixed => request[r].target \in mixed

\* Nothing is in a collection that was renamed or dropped.
Emptied ==
  \A r \in RequestIds : pc[r] \in {"update", "remove"} /\ request[r].name \notin mixed
    => \A d \in Docs : in[d] # request[r].name

\* A document whose version comes next is where it was created.
Recording ==
  \A r \in RequestIds : pc[r] = "record" =>
    IF request[r].name \in mixed THEN in[request[r].doc] \in mixed \cup {None}
                                 ELSE in[request[r].doc] = request[r].name

Follow == /\ Phases /\ Overlap /\ OneCreator /\ Uncreated
          /\ Follows /\ Belongs /\ TakenAlong /\ Emptied /\ Recording
Inv == TypeOK /\ Follow
-----------------------------------------------------------------------------
(***************************************************************************)
(* Requests and their names                                                *)
(***************************************************************************)
LEMMA RequestFacts ==
  ASSUME TypeOK, NEW r \in RequestIds
  PROVE  /\ request[r].op \in {"create", "make", "rename", "drop"}
         /\ request[r].name \in Names /\ request[r].name # None
         /\ request[r].name \in NamesOf(r)
         /\ NamesOf(r) \subseteq Names
         /\ request[r].op = "rename" => request[r].target \in Names /\ request[r].target # None
                                        /\ request[r].target \in NamesOf(r)
         /\ request[r].doc \in Docs \cup {None} /\ None \notin Docs
         /\ request[r].op = "create" => request[r].doc \in Docs
         /\ NamesOf(r) = {request[r].name, request[r].target} \ {None}
BY CollectionAssumption DEF TypeOK, NamesOf

\* The names of a request that is not mixed are of no other request.
LEMMA Apart ==
  ASSUME Overlap, NEW r \in InProgress, NEW s \in InProgress, r # s,
         NEW n, n \in NamesOf(r), n \in NamesOf(s)
  PROVE  NamesOf(r) \subseteq mixed /\ NamesOf(s) \subseteq mixed /\ n \in mixed
BY DEF Overlap

\* What a step of one request leaves: the others where they are, and mixed at most its
\* own names.
Moves(r, w) ==
  /\ pc' = [pc EXCEPT ![r] = w]
  /\ UNCHANGED request
  /\ mixed \subseteq mixed' /\ mixed' \subseteq mixed \cup NamesOf(r)

LEMMA OverlapKept ==
  ASSUME Inv, NEW r \in InProgress, NEW w, w # "queued", Moves(r, w)
  PROVE  Overlap' /\ OneCreator'
<1>1. InProgress' \subseteq InProgress /\ \A s \in RequestIds : NamesOf(s)' = NamesOf(s)
  BY DEF Moves, InProgress, Inv, TypeOK, NamesOf
<1> QED BY <1>1 DEF Inv, Follow, Overlap, OneCreator, Moves, InProgress

\* The names of others that a step of one request mixes were all mixed before.
LEMMA OthersUnmixed ==
  ASSUME Inv, NEW r \in InProgress, NEW w, Moves(r, w),
         NEW s \in InProgress, s # r, NEW n \in NamesOf(s)
  PROVE  /\ n \in mixed' <=> n \in mixed
         /\ n \in NamesOf(r) => n \in mixed /\ NamesOf(s) \subseteq mixed /\ NamesOf(r) \subseteq mixed
         /\ pc'[s] = pc[s]
BY Apart DEF Inv, Follow, Moves, TypeOK, InProgress
-----------------------------------------------------------------------------
(***************************************************************************)
(* Every step preserves the invariant                                      *)
(***************************************************************************)
LEMMA RenameFollow ==
  ASSUME Inv, NEW r \in RequestIds, Rename(r),
         request[r].name \in colls, request[r].target \notin colls
  PROVE  Follow'
<1> DEFINE from == request[r].name
           to == request[r].target
<1>a. /\ pc[r] = "rename" /\ pc \in [RequestIds -> {"queued", "look", "make", "insert",
                 "record", "rename", "update", "drop", "remove", "done"}]
      /\ in \in [Docs -> Names \cup {None}]
      /\ UNCHANGED <<tag, request, kept>>
      /\ in' = [d \in Docs |-> IF in[d] = from THEN to ELSE in[d]]
  BY DEF Inv, TypeOK, Rename
<1>b. /\ \/ GoTo(r, "update") /\ mixed' = IF from \in mixed THEN mixed \cup {to} ELSE mixed
         \/ Throws(r)
  BY DEF Rename
<1>c. r \in InProgress /\ request[r].op = "rename" /\ to \in NamesOf(r) /\ from \in NamesOf(r)
  BY <1>a, RequestFacts DEF InProgress, Inv, Follow, Phases
<1>0. /\ r \in InProgress /\ pc[r] = "rename" /\ request[r].op = "rename"
      /\ in \in [Docs -> Names \cup {None}]
      /\ UNCHANGED <<tag, request, kept>>
      /\ in' = [d \in Docs |-> IF in[d] = from THEN to ELSE in[d]]
      /\ \E w \in {"update", "done"} : Moves(r, w)
      /\ from \in mixed => to \in mixed'
      /\ pc'[r] # "update" => from \in mixed' /\ to \in mixed'
      /\ from \in mixed' /\ pc'[r] = "update" => from \in mixed
  <2>1. from # to
    OBVIOUS
  <2>2. CASE GoTo(r, "update") /\ mixed' = IF from \in mixed THEN mixed \cup {to} ELSE mixed
    BY <1>a, <1>c, <2>1, <2>2 DEF Moves, GoTo
  <2>3. CASE Throws(r)
    BY <1>a, <1>c, <2>3 DEF Moves, GoTo, Throws, Unsettled
  <2> QED BY <1>b, <2>2, <2>3
<1>1. /\ from \in Names /\ to \in Names /\ from # None /\ to # None /\ from # to
      /\ from \in NamesOf(r) /\ to \in NamesOf(r)
      /\ \A d \in Docs : in[d] # to
  BY <1>0, RequestFacts DEF Inv, TypeOK
<1>2. PICK w \in {"update", "done"} : Moves(r, w)
  BY <1>0
<1>3. /\ pc' = [pc EXCEPT ![r] = w] /\ pc'[r] = w
      /\ mixed \subseteq mixed' /\ mixed' \subseteq mixed \cup NamesOf(r)
      /\ \A s \in RequestIds : s # r => pc'[s] = pc[s]
  BY <1>2 DEF Moves, Inv, TypeOK
<1>4. \A s \in RequestIds : \A n \in NamesOf(s) : s # r /\ s \in InProgress
        => /\ n \in mixed' <=> n \in mixed
           /\ n \in NamesOf(r) => n \in mixed /\ NamesOf(s) \subseteq mixed /\ NamesOf(r) \subseteq mixed
  BY <1>0, <1>2, OthersUnmixed
<1>5. \A s \in RequestIds :
        /\ pc'[s] \in {"update", "remove", "record"} => s \in InProgress \/ s = r
        /\ request[s].name \in NamesOf(s)
        /\ pc'[s] = "update" => request[s].target \in NamesOf(s)
  BY <1>0, <1>3, RequestFacts DEF InProgress, Inv, Follow, Phases
<1> HIDE DEF from, to
<1>6. Overlap' /\ OneCreator'
  BY <1>0, <1>2, OverlapKept
<1>7. Phases'
  BY <1>0, <1>3 DEF Inv, Follow, Phases
<1>8. Uncreated'
  <2> SUFFICES ASSUME NEW s \in RequestIds, pc'[s] \in {"queued", "insert"}, request[s].doc # None
               PROVE  in'[request[s].doc] = None /\ tag[request[s].doc] = None
    BY <1>0 DEF Uncreated
  <2>1. s # r /\ request[s].doc \in Docs
    BY <1>3, RequestFacts DEF Inv
  <2> QED BY <1>0, <1>1, <1>3, <2>1 DEF Inv, Follow, Uncreated
<1>9. TakenAlong'
  BY <1>0, <1>3, <1>4, <1>5 DEF Inv, Follow, TakenAlong, from, to
<1>10. Emptied'
  BY <1>0, <1>1, <1>3, <1>4, <1>5 DEF Inv, Follow, Emptied, from, to
<1>11. Recording'
  <2> SUFFICES ASSUME NEW s \in RequestIds, pc'[s] = "record"
               PROVE  IF request[s].name \in mixed'
                      THEN in'[request[s].doc] \in mixed' \cup {None}
                      ELSE in'[request[s].doc] = request[s].name
    BY <1>0 DEF Recording
  <2>1. s # r /\ request[s].doc \in Docs /\ pc[s] = "record"
    BY <1>3, RequestFacts DEF Inv, Follow, Phases
  <2> QED BY <1>0, <1>1, <1>3, <1>4, <1>5, <2>1 DEF Inv, Follow, Recording
<1>12. Follows'
  <2> SUFFICES ASSUME NEW d \in Docs, in'[d] # None, in'[d] \notin mixed'
               PROVE  \/ tag[d] = in'[d]
                      \/ \E s \in RequestIds : pc'[s] = "record" /\ request[s].doc = d
                                               /\ request[s].name = in'[d]
                      \/ \E s \in RequestIds : pc'[s] = "update" /\ request[s].target = in'[d]
                                               /\ tag[d] = request[s].name
    BY <1>0 DEF Follows
  <2>1. CASE in[d] # from
    <3>1. in'[d] = in[d] /\ in[d] \notin mixed
      BY <1>0, <1>3, <2>1
    <3> QED BY <1>0, <1>3, <3>1 DEF Inv, Follow, Follows
  <2>2. CASE in[d] = from
    <3>1. in'[d] = to /\ pc'[r] = "update" /\ from \notin mixed
      BY <1>0, <1>3, <2>2
    <3>2. tag[d] = from
      <4>1. \A s \in RequestIds : pc[s] \in {"record", "update"} =>
              s # r /\ s \in InProgress
        BY <1>0 DEF InProgress
      <4>2. \A s \in RequestIds : pc[s] \in {"record", "update"} => from \notin NamesOf(s)
        BY <1>1, <1>4, <3>1, <4>1
      <4>3. \A s \in RequestIds : pc[s] = "update" => request[s].target \in NamesOf(s)
        BY RequestFacts DEF Inv, Follow, Phases
      <4> QED BY <1>1, <1>5, <2>2, <3>1, <4>2, <4>3 DEF Inv, Follow, Follows
    <3> QED BY <3>1, <3>2 DEF from, to
  <2> QED BY <2>1, <2>2
<1>13. Belongs'
  <2> SUFFICES ASSUME NEW d \in Docs, tag[d] # None, tag[d] \notin mixed'
               PROVE  \/ in'[d] = tag[d] \/ d \in kept
                      \/ \E s \in RequestIds : pc'[s] = "update" /\ request[s].name = tag[d]
                               /\ (request[s].target \in mixed' \/ in'[d] = request[s].target)
                      \/ \E s \in RequestIds : pc'[s] = "remove" /\ request[s].name = tag[d]
    BY <1>0 DEF Belongs
  <2>1. CASE in[d] = tag[d] /\ in[d] = from
    BY <1>0, <1>1, <1>3, <2>1 DEF from, to
  <2>2. CASE in[d] = tag[d] /\ in[d] # from
    BY <1>0, <2>2
  <2>3. ASSUME NEW s \in RequestIds, pc[s] = "update", request[s].name = tag[d],
               request[s].target \in mixed \/ in[d] = request[s].target
        PROVE  pc'[s] = "update" /\ (request[s].target \in mixed' \/ in'[d] = request[s].target)
    <3>1. s # r /\ s \in InProgress /\ request[s].target \in NamesOf(s) /\ pc'[s] = "update"
      BY <1>0, <1>3, <2>3, RequestFacts DEF InProgress, Inv, Follow, Phases
    <3>2. in[d] = from /\ in[d] = request[s].target => request[s].target \in mixed
      BY <1>1, <1>4, <3>1
    <3> QED BY <1>0, <1>3, <2>3, <3>1, <3>2
  <2>4. ASSUME NEW s \in RequestIds, pc[s] = "remove" PROVE pc'[s] = "remove"
    BY <1>0, <1>3, <2>4
  <2> QED BY <1>3, <2>1, <2>2, <2>3, <2>4 DEF Inv, Follow, Belongs
<1> QED BY <1>6, <1>7, <1>8, <1>9, <1>10, <1>11, <1>12, <1>13 DEF Follow

\* The step of a request that has changed nothing, and changes nothing.
LEMMA NeutralFollow ==
  ASSUME Inv, NEW r \in InProgress, NEW w \in {"make", "rename", "done"}, Moves(r, w),
         pc[r] \in {"look", "make", "insert", "rename", "drop"},
         w = "rename" => request[r].op = "rename",
         UNCHANGED <<in, tag, mixed, kept>>
  PROVE  Follow'
<1>1. Overlap' /\ OneCreator'
  BY OverlapKept
<1>2. /\ pc'[r] = w /\ UNCHANGED request /\ \A s \in RequestIds : s # r => pc'[s] = pc[s]
      /\ r \in RequestIds
  BY DEF Moves, Inv, TypeOK, InProgress
<1>3. Phases'
  BY <1>2 DEF Inv, Follow, Phases
<1>4. Uncreated'
  BY <1>2 DEF Inv, Follow, Uncreated
<1>5. TakenAlong' /\ Emptied' /\ Recording'
  BY <1>2 DEF Inv, Follow, TakenAlong, Emptied, Recording
<1>6. Follows'
  BY <1>2 DEF Inv, Follow, Follows
<1>7. Belongs'
  BY <1>2 DEF Inv, Follow, Belongs
<1> QED BY <1>1, <1>3, <1>4, <1>5, <1>6, <1>7 DEF Follow

LEMMA BeginFollow ==
  ASSUME Inv, NEW r \in RequestIds, Begin(r)
  PROVE  Follow'
<1> DEFINE others == {o \in InProgress : NamesOf(o) \cap NamesOf(r) # {}}
           names == NamesOf(r) \cup UNION {NamesOf(o) : o \in others}
<1>1. /\ pc[r] = "queued" /\ UNCHANGED <<colls, in, tag, request, kept>>
      /\ pc \in [RequestIds -> {"queued", "look", "make", "insert", "record", "rename",
                                "update", "drop", "remove", "done"}]
      /\ \/ GoTo(r, First(r)) /\ mixed' = IF others = {} THEN mixed ELSE mixed \cup names
         \/ GoTo(r, "done") /\ UNCHANGED mixed
  BY DEF Begin, database, Inv, TypeOK
<1>2. /\ pc'[r] \in {"insert", "drop", "look", "done"}
      /\ pc'[r] = "insert" => request[r].op = "create"
      /\ pc'[r] = "look" => request[r].op \in {"rename", "make"}
      /\ \A s \in RequestIds : s # r => pc'[s] = pc[s]
      /\ mixed \subseteq mixed'
      /\ \A s \in RequestIds : NamesOf(s)' = NamesOf(s)
  <2>1. First(r) \in {"insert", "drop", "look"}
        /\ (First(r) = "insert" => request[r].op = "create")
        /\ (First(r) = "look" => request[r].op \in {"rename", "make"})
    BY RequestFacts DEF First, Inv
  <2> QED BY <1>1, <2>1 DEF GoTo, NamesOf
\* Who is in progress with a name that gets mixed has all its names mixed.
<1>3. \A s \in InProgress : \A n \in NamesOf(s) :
        n \in mixed' /\ n \notin mixed => NamesOf(s) \subseteq mixed'
  <2> SUFFICES ASSUME NEW s \in InProgress, NEW n \in NamesOf(s), n \in mixed', n \notin mixed
               PROVE  NamesOf(s) \subseteq mixed'
    OBVIOUS
  <2>1. mixed' = mixed \cup names
    BY <1>1
  <2>2. CASE n \in NamesOf(r)
    BY <2>1, <2>2
  <2>3. CASE n \notin NamesOf(r)
    <3>1. PICK o \in others : n \in NamesOf(o)
      BY <2>1, <2>3
    <3>2. CASE o = s
      BY <2>1, <3>1, <3>2
    <3>3. CASE o # s
      BY <3>1, <3>3, Apart DEF Inv, Follow
    <3> QED BY <3>2, <3>3
  <2> QED BY <2>2, <2>3
<1>4. Overlap'
  <2> SUFFICES ASSUME NEW s \in InProgress', NEW t \in InProgress', s # t,
                      NamesOf(s) \cap NamesOf(t) # {}
               PROVE  NamesOf(s) \subseteq mixed' /\ NamesOf(t) \subseteq mixed'
    BY <1>2 DEF Overlap, InProgress
  <2>1. CASE s # r /\ t # r
    <3>1. s \in InProgress /\ t \in InProgress
      BY <1>2, <2>1 DEF InProgress
    <3> QED BY <1>2, <2>1, <3>1 DEF Inv, Follow, Overlap
  <2>2. ASSUME NEW o \in InProgress', o # r, NamesOf(o) \cap NamesOf(r) # {}, r \in InProgress'
        PROVE  NamesOf(o) \subseteq mixed' /\ NamesOf(r) \subseteq mixed'
    <3>1. o \in others
      BY <1>2, <2>2 DEF InProgress
    <3>2. mixed' = mixed \cup names
      BY <1>1, <2>2, <3>1 DEF GoTo, InProgress
    <3> QED BY <3>1, <3>2
  <2> QED BY <2>1, <2>2
<1>5. \A s \in RequestIds : pc'[s] \in {"update", "remove", "record"} =>
        /\ s # r /\ s \in InProgress /\ pc[s] = pc'[s] /\ request[s].name \in NamesOf(s)
        /\ pc'[s] = "update" => request[s].target \in NamesOf(s)
  BY <1>2, RequestFacts DEF InProgress, Inv, Follow, Phases
<1> HIDE DEF others, names
<1>6. OneCreator' /\ Phases'
  BY <1>1, <1>2 DEF Inv, Follow, OneCreator, Phases
<1>7. Uncreated'
  BY <1>1, <1>2 DEF Inv, Follow, Uncreated
<1>8. TakenAlong'
  BY <1>1, <1>2, <1>3, <1>5 DEF Inv, Follow, TakenAlong
<1>9. Emptied'
  BY <1>1, <1>2, <1>5 DEF Inv, Follow, Emptied
<1>10. Recording'
  BY <1>1, <1>2, <1>5 DEF Inv, Follow, Recording
<1>11. \A s \in RequestIds : pc[s] \in {"update", "remove", "record"} => pc'[s] = pc[s]
  BY <1>1, <1>2
<1>12. Follows'
  BY <1>1, <1>2, <1>11 DEF Inv, Follow, Follows
<1>13. Belongs'
  BY <1>1, <1>2, <1>11 DEF Inv, Follow, Belongs
<1> QED BY <1>4, <1>6, <1>7, <1>8, <1>9, <1>10, <1>12, <1>13 DEF Follow

\* What a step of one request leaves of the others, as facts about all of them.
LEMMA StepFacts ==
  ASSUME Inv, NEW r \in InProgress, NEW w, w # "queued", Moves(r, w)
  PROVE  /\ r \in RequestIds /\ pc'[r] = w /\ UNCHANGED request
         /\ mixed \subseteq mixed' /\ mixed' \subseteq mixed \cup NamesOf(r)
         /\ \A s \in RequestIds : s # r => pc'[s] = pc[s]
         /\ \A s \in RequestIds : \A n \in NamesOf(s) : s # r /\ s \in InProgress
              => /\ n \in mixed' <=> n \in mixed
                 /\ n \in NamesOf(r) => n \in mixed /\ NamesOf(s) \subseteq mixed
                                        /\ NamesOf(r) \subseteq mixed
         /\ \A s \in RequestIds :
              /\ pc[s] \in {"update", "remove", "record"} => s \in InProgress
              /\ request[s].name \in NamesOf(s) /\ request[s].name # None
              /\ pc[s] = "update" => request[s].target \in NamesOf(s) /\ request[s].target # None
              /\ pc[s] = "record" => request[s].doc \in Docs
         /\ Overlap' /\ OneCreator'
<1>1. OneCreator' /\ Overlap'
  BY OverlapKept
<1>2. /\ r \in RequestIds /\ pc'[r] = w /\ UNCHANGED request
      /\ mixed \subseteq mixed' /\ mixed' \subseteq mixed \cup NamesOf(r)
      /\ \A s \in RequestIds : s # r => pc'[s] = pc[s]
  BY DEF Moves, Inv, TypeOK, InProgress
<1>3. \A s \in RequestIds : \A n \in NamesOf(s) : s # r /\ s \in InProgress
        => /\ n \in mixed' <=> n \in mixed
           /\ n \in NamesOf(r) => n \in mixed /\ NamesOf(s) \subseteq mixed /\ NamesOf(r) \subseteq mixed
  BY OthersUnmixed
<1>4. \A s \in RequestIds :
        /\ pc[s] \in {"update", "remove", "record"} => s \in InProgress
        /\ request[s].name \in NamesOf(s) /\ request[s].name # None
        /\ pc[s] = "update" => request[s].target \in NamesOf(s) /\ request[s].target # None
        /\ pc[s] = "record" => request[s].doc \in Docs
  BY RequestFacts DEF InProgress, Inv, Follow, Phases
<1> QED BY <1>1, <1>2, <1>3, <1>4

LEMMA InsertFollow ==
  ASSUME Inv, NEW r \in RequestIds, Insert(r)
  PROVE  Follow'
<1> DEFINE name == request[r].name
           doc == request[r].doc
<1>1. /\ pc[r] = "insert" /\ r \in InProgress /\ request[r].op = "create"
      /\ doc \in Docs /\ in[doc] = None /\ tag[doc] = None
  BY RequestFacts, CollectionAssumption DEF Insert, InProgress, Inv, Follow, Phases, Uncreated
<1>2. /\ UNCHANGED <<tag, kept>>
      /\ in'[doc] = name /\ \A d \in Docs : d # doc => in'[d] = in[d]
  BY <1>1 DEF Insert, Inv, TypeOK
<1>3. PICK w \in {"record", "done"} :
        Moves(r, w) /\ (w = "record" => UNCHANGED mixed) /\ (w = "done" => name \in mixed')
  BY RequestFacts DEF Insert, Moves, GoTo, Throws, Unsettled, Inv
<1>4. /\ pc'[r] = w /\ UNCHANGED request
      /\ mixed \subseteq mixed' /\ mixed' \subseteq mixed \cup NamesOf(r)
      /\ \A s \in RequestIds : s # r => pc'[s] = pc[s]
      /\ \A s \in RequestIds : \A n \in NamesOf(s) : s # r /\ s \in InProgress
           => /\ n \in mixed' <=> n \in mixed
              /\ n \in NamesOf(r) => n \in mixed /\ NamesOf(s) \subseteq mixed
      /\ \A s \in RequestIds :
           /\ pc[s] \in {"update", "remove", "record"} => s \in InProgress
           /\ request[s].name \in NamesOf(s) /\ request[s].name # None
           /\ pc[s] = "update" => request[s].target \in NamesOf(s) /\ request[s].target # None
           /\ pc[s] = "record" => request[s].doc \in Docs
      /\ Overlap' /\ OneCreator'
  BY <1>1, <1>3, StepFacts
<1>5. \A s \in RequestIds : s # r => request[s].doc # doc
  BY <1>1, CollectionAssumption DEF Inv, Follow, OneCreator
<1> HIDE DEF name, doc
<1>6. Phases'
  BY <1>1, <1>4 DEF Inv, Follow, Phases
<1>7. Uncreated'
  <2> SUFFICES ASSUME NEW s \in RequestIds, pc'[s] \in {"queued", "insert"}, request[s].doc # None
               PROVE  in'[request[s].doc] = None /\ tag[request[s].doc] = None
    BY <1>2, <1>4 DEF Uncreated
  <2>1. s # r /\ request[s].doc \in Docs
    BY <1>4, RequestFacts DEF Inv
  <2> QED BY <1>2, <1>4, <1>5, <2>1 DEF Inv, Follow, Uncreated
<1>8. TakenAlong'
  BY <1>1, <1>4 DEF Inv, Follow, TakenAlong
<1>9. Emptied'
  BY <1>1, <1>2, <1>4 DEF Inv, Follow, Emptied, name
<1>10. Recording'
  <2> SUFFICES ASSUME NEW s \in RequestIds, pc'[s] = "record"
               PROVE  IF request[s].name \in mixed'
                      THEN in'[request[s].doc] \in mixed' \cup {None}
                      ELSE in'[request[s].doc] = request[s].name
    BY <1>4 DEF Recording
  <2>1. CASE s = r
    BY <1>2, <2>1 DEF name, doc
  <2>2. CASE s # r
    BY <1>2, <1>4, <1>5, <2>2 DEF Inv, Follow, Recording
  <2> QED BY <2>1, <2>2
<1>11. \A s \in RequestIds : pc[s] \in {"update", "remove", "record"} => pc'[s] = pc[s]
  BY <1>1, <1>4
<1>12. Follows'
  <2> SUFFICES ASSUME NEW d \in Docs, in'[d] # None, in'[d] \notin mixed'
               PROVE  \/ tag[d] = in'[d]
                      \/ \E s \in RequestIds : pc'[s] = "record" /\ request[s].doc = d
                                               /\ request[s].name = in'[d]
                      \/ \E s \in RequestIds : pc'[s] = "update" /\ request[s].target = in'[d]
                                               /\ tag[d] = request[s].name
    BY <1>2, <1>4 DEF Follows
  <2>1. CASE d = doc
    <3>1. pc'[r] = "record"
      BY <1>2, <1>3, <1>4, <2>1
    <3> QED BY <1>2, <2>1, <3>1 DEF name, doc
  <2>2. CASE d # doc
    BY <1>2, <1>4, <1>11, <2>2 DEF Inv, Follow, Follows
  <2> QED BY <2>1, <2>2
<1>13. Belongs'
  BY <1>1, <1>2, <1>4, <1>11 DEF Inv, Follow, Belongs
<1> QED BY <1>4, <1>6, <1>7, <1>8, <1>9, <1>10, <1>12, <1>13 DEF Follow

LEMMA RecordFollow ==
  ASSUME Inv, NEW r \in RequestIds, Record(r)
  PROVE  Follow'
<1> DEFINE name == request[r].name
           doc == request[r].doc
<1>1. /\ pc[r] = "record" /\ r \in InProgress /\ request[r].op = "create" /\ doc \in Docs
  BY RequestFacts DEF Record, InProgress, Inv, Follow, Phases
<1>2. /\ UNCHANGED <<in, kept>> /\ Moves(r, "done")
      /\ \A d \in Docs : d # doc => tag'[d] = tag[d]
      /\ name \notin mixed' => tag'[doc] = name
      /\ tag'[doc] = name \/ tag'[doc] = tag[doc]
  BY <1>1, RequestFacts DEF Record, Moves, GoTo, Unsettled, Inv, TypeOK
<1>3. /\ pc'[r] = "done" /\ UNCHANGED request
      /\ mixed \subseteq mixed' /\ mixed' \subseteq mixed \cup NamesOf(r)
      /\ \A s \in RequestIds : s # r => pc'[s] = pc[s]
      /\ \A s \in RequestIds : \A n \in NamesOf(s) : s # r /\ s \in InProgress
           => /\ n \in mixed' <=> n \in mixed
              /\ n \in NamesOf(r) => n \in mixed /\ NamesOf(s) \subseteq mixed
      /\ \A s \in RequestIds :
           /\ pc[s] \in {"update", "remove", "record"} => s \in InProgress
           /\ request[s].name \in NamesOf(s) /\ request[s].name # None
           /\ pc[s] = "update" => request[s].target \in NamesOf(s) /\ request[s].target # None
      /\ Overlap' /\ OneCreator'
  BY <1>1, <1>2, StepFacts
<1>4. \A s \in RequestIds : s # r => request[s].doc # doc
  BY <1>1, CollectionAssumption DEF Inv, Follow, OneCreator
<1>5. in[doc] = name \/ (name \in mixed /\ in[doc] \in mixed \cup {None})
  BY <1>1 DEF Inv, Follow, Recording
<1>6. \A s \in RequestIds : pc[s] \in {"update", "remove"} => s # r /\ pc'[s] = pc[s]
  BY <1>1, <1>3
<1> HIDE DEF name, doc
<1>7. Phases'
  BY <1>3 DEF Inv, Follow, Phases
<1>8. Uncreated'
  <2> SUFFICES ASSUME NEW s \in RequestIds, pc'[s] \in {"queued", "insert"}, request[s].doc # None
               PROVE  in[request[s].doc] = None /\ tag'[request[s].doc] = None
    BY <1>2, <1>3 DEF Uncreated
  <2>1. s # r /\ request[s].doc \in Docs
    BY <1>3, RequestFacts DEF Inv
  <2> QED BY <1>2, <1>3, <1>4, <2>1 DEF Inv, Follow, Uncreated
<1>9. TakenAlong'
  BY <1>3 DEF Inv, Follow, TakenAlong
<1>10. Emptied'
  BY <1>2, <1>3 DEF Inv, Follow, Emptied
<1>11. Recording'
  BY <1>2, <1>3, RequestFacts DEF Inv, Follow, Recording
<1>12. Follows'
  <2> SUFFICES ASSUME NEW d \in Docs, in[d] # None, in[d] \notin mixed'
               PROVE  \/ tag'[d] = in[d]
                      \/ \E s \in RequestIds : pc'[s] = "record" /\ request[s].doc = d
                                               /\ request[s].name = in[d]
                      \/ \E s \in RequestIds : pc'[s] = "update" /\ request[s].target = in[d]
                                               /\ tag'[d] = request[s].name
    BY <1>2, <1>3 DEF Follows
  <2>1. CASE d = doc
    BY <1>2, <1>3, <1>5, <2>1
  <2>2. CASE d # doc
    <3>1. tag'[d] = tag[d] /\ in[d] \notin mixed
      BY <1>2, <1>3, <2>2
    <3>2. ASSUME NEW s \in RequestIds, pc[s] = "record", request[s].doc = d
          PROVE  pc'[s] = "record"
      BY <1>3, <2>2, <3>2 DEF doc
    <3> QED BY <1>6, <3>1, <3>2 DEF Inv, Follow, Follows
  <2> QED BY <2>1, <2>2
<1>13. Belongs'
  <2> SUFFICES ASSUME NEW d \in Docs, tag'[d] # None, tag'[d] \notin mixed'
               PROVE  \/ in[d] = tag'[d] \/ d \in kept
                      \/ \E s \in RequestIds : pc'[s] = "update" /\ request[s].name = tag'[d]
                               /\ (request[s].target \in mixed' \/ in[d] = request[s].target)
                      \/ \E s \in RequestIds : pc'[s] = "remove" /\ request[s].name = tag'[d]
    BY <1>2, <1>3 DEF Belongs
  <2>1. CASE tag'[d] = tag[d]
    BY <1>3, <1>6, <2>1 DEF Inv, Follow, Belongs
  <2>2. CASE d = doc /\ tag'[d] = name
    BY <1>3, <1>5, <2>2
  <2> QED BY <1>2, <2>1, <2>2
<1> QED BY <1>3, <1>7, <1>8, <1>9, <1>10, <1>11, <1>12, <1>13 DEF Follow

LEMMA UpdateFollow ==
  ASSUME Inv, NEW r \in RequestIds, Update(r)
  PROVE  Follow'
<1> DEFINE from == request[r].name
           to == request[r].target
<1>1. /\ pc[r] = "update" /\ r \in InProgress /\ request[r].op = "rename"
      /\ from \in NamesOf(r) /\ to \in NamesOf(r) /\ from # None /\ to # None
  BY RequestFacts DEF Update, InProgress, Inv, Follow, Phases
<1>2. /\ UNCHANGED <<in, kept>> /\ Moves(r, "done")
      /\ \/ \A d \in Docs : tag'[d] = IF tag[d] = from THEN to ELSE tag[d]
         \/ from \in mixed' /\ to \in mixed' /\ \A d \in Docs : tag'[d] = tag[d]
  <2>1. GoTo(r, "done") /\ UNCHANGED <<in, request, kept>>
    BY DEF Update
  <2>2. CASE Retagged(r, {from}) /\ UNCHANGED mixed
    BY <2>1, <2>2 DEF Retagged, Moves, GoTo
  <2>3. CASE UNCHANGED tag /\ Unsettled(r)
    BY <1>1, <2>1, <2>3 DEF Unsettled, Moves, GoTo
  <2> QED BY <2>2, <2>3 DEF Update
<1>3. /\ pc'[r] = "done" /\ UNCHANGED request
      /\ mixed \subseteq mixed' /\ mixed' \subseteq mixed \cup NamesOf(r)
      /\ \A s \in RequestIds : s # r => pc'[s] = pc[s]
      /\ \A s \in RequestIds : \A n \in NamesOf(s) : s # r /\ s \in InProgress
           => /\ n \in mixed' <=> n \in mixed
              /\ n \in NamesOf(r) => n \in mixed /\ NamesOf(s) \subseteq mixed
      /\ \A s \in RequestIds :
           /\ pc[s] \in {"update", "remove", "record"} => s \in InProgress
           /\ request[s].name \in NamesOf(s) /\ request[s].name # None
           /\ pc[s] = "update" => request[s].target \in NamesOf(s) /\ request[s].target # None
      /\ Overlap' /\ OneCreator'
  BY <1>1, <1>2, StepFacts
<1>4. /\ from \in mixed => to \in mixed
      /\ from \notin mixed => \A d \in Docs : in[d] # from
  BY <1>1 DEF Inv, Follow, TakenAlong, Emptied
<1> HIDE DEF from, to
<1>5. Phases'
  BY <1>3 DEF Inv, Follow, Phases
<1>6. Uncreated'
  <2> SUFFICES ASSUME NEW s \in RequestIds, pc'[s] \in {"queued", "insert"}, request[s].doc # None
               PROVE  in[request[s].doc] = None /\ tag'[request[s].doc] = None
    BY <1>2, <1>3 DEF Uncreated
  <2>1. s # r /\ request[s].doc \in Docs
    BY <1>3, RequestFacts DEF Inv
  <2> QED BY <1>1, <1>2, <1>3, <2>1 DEF Inv, Follow, Uncreated
<1>7. TakenAlong'
  BY <1>3 DEF Inv, Follow, TakenAlong
<1>8. Emptied'
  BY <1>2, <1>3 DEF Inv, Follow, Emptied
<1>9. Recording'
  BY <1>1, <1>2, <1>3 DEF Inv, Follow, Recording
<1>10. Follows'
  <2> SUFFICES ASSUME NEW d \in Docs, in[d] # None, in[d] \notin mixed'
               PROVE  \/ tag'[d] = in[d]
                      \/ \E s \in RequestIds : pc'[s] = "record" /\ request[s].doc = d
                                               /\ request[s].name = in[d]
                      \/ \E s \in RequestIds : pc'[s] = "update" /\ request[s].target = in[d]
                                               /\ tag'[d] = request[s].name
    BY <1>2, <1>3 DEF Follows
  <2>1. in[d] \notin mixed
    BY <1>3
  <2>2. CASE tag[d] = in[d]
    BY <1>2, <1>4, <2>1, <2>2
  <2>3. ASSUME NEW s \in RequestIds, pc[s] = "record"
        PROVE  pc'[s] = "record"
    BY <1>1, <1>3, <2>3
  <2>4. ASSUME NEW s \in RequestIds, s # r, pc[s] = "update", request[s].target = in[d],
               tag[d] = request[s].name
        PROVE  pc'[s] = "update" /\ tag'[d] = request[s].name
    <3>1. request[s].name # from
      BY <1>1, <1>3, <2>1, <2>4
    <3> QED BY <1>2, <1>3, <2>4, <3>1
  <2>5. CASE to = in[d] /\ tag[d] = from
    BY <1>2, <2>5
  <2>6. CASE \E s \in RequestIds : pc[s] = "update" /\ request[s].target = in[d]
                                   /\ tag[d] = request[s].name
    BY <2>4, <2>5, <2>6 DEF from, to
  <2> QED BY <2>1, <2>2, <2>3, <2>6 DEF Inv, Follow, Follows
<1>11. Belongs'
  <2> SUFFICES ASSUME NEW d \in Docs, tag'[d] # None, tag'[d] \notin mixed'
               PROVE  \/ in[d] = tag'[d] \/ d \in kept
                      \/ \E s \in RequestIds : pc'[s] = "update" /\ request[s].name = tag'[d]
                               /\ (request[s].target \in mixed' \/ in[d] = request[s].target)
                      \/ \E s \in RequestIds : pc'[s] = "remove" /\ request[s].name = tag'[d]
    BY <1>2, <1>3 DEF Belongs
  <2>1. tag'[d] \notin mixed
    BY <1>3
  <2>2. tag[d] # None /\ tag[d] \notin mixed
    BY <1>1, <1>2, <1>4, <2>1
  <2>3. ASSUME NEW s \in RequestIds, s # r, pc[s] \in {"update", "remove"},
               request[s].name = tag[d]
        PROVE  pc'[s] = pc[s] /\ tag'[d] = tag[d]
    <3>1. tag[d] # from
      BY <1>1, <1>3, <2>2, <2>3
    <3> QED BY <1>2, <1>3, <2>3, <3>1
  <2>4. CASE tag[d] = from /\ tag'[d] = to /\ to \notin mixed
    <3>1. in[d] # from
      BY <1>4, <2>2, <2>4
    <3>2. ASSUME NEW s \in RequestIds, s # r, pc[s] \in {"update", "remove"}
          PROVE  request[s].name # tag[d]
      BY <1>1, <1>3, <2>2, <2>4, <3>2
    <3>3. pc[r] = "update" /\ request[r].name = tag[d] => request[r].target = to
      BY DEF to
    <3> QED BY <1>1, <2>2, <2>4, <3>1, <3>2, <3>3 DEF Inv, Follow, Belongs
  <2>5. CASE tag'[d] = tag[d] /\ tag[d] # from
    <3>1. ASSUME NEW s \in RequestIds, request[s].name = tag[d] PROVE s # r
      BY <2>5, <3>1 DEF from
    <3> QED BY <1>3, <2>2, <2>3, <2>5, <3>1 DEF Inv, Follow, Belongs
  <2> QED BY <1>2, <2>1, <2>4, <2>5
<1> QED BY <1>3, <1>5, <1>6, <1>7, <1>8, <1>9, <1>10, <1>11 DEF Follow

LEMMA DropFollow ==
  ASSUME Inv, NEW r \in RequestIds, Drop(r)
  PROVE  Follow'
<1> DEFINE name == request[r].name
<1>1. /\ pc[r] = "drop" /\ r \in InProgress /\ name \in NamesOf(r) /\ name # None
  BY RequestFacts DEF Drop, InProgress, Inv
<1>2. /\ UNCHANGED tag
      /\ \A d \in Docs : in'[d] = IF in[d] = name THEN None ELSE in[d]
      /\ kept \subseteq kept'
  BY DEF Drop
<1>3. PICK w \in {"remove", "done"} :
        /\ Moves(r, w)
        /\ w = "done" => name \in mixed' \/ \A d \in Docs : in[d] = name => d \in kept'
  BY <1>1 DEF Drop, Moves, GoTo, Throws, Unsettled
<1>4. /\ pc'[r] = w /\ UNCHANGED request
      /\ mixed \subseteq mixed' /\ mixed' \subseteq mixed \cup NamesOf(r)
      /\ \A s \in RequestIds : s # r => pc'[s] = pc[s]
      /\ \A s \in RequestIds : \A n \in NamesOf(s) : s # r /\ s \in InProgress
           => /\ n \in mixed' <=> n \in mixed
              /\ n \in NamesOf(r) => n \in mixed /\ NamesOf(s) \subseteq mixed
      /\ \A s \in RequestIds :
           /\ pc[s] \in {"update", "remove", "record"} => s \in InProgress
           /\ request[s].name \in NamesOf(s) /\ request[s].name # None
           /\ pc[s] = "update" => request[s].target \in NamesOf(s) /\ request[s].target # None
           /\ pc[s] = "record" => request[s].doc \in Docs
      /\ Overlap' /\ OneCreator'
  BY <1>1, <1>3, StepFacts
<1> HIDE DEF name
<1>5. Phases'
  BY <1>4 DEF Inv, Follow, Phases
<1>6. Uncreated'
  <2> SUFFICES ASSUME NEW s \in RequestIds, pc'[s] \in {"queued", "insert"}, request[s].doc # None
               PROVE  in'[request[s].doc] = None /\ tag[request[s].doc] = None
    BY <1>2, <1>4 DEF Uncreated
  <2>1. s # r /\ request[s].doc \in Docs
    BY <1>4, RequestFacts DEF Inv
  <2> QED BY <1>2, <1>4, <2>1 DEF Inv, Follow, Uncreated
<1>7. TakenAlong'
  BY <1>4 DEF Inv, Follow, TakenAlong
<1>8. Emptied'
  BY <1>1, <1>2, <1>4 DEF Inv, Follow, Emptied, name
<1>9. Recording'
  <2> SUFFICES ASSUME NEW s \in RequestIds, pc'[s] = "record"
               PROVE  IF request[s].name \in mixed'
                      THEN in'[request[s].doc] \in mixed' \cup {None}
                      ELSE in'[request[s].doc] = request[s].name
    BY <1>4 DEF Recording
  <2>1. s # r /\ pc[s] = "record" /\ request[s].doc \in Docs /\ s \in InProgress
    BY <1>4
  <2> QED BY <1>1, <1>2, <1>4, <2>1 DEF Inv, Follow, Recording
<1>10. \A s \in RequestIds : pc[s] \in {"update", "remove", "record"} => pc'[s] = pc[s] /\ s # r
  BY <1>1, <1>4
<1>11. Follows'
  <2> SUFFICES ASSUME NEW d \in Docs, in'[d] # None, in'[d] \notin mixed'
               PROVE  \/ tag[d] = in'[d]
                      \/ \E s \in RequestIds : pc'[s] = "record" /\ request[s].doc = d
                                               /\ request[s].name = in'[d]
                      \/ \E s \in RequestIds : pc'[s] = "update" /\ request[s].target = in'[d]
                                               /\ tag[d] = request[s].name
    BY <1>2, <1>4 DEF Follows
  <2>1. in'[d] = in[d] /\ in[d] \notin mixed
    BY <1>2, <1>4
  <2> QED BY <1>10, <2>1 DEF Inv, Follow, Follows
<1>12. Belongs'
  <2> SUFFICES ASSUME NEW d \in Docs, tag[d] # None, tag[d] \notin mixed'
               PROVE  \/ in'[d] = tag[d] \/ d \in kept'
                      \/ \E s \in RequestIds : pc'[s] = "update" /\ request[s].name = tag[d]
                               /\ (request[s].target \in mixed' \/ in'[d] = request[s].target)
                      \/ \E s \in RequestIds : pc'[s] = "remove" /\ request[s].name = tag[d]
    BY <1>2, <1>4 DEF Belongs
  <2>1. CASE in[d] = tag[d] /\ in[d] # name
    BY <1>2, <2>1
  <2>2. CASE in[d] = tag[d] /\ in[d] = name
    BY <1>3, <1>4, <2>2 DEF name
  <2>3. ASSUME NEW s \in RequestIds, pc[s] = "update", request[s].name = tag[d],
               request[s].target \in mixed \/ in[d] = request[s].target
        PROVE  pc'[s] = "update" /\ (request[s].target \in mixed' \/ in'[d] = request[s].target)
    BY <1>1, <1>2, <1>4, <1>10, <2>3
  <2>4. ASSUME NEW s \in RequestIds, pc[s] = "remove" PROVE pc'[s] = "remove"
    BY <1>10, <2>4
  <2> QED BY <1>2, <1>4, <2>1, <2>2, <2>3, <2>4 DEF Inv, Follow, Belongs
<1> QED BY <1>4, <1>5, <1>6, <1>7, <1>8, <1>9, <1>11, <1>12 DEF Follow

LEMMA RemoveFollow ==
  ASSUME Inv, NEW r \in RequestIds, Remove(r)
  PROVE  Follow'
<1> DEFINE name == request[r].name
<1>1. /\ pc[r] = "remove" /\ r \in InProgress /\ name \in NamesOf(r) /\ name # None
  BY RequestFacts DEF Remove, InProgress, Inv
<1>2. /\ UNCHANGED <<in, kept>> /\ Moves(r, "done")
      /\ \/ \A d \in Docs : tag'[d] = IF tag[d] = name THEN None ELSE tag[d]
         \/ name \in mixed' /\ \A d \in Docs : tag'[d] = tag[d]
  BY <1>1 DEF Remove, Moves, GoTo, Unsettled
<1>3. /\ pc'[r] = "done" /\ UNCHANGED request
      /\ mixed \subseteq mixed' /\ mixed' \subseteq mixed \cup NamesOf(r)
      /\ \A s \in RequestIds : s # r => pc'[s] = pc[s]
      /\ \A s \in RequestIds : \A n \in NamesOf(s) : s # r /\ s \in InProgress
           => /\ n \in mixed' <=> n \in mixed
              /\ n \in NamesOf(r) => n \in mixed /\ NamesOf(s) \subseteq mixed
      /\ \A s \in RequestIds :
           /\ pc[s] \in {"update", "remove", "record"} => s \in InProgress
           /\ request[s].name \in NamesOf(s) /\ request[s].name # None
           /\ pc[s] = "update" => request[s].target \in NamesOf(s) /\ request[s].target # None
      /\ Overlap' /\ OneCreator'
  BY <1>1, <1>2, StepFacts
<1>4. name \notin mixed => \A d \in Docs : in[d] # name
  BY <1>1 DEF Inv, Follow, Emptied
<1> HIDE DEF name
<1>5. Phases'
  BY <1>3 DEF Inv, Follow, Phases
<1>6. Uncreated'
  <2> SUFFICES ASSUME NEW s \in RequestIds, pc'[s] \in {"queued", "insert"}, request[s].doc # None
               PROVE  in[request[s].doc] = None /\ tag'[request[s].doc] = None
    BY <1>2, <1>3 DEF Uncreated
  <2>1. s # r /\ request[s].doc \in Docs
    BY <1>3, RequestFacts DEF Inv
  <2> QED BY <1>2, <1>3, <2>1 DEF Inv, Follow, Uncreated
<1>7. TakenAlong'
  BY <1>3 DEF Inv, Follow, TakenAlong
<1>8. Emptied'
  BY <1>2, <1>3 DEF Inv, Follow, Emptied
<1>9. Recording'
  BY <1>1, <1>2, <1>3 DEF Inv, Follow, Recording
<1>10. \A s \in RequestIds : pc[s] \in {"update", "record"} => pc'[s] = pc[s] /\ s # r
  BY <1>1, <1>3
<1>11. Follows'
  <2> SUFFICES ASSUME NEW d \in Docs, in[d] # None, in[d] \notin mixed'
               PROVE  \/ tag'[d] = in[d]
                      \/ \E s \in RequestIds : pc'[s] = "record" /\ request[s].doc = d
                                               /\ request[s].name = in[d]
                      \/ \E s \in RequestIds : pc'[s] = "update" /\ request[s].target = in[d]
                                               /\ tag'[d] = request[s].name
    BY <1>2, <1>3 DEF Follows
  <2>1. in[d] \notin mixed
    BY <1>3
  <2>2. CASE tag[d] = in[d]
    BY <1>2, <1>4, <2>1, <2>2
  <2>3. ASSUME NEW s \in RequestIds, pc[s] = "update", request[s].target = in[d],
               tag[d] = request[s].name
        PROVE  pc'[s] = "update" /\ tag'[d] = request[s].name
    <3>1. request[s].name # name
      BY <1>1, <1>3, <1>10, <2>1, <2>3
    <3> QED BY <1>2, <1>10, <2>3, <3>1
  <2> QED BY <1>10, <2>1, <2>2, <2>3 DEF Inv, Follow, Follows
<1>12. Belongs'
  <2> SUFFICES ASSUME NEW d \in Docs, tag'[d] # None, tag'[d] \notin mixed'
               PROVE  \/ in[d] = tag'[d] \/ d \in kept
                      \/ \E s \in RequestIds : pc'[s] = "update" /\ request[s].name = tag'[d]
                               /\ (request[s].target \in mixed' \/ in[d] = request[s].target)
                      \/ \E s \in RequestIds : pc'[s] = "remove" /\ request[s].name = tag'[d]
    BY <1>2, <1>3 DEF Belongs
  <2>1. tag'[d] = tag[d] /\ tag[d] # name /\ tag[d] \notin mixed
    BY <1>2, <1>3
  <2>2. ASSUME NEW s \in RequestIds, request[s].name = tag[d] PROVE s # r
    BY <2>1, <2>2 DEF name
  <2> QED BY <1>3, <2>1, <2>2 DEF Inv, Follow, Belongs
<1> QED BY <1>3, <1>5, <1>6, <1>7, <1>8, <1>9, <1>11, <1>12 DEF Follow

-----------------------------------------------------------------------------
(***************************************************************************)
(* The theorems                                                            *)
(***************************************************************************)
LEMMA InvInit == Init => Inv
<1> SUFFICES ASSUME Init PROVE Inv
  OBVIOUS
<1>1. TypeOK
  BY CollectionAssumption DEF Init, TypeOK
<1>2. InProgress = {} /\ \A r \in RequestIds : pc[r] = "queued"
  BY DEF Init, InProgress
<1>3. OneCreator
  BY DEF Init, OneCreator
<1>4. Uncreated
  BY DEF Init, Uncreated
<1>5. Follows /\ Belongs
  BY DEF Init, Follows, Belongs
<1>6. Phases /\ Overlap /\ TakenAlong /\ Emptied /\ Recording
  BY <1>2 DEF Phases, Overlap, TakenAlong, Emptied, Recording
<1> QED BY <1>1, <1>3, <1>4, <1>5, <1>6 DEF Inv, Follow

LEMMA TypeNext == Inv /\ [Next]_vars => TypeOK'
<1> SUFFICES ASSUME Inv, [Next]_vars PROVE TypeOK'
  OBVIOUS
<1> USE DEF Inv, TypeOK
<1>1. ASSUME NEW r \in RequestIds, Begin(r) \/ CallFails(r) \/ Look(r) PROVE TypeOK'
  <2>1. /\ UNCHANGED <<colls, in, tag, request, kept>>
        /\ mixed' \subseteq Names
    <3>1. \A s \in RequestIds : NamesOf(s) \subseteq Names
      BY RequestFacts
    <3> QED BY <1>1, <3>1 DEF Begin, CallFails, Look, database, InProgress
  <2>2. pc' \in [RequestIds -> {"queued", "look", "make", "insert", "record", "rename",
                                "update", "drop", "remove", "done"}]
    BY <1>1 DEF Begin, CallFails, Look, GoTo, First, Follow, Phases
  <2> QED BY <2>1, <2>2
<1>2. ASSUME NEW r \in RequestIds, Make(r) PROVE TypeOK'
  BY <1>2, RequestFacts DEF Make, GoTo
<1>3. ASSUME NEW r \in RequestIds, Insert(r) PROVE TypeOK'
  <2>1. request[r].name \in Names /\ request[r].doc \in Docs /\ NamesOf(r) \subseteq Names
    BY <1>3, RequestFacts DEF Insert, Follow, Phases
  <2> QED BY <1>3, <2>1 DEF Insert, GoTo, Throws, Unsettled
<1>4. ASSUME NEW r \in RequestIds, Record(r) PROVE TypeOK'
  BY <1>4, RequestFacts DEF Record, GoTo, Unsettled
<1>5. ASSUME NEW r \in RequestIds, Rename(r) PROVE TypeOK'
  <2>1. request[r].name \in Names /\ request[r].target \in Names /\ NamesOf(r) \subseteq Names
    BY <1>5, RequestFacts DEF Rename, Follow, Phases
  <2>2. pc' \in [RequestIds -> {"queued", "look", "make", "insert", "record", "rename",
                                "update", "drop", "remove", "done"}]
    BY <1>5 DEF Rename, GoTo, Throws
  <2>3. mixed' \subseteq Names
    BY <1>5, <2>1 DEF Rename, Throws, Unsettled
  <2> QED BY <1>5, <2>1, <2>2, <2>3 DEF Rename
<1>6. ASSUME NEW r \in RequestIds, Update(r) PROVE TypeOK'
  <2>1. request[r].target \in Names /\ NamesOf(r) \subseteq Names
    BY <1>6, RequestFacts DEF Update, Follow, Phases
  <2> QED BY <1>6, <2>1 DEF Update, Retagged, GoTo, Unsettled
<1>7. ASSUME NEW r \in RequestIds, Drop(r) PROVE TypeOK'
  <2>1. NamesOf(r) \subseteq Names
    BY RequestFacts
  <2> QED BY <1>7, <2>1 DEF Drop, GoTo, Throws, Unsettled
<1>8. ASSUME NEW r \in RequestIds, Remove(r) PROVE TypeOK'
  <2>1. NamesOf(r) \subseteq Names
    BY RequestFacts
  <2> QED BY <1>8, <2>1 DEF Remove, GoTo, Unsettled
<1>9. CASE Done \/ UNCHANGED vars
  BY <1>9 DEF Done, vars
<1> QED BY <1>1, <1>2, <1>3, <1>4, <1>5, <1>6, <1>7, <1>8, <1>9 DEF Next

LEMMA FollowNext == Inv /\ [Next]_vars => Follow'
<1> SUFFICES ASSUME Inv, [Next]_vars PROVE Follow'
  OBVIOUS
<1>1. ASSUME NEW r \in RequestIds, CallFails(r) \/ Look(r) \/ Make(r) PROVE Follow'
  <2>1. PICK w \in {"make", "rename", "done"} :
          /\ Moves(r, w) /\ (w = "rename" => request[r].op = "rename")
          /\ pc[r] \in {"look", "make", "insert", "rename", "drop"}
          /\ UNCHANGED <<in, tag, mixed, kept>>
    BY <1>1 DEF CallFails, Look, Make, Moves, GoTo, database, Inv, Follow, Phases
  <2> QED BY <2>1, NeutralFollow DEF InProgress
<1>2. ASSUME NEW r \in RequestIds, Rename(r) PROVE Follow'
  <2>1. CASE request[r].name \in colls /\ request[r].target \notin colls
    BY <1>2, <2>1, RenameFollow
  <2>2. CASE ~(request[r].name \in colls /\ request[r].target \notin colls)
    <3>1. Moves(r, "done") /\ pc[r] = "rename" /\ UNCHANGED <<in, tag, mixed, kept>>
      BY <1>2, <2>2 DEF Rename, Moves, GoTo
    <3> QED BY <3>1, NeutralFollow DEF InProgress
  <2> QED BY <2>1, <2>2
<1>3. CASE Done \/ UNCHANGED vars
  BY <1>3 DEF Done, vars, Inv, Follow, Phases, Overlap, OneCreator, Uncreated, Follows, Belongs,
              TakenAlong, Emptied, Recording, InProgress, NamesOf
<1> QED BY <1>1, <1>2, <1>3, BeginFollow, InsertFollow, RecordFollow, UpdateFollow, DropFollow,
           RemoveFollow DEF Next

LEMMA InvNext == Inv /\ [Next]_vars => Inv'
BY TypeNext, FollowNext DEF Inv

\* The state is well typed, and a document is in a collection that exists.
THEOREM TypeCorrect == Spec => []TypeOK
<1>1. Inv => TypeOK
  BY DEF Inv
<1> QED BY <1>1, InvInit, InvNext, PTL DEF Spec

\* Of a collection no two requests were at, and whose requests went well, every document
\* has its versions, however often it was renamed (rename.cpp:47).
THEOREM HistoryFollows == Spec => []VersionsFollow
<1>1. Inv => VersionsFollow
  <2> SUFFICES ASSUME Inv, NEW d \in Docs, in[d] # None, Settled(in[d])
               PROVE  tag[d] = in[d]
    BY DEF VersionsFollow
  <2>1. \A s \in RequestIds : pc[s] \in {"record", "update"} =>
          /\ s \in InProgress /\ request[s].name \in NamesOf(s)
          /\ pc[s] = "update" => request[s].target \in NamesOf(s)
    BY RequestFacts DEF Inv, Follow, Phases, InProgress
  <2> QED BY <2>1 DEF Settled, Inv, Follow, Follows
<1> QED BY <1>1, InvInit, InvNext, PTL DEF Spec

\* Such a collection has no versions of documents of another, but of those that were
\* dropped without their history (drop.cpp:38, rename.cpp:47).
THEOREM HistoryBelongs == Spec => []NoStrayVersions
<1>1. Inv => NoStrayVersions
  <2> SUFFICES ASSUME Inv, NEW d \in Docs, tag[d] # None, Settled(tag[d])
               PROVE  in[d] = tag[d] \/ d \in kept
    BY DEF NoStrayVersions
  <2>1. \A s \in RequestIds : pc[s] \in {"update", "remove"} =>
          s \in InProgress /\ request[s].name \in NamesOf(s)
    BY RequestFacts DEF Inv, InProgress
  <2> QED BY <2>1 DEF Settled, Inv, Follow, Belongs
<1> QED BY <1>1, InvInit, InvNext, PTL DEF Spec
=============================================================================
