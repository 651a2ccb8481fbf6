--------------------------- MODULE LogQueueProofs ---------------------------
(***************************************************************************)
(* Theorems about LogQueue, for any number of producers and lines and any  *)
(* size of a buffer.                                                       *)
(***************************************************************************)
EXTENDS LogQueue, FiniteSetTheorems, TLAPS

Placing == {"store", "count"}
Making == {"setup", "publish"}

\* Who has an index below Size has a slot of the current buffer to itself: empty
\* until it stores, not counted until it counts.
OwnSlots ==
  \A p \in Producers : pc[p] \in Placing =>
    /\ at[p] \in Slots /\ at[p] < windex
    /\ pc[p] = "store" => item[Current][at[p]] = None
    /\ pc[p] = "count" => item[Current][at[p]] # None /\ at[p] \notin counted[Current]
    /\ \A q \in Producers \ {p} : pc[q] \in Placing => at[q] # at[p]

\* Slots are filled below the index only, and counted when filled.
FilledBelow ==
  \A i \in Slots :
    /\ item[Current][i] # None => i < windex
    /\ i \in counted[Current] => item[Current][i] # None

\* A thread makes a buffer when the current one is full, and then all others spin or
\* have not begun.
OneMakes ==
  \A p \in Producers :
    /\ pc[p] = "setup" => counted[Current] = Slots /\ pushed = Current
    /\ pc[p] = "publish" => /\ pushed + 1 = Current
                            /\ \A i \in Slots : item[Current][i] = None
    /\ pc[p] \in Making => /\ windex >= Size
                           /\ \A q \in Producers \ {p} : pc[q] \notin Placing \cup Making
PushedCurrent == (\A p \in Producers : pc[p] # "publish") => pushed = Current

\* Buffers before the current one are full, and what was read was filled.
Read(k, i) == k <= popped \/ (k = popped + 1 /\ i < rindex)
FullBefore == \A k \in 1 .. Current - 1, i \in Slots : item[k][i] # None
ReadIsFilled ==
  /\ \A k \in 1 .. Current, i \in Slots : Read(k, i) => item[k][i] # None
  /\ popped = Current => rindex = 0

\* Who is in push() has a line.
HasLine == \A p \in Producers : pc[p] # "idle" => sent[p] >= 1

\* The process ends when nobody logs.
EndsIdle == mode # "ready" => \A p \in Producers : pc[p] = "idle"

Control == OwnSlots /\ FilledBelow /\ OneMakes /\ PushedCurrent /\ FullBefore
           /\ ReadIsFilled /\ HasLine /\ EndsIdle
Inv == TypeOK /\ Control
-----------------------------------------------------------------------------
(***************************************************************************)
(* What the steps do to the slots                                          *)
(***************************************************************************)
LEMMA TypeFacts ==
  ASSUME TypeOK
  PROVE  /\ Current \in Nat \ {0}
         /\ \A k \in 1 .. Current : item[k] \in [Slots -> Lines \cup {None}]
         /\ \A k \in 1 .. Current : counted[k] \in SUBSET Slots
BY DEF TypeOK, Current

LEMMA StoreEffect ==
  ASSUME TypeOK, Control, NEW p \in Producers, Store(p)
  PROVE  /\ item' \in Seq([Slots -> Lines \cup {None}])
         /\ Len(item') = Len(item)
         /\ Line(p) \in Lines
         /\ item'[Current][at[p]] = Line(p)
         /\ \A k \in 1 .. Current, i \in Slots :
              k # Current \/ i # at[p] => item'[k][i] = item[k][i]
<1> DEFINE c == Current
           B == [Slots -> Lines \cup {None}]
           new == [item[c] EXCEPT ![at[p]] = Line(p)]
<1>1. c \in 1 .. Len(item) /\ item \in Seq(B) /\ item[c] \in B
  BY TypeFacts DEF TypeOK, Current
<1>2. at[p] \in Slots
  BY DEF Control, OwnSlots, Store, Placing
<1>3. Line(p) \in Lines
  <2>1. sent[p] \in 1 .. MaxLines
    BY QueueAssumption DEF TypeOK, Control, HasLine, Store
  <2> QED BY <2>1 DEF Line, Lines
<1>4. new \in B
  BY <1>1, <1>2, <1>3
<1>5. item' = [item EXCEPT ![c] = new]
  BY DEF Store
<1>6. item' \in Seq(B) /\ Len(item') = Len(item) /\ item'[c] = new
      /\ \A k \in 1 .. c : k # c => item'[k] = item[k]
  <2> HIDE DEF B, new
  <2> QED BY <1>1, <1>4, <1>5 DEF Current
<1>7. new[at[p]] = Line(p) /\ \A i \in Slots : i # at[p] => new[i] = item[c][i]
  BY <1>1, <1>2
<1> QED BY <1>3, <1>6, <1>7

LEMMA SetupEffect ==
  ASSUME TypeOK, NEW p \in Producers, Setup(p)
  PROVE  /\ item' \in Seq([Slots -> Lines \cup {None}])
         /\ counted' \in Seq(SUBSET Slots)
         /\ Len(item') = Current + 1 /\ Len(counted') = Current + 1
         /\ \A k \in 1 .. Current : item'[k] = item[k] /\ counted'[k] = counted[k]
         /\ item'[Current + 1] = EmptyBuffer /\ counted'[Current + 1] = {}
<1>1. EmptyBuffer \in [Slots -> Lines \cup {None}]
  BY DEF EmptyBuffer
<1> HIDE DEF EmptyBuffer
<1> QED BY <1>1 DEF TypeOK, Setup, Current

\* A count adds a slot, and one that is lost none.
LEMMA CountEffect ==
  ASSUME TypeOK, Control, NEW p \in Producers, Count(p)
  PROVE  /\ counted' \in Seq(SUBSET Slots)
         /\ Len(counted') = Current
         /\ counted'[Current] \in {counted[Current], counted[Current] \cup {at[p]}}
         /\ pc' \in {[pc EXCEPT ![p] = "setup"], [pc EXCEPT ![p] = "idle"]}
         /\ pc'[p] = "setup" => counted'[Current] = Slots
<1> DEFINE c == Current
           more == counted[c] \cup {at[p]}
<1>1. c \in 1 .. Len(counted) /\ counted \in Seq(SUBSET Slots) /\ counted[c] \in SUBSET Slots
  BY TypeFacts DEF TypeOK, Current
<1>2. at[p] \in Slots
  BY DEF Control, OwnSlots, Count, Placing
<1>3. more \in SUBSET Slots
  BY <1>1, <1>2
<1>4. pc \in [Producers -> States]
  BY DEF TypeOK
<1>5. CASE Counts(p, Size)
  <2>1. counted' = [counted EXCEPT ![c] = more]
    BY <1>5 DEF Counts
  <2>2. counted' \in Seq(SUBSET Slots) /\ Len(counted') = Len(counted) /\ counted'[c] = more
    <3> HIDE DEF more
    <3> QED BY <2>1, <1>1, <1>3
  <2>3. pc' = [pc EXCEPT ![p] = IF Cardinality(more) = Size THEN "setup" ELSE "idle"]
    BY <1>5 DEF Counts
  <2>4. Cardinality(more) = Size => more = Slots
    <3>1. IsFiniteSet(Slots) /\ Cardinality(Slots) = Size
      BY FS_Interval, QueueAssumption DEF Slots
    <3> QED BY <3>1, <1>3, FS_Subset
  <2>5. Len(counted) = c
    BY DEF TypeOK
  <2> HIDE DEF more
  <2>6. pc'[p] = "setup" => Cardinality(more) = Size
    BY <2>3, <1>4
  <2> QED BY <2>2, <2>3, <2>4, <2>5, <2>6 DEF more
<1>6. CASE pc' = [pc EXCEPT ![p] = "idle"] /\ UNCHANGED counted
  BY <1>6, <1>1, <1>4 DEF TypeOK
<1> QED BY <1>5, <1>6 DEF Count
-----------------------------------------------------------------------------
(***************************************************************************)
(* Every step preserves the invariant                                      *)
(***************************************************************************)
LEMMA LogStep ==
  ASSUME Inv, NEW p \in Producers, Log(p)
  PROVE  Inv'
<1>1. TypeOK'
  BY QueueAssumption DEF Inv, TypeOK, Log, consumerVars, Current, States
<1>2. Control'
  BY DEF Inv, TypeOK, Log, consumerVars, Current, Control, OwnSlots, FilledBelow, OneMakes,
         PushedCurrent, FullBefore, ReadIsFilled, Read, HasLine, EndsIdle, Placing, Making
<1> QED BY <1>1, <1>2 DEF Inv

LEMMA ClaimStep ==
  ASSUME Inv, NEW p \in Producers, Claim(p)
  PROVE  Inv'
<1> USE QueueAssumption
<1>1. TypeOK'
  BY DEF Inv, TypeOK, Claim, consumerVars, Current, States
<1>2. windex < Size => windex \in Slots
  BY DEF Inv, TypeOK, Slots
<1>3. OwnSlots'
  BY <1>2 DEF Inv, TypeOK, Claim, consumerVars, Current, Control, OwnSlots, FilledBelow, Placing
<1>4. FilledBelow'
  <2>1. windex' = windex + 1 /\ windex \in Nat /\ UNCHANGED <<item, counted>> /\ Current' = Current
    BY DEF Inv, TypeOK, Claim, Current
  <2>2. ASSUME NEW i \in Slots
        PROVE  (item[Current][i] # None => i < windex + 1)
               /\ (i \in counted[Current] => item[Current][i] # None)
    BY <2>1 DEF Inv, Control, FilledBelow, Slots
  <2> QED BY <2>1, <2>2 DEF FilledBelow
<1>6. (OneMakes /\ PushedCurrent)'
  BY DEF Inv, TypeOK, Claim, consumerVars, Current, Control, OneMakes, PushedCurrent,
         Making, Placing
<1>5. (FullBefore /\ ReadIsFilled /\ HasLine /\ EndsIdle)'
  BY DEF Inv, TypeOK, Claim, consumerVars, Current, Control, FullBefore, ReadIsFilled, Read,
         HasLine, EndsIdle
<1> QED BY <1>1, <1>3, <1>4, <1>5, <1>6 DEF Inv, Control

LEMMA SpinStep ==
  ASSUME Inv, NEW p \in Producers, Spin(p)
  PROVE  Inv'
<1>1. TypeOK'
  BY DEF Inv, TypeOK, Spin, consumerVars, Current, States
<1>2. Control'
  BY DEF Inv, TypeOK, Spin, consumerVars, Current, Control, OwnSlots, FilledBelow, OneMakes,
         PushedCurrent, FullBefore, ReadIsFilled, Read, HasLine, EndsIdle, Placing, Making
<1> QED BY <1>1, <1>2 DEF Inv

LEMMA StoreStep ==
  ASSUME Inv, NEW p \in Producers, Store(p)
  PROVE  Inv'
<1> USE DEF Inv
<1>0. /\ pc[p] = "store" /\ pc' = [pc EXCEPT ![p] = "count"]
      /\ pc \in [Producers -> States]
      /\ UNCHANGED <<counted, pushed, popped, windex, rindex, mode, at, sent>>
  BY DEF Store, TypeOK, consumerVars
<1>1. /\ Current' = Current /\ Current \in Nat \ {0}
      /\ Line(p) # None
      /\ item'[Current][at[p]] = Line(p)
      /\ \A k \in 1 .. Current, i \in Slots :
           k # Current \/ i # at[p] => item'[k][i] = item[k][i]
  BY StoreEffect, TypeFacts, QueueAssumption DEF Current, Lines
<1>2. /\ at[p] \in Slots /\ at[p] < windex /\ item[Current][at[p]] = None
      /\ at[p] \notin counted[Current]
      /\ \A q \in Producers \ {p} : pc[q] \in Placing => at[q] # at[p]
  BY <1>0 DEF Control, OwnSlots, Placing, FilledBelow
<1>3. TypeOK'
  BY <1>0, StoreEffect DEF TypeOK, Store, consumerVars, Current, States
<1>4. OwnSlots'
  BY <1>0, <1>1, <1>2 DEF Control, OwnSlots, Placing, States
<1>5. FilledBelow'
  BY <1>0, <1>1, <1>2 DEF Control, FilledBelow
<1>6. \A q \in Producers : pc[q] \notin Making
  BY <1>0 DEF Control, OneMakes, Making, Placing
<1>7. (OneMakes /\ PushedCurrent)'
  BY <1>0, <1>1, <1>6 DEF Control, OneMakes, PushedCurrent, Making
<1>8. FullBefore'
  BY <1>0, <1>1, <1>2 DEF Control, FullBefore
<1>9. ReadIsFilled'
  BY <1>0, <1>1, <1>2 DEF Control, ReadIsFilled, Read
<1>10. (HasLine /\ EndsIdle)'
  BY <1>0 DEF Control, HasLine, EndsIdle
<1> QED BY <1>3, <1>4, <1>5, <1>7, <1>8, <1>9, <1>10 DEF Control

LEMMA CountStep ==
  ASSUME Inv, NEW p \in Producers, Count(p)
  PROVE  Inv'
<1> USE DEF Inv
<1>0. /\ pc[p] = "count" /\ pc \in [Producers -> States]
      /\ UNCHANGED <<item, pushed, popped, windex, rindex, mode, at, sent, file>>
      /\ late' \in BOOLEAN
  BY DEF Count, TypeOK, consumerVars
<1>1. /\ counted'[Current] \in {counted[Current], counted[Current] \cup {at[p]}}
      /\ pc' \in {[pc EXCEPT ![p] = "setup"], [pc EXCEPT ![p] = "idle"]}
      /\ pc'[p] = "setup" => counted'[Current] = Slots
      /\ Current' = Current
  BY <1>0, CountEffect DEF Current
<1>2. /\ at[p] \in Slots /\ item[Current][at[p]] # None /\ at[p] \notin counted[Current]
      /\ \A q \in Producers \ {p} : pc[q] \in Placing => at[q] # at[p]
  BY <1>0 DEF Control, OwnSlots, Placing
<1>3. TypeOK'
  BY <1>0, <1>1, CountEffect DEF TypeOK, Current, States
<1>4. \A q \in Producers : pc[q] \notin Making
  BY <1>0 DEF Control, OneMakes, Making, Placing
<1>5. OwnSlots'
  BY <1>0, <1>1, <1>2 DEF Control, OwnSlots, Placing
<1>6. FilledBelow'
  BY <1>0, <1>1, <1>2 DEF Control, FilledBelow
<1>7. pushed = Current
  BY <1>4 DEF Control, PushedCurrent, Making
<1>11. ASSUME pc'[p] = "setup"
       PROVE  windex >= Size /\ \A q \in Producers \ {p} : pc[q] \notin Placing
  <2>1. \A i \in Slots : item[Current][i] # None /\ i < windex
    BY <1>0, <1>1, <1>2, <1>6, <1>11 DEF FilledBelow
  <2>2. Size - 1 \in Slots
    BY QueueAssumption DEF Slots
  <2>3. windex >= Size
    BY <2>1, <2>2, QueueAssumption DEF TypeOK
  <2>4. ASSUME NEW q \in Producers \ {p}, pc[q] \in Placing PROVE FALSE
    <3>1. at[q] \in Slots /\ at[q] # at[p] /\ (pc[q] = "store" => item[Current][at[q]] = None)
          /\ (pc[q] = "count" => at[q] \notin counted[Current])
      BY <1>2, <2>4 DEF Control, OwnSlots, Placing
    <3> QED BY <1>1, <1>11, <2>1, <2>4, <3>1 DEF Placing
  <2> QED BY <2>3, <2>4
<1>8. (OneMakes /\ PushedCurrent)'
  BY <1>0, <1>1, <1>4, <1>7, <1>11 DEF OneMakes, PushedCurrent, Making, Placing
<1>9. (FullBefore /\ ReadIsFilled)'
  BY <1>0, <1>1 DEF Control, FullBefore, ReadIsFilled, Read
<1>10. (HasLine /\ EndsIdle)'
  BY <1>0, <1>1 DEF Control, HasLine, EndsIdle
<1> QED BY <1>3, <1>5, <1>6, <1>8, <1>9, <1>10 DEF Control

LEMMA SetupStep ==
  ASSUME Inv, NEW p \in Producers, Setup(p)
  PROVE  Inv'
<1> USE DEF Inv
<1>0. /\ pc[p] = "setup" /\ pc' = [pc EXCEPT ![p] = "publish"]
      /\ pc \in [Producers -> States]
      /\ UNCHANGED <<pushed, popped, windex, rindex, mode, at, sent, file, late>>
  BY DEF Setup, TypeOK, consumerVars
<1>1. /\ Current' = Current + 1 /\ Current \in Nat \ {0}
      /\ \A k \in 1 .. Current : item'[k] = item[k] /\ counted'[k] = counted[k]
      /\ \A i \in Slots : item'[Current'][i] = None
      /\ counted'[Current'] = {}
  BY SetupEffect, TypeFacts DEF Current, EmptyBuffer
<1>2. /\ counted[Current] = Slots /\ pushed = Current
      /\ \A i \in Slots : item[Current][i] # None /\ i < windex
      /\ \A q \in Producers \ {p} : pc[q] \notin Making
  BY <1>0 DEF Control, OneMakes, FilledBelow, Making
<1>3. \A q \in Producers : pc[q] \notin Placing
  BY <1>0 DEF Control, OneMakes, Making, Placing
<1>4. windex >= Size
  BY <1>0 DEF Control, OneMakes, Making
<1>5. TypeOK'
  BY <1>0, <1>1, SetupEffect DEF TypeOK, Current, States
<1>6. (OwnSlots /\ FilledBelow)'
  BY <1>0, <1>1, <1>3 DEF OwnSlots, FilledBelow, Placing
<1>7. (OneMakes /\ PushedCurrent)'
  BY <1>0, <1>1, <1>2, <1>3, <1>4 DEF OneMakes, PushedCurrent, Making, Placing
<1>8. FullBefore'
  BY <1>1, <1>2 DEF Control, FullBefore
<1>9. ReadIsFilled'
  <2>1. popped \in Nat /\ popped <= Current /\ (popped = Current => rindex = 0)
    BY <1>2 DEF Control, ReadIsFilled, TypeOK
  <2>2. ASSUME NEW k \in 1 .. Current + 1, NEW i \in Slots, Read(k, i)
        PROVE  item'[k][i] # None
    <3>1. i \in Nat
      BY DEF Slots
    <3>2. k \in 1 .. Current
      BY <1>1, <2>1, <2>2, <3>1 DEF Read
    <3> QED BY <1>1, <2>2, <3>2 DEF Control, ReadIsFilled
  <2> QED BY <1>0, <1>1, <2>1, <2>2 DEF ReadIsFilled, Read
<1>10. (HasLine /\ EndsIdle)'
  BY <1>0 DEF Control, HasLine, EndsIdle
<1> QED BY <1>5, <1>6, <1>7, <1>8, <1>9, <1>10 DEF Control

LEMMA PublishStep ==
  ASSUME Inv, NEW p \in Producers, Publish(p)
  PROVE  Inv'
<1> USE DEF Inv
<1>0. /\ pc[p] = "publish" /\ pc' = [pc EXCEPT ![p] = "idle"]
      /\ pc \in [Producers -> States]
      /\ pushed' = pushed + 1 /\ windex' = 0 /\ Current' = Current
      /\ UNCHANGED <<item, counted, popped, rindex, mode, at, sent, file, late>>
  BY DEF Publish, TypeOK, consumerVars, Current
<1>1. /\ pushed + 1 = Current
      /\ \A i \in Slots : item[Current][i] = None
      /\ \A q \in Producers \ {p} : pc[q] \notin Placing \cup Making
  BY <1>0 DEF Control, OneMakes, Making
<1>2. TypeOK'
  BY <1>0, <1>1 DEF TypeOK, Current, States
<1>3. (OwnSlots /\ FilledBelow)'
  BY <1>0, <1>1 DEF Control, OwnSlots, FilledBelow, Placing
<1>4. (OneMakes /\ PushedCurrent)'
  BY <1>0, <1>1 DEF OneMakes, PushedCurrent, Making
<1>5. (FullBefore /\ ReadIsFilled)'
  BY <1>0 DEF Control, FullBefore, ReadIsFilled, Read
<1>6. (HasLine /\ EndsIdle)'
  BY <1>0 DEF Control, HasLine, EndsIdle
<1> QED BY <1>2, <1>3, <1>4, <1>5, <1>6 DEF Control

LEMMA PopStep ==
  ASSUME Inv, Pop
  PROVE  Inv'
<1> USE DEF Inv
<1>0. /\ UNCHANGED <<item, counted, pushed, windex, mode, pc, at, sent, late>>
      /\ Current' = Current
      /\ popped < pushed /\ item[popped + 1][rindex] # None
      /\ file' = Append(file, item[popped + 1][rindex])
      /\ \/ rindex + 1 = Size /\ rindex' = 0 /\ popped' = popped + 1
         \/ rindex + 1 # Size /\ rindex' = rindex + 1 /\ popped' = popped
  BY DEF Pop, Readable, Current
<1>1. popped + 1 \in 1 .. Current /\ rindex \in Slots /\ Current \in Nat
  BY <1>0, TypeFacts DEF TypeOK
<1>2. item[popped + 1][rindex] \in Lines
  BY <1>0, <1>1, TypeFacts
<1>3. rindex' \in Slots
  BY <1>0, <1>1, QueueAssumption DEF Slots
<1>4. TypeOK'
  BY <1>0, <1>1, <1>2, <1>3 DEF TypeOK, Current
<1>5. ReadIsFilled'
  BY <1>0, <1>1, QueueAssumption DEF Control, ReadIsFilled, Read, Slots, TypeOK
<1>6. (OwnSlots /\ FilledBelow /\ OneMakes /\ PushedCurrent)'
  BY <1>0 DEF Control, OwnSlots, FilledBelow, OneMakes, PushedCurrent
<1>7. (FullBefore /\ HasLine /\ EndsIdle)'
  BY <1>0 DEF Control, FullBefore, HasLine, EndsIdle
<1> QED BY <1>4, <1>5, <1>6, <1>7 DEF Control

LEMMA EndStep ==
  ASSUME Inv, Shutdown \/ End \/ UNCHANGED vars
  PROVE  Inv'
<1>1. TypeOK'
  BY DEF Inv, TypeOK, Shutdown, End, vars, Current
<1>2. Control'
  BY DEF Inv, TypeOK, Shutdown, End, vars, Current, Control, OwnSlots, FilledBelow, OneMakes,
         PushedCurrent, FullBefore, ReadIsFilled, Read, HasLine, EndsIdle
<1> QED BY <1>1, <1>2 DEF Inv

LEMMA InvInit == Init => Inv
<1> SUFFICES ASSUME Init PROVE Inv
  OBVIOUS
<1>1. EmptyBuffer \in [Slots -> Lines \cup {None}] /\ \A i \in Slots : EmptyBuffer[i] = None
  BY DEF EmptyBuffer
<1>2. item = <<EmptyBuffer>> /\ counted = <<{}>> /\ Current = 1
  BY DEF Init, Current
<1>3. TypeOK
  <2> HIDE DEF EmptyBuffer
  <2>1. item \in Seq([Slots -> Lines \cup {None}])
    BY <1>1, <1>2
  <2>2. counted \in Seq(SUBSET Slots) /\ Len(counted) = Current /\ Current # 0
    BY <1>2
  <2>3. 0 \in Slots
    BY QueueAssumption DEF Slots
  <2>4. /\ popped \in Nat /\ pushed \in Nat /\ popped <= pushed /\ pushed <= Current
        /\ windex \in Nat /\ rindex \in Slots
    BY <1>2, <2>3 DEF Init
  <2>5. /\ pc \in [Producers -> States] /\ at \in [Producers -> Nat]
        /\ sent \in [Producers -> 0 .. MaxLines]
    <3>1. 0 \in 0 .. MaxLines
      BY QueueAssumption
    <3> QED BY <3>1 DEF Init, States
  <2>6. /\ mode \in {"ready", "shutdown", "done"} /\ file \in Seq(Lines) /\ late \in BOOLEAN
    <3>1. mode = "ready" /\ file = <<>>
      BY DEF Init
    <3>2. late \in BOOLEAN
      BY Zenon DEF Init
    <3> QED BY <3>1, <3>2
  <2> QED BY <2>1, <2>2, <2>4, <2>5, <2>6 DEF TypeOK
<1>4. Control
  <2> HIDE DEF EmptyBuffer
  <2> QED BY <1>1, <1>2 DEF Init, Control, OwnSlots, FilledBelow, OneMakes, PushedCurrent,
             FullBefore, ReadIsFilled, Read, HasLine, EndsIdle, Placing, Making, Slots
<1> QED BY <1>3, <1>4 DEF Inv

LEMMA InvNext == Inv /\ [Next]_vars => Inv'
<1> SUFFICES ASSUME Inv, [Next]_vars PROVE Inv'
  OBVIOUS
<1>1. ASSUME NEW p \in Producers, Log(p) \/ Push(p) PROVE Inv'
  BY <1>1, LogStep, ClaimStep, SpinStep, StoreStep, CountStep, SetupStep, PublishStep DEF Push
<1>2. CASE Pop
  BY <1>2, PopStep
<1>3. CASE Shutdown \/ End \/ Stopped \/ UNCHANGED vars
  BY <1>3, EndStep DEF Stopped
<1> QED BY <1>1, <1>2, <1>3 DEF Next

THEOREM TypeCorrect == Spec => []TypeOK
<1>1. Inv => TypeOK
  BY DEF Inv
<1> QED BY <1>1, InvInit, InvNext, PTL DEF Spec

\* A slot has one writer, and it is in a buffer that is not freed.
THEOREM SlotsAreOwned == Spec => []SlotIsOwned
<1>1. Inv => SlotIsOwned
  <2> SUFFICES ASSUME Inv, NEW p \in Producers, pc[p] = "store"
               PROVE  /\ at[p] \in Slots /\ item[Current][at[p]] = None
                      /\ popped < Current
                      /\ \A q \in Producers \ {p} : pc[q] = "store" => at[q] # at[p]
    BY DEF SlotIsOwned
  <2>1. /\ at[p] \in Slots /\ item[Current][at[p]] = None
        /\ \A q \in Producers \ {p} : pc[q] = "store" => at[q] # at[p]
    BY DEF Inv, Control, OwnSlots, Placing
  <2>2. Current \in Nat \ {0} /\ popped \in Nat /\ popped <= Current
    BY TypeFacts DEF Inv, TypeOK, Current
  <2>3. popped # Current
    BY <2>1, <2>2 DEF Inv, Control, ReadIsFilled, Read
  <2> QED BY <2>1, <2>2, <2>3
<1> QED BY <1>1, InvInit, InvNext, PTL DEF Spec
-----------------------------------------------------------------------------
(***************************************************************************)
(* LogQueue implements LineLog: the lines of a thread come into the file   *)
(* in order, each once; and all of them when the process ends.             *)
(*                                                                         *)
(* The consumer reads the slots of the buffers in one order, so it is      *)
(* enough that the lines of a thread are in the slots in that order.       *)
(***************************************************************************)

Unplaced == {"claim", "spin", "store"}
Before(k, i, l, j) == k < l \/ (k = l /\ i < j)

\* The lines of a thread are in slots in the order in which it has logged them.
InOrder ==
  \A k, l \in 1 .. Current, i, j \in Slots :
    item[k][i] # None /\ item[l][j] # None /\ Before(k, i, l, j)
        /\ item[k][i].by = item[l][j].by
      => item[k][i].no < item[l][j].no

\* A line in a slot was logged, and is not the one its thread is about to place.
PlacedAreSent ==
  \A k \in 1 .. Current, i \in Slots : \A p \in Producers :
    item[k][i] # None /\ item[k][i].by = p
      => item[k][i].no <= sent[p] /\ (pc[p] \in Unplaced => item[k][i].no < sent[p])

SentArePlaced ==
  \A p \in Producers : \A n \in 1 .. sent[p] :
    \/ n = sent[p] /\ pc[p] \in Unplaced
    \/ \E k \in 1 .. Current, i \in Slots : item[k][i] = [by |-> p, no |-> n]

\* Who is about to store does so behind its earlier lines.
StoresBehind ==
  \A p \in Producers : pc[p] = "store" =>
    \A i \in Slots : item[Current][i] # None /\ item[Current][i].by = p => i < at[p]

\* The file has the lines of the slots that were read.
FileIsRead ==
  \A line \in Lines :
    Written(line) <=> \E k \in 1 .. Current, i \in Slots : Read(k, i) /\ item[k][i] = line

Order == InOrder /\ PlacedAreSent /\ SentArePlaced /\ StoresBehind /\ FileIsRead
-----------------------------------------------------------------------------
(***************************************************************************)
(* Every step preserves it                                                 *)
(***************************************************************************)
LEMMA LogOrder ==
  ASSUME Inv, Order, NEW p \in Producers, Log(p)
  PROVE  Order'
<1> USE DEF Order
<1>0. /\ pc[p] = "idle" /\ pc' = [pc EXCEPT ![p] = "claim"]
      /\ pc \in [Producers -> States]
      /\ sent' = [sent EXCEPT ![p] = @ + 1] /\ sent \in [Producers -> 0 .. MaxLines]
      /\ UNCHANGED <<item, popped, rindex, at, file>>
      /\ Current' = Current
  BY DEF Inv, TypeOK, Log, consumerVars, Current
<1>1. \A q \in Producers : sent[q] \in Nat
  BY <1>0, QueueAssumption
<1>2. \A k \in 1 .. Current, i \in Slots : item[k][i] # None => item[k][i].no \in Nat
  BY TypeFacts, QueueAssumption DEF Inv, Lines
<1>3. PlacedAreSent'
  BY <1>0, <1>1, <1>2 DEF PlacedAreSent, Unplaced
<1>4. SentArePlaced'
  <2> SUFFICES ASSUME NEW q \in Producers, NEW n \in 1 .. sent'[q],
                      ~(n = sent'[q] /\ pc'[q] \in Unplaced)
               PROVE  \E k \in 1 .. Current, i \in Slots : item[k][i] = [by |-> q, no |-> n]
    BY <1>0 DEF SentArePlaced
  <2>1. n \in 1 .. sent[q] /\ ~(n = sent[q] /\ pc[q] \in Unplaced)
    BY <1>0, <1>1 DEF Unplaced
  <2> QED BY <2>1 DEF SentArePlaced
<1>5. StoresBehind'
  BY <1>0 DEF StoresBehind
<1>6. (InOrder /\ FileIsRead)'
  BY <1>0 DEF InOrder, FileIsRead, Before, Read, Written
<1> QED BY <1>3, <1>4, <1>5, <1>6

LEMMA ClaimOrder ==
  ASSUME Inv, Order, NEW p \in Producers, Claim(p) \/ Spin(p)
  PROVE  Order'
<1> USE DEF Order
<1>0. /\ pc[p] \in Unplaced /\ pc'[p] \in Unplaced
      /\ \A q \in Producers : q # p => pc'[q] = pc[q] /\ at'[q] = at[q]
      /\ pc'[p] = "store" => at'[p] = windex
      /\ UNCHANGED <<item, popped, rindex, sent, file>>
      /\ Current' = Current
  BY DEF Inv, TypeOK, Claim, Spin, consumerVars, Current, Unplaced
<1>1. PlacedAreSent' /\ SentArePlaced'
  BY <1>0 DEF PlacedAreSent, SentArePlaced
<1>2. StoresBehind'
  BY <1>0 DEF StoresBehind, Inv, Control, FilledBelow
<1>3. (InOrder /\ FileIsRead)'
  BY <1>0 DEF InOrder, FileIsRead, Before, Read, Written
<1> QED BY <1>1, <1>2, <1>3

LEMMA StoreOrder ==
  ASSUME Inv, Order, NEW p \in Producers, Store(p)
  PROVE  Order'
<1> USE DEF Order
<1>0. /\ pc[p] = "store" /\ pc' = [pc EXCEPT ![p] = "count"]
      /\ pc \in [Producers -> States]
      /\ UNCHANGED <<popped, rindex, at, sent, file>>
      /\ sent \in [Producers -> 0 .. MaxLines]
  BY DEF Inv, TypeOK, Store, consumerVars
<1>1. /\ Current' = Current /\ Current \in Nat \ {0}
      /\ Line(p) \in Lines
      /\ item'[Current][at[p]] = Line(p)
      /\ \A k \in 1 .. Current, i \in Slots :
           k # Current \/ i # at[p] => item'[k][i] = item[k][i]
  BY StoreEffect, TypeFacts DEF Inv, Current
<1>2. at[p] \in Slots /\ item[Current][at[p]] = None
  BY <1>0 DEF Inv, Control, OwnSlots, Placing
<1>3. Line(p) # None /\ Line(p).by = p /\ Line(p).no = sent[p]
  BY <1>1, QueueAssumption DEF Line, Lines
<1>4. \A k \in 1 .. Current, i \in Slots : item[k][i] # None => item[k][i] \in Lines
  BY TypeFacts DEF Inv
<1>5. \A k \in 1 .. Current, i \in Slots :
        item[k][i] # None /\ item[k][i].by = p
          => item[k][i].no < sent[p] /\ Before(k, i, Current, at[p])
  BY <1>0, <1>1 DEF PlacedAreSent, StoresBehind, Unplaced, Before
<1>6. InOrder'
  <2> SUFFICES ASSUME NEW k \in 1 .. Current, NEW l \in 1 .. Current,
                      NEW i \in Slots, NEW j \in Slots,
                      item'[k][i] # None, item'[l][j] # None, Before(k, i, l, j),
                      item'[k][i].by = item'[l][j].by
               PROVE  item'[k][i].no < item'[l][j].no
    BY <1>1 DEF InOrder, Before
  <2>1. CASE (k # Current \/ i # at[p]) /\ (l # Current \/ j # at[p])
    BY <1>1, <2>1 DEF InOrder
  <2>2. CASE l = Current /\ j = at[p]
    <3>1. k # Current \/ i # at[p]
      BY <2>2 DEF Before, Slots
    <3> QED BY <1>1, <1>3, <1>5, <2>2, <3>1
  <2>3. CASE k = Current /\ i = at[p]
    <3>1. l # Current \/ j # at[p]
      BY <2>3 DEF Before, Slots
    <3>2. item[l][j] # None /\ item[l][j].by = p
      BY <1>1, <1>3, <2>3, <3>1
    <3>3. Before(l, j, Current, at[p])
      BY <1>5, <3>2
    <3> QED BY <2>3, <3>3 DEF Before, Slots
  <2> QED BY <2>1, <2>2, <2>3
<1>7. PlacedAreSent'
  <2> SUFFICES ASSUME NEW k \in 1 .. Current, NEW i \in Slots, NEW q \in Producers,
                      item'[k][i] # None, item'[k][i].by = q
               PROVE  /\ item'[k][i].no <= sent[q]
                      /\ pc'[q] \in Unplaced => item'[k][i].no < sent[q]
    BY <1>0, <1>1 DEF PlacedAreSent
  <2>1. CASE k = Current /\ i = at[p]
    <3>1. q = p /\ item'[k][i].no = sent[p] /\ pc'[p] \notin Unplaced
      BY <1>0, <1>1, <1>3, <2>1 DEF Unplaced
    <3>2. sent[p] <= sent[p]
      BY <1>0, QueueAssumption
    <3> QED BY <3>1, <3>2
  <2>2. CASE k # Current \/ i # at[p]
    BY <1>0, <1>1, <2>2 DEF PlacedAreSent, Unplaced
  <2> QED BY <2>1, <2>2
<1>8. SentArePlaced'
  <2> SUFFICES ASSUME NEW q \in Producers, NEW n \in 1 .. sent[q],
                      ~(n = sent[q] /\ pc'[q] \in Unplaced)
               PROVE  \E k \in 1 .. Current, i \in Slots : item'[k][i] = [by |-> q, no |-> n]
    BY <1>0, <1>1 DEF SentArePlaced
  <2>1. CASE q = p /\ n = sent[p]
    BY <1>1, <1>2, <2>1 DEF Line
  <2>2. CASE q # p \/ n # sent[p]
    <3>1. PICK k \in 1 .. Current, i \in Slots : item[k][i] = [by |-> q, no |-> n]
      BY <1>0, <2>2 DEF SentArePlaced
    <3>2. [by |-> q, no |-> n] # None
      BY <1>0, QueueAssumption
    <3>3. k # Current \/ i # at[p]
      BY <1>2, <3>1, <3>2
    <3> QED BY <1>1, <3>1, <3>3
  <2> QED BY <2>1, <2>2
<1>9. StoresBehind'
  BY <1>0, <1>1, <1>2, <1>3 DEF StoresBehind
<1>10. FileIsRead'
  <2>1. ~Read(Current, at[p])
    BY <1>1, <1>2 DEF Inv, Control, ReadIsFilled
  <2>2. \A k \in 1 .. Current, i \in Slots : Read(k, i) => item'[k][i] = item[k][i]
    BY <1>1, <2>1
  <2>3. \A k \in 1 .. Current, i \in Slots : Read(k, i)' <=> Read(k, i)
    BY <1>0 DEF Read
  <2> QED BY <1>0, <1>1, <2>2, <2>3 DEF FileIsRead, Written
<1> QED BY <1>6, <1>7, <1>8, <1>9, <1>10

LEMMA CountOrder ==
  ASSUME Inv, Order, NEW p \in Producers, Count(p) \/ Publish(p)
  PROVE  Order'
<1> USE DEF Order
<1>0. /\ pc[p] \notin Unplaced /\ pc'[p] \notin Unplaced
      /\ \A q \in Producers : q # p => pc'[q] = pc[q]
      /\ UNCHANGED <<item, popped, rindex, sent, at, file>>
      /\ Current' = Current
  BY DEF Inv, TypeOK, Count, Counts, Publish, consumerVars, Current, Unplaced
<1>1. PlacedAreSent' /\ SentArePlaced'
  BY <1>0 DEF PlacedAreSent, SentArePlaced
<1>2. StoresBehind'
  BY <1>0 DEF StoresBehind, Unplaced
<1>3. (InOrder /\ FileIsRead)'
  BY <1>0 DEF InOrder, FileIsRead, Before, Read, Written
<1> QED BY <1>1, <1>2, <1>3

LEMMA SetupOrder ==
  ASSUME Inv, Order, NEW p \in Producers, Setup(p)
  PROVE  Order'
<1> USE DEF Order
<1>0. /\ pc[p] = "setup" /\ pc' = [pc EXCEPT ![p] = "publish"]
      /\ pc \in [Producers -> States]
      /\ UNCHANGED <<popped, rindex, at, sent, file>>
  BY DEF Inv, TypeOK, Setup, consumerVars
<1>1. /\ Current' = Current + 1 /\ Current \in Nat \ {0}
      /\ \A k \in 1 .. Current : item'[k] = item[k]
      /\ \A i \in Slots : item'[Current + 1][i] = None
  BY SetupEffect, TypeFacts DEF Inv, Current, EmptyBuffer
<1>2. \A k \in 1 .. Current + 1, i \in Slots :
        item'[k][i] # None => k \in 1 .. Current /\ item'[k][i] = item[k][i]
  BY <1>1
<1>3. InOrder'
  BY <1>1, <1>2 DEF InOrder, Before
<1>4. PlacedAreSent'
  BY <1>0, <1>1, <1>2 DEF PlacedAreSent, Unplaced
<1>5. SentArePlaced'
  BY <1>0, <1>1 DEF SentArePlaced, Unplaced
<1>6. StoresBehind'
  BY <1>0, <1>1 DEF StoresBehind
<1>7. FileIsRead'
  <2>1. \A k \in 1 .. Current + 1, i \in Slots : \A line \in Lines :
          item'[k][i] = line => k \in 1 .. Current /\ item[k][i] = line
    BY <1>2, QueueAssumption DEF Lines
  <2>2. \A line \in Lines :
          (\E k \in 1 .. Current + 1, i \in Slots : Read(k, i) /\ item'[k][i] = line)
            <=> \E k \in 1 .. Current, i \in Slots : Read(k, i) /\ item[k][i] = line
    BY <1>1, <2>1
  <2> QED BY <1>0, <1>1, <2>2 DEF FileIsRead, Written, Read
<1> QED BY <1>3, <1>4, <1>5, <1>6, <1>7

\* The slot that is read next, and what is read after it.
LEMMA PopEffect ==
  ASSUME Inv, Pop
  PROVE  /\ popped + 1 \in 1 .. Current /\ rindex \in Slots
         /\ item[popped + 1][rindex] \in Lines
         /\ ~Read(popped + 1, rindex)
         /\ \A k \in 1 .. Current, i \in Slots :
              Read(k, i)' <=> Read(k, i) \/ (k = popped + 1 /\ i = rindex)
         /\ \A line \in Lines : Written(line)' <=> Written(line) \/ line = item[popped + 1][rindex]
<1> USE DEF Inv
<1>0. /\ UNCHANGED item
      /\ popped < pushed /\ item[popped + 1][rindex] # None
      /\ file' = Append(file, item[popped + 1][rindex])
      /\ \/ rindex + 1 = Size /\ rindex' = 0 /\ popped' = popped + 1
         \/ rindex + 1 # Size /\ rindex' = rindex + 1 /\ popped' = popped
  BY DEF Pop, Readable
<1>1. popped + 1 \in 1 .. Current /\ rindex \in Slots /\ popped \in Nat
  BY <1>0, TypeFacts DEF TypeOK
<1>2. item[popped + 1][rindex] \in Lines
  BY <1>0, <1>1, TypeFacts
<1>3. \A k \in 1 .. Current, i \in Slots :
        Read(k, i)' <=> Read(k, i) \/ (k = popped + 1 /\ i = rindex)
  BY <1>0, <1>1, QueueAssumption DEF Read, Slots
<1>4. \A line \in Lines : Written(line)' <=> Written(line) \/ line = item[popped + 1][rindex]
  <2>1. file \in Seq(Lines)
    BY DEF TypeOK
  <2>2. /\ DOMAIN file' = 1 .. Len(file) + 1
        /\ \A i \in 1 .. Len(file) : file'[i] = file[i]
        /\ file'[Len(file) + 1] = item[popped + 1][rindex]
        /\ DOMAIN file = 1 .. Len(file) /\ Len(file) \in Nat
    BY <1>0, <1>2, <2>1
  <2> QED BY <2>2 DEF Written
<1> QED BY <1>1, <1>2, <1>3, <1>4 DEF Read, Slots

LEMMA PopOrder ==
  ASSUME Inv, Order, Pop
  PROVE  Order'
<1> USE DEF Order
<1>0. UNCHANGED <<item, pc, at, sent>> /\ Current' = Current
  BY DEF Pop, Current
<1>1. (InOrder /\ PlacedAreSent /\ SentArePlaced /\ StoresBehind)'
  BY <1>0 DEF InOrder, PlacedAreSent, SentArePlaced, StoresBehind, Before
<1>2. FileIsRead'
  BY <1>0, PopEffect DEF FileIsRead
<1> QED BY <1>1, <1>2

LEMMA EndOrder ==
  ASSUME Inv, Order, Shutdown \/ End \/ UNCHANGED vars
  PROVE  Order'
BY DEF Order, Shutdown, End, vars, Current, InOrder, PlacedAreSent, SentArePlaced, StoresBehind,
       FileIsRead, Before, Read, Written

LEMMA OrderInit == Init => Order
<1> SUFFICES ASSUME Init PROVE Order
  OBVIOUS
<1>1. /\ Current = 1 /\ popped = 0 /\ rindex = 0 /\ file = <<>>
      /\ \A i \in Slots : item[1][i] = None
      /\ \A p \in Producers : sent[p] = 0 /\ pc[p] = "idle"
  BY DEF Init, Current, EmptyBuffer
<1>2. \A i \in Slots : ~Read(1, i)
  BY <1>1 DEF Read, Slots
<1>3. InOrder /\ PlacedAreSent /\ SentArePlaced /\ StoresBehind
  BY <1>1 DEF InOrder, PlacedAreSent, SentArePlaced, StoresBehind
<1>4. FileIsRead
  BY <1>1, <1>2 DEF FileIsRead, Written
<1> QED BY <1>3, <1>4 DEF Order

LEMMA OrderNext == Inv /\ Order /\ [Next]_vars => Order'
<1> SUFFICES ASSUME Inv, Order, [Next]_vars PROVE Order'
  OBVIOUS
<1>1. ASSUME NEW p \in Producers, Log(p) \/ Push(p) PROVE Order'
  BY <1>1, LogOrder, ClaimOrder, StoreOrder, CountOrder, SetupOrder DEF Push
<1>2. CASE Pop
  BY <1>2, PopOrder
<1>3. CASE Shutdown \/ End \/ Stopped \/ UNCHANGED vars
  BY <1>3, EndOrder DEF Stopped
<1> QED BY <1>1, <1>2, <1>3 DEF Next
-----------------------------------------------------------------------------
(***************************************************************************)
(* The refinement                                                          *)
(***************************************************************************)
\* What is read is the next line of its thread.
LEMMA PopWrites ==
  ASSUME Inv, Order, Pop
  PROVE  Abstract!Next
<1> DEFINE k0 == popped + 1
           line == item[k0][rindex]
<1>1. /\ k0 \in 1 .. Current /\ rindex \in Slots /\ line \in Lines /\ ~Read(k0, rindex)
      /\ file' = Append(file, line) /\ UNCHANGED sent
  BY PopEffect DEF Pop
<1>2. /\ line.by \in Producers /\ line.no \in 1 .. MaxLines
      /\ line = [by |-> line.by, no |-> line.no] /\ line # None
  BY <1>1, QueueAssumption DEF Lines
<1>3. /\ sent[line.by] \in Nat /\ line.no <= sent[line.by]
  <2>1. sent \in [Producers -> 0 .. MaxLines] /\ MaxLines \in Nat
    BY QueueAssumption DEF Inv, TypeOK
  <2>2. sent[line.by] \in Nat
    BY <1>2, <2>1
  <2>3. line.no <= sent[line.by]
    BY <1>1, <1>2 DEF Order, PlacedAreSent
  <2> QED BY <2>2, <2>3
<1>4. popped \in Nat /\ Current \in Nat
  BY TypeFacts DEF Inv, TypeOK
<1>5. \A k \in 1 .. Current, i \in Slots : Read(k, i) => Before(k, i, k0, rindex)
  BY <1>4 DEF Read, Before, Slots
<1>6. \A k \in 1 .. Current, i \in Slots : Before(k, i, k0, rindex) => Read(k, i)
  BY <1>4 DEF Read, Before, Slots
<1>7. ~Written(line)
  <2> SUFFICES ASSUME Written(line) PROVE FALSE
    OBVIOUS
  <2>1. PICK k \in 1 .. Current, i \in Slots : Read(k, i) /\ item[k][i] = line
    BY <1>1 DEF Order, FileIsRead
  <2>2. line.no < line.no
    BY <1>1, <1>2, <1>5, <2>1 DEF Order, InOrder
  <2> QED BY <1>2, <2>2, QueueAssumption
<1>8. ASSUME NEW n \in 1 .. line.no - 1 PROVE Written([by |-> line.by, no |-> n])
  <2> DEFINE old == [by |-> line.by, no |-> n]
  <2>1. n \in 1 .. sent[line.by] /\ n < sent[line.by] /\ old \in Lines
    BY <1>2, <1>3, QueueAssumption DEF Lines
  <2>2. PICK k \in 1 .. Current, i \in Slots : item[k][i] = old
    BY <1>2, <2>1 DEF Order, SentArePlaced
  <2>3. old # None /\ old.by = line.by /\ old.no = n /\ n < line.no
    BY <1>2, <2>1, QueueAssumption
  <2>4. ~(k = k0 /\ i = rindex)
    BY <2>2, <2>3, <1>2, QueueAssumption
  <2>5. ~Before(k0, rindex, k, i)
    <3> SUFFICES ASSUME Before(k0, rindex, k, i) PROVE FALSE
      OBVIOUS
    <3>1. line.no < old.no
      <4> HIDE DEF line, old, k0
      <4> QED BY <1>1, <1>2, <2>2, <2>3 DEF Order, InOrder, line, k0
    <3> QED BY <3>1, <2>3, <1>2, QueueAssumption
  <2>6. Before(k, i, k0, rindex)
    BY <1>1, <1>4, <2>4, <2>5 DEF Before, Slots
  <2>7. Read(k, i)
    BY <1>6, <2>6
  <2> QED BY <2>1, <2>2, <2>7 DEF Order, FileIsRead
<1> HIDE DEF line, k0
<1>9. Abstract!Write(line)
  BY <1>1, <1>3, <1>7, <1>8 DEF Abstract!Write, Abstract!Written, Written
<1>10. line.no \in 1 .. sent[line.by]
  BY <1>2, <1>3, QueueAssumption
<1> QED BY <1>2, <1>9, <1>10 DEF Abstract!Next

\* Every step is one of LineLog, or changes nothing it sees.
THEOREM ImplementsTheLog == Spec => ImplementsLineLog
<1>1. Init => Abstract!Init
  BY DEF Init, Abstract!Init
<1>2. Inv /\ Order /\ [Next]_vars => [Abstract!Next]_<<sent, file>>
  <2> SUFFICES ASSUME Inv, Order, [Next]_vars PROVE [Abstract!Next]_<<sent, file>>
    OBVIOUS
  <2>1. ASSUME NEW p \in Producers, Log(p) PROVE Abstract!Next
    <3>1. Abstract!Log(p)
      BY <2>1 DEF Log, consumerVars, Abstract!Log
    <3> QED BY <3>1 DEF Abstract!Next
  <2>2. ASSUME NEW p \in Producers, Push(p) PROVE UNCHANGED <<sent, file>>
    BY <2>2 DEF Push, Claim, Spin, Store, Count, Counts, Setup, Publish, consumerVars
  <2>3. CASE Pop
    BY <2>3, PopWrites
  <2>4. CASE Shutdown \/ End \/ Stopped \/ UNCHANGED vars
    BY <2>4 DEF Shutdown, End, Stopped, vars
  <2> QED BY <2>1, <2>2, <2>3, <2>4 DEF Next
<1> QED BY <1>1, <1>2, InvInit, InvNext, OrderInit, OrderNext, PTL
        DEF Spec, ImplementsLineLog, Abstract!Spec
-----------------------------------------------------------------------------
(***************************************************************************)
(* What is left when the process ends                                      *)
(***************************************************************************)
\* Below the index there is no empty slot but of those who are about to store.
NoGaps ==
  \A i \in Slots : i < windex =>
    \/ item[Current][i] # None
    \/ \E p \in Producers : pc[p] = "store" /\ at[p] = i
    \/ \E p \in Producers : pc[p] = "publish"

EndsEmpty == mode = "done" => ~Readable

LEMMA NoGapsInit == Init => NoGaps /\ EndsEmpty
BY DEF Init, NoGaps, EndsEmpty, Slots

LEMMA NoGapsNext == Inv /\ NoGaps /\ [Next]_vars => NoGaps'
<1> SUFFICES ASSUME Inv, NoGaps, [Next]_vars PROVE NoGaps'
  OBVIOUS
<1>0. pc \in [Producers -> States] /\ at \in [Producers -> Nat] /\ windex \in Nat
  BY DEF Inv, TypeOK
<1>1. ASSUME NEW p \in Producers, Log(p) \/ Spin(p) PROVE NoGaps'
  <2>1. /\ pc[p] \in {"idle", "spin"}
        /\ \A q \in Producers : q # p => pc'[q] = pc[q]
        /\ UNCHANGED <<item, windex, at>>
    BY <1>0, <1>1 DEF Log, Spin
  <2> QED BY <2>1 DEF NoGaps, Current
<1>2. ASSUME NEW p \in Producers, Claim(p) PROVE NoGaps'
  <2>1. /\ pc[p] = "claim" /\ windex' = windex + 1 /\ UNCHANGED item
        /\ \A q \in Producers : q # p => pc'[q] = pc[q] /\ at'[q] = at[q]
        /\ windex < Size => pc'[p] = "store" /\ at'[p] = windex
    BY <1>0, <1>2 DEF Claim
  <2> QED BY <1>0, <2>1, QueueAssumption DEF NoGaps, Current, Slots
<1>3. ASSUME NEW p \in Producers, Store(p) PROVE NoGaps'
  <2>1. /\ pc[p] = "store" /\ UNCHANGED <<windex, at>>
        /\ \A q \in Producers : q # p => pc'[q] = pc[q]
    BY <1>0, <1>3 DEF Store
  <2>2. /\ Current' = Current /\ Current \in 1 .. Current
        /\ item'[Current][at[p]] = Line(p) /\ Line(p) # None
        /\ \A i \in Slots : i # at[p] => item'[Current][i] = item[Current][i]
    BY <1>3, StoreEffect, TypeFacts, QueueAssumption DEF Inv, Current, Lines
  <2> QED BY <2>1, <2>2 DEF NoGaps
<1>4. ASSUME NEW p \in Producers, Count(p) PROVE NoGaps'
  <2>1. /\ pc[p] = "count"
        /\ \A q \in Producers : q # p => pc'[q] = pc[q]
        /\ UNCHANGED <<item, windex, at>>
    BY <1>0, <1>4 DEF Count, Counts
  <2> QED BY <2>1 DEF NoGaps, Current
<1>5. ASSUME NEW p \in Producers, Setup(p) PROVE NoGaps'
  <2>1. pc'[p] = "publish"
    BY <1>0, <1>5 DEF Setup
  <2> QED BY <2>1 DEF NoGaps
<1>6. ASSUME NEW p \in Producers, Publish(p) PROVE NoGaps'
  <2>1. windex' = 0
    BY <1>6 DEF Publish
  <2> QED BY <2>1 DEF NoGaps, Slots
<1>7. CASE Pop \/ Shutdown \/ End \/ Stopped \/ UNCHANGED vars
  <2>1. UNCHANGED <<item, windex, pc, at>>
    BY <1>7 DEF Pop, Shutdown, End, Stopped, vars
  <2> QED BY <2>1 DEF NoGaps, Current
<1> QED BY <1>1, <1>2, <1>3, <1>4, <1>5, <1>6, <1>7 DEF Next, Push

LEMMA EndsEmptyNext == Inv /\ EndsEmpty /\ [Next]_vars => EndsEmpty'
<1> SUFFICES ASSUME Inv, EndsEmpty, [Next]_vars, mode' = "done" PROVE ~Readable'
  BY DEF EndsEmpty
<1>1. ASSUME NEW p \in Producers, Log(p) \/ Push(p) PROVE FALSE
  <2>1. mode = "done" /\ pc[p] = "idle"
    BY <1>1 DEF Inv, Control, EndsIdle, Log, Push, Claim, Spin, Store, Count, Counts,
                Setup, Publish, consumerVars
  <2> QED BY <1>1, <2>1 DEF Log, Push, Claim, Spin, Store, Count, Setup, Publish
<1>2. CASE Pop \/ Shutdown
  BY <1>2 DEF Pop, Shutdown
<1>3. CASE End
  BY <1>3 DEF End, Readable
<1>4. CASE Stopped \/ UNCHANGED vars
  BY <1>4 DEF Stopped, vars, EndsEmpty, Readable
<1> QED BY <1>1, <1>2, <1>3, <1>4 DEF Next

\* When the process has ended, what fills a slot was read.
LEMMA AllIsRead ==
  ASSUME Inv, NoGaps, EndsEmpty, mode = "done",
         NEW k \in 1 .. Current, NEW i \in Slots, item[k][i] # None
  PROVE  Read(k, i)
<1>1. \A p \in Producers : pc[p] = "idle"
  BY DEF Inv, Control, EndsIdle
<1>2. pushed = Current /\ Current \in Nat \ {0} /\ popped \in Nat /\ popped <= Current
      /\ rindex \in Slots /\ windex \in Nat
  BY <1>1, TypeFacts DEF Inv, TypeOK, Control, PushedCurrent
<1>3. CASE popped = Current
  BY <1>2, <1>3 DEF Read
<1>4. CASE popped < Current
  <2>1. item[popped + 1][rindex] = None
    BY <1>2, <1>4 DEF EndsEmpty, Readable
  <2>2. popped + 1 = Current
    BY <1>2, <1>4, <2>1 DEF Inv, Control, FullBefore
  <2>3. windex <= rindex
    BY <1>1, <1>2, <2>1, <2>2 DEF NoGaps, Slots
  <2>4. k = Current => i < windex
    BY DEF Inv, Control, FilledBelow
  <2> QED BY <1>2, <2>2, <2>3, <2>4 DEF Read, Slots
<1> QED BY <1>2, <1>3, <1>4

\* No line is left when the process has ended (NanoLog.cpp:750), whatever the consumer
\* had read before, and even if a count was lost.
THEOREM AllIsDrained == Spec => []Drained
<1>1. Inv /\ Order /\ NoGaps /\ EndsEmpty => Drained
  <2> SUFFICES ASSUME Inv, Order, NoGaps, EndsEmpty, mode = "done",
                      NEW p \in Producers, NEW n \in 1 .. sent[p]
               PROVE  Written([by |-> p, no |-> n])
    BY DEF Drained
  <2> DEFINE line == [by |-> p, no |-> n]
  <2>1. line \in Lines /\ line # None
    BY QueueAssumption DEF Inv, TypeOK, Lines
  <2>2. pc[p] = "idle"
    BY DEF Inv, Control, EndsIdle
  <2>3. PICK k \in 1 .. Current, i \in Slots : item[k][i] = line
    BY <2>2 DEF Order, SentArePlaced, Unplaced
  <2>4. Read(k, i)
    BY <2>1, <2>3, AllIsRead
  <2> QED BY <2>1, <2>3, <2>4 DEF Order, FileIsRead
<1> QED BY <1>1, InvInit, InvNext, OrderInit, OrderNext, NoGapsInit, NoGapsNext, EndsEmptyNext,
           PTL DEF Spec
=============================================================================
