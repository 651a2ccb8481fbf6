--------------------------- MODULE LogRingProofs ----------------------------
(***************************************************************************)
(* Theorems about LogRing, for any number of producers and lines and any   *)
(* size of the ring: where a line is, from its index to the file.          *)
(***************************************************************************)
EXTENDS LogRing, FiniteSetTheorems, TLAPS

\* A line waits in the slot of its index.
InItsSlot ==
  /\ \A i \in Slots : slot[i] # None => slot[i] < claims /\ SlotOf(slot[i]) = i
  /\ \A p \in Producers : hand[p] # None => hand[p] < claims
  /\ \A k \in DOMAIN file : file[k] < claims /\ SlotOf(file[k]) = SlotOf(k - 1)

\* A line is in one place.
Once ==
  /\ \A j, k \in DOMAIN file : file[j] = file[k] => j = k
  /\ \A i \in Slots, k \in DOMAIN file : slot[i] # file[k]
  /\ \A p \in Producers, k \in DOMAIN file : hand[p] # file[k]
  /\ \A p \in Producers, i \in Slots : hand[p] # None => slot[i] # hand[p]
  /\ \A p, q \in Producers : hand[p] # None /\ hand[p] = hand[q] => p = q

\* When the threads have been joined no line is on its way, and the consumer ends
\* at a slot that stays empty.
AtTheEnd ==
  /\ mode # "ready" => \A p \in Producers : hand[p] = None
  /\ mode = "done" => ~Readable

Inv == TypeOK /\ InItsSlot /\ Once /\ AtTheEnd
-----------------------------------------------------------------------------
(***************************************************************************)
(* Slots                                                                   *)
(***************************************************************************)
LEMMA Division ==
  ASSUME NEW a \in Nat, NEW n \in Nat \ {0}
  PROVE  /\ a % n \in 0 .. n - 1 /\ a \div n \in Nat
         /\ a = n * (a \div n) + (a % n)
OBVIOUS

LEMMA SlotType ==
  ASSUME NEW a \in Nat
  PROVE  SlotOf(a) \in Slots
<1>1. a % Wrap \in Nat
  BY Division, RingAssumption
<1> QED BY <1>1, Division, RingAssumption DEF SlotOf, Slots

\* Less than n away from zero, zero is the only multiple of n.
LEMMA NoMultiple ==
  ASSUME NEW n \in Nat \ {0}, NEW q \in Int, n * q < n, n * q > -n
  PROVE  q = 0
<1>1. CASE q >= 1
  <2>1. n * q >= n * 1 BY <1>1
  <2> QED BY <2>1
<1>2. CASE q <= -1
  <2>1. n * q <= n * (-1) BY <1>2
  <2> QED BY <2>1
<1> QED BY <1>1, <1>2

\* Fewer indices than the ring has slots have a slot each, if the number of slots
\* divides the range of the index ...
LEMMA SlotsDiffer ==
  ASSUME Wrap % Size = 0, NEW a \in Nat, NEW b \in Nat, SlotOf(a) = SlotOf(b),
         a - b < Size, b - a < Size
  PROVE  a = b
<1> DEFINE w == Wrap \div Size
           x == a % Wrap
           y == b % Wrap
           qa == w * (a \div Wrap) + (x \div Size)
           qb == w * (b \div Wrap) + (y \div Size)
<1>1. w \in Nat /\ Wrap = Size * w
  <2>1. Wrap \div Size \in Nat /\ Wrap = Size * (Wrap \div Size) + (Wrap % Size)
    BY Division, RingAssumption
  <2> QED BY <2>1, RingAssumption
<1>2. /\ x \in Nat /\ a \div Wrap \in Nat /\ a = Wrap * (a \div Wrap) + x
      /\ y \in Nat /\ b \div Wrap \in Nat /\ b = Wrap * (b \div Wrap) + y
  <2>1. Wrap \in Nat \ {0}
    BY RingAssumption
  <2>2. /\ x \in 0 .. Wrap - 1 /\ a \div Wrap \in Nat /\ a = Wrap * (a \div Wrap) + x
    BY <2>1, Division
  <2>3. /\ y \in 0 .. Wrap - 1 /\ b \div Wrap \in Nat /\ b = Wrap * (b \div Wrap) + y
    BY <2>1, Division
  <2> QED BY <2>2, <2>3
<1>3. /\ x \div Size \in Nat /\ x = Size * (x \div Size) + SlotOf(a)
      /\ y \div Size \in Nat /\ y = Size * (y \div Size) + SlotOf(b)
  BY <1>2, Division, RingAssumption DEF SlotOf
<1>4. SlotOf(a) \in Nat /\ Size \in Nat \ {0}
  BY SlotType, RingAssumption DEF Slots
<1>5. a = Size * qa + SlotOf(a) /\ b = Size * qb + SlotOf(b) /\ qa \in Nat /\ qb \in Nat
  <2> DEFINE u == a \div Wrap
             v == b \div Wrap
             s == x \div Size
             t == y \div Size
  <2> HIDE DEF w, x, y, u, v, s, t
  <2>1. /\ u \in Nat /\ v \in Nat /\ s \in Nat /\ t \in Nat /\ w \in Nat
        /\ a = (Size * w) * u + (Size * s + SlotOf(a))
        /\ b = (Size * w) * v + (Size * t + SlotOf(b))
    BY <1>1, <1>2, <1>3 DEF u, v, s, t
  <2>2. (Size * w) * u = Size * (w * u) /\ (Size * w) * v = Size * (w * v)
        /\ w * u \in Nat /\ w * v \in Nat
    BY <2>1, <1>4
  <2>3. Size * (w * u + s) = Size * (w * u) + Size * s /\ Size * (w * v + t) = Size * (w * v) + Size * t
    BY <2>1, <2>2, <1>4
  <2> QED BY <2>1, <2>2, <2>3, <1>4 DEF u, v, s, t
<1> HIDE DEF w, x, y, qa, qb
<1>6. Size * (qa - qb) = Size * qa - Size * qb
  BY <1>4, <1>5
<1>7. qa - qb = 0
  <2>1. Size * (qa - qb) < Size /\ Size * (qa - qb) > -Size
    BY <1>4, <1>5, <1>6
  <2> QED BY <2>1, <1>4, <1>5, NoMultiple
<1> QED BY <1>4, <1>5, <1>7

\* ... or the index did not overflow between them.
LEMMA SlotsDifferInTurn ==
  ASSUME NEW a \in Nat, NEW b \in Nat, SlotOf(a) = SlotOf(b),
         a - b < Size, b - a < Size, a \div Wrap = b \div Wrap
  PROVE  a = b
<1> DEFINE x == a % Wrap
           y == b % Wrap
<1>1. Wrap \in Nat \ {0} /\ Size \in Nat \ {0}
  BY RingAssumption
<1>2. /\ x \in Nat /\ a = Wrap * (a \div Wrap) + x
      /\ y \in Nat /\ b = Wrap * (b \div Wrap) + y
      /\ a \div Wrap \in Nat
  <2>1. x \in 0 .. Wrap - 1 /\ a \div Wrap \in Nat /\ a = Wrap * (a \div Wrap) + x
    BY <1>1, Division
  <2>2. y \in 0 .. Wrap - 1 /\ b = Wrap * (b \div Wrap) + y
    BY <1>1, Division
  <2> QED BY <1>1, <2>1, <2>2
<1>3. a - b = x - y
  <2> DEFINE u == Wrap * (a \div Wrap)
  <2>1. u \in Nat /\ a = u + x /\ b = u + y
    BY <1>1, <1>2
  <2> HIDE DEF u
  <2> QED BY <1>2, <2>1
<1>4. /\ x \div Size \in Nat /\ x = Size * (x \div Size) + SlotOf(a)
      /\ y \div Size \in Nat /\ y = Size * (y \div Size) + SlotOf(b)
      /\ SlotOf(a) \in Nat
  <2>1. x \div Size \in Nat /\ x = Size * (x \div Size) + SlotOf(a)
    BY <1>1, <1>2, Division DEF SlotOf
  <2>2. y \div Size \in Nat /\ y = Size * (y \div Size) + SlotOf(b)
    BY <1>1, <1>2, Division DEF SlotOf
  <2> QED BY <1>1, <2>1, <2>2, SlotType DEF Slots
<1> DEFINE qa == x \div Size
           qb == y \div Size
<1> HIDE DEF qa, qb, x, y
<1>5. Size * (qa - qb) = Size * qa - Size * qb
  BY <1>1, <1>4 DEF qa, qb
<1>6. Size * (qa - qb) = a - b
  BY <1>1, <1>2, <1>3, <1>4, <1>5 DEF qa, qb
<1>7. qa - qb = 0
  <2>1. qa - qb \in Int
    BY <1>4 DEF qa, qb
  <2>2. a - b < Size /\ a - b > -Size
    BY <1>1
  <2> QED BY <1>1, <1>6, <2>1, <2>2, NoMultiple
<1> QED BY <1>1, <1>6, <1>7

\* The indices between two of one turn are of that turn.
LEMMA TurnBetween ==
  ASSUME NEW a \in Nat, NEW b \in Nat, NEW c \in Nat, a <= b, b <= c,
         a \div Wrap = c \div Wrap
  PROVE  b \div Wrap = c \div Wrap
<1>1. Wrap \in Nat \ {0}
  BY RingAssumption
<1> DEFINE q == c \div Wrap
           p == b \div Wrap
<1>2. /\ a % Wrap \in 0 .. Wrap - 1 /\ a = Wrap * q + (a % Wrap)
      /\ b % Wrap \in 0 .. Wrap - 1 /\ b = Wrap * p + (b % Wrap) /\ p \in Nat
      /\ c % Wrap \in 0 .. Wrap - 1 /\ c = Wrap * q + (c % Wrap) /\ q \in Nat
  <2>1. a % Wrap \in 0 .. Wrap - 1 /\ a = Wrap * q + (a % Wrap)
    BY <1>1, Division
  <2>2. b % Wrap \in 0 .. Wrap - 1 /\ b = Wrap * p + (b % Wrap) /\ p \in Nat
    BY <1>1, Division
  <2>3. c % Wrap \in 0 .. Wrap - 1 /\ c = Wrap * q + (c % Wrap) /\ q \in Nat
    BY <1>1, Division
  <2> QED BY <2>1, <2>2, <2>3
<1> HIDE DEF p, q
<1>3. Wrap * (p - q) = Wrap * p - Wrap * q /\ Wrap * p \in Nat /\ Wrap * q \in Nat
  BY <1>1, <1>2
<1>4. Wrap * p - Wrap * q < Wrap /\ Wrap * p - Wrap * q > -Wrap
  <2> DEFINE u == Wrap * p
             v == Wrap * q
  <2>1. /\ u \in Nat /\ v \in Nat
        /\ a = v + (a % Wrap) /\ b = u + (b % Wrap) /\ c = v + (c % Wrap)
    BY <1>2, <1>3
  <2> HIDE DEF u, v
  <2>2. u - v < Wrap /\ u - v > -Wrap
    BY <1>1, <1>2, <2>1
  <2> QED BY <2>2 DEF u, v
<1>5. p - q = 0
  BY <1>1, <1>2, <1>3, <1>4, NoMultiple
<1> QED BY <1>2, <1>5 DEF p, q
-----------------------------------------------------------------------------
(***************************************************************************)
(* The invariant                                                           *)
(***************************************************************************)
LEMMA TypeFacts ==
  ASSUME TypeOK
  PROVE  /\ DOMAIN file = 1 .. reads /\ reads \in Nat /\ claims \in Nat
         /\ \A k \in DOMAIN file : file[k] \in Nat
         /\ \A i \in Slots : slot[i] \in Nat \cup {None}
         /\ \A p \in Producers : hand[p] \in Nat \cup {None}
         /\ None \notin Nat
BY RingAssumption DEF TypeOK

LEMMA InvInit == Init => Inv
<1> SUFFICES ASSUME Init PROVE Inv
  OBVIOUS
<1>1. file = <<>> /\ DOMAIN file = {} /\ Len(file) = 0 /\ file \in Seq(Nat)
  BY DEF Init
<1>2. SlotOf(0) \in Slots
  BY SlotType
<1>3. /\ slot = [i \in Slots |-> None] /\ claims = 0 /\ reads = 0 /\ mode = "ready"
      /\ hand = [p \in Producers |-> None] /\ clashed = FALSE
  BY DEF Init
<1>4. TypeOK
  <2>1. slot \in [Slots -> Nat \cup {None}] /\ hand \in [Producers -> Nat \cup {None}]
    BY <1>3
  <2>2. claims \in Nat /\ reads \in Nat /\ reads <= claims
    BY <1>3
  <2>3. mode \in {"ready", "shutdown", "done"} /\ clashed \in BOOLEAN
    BY <1>3
  <2> QED BY <1>1, <1>3, <2>1, <2>2, <2>3 DEF TypeOK
<1>5. InItsSlot /\ Once /\ AtTheEnd
  BY <1>1, <1>3 DEF InItsSlot, Once, AtTheEnd
<1> QED BY <1>4, <1>5 DEF Inv

LEMMA ClaimStep ==
  ASSUME Inv, NEW p \in Producers, Claim(p)
  PROVE  Inv'
<1> USE DEF Inv
<1>1. /\ claims' = claims + 1 /\ hand' = [hand EXCEPT ![p] = claims] /\ mode = "ready"
      /\ UNCHANGED <<slot, reads, mode, file>> /\ hand[p] = None
  BY DEF Claim
<1>2. TypeOK'
  BY <1>1, TypeFacts DEF Claim, TypeOK
<1>3. /\ hand'[p] = claims /\ \A q \in Producers : q # p => hand'[q] = hand[q]
  BY <1>1 DEF TypeOK
<1>4. InItsSlot'
  BY <1>1, <1>3, TypeFacts DEF InItsSlot
<1>5. Once'
  <2>1. \A k \in DOMAIN file : claims # file[k]
    BY TypeFacts DEF InItsSlot
  <2>2. \A i \in Slots : slot[i] # claims
    BY TypeFacts DEF InItsSlot
  <2>3. \A q \in Producers : hand[q] # claims
    BY TypeFacts DEF InItsSlot
  <2> QED BY <1>1, <1>3, <2>1, <2>2, <2>3 DEF Once
<1>6. AtTheEnd'
  BY <1>1 DEF AtTheEnd
<1> QED BY <1>2, <1>4, <1>5, <1>6

LEMMA StoreEffect ==
  ASSUME Inv, NEW p \in Producers, Store(p)
  PROVE  /\ hand[p] \in Nat /\ hand[p] < claims /\ SlotOf(hand[p]) \in Slots
         /\ slot'[SlotOf(hand[p])] = hand[p] /\ hand'[p] = None
         /\ \A i \in Slots : i # SlotOf(hand[p]) => slot'[i] = slot[i]
         /\ \A q \in Producers : q # p => hand'[q] = hand[q]
         /\ UNCHANGED <<claims, reads, mode, file, clashed>>
         /\ mode = "ready"
<1>1. hand[p] \in Nat /\ hand[p] < claims
  BY TypeFacts DEF Inv, InItsSlot, Store
<1>2. SlotOf(hand[p]) \in Slots
  BY <1>1, SlotType
<1>3. mode = "ready"
  BY DEF Inv, AtTheEnd, Store
<1> QED BY <1>1, <1>2, <1>3 DEF Inv, TypeOK, Store

LEMMA StoreStep ==
  ASSUME Inv, NEW p \in Producers, Store(p)
  PROVE  Inv'
<1> DEFINE n == hand[p]
           s == SlotOf(n)
<1>0. /\ n \in Nat /\ n < claims /\ s \in Slots /\ s = SlotOf(n)
      /\ slot'[s] = n /\ hand'[p] = None /\ n = hand[p]
      /\ \A i \in Slots : i # s => slot'[i] = slot[i]
      /\ \A q \in Producers : q # p => hand'[q] = hand[q]
      /\ UNCHANGED <<claims, reads, mode, file, clashed>> /\ mode = "ready"
  BY StoreEffect
<1>1. TypeOK'
  BY <1>0, TypeFacts DEF Inv, TypeOK, Store
<1> HIDE DEF s, n
<1>2. InItsSlot'
  BY <1>0 DEF Inv, InItsSlot
<1>3. Once'
  BY <1>0, TypeFacts DEF Inv, Once
<1>4. AtTheEnd'
  BY <1>0 DEF Inv, AtTheEnd
<1> QED BY <1>1, <1>2, <1>3, <1>4 DEF Inv

\* A line in the file is one of those that were given an index, and no other is.
LEMMA NoMoreThanClaimed ==
  ASSUME NEW f \in Seq(Nat), NEW n \in Nat,
         \A k \in DOMAIN f : f[k] < n,
         \A j, k \in DOMAIN f : f[j] = f[k] => j = k
  PROVE  Len(f) <= n
<1> DEFINE S == 1 .. Len(f)
           T == 0 .. n - 1
<1>1. Len(f) \in Nat /\ DOMAIN f = S
  OBVIOUS
<1>2. f \in [S -> T]
  BY <1>1
<1>3. f \in Injection(S, T)
  BY <1>1, <1>2 DEF Injection, IsInjective
<1>4. IsFiniteSet(T) /\ Cardinality(T) = n
  BY FS_Interval
<1>5. Cardinality(S) = Len(f)
  <2>1. Cardinality(1 .. Len(f)) = IF 1 > Len(f) THEN 0 ELSE Len(f) - 1 + 1
    BY <1>1, FS_Interval
  <2> QED BY <1>1, <2>1
<1> QED BY <1>3, <1>4, <1>5, FS_Injection

LEMMA PopEffect ==
  ASSUME Inv, Pop
  PROVE  LET s == SlotOf(reads) IN
         /\ s \in Slots /\ slot[s] \in Nat /\ slot[s] < claims /\ SlotOf(slot[s]) = s
         /\ file' = Append(file, slot[s]) /\ file' \in Seq(Nat)
         /\ DOMAIN file' = 1 .. reads + 1 /\ Len(file') = reads + 1
         /\ file'[reads + 1] = slot[s] /\ \A k \in DOMAIN file : file'[k] = file[k]
         /\ slot'[s] = None /\ \A i \in Slots : i # s => slot'[i] = slot[i]
         /\ reads' = reads + 1 /\ UNCHANGED <<claims, mode, hand, clashed>> /\ mode # "done"
<1> DEFINE s == SlotOf(reads)
<1>1. s \in Slots
  BY SlotType, TypeFacts DEF Inv
<1>2. slot[s] \in Nat /\ slot[s] < claims /\ SlotOf(slot[s]) = s
  BY <1>1, TypeFacts DEF Inv, InItsSlot, Pop, Readable
<1>3. file' = Append(file, slot[s]) /\ file \in Seq(Nat) /\ Len(file) = reads
  BY DEF Pop, Inv, TypeOK
<1>4. slot'[s] = None /\ \A i \in Slots : i # s => slot'[i] = slot[i]
  BY <1>1 DEF Pop, Inv, TypeOK
<1>5. reads' = reads + 1 /\ UNCHANGED <<claims, mode, hand, clashed>> /\ mode # "done"
  BY DEF Pop
<1> HIDE DEF s
<1>6. /\ file' \in Seq(Nat) /\ Len(file') = reads + 1 /\ DOMAIN file' = 1 .. reads + 1
      /\ file'[reads + 1] = slot[s] /\ \A k \in DOMAIN file : file'[k] = file[k]
  BY <1>2, <1>3, TypeFacts DEF Inv
<1> QED BY <1>1, <1>2, <1>3, <1>4, <1>5, <1>6 DEF s

LEMMA PopStep == Inv /\ Pop => Inv'
<1> SUFFICES ASSUME Inv, Pop PROVE Inv'
  OBVIOUS
<1> DEFINE s == SlotOf(reads)
<1>0. /\ s \in Slots /\ slot[s] \in Nat /\ slot[s] < claims /\ SlotOf(slot[s]) = s
      /\ file' \in Seq(Nat) /\ DOMAIN file' = 1 .. reads + 1 /\ Len(file') = reads + 1
      /\ file'[reads + 1] = slot[s] /\ \A k \in DOMAIN file : file'[k] = file[k]
      /\ slot'[s] = None /\ \A i \in Slots : i # s => slot'[i] = slot[i]
      /\ reads' = reads + 1 /\ UNCHANGED <<claims, mode, hand, clashed>> /\ mode # "done"
      /\ s = SlotOf(reads)
  BY PopEffect
<1>1. InItsSlot'
  <2>1. \A k \in 1 .. reads + 1 : k = reads + 1 \/ k \in DOMAIN file
    BY TypeFacts DEF Inv
  <2>2. (reads + 1) - 1 = reads
    BY TypeFacts DEF Inv
  <2> HIDE DEF s
  <2>3. \A k \in DOMAIN file' : file'[k] < claims /\ SlotOf(file'[k]) = SlotOf(k - 1)
    BY <1>0, <2>1, <2>2 DEF Inv, InItsSlot
  <2> QED BY <1>0, <2>3 DEF Inv, InItsSlot
<1>2. Once'
  <2> HIDE DEF s
  <2>1. \A k \in 1 .. reads + 1 : k = reads + 1 \/ k \in DOMAIN file
    BY TypeFacts DEF Inv
  <2>2. \A i \in Slots : i # s => slot[i] # slot[s]
    BY <1>0, TypeFacts DEF Inv, InItsSlot
  <2>3. \A k \in DOMAIN file : file[k] # slot[s]
    BY <1>0 DEF Inv, Once
  <2>4. \A p \in Producers : hand[p] # slot[s]
    BY <1>0, TypeFacts DEF Inv, Once
  <2>5. \A i \in Slots, k \in DOMAIN file' : slot'[i] # file'[k]
    BY <1>0, <2>1, <2>2, <2>3, TypeFacts DEF Inv, Once
  <2>6. \A j, k \in DOMAIN file' : file'[j] = file'[k] => j = k
    BY <1>0, <2>1, <2>3 DEF Inv, Once
  <2>7. \A p \in Producers, k \in DOMAIN file' : hand'[p] # file'[k]
    BY <1>0, <2>1, <2>4 DEF Inv, Once
  <2> QED BY <1>0, <2>5, <2>6, <2>7, TypeFacts DEF Inv, Once
<1>3. reads' <= claims'
  BY <1>0, <1>1, <1>2, NoMoreThanClaimed, TypeFacts DEF Inv, InItsSlot, Once
<1>4. TypeOK'
  BY <1>0, <1>3 DEF Inv, TypeOK, Pop
<1>5. AtTheEnd'
  BY <1>0 DEF Inv, AtTheEnd
<1> QED BY <1>1, <1>2, <1>4, <1>5 DEF Inv

LEMMA InvNext == Inv /\ [Next]_vars => Inv'
<1> SUFFICES ASSUME Inv, [Next]_vars PROVE Inv'
  OBVIOUS
<1>1. ASSUME NEW p \in Producers, Claim(p) PROVE Inv'
  BY <1>1, ClaimStep
<1>2. ASSUME NEW p \in Producers, Store(p) PROVE Inv'
  BY <1>2, StoreStep
<1>3. CASE Pop
  BY <1>3, PopStep
<1>4. CASE Shutdown
  <2>1. \A p \in Producers : hand[p] = None
    BY <1>4 DEF Shutdown, InHand
  <2> QED BY <1>4, <2>1 DEF Shutdown, Inv, TypeOK, InItsSlot, Once, AtTheEnd, Readable
<1>5. CASE End
  BY <1>5 DEF End, Inv, TypeOK, InItsSlot, Once, AtTheEnd, Readable
<1>6. CASE Stopped
  BY <1>6 DEF Stopped, vars, Inv, TypeOK, InItsSlot, Once, AtTheEnd, Readable
<1>7. CASE UNCHANGED vars
  BY <1>7 DEF vars, Inv, TypeOK, InItsSlot, Once, AtTheEnd, Readable
<1> QED BY <1>1, <1>2, <1>3, <1>4, <1>5, <1>6, <1>7 DEF Next

\* The state of the ring is well typed.  In particular the consumer never passes the
\* producers, however far they lap it: each line it reads is one of its own, and no
\* line is read twice (NanoLog.cpp:498).
THEOREM TypeCorrect == Spec => []TypeOK
<1>1. Inv => TypeOK
  BY DEF Inv
<1> QED BY <1>1, InvInit, InvNext, PTL DEF Spec

-----------------------------------------------------------------------------
(***************************************************************************)
(* As long as no two unread lines have one slot                            *)
(***************************************************************************)
\* The lines that were not read have a slot each, and each is in its slot or in the
\* hand of its thread.
Window ==
  ~ clashed =>
    /\ \A m, n \in reads .. claims - 1 : SlotOf(m) = SlotOf(n) => m = n
    /\ \A k \in DOMAIN file : file[k] = k - 1
    /\ \A n \in reads .. claims - 1 :
         slot[SlotOf(n)] = n \/ \E p \in Producers : hand[p] = n

LEMMA UnreadAreNotWritten ==
  ASSUME Inv, Window, ~ clashed
  PROVE  /\ \A i \in Slots : slot[i] # None => slot[i] \in reads .. claims - 1
         /\ \A p \in Producers : hand[p] # None => hand[p] \in reads .. claims - 1
<1>1. \A n \in Nat : n < reads => n + 1 \in DOMAIN file /\ file[n + 1] = n
  BY TypeFacts DEF Inv, Window
<1>2. ASSUME NEW i \in Slots, slot[i] # None PROVE slot[i] \in reads .. claims - 1
  <2>1. slot[i] \in Nat /\ slot[i] < claims /\ reads \in Nat /\ claims \in Nat
    BY <1>2, TypeFacts DEF Inv, InItsSlot
  <2>2. ~ slot[i] < reads
    BY <1>1, <2>1 DEF Inv, Once
  <2> QED BY <2>1, <2>2
<1>3. ASSUME NEW p \in Producers, hand[p] # None PROVE hand[p] \in reads .. claims - 1
  <2>1. hand[p] \in Nat /\ hand[p] < claims /\ reads \in Nat /\ claims \in Nat
    BY <1>3, TypeFacts DEF Inv, InItsSlot
  <2>2. ~ hand[p] < reads
    BY <1>1, <2>1 DEF Inv, Once
  <2> QED BY <2>1, <2>2
<1> QED BY <1>2, <1>3

LEMMA WindowInit == Init => Window
<1> SUFFICES ASSUME Init PROVE Window
  OBVIOUS
<1>1. claims = 0 /\ reads = 0 /\ DOMAIN file = {}
  BY DEF Init
<1> QED BY <1>1 DEF Window

LEMMA WindowClaim ==
  ASSUME Inv, Window, NEW p \in Producers, Claim(p)
  PROVE  Window'
<1> SUFFICES ASSUME ~ clashed' PROVE Window'
  BY DEF Window
<1>1. /\ claims' = claims + 1 /\ hand' = [hand EXCEPT ![p] = claims] /\ hand[p] = None
      /\ clashed' = (clashed \/ Clash)
      /\ UNCHANGED <<slot, reads, mode, file>>
  BY DEF Claim
<1>2. ~ clashed /\ \A i \in reads .. claims - 1 : SlotOf(i) # SlotOf(claims)
  BY <1>1 DEF Clash
<1>3. claims \in Nat /\ reads \in Nat /\ None \notin Nat
  BY TypeFacts DEF Inv
<1>4. hand'[p] = claims /\ \A q \in Producers : q # p => hand'[q] = hand[q]
  BY <1>1 DEF Inv, TypeOK
<1>5. ASSUME NEW n \in reads .. claims' - 1
      PROVE  slot'[SlotOf(n)] = n \/ \E q \in Producers : hand'[q] = n
  <2>1. CASE n = claims
    BY <1>4, <2>1
  <2>2. CASE n # claims
    <3>1. n \in reads .. claims - 1 /\ n \in Nat
      BY <1>1, <1>3, <2>2
    <3>2. slot[SlotOf(n)] = n \/ \E q \in Producers : hand[q] = n
      BY <1>2, <3>1 DEF Window
    <3> QED BY <1>1, <1>3, <1>4, <3>1, <3>2
  <2> QED BY <2>1, <2>2
<1>6. ASSUME NEW m \in reads .. claims' - 1, NEW n \in reads .. claims' - 1,
             SlotOf(m) = SlotOf(n)
      PROVE  m = n
  <2>1. /\ m = claims \/ m \in reads .. claims - 1
        /\ n = claims \/ n \in reads .. claims - 1
    BY <1>1, <1>3
  <2> QED BY <1>2, <1>6, <2>1 DEF Window
<1>7. \A k \in DOMAIN file' : file'[k] = k - 1
  BY <1>1, <1>2 DEF Window
<1> QED BY <1>1, <1>5, <1>6, <1>7 DEF Window

LEMMA WindowStore ==
  ASSUME Inv, Window, NEW p \in Producers, Store(p)
  PROVE  Window'
<1> SUFFICES ASSUME ~ clashed' PROVE Window'
  BY DEF Window
<1> DEFINE m == hand[p]
<1>0. /\ m \in Nat /\ m < claims /\ SlotOf(m) \in Slots /\ m = hand[p] /\ m # None
      /\ slot'[SlotOf(m)] = m /\ hand'[p] = None
      /\ \A i \in Slots : i # SlotOf(m) => slot'[i] = slot[i]
      /\ \A q \in Producers : q # p => hand'[q] = hand[q]
      /\ UNCHANGED <<claims, reads, mode, file, clashed>>
  BY StoreEffect, TypeFacts DEF Inv
<1> HIDE DEF m
<1>1. ~ clashed
  BY <1>0
<1>2. claims \in Nat /\ reads \in Nat /\ m \in reads .. claims - 1
  BY <1>0, <1>1, UnreadAreNotWritten, TypeFacts DEF Inv
<1>3. ASSUME NEW n \in reads .. claims - 1
      PROVE  slot'[SlotOf(n)] = n \/ \E q \in Producers : hand'[q] = n
  <2>0. n \in Nat /\ SlotOf(n) \in Slots
    BY <1>2, SlotType
  <2>1. CASE n = m
    BY <1>0, <2>1
  <2>2. CASE n # m
    <3>1. SlotOf(n) # SlotOf(m)
      BY <1>1, <1>2, <2>2 DEF Window
    <3>2. CASE slot[SlotOf(n)] = n
      BY <1>0, <2>0, <3>1, <3>2
    <3>3. CASE \E q \in Producers : hand[q] = n
      BY <1>0, <2>2, <3>3
    <3> QED BY <1>1, <3>2, <3>3 DEF Window
  <2> QED BY <2>1, <2>2
<1>4. /\ \A k \in DOMAIN file' : file'[k] = k - 1
      /\ \A a, n \in reads' .. claims' - 1 : SlotOf(a) = SlotOf(n) => a = n
  BY <1>0, <1>1 DEF Window
<1> QED BY <1>0, <1>3, <1>4 DEF Window

LEMMA WindowPop ==
  ASSUME Inv, Window, Pop
  PROVE  Window'
<1> SUFFICES ASSUME ~ clashed' PROVE Window'
  BY DEF Window
<1> DEFINE s == SlotOf(reads)
<1>0. /\ s \in Slots /\ slot[s] \in Nat /\ SlotOf(slot[s]) = s /\ s = SlotOf(reads)
      /\ DOMAIN file' = 1 .. reads + 1
      /\ file'[reads + 1] = slot[s] /\ \A k \in DOMAIN file : file'[k] = file[k]
      /\ \A i \in Slots : i # s => slot'[i] = slot[i]
      /\ reads' = reads + 1 /\ UNCHANGED <<claims, mode, hand, clashed>>
  BY PopEffect
<1> HIDE DEF s
<1>1. ~ clashed
  BY <1>0
<1>2. /\ claims \in Nat /\ reads \in Nat /\ slot[s] \in reads .. claims - 1
      /\ reads \in reads .. claims - 1
  <2>1. claims \in Nat /\ reads \in Nat /\ None \notin Nat
    BY TypeFacts DEF Inv
  <2>2. slot[s] \in reads .. claims - 1
    BY <1>0, <1>1, <2>1, UnreadAreNotWritten
  <2> QED BY <2>1, <2>2
<1>3. slot[s] = reads
  BY <1>0, <1>1, <1>2 DEF Window
<1>4. ASSUME NEW n \in reads' .. claims - 1
      PROVE  slot'[SlotOf(n)] = n \/ \E q \in Producers : hand'[q] = n
  <2>1. n \in Nat /\ n \in reads .. claims - 1 /\ n # reads
    BY <1>0, <1>2
  <2>2. SlotOf(n) \in Slots /\ SlotOf(n) # s
    BY <1>0, <1>1, <1>2, <2>1, SlotType DEF Window
  <2> QED BY <1>0, <1>1, <2>1, <2>2 DEF Window
<1>5. \A k \in DOMAIN file' : file'[k] = k - 1
  <2>1. \A k \in 1 .. reads + 1 : k = reads + 1 \/ k \in DOMAIN file
    BY TypeFacts DEF Inv
  <2> QED BY <1>0, <1>1, <1>2, <1>3, <2>1 DEF Window
<1>6. \A a, n \in reads' .. claims' - 1 : SlotOf(a) = SlotOf(n) => a = n
  <2>1. \A n \in reads' .. claims' - 1 : n \in reads .. claims - 1
    BY <1>0, <1>2
  <2> QED BY <1>1, <2>1 DEF Window
<1> QED BY <1>0, <1>4, <1>5, <1>6 DEF Window

LEMMA WindowNext == Inv /\ Window /\ [Next]_vars => Window'
<1> SUFFICES ASSUME Inv, Window, [Next]_vars PROVE Window'
  OBVIOUS
<1>1. ASSUME NEW p \in Producers, Claim(p) PROVE Window'
  BY <1>1, WindowClaim
<1>2. ASSUME NEW p \in Producers, Store(p) PROVE Window'
  BY <1>2, WindowStore
<1>3. CASE Pop
  BY <1>3, WindowPop
<1>4. CASE Shutdown \/ End \/ Stopped \/ UNCHANGED vars
  BY <1>4 DEF Shutdown, End, Stopped, vars, Window
<1> QED BY <1>1, <1>2, <1>3, <1>4 DEF Next

\* As long as no index has the slot of an unread line, the file has the lines in the
\* order of their indices and none is lost, for any number of threads and slots and
\* any range of the index (NanoLog.hpp:150).
THEOREM LinesAreInOrder == Spec => []InOrderUnlessClash
<1>1. Inv /\ Window => InOrderUnlessClash
  <2> SUFFICES ASSUME Inv, Window, ~ clashed
               PROVE  (\A i \in DOMAIN file : file[i] = i - 1) /\ Dropped = {}
    BY DEF InOrderUnlessClash
  <2>1. ASSUME NEW n \in 0 .. claims - 1
        PROVE  n \in ToSet(file) \cup Waiting \cup InHand
    <3>0. n \in Nat /\ reads \in Nat /\ claims \in Nat /\ None \notin Nat
      BY TypeFacts DEF Inv
    <3>1. CASE n < reads
      <4>1. n + 1 \in DOMAIN file /\ file[n + 1] = n
        BY <3>0, <3>1, TypeFacts DEF Inv, Window
      <4> QED BY <4>1 DEF ToSet
    <3>2. CASE ~ n < reads
      <4>1. slot[SlotOf(n)] = n \/ \E p \in Producers : hand[p] = n
        BY <3>0, <3>2 DEF Window
      <4>2. SlotOf(n) \in Slots
        BY <3>0, SlotType
      <4> QED BY <3>0, <4>1, <4>2 DEF Waiting, InHand
    <3> QED BY <3>1, <3>2
  <2> QED BY <2>1 DEF Window, Dropped
<1> QED BY <1>1, InvInit, InvNext, WindowInit, WindowNext, PTL DEF Spec

LEMMA ClashStep ==
  ASSUME Inv, NEW p \in Producers, Claim(p), clashed' # clashed
  PROVE  \/ claims - reads >= Size
         \/ Wrap % Size # 0 /\ reads \div Wrap # claims \div Wrap
<1>1. claims \in Nat /\ reads \in Nat /\ Size \in Nat \ {0} /\ clashed \in BOOLEAN
  BY TypeFacts, RingAssumption DEF Inv, TypeOK
<1>2. PICK i \in reads .. claims - 1 : SlotOf(i) = SlotOf(claims)
  BY <1>1 DEF Claim, Clash
<1>3. i \in Nat /\ reads <= i /\ i < claims
  BY <1>1, <1>2
<1>4. CASE claims - reads >= Size
  BY <1>4
<1>5. CASE ~ claims - reads >= Size
  <2>1. i - claims < Size /\ claims - i < Size /\ i # claims
    BY <1>1, <1>3, <1>5
  <2>2. Wrap % Size # 0
    BY <1>1, <1>2, <1>3, <2>1, SlotsDiffer
  <2>3. i \div Wrap # claims \div Wrap
    BY <1>1, <1>2, <1>3, <2>1, SlotsDifferInTurn
  <2>4. reads \div Wrap # claims \div Wrap
    BY <1>1, <1>3, <2>3, TurnBetween
  <2> QED BY <2>2, <2>4
<1> QED BY <1>4, <1>5

\* Two unread lines have one slot only when the ring is full, or around the overflow of
\* the index in a ring whose size does not divide its range: the service's default of
\* 12288 slots is one (NanoLog.cpp:487).
THEOREM ClashesAreRare == Spec => ClashOnlyWhenFull
<1>1. Inv /\ [Next]_vars =>
        [clashed' # clashed =>
           \/ claims - reads >= Size
           \/ Wrap % Size # 0 /\ reads \div Wrap # claims \div Wrap]_vars
  <2> SUFFICES ASSUME Inv, [Next]_vars, clashed' # clashed
               PROVE  \/ claims - reads >= Size
                      \/ Wrap % Size # 0 /\ reads \div Wrap # claims \div Wrap
    OBVIOUS
  <2>1. \E p \in Producers : Claim(p)
    BY DEF Next, Store, Pop, Shutdown, End, Stopped, vars
  <2> QED BY <2>1, ClashStep
<1> QED BY <1>1, InvInit, InvNext, PTL DEF Spec, ClashOnlyWhenFull
-----------------------------------------------------------------------------
(***************************************************************************)
(* When the process ends                                                   *)
(***************************************************************************)
\* If no line was dropped and the slot of the consumer stays empty, each line of that
\* slot was read from it; so the index of the consumer is no line.
LEMMA AllIndicesAreRead ==
  ASSUME Inv, mode = "done", Dropped = {}
  PROVE  reads = claims
<1> DEFINE s == SlotOf(reads)
           L == {n \in 0 .. claims - 1 : SlotOf(n) = s}
           R == {n \in 0 .. reads - 1 : SlotOf(n) = s}
<1>0. /\ reads \in Nat /\ claims \in Nat /\ DOMAIN file = 1 .. reads /\ None \notin Nat
      /\ s \in Slots /\ slot[s] = None /\ reads <= claims
  BY TypeFacts, SlotType DEF Inv, TypeOK, AtTheEnd, Readable
<1>1. \A n \in 0 .. claims - 1 : n \in ToSet(file) \cup Waiting
  <2>1. InHand = {}
    BY DEF Inv, AtTheEnd, InHand
  <2> QED BY <2>1 DEF Dropped
<1>2. ASSUME NEW n \in L PROVE \E m \in R : file[m + 1] = n
  <2>1. n \notin Waiting
    <3>1. ASSUME NEW i \in Slots, slot[i] = n PROVE FALSE
      <4>1. SlotOf(n) = i
        BY <1>0, <3>1 DEF Inv, InItsSlot
      <4> QED BY <1>0, <3>1, <4>1
    <3> QED BY <3>1 DEF Waiting
  <2>2. PICK k \in DOMAIN file : file[k] = n
    BY <1>1, <2>1 DEF ToSet
  <2>3. SlotOf(k - 1) = s
    BY <2>2 DEF Inv, InItsSlot
  <2>4. k - 1 \in R /\ (k - 1) + 1 = k
    BY <1>0, <2>3
  <2> QED BY <2>2, <2>4
<1>3. IsFiniteSet(L) /\ IsFiniteSet(R)
  <2>1. IsFiniteSet(0 .. claims - 1) /\ IsFiniteSet(0 .. reads - 1)
    BY <1>0, FS_Interval
  <2> QED BY <2>1, FS_Subset
<1>4. Cardinality(L) <= Cardinality(R)
  <2> DEFINE f == [n \in L |-> CHOOSE m \in R : file[m + 1] = n]
  <2>1. \A n \in L : f[n] \in R /\ file[f[n] + 1] = n
    BY <1>2
  <2>2. f \in Injection(L, R)
    <3> HIDE DEF L, R
    <3>1. f \in [L -> R]
      BY <2>1
    <3> HIDE DEF f
    <3> QED BY <2>1, <3>1 DEF Injection, IsInjective
  <2> HIDE DEF f, L, R
  <2> QED BY <1>3, <2>2, FS_Injection
<1>5. CASE reads < claims
  <2>1. reads \in L /\ reads \notin R /\ R \subseteq L \ {reads}
    BY <1>0, <1>5
  <2> HIDE DEF L, R, s
  <2>2. /\ IsFiniteSet(L \ {reads}) /\ Cardinality(L \ {reads}) = Cardinality(L) - 1
    BY <1>3, <2>1, FS_RemoveElement
  <2>3. Cardinality(R) <= Cardinality(L) - 1
    BY <2>1, <2>2, FS_Subset
  <2>4. Cardinality(L) \in Nat /\ Cardinality(R) \in Nat
    BY <1>3, FS_CardinalityType
  <2> QED BY <1>4, <2>3, <2>4
<1> QED BY <1>0, <1>5

\* As many lines were written as were given an index: they are all of them.
LEMMA AllAreWritten ==
  ASSUME Inv, reads = claims
  PROVE  \A n \in 0 .. claims - 1 : \E k \in DOMAIN file : file[k] = n
<1> DEFINE S == 1 .. reads
           T == 0 .. claims - 1
<1>0. /\ reads \in Nat /\ claims \in Nat /\ DOMAIN file = S
      /\ \A k \in S : file[k] \in T
  BY TypeFacts DEF Inv, InItsSlot
<1>1. file \in [S -> T]
  BY <1>0 DEF Inv, TypeOK
<1>2. file \in Injection(S, T)
  BY <1>0, <1>1 DEF Inv, Once, Injection, IsInjective
<1>3. IsFiniteSet(T) /\ Cardinality(S) = Cardinality(T)
  <2>1. Cardinality(1 .. reads) = IF 1 > reads THEN 0 ELSE reads - 1 + 1
    BY <1>0, FS_Interval
  <2>2. /\ IsFiniteSet(0 .. claims - 1)
        /\ Cardinality(0 .. claims - 1) = IF 0 > claims - 1 THEN 0 ELSE claims - 1 - 0 + 1
    BY <1>0, FS_Interval
  <2> QED BY <1>0, <2>1, <2>2
<1> HIDE DEF S, T
<1>4. file \in Surjection(S, T)
  BY <1>2, <1>3, FS_Injection
<1> QED BY <1>0, <1>4 DEF Surjection, T

\* What is left in the ring when the process ends is written, unless a line was
\* dropped before, for any number of threads, lines and slots (NanoLog.cpp:750).
THEOREM RestIsWritten == Spec => []DrainedUnlessDropped
<1>1. Inv => DrainedUnlessDropped
  <2> SUFFICES ASSUME Inv, mode = "done", Dropped = {}, NEW n \in Waiting PROVE FALSE
    BY DEF DrainedUnlessDropped
  <2>1. PICK i \in Slots : slot[i] = n /\ n # None
    BY DEF Waiting
  <2>2. n \in 0 .. claims - 1
    BY <2>1, TypeFacts DEF Inv, InItsSlot
  <2>3. \E k \in DOMAIN file : file[k] = n
    BY <2>2, AllIndicesAreRead, AllAreWritten
  <2> QED BY <2>1, <2>3 DEF Inv, Once
<1> QED BY <1>1, InvInit, InvNext, PTL DEF Spec
=============================================================================
