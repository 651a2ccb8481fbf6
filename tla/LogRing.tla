------------------------------ MODULE LogRing -------------------------------
(***************************************************************************)
(* The non guaranteed logger: RingBuffer of src/src/log/NanoLog.cpp, and   *)
(* the thread of NanoLogger that writes.                                   *)
(*                                                                         *)
(* A producer takes the next index with fetch_add and writes into its slot *)
(* whether the line in it was read or not; the consumer reads slot after   *)
(* slot and waits at the first that is empty.  A slot has a spin lock, so  *)
(* each use of it is one action.  A line is named by the number of lines   *)
(* that were given an index before it.  The index is an unsigned int, and  *)
(* its range need not be a multiple of the number of slots: the service's  *)
(* default ring has 12288 (src/src/service/main.cpp:22).                   *)
(***************************************************************************)
EXTENDS Naturals, Sequences, FiniteSets, SequencesExt

CONSTANTS Producers,   \* threads that log
          MaxLines,    \* bound: lines of all of them
          Size,        \* m_size
          Wrap,        \* the range of unsigned int: 2^32
          None         \* a slot that is not written

ASSUME RingAssumption ==
  /\ Size \in Nat \ {0} /\ Wrap \in Nat \ {0}
  /\ MaxLines \in Nat
  /\ None \notin Nat

VARIABLES
  slot,     \* slot[i]: the line of m_ring[i] while `written` is 1
  claims,   \* fetch_adds so far: m_write_index is claims % Wrap
  reads,    \* successful pops: m_read_index is reads % Wrap
  mode,     \* m_state, and "done" when the consumer has ended
  hand,     \* hand[p]: the line p is about to write
  file,     \* the lines FileWriter has written
  clashed   \* history: an index was taken with the slot of a line not read yet

vars == <<slot, claims, reads, mode, hand, file, clashed>>

Slots == 0 .. Size - 1

\* Mutant: the last slot is not used.
SlotButLast(index) == (index % Wrap) % (IF Size = 1 THEN 1 ELSE Size - 1)
SlotOf(index) == (index % Wrap) % Size

Waiting == {slot[i] : i \in Slots} \ {None}
InHand == {hand[p] : p \in Producers} \ {None}

\* The next index has the slot of a line that has an index and was not read.
Clash == \E i \in reads .. claims - 1 : SlotOf(i) = SlotOf(claims)

Dropped == (0 .. claims - 1) \ (ToSet(file) \cup Waiting \cup InHand)
-----------------------------------------------------------------------------
Init ==
  /\ slot = [i \in Slots |-> None]
  /\ claims = 0
  /\ reads = 0
  /\ mode = "ready"
  /\ hand = [p \in Producers |-> None]
  /\ file = <<>>
  /\ clashed = FALSE

\* push() of a line: the index ...
Claim(p) ==
  /\ mode = "ready" /\ hand[p] = None
  /\ claims < MaxLines
  /\ claims' = claims + 1
  /\ hand' = [hand EXCEPT ![p] = claims]
  /\ clashed' = (clashed \/ Clash)
  /\ UNCHANGED <<slot, reads, mode, file>>

\* ... and the slot, under its lock.
Store(p) ==
  /\ hand[p] # None
  /\ slot' = [slot EXCEPT ![SlotOf(hand[p])] = hand[p]]
  /\ hand' = [hand EXCEPT ![p] = None]
  /\ UNCHANGED <<claims, reads, mode, file, clashed>>

Readable == slot[SlotOf(reads)] # None

\* Mutant: an empty slot is passed over.
PopSkips ==
  /\ mode # "done"
  /\ reads < claims
  /\ file' = IF Readable THEN Append(file, slot[SlotOf(reads)]) ELSE file
  /\ slot' = [slot EXCEPT ![SlotOf(reads)] = None]
  /\ reads' = reads + 1
  /\ UNCHANGED <<claims, mode, hand, clashed>>
\* try_pop() and write().
Pop ==
  /\ mode # "done"
  /\ Readable
  /\ file' = Append(file, slot[SlotOf(reads)])
  /\ slot' = [slot EXCEPT ![SlotOf(reads)] = None]
  /\ reads' = reads + 1
  /\ UNCHANGED <<claims, mode, hand, clashed>>

\* ~NanoLogger: when the process ends, its threads have been joined.
Shutdown ==
  /\ mode = "ready" /\ InHand = {}
  /\ mode' = "shutdown"
  /\ UNCHANGED <<slot, claims, reads, hand, file, clashed>>

\* Mutant: what is left is not written.
EndAtOnce ==
  /\ mode = "shutdown"
  /\ mode' = "done"
  /\ UNCHANGED <<slot, claims, reads, hand, file, clashed>>
\* The consumer ends at the first slot that is empty.
End ==
  /\ mode = "shutdown" /\ ~Readable
  /\ mode' = "done"
  /\ UNCHANGED <<slot, claims, reads, hand, file, clashed>>

Stopped == mode = "done" /\ UNCHANGED vars

Next ==
  \/ \E p \in Producers : Claim(p) \/ Store(p)
  \/ Pop \/ Shutdown \/ End \/ Stopped

Spec == Init /\ [][Next]_vars
-----------------------------------------------------------------------------
TypeOK ==
  /\ slot \in [Slots -> Nat \cup {None}]
  /\ claims \in Nat /\ reads \in Nat /\ reads <= claims
  /\ mode \in {"ready", "shutdown", "done"}
  /\ hand \in [Producers -> Nat \cup {None}]
  /\ file \in Seq(Nat) /\ Len(file) = reads
  /\ clashed \in BOOLEAN

\* As long as no index had the slot of an unread line, lines are written in the order
\* of their indices and none is dropped: "When the ring gets full, the previous log
\* line in the slot will be dropped" (NanoLog.hpp:150).
InOrderUnlessClash ==
  ~clashed => /\ \A i \in DOMAIN file : file[i] = i - 1
              /\ Dropped = {}

\* That happens only when as many lines as the ring has slots are unread, or when the
\* unread lines lie on both sides of the overflow of the index, and then only if the
\* number of slots does not divide its range (NanoLog.cpp:487).
ClashOnlyWhenFull ==
  [][clashed' # clashed =>
       \/ claims - reads >= Size
       \/ Wrap % Size # 0 /\ reads \div Wrap # claims \div Wrap]_vars

\* All that is left is written when the process ends, unless a line was dropped
\* before: then lines may wait behind the consumer (NanoLog.cpp:750).
DrainedUnlessDropped ==
  mode = "done" => Waiting = {} \/ Dropped # {}
=============================================================================
