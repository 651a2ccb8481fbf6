------------------------------ MODULE LogQueue ------------------------------
(***************************************************************************)
(* The guaranteed logger: QueueBuffer and Buffer of                        *)
(* src/src/log/NanoLog.cpp, and the thread of NanoLogger that writes.      *)
(*                                                                         *)
(* A producer takes an index with fetch_add, writes its line there and     *)
(* counts it; the one whose count fills the buffer makes the next one and  *)
(* sets the index back to zero, while all others spin.  The consumer reads *)
(* the slots in order and frees a buffer as soon as it has read its last   *)
(* slot: the state of a slot is set before it is counted, so the counter   *)
(* may be freed by then.  That is undefined.  Modelled are the outcomes    *)
(* that leave the process alive: the memory still holds the counter, or it *)
(* does not and the count is lost.  `late` remembers that it happened.     *)
(*                                                                         *)
(* The atomics are modelled as sequentially consistent.                    *)
(***************************************************************************)
EXTENDS Naturals, Sequences, FiniteSets

CONSTANTS Producers,   \* threads that log
          MaxLines,    \* bound: lines of each thread
          Size,        \* Buffer::size
          None         \* an empty slot

ASSUME QueueAssumption ==
  /\ Size \in Nat \ {0}
  /\ MaxLines \in Nat
  /\ None \notin [by : Producers, no : 1 .. MaxLines]

VARIABLES
  item,      \* item[k]: the slots of the k-th Buffer; the last one is m_current_write_buffer
  counted,   \* counted[k]: its slots that were counted; m_write_state[size] is their number
  pushed,    \* m_buffers holds
  popped,    \*   the buffers popped + 1 .. pushed
  windex,    \* m_write_index
  rindex,    \* m_read_index
  mode,      \* m_state, and "done" when the consumer has ended
  pc,        \* pc[p]: where p is in push()
  at,        \* at[p]: its write_index
  sent,      \* history: sent[p] is the number of lines p has logged
  file,      \* the lines FileWriter has written
  late       \* history: a slot was counted after the buffer was freed

vars == <<item, counted, pushed, popped, windex, rindex, mode, pc, at, sent, file, late>>
consumerVars == <<popped, rindex, mode, file>>

Slots == 0 .. Size - 1
EmptyBuffer == [i \in Slots |-> None]
Current == Len(item)
Line(p) == [by |-> p, no |-> sent[p]]
Written(line) == \E i \in DOMAIN file : file[i] = line
-----------------------------------------------------------------------------
Init ==
  /\ item = <<EmptyBuffer>>
  /\ counted = <<{}>>
  /\ pushed = 1
  /\ popped = 0
  /\ windex = 0
  /\ rindex = 0
  /\ mode = "ready"
  /\ pc = [p \in Producers |-> "idle"]
  /\ at = [p \in Producers |-> 0]
  /\ sent = [p \in Producers |-> 0]
  /\ file = <<>>
  /\ late = FALSE

\* A statement such as LOG_INFO << ...; ends in push().
Log(p) ==
  /\ pc[p] = "idle" /\ mode = "ready"
  /\ sent[p] < MaxLines
  /\ sent' = [sent EXCEPT ![p] = @ + 1]
  /\ pc' = [pc EXCEPT ![p] = "claim"]
  /\ UNCHANGED <<item, counted, pushed, windex, at, late, consumerVars>>

\* fetch_add: an index of the current buffer, or one past its end.
Claim(p) ==
  /\ pc[p] = "claim"
  /\ windex' = windex + 1
  /\ at' = [at EXCEPT ![p] = windex]
  /\ pc' = [pc EXCEPT ![p] = IF windex < Size THEN "store" ELSE "spin"]
  /\ UNCHANGED <<item, counted, pushed, sent, late, consumerVars>>

\* The loop that waits for the next buffer ends, and push() calls itself.
Spin(p) ==
  /\ pc[p] = "spin"
  /\ windex < Size
  /\ pc' = [pc EXCEPT ![p] = "claim"]
  /\ UNCHANGED <<item, counted, pushed, windex, at, sent, late, consumerVars>>

\* The line is put into its slot, and the state of the slot is set.
Store(p) ==
  /\ pc[p] = "store"
  /\ item' = [item EXCEPT ![Current][at[p]] = Line(p)]
  /\ pc' = [pc EXCEPT ![p] = "count"]
  /\ UNCHANGED <<counted, pushed, windex, at, sent, late, consumerVars>>

Counts(p, filled) ==
  /\ counted' = [counted EXCEPT ![Current] = @ \cup {at[p]}]
  /\ pc' = [pc EXCEPT ![p] = IF Cardinality(counted[Current] \cup {at[p]}) = filled
                             THEN "setup" ELSE "idle"]
\* fetch_add(1) + 1 == size, on a buffer that may have been freed.
Count(p) ==
  /\ pc[p] = "count"
  /\ \/ Counts(p, Size)
     \/ /\ popped >= Current
        /\ pc' = [pc EXCEPT ![p] = "idle"]
        /\ UNCHANGED counted
  /\ late' = (late \/ popped >= Current)
  /\ UNCHANGED <<item, pushed, windex, at, sent, consumerVars>>

\* Mutant: the index is set back here, before the buffer is in the queue ...
SetupOpens(p) ==
  /\ pc[p] = "setup"
  /\ item' = Append(item, EmptyBuffer)
  /\ counted' = Append(counted, {})
  /\ windex' = 0
  /\ pc' = [pc EXCEPT ![p] = "publish"]
  /\ UNCHANGED <<pushed, at, sent, late, consumerVars>>
\* setup_next_write_buffer(): a new current buffer ...
Setup(p) ==
  /\ pc[p] = "setup"
  /\ item' = Append(item, EmptyBuffer)
  /\ counted' = Append(counted, {})
  /\ pc' = [pc EXCEPT ![p] = "publish"]
  /\ UNCHANGED <<pushed, windex, at, sent, late, consumerVars>>

\* Mutant: the buffer enters the queue twice ...
PublishTwice(p) ==
  /\ pc[p] = "publish"
  /\ pushed' = pushed + 2
  /\ windex' = 0
  /\ pc' = [pc EXCEPT ![p] = "idle"]
  /\ UNCHANGED <<item, counted, at, sent, late, consumerVars>>
\* ... or not at all.
PublishUnqueued(p) ==
  /\ pc[p] = "publish"
  /\ windex' = 0
  /\ pc' = [pc EXCEPT ![p] = "idle"]
  /\ UNCHANGED <<item, counted, pushed, at, sent, late, consumerVars>>
\* ... which then, under the lock, enters the queue and is opened.
Publish(p) ==
  /\ pc[p] = "publish"
  /\ pushed' = pushed + 1
  /\ windex' = 0
  /\ pc' = [pc EXCEPT ![p] = "idle"]
  /\ UNCHANGED <<item, counted, at, sent, late, consumerVars>>
-----------------------------------------------------------------------------
Readable == popped < pushed /\ item[popped + 1][rindex] # None

\* try_pop() and write(): the next slot, and the end of its buffer.
Pop ==
  /\ mode # "done"
  /\ Readable
  /\ file' = Append(file, item[popped + 1][rindex])
  /\ IF rindex + 1 = Size
     THEN rindex' = 0 /\ popped' = popped + 1
     ELSE rindex' = rindex + 1 /\ UNCHANGED popped
  /\ UNCHANGED <<item, counted, pushed, windex, mode, pc, at, sent, late>>

\* ~NanoLogger: when the process ends, its threads have been joined.
Shutdown ==
  /\ mode = "ready"
  /\ \A p \in Producers : pc[p] = "idle"
  /\ mode' = "shutdown"
  /\ UNCHANGED <<item, counted, pushed, popped, windex, rindex, pc, at, sent, file, late>>

\* Mutant: what is left is not written.
EndAtOnce ==
  /\ mode = "shutdown"
  /\ mode' = "done"
  /\ UNCHANGED <<item, counted, pushed, popped, windex, rindex, pc, at, sent, file, late>>
\* The consumer ends at the first slot that is empty.
End ==
  /\ mode = "shutdown"
  /\ ~Readable
  /\ mode' = "done"
  /\ UNCHANGED <<item, counted, pushed, popped, windex, rindex, pc, at, sent, file, late>>

\* The process has ended, or the next buffer will never come.
Stopped ==
  /\ \/ mode = "done"
     \/ late /\ \E p \in Producers : pc[p] = "spin"
  /\ UNCHANGED vars

Push(p) == Claim(p) \/ Spin(p) \/ Store(p) \/ Count(p) \/ Setup(p) \/ Publish(p)
Next ==
  \/ \E p \in Producers : Log(p) \/ Push(p)
  \/ Pop \/ Shutdown \/ End \/ Stopped

Spec == Init /\ [][Next]_vars
\* A thread in push() is scheduled, and the consumer polls.
FairSpec == Spec /\ (\A p \in Producers : WF_vars(Push(p))) /\ WF_vars(Pop) /\ WF_vars(End)
-----------------------------------------------------------------------------
States == {"idle", "claim", "spin", "store", "count", "setup", "publish"}
Lines == [by : Producers, no : 1 .. MaxLines]

TypeOK ==
  /\ item \in Seq([Slots -> Lines \cup {None}])
  /\ counted \in Seq(SUBSET Slots)
  /\ Len(counted) = Current /\ Current # 0
  /\ popped \in Nat /\ pushed \in Nat
  /\ popped <= pushed /\ pushed <= Current
  /\ windex \in Nat /\ rindex \in Slots
  /\ mode \in {"ready", "shutdown", "done"}
  /\ pc \in [Producers -> States]
  /\ at \in [Producers -> Nat]
  /\ sent \in [Producers -> 0 .. MaxLines]
  /\ file \in Seq(Lines)
  /\ late \in BOOLEAN

\* A slot has one writer: who is about to write into the current buffer does so
\* into an empty slot that no other thread has, of a buffer that is not freed
\* (NanoLog.cpp:593 and 598).
SlotIsOwned ==
  \A p \in Producers : pc[p] = "store" =>
    /\ at[p] \in Slots
    /\ item[Current][at[p]] = None
    /\ popped < Current
    /\ \A q \in Producers \ {p} : pc[q] = "store" => at[q] # at[p]

\* When the consumer has ended, every line that was logged is in the file
\* ("Pop and log all remaining entries", NanoLog.cpp:750).
Drained ==
  mode = "done" => \A p \in Producers : \A n \in 1 .. sent[p] :
                     Written([by |-> p, no |-> n])

\* The lines of each thread are written in order, each once (NanoLog.hpp:166).
Abstract == INSTANCE LineLog
ImplementsLineLog == Abstract!Spec

\* A line that was logged is written, as long as no buffer was freed under the
\* thread that fills it (NanoLog.cpp:555).
LinesAreWritten ==
  \A p \in Producers : \A n \in 1 .. MaxLines :
    (sent[p] >= n) ~> (late \/ Written([by |-> p, no |-> n]))

\* "Provides a guarantee log lines will not be dropped" (NanoLog.hpp:166).
NoLineIsDropped ==
  \A p \in Producers : \A n \in 1 .. MaxLines :
    (sent[p] >= n) ~> Written([by |-> p, no |-> n])
=============================================================================
