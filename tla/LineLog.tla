------------------------------ MODULE LineLog -------------------------------
(***************************************************************************)
(* What a logger promises that never drops a line (GuaranteedLogger,       *)
(* src/src/log/NanoLog.hpp:165): the lines of a thread come into the file  *)
(* in the order in which the thread logged them, each of them once.  The   *)
(* lines of different threads may come in any order.                       *)
(***************************************************************************)
EXTENDS Naturals, Sequences

CONSTANTS Producers   \* the threads that log

VARIABLES sent,   \* sent[p]: how many lines p has logged
          file    \* the lines that were written

\* The n-th line of a thread.
Line == [by : Producers, no : Nat \ {0}]
Written(line) == \E i \in DOMAIN file : file[i] = line

Init ==
  /\ sent = [p \in Producers |-> 0]
  /\ file = <<>>

Log(p) ==
  /\ sent' = [sent EXCEPT ![p] = @ + 1]
  /\ UNCHANGED file

\* The next line of a thread: the first that is not in the file.
Write(line) ==
  /\ line.no <= sent[line.by]
  /\ ~Written(line)
  /\ \A n \in 1 .. line.no - 1 : Written([by |-> line.by, no |-> n])
  /\ file' = Append(file, line)
  /\ UNCHANGED sent

Next == \E p \in Producers :
          Log(p) \/ \E n \in 1 .. sent[p] : Write([by |-> p, no |-> n])

Spec == Init /\ [][Next]_<<sent, file>>
=============================================================================
