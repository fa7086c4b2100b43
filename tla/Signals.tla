------------------------------- MODULE Signals -------------------------------
(***************************************************************************)
(* The IDs of commands, with the widths of C: get_commandID counts them in *)
(* an unsigned long long, the hardware gives the ID back with its signal,  *)
(* and get_end_CMD, which takes it as an int, looks for it in the queue of *)
(* the chip.  The other modules take IDs for identities; two theorems of   *)
(* SchedulerProofs say how far that is right.                              *)
(***************************************************************************)
EXTENDS Integers, Sequences

HalfInt == 2147483648   \* values of an int that are not negative
IntSpan == 4294967296   \* values of an int
ULLSpan == IntSpan * IntSpan \* values of an unsigned long long

CommandNumbers == 0..ULLSpan-1

\* The argument of get_end_CMD: the ID converted to int.
AsInt(id) ==
  IF id % IntSpan < HalfInt THEN id % IntSpan ELSE (id % IntSpan) - IntSpan

\* "ID == commandID" converts the int back, with its sign.
Matches(id, int) == id = int % ULLSpan

\* Where get_end_CMD stops: at the head of the queue or at the first of its
\* successors with the ID.
FoundAt(queue, id, i) ==
  /\ i \in DOMAIN queue /\ Matches(queue[i], AsInt(id))
  /\ \A j \in DOMAIN queue : j < i => ~ Matches(queue[j], AsInt(id))
=============================================================================
