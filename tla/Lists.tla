-------------------------------- MODULE Lists --------------------------------
(* What add_subReqs_to_chip does for Scheduler and for DataPath.            *)
EXTENDS Integers, Sequences

\* The loop over a list that takes those that are wanted, in their order.
Picked(items, wanted) ==
  LET upTo[n \in 0..Len(items)] ==
        IF n = 0 THEN <<>>
        ELSE IF items[n] \in wanted THEN Append(upTo[n-1], items[n])
        ELSE upTo[n-1]
  IN upTo[Len(items)]
=============================================================================
