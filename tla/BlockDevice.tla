----------------------------- MODULE BlockDevice -----------------------------
(***************************************************************************)
(* What the driver promises the block layer: a request is accepted only    *)
(* when none is out (tag_set.queue_depth = 1), each page of it is served   *)
(* once, and it is ended by the step that serves its last page.            *)
(***************************************************************************)
EXTENDS Naturals

CONSTANT MaxPages \* pages of the longest request

VARIABLES
  out,  \* a request is out
  todo  \* the pages of it that have not been served

Init == out = FALSE /\ todo = {}

Submit ==
  /\ ~out
  /\ out' = TRUE
  /\ \E n \in 1..MaxPages : todo' = 1..n

Serve ==
  \E page \in todo :
    /\ todo' = todo \ {page}
    /\ out' = (todo' # {})

Next == Submit \/ Serve

\* The block layer may stop sending; a request that is out is served.
Spec == Init /\ [][Next]_<<out, todo>> /\ WF_<<out, todo>>(Serve)
=============================================================================
