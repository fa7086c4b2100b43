--------------------------------- MODULE Disk ---------------------------------
(***************************************************************************)
(* What a disk that may forget promises.  Of the sectors that have been     *)
(* written it keeps some (all of them, if it is as it should be): a read of *)
(* one of those returns what was last written to it, and one that it does  *)
(* not keep may read as anything, even when it is kept again later.  One   *)
(* request is out at a time; its sectors are served in any order and in    *)
(* any groups.                                                             *)
(***************************************************************************)
CONSTANTS
  Sectors,
  Values,   \* what the host writes to a sector
  Unwritten,\* not a value
  Kept      \* Kept[W]: of the sectors W that have been written, those it keeps

VARIABLES
  content, \* of each sector, "Unwritten" if nothing is promised
  written, \* the sectors that have been written
  op,      \* "NONE", or what the request that is out does
  todo,    \* its sectors that have not been served
  data     \* what it writes, or has read so far

diskVars == <<content, written, op, todo, data>>

Init ==
  /\ content = [s \in Sectors |-> Unwritten] /\ written = {}
  /\ op = "NONE" /\ todo = {} /\ data = <<>>

Submit ==
  /\ op = "NONE"
  /\ op' \in {"READ", "WRITE"}
  /\ todo' \in (SUBSET Sectors) \ {{}}
  /\ data' \in [todo' -> IF op' = "WRITE" THEN Values ELSE {Unwritten}]
  /\ UNCHANGED <<content, written>>

Write(S) ==
  /\ op = "WRITE"
  /\ written' = written \cup S
  /\ content' \in [Sectors -> Values \cup {Unwritten}]
  /\ \A s \in Sectors :
       /\ content'[s] = Unwritten <=> s \notin Kept[written']
       /\ s \in Kept[written'] \cap S => content'[s] = data[s]
       /\ s \in (Kept[written'] \cap Kept[written]) \ S => content'[s] = content[s]
  /\ UNCHANGED data

Read(S) ==
  /\ op = "READ"
  /\ DOMAIN data' = DOMAIN data
  /\ \A s \in DOMAIN data :
       /\ s \notin S => data'[s] = data[s]
       /\ s \in S /\ content[s] # Unwritten => data'[s] = content[s]
  /\ UNCHANGED <<content, written>>

Serve ==
  \E S \in (SUBSET todo) \ {{}} :
    /\ Write(S) \/ Read(S)
    /\ todo' = todo \ S
    /\ UNCHANGED op

End ==
  /\ op # "NONE" /\ todo = {}
  /\ op' = "NONE" /\ data' = <<>>
  /\ UNCHANGED <<content, written, todo>>

Spec == Init /\ [][Submit \/ Serve \/ End]_diskVars
=============================================================================
