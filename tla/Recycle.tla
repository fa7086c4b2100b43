------------------------------- MODULE Recycle -------------------------------
(***************************************************************************)
(* The lives of the Command and SubRequest objects that command.c takes     *)
(* from its pools and gives back: commands for the sub-requests of the host,*)
(* erase commands, and the copies an erase makes of the pages it finds.     *)
(* allocate_USBSSD returns the object freed last, with its old fields, or   *)
(* fresh memory with any.                                                   *)
(*                                                                          *)
(* The tables, the contents and the wake-ups are those of Flash, DataPath   *)
(* and Scheduler and left out here: an idle chip may be given its next      *)
(* command at any time, and for_erase may find another page or none.  A     *)
(* chip has one plane here, so one erase at a time.                         *)
(***************************************************************************)
EXTENDS Naturals, Sequences, FiniteSets, FiniteSetsExt, SequencesExt

CONSTANTS
  Chips,  \* each with one plane
  Cmds,   \* bound: the Command objects there is memory for
  Subs,   \* bound: the SubRequest objects there is memory for
  NULL,
  Prompt  \* TRUE: recv_signal_back is not held up where it lets the mutex go (an assumption)

Plane == "eraseLocation"   \* subReqs of an erase command
Garbage == "garbage"       \* what fresh memory held

ASSUME RecycleAssumption ==
  /\ Prompt \in BOOLEAN /\ NULL \notin Cmds \cup Subs \cup Chips
  /\ IsFiniteSet(Subs) /\ {Plane, Garbage} \cap Subs = {}

VARIABLES
  use,       \* what a command serves: "user", "erase", "copy", or "free" or "unmade"
  subReqs,   \* its field of that name
  freeCmds,  \* the pool of commands: its free list
  subUse,    \* a sub-request: "user", "done", "copy", "free" or "unmade"
  freeSubs,  \* its pool's free list
  waiting,   \* the sub-requests in the lists of a chip
  running,   \* the command a chip works on, or NULL
  erase,     \* the head of a chip's eraseCommands, or NULL
  related,   \* the copy of that erase, or NULL
  copying,   \* that copy's operation: "read" or "write"
  ending     \* recv_signal_back of a chip: its endCommand, what that was, where it is

recycleVars == <<use, subReqs, freeCmds, subUse, freeSubs, waiting, running, erase, related,
                 copying, ending>>

Nothing == [cmd |-> NULL, was |-> "none", at |-> "idle"]

RecycleInit ==
  /\ use = [c \in Cmds |-> "unmade"] /\ subReqs = [c \in Cmds |-> Garbage] /\ freeCmds = <<>>
  /\ subUse = [s \in Subs |-> "unmade"] /\ freeSubs = <<>>
  /\ waiting = [chip \in Chips |-> {}] /\ running = [chip \in Chips |-> NULL]
  /\ erase = [chip \in Chips |-> NULL] /\ related = [chip \in Chips |-> NULL]
  /\ copying = [chip \in Chips |-> "none"] /\ ending = [chip \in Chips |-> Nothing]

-----------------------------------------------------------------------------
(* The pools.                                                              *)

\* allocate_USBSSD.
IsNext(o, list, unmade) == IF list = <<>> THEN o \in unmade ELSE o = Head(list)
Rest(list) == IF list = <<>> THEN <<>> ELSE Tail(list)

NextCmd(c) == IsNext(c, freeCmds, {d \in Cmds : use[d] = "unmade"})
NextSub(s) == IsNext(s, freeSubs, {t \in Subs : subUse[t] = "unmade"})

-----------------------------------------------------------------------------
(* Sub-requests of the host.                                               *)

Submit(chip, s) ==
  /\ NextSub(s) /\ freeSubs' = Rest(freeSubs)
  /\ subUse' = [subUse EXCEPT ![s] = "user"]
  /\ waiting' = [waiting EXCEPT ![chip] = @ \cup {s}]
  /\ UNCHANGED <<use, subReqs, freeCmds, running, erase, related, copying, ending>>

\* get_Command_USBSSD comes to the lists when there is no erase: an erase always
\* has something for an idle chip.
Dispatch(chip, s, c) ==
  /\ running[chip] = NULL /\ erase[chip] = NULL /\ s \in waiting[chip]
  /\ NextCmd(c) /\ freeCmds' = Rest(freeCmds)
  /\ use' = [use EXCEPT ![c] = "user"] /\ subReqs' = [subReqs EXCEPT ![c] = s]
  /\ waiting' = [waiting EXCEPT ![chip] = @ \ {s}]
  /\ running' = [running EXCEPT ![chip] = c]
  /\ UNCHANGED <<subUse, freeSubs, erase, related, copying, ending>>

-----------------------------------------------------------------------------
(* for_erase.                                                              *)

Erasing(chip) == running[chip] = NULL /\ erase[chip] # NULL

\* The first page: a command from the pool, and a sub-request if the command has
\* none.
CreateCopy(chip, c) ==
  /\ Erasing(chip) /\ related[chip] = NULL
  /\ NextCmd(c) /\ freeCmds' = Rest(freeCmds)
  /\ use' = [use EXCEPT ![c] = "copy"]
  /\ related' = [related EXCEPT ![chip] = c] /\ copying' = [copying EXCEPT ![chip] = "read"]
  /\ running' = [running EXCEPT ![chip] = c]
  /\ \E found \in IF use[c] = "unmade" THEN {NULL, Garbage} ELSE {subReqs[c]} :
       \/ /\ found = NULL
          /\ \E s \in Subs :
               /\ NextSub(s) /\ freeSubs' = Rest(freeSubs)
               /\ subUse' = [subUse EXCEPT ![s] = "copy"]
               /\ subReqs' = [subReqs EXCEPT ![c] = s]
       \/ found # NULL /\ UNCHANGED <<subReqs, subUse, freeSubs>>
  /\ UNCHANGED <<waiting, erase, ending>>

\* The page is read, then written; then the next page is read.
NextOp(op) == IF op = "read" THEN "write" ELSE "read"

GoOn(chip) ==
  /\ Erasing(chip) /\ related[chip] # NULL
  /\ copying' = [copying EXCEPT ![chip] = NextOp(@)]
  /\ running' = [running EXCEPT ![chip] = related[chip]]
  /\ UNCHANGED <<use, subReqs, freeCmds, subUse, freeSubs, waiting, erase, related, ending>>

\* Variant: the copy is forgotten, not freed.
EraseNow_leaking(chip) ==
  /\ Erasing(chip) /\ (related[chip] # NULL => copying[chip] = "write")
  /\ running' = [running EXCEPT ![chip] = erase[chip]]
  /\ related' = [related EXCEPT ![chip] = NULL] /\ copying' = [copying EXCEPT ![chip] = "none"]
  /\ UNCHANGED <<use, subReqs, freeCmds, subUse, freeSubs, waiting, erase, ending>>

\* No more page: the copy and its sub-request are deleted and the erase is sent.
EraseNow(chip) ==
  LET c == related[chip] s == subReqs[c]
  IN  /\ Erasing(chip) /\ (c # NULL => copying[chip] = "write")
      /\ running' = [running EXCEPT ![chip] = erase[chip]]
      /\ related' = [related EXCEPT ![chip] = NULL] /\ copying' = [copying EXCEPT ![chip] = "none"]
      /\ \/ c = NULL /\ UNCHANGED <<use, subReqs, freeCmds, subUse, freeSubs>>
         \/ /\ c # NULL
            /\ freeSubs' = <<s>> \o freeSubs /\ subUse' = [subUse EXCEPT ![s] = "free"]
            /\ freeCmds' = <<c>> \o freeCmds /\ use' = [use EXCEPT ![c] = "free"]
            /\ subReqs' = [subReqs EXCEPT ![c] = NULL]
      /\ UNCHANGED <<waiting, erase, ending>>

-----------------------------------------------------------------------------
(* recv_signal_back, a work item of the chip.                              *)

\* With the mutex: the command leaves its queue.
EndSignal(chip) ==
  LET c == running[chip]
  IN  /\ c # NULL /\ ending[chip].at = "idle"
      /\ ending' = [ending EXCEPT ![chip] = [cmd |-> c, was |-> use[c], at |-> "unlocked"]]
      /\ running' = [running EXCEPT ![chip] = NULL]
      /\ erase' = [erase EXCEPT ![chip] = IF @ = c THEN NULL ELSE @]
      /\ UNCHANGED <<use, subReqs, freeCmds, subUse, freeSubs, waiting, related, copying>>

\* Variant: the test of related is left out.
ServesUser_untested(c) == use[c] # "erase"

\* What the fields related and operation of a command say: a copy has its erase,
\* and keeps it when it is freed; a user's has none.
ServesUser(c) == use[c] = "user"

\* Without the mutex: a copy and an erase are left alone, the erase for ever.
Look(chip) ==
  /\ ending[chip].at = "unlocked"
  /\ ending' = [ending EXCEPT ![chip] = IF ServesUser(@.cmd) THEN [@ EXCEPT !.at = "ends"] ELSE Nothing]
  /\ UNCHANGED <<use, subReqs, freeCmds, subUse, freeSubs, waiting, running, erase, related, copying>>

\* check_and_create_gc after a write.
Check(chip) ==
  /\ ending[chip].at = "ends" /\ ending' = [ending EXCEPT ![chip].at = "checked"]
  /\ \/ UNCHANGED <<use, subReqs, freeCmds, erase>>
     \/ /\ erase[chip] = NULL
        /\ \E e \in Cmds :
             /\ NextCmd(e) /\ freeCmds' = Rest(freeCmds)
             /\ use' = [use EXCEPT ![e] = "erase"] /\ subReqs' = [subReqs EXCEPT ![e] = Plane]
             /\ erase' = [erase EXCEPT ![chip] = e]
  /\ UNCHANGED <<subUse, freeSubs, waiting, running, related, copying>>

\* Variant: two sub-requests that end together both find that they are the last.
EndSub_twice(chip) ==
  LET s == subReqs[ending[chip].cmd]
  IN  /\ ending[chip].at = "checked" /\ ending' = [ending EXCEPT ![chip].at = "ended"]
      /\ \E D \in SUBSET {t \in Subs : subUse[t] = "done"} :
           /\ \E q \in SetToSeqs({s} \cup D) : freeSubs' = q \o freeSubs
           /\ subUse' = [subUse EXCEPT ![s] = "done"]
      /\ UNCHANGED <<use, subReqs, freeCmds, waiting, running, erase, related, copying>>

\* subRequest_End: the sub-request waits for the others of its request, or it is
\* the last and all of them are freed.
EndSub(chip) ==
  LET s == subReqs[ending[chip].cmd]
  IN  /\ ending[chip].at = "checked" /\ ending' = [ending EXCEPT ![chip].at = "ended"]
      /\ \/ subUse' = [subUse EXCEPT ![s] = "done"] /\ UNCHANGED freeSubs
         \/ \E D \in SUBSET {t \in Subs : subUse[t] = "done"} :
              /\ \E q \in SetToSeqs({s} \cup D) : freeSubs' = q \o freeSubs
              /\ subUse' = [t \in Subs |-> IF t \in {s} \cup D THEN "free" ELSE subUse[t]]
      /\ UNCHANGED <<use, subReqs, freeCmds, waiting, running, erase, related, copying>>

FreeCommand(chip) ==
  /\ ending[chip].at = "ended" /\ ending' = [ending EXCEPT ![chip] = Nothing]
  /\ freeCmds' = <<ending[chip].cmd>> \o freeCmds
  /\ use' = [use EXCEPT ![ending[chip].cmd] = "free"]
  /\ UNCHANGED <<subReqs, subUse, freeSubs, waiting, running, erase, related, copying>>

-----------------------------------------------------------------------------
(* The copy of an erase has a sub-request that was made for it ("create read
   subreq and cmd", command.c:665) and that nobody else fills, queues, ends or
   frees.  Fails: a recycled command brings the one it served last. *)
CopyOwnsItsSub ==
  \A chip \in Chips : LET c == related[chip] IN c # NULL =>
    /\ subReqs[c] \in {s \in Subs : subUse[s] = "copy"}
    /\ \A other \in Chips \ {chip} :
         related[other] # NULL => subReqs[related[other]] # subReqs[c]

HeldUp == \E chip \in Chips : ending[chip].at = "unlocked"

RecycleNext ==
  \/ \E chip \in Chips : Look(chip)
  \/ /\ ~ (Prompt /\ HeldUp)
     /\ \E chip \in Chips :
          \/ \E s \in Subs : Submit(chip, s)
          \/ \E s \in Subs, c \in Cmds : Dispatch(chip, s, c)
          \/ \E c \in Cmds : CreateCopy(chip, c)
          \/ GoOn(chip) \/ EraseNow(chip)
          \/ EndSignal(chip) \/ Check(chip) \/ EndSub(chip) \/ FreeCommand(chip)

RecycleSpec == RecycleInit /\ [][RecycleNext]_recycleVars

-----------------------------------------------------------------------------
\* Nothing is in a pool twice or while somebody uses it: not a command in a
\* queue or in the hands of recv_signal_back, not a sub-request in a list or
\* behind a command that runs (free_USBSSD's callers in command.c, request.c and
\* sub_request.c), as long as no copy has another's sub-request.
FreedOnce == CopyOwnsItsSub =>
  /\ IsInjective(freeCmds) /\ Range(freeCmds) = {c \in Cmds : use[c] = "free"}
  /\ IsInjective(freeSubs) /\ Range(freeSubs) = {s \in Subs : subUse[s] = "free"}
  /\ \A chip \in Chips :
       /\ {running[chip], erase[chip], related[chip]} \cap Range(freeCmds) = {}
       /\ waiting[chip] \cap Range(freeSubs) = {}
       /\ running[chip] # NULL => subReqs[running[chip]] \notin Range(freeSubs)

\* Every command taken from the pool is at work or comes back, except the erase
\* commands: recv_signal_back frees neither an erase nor a copy, and for_erase
\* only the copy (command.c:367, 659).
OnlyErasesLeak ==
  \A c \in Cmds : use[c] \in {"user", "copy"} =>
    \E chip \in Chips : c \in {running[chip], related[chip], ending[chip].cmd}

\* recv_signal_back ends the sub-request of a command that served a user when it
\* was signalled: what it finds in the command without the mutex is still what it
\* took from the queue (command.c:361-377).  With one chip the command cannot be
\* taken again before the look, though for_erase may free it in between: the chip
\* is then busy with the erase.  With two chips the other one takes it, and the
\* look finds a user's command.
EndsOwnCommand ==
  \A chip \in Chips : ending[chip].at \in {"ends", "checked", "ended"} => ending[chip].was = "user"
=============================================================================
