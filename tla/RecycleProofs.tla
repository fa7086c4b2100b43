---------------------------- MODULE RecycleProofs ----------------------------
(***************************************************************************)
(* Theorems about the lives of commands and sub-requests in Recycle, as    *)
(* long as every copy has a sub-request of its own: for any number of      *)
(* chips when recv_signal_back is not held up where it lets the mutex go,  *)
(* and at the end for one chip with no such assumption.                    *)
(*                                                                         *)
(* RInv is the inductive invariant.  It says who holds what: a command is  *)
(* in the pool or serves a user, an erase or a copy, and whoever serves a  *)
(* user is held once, by the chip that runs it or by the work item that    *)
(* ends it (CommandsHeld); a sub-request is in the pool, in one list, or   *)
(* behind the one command that has yet to end it (SubsHeld).               *)
(***************************************************************************)
EXTENDS Recycle, FiniteSetTheorems, SequenceTheorems, TLAPS

Endings ==
  [cmd : Cmds, was : {"user", "erase", "copy"}, at : {"unlocked", "ends", "checked", "ended"}]
    \cup {Nothing}

Shape ==
  /\ use \in [Cmds -> {"user", "erase", "copy", "free", "unmade"}]
  /\ subReqs \in [Cmds -> Subs \cup {NULL, Plane, Garbage}]
  /\ subUse \in [Subs -> {"user", "done", "copy", "free", "unmade"}]
  /\ waiting \in [Chips -> SUBSET Subs]
  /\ running \in [Chips -> Cmds \cup {NULL}]
  /\ erase \in [Chips -> Cmds \cup {NULL}] /\ related \in [Chips -> Cmds \cup {NULL}]
  /\ ending \in [Chips -> Endings]

\* A pool's free list has each of its objects once.
Lists(list, objects) == list \in Seq(objects) /\ IsInjective(list) /\ Range(list) = objects

Pools ==
  /\ Lists(freeCmds, {c \in Cmds : use[c] = "free"})
  /\ Lists(freeSubs, {s \in Subs : subUse[s] = "free"})

\* What a chip works on, and what its work item still has in its hands.
ChipHolds(chip) ==
  /\ erase[chip] # NULL => use[erase[chip]] = "erase"
  /\ related[chip] # NULL => use[related[chip]] = "copy"
  /\ running[chip] # NULL =>
       use[running[chip]] = "user" \/ running[chip] \in {erase[chip], related[chip]}
  /\ ending[chip].at = "unlocked" => ending[chip].was = use[ending[chip].cmd]
  /\ ending[chip].at \in {"ends", "checked", "ended"} =>
       ending[chip].was = "user" /\ use[ending[chip].cmd] = "user"

Held(c, chip) == running[chip] = c \/ ending[chip].cmd = c

CommandsHeld ==
  /\ \A chip \in Chips : ChipHolds(chip)
  /\ \A c \in Cmds : use[c] = "copy" => \E chip \in Chips : related[chip] = c
  /\ \A x \in Chips, y \in Chips : related[x] = related[y] /\ related[x] # NULL => x = y
  /\ \A c \in Cmds : use[c] = "user" =>
       /\ \E chip \in Chips : Held(c, chip)
       /\ \A x \in Chips, y \in Chips : Held(c, x) /\ Held(c, y) => x = y
       /\ \A chip \in Chips : ~(running[chip] = c /\ ending[chip].cmd = c)

\* A user's command that has yet to end its sub-request.
Active(c) ==
  /\ use[c] = "user"
  /\ \A chip \in Chips : ending[chip].cmd = c => ending[chip].at # "ended"

SubsHeld ==
  /\ \A x \in Chips : \A s \in waiting[x] :
       subUse[s] = "user" /\ \A y \in Chips : s \in waiting[y] => x = y
  /\ \A c \in Cmds : Active(c) =>
       /\ subReqs[c] \in Subs /\ subUse[subReqs[c]] = "user"
       /\ \A chip \in Chips : subReqs[c] \notin waiting[chip]
       /\ \A d \in Cmds : Active(d) /\ subReqs[c] = subReqs[d] => c = d

\* An erase has the address of its block in the place of a sub-request.
ErasesPlane == \A c \in Cmds : use[c] = "erase" => subReqs[c] = Plane

RInv == Shape /\ Pools /\ CommandsHeld /\ SubsHeld /\ ErasesPlane

-----------------------------------------------------------------------------
(* Free lists.                                                             *)

\* What allocate_USBSSD takes from a free list is not in it any more.
LEMMA Taken ==
  ASSUME NEW objects, NEW list, Lists(list, objects), NEW unmade, NEW o, IsNext(o, list, unmade)
  PROVE  /\ o \in objects \/ (o \in unmade /\ objects = {})
         /\ Lists(Rest(list), objects \ {o})
<1>1. CASE list = <<>>
  <2>1. objects = {}
    BY <1>1 DEF Lists, Range
  <2> QED BY <1>1, <2>1 DEF IsNext, Rest, Lists, Range
<1>2. CASE list # <<>>
  <2>1. o = list[1] /\ Rest(list) = Tail(list) /\ Len(list) \in Nat \ {0}
    BY <1>2 DEF IsNext, Rest, Lists
  <2>2. list \in [1..Len(list) -> objects]
    BY DEF Lists
  <2>3. /\ Len(Tail(list)) = Len(list) - 1
        /\ \A i \in 1..(Len(list) - 1) : Tail(list)[i] = list[i + 1]
    BY <1>2, <2>1 DEF Lists
  <2>4. \A i, j \in 1..Len(list) : list[i] = list[j] => i = j
    BY <2>2 DEF Lists, IsInjective
  <2>5. \A x : x \in objects <=> \E i \in 1..Len(list) : list[i] = x
    BY <2>2 DEF Lists, Range
  <2>6. DOMAIN Tail(list) = 1..(Len(list) - 1)
    BY <1>2, <2>3 DEF Lists
  <2>7. Tail(list) \in Seq(objects \ {o})
    <3>1. \A i \in 1..(Len(list) - 1) : Tail(list)[i] \in objects \ {o}
      BY <2>1, <2>2, <2>3, <2>4
    <3>2. Tail(list) \in Seq(objects)
      BY <1>2 DEF Lists
    <3>3. Len(Tail(list)) \in Nat /\ Tail(list) \in [1..Len(Tail(list)) -> objects]
      BY <3>2, LenProperties
    <3>4. \A i \in 1..Len(Tail(list)) : Tail(list)[i] \in objects \ {o}
      BY <2>3, <3>1
    <3>5. PICK t : t = Tail(list)
      OBVIOUS
    <3>6. t \in [1..Len(t) -> objects \ {o}]
      BY <3>3, <3>4, <3>5
    <3>7. PICK n \in Nat : t \in [1..n -> objects \ {o}]
      BY <3>3, <3>5, <3>6
    <3>8. t \in Seq(objects \ {o})
      BY <3>7, SeqDef
    <3> QED BY <3>5, <3>8
  <2>8. IsInjective(Tail(list))
    BY <2>1, <2>3, <2>4, <2>6 DEF IsInjective
  <2>9. Range(Tail(list)) = objects \ {o}
    <3>1. ASSUME NEW x \in objects, x # o PROVE \E i \in 1..(Len(list) - 1) : Tail(list)[i] = x
      <4>1. PICK i \in 1..Len(list) : list[i] = x
        BY <3>1, <2>5
      <4>2. i - 1 \in 1..(Len(list) - 1)
        BY <2>1, <3>1, <4>1
      <4> QED BY <2>3, <4>1, <4>2
    <3>2. \A i \in 1..(Len(list) - 1) : Tail(list)[i] \in objects \ {o}
      BY <2>3, <2>7
    <3>3. \A x \in objects \ {o} : \E i \in DOMAIN Tail(list) : Tail(list)[i] = x
      BY <2>6, <3>1
    <3> QED BY <2>6, <3>2, <3>3 DEF Range
  <2> QED BY <2>1, <2>5, <2>7, <2>8, <2>9 DEF Lists
<1> QED BY <1>1, <1>2

\* free_USBSSD of the objects of q, which are not in the list, one after the other.
LEMMA Put ==
  ASSUME NEW objects, NEW list, Lists(list, objects),
         NEW given, NEW q, Lists(q, given), given \cap objects = {}
  PROVE  Lists(q \o list, given \cup objects)
<1>1. q \in [1..Len(q) -> given] /\ list \in [1..Len(list) -> objects]
      /\ Len(q) \in Nat /\ Len(list) \in Nat
  BY DEF Lists
<1>2. /\ \A i, j \in 1..Len(q) : q[i] = q[j] => i = j
      /\ \A i, j \in 1..Len(list) : list[i] = list[j] => i = j
  BY <1>1 DEF Lists, IsInjective
<1>3. /\ \A x : x \in given <=> \E i \in 1..Len(q) : q[i] = x
      /\ \A x : x \in objects <=> \E i \in 1..Len(list) : list[i] = x
  BY <1>1 DEF Lists, Range
<1>4. q \in Seq(given \cup objects) /\ list \in Seq(given \cup objects)
  BY <1>1
<1>5. q \o list \in Seq(given \cup objects)
  BY <1>4
<1>6. /\ Len(q \o list) = Len(q) + Len(list) /\ DOMAIN (q \o list) = 1..(Len(q) + Len(list))
      /\ \A i \in 1..(Len(q) + Len(list)) :
           (q \o list)[i] = IF i <= Len(q) THEN q[i] ELSE list[i - Len(q)]
  BY <1>1, <1>4
<1> DEFINE both == q \o list
<1>7. /\ \A i \in 1..Len(q) : i \in DOMAIN both /\ both[i] = q[i]
      /\ \A i \in 1..Len(list) : i + Len(q) \in DOMAIN both /\ both[i + Len(q)] = list[i]
  BY <1>1, <1>6
<1>8. \A i \in DOMAIN both : \/ i \in 1..Len(q) /\ both[i] = q[i]
                             \/ i - Len(q) \in 1..Len(list) /\ both[i] = list[i - Len(q)]
  BY <1>1, <1>6
<1>8a. DOMAIN both \subseteq Int
  BY <1>6
<1> HIDE DEF both
<1>9. IsInjective(both)
  <2> SUFFICES ASSUME NEW i \in DOMAIN both, NEW j \in DOMAIN both, both[i] = both[j]
               PROVE  i = j
    BY DEF IsInjective
  <2>1. CASE i \in 1..Len(q) /\ both[i] = q[i]
    <3>1. both[j] \notin objects
      BY <1>1, <2>1
    <3>2. j \in 1..Len(q) /\ both[j] = q[j]
      BY <1>8, <1>1, <3>1
    <3> QED BY <1>2, <2>1, <3>2
  <2>2. CASE i - Len(q) \in 1..Len(list) /\ both[i] = list[i - Len(q)]
    <3>1. both[j] \notin given
      BY <1>1, <2>2
    <3>2. j - Len(q) \in 1..Len(list) /\ both[j] = list[j - Len(q)]
      BY <1>8, <1>1, <3>1
    <3>3. i - Len(q) = j - Len(q)
      BY <1>2, <2>2, <3>2
    <3> QED BY <1>1, <1>8a, <3>3
  <2> QED BY <1>8, <2>1, <2>2
<1>10. Range(both) = given \cup objects
  <2>1. \A x \in given \cup objects : \E i \in DOMAIN both : both[i] = x
    BY <1>3, <1>7
  <2>2. \A i \in DOMAIN both : both[i] \in given \cup objects
    BY <1>1, <1>8
  <2> QED BY <2>1, <2>2 DEF Range
<1> QED BY <1>5, <1>9, <1>10 DEF Lists, both

\* One object.
LEMMA PutOne ==
  ASSUME NEW objects, NEW list, Lists(list, objects), NEW o, o \notin objects
  PROVE  Lists(<<o>> \o list, {o} \cup objects)
<1>1. Lists(<<o>>, {o})
  BY DEF Lists, IsInjective, Range
<1> QED BY <1>1, Put

\* A sequence of the members of a finite set.
LEMMA Listed ==
  ASSUME NEW D, IsFiniteSet(D), NEW q \in SetToSeqs(D)
  PROVE  Lists(q, D)
<1> DEFINE n == Cardinality(D)
<1>1. n \in Nat /\ q \in [1..n -> D] /\ \A i, j \in 1..n : i # j => q[i] # q[j]
  BY FS_CardinalityType DEF SetToSeqs
<1>2. IsFiniteSet(1..n) /\ Cardinality(1..n) = n
  BY <1>1, FS_Interval
<1> HIDE DEF n
<1>3. q \in Seq(D) /\ IsInjective(q)
  BY <1>1 DEF IsInjective
<1>4. Range(q) = D
  <2>1. q \in Injection(1..n, D)
    BY <1>1 DEF Injection, IsInjective
  <2>2. q \in Surjection(1..n, D)
    BY <1>2, <2>1, FS_Injection DEF n
  <2> QED BY <1>1, <2>2 DEF Surjection, Range
<1> QED BY <1>3, <1>4 DEF Lists

-----------------------------------------------------------------------------
(* What is in a pool is in no other hands.                                 *)

\* Between two critical sections, with nobody held up where the mutex is let go.
Calm == RInv /\ CopyOwnsItsSub /\ ~HeldUp

LEMMA EndingParts ==
  ASSUME Shape, NEW chip \in Chips
  PROVE  /\ ending[chip].at \in {"idle", "unlocked", "ends", "checked", "ended"}
         /\ ending[chip].at = "idle" => ending[chip] = Nothing
         /\ ending[chip].at # "idle" =>
              ending[chip].cmd \in Cmds /\ ending[chip].was \in {"user", "erase", "copy"}
         /\ Nothing.cmd = NULL /\ Nothing.at = "idle"
<1> QED BY DEF Shape, Endings, Nothing

LEMMA CalmEnding ==
  ASSUME Calm, NEW chip \in Chips
  PROVE  /\ ending[chip].at \in {"idle", "ends", "checked", "ended"}
         /\ ending[chip].at = "idle" <=> ending[chip] = Nothing
         /\ ending[chip].at = "idle" <=> ending[chip].cmd = NULL
         /\ ending[chip].at # "idle" =>
              /\ ending[chip].cmd \in Cmds /\ use[ending[chip].cmd] = "user"
              /\ ending[chip].was = "user"
<1>1. Shape /\ ChipHolds(chip) /\ ending[chip].at # "unlocked"
  BY DEF Calm, RInv, CommandsHeld, HeldUp
<1> QED BY <1>1, EndingParts, RecycleAssumption DEF ChipHolds

LEMMA Unheld ==
  ASSUME Calm, NEW c \in Cmds, use[c] \in {"free", "unmade"}
  PROVE  \A chip \in Chips :
           /\ erase[chip] # c /\ related[chip] # c /\ running[chip] # c
           /\ ending[chip].cmd # c
<1> TAKE chip \in Chips
<1>1. ChipHolds(chip)
  BY DEF Calm, RInv, CommandsHeld
<1>2. ending[chip].cmd # c
  BY CalmEnding, RecycleAssumption
<1> QED BY <1>1, <1>2, RecycleAssumption DEF ChipHolds

LEMMA CmdTaken ==
  ASSUME Pools, NEW c \in Cmds, NextCmd(c)
  PROVE  /\ use[c] \in {"free", "unmade"}
         /\ Lists(Rest(freeCmds), {d \in Cmds : use[d] = "free"} \ {c})
<1>1. PICK objects : objects = {d \in Cmds : use[d] = "free"}
  OBVIOUS
<1>2. c \in objects \/ c \in {d \in Cmds : use[d] = "unmade"}
  BY <1>1, Taken DEF Pools, NextCmd
<1>3. Lists(Rest(freeCmds), objects \ {c})
  BY <1>1, Taken DEF Pools, NextCmd
<1> QED BY <1>1, <1>2, <1>3

LEMMA SubTaken ==
  ASSUME Pools, NEW s \in Subs, NextSub(s)
  PROVE  /\ subUse[s] \in {"free", "unmade"}
         /\ Lists(Rest(freeSubs), {t \in Subs : subUse[t] = "free"} \ {s})
<1>1. PICK objects : objects = {t \in Subs : subUse[t] = "free"}
  OBVIOUS
<1>2. s \in objects \/ s \in {t \in Subs : subUse[t] = "unmade"}
  BY <1>1, Taken DEF Pools, NextSub
<1>3. Lists(Rest(freeSubs), objects \ {s})
  BY <1>1, Taken DEF Pools, NextSub
<1> QED BY <1>1, <1>2, <1>3

-----------------------------------------------------------------------------
(* Each operation keeps the invariant.                                     *)

\* Taking an object and giving it a purpose; giving an object back.
LEMMA CmdPool ==
  ASSUME Shape, Pools, NEW c \in Cmds, NEW u \in {"user", "erase", "copy"},
         NextCmd(c), freeCmds' = Rest(freeCmds), use' = [use EXCEPT ![c] = u]
  PROVE  Lists(freeCmds', {d \in Cmds : use'[d] = "free"})
<1>1. {d \in Cmds : use'[d] = "free"} = {d \in Cmds : use[d] = "free"} \ {c}
  BY DEF Shape
<1> QED BY <1>1, CmdTaken

LEMMA SubPool ==
  ASSUME Shape, Pools, NEW s \in Subs, NEW u \in {"user", "copy"},
         NextSub(s), freeSubs' = Rest(freeSubs), subUse' = [subUse EXCEPT ![s] = u]
  PROVE  Lists(freeSubs', {t \in Subs : subUse'[t] = "free"})
<1>1. {t \in Subs : subUse'[t] = "free"} = {t \in Subs : subUse[t] = "free"} \ {s}
  BY DEF Shape
<1> QED BY <1>1, SubTaken

LEMMA CmdBack ==
  ASSUME Shape, Pools, NEW c \in Cmds, use[c] # "free",
         freeCmds' = <<c>> \o freeCmds, use' = [use EXCEPT ![c] = "free"]
  PROVE  Lists(freeCmds', {d \in Cmds : use'[d] = "free"})
<1>1. PICK objects : objects = {d \in Cmds : use[d] = "free"}
  OBVIOUS
<1>2. {d \in Cmds : use'[d] = "free"} = {c} \cup objects
  BY <1>1 DEF Shape
<1>3. Lists(<<c>> \o freeCmds, {c} \cup objects)
  BY <1>1, PutOne DEF Pools
<1> QED BY <1>2, <1>3

LEMMA SubsBack ==
  ASSUME Shape, Pools, NEW D \in SUBSET Subs, \A t \in D : subUse[t] # "free",
         NEW q \in SetToSeqs(D), freeSubs' = q \o freeSubs,
         subUse' = [t \in Subs |-> IF t \in D THEN "free" ELSE subUse[t]]
  PROVE  Lists(freeSubs', {t \in Subs : subUse'[t] = "free"})
<1>1. PICK objects : objects = {t \in Subs : subUse[t] = "free"}
  OBVIOUS
<1>2. {t \in Subs : subUse'[t] = "free"} = D \cup objects
  BY <1>1
<1>3. IsFiniteSet(D)
  BY RecycleAssumption, FS_Subset
<1>4. Lists(q, D) /\ Lists(freeSubs, objects) /\ D \cap objects = {}
  BY <1>1, <1>3, Listed DEF Pools
<1>5. Lists(q \o freeSubs, D \cup objects)
  BY <1>4, Put
<1> QED BY <1>2, <1>5

LEMMA SubmitKeeps ==
  ASSUME Calm, NEW chip \in Chips, NEW s \in Subs, Submit(chip, s)
  PROVE  RInv'
<1>1. Shape /\ Pools /\ CommandsHeld /\ SubsHeld /\ ErasesPlane
  BY DEF Calm, RInv
<1>2. /\ NextSub(s) /\ freeSubs' = Rest(freeSubs)
      /\ subUse' = [subUse EXCEPT ![s] = "user"]
      /\ waiting' = [waiting EXCEPT ![chip] = @ \cup {s}]
      /\ UNCHANGED <<use, subReqs, freeCmds, running, erase, related, copying, ending>>
  BY DEF Submit
<1>3. subUse[s] \in {"free", "unmade"}
  BY <1>1, <1>2, SubTaken
<1>4. Shape'
  BY <1>1, <1>2 DEF Shape
<1>5. Pools'
  BY <1>1, <1>2, SubPool DEF Pools
<1>6. CommandsHeld'
  BY <1>1, <1>2 DEF CommandsHeld, ChipHolds, Held
<1>7. SubsHeld'
  <2>1. \A c \in Cmds : Active(c)' <=> Active(c)
    BY <1>2 DEF Active
  <2>2. \A x \in Chips : \A t \in waiting'[x] : t \in waiting[x] \/ (t = s /\ x = chip)
    BY <1>1, <1>2 DEF Shape
  <2>3. \A t \in Subs : t # s => subUse'[t] = subUse[t]
    BY <1>1, <1>2 DEF Shape
  <2>4. subUse'[s] = "user"
    BY <1>1, <1>2 DEF Shape
  <2>5. \A x \in Chips : waiting[x] \subseteq Subs /\ s \notin waiting[x]
    BY <1>1, <1>3 DEF Shape, SubsHeld
  <2>6. \A c \in Cmds : Active(c) => subReqs[c] # s
    BY <1>1, <1>3 DEF SubsHeld
  <2>7. \A x \in Chips : \A t \in waiting'[x] :
          subUse'[t] = "user" /\ \A y \in Chips : t \in waiting'[y] => x = y
    BY <1>1, <2>2, <2>3, <2>4, <2>5 DEF SubsHeld
  <2>8. ASSUME NEW c \in Cmds, Active(c)
        PROVE  /\ subReqs[c] \in Subs /\ subUse'[subReqs[c]] = "user"
               /\ \A x \in Chips : subReqs[c] \notin waiting'[x]
               /\ \A d \in Cmds : Active(d) /\ subReqs[c] = subReqs[d] => c = d
    BY <1>1, <2>2, <2>3, <2>6, <2>8 DEF SubsHeld
  <2> QED BY <1>2, <2>1, <2>7, <2>8 DEF SubsHeld
<1>8. ErasesPlane'
  BY <1>1, <1>2 DEF ErasesPlane
<1> QED BY <1>4, <1>5, <1>6, <1>7, <1>8 DEF RInv

LEMMA DispatchKeeps ==
  ASSUME Calm, NEW chip \in Chips, NEW s \in Subs, NEW c \in Cmds, Dispatch(chip, s, c)
  PROVE  RInv'
<1>1. Shape /\ Pools /\ CommandsHeld /\ SubsHeld /\ ErasesPlane
  BY DEF Calm, RInv
<1>2. /\ running[chip] = NULL /\ erase[chip] = NULL /\ s \in waiting[chip]
      /\ NextCmd(c) /\ freeCmds' = Rest(freeCmds)
      /\ use' = [use EXCEPT ![c] = "user"] /\ subReqs' = [subReqs EXCEPT ![c] = s]
      /\ waiting' = [waiting EXCEPT ![chip] = @ \ {s}]
      /\ running' = [running EXCEPT ![chip] = c]
      /\ UNCHANGED <<subUse, freeSubs, erase, related, copying, ending>>
  BY DEF Dispatch
<1>3. use[c] \in {"free", "unmade"}
  BY <1>1, <1>2, CmdTaken
<1>4. \A x \in Chips : /\ erase[x] # c /\ related[x] # c /\ running[x] # c
                       /\ ending[x].cmd # c
  BY <1>3, Unheld
<1>5. /\ \A d \in Cmds : d # c => use'[d] = use[d] /\ subReqs'[d] = subReqs[d]
      /\ use'[c] = "user" /\ subReqs'[c] = s
      /\ \A x \in Chips : x # chip => running'[x] = running[x] /\ waiting'[x] = waiting[x]
      /\ running'[chip] = c /\ waiting'[chip] = waiting[chip] \ {s}
  BY <1>1, <1>2 DEF Shape
<1>6. Shape'
  BY <1>1, <1>2 DEF Shape
<1>7. Pools'
  BY <1>1, <1>2, CmdPool DEF Pools
<1>8. CommandsHeld'
  <2>1. \A x \in Chips : \A d \in Cmds : d # c => (Held(d, x)' <=> Held(d, x))
    BY <1>2, <1>5, RecycleAssumption DEF Held
  <2>2. \A x \in Chips : Held(c, x)' <=> x = chip
    BY <1>2, <1>4, <1>5 DEF Held
  <2>3. ASSUME NEW x \in Chips PROVE ChipHolds(x)'
    <3>1. ChipHolds(x)
      BY <1>1 DEF CommandsHeld
    <3>2. /\ erase[x] # NULL => use'[erase[x]] = use[erase[x]]
          /\ related[x] # NULL => use'[related[x]] = use[related[x]]
          /\ running[x] # NULL => use'[running[x]] = use[running[x]]
          /\ ending[x].at # "idle" => use'[ending[x].cmd] = use[ending[x].cmd]
      BY <1>1, <1>4, <1>5, EndingParts DEF Shape
    <3> QED BY <1>2, <1>5, <3>1, <3>2 DEF ChipHolds
  <2>4. \A d \in Cmds : use'[d] = "copy" => \E x \in Chips : related'[x] = d
    BY <1>1, <1>2, <1>5 DEF CommandsHeld
  <2>5. \A x \in Chips, y \in Chips : related'[x] = related'[y] /\ related'[x] # NULL => x = y
    BY <1>1, <1>2 DEF CommandsHeld
  <2>6. ASSUME NEW d \in Cmds, use'[d] = "user"
        PROVE  /\ \E x \in Chips : Held(d, x)'
               /\ \A x \in Chips, y \in Chips : Held(d, x)' /\ Held(d, y)' => x = y
               /\ \A x \in Chips : ~(running'[x] = d /\ ending'[x].cmd = d)
    <3>1. CASE d = c
      BY <1>2, <1>4, <2>2, <3>1
    <3>2. CASE d # c
      BY <1>1, <1>2, <1>5, <2>1, <2>6, <3>2 DEF CommandsHeld
    <3> QED BY <3>1, <3>2
  <2> QED BY <2>3, <2>4, <2>5, <2>6 DEF CommandsHeld
<1>9. SubsHeld'
  <2>1. \A d \in Cmds : d # c => (Active(d)' <=> Active(d))
    BY <1>2, <1>5 DEF Active
  <2>2. \A x \in Chips : waiting'[x] \subseteq waiting[x] /\ s \notin waiting'[x]
    BY <1>1, <1>2, <1>5 DEF SubsHeld
  <2>3. \A d \in Cmds : Active(d) => subReqs[d] # s
    BY <1>1, <1>2 DEF SubsHeld
  <2>4. \A x \in Chips : \A t \in waiting'[x] :
          subUse'[t] = "user" /\ \A y \in Chips : t \in waiting'[y] => x = y
    BY <1>1, <1>2, <2>2 DEF SubsHeld
  <2>5. ASSUME NEW d \in Cmds, Active(d)'
        PROVE  /\ subReqs'[d] \in Subs /\ subUse'[subReqs'[d]] = "user"
               /\ \A x \in Chips : subReqs'[d] \notin waiting'[x]
               /\ \A b \in Cmds : Active(b)' /\ subReqs'[d] = subReqs'[b] => d = b
    <3>1. CASE d = c
      BY <1>1, <1>2, <1>5, <2>1, <2>2, <2>3, <3>1 DEF SubsHeld
    <3>2. CASE d # c
      BY <1>1, <1>2, <1>5, <2>1, <2>2, <2>3, <2>5, <3>2 DEF SubsHeld
    <3> QED BY <3>1, <3>2
  <2> QED BY <2>4, <2>5 DEF SubsHeld
<1>10. ErasesPlane'
  BY <1>1, <1>5 DEF ErasesPlane
<1> QED BY <1>6, <1>7, <1>8, <1>9, <1>10 DEF RInv

\* What an operation that leaves users alone has to show.
LEMMA OthersHeld ==
  ASSUME Shape, CommandsHeld,
         \A x \in Chips : ChipHolds(x)',
         \A d \in Cmds : use'[d] = "copy" => \E x \in Chips : related'[x] = d,
         \A x \in Chips, y \in Chips : related'[x] = related'[y] /\ related'[x] # NULL => x = y,
         \A d \in Cmds : use'[d] = "user" =>
           /\ use[d] = "user" /\ \A x \in Chips : Held(d, x)' <=> Held(d, x)
           /\ \A x \in Chips : ~(running'[x] = d /\ ending'[x].cmd = d)
  PROVE  CommandsHeld'
<1>1. ASSUME NEW d \in Cmds, use'[d] = "user"
      PROVE  /\ \E x \in Chips : Held(d, x)'
             /\ \A x \in Chips, y \in Chips : Held(d, x)' /\ Held(d, y)' => x = y
             /\ \A x \in Chips : ~(running'[x] = d /\ ending'[x].cmd = d)
  BY <1>1 DEF CommandsHeld
<1> QED BY <1>1 DEF CommandsHeld

LEMMA CreateCopyKeeps ==
  ASSUME Calm, NEW chip \in Chips, NEW c \in Cmds, CreateCopy(chip, c)
  PROVE  RInv'
<1>1. Shape /\ Pools /\ CommandsHeld /\ SubsHeld /\ ErasesPlane
  BY DEF Calm, RInv
<1>2. /\ running[chip] = NULL /\ erase[chip] # NULL /\ related[chip] = NULL
      /\ NextCmd(c) /\ freeCmds' = Rest(freeCmds)
      /\ use' = [use EXCEPT ![c] = "copy"]
      /\ related' = [related EXCEPT ![chip] = c]
      /\ running' = [running EXCEPT ![chip] = c]
      /\ UNCHANGED <<waiting, erase, ending>>
  BY DEF CreateCopy, Erasing
<1>3. \/ \E s \in Subs :
           /\ NextSub(s) /\ freeSubs' = Rest(freeSubs)
           /\ subUse' = [subUse EXCEPT ![s] = "copy"] /\ subReqs' = [subReqs EXCEPT ![c] = s]
      \/ UNCHANGED <<subReqs, subUse, freeSubs>>
  BY DEF CreateCopy
<1>4. use[c] \in {"free", "unmade"}
  BY <1>1, <1>2, CmdTaken
<1>5. \A x \in Chips : /\ erase[x] # c /\ related[x] # c /\ running[x] # c
                       /\ ending[x].cmd # c
  BY <1>4, Unheld
<1>6. /\ \A d \in Cmds : d # c => use'[d] = use[d] /\ subReqs'[d] = subReqs[d]
      /\ use'[c] = "copy"
      /\ \A x \in Chips : x # chip => running'[x] = running[x] /\ related'[x] = related[x]
      /\ running'[chip] = c /\ related'[chip] = c
  BY <1>1, <1>2, <1>3 DEF Shape
<1>7. /\ subUse' \in [Subs -> {"user", "done", "copy", "free", "unmade"}]
      /\ subReqs' \in [Cmds -> Subs \cup {NULL, Plane, Garbage}]
      /\ Lists(freeSubs', {t \in Subs : subUse'[t] = "free"})
      /\ \A t \in Subs : subUse[t] = "user" => subUse'[t] = "user"
  <2>1. CASE UNCHANGED <<subReqs, subUse, freeSubs>>
    BY <1>1, <2>1 DEF Shape, Pools
  <2>2. ASSUME NEW s \in Subs, NextSub(s), freeSubs' = Rest(freeSubs),
               subUse' = [subUse EXCEPT ![s] = "copy"], subReqs' = [subReqs EXCEPT ![c] = s]
        PROVE  /\ subUse' \in [Subs -> {"user", "done", "copy", "free", "unmade"}]
               /\ subReqs' \in [Cmds -> Subs \cup {NULL, Plane, Garbage}]
               /\ Lists(freeSubs', {t \in Subs : subUse'[t] = "free"})
               /\ \A t \in Subs : subUse[t] = "user" => subUse'[t] = "user"
    <3>1. Lists(freeSubs', {t \in Subs : subUse'[t] = "free"})
      BY <1>1, <2>2, SubPool
    <3>2. subUse[s] \in {"free", "unmade"}
      BY <1>1, <2>2, SubTaken
    <3> QED BY <1>1, <2>2, <3>1, <3>2 DEF Shape
  <2> QED BY <1>3, <2>1, <2>2
<1>8. Shape'
  BY <1>1, <1>2, <1>7 DEF Shape
<1>9. Pools'
  BY <1>1, <1>2, <1>7, CmdPool DEF Pools
<1>10. CommandsHeld'
  <2>1. ASSUME NEW x \in Chips PROVE ChipHolds(x)'
    <3>1. ChipHolds(x)
      BY <1>1 DEF CommandsHeld
    <3>2. /\ erase[x] # NULL => use'[erase[x]] = use[erase[x]]
          /\ related[x] # NULL => use'[related[x]] = use[related[x]]
          /\ running[x] # NULL => use'[running[x]] = use[running[x]]
          /\ ending[x].at # "idle" => use'[ending[x].cmd] = use[ending[x].cmd]
      BY <1>1, <1>5, <1>6, EndingParts DEF Shape
    <3> QED BY <1>2, <1>6, <3>1, <3>2 DEF ChipHolds
  <2>2. \A d \in Cmds : use'[d] = "copy" => \E x \in Chips : related'[x] = d
    BY <1>1, <1>2, <1>6, RecycleAssumption DEF CommandsHeld
  <2>3. \A x \in Chips, y \in Chips : related'[x] = related'[y] /\ related'[x] # NULL => x = y
    BY <1>1, <1>2, <1>5, <1>6 DEF CommandsHeld
  <2>4. ASSUME NEW d \in Cmds, use'[d] = "user"
        PROVE  /\ use[d] = "user" /\ \A x \in Chips : Held(d, x)' <=> Held(d, x)
               /\ \A x \in Chips : ~(running'[x] = d /\ ending'[x].cmd = d)
    <3>1. d # c /\ use[d] = "user"
      BY <1>6, <2>4
    <3>2. \A x \in Chips : Held(d, x)' <=> Held(d, x)
      BY <1>2, <1>6, <3>1, RecycleAssumption DEF Held
    <3>3. \A x \in Chips : ~(running[x] = d /\ ending[x].cmd = d)
      BY <1>1, <3>1 DEF CommandsHeld
    <3>4. \A x \in Chips : ~(running'[x] = d /\ ending'[x].cmd = d)
      BY <1>2, <1>6, <3>1, <3>3
    <3> QED BY <3>1, <3>2, <3>4
  <2> QED BY <1>1, <2>1, <2>2, <2>3, <2>4, OthersHeld
<1>11. SubsHeld'
  <2>1. \A d \in Cmds : Active(d)' => Active(d) /\ d # c
    BY <1>2, <1>6 DEF Active
  <2>2. \A x \in Chips : waiting[x] \subseteq Subs
    BY <1>1 DEF Shape
  <2> QED BY <1>1, <1>2, <1>6, <1>7, <2>1, <2>2 DEF SubsHeld
<1>12. ErasesPlane'
  BY <1>1, <1>6 DEF ErasesPlane
<1> QED BY <1>8, <1>9, <1>10, <1>11, <1>12 DEF RInv

LEMMA GoOnKeeps ==
  ASSUME Calm, NEW chip \in Chips, GoOn(chip)
  PROVE  RInv'
<1>1. Shape /\ Pools /\ CommandsHeld /\ SubsHeld /\ ErasesPlane
  BY DEF Calm, RInv
<1>2. /\ running[chip] = NULL /\ related[chip] # NULL
      /\ running' = [running EXCEPT ![chip] = related[chip]]
      /\ UNCHANGED <<use, subReqs, freeCmds, subUse, freeSubs, waiting, erase, related, ending>>
  BY DEF GoOn, Erasing
<1>3. /\ \A x \in Chips : x # chip => running'[x] = running[x]
      /\ running'[chip] = related[chip]
  BY <1>1, <1>2 DEF Shape
<1>4. Shape'
  BY <1>1, <1>2 DEF Shape
<1>5. Pools'
  BY <1>1, <1>2 DEF Pools
<1>6. CommandsHeld'
  <2>1. \A x \in Chips : ChipHolds(x)'
    BY <1>1, <1>2, <1>3 DEF CommandsHeld, ChipHolds
  <2>2. use[related[chip]] = "copy"
    BY <1>1, <1>2 DEF CommandsHeld, ChipHolds
  <2>3. ASSUME NEW d \in Cmds, use[d] = "user"
        PROVE  /\ \A x \in Chips : Held(d, x)' <=> Held(d, x)
               /\ \A x \in Chips : ~(running'[x] = d /\ ending'[x].cmd = d)
    BY <1>1, <1>2, <1>3, <2>2, <2>3, RecycleAssumption DEF CommandsHeld, Held
  <2>4. /\ \A d \in Cmds : use'[d] = "copy" => \E x \in Chips : related'[x] = d
        /\ \A x \in Chips, y \in Chips : related'[x] = related'[y] /\ related'[x] # NULL => x = y
    BY <1>1, <1>2 DEF CommandsHeld
  <2> QED BY <1>1, <1>2, <2>1, <2>3, <2>4, OthersHeld
<1>7. SubsHeld'
  BY <1>1, <1>2 DEF SubsHeld, Active
<1>8. ErasesPlane'
  BY <1>1, <1>2 DEF ErasesPlane
<1> QED BY <1>4, <1>5, <1>6, <1>7, <1>8 DEF RInv

LEMMA EraseNowKeeps ==
  ASSUME Calm, NEW chip \in Chips, EraseNow(chip)
  PROVE  RInv'
<1>1. Shape /\ Pools /\ CommandsHeld /\ SubsHeld /\ ErasesPlane /\ CopyOwnsItsSub
  BY DEF Calm, RInv
<1> PICK c : c = related[chip]
  OBVIOUS
<1> PICK s : s = subReqs[c]
  OBVIOUS
<1>2. /\ running[chip] = NULL /\ erase[chip] # NULL
      /\ running' = [running EXCEPT ![chip] = erase[chip]]
      /\ related' = [related EXCEPT ![chip] = NULL]
      /\ UNCHANGED <<waiting, erase, ending>>
  BY DEF EraseNow, Erasing
<1>3. \/ c = NULL /\ UNCHANGED <<use, subReqs, freeCmds, subUse, freeSubs>>
      \/ /\ c # NULL
         /\ freeSubs' = <<s>> \o freeSubs /\ subUse' = [subUse EXCEPT ![s] = "free"]
         /\ freeCmds' = <<c>> \o freeCmds /\ use' = [use EXCEPT ![c] = "free"]
         /\ subReqs' = [subReqs EXCEPT ![c] = NULL]
  BY DEF EraseNow
<1>4. c # NULL => c \in Cmds /\ use[c] = "copy" /\ s \in Subs /\ subUse[s] = "copy"
  BY <1>1 DEF Shape, CommandsHeld, ChipHolds, CopyOwnsItsSub
<1>5. /\ \A x \in Chips : x # chip => running'[x] = running[x] /\ related'[x] = related[x]
      /\ running'[chip] = erase[chip] /\ related'[chip] = NULL
      /\ use[erase[chip]] = "erase"
  BY <1>1, <1>2 DEF Shape, CommandsHeld, ChipHolds
<1>6. \A d \in Cmds : d # c => use'[d] = use[d] /\ subReqs'[d] = subReqs[d]
  BY <1>1, <1>3, <1>4 DEF Shape
<1>7. c # NULL => use'[c] = "free"
  BY <1>1, <1>3, <1>4 DEF Shape
<1>8. \A t \in Subs : subUse[t] = "user" => subUse'[t] = "user"
  BY <1>1, <1>3, <1>4 DEF Shape
<1>9. Shape'
  BY <1>1, <1>2, <1>3, <1>4 DEF Shape
<1>10. Pools'
  <2>1. CASE c = NULL
    BY <1>1, <1>3, <2>1 DEF Pools
  <2>2. CASE c # NULL
    <3>1. Lists(freeCmds', {d \in Cmds : use'[d] = "free"})
      BY <1>1, <1>3, <1>4, <2>2, CmdBack
    <3>2. PICK objects : objects = {t \in Subs : subUse[t] = "free"}
      OBVIOUS
    <3>3. {t \in Subs : subUse'[t] = "free"} = {s} \cup objects
      BY <1>1, <1>3, <1>4, <2>2, <3>2 DEF Shape
    <3>4. Lists(<<s>> \o freeSubs, {s} \cup objects)
      BY <1>1, <1>4, <2>2, <3>2, PutOne DEF Pools
    <3> QED BY <1>3, <2>2, <3>1, <3>3, <3>4 DEF Pools
  <2> QED BY <2>1, <2>2
<1>11. CommandsHeld'
  <2>1. ASSUME NEW x \in Chips PROVE ChipHolds(x)'
    <3>1. ChipHolds(x)
      BY <1>1 DEF CommandsHeld
    <3>2. related[x] # NULL /\ x # chip => related[x] # c
      BY <1>1 DEF CommandsHeld
    <3>3. erase[x] # NULL => use'[erase[x]] = "erase"
      BY <1>1, <1>4, <1>6, <3>1 DEF Shape, ChipHolds
    <3>4. ending[x].at # "idle" => use'[ending[x].cmd] = use[ending[x].cmd]
      <4>1. ending[x].at # "idle" => ending[x].cmd \in Cmds /\ use[ending[x].cmd] = "user"
        BY CalmEnding
      <4> QED BY <1>4, <1>6, <4>1, RecycleAssumption
    <3>5. CASE x = chip
      BY <1>2, <1>5, <3>1, <3>3, <3>4, <3>5 DEF ChipHolds
    <3>6. CASE x # chip
      <4>1. related[x] # NULL => use'[related[x]] = "copy"
        BY <1>1, <1>6, <3>1, <3>2, <3>6 DEF Shape, ChipHolds
      <4>2. running[x] # NULL =>
              use'[running[x]] = "user" \/ running[x] \in {erase[x], related[x]}
        BY <1>1, <1>4, <1>6, <3>1 DEF Shape, ChipHolds
      <4> QED BY <1>2, <1>5, <3>1, <3>3, <3>4, <3>6, <4>1, <4>2 DEF ChipHolds
    <3> QED BY <3>5, <3>6
  <2>2. \A d \in Cmds : use'[d] = "copy" => \E x \in Chips : related'[x] = d
    <3> SUFFICES ASSUME NEW d \in Cmds, use'[d] = "copy" PROVE \E x \in Chips : related'[x] = d
      OBVIOUS
    <3>1. d # c /\ use[d] = "copy"
      BY <1>4, <1>6, <1>7, RecycleAssumption
    <3>2. PICK x \in Chips : related[x] = d
      BY <1>1, <3>1 DEF CommandsHeld
    <3> QED BY <1>5, <3>1, <3>2
  <2>3. \A x \in Chips, y \in Chips : related'[x] = related'[y] /\ related'[x] # NULL => x = y
    BY <1>1, <1>5 DEF CommandsHeld
  <2>4. ASSUME NEW d \in Cmds, use'[d] = "user"
        PROVE  /\ use[d] = "user" /\ \A x \in Chips : Held(d, x)' <=> Held(d, x)
               /\ \A x \in Chips : ~(running'[x] = d /\ ending'[x].cmd = d)
    <3>1. d # c /\ use[d] = "user"
      BY <1>4, <1>6, <1>7, <2>4, RecycleAssumption
    <3>2. \A x \in Chips : running'[x] = d <=> running[x] = d
      BY <1>2, <1>5, <3>1, RecycleAssumption
    <3>3. \A x \in Chips : Held(d, x)' <=> Held(d, x)
      BY <1>2, <3>2 DEF Held
    <3>4. \A x \in Chips : ~(running[x] = d /\ ending[x].cmd = d)
      BY <1>1, <3>1 DEF CommandsHeld
    <3> QED BY <1>2, <3>1, <3>2, <3>3, <3>4
  <2> QED BY <1>1, <2>1, <2>2, <2>3, <2>4, OthersHeld
<1>12. SubsHeld'
  <2>1. \A d \in Cmds : Active(d)' => Active(d) /\ d # c
    BY <1>2, <1>4, <1>6, <1>7, RecycleAssumption DEF Active
  <2>2. \A x \in Chips : waiting[x] \subseteq Subs
    BY <1>1 DEF Shape
  <2> QED BY <1>1, <1>2, <1>6, <1>8, <2>1, <2>2 DEF SubsHeld
<1>13. ErasesPlane'
  BY <1>1, <1>4, <1>6, <1>7, RecycleAssumption DEF ErasesPlane
<1> QED BY <1>9, <1>10, <1>11, <1>12, <1>13 DEF RInv

LEMMA EndSignalKeeps ==
  ASSUME Calm, NEW chip \in Chips, EndSignal(chip)
  PROVE  RInv'
<1>1. Shape /\ Pools /\ CommandsHeld /\ SubsHeld /\ ErasesPlane
  BY DEF Calm, RInv
<1> PICK c : c = running[chip]
  OBVIOUS
<1>2. /\ c # NULL /\ ending[chip].at = "idle"
      /\ ending' = [ending EXCEPT ![chip] = [cmd |-> c, was |-> use[c], at |-> "unlocked"]]
      /\ running' = [running EXCEPT ![chip] = NULL]
      /\ erase' = [erase EXCEPT ![chip] = IF @ = c THEN NULL ELSE @]
      /\ UNCHANGED <<use, subReqs, freeCmds, subUse, freeSubs, waiting, related>>
  BY DEF EndSignal
<1>3. c \in Cmds /\ use[c] \in {"user", "erase", "copy"} /\ ending[chip].cmd = NULL
  BY <1>1, <1>2, EndingParts DEF Shape, CommandsHeld, ChipHolds
<1>4. /\ \A x \in Chips : x # chip =>
           running'[x] = running[x] /\ erase'[x] = erase[x] /\ ending'[x] = ending[x]
      /\ running'[chip] = NULL /\ erase'[chip] \in {NULL, erase[chip]}
      /\ ending'[chip].cmd = c /\ ending'[chip].was = use[c] /\ ending'[chip].at = "unlocked"
  BY <1>1, <1>2 DEF Shape
<1>5. Shape'
  <2>1. ending' \in [Chips -> Endings]
    BY <1>1, <1>2, <1>3 DEF Shape, Endings
  <2>2. running' \in [Chips -> Cmds \cup {NULL}] /\ erase' \in [Chips -> Cmds \cup {NULL}]
    BY <1>1, <1>2 DEF Shape
  <2> QED BY <1>1, <1>2, <2>1, <2>2 DEF Shape
<1>6. Pools'
  BY <1>1, <1>2 DEF Pools
<1>7. CommandsHeld'
  <2>1. \A x \in Chips : ChipHolds(x)'
    BY <1>1, <1>2, <1>4 DEF CommandsHeld, ChipHolds
  <2>2. \A d \in Cmds : \A x \in Chips : Held(d, x)' <=> Held(d, x)
    BY <1>3, <1>4, RecycleAssumption DEF Held
  <2>3. \A d \in Cmds : use[d] = "user" => \A x \in Chips : ~(running'[x] = d /\ ending'[x].cmd = d)
    BY <1>1, <1>4, RecycleAssumption DEF CommandsHeld
  <2>4. /\ \A d \in Cmds : use'[d] = "copy" => \E x \in Chips : related'[x] = d
        /\ \A x \in Chips, y \in Chips : related'[x] = related'[y] /\ related'[x] # NULL => x = y
    BY <1>1, <1>2 DEF CommandsHeld
  <2> QED BY <1>1, <1>2, <2>1, <2>2, <2>3, <2>4, OthersHeld
<1>8. SubsHeld'
  <2>1. \A d \in Cmds : Active(d)' => Active(d)
    BY <1>2, <1>3, <1>4, RecycleAssumption DEF Active
  <2> QED BY <1>1, <1>2, <2>1 DEF SubsHeld
<1>9. ErasesPlane'
  BY <1>1, <1>2 DEF ErasesPlane
<1> QED BY <1>5, <1>6, <1>7, <1>8, <1>9 DEF RInv

LEMMA LookKeeps ==
  ASSUME RInv, NEW chip \in Chips, Look(chip)
  PROVE  RInv'
<1>1. Shape /\ Pools /\ CommandsHeld /\ SubsHeld /\ ErasesPlane
  BY DEF RInv
<1> PICK e : e = ending[chip]
  OBVIOUS
<1>2. /\ e.at = "unlocked"
      /\ ending' = [ending EXCEPT ![chip] = IF use[e.cmd] = "user" THEN [e EXCEPT !.at = "ends"]
                                                               ELSE Nothing]
      /\ UNCHANGED <<use, subReqs, freeCmds, subUse, freeSubs, waiting, running, erase, related>>
  BY DEF Look, ServesUser
<1>3. e.cmd \in Cmds /\ e.was = use[e.cmd] /\ e \in Endings
  BY <1>1, <1>2, EndingParts DEF CommandsHeld, ChipHolds, Shape
<1>4. /\ \A x \in Chips : x # chip => ending'[x] = ending[x]
      /\ use[e.cmd] = "user" =>
           ending'[chip].cmd = e.cmd /\ ending'[chip].was = e.was /\ ending'[chip].at = "ends"
      /\ use[e.cmd] # "user" => ending'[chip] = Nothing
  BY <1>1, <1>2, <1>3 DEF Shape, Endings, Nothing
<1>5. Nothing.cmd = NULL /\ Nothing.at = "idle"
  BY DEF Nothing
<1>6. Shape'
  <2>1. ending'[chip] \in Endings
    <3>1. CASE use[e.cmd] = "user"
      <4>1. e.at # "idle" /\ e # Nothing
        BY <1>2, <1>5
      <4>2. e \in [cmd : Cmds, was : {"user", "erase", "copy"},
                   at : {"unlocked", "ends", "checked", "ended"}]
        BY <1>3, <4>1 DEF Endings
      <4>3. [e EXCEPT !.at = "ends"] \in Endings
        BY <4>2 DEF Endings
      <4> QED BY <1>1, <1>2, <3>1, <4>3 DEF Shape
    <3>2. CASE use[e.cmd] # "user"
      BY <1>4, <3>2 DEF Endings
    <3> QED BY <3>1, <3>2
  <2>2. ending' \in [Chips -> Endings]
    BY <1>1, <1>2, <1>4, <2>1 DEF Shape
  <2> QED BY <1>1, <1>2, <2>2 DEF Shape
<1>7. Pools'
  BY <1>1, <1>2 DEF Pools
<1>8. CommandsHeld'
  <2>1. \A x \in Chips : ChipHolds(x)'
    BY <1>1, <1>2, <1>3, <1>4, <1>5 DEF CommandsHeld, ChipHolds
  <2>2. \A d \in Cmds : use[d] = "user" => \A x \in Chips : ending'[x].cmd = d <=> ending[x].cmd = d
    BY <1>2, <1>3, <1>4, <1>5, RecycleAssumption
  <2>3. \A d \in Cmds : use[d] = "user" => \A x \in Chips : Held(d, x)' <=> Held(d, x)
    BY <1>2, <2>2 DEF Held
  <2>4. \A d \in Cmds : use[d] = "user" => \A x \in Chips : ~(running'[x] = d /\ ending'[x].cmd = d)
    BY <1>1, <1>2, <2>2 DEF CommandsHeld
  <2>5. /\ \A d \in Cmds : use'[d] = "copy" => \E x \in Chips : related'[x] = d
        /\ \A x \in Chips, y \in Chips : related'[x] = related'[y] /\ related'[x] # NULL => x = y
    BY <1>1, <1>2 DEF CommandsHeld
  <2> QED BY <1>1, <1>2, <2>1, <2>3, <2>4, <2>5, OthersHeld
<1>9. SubsHeld'
  <2>1. \A d \in Cmds : Active(d)' => Active(d)
    <3> SUFFICES ASSUME NEW d \in Cmds, Active(d)' PROVE Active(d)
      OBVIOUS
    <3>1. use[d] = "user" /\ \A x \in Chips : ending'[x].cmd = d => ending'[x].at # "ended"
      BY <1>2 DEF Active
    <3>2. \A x \in Chips : ending[x].cmd = d => ending[x].at # "ended"
      BY <1>2, <1>4, <3>1
    <3> QED BY <3>1, <3>2 DEF Active
  <2> QED BY <1>1, <1>2, <2>1 DEF SubsHeld
<1>10. ErasesPlane'
  BY <1>1, <1>2 DEF ErasesPlane
<1> QED BY <1>6, <1>7, <1>8, <1>9, <1>10 DEF RInv

\* The work item of a chip goes on with the command it has in its hands.
LEMMA EndingMoves ==
  ASSUME Calm, NEW chip \in Chips, NEW to \in {"checked", "ended"},
         ending[chip].at \in {"ends", "checked"}, ending' = [ending EXCEPT ![chip].at = to]
  PROVE  /\ ending' \in [Chips -> Endings]
         /\ \A x \in Chips : /\ ending'[x].cmd = ending[x].cmd /\ ending'[x].was = ending[x].was
                             /\ x # chip => ending'[x].at = ending[x].at
         /\ ending'[chip].at = to
<1> PICK e : e = ending[chip]
  OBVIOUS
<1>1. Shape
  BY DEF Calm, RInv
<1>2. e # Nothing
  <2>1. Nothing.at = "idle" /\ e.at # "idle"
    BY DEF Nothing
  <2> QED BY <2>1
<1>3. e \in [cmd : Cmds, was : {"user", "erase", "copy"},
             at : {"unlocked", "ends", "checked", "ended"}]
  BY <1>1, <1>2 DEF Shape, Endings
<1>4. ending' = [ending EXCEPT ![chip] = [e EXCEPT !.at = to]]
  OBVIOUS
<1>5. /\ [e EXCEPT !.at = to] \in Endings
      /\ [e EXCEPT !.at = to].cmd = e.cmd /\ [e EXCEPT !.at = to].was = e.was
      /\ [e EXCEPT !.at = to].at = to
  BY <1>3 DEF Endings
<1>6. ending'[chip] = [e EXCEPT !.at = to] /\ \A x \in Chips : x # chip => ending'[x] = ending[x]
  BY <1>1, <1>4 DEF Shape
<1>7. ending' \in [Chips -> Endings]
  BY <1>1, <1>4, <1>5 DEF Shape
<1> QED BY <1>5, <1>6, <1>7

LEMMA CheckKeeps ==
  ASSUME Calm, NEW chip \in Chips, Check(chip)
  PROVE  RInv'
<1>1. Shape /\ Pools /\ CommandsHeld /\ SubsHeld /\ ErasesPlane
  BY DEF Calm, RInv
<1>2. /\ ending[chip].at = "ends" /\ ending' = [ending EXCEPT ![chip].at = "checked"]
      /\ UNCHANGED <<subUse, freeSubs, waiting, running, related>>
  BY DEF Check
<1>3. /\ ending' \in [Chips -> Endings]
      /\ \A x \in Chips : /\ ending'[x].cmd = ending[x].cmd /\ ending'[x].was = ending[x].was
                          /\ x # chip => ending'[x].at = ending[x].at
      /\ ending'[chip].at = "checked"
  BY <1>2, EndingMoves
<1>4. \A x \in Chips : \A at \in {"unlocked", "ended"} : ending'[x].at = at <=> ending[x].at = at
  BY <1>2, <1>3
<1>5. CASE UNCHANGED <<use, subReqs, freeCmds, erase>>
  <2>1. Shape' /\ Pools' /\ ErasesPlane'
    BY <1>1, <1>2, <1>3, <1>5 DEF Shape, Pools, ErasesPlane
  <2>2. \A x \in Chips : ChipHolds(x)'
    BY <1>1, <1>2, <1>3, <1>4, <1>5 DEF CommandsHeld, ChipHolds
  <2>3. CommandsHeld'
    BY <1>1, <1>2, <1>3, <1>5, <2>2 DEF CommandsHeld, Held
  <2>4. \A d \in Cmds : Active(d)' <=> Active(d)
    BY <1>3, <1>4, <1>5 DEF Active
  <2>5. SubsHeld'
    BY <1>1, <1>2, <1>5, <2>4 DEF SubsHeld
  <2> QED BY <2>1, <2>3, <2>5 DEF RInv
<1>6. ASSUME NEW e \in Cmds, erase[chip] = NULL, NextCmd(e), freeCmds' = Rest(freeCmds),
             use' = [use EXCEPT ![e] = "erase"], subReqs' = [subReqs EXCEPT ![e] = Plane],
             erase' = [erase EXCEPT ![chip] = e]
      PROVE  RInv'
  <2>1. use[e] \in {"free", "unmade"}
    BY <1>1, <1>6, CmdTaken
  <2>2. \A x \in Chips : /\ erase[x] # e /\ related[x] # e /\ running[x] # e
                         /\ ending[x].cmd # e
    BY <2>1, Unheld
  <2>3. /\ \A d \in Cmds : d # e => use'[d] = use[d] /\ subReqs'[d] = subReqs[d]
        /\ use'[e] = "erase" /\ subReqs'[e] = Plane
        /\ \A x \in Chips : x # chip => erase'[x] = erase[x]
        /\ erase'[chip] = e
    BY <1>1, <1>6 DEF Shape
  <2>4. Shape'
    BY <1>1, <1>2, <1>3, <1>6 DEF Shape
  <2>5. Pools'
    BY <1>1, <1>2, <1>6, CmdPool DEF Pools
  <2>6. ErasesPlane'
    BY <1>1, <2>3 DEF ErasesPlane
  <2>7. ASSUME NEW x \in Chips PROVE ChipHolds(x)'
    <3>1. ChipHolds(x)
      BY <1>1 DEF CommandsHeld
    <3>2. /\ erase[x] # NULL => use'[erase[x]] = use[erase[x]]
          /\ related[x] # NULL => use'[related[x]] = use[related[x]]
          /\ running[x] # NULL => use'[running[x]] = use[running[x]]
          /\ ending[x].at # "idle" => use'[ending[x].cmd] = use[ending[x].cmd]
      BY <1>1, <2>2, <2>3, EndingParts DEF Shape
    <3>3. ending'[x].at \in {"ends", "checked", "ended"}
            => ending'[x].was = "user" /\ use'[ending'[x].cmd] = "user"
      BY <1>2, <1>3, <3>1, <3>2 DEF ChipHolds
    <3>4. ending'[x].at = "unlocked" => ending'[x].was = use'[ending'[x].cmd]
      BY <1>3, <1>4, <3>1, <3>2 DEF ChipHolds
    <3>5. erase'[x] # NULL => use'[erase'[x]] = "erase"
      BY <2>3, <3>1, <3>2 DEF ChipHolds
    <3>6. running'[x] # NULL => use'[running'[x]] = "user" \/ running'[x] \in {erase'[x], related'[x]}
      BY <1>2, <1>6, <2>3, <3>1, <3>2 DEF ChipHolds
    <3>7. related'[x] # NULL => use'[related'[x]] = "copy"
      BY <1>2, <3>1, <3>2 DEF ChipHolds
    <3> QED BY <3>3, <3>4, <3>5, <3>6, <3>7 DEF ChipHolds
  <2>8. CommandsHeld'
    <3>1. \A d \in Cmds : use'[d] = "copy" => \E x \in Chips : related'[x] = d
      BY <1>1, <1>2, <2>3 DEF CommandsHeld
    <3>2. \A x \in Chips, y \in Chips : related'[x] = related'[y] /\ related'[x] # NULL => x = y
      BY <1>1, <1>2 DEF CommandsHeld
    <3>3. \A d \in Cmds : \A x \in Chips : Held(d, x)' <=> Held(d, x)
      BY <1>2, <1>3 DEF Held
    <3>4. \A d \in Cmds : use[d] = "user" => \A x \in Chips : ~(running'[x] = d /\ ending'[x].cmd = d)
      BY <1>1, <1>2, <1>3 DEF CommandsHeld
    <3>5. \A d \in Cmds : use'[d] = "user" => use[d] = "user"
      BY <2>3
    <3> QED BY <1>1, <2>7, <3>1, <3>2, <3>3, <3>4, <3>5, OthersHeld
  <2>9. SubsHeld'
    <3>1. \A d \in Cmds : Active(d)' => Active(d) /\ d # e
      BY <1>3, <1>4, <2>3 DEF Active
    <3> QED BY <1>1, <1>2, <2>3, <3>1 DEF SubsHeld
  <2> QED BY <2>4, <2>5, <2>6, <2>8, <2>9 DEF RInv
<1> QED BY <1>5, <1>6 DEF Check

LEMMA EndSubKeeps ==
  ASSUME Calm, NEW chip \in Chips, EndSub(chip)
  PROVE  RInv'
<1>1. Shape /\ Pools /\ CommandsHeld /\ SubsHeld /\ ErasesPlane
  BY DEF Calm, RInv
<1> PICK c : c = ending[chip].cmd
  OBVIOUS
<1> PICK s : s = subReqs[c]
  OBVIOUS
<1>2. /\ ending[chip].at = "checked" /\ ending' = [ending EXCEPT ![chip].at = "ended"]
      /\ UNCHANGED <<use, subReqs, freeCmds, waiting, running, erase, related>>
  BY DEF EndSub
<1>3. \/ subUse' = [subUse EXCEPT ![s] = "done"] /\ UNCHANGED freeSubs
      \/ \E D \in SUBSET {t \in Subs : subUse[t] = "done"} :
           /\ \E q \in SetToSeqs({s} \cup D) : freeSubs' = q \o freeSubs
           /\ subUse' = [t \in Subs |-> IF t \in {s} \cup D THEN "free" ELSE subUse[t]]
  BY DEF EndSub
<1>4. /\ ending' \in [Chips -> Endings]
      /\ \A x \in Chips : /\ ending'[x].cmd = ending[x].cmd /\ ending'[x].was = ending[x].was
                          /\ x # chip => ending'[x].at = ending[x].at
      /\ ending'[chip].at = "ended"
  BY <1>2, EndingMoves
<1>5. c \in Cmds /\ use[c] = "user"
  BY <1>2, CalmEnding
<1>6. Active(c)
  <2>1. \A x \in Chips : ending[x].cmd = c => x = chip
    BY <1>1, <1>5 DEF CommandsHeld, Held
  <2> QED BY <1>2, <1>5, <2>1 DEF Active
<1>7. /\ s \in Subs /\ subUse[s] = "user"
      /\ \A x \in Chips : s \notin waiting[x]
      /\ \A d \in Cmds : Active(d) /\ subReqs[d] = s => d = c
  BY <1>1, <1>5, <1>6 DEF SubsHeld
<1>8. /\ subUse' \in [Subs -> {"user", "done", "copy", "free", "unmade"}]
      /\ Lists(freeSubs', {t \in Subs : subUse'[t] = "free"})
      /\ \A t \in Subs : t # s /\ subUse[t] = "user" => subUse'[t] = "user"
  <2>1. CASE subUse' = [subUse EXCEPT ![s] = "done"] /\ UNCHANGED freeSubs
    <3>1. {t \in Subs : subUse'[t] = "free"} = {t \in Subs : subUse[t] = "free"}
      BY <1>1, <1>7, <2>1 DEF Shape
    <3> QED BY <1>1, <1>7, <2>1, <3>1 DEF Shape, Pools
  <2>2. ASSUME NEW D \in SUBSET {t \in Subs : subUse[t] = "done"},
               NEW q \in SetToSeqs({s} \cup D), freeSubs' = q \o freeSubs,
               subUse' = [t \in Subs |-> IF t \in {s} \cup D THEN "free" ELSE subUse[t]]
        PROVE  /\ subUse' \in [Subs -> {"user", "done", "copy", "free", "unmade"}]
               /\ Lists(freeSubs', {t \in Subs : subUse'[t] = "free"})
               /\ \A t \in Subs : t # s /\ subUse[t] = "user" => subUse'[t] = "user"
    <3>1. PICK E \in SUBSET Subs : E = {s} \cup D
      BY <1>7, <2>2
    <3>2. \A t \in E : subUse[t] # "free"
      BY <1>7, <2>2, <3>1
    <3>3. Lists(freeSubs', {t \in Subs : subUse'[t] = "free"})
      BY <1>1, <2>2, <3>1, <3>2, SubsBack
    <3> QED BY <1>1, <2>2, <3>3 DEF Shape
  <2> QED BY <1>3, <2>1, <2>2
<1>9. Shape'
  BY <1>1, <1>2, <1>4, <1>8 DEF Shape
<1>10. Pools' /\ ErasesPlane'
  BY <1>1, <1>2, <1>8 DEF Pools, ErasesPlane
<1>11. CommandsHeld'
  <2>1. \A x \in Chips : ending'[x].at = "unlocked" <=> ending[x].at = "unlocked"
    BY <1>2, <1>4
  <2>2. \A x \in Chips : ChipHolds(x)'
    BY <1>1, <1>2, <1>4, <2>1 DEF CommandsHeld, ChipHolds
  <2> QED BY <1>1, <1>2, <1>4, <2>2 DEF CommandsHeld, Held
<1>12. SubsHeld'
  <2>1. \A d \in Cmds : Active(d)' => Active(d) /\ d # c
    <3> SUFFICES ASSUME NEW d \in Cmds, Active(d)' PROVE Active(d) /\ d # c
      OBVIOUS
    <3>1. use[d] = "user" /\ \A x \in Chips : ending[x].cmd = d => ending'[x].at # "ended"
      BY <1>2, <1>4 DEF Active
    <3>2. d # c
      BY <1>4, <3>1
    <3>3. \A x \in Chips : ending[x].cmd = d => x # chip
      BY <3>2
    <3> QED BY <1>4, <3>1, <3>2, <3>3 DEF Active
  <2>2. \A x \in Chips : waiting[x] \subseteq Subs
    BY <1>1 DEF Shape
  <2>3. \A d \in Cmds : Active(d)' => subReqs[d] # s
    BY <1>7, <2>1
  <2> QED BY <1>1, <1>2, <1>7, <1>8, <2>1, <2>2, <2>3 DEF SubsHeld
<1> QED BY <1>9, <1>10, <1>11, <1>12 DEF RInv

LEMMA FreeCommandKeeps ==
  ASSUME Calm, NEW chip \in Chips, FreeCommand(chip)
  PROVE  RInv'
<1>1. Shape /\ Pools /\ CommandsHeld /\ SubsHeld /\ ErasesPlane
  BY DEF Calm, RInv
<1> PICK c : c = ending[chip].cmd
  OBVIOUS
<1>2. /\ ending[chip].at = "ended" /\ ending' = [ending EXCEPT ![chip] = Nothing]
      /\ freeCmds' = <<c>> \o freeCmds /\ use' = [use EXCEPT ![c] = "free"]
      /\ UNCHANGED <<subReqs, subUse, freeSubs, waiting, running, erase, related>>
  BY DEF FreeCommand
<1>3. c \in Cmds /\ use[c] = "user"
  BY <1>2, CalmEnding
<1>4. \A x \in Chips : (ending[x].cmd = c => x = chip) /\ running[x] # c
  BY <1>1, <1>3 DEF CommandsHeld, Held
<1>5. /\ \A d \in Cmds : d # c => use'[d] = use[d]
      /\ use'[c] = "free"
      /\ \A x \in Chips : x # chip => ending'[x] = ending[x]
      /\ ending'[chip] = Nothing /\ Nothing.cmd = NULL /\ Nothing.at = "idle"
  BY <1>1, <1>2, <1>3 DEF Shape, Nothing
<1>6. Shape'
  BY <1>1, <1>2 DEF Shape, Endings
<1>7. Pools'
  BY <1>1, <1>2, <1>3, CmdBack DEF Pools
<1>8. ErasesPlane'
  BY <1>1, <1>2, <1>5 DEF ErasesPlane
<1>9. CommandsHeld'
  <2>1. ASSUME NEW x \in Chips PROVE ChipHolds(x)'
    <3>1. ChipHolds(x)
      BY <1>1 DEF CommandsHeld
    <3>2. /\ erase[x] # NULL => use'[erase[x]] = use[erase[x]]
          /\ related[x] # NULL => use'[related[x]] = use[related[x]]
          /\ running[x] # NULL => use'[running[x]] = use[running[x]]
      BY <1>1, <1>3, <1>4, <1>5, <3>1 DEF Shape, ChipHolds
    <3>3. ending[x].at # "idle" /\ x # chip => use'[ending[x].cmd] = use[ending[x].cmd]
      BY <1>1, <1>4, <1>5, EndingParts
    <3> QED BY <1>2, <1>5, <3>1, <3>2, <3>3 DEF ChipHolds
  <2>2. /\ \A d \in Cmds : use'[d] = "copy" => \E x \in Chips : related'[x] = d
        /\ \A x \in Chips, y \in Chips : related'[x] = related'[y] /\ related'[x] # NULL => x = y
    BY <1>1, <1>2, <1>5 DEF CommandsHeld
  <2>3. \A d \in Cmds : use'[d] = "user" => use[d] = "user" /\ d # c
    BY <1>5
  <2>4. \A d \in Cmds : d # c => \A x \in Chips : ending'[x].cmd = d <=> ending[x].cmd = d
    BY <1>5, RecycleAssumption
  <2>5. \A d \in Cmds : use'[d] = "user" => \A x \in Chips : Held(d, x)' <=> Held(d, x)
    BY <1>2, <2>3, <2>4 DEF Held
  <2>6. \A d \in Cmds : use'[d] = "user" => \A x \in Chips : ~(running'[x] = d /\ ending'[x].cmd = d)
    BY <1>1, <1>2, <2>3, <2>4 DEF CommandsHeld
  <2> QED BY <1>1, <2>1, <2>2, <2>3, <2>5, <2>6, OthersHeld
<1>10. SubsHeld'
  <2>1. \A d \in Cmds : Active(d)' => Active(d)
    <3> SUFFICES ASSUME NEW d \in Cmds, Active(d)' PROVE Active(d)
      OBVIOUS
    <3>1. use[d] = "user" /\ d # c /\ \A x \in Chips : ending'[x].cmd = d => ending'[x].at # "ended"
      BY <1>5 DEF Active
    <3> QED BY <1>5, <3>1 DEF Active
  <2> QED BY <1>1, <1>2, <2>1 DEF SubsHeld
<1> QED BY <1>6, <1>7, <1>8, <1>9, <1>10 DEF RInv

LEMMA StepKeeps ==
  ASSUME Prompt, CopyOwnsItsSub, RInv, [RecycleNext]_recycleVars
  PROVE  RInv'
<1>1. CASE UNCHANGED recycleVars
  BY <1>1 DEF recycleVars, RInv, Shape, Pools, CommandsHeld, ChipHolds, Held, SubsHeld, Active,
              ErasesPlane
<1>2. ASSUME NEW chip \in Chips, Look(chip) PROVE RInv'
  BY <1>2, LookKeeps
<1>3. ASSUME ~HeldUp, NEW chip \in Chips,
             \/ \E s \in Subs : Submit(chip, s)
             \/ \E s \in Subs, c \in Cmds : Dispatch(chip, s, c)
             \/ \E c \in Cmds : CreateCopy(chip, c)
             \/ GoOn(chip) \/ EraseNow(chip)
             \/ EndSignal(chip) \/ Check(chip) \/ EndSub(chip) \/ FreeCommand(chip)
      PROVE  RInv'
  <2>1. Calm
    BY <1>3 DEF Calm
  <2> QED BY <1>3, <2>1, SubmitKeeps, DispatchKeeps, CreateCopyKeeps, GoOnKeeps, EraseNowKeeps,
             EndSignalKeeps, CheckKeeps, EndSubKeeps, FreeCommandKeeps
<1> QED BY <1>1, <1>2, <1>3 DEF RecycleNext

LEMMA StartHolds == RecycleInit => RInv
<1> SUFFICES ASSUME RecycleInit PROVE RInv
  OBVIOUS
<1>1. Shape
  BY DEF RecycleInit, Shape, Endings
<1>2. Pools
  <2>1. {c \in Cmds : use[c] = "free"} = {} /\ {s \in Subs : subUse[s] = "free"} = {}
    BY DEF RecycleInit
  <2>2. Lists(<<>>, {})
    BY DEF Lists, IsInjective, Range
  <2> QED BY <2>1, <2>2 DEF RecycleInit, Pools
<1>3. CommandsHeld
  BY DEF RecycleInit, CommandsHeld, ChipHolds, Nothing
<1>4. SubsHeld /\ ErasesPlane
  BY DEF RecycleInit, SubsHeld, Active, ErasesPlane
<1> QED BY <1>1, <1>2, <1>3, <1>4 DEF RInv

\* RInv is an invariant of the behaviours in which every copy has a sub-request
\* of its own.
THEOREM RInvHolds ==
  ASSUME Prompt
  PROVE  RecycleSpec /\ []CopyOwnsItsSub => []RInv
<1>1. CopyOwnsItsSub /\ RInv /\ [RecycleNext]_recycleVars => RInv'
  BY StepKeeps
<1> QED BY <1>1, StartHolds, PTL DEF RecycleSpec

-----------------------------------------------------------------------------
(* What it says.                                                           *)

(* Nothing is in a pool twice or while somebody uses it, as long as no copy *)
(* has another's sub-request.                                              *)
THEOREM NothingFreedTwice ==
  ASSUME Prompt
  PROVE  RecycleSpec /\ []CopyOwnsItsSub => []FreedOnce
<1>1. ASSUME RInv PROVE FreedOnce
  <2> SUFFICES ASSUME CopyOwnsItsSub
               PROVE  /\ IsInjective(freeCmds) /\ Range(freeCmds) = {c \in Cmds : use[c] = "free"}
                      /\ IsInjective(freeSubs) /\ Range(freeSubs) = {s \in Subs : subUse[s] = "free"}
                      /\ \A chip \in Chips :
                           /\ {running[chip], erase[chip], related[chip]} \cap Range(freeCmds) = {}
                           /\ waiting[chip] \cap Range(freeSubs) = {}
                           /\ running[chip] # NULL => subReqs[running[chip]] \notin Range(freeSubs)
    BY DEF FreedOnce
  <2>1. Shape /\ Pools /\ CommandsHeld /\ SubsHeld /\ ErasesPlane
    BY <1>1 DEF RInv
  <2>2. /\ IsInjective(freeCmds) /\ Range(freeCmds) = {c \in Cmds : use[c] = "free"}
        /\ IsInjective(freeSubs) /\ Range(freeSubs) = {s \in Subs : subUse[s] = "free"}
    BY <2>1 DEF Pools, Lists
  <2>3. ASSUME NEW chip \in Chips
        PROVE  /\ {running[chip], erase[chip], related[chip]} \cap Range(freeCmds) = {}
               /\ waiting[chip] \cap Range(freeSubs) = {}
               /\ running[chip] # NULL => subReqs[running[chip]] \notin Range(freeSubs)
    <3>1. ChipHolds(chip)
      BY <2>1 DEF CommandsHeld
    <3>2. \A c \in {running[chip], erase[chip], related[chip]} : c \notin Cmds \/ use[c] # "free"
      BY <3>1, RecycleAssumption DEF ChipHolds
    <3>3. waiting[chip] \cap Range(freeSubs) = {}
      BY <2>1, <2>2 DEF SubsHeld
    <3>4. ASSUME running[chip] # NULL PROVE subReqs[running[chip]] \notin Range(freeSubs)
      <4>1. running[chip] \in Cmds
        BY <2>1, <3>4 DEF Shape
      <4>2. CASE use[running[chip]] = "user"
        <5>1. Active(running[chip])
          BY <2>1, <4>1, <4>2 DEF CommandsHeld, Held, Active
        <5> QED BY <2>1, <2>2, <4>1, <5>1 DEF SubsHeld
      <4>3. CASE running[chip] = erase[chip]
        <5>1. subReqs[running[chip]] = Plane
          BY <2>1, <3>1, <3>4, <4>1, <4>3 DEF ChipHolds, ErasesPlane
        <5> QED BY <2>2, <5>1, RecycleAssumption
      <4>4. CASE running[chip] = related[chip]
        <5>1. subReqs[related[chip]] \in {s \in Subs : subUse[s] = "copy"}
          BY <3>4, <4>4 DEF CopyOwnsItsSub
        <5> QED BY <2>2, <4>4, <5>1
      <4> QED BY <3>1, <3>4, <4>2, <4>3, <4>4 DEF ChipHolds
    <3> QED BY <2>2, <3>2, <3>3, <3>4
  <2> QED BY <2>2, <2>3
<1> QED BY <1>1, RInvHolds, PTL

(* Every command taken from the pool for a user or a copy is at work or     *)
(* comes back.                                                             *)
THEOREM ErasesAloneLeak ==
  ASSUME Prompt
  PROVE  RecycleSpec /\ []CopyOwnsItsSub => []OnlyErasesLeak
<1>1. ASSUME RInv PROVE OnlyErasesLeak
  <2> SUFFICES ASSUME NEW c \in Cmds, use[c] \in {"user", "copy"}
               PROVE  \E chip \in Chips : c \in {running[chip], related[chip], ending[chip].cmd}
    BY DEF OnlyErasesLeak
  <2>1. CommandsHeld
    BY <1>1 DEF RInv
  <2>2. CASE use[c] = "user"
    BY <2>1, <2>2 DEF CommandsHeld, Held
  <2>3. CASE use[c] = "copy"
    BY <2>1, <2>3 DEF CommandsHeld
  <2> QED BY <2>2, <2>3
<1> QED BY <1>1, RInvHolds, PTL

-----------------------------------------------------------------------------
(* One chip, and recv_signal_back held up anywhere, whatever the copies do *)
(* to the sub-requests.                                                    *)

\* What the chip works on: a copy belongs to an erase that waits for it.
OneChipWork(chip) ==
  /\ erase[chip] # NULL => use[erase[chip]] = "erase"
  /\ related[chip] # NULL => use[related[chip]] = "copy" /\ erase[chip] # NULL
  /\ running[chip] # NULL =>
       \/ use[running[chip]] = "user"
       \/ running[chip] = related[chip]
       \/ running[chip] = erase[chip] /\ related[chip] = NULL

\* What its work item has in its hands.  A copy that was freed before the look
\* stays in the pool: the chip is busy with the erase.
OneChipEnding(chip) ==
  /\ ending[chip].at \in {"ends", "checked", "ended"} =>
       ending[chip].was = "user" /\ use[ending[chip].cmd] = "user"
  /\ ending[chip].at = "unlocked" =>
       \/ ending[chip].was \in {"user", "erase"} /\ use[ending[chip].cmd] = ending[chip].was
       \/ /\ ending[chip].was = "copy"
          /\ \/ related[chip] = ending[chip].cmd
             \/ /\ use[ending[chip].cmd] = "free" /\ running[chip] # NULL
                /\ running[chip] = erase[chip]
  /\ ending[chip].at # "idle" => running[chip] # ending[chip].cmd \/ use[running[chip]] # "user"

OneChipInv ==
  /\ use \in [Cmds -> {"user", "erase", "copy", "free", "unmade"}]
  /\ running \in [Chips -> Cmds \cup {NULL}]
  /\ erase \in [Chips -> Cmds \cup {NULL}] /\ related \in [Chips -> Cmds \cup {NULL}]
  /\ ending \in [Chips -> Endings]
  /\ Lists(freeCmds, {c \in Cmds : use[c] = "free"})
  /\ \A chip \in Chips : OneChipWork(chip) /\ OneChipEnding(chip)

LEMMA OneChipTaken ==
  ASSUME OneChipInv, NEW c \in Cmds, NextCmd(c), NEW u \in {"user", "erase", "copy"},
         freeCmds' = Rest(freeCmds), use' = [use EXCEPT ![c] = u]
  PROVE  /\ use[c] \in {"free", "unmade"} /\ use'[c] = u
         /\ \A d \in Cmds : d # c => use'[d] = use[d]
         /\ use' \in [Cmds -> {"user", "erase", "copy", "free", "unmade"}]
         /\ Lists(freeCmds', {d \in Cmds : use'[d] = "free"})
<1>1. PICK objects : objects = {d \in Cmds : use[d] = "free"}
  OBVIOUS
<1>2. c \in objects \/ c \in {d \in Cmds : use[d] = "unmade"}
  BY <1>1, Taken DEF OneChipInv, NextCmd
<1>3. Lists(Rest(freeCmds), objects \ {c})
  BY <1>1, Taken DEF OneChipInv, NextCmd
<1>4. {d \in Cmds : use'[d] = "free"} = objects \ {c}
  BY <1>1 DEF OneChipInv
<1> QED BY <1>1, <1>2, <1>3, <1>4 DEF OneChipInv

LEMMA OneChipBack ==
  ASSUME OneChipInv, NEW c \in Cmds, use[c] # "free",
         freeCmds' = <<c>> \o freeCmds, use' = [use EXCEPT ![c] = "free"]
  PROVE  /\ use'[c] = "free" /\ \A d \in Cmds : d # c => use'[d] = use[d]
         /\ use' \in [Cmds -> {"user", "erase", "copy", "free", "unmade"}]
         /\ Lists(freeCmds', {d \in Cmds : use'[d] = "free"})
<1>1. PICK objects : objects = {d \in Cmds : use[d] = "free"}
  OBVIOUS
<1>2. {d \in Cmds : use'[d] = "free"} = {c} \cup objects
  BY <1>1 DEF OneChipInv
<1>3. Lists(<<c>> \o freeCmds, {c} \cup objects)
  BY <1>1, PutOne DEF OneChipInv
<1> QED BY <1>2, <1>3 DEF OneChipInv

LEMMA OneChipParts ==
  ASSUME OneChipInv, NEW chip \in Chips
  PROVE  /\ ending[chip].at \in {"idle", "unlocked", "ends", "checked", "ended"}
         /\ ending[chip].at # "idle" =>
              ending[chip].cmd \in Cmds /\ ending[chip].was \in {"user", "erase", "copy"}
<1> QED BY DEF OneChipInv, Endings, Nothing

LEMMA OneChipStep ==
  ASSUME NEW chip, Chips = {chip}, OneChipInv, [RecycleNext]_recycleVars
  PROVE  OneChipInv'
<1>1. OneChipWork(chip) /\ OneChipEnding(chip)
  BY DEF OneChipInv
<1>2. CASE UNCHANGED recycleVars
  BY <1>2 DEF recycleVars, OneChipInv, OneChipWork, OneChipEnding
<1>3. CASE \E s \in Subs : Submit(chip, s)
  BY <1>3 DEF Submit, OneChipInv, OneChipWork, OneChipEnding
<1>4. ASSUME NEW s \in Subs, NEW c \in Cmds, Dispatch(chip, s, c) PROVE OneChipInv'
  <2>1. /\ use[c] \in {"free", "unmade"} /\ use'[c] = "user"
        /\ \A d \in Cmds : d # c => use'[d] = use[d]
        /\ use' \in [Cmds -> {"user", "erase", "copy", "free", "unmade"}]
        /\ Lists(freeCmds', {d \in Cmds : use'[d] = "free"})
    BY <1>4, OneChipTaken DEF Dispatch
  <2>2. /\ running' = [running EXCEPT ![chip] = c] /\ running[chip] = NULL
        /\ erase[chip] = NULL /\ UNCHANGED <<erase, related, ending>>
    BY <1>4 DEF Dispatch
  <2>3. OneChipWork(chip)'
    BY <1>1, <2>1, <2>2 DEF OneChipInv, OneChipWork
  <2>4. ending[chip].at # "idle" => ending[chip].cmd # c
    BY <1>1, <2>1, <2>2, OneChipParts, RecycleAssumption DEF OneChipEnding, OneChipWork
  <2>5. OneChipEnding(chip)'
    BY <1>1, <2>1, <2>2, <2>4, OneChipParts DEF OneChipInv, OneChipEnding, OneChipWork
  <2> QED BY <2>1, <2>2, <2>3, <2>5 DEF OneChipInv
<1>5. ASSUME NEW c \in Cmds, CreateCopy(chip, c) PROVE OneChipInv'
  <2>1. /\ use[c] \in {"free", "unmade"} /\ use'[c] = "copy"
        /\ \A d \in Cmds : d # c => use'[d] = use[d]
        /\ use' \in [Cmds -> {"user", "erase", "copy", "free", "unmade"}]
        /\ Lists(freeCmds', {d \in Cmds : use'[d] = "free"})
    BY <1>5, OneChipTaken DEF CreateCopy
  <2>2. /\ running' = [running EXCEPT ![chip] = c] /\ running[chip] = NULL
        /\ related' = [related EXCEPT ![chip] = c] /\ related[chip] = NULL
        /\ erase[chip] # NULL /\ UNCHANGED <<erase, ending>>
    BY <1>5 DEF CreateCopy, Erasing
  <2>3. OneChipWork(chip)'
    BY <1>1, <2>1, <2>2 DEF OneChipInv, OneChipWork
  <2>4. ending[chip].at # "idle" => ending[chip].cmd # c
    BY <1>1, <2>1, <2>2, OneChipParts, RecycleAssumption DEF OneChipEnding
  <2>5. OneChipEnding(chip)'
    BY <1>1, <2>1, <2>2, <2>4, OneChipParts, RecycleAssumption DEF OneChipInv, OneChipEnding
  <2> QED BY <2>1, <2>2, <2>3, <2>5 DEF OneChipInv
<1>6. CASE GoOn(chip)
  <2>1. /\ running' = [running EXCEPT ![chip] = related[chip]] /\ running[chip] = NULL
        /\ related[chip] # NULL /\ UNCHANGED <<use, freeCmds, erase, related, ending>>
    BY <1>6 DEF GoOn, Erasing
  <2> QED BY <1>1, <2>1 DEF OneChipInv, OneChipWork, OneChipEnding
<1>7. CASE EraseNow(chip)
  <2> PICK c : c = related[chip]
    OBVIOUS
  <2>1. /\ running' = [running EXCEPT ![chip] = erase[chip]] /\ running[chip] = NULL
        /\ erase[chip] # NULL /\ related' = [related EXCEPT ![chip] = NULL]
        /\ UNCHANGED <<erase, ending>>
    BY <1>7 DEF EraseNow, Erasing
  <2>2. use[erase[chip]] = "erase" /\ erase[chip] \in Cmds
    BY <1>1, <2>1 DEF OneChipInv, OneChipWork
  <2>3. CASE c = NULL /\ UNCHANGED <<use, freeCmds>>
    BY <1>1, <2>1, <2>2, <2>3, OneChipParts, RecycleAssumption
       DEF OneChipInv, OneChipWork, OneChipEnding
  <2>4. CASE c # NULL /\ freeCmds' = <<c>> \o freeCmds /\ use' = [use EXCEPT ![c] = "free"]
    <3>1. c \in Cmds /\ use[c] = "copy"
      BY <1>1, <2>4 DEF OneChipInv, OneChipWork
    <3>2. /\ use'[c] = "free" /\ \A d \in Cmds : d # c => use'[d] = use[d]
          /\ use' \in [Cmds -> {"user", "erase", "copy", "free", "unmade"}]
          /\ Lists(freeCmds', {d \in Cmds : use'[d] = "free"})
      BY <2>4, <3>1, OneChipBack
    <3>3. OneChipWork(chip)'
      BY <2>1, <2>2, <3>1, <3>2 DEF OneChipInv, OneChipWork
    <3>4. /\ running'[chip] = erase[chip] /\ erase'[chip] = erase[chip]
          /\ use'[erase[chip]] = "erase"
      BY <2>1, <2>2, <3>1, <3>2 DEF OneChipInv
    <3>5. OneChipEnding(chip)'
      BY <1>1, <2>1, <3>1, <3>2, <3>4, OneChipParts, RecycleAssumption DEF OneChipEnding
    <3> QED BY <2>1, <3>2, <3>3, <3>5 DEF OneChipInv
  <2> QED BY <1>7, <2>3, <2>4 DEF EraseNow
<1>8. CASE EndSignal(chip)
  <2> PICK c : c = running[chip]
    OBVIOUS
  <2>1. /\ c # NULL /\ c \in Cmds /\ running' = [running EXCEPT ![chip] = NULL]
        /\ ending' = [ending EXCEPT ![chip] = [cmd |-> c, was |-> use[c], at |-> "unlocked"]]
        /\ erase' = [erase EXCEPT ![chip] = IF @ = c THEN NULL ELSE @]
        /\ UNCHANGED <<use, freeCmds, related>>
    BY <1>8 DEF EndSignal, OneChipInv
  <2>2. use[c] \in {"user", "erase", "copy"} /\ (use[c] = "copy" => related[chip] = c)
    BY <1>1, <2>1 DEF OneChipWork
  <2>3. /\ ending' \in [Chips -> Endings] /\ ending'[chip].cmd = c
        /\ ending'[chip].was = use[c] /\ ending'[chip].at = "unlocked"
    BY <2>1, <2>2 DEF OneChipInv, Endings
  <2>4. erase[chip] = c => related[chip] = NULL
    BY <1>1, <2>1 DEF OneChipWork
  <2>5. OneChipWork(chip)'
    BY <1>1, <2>1, <2>4 DEF OneChipInv, OneChipWork
  <2>6. OneChipEnding(chip)'
    BY <2>1, <2>2, <2>3, RecycleAssumption DEF OneChipInv, OneChipEnding
  <2> QED BY <2>1, <2>3, <2>5, <2>6 DEF OneChipInv
<1>9. CASE Look(chip)
  <2>1. /\ ending[chip].at = "unlocked"
        /\ ending' = [ending EXCEPT ![chip] =
                        IF ServesUser(@.cmd) THEN [@ EXCEPT !.at = "ends"] ELSE Nothing]
        /\ UNCHANGED <<use, freeCmds, running, erase, related>>
    BY <1>9 DEF Look
  <2>2. CASE ServesUser(ending[chip].cmd)
    <3>1. ending'[chip] = [ending[chip] EXCEPT !.at = "ends"]
      BY <2>1, <2>2 DEF OneChipInv
    <3>2. /\ ending'[chip] \in Endings /\ ending'[chip].cmd = ending[chip].cmd
          /\ ending'[chip].was = ending[chip].was /\ ending'[chip].at = "ends"
      BY <2>1, <3>1 DEF OneChipInv, Endings, Nothing
    <3>3. ending[chip].was = "user"
      BY <1>1, <2>1, <2>2, OneChipParts, RecycleAssumption
         DEF ServesUser, OneChipEnding, OneChipWork
    <3> QED BY <1>1, <2>1, <2>2, <3>2, <3>3
            DEF OneChipInv, OneChipWork, OneChipEnding, ServesUser
  <2>3. CASE ~ServesUser(ending[chip].cmd)
    <3>1. ending'[chip] = Nothing /\ ending' \in [Chips -> Endings]
      BY <2>1, <2>3 DEF OneChipInv, Endings
    <3> QED BY <1>1, <2>1, <3>1 DEF OneChipInv, OneChipWork, OneChipEnding, Nothing
  <2> QED BY <2>2, <2>3
<1>10. ASSUME NEW from \in {"ends", "checked"}, NEW to \in {"checked", "ended"},
             ending[chip].at = from, ending' = [ending EXCEPT ![chip].at = to]
       PROVE  /\ ending' \in [Chips -> Endings] /\ ending'[chip].cmd = ending[chip].cmd
              /\ ending'[chip].was = ending[chip].was /\ ending'[chip].at = to
  BY <1>10 DEF OneChipInv, Endings, Nothing
<1>11. CASE Check(chip)
  <2>1. /\ ending[chip].at = "ends" /\ ending' = [ending EXCEPT ![chip].at = "checked"]
        /\ UNCHANGED <<running, related>>
    BY <1>11 DEF Check
  <2>2. /\ ending' \in [Chips -> Endings] /\ ending'[chip].cmd = ending[chip].cmd
        /\ ending'[chip].was = ending[chip].was /\ ending'[chip].at = "checked"
    BY <1>10, <2>1
  <2>3. CASE UNCHANGED <<use, freeCmds, erase>>
    BY <1>1, <2>1, <2>2, <2>3 DEF OneChipInv, OneChipWork, OneChipEnding
  <2>4. ASSUME NEW e \in Cmds, erase[chip] = NULL, NextCmd(e), freeCmds' = Rest(freeCmds),
               use' = [use EXCEPT ![e] = "erase"], erase' = [erase EXCEPT ![chip] = e]
        PROVE  OneChipInv'
    <3>1. /\ use[e] \in {"free", "unmade"} /\ use'[e] = "erase"
          /\ \A d \in Cmds : d # e => use'[d] = use[d]
          /\ use' \in [Cmds -> {"user", "erase", "copy", "free", "unmade"}]
          /\ Lists(freeCmds', {d \in Cmds : use'[d] = "free"})
      BY <2>4, OneChipTaken
    <3>2. related[chip] = NULL
      BY <1>1, <2>4 DEF OneChipWork
    <3>3. running[chip] # NULL => use[running[chip]] = "user" /\ running[chip] # e
      BY <1>1, <2>4, <3>1, <3>2 DEF OneChipWork
    <3>4. ending[chip].cmd \in Cmds /\ ending[chip].cmd # e
      BY <1>1, <2>1, <3>1, OneChipParts DEF OneChipEnding
    <3>5. OneChipWork(chip)'
      BY <2>1, <2>4, <3>1, <3>2, <3>3 DEF OneChipInv, OneChipWork
    <3>6. OneChipEnding(chip)'
      BY <1>1, <2>1, <2>2, <3>1, <3>3, <3>4, RecycleAssumption DEF OneChipInv, OneChipEnding
    <3> QED BY <2>1, <2>2, <2>4, <3>1, <3>5, <3>6 DEF OneChipInv
  <2> QED BY <1>11, <2>3, <2>4 DEF Check
<1>12. CASE EndSub(chip)
  <2>1. /\ ending[chip].at = "checked" /\ ending' = [ending EXCEPT ![chip].at = "ended"]
        /\ UNCHANGED <<use, freeCmds, running, erase, related>>
    BY <1>12 DEF EndSub
  <2>2. /\ ending' \in [Chips -> Endings] /\ ending'[chip].cmd = ending[chip].cmd
        /\ ending'[chip].was = ending[chip].was /\ ending'[chip].at = "ended"
    BY <1>10, <2>1
  <2> QED BY <1>1, <2>1, <2>2 DEF OneChipInv, OneChipWork, OneChipEnding
<1>13. CASE FreeCommand(chip)
  <2> PICK c : c = ending[chip].cmd
    OBVIOUS
  <2>1. /\ ending[chip].at = "ended" /\ ending' = [ending EXCEPT ![chip] = Nothing]
        /\ freeCmds' = <<c>> \o freeCmds /\ use' = [use EXCEPT ![c] = "free"]
        /\ UNCHANGED <<running, erase, related>>
    BY <1>13 DEF FreeCommand
  <2>2. c \in Cmds /\ use[c] = "user" /\ running[chip] # c
    BY <1>1, <2>1, OneChipParts DEF OneChipEnding
  <2>3. /\ use'[c] = "free" /\ \A d \in Cmds : d # c => use'[d] = use[d]
        /\ use' \in [Cmds -> {"user", "erase", "copy", "free", "unmade"}]
        /\ Lists(freeCmds', {d \in Cmds : use'[d] = "free"})
    BY <2>1, <2>2, OneChipBack
  <2>4. OneChipWork(chip)'
    BY <1>1, <2>1, <2>2, <2>3 DEF OneChipInv, OneChipWork
  <2>5. ending'[chip] = Nothing /\ ending' \in [Chips -> Endings]
    BY <2>1 DEF OneChipInv, Endings
  <2> QED BY <2>1, <2>3, <2>4, <2>5 DEF OneChipInv, OneChipEnding, Nothing
<1> QED BY <1>2, <1>3, <1>4, <1>5, <1>6, <1>7, <1>8, <1>9, <1>11, <1>12, <1>13
        DEF RecycleNext

(* With one chip recv_signal_back ends the sub-request of the command that  *)
(* was signalled, wherever it is held up (command.c:361-377).              *)
THEOREM EndsWhatItTook ==
  ASSUME NEW chip, Chips = {chip}
  PROVE  RecycleSpec => []EndsOwnCommand
<1>1. RecycleInit => OneChipInv
  <2> SUFFICES ASSUME RecycleInit PROVE OneChipInv
    OBVIOUS
  <2>1. {c \in Cmds : use[c] = "free"} = {} /\ Lists(<<>>, {})
    BY DEF RecycleInit, Lists, IsInjective, Range
  <2> QED BY <2>1 DEF RecycleInit, OneChipInv, OneChipWork, OneChipEnding, Endings, Nothing
<1>2. OneChipInv /\ [RecycleNext]_recycleVars => OneChipInv'
  BY OneChipStep
<1>3. OneChipInv => EndsOwnCommand
  BY DEF OneChipInv, OneChipEnding, EndsOwnCommand
<1> QED BY <1>1, <1>2, <1>3, PTL DEF RecycleSpec
=============================================================================
