--------------------------- MODULE DataPathProofs ---------------------------
(***************************************************************************)
(* Theorems about DataPath: the requests of the host, cut into pages by     *)
(* request.c and held up in the lists of the chips, drive the tables as     *)
(* Flash has it, so what FlashProofs shows of Flash holds under them.       *)
(*                                                                          *)
(* Flash assumes of a write of the host that it covers every sector stored  *)
(* of its page.  The code decides that when the request arrives, against    *)
(* the map of that moment, and writes much later.  CoversStored is the      *)
(* invariant: a write that has not been sent covers what the map says now,  *)
(* together with the read it waits for.  It holds because the only command  *)
(* that changes what is stored of the page is the write itself: a copy      *)
(* moves it as it is (CopyIsCurrent, of Flash), and of two sub-requests of  *)
(* one page one would have to be in two places (OnePlace).                  *)
(*                                                                          *)
(* The bytes follow in BInv and SourceOK: a copy has the bytes of its page  *)
(* in its buffer and then at the frontier, where the map takes it for the   *)
(* page; so only the end of a write changes what a sector holds             *)
(* (ContentMoves).  A read goes to the place the map gave when the request  *)
(* arrived.  The page may have moved since, but its old block keeps the     *)
(* bytes: it is collected, or erased and not written to, because the read   *)
(* itself goes before every write of its chip.  EInv adds what the buffers  *)
(* of the request hold: a read that was made has what is stored, a write    *)
(* what is to be stored.  With that every step is one of a disk, or none.   *)
(*                                                                          *)
(* A command transfers the sectors of its page up to the first hole only,   *)
(* so the bytes are followed in that FirstRun of what the map says of the   *)
(* page.  The theorems ask that no number of a page with data is refused by *)
(* the map (NoneRefused).                                                   *)
(***************************************************************************)
EXTENDS DataPath, FlashProofs

\* The chip executes a write of the host.
HostWrites(c) == chipState[c] = "PROGRAM" /\ inflight[c] = c

\* Where a sub-request is between the request's thread and subRequest_End.
Kinds == {"read list", "write list", "reading", "written", "ending"}
At(s, k, c) ==
  \/ k = "read list"  /\ Contains(rList[c], s)
  \/ k = "write list" /\ Contains(wList[c], s)
  \/ k = "reading"    /\ reading[c].sub = s
  \/ k = "written"    /\ HostWrites(c) /\ Main(cmd[c].lpn) = s
  \/ k = "ending"     /\ ending[c] = s

OnePlace ==
  \A s \in Subs : \A k \in Kinds, c \in Chips : \A l \in Kinds, d \in Chips :
    At(s, k, c) /\ At(s, l, d) => k = l /\ c = d
NotTwice == \A c \in Chips : IsInjective(rList[c]) /\ IsInjective(wList[c])

\* A sub-request that is anywhere belongs to the request, and goes its way.
MainsPlace ==
  \A lpn \in HostLPNs, k \in Kinds, c \in Chips : At(Main(lpn), k, c) =>
    /\ lpn \in restSubreqs
    /\ \/ /\ request.op = "WRITE" /\ hostPc \in {"add reads", "wait", "fault"}
          /\ k \in {"write list", "written", "ending"}
       \/ /\ request.op = "READ" /\ hostPc = "wait"
          /\ k \in {"read list", "reading", "ending"}
RMWsPlace ==
  \A lpn \in HostLPNs, k \in Kinds, c \in Chips : At(RMW(lpn), k, c) =>
    /\ lpn \in Waiting /\ request.op = "WRITE" /\ hostPc = "wait"
    /\ k \in {"read list", "reading", "ending"}

\* A write that waits for its read has not been taken from its list.
WaitsInList ==
  request.op = "WRITE" /\ hostPc # "add writes" =>
    \A lpn \in Waiting : \E c \in Chips : At(Main(lpn), "write list", c)

\* The write is still to be sent.
Unsent(lpn) ==
  /\ lpn \in restSubreqs /\ request.op = "WRITE"
  /\ hostPc = "add writes" \/ \E c \in Chips : At(Main(lpn), "write list", c)
CoversStored ==
  \A lpn \in HostLPNs : Unsent(lpn) =>
    /\ sub[Main(lpn)].bitMap # {}
    /\ map[lpn].subPage \subseteq
         sub[Main(lpn)].bitMap \cup
           (IF sub[Main(lpn)].waits THEN sub[RMW(lpn)].bitMap ELSE {})

RequestOK ==
  /\ hostPc = "idle" => restSubreqs = {} /\ request = NoRequest
  /\ hostPc = "add writes" => request.op = "WRITE"
  /\ hostPc # "idle" => request \in Requests

DInv ==
  /\ DataTypeOK /\ OnePlace /\ NotTwice /\ MainsPlace /\ RMWsPlace
  /\ WaitsInList /\ CoversStored /\ RequestOK

-----------------------------------------------------------------------------
(* Names and sectors.                                                      *)

LEMMA SubNames ==
  /\ \A s \in Subs : /\ s # NoSub
                     /\ \E lpn \in HostLPNs : s = Main(lpn) \/ s = RMW(lpn)
  /\ NoSub \notin Subs /\ NoSub[1] = "none"
  /\ \A lpn \in HostLPNs : Main(lpn) \in Subs /\ RMW(lpn) \in Subs
  /\ \A lpn : /\ Main(lpn)[1] = "main" /\ RMW(lpn)[1] = "rmw"
              /\ Main(lpn)[2] = lpn /\ RMW(lpn)[2] = lpn
  /\ \A l, m : /\ Main(l) # RMW(m)
               /\ Main(l) = Main(m) => l = m
               /\ RMW(l) = RMW(m) => l = m
<1>1. \A lpn : /\ Main(lpn)[1] = "main" /\ RMW(lpn)[1] = "rmw"
               /\ Main(lpn)[2] = lpn /\ RMW(lpn)[2] = lpn
  BY DEF Main, RMW
<1>2. NoSub[1] = "none"
  BY DEF NoSub
<1>3. \A s \in Subs : \E lpn \in HostLPNs : s = Main(lpn) \/ s = RMW(lpn)
  BY DEF Subs
<1>4. \A lpn \in HostLPNs : Main(lpn) \in Subs /\ RMW(lpn) \in Subs
  BY DEF Subs
<1>5. \A s \in Subs : s # NoSub
  BY <1>1, <1>2, <1>3
<1>6. \A l, m : /\ Main(l) # RMW(m)
                /\ Main(l) = Main(m) => l = m
                /\ RMW(l) = RMW(m) => l = m
  BY <1>1
<1> QED BY <1>1, <1>2, <1>3, <1>4, <1>5, <1>6

SubOf == [bitMap : SUBSET SubPages, buf : Buffers, location : Locations, waits : BOOLEAN]

LEMMA FreeValues ==
  /\ FreeSub \in SubOf /\ FreeSub.buf \in Buffers /\ ~FreeSub.waits
  /\ \A lpn \in HostLPNs : <<allocate_location_for_plane(lpn), 0, 0>> \in Locations
  /\ HostLPNs \subseteq 0..mapSize-1 /\ mapSize \in Nat
<1>1. [i \in SubPages |-> Junk] \in Buffers
  BY DEF Buffers, Values, Junk
<1>2. NoLocation \in Locations
  BY FirstValues
<1>3. FreeSub \in SubOf /\ FreeSub.buf \in Buffers /\ ~FreeSub.waits
  BY <1>1, <1>2 DEF FreeSub, SubOf
<1>4. ASSUME NEW lpn \in HostLPNs PROVE <<allocate_location_for_plane(lpn), 0, 0>> \in Locations
  <2>1. allocate_location_for_plane(lpn) \in Planes
    BY FlashAssumption, PageNumbers, PlaneOfLPN
  <2> QED BY <2>1, FirstValues DEF Locations
<1>5. HostLPNs \subseteq 0..mapSize-1 /\ mapSize \in Nat
  BY FlashAssumption, PageNumbers DEF LPNs
<1> QED BY <1>3, <1>4, <1>5

LEMMA Overlaid ==
  ASSUME NEW old \in Buffers, NEW new \in Buffers, NEW bitMap
  PROVE  Overlay(old, new, bitMap) \in Buffers
  BY DEF Overlay, Buffers

\* The list add_subReqs_to_chip hangs on a chip: what it should, each once.
LEMMA OfChipContains ==
  ASSUME NEW kind \in {"main", "rmw"}, NEW lpns \in SUBSET HostLPNs, NEW c
  PROVE  /\ OfChip(kind, lpns, c) \in Seq(Subs) /\ IsInjective(OfChip(kind, lpns, c))
         /\ \A e : Contains(OfChip(kind, lpns, c), e) <=>
              \E lpn \in lpns : e = <<kind, lpn>> /\ ChipOf(sub[e].location[1]) = c
<1> DEFINE items == [n \in 1..mapSize |-> <<kind, n-1>>]
           mine == {lpn \in lpns : ChipOf(sub[<<kind, lpn>>].location[1]) = c}
           wanted == {<<kind, lpn>> : lpn \in mine}
<1>1. mapSize \in Nat /\ lpns \subseteq 0..mapSize-1
  BY FreeValues
<1>2. /\ items \in Seq({kind} \X Int) /\ IsInjective(items)
      /\ \A e : Contains(items, e) <=> \E n \in 1..mapSize : e = <<kind, n-1>>
  <2>1. items \in [1..mapSize -> {kind} \X Int]
    BY <1>1
  <2>2. items \in Seq({kind} \X Int) /\ Len(items) = mapSize
    BY <1>1, <2>1, SeqDef, LenProperties
  <2>3. DOMAIN items = 1..mapSize /\ \A n \in 1..mapSize : items[n] = <<kind, n-1>>
    OBVIOUS
  <2>4. \A n, m \in 1..mapSize : <<kind, n-1>> = <<kind, m-1>> => n = m
    BY <1>1
  <2> HIDE DEF items
  <2> QED BY <2>2, <2>3, <2>4 DEF IsInjective, Contains
<1>3. wanted \in SUBSET Subs
  BY DEF Subs, Main, RMW
<1>4. OfChip(kind, lpns, c) = Picked(items, wanted)
  BY DEF OfChip
<1>5. \A e : e \in wanted <=>
        \E lpn \in lpns : e = <<kind, lpn>> /\ ChipOf(sub[e].location[1]) = c
  OBVIOUS
<1>6. \A e : e \in wanted => \E n \in 1..mapSize : e = <<kind, n-1>>
  <2> SUFFICES ASSUME NEW lpn \in lpns PROVE \E n \in 1..mapSize : <<kind, lpn>> = <<kind, n-1>>
    OBVIOUS
  <2>1. lpn+1 \in 1..mapSize /\ lpn = (lpn+1)-1
    BY <1>1
  <2> QED BY <2>1
<1> HIDE DEF items, wanted, mine
<1>7. /\ Picked(items, wanted) \in Seq(Subs) /\ IsInjective(Picked(items, wanted))
      /\ \A e : Contains(Picked(items, wanted), e) <=> Contains(items, e) /\ e \in wanted
  BY <1>2, <1>3, PickedContains
<1> QED BY <1>2, <1>4, <1>5, <1>6, <1>7

-----------------------------------------------------------------------------
(* Every step of the sectors is a step of the tables.                      *)

\* The next write of a chip is of a page of the request, and covers what is stored.
LEMMA NextWrite ==
  ASSUME DInv, NEW c \in Chips, NEW i \in DOMAIN wList[c], ~sub[wList[c][i]].waits
  PROVE  \E lpn \in HostLPNs :
           /\ wList[c][i] = Main(lpn) /\ wList[c][i][2] = lpn
           /\ At(Main(lpn), "write list", c)
           /\ sub[Main(lpn)].bitMap \in SUBSET SubPages /\ sub[Main(lpn)].bitMap # {}
           /\ map[lpn].subPage \subseteq sub[Main(lpn)].bitMap
<1> DEFINE s == wList[c][i]
<1>1. wList[c] \in Seq(Subs) /\ sub \in [Subs -> SubOf]
  BY DEF DInv, DataTypeOK, SubOf
<1>2. s \in Subs /\ Contains(wList[c], s)
  BY <1>1 DEF Contains
<1>3. At(s, "write list", c)
  BY <1>2 DEF At
<1>4. "write list" \in Kinds
  BY DEF Kinds
<1> HIDE DEF s
<1>5. PICK lpn \in HostLPNs : s = Main(lpn)
  <2>1. PICK lpn \in HostLPNs : s = Main(lpn) \/ s = RMW(lpn)
    BY <1>2, SubNames
  <2>2. s # RMW(lpn)
    BY <1>3, <1>4 DEF DInv, RMWsPlace
  <2> QED BY <2>1, <2>2
<1>6. lpn \in restSubreqs /\ request.op = "WRITE"
  BY <1>3, <1>4, <1>5 DEF DInv, MainsPlace
<1>7. Unsent(lpn)
  BY <1>3, <1>5, <1>6 DEF Unsent
<1>8. ~sub[Main(lpn)].waits
  BY <1>5 DEF s
<1>9. sub[Main(lpn)].bitMap # {} /\ map[lpn].subPage \subseteq sub[Main(lpn)].bitMap
  BY <1>7, <1>8 DEF DInv, CoversStored
<1>10. sub[Main(lpn)].bitMap \in SUBSET SubPages
  BY <1>1, <1>2, <1>5 DEF SubOf
<1>11. s[2] = lpn
  BY <1>5, SubNames
<1> QED BY <1>3, <1>5, <1>9, <1>10, <1>11 DEF s

LEMMA DataStepIsFlashStep ==
  ASSUME DInv, [DataNext]_allVars
  PROVE  [Next]_vars
<1>1. CASE UNCHANGED allVars
  BY <1>1 DEF allVars, flashVars
<1>2. CASE HostSubmit \/ HostAddWrites \/ HostAddReads \/ HostFaults
  BY <1>2 DEF HostSubmit, HostAddWrites, HostAddReads, HostFaults, flashVars
<1>3. ASSUME NEW c \in Chips,
             \/ DispatchRead(c) \/ DispatchReadTransfer(c) \/ ReadAddressed(c)
             \/ ReadTransferred(c) \/ EndRMW(c) \/ EndMain(c)
      PROVE  UNCHANGED vars
  BY <1>3 DEF DispatchRead, DispatchReadTransfer, ReadAddressed, ReadTransferred, EndRMW,
              EndMain, flashVars
<1>4. ASSUME NEW c \in Chips, DispatchWrite(c)
      PROVE  Next
  <2>1. PICK i \in DOMAIN wList[c] :
          /\ ~sub[wList[c][i]].waits
          /\ SendHostWrite(c, wList[c][i][2], sub[wList[c][i]].bitMap)
    BY <1>4 DEF DispatchWrite, IsNextWrite
  <2>2. PICK lpn \in HostLPNs :
          /\ wList[c][i] = Main(lpn) /\ wList[c][i][2] = lpn
          /\ sub[Main(lpn)].bitMap \in SUBSET SubPages /\ sub[Main(lpn)].bitMap # {}
          /\ map[lpn].subPage \subseteq sub[Main(lpn)].bitMap
    BY <2>1, NextWrite
  <2>3. DispatchHostWrite(c)
    BY <2>1, <2>2 DEF DispatchHostWrite
  <2> QED BY <1>4, <2>3 DEF DispatchWrite, Free, Stopped, Dispatch, Next
<1>5. ASSUME NEW c \in Chips,
             CopyReadData(c) \/ CopyWrite(c) \/ CopyReadPage(c) \/ EraseBlock(c)
      PROVE  Next
  BY <1>5 DEF CopyReadData, CopyWrite, CopyReadPage, EraseBlock, Free, Stopped, Dispatch,
              DispatchPending, Next
<1>6. ASSUME NEW c \in Chips, CompleteCommand(c) \/ Collect(c)
      PROVE  Next
  BY <1>6 DEF CompleteCommand, Collect, MayComplete, Stopped, Next
<1> QED BY <1>1, <1>2, <1>3, <1>4, <1>5, <1>6 DEF DataNext

-----------------------------------------------------------------------------
(* Where the sub-requests are.                                             *)

Placed ==
  OnePlace /\ MainsPlace /\ RMWsPlace /\ WaitsInList /\ CoversStored /\ RequestOK

Way(k, l) ==
  \/ k = "read list"  /\ l = "reading"
  \/ k = "reading"    /\ l = "ending"
  \/ k = "write list" /\ l = "written"
  \/ k = "written"    /\ l = "ending"

\* The request, and what its sub-requests want and wait for.
RequestKept ==
  /\ UNCHANGED <<restSubreqs, request, hostPc>>
  /\ \A s \in Subs : sub'[s].bitMap = sub[s].bitMap /\ sub'[s].waits = sub[s].waits

LEMMA WaitingKept ==
  ASSUME DInv, RequestKept
  PROVE  Waiting' = Waiting
<1>1. \A lpn \in restSubreqs : Main(lpn) \in Subs
  BY SubNames DEF DInv, DataTypeOK
<1> QED BY <1>1 DEF Waiting, RequestKept

\* One sub-request goes one step on its way.
LEMMA MoveKeeps ==
  ASSUME DInv, RequestKept,
         NEW s \in Subs, NEW c \in Chips, NEW k \in Kinds, NEW l \in Kinds,
         At(s, k, c), Way(k, l), k = "write list" => ~sub[s].waits,
         \A t \in Subs, m \in Kinds, d \in Chips :
           At(t, m, d)' <=> IF t = s THEN m = l /\ d = c ELSE At(t, m, d),
         \A lpn \in HostLPNs : map'[lpn].subPage = map[lpn].subPage
                                 \/ (k = "written" /\ s = Main(lpn))
  PROVE  Placed'
<1>1. Waiting' = Waiting /\ restSubreqs' = restSubreqs /\ request' = request /\ hostPc' = hostPc
  BY WaitingKept DEF RequestKept
<1>2. \A lpn \in HostLPNs : Main(lpn) \in Subs /\ RMW(lpn) \in Subs
  BY SubNames
<1>3. "write list" \in Kinds /\ l # "write list"
  BY DEF Kinds, Way
<1>4. /\ OnePlace /\ MainsPlace /\ RMWsPlace /\ WaitsInList /\ CoversStored /\ RequestOK
      /\ restSubreqs \subseteq HostLPNs
  BY DEF DInv, DataTypeOK
<1>5. OnePlace'
  <2>1. ASSUME NEW t \in Subs, NEW m1 \in Kinds, NEW d1 \in Chips,
               NEW m2 \in Kinds, NEW d2 \in Chips, At(t, m1, d1)', At(t, m2, d2)'
        PROVE  m1 = m2 /\ d1 = d2
    <3>1. CASE t = s
      BY <2>1, <3>1
    <3>2. CASE t # s
      <4>1. At(t, m1, d1) /\ At(t, m2, d2)
        BY <2>1, <3>2
      <4> QED BY <1>4, <4>1 DEF OnePlace
    <3> QED BY <3>1, <3>2
  <2> QED BY <2>1 DEF OnePlace
<1>6. MainsPlace'
  <2>1. ASSUME NEW lpn \in HostLPNs, NEW m \in Kinds, NEW d \in Chips, At(Main(lpn), m, d)'
        PROVE  /\ lpn \in restSubreqs
               /\ \/ /\ request.op = "WRITE" /\ hostPc \in {"add reads", "wait", "fault"}
                     /\ m \in {"write list", "written", "ending"}
                  \/ /\ request.op = "READ" /\ hostPc = "wait"
                     /\ m \in {"read list", "reading", "ending"}
    <3>1. CASE Main(lpn) = s
      <4>1. m = l /\ At(Main(lpn), k, c)
        BY <1>2, <2>1, <3>1
      <4>2. /\ lpn \in restSubreqs
            /\ \/ /\ request.op = "WRITE" /\ hostPc \in {"add reads", "wait", "fault"}
                  /\ k \in {"write list", "written", "ending"}
               \/ /\ request.op = "READ" /\ hostPc = "wait"
                  /\ k \in {"read list", "reading", "ending"}
        BY <1>4, <4>1 DEF MainsPlace
      <4> QED BY <4>1, <4>2 DEF Way
    <3>2. CASE Main(lpn) # s
      <4>1. At(Main(lpn), m, d)
        BY <1>2, <2>1, <3>2
      <4> QED BY <1>4, <4>1 DEF MainsPlace
    <3> QED BY <3>1, <3>2
  <2> QED BY <1>1, <2>1 DEF MainsPlace
<1>7. RMWsPlace'
  <2>1. ASSUME NEW lpn \in HostLPNs, NEW m \in Kinds, NEW d \in Chips, At(RMW(lpn), m, d)'
        PROVE  /\ lpn \in Waiting /\ request.op = "WRITE" /\ hostPc = "wait"
               /\ m \in {"read list", "reading", "ending"}
    <3>1. CASE RMW(lpn) = s
      <4>1. m = l /\ At(RMW(lpn), k, c)
        BY <1>2, <2>1, <3>1
      <4>2. /\ lpn \in Waiting /\ request.op = "WRITE" /\ hostPc = "wait"
            /\ k \in {"read list", "reading", "ending"}
        BY <1>4, <4>1 DEF RMWsPlace
      <4> QED BY <4>1, <4>2 DEF Way
    <3>2. CASE RMW(lpn) # s
      <4>1. At(RMW(lpn), m, d)
        BY <1>2, <2>1, <3>2
      <4> QED BY <1>4, <4>1 DEF RMWsPlace
    <3> QED BY <3>1, <3>2
  <2> QED BY <1>1, <2>1 DEF RMWsPlace
<1>8. WaitsInList'
  <2>1. ASSUME request.op = "WRITE", hostPc # "add writes", NEW lpn \in Waiting
        PROVE  \E d \in Chips : At(Main(lpn), "write list", d)'
    <3>1. PICK d \in Chips : At(Main(lpn), "write list", d)
      BY <1>4, <2>1 DEF WaitsInList
    <3>2. lpn \in HostLPNs /\ sub[Main(lpn)].waits
      BY <1>4 DEF Waiting
    <3>3. Main(lpn) # s
      <4> SUFFICES ASSUME Main(lpn) = s PROVE FALSE
        OBVIOUS
      <4>1. At(s, "write list", d)
        BY <3>1
      <4>2. k = "write list"
        BY <1>3, <1>4, <4>1 DEF OnePlace
      <4> QED BY <3>2, <4>2
    <3> QED BY <1>2, <1>3, <3>1, <3>2, <3>3
  <2> QED BY <1>1, <2>1 DEF WaitsInList
<1>9. CoversStored'
  <2>1. ASSUME NEW lpn \in HostLPNs, Unsent(lpn)'
        PROVE  Unsent(lpn) /\ map'[lpn].subPage = map[lpn].subPage
    <3>1. /\ lpn \in restSubreqs /\ request.op = "WRITE"
          /\ hostPc = "add writes" \/ \E d \in Chips : At(Main(lpn), "write list", d)'
      BY <1>1, <2>1 DEF Unsent
    <3>2. ASSUME NEW d \in Chips, At(Main(lpn), "write list", d)'
          PROVE  Main(lpn) # s /\ At(Main(lpn), "write list", d)
      BY <1>2, <1>3, <3>2
    <3>3. Unsent(lpn)
      BY <3>1, <3>2 DEF Unsent
    <3>4. ~(k = "written" /\ s = Main(lpn))
      <4>1. CASE hostPc = "add writes"
        BY <1>4, <4>1 DEF MainsPlace
      <4>2. CASE hostPc # "add writes"
        BY <3>1, <3>2, <4>2
      <4> QED BY <4>1, <4>2
    <3> QED BY <3>3, <3>4
  <2> QED BY <1>2, <1>4, <2>1 DEF CoversStored, RequestKept
<1>10. RequestOK'
  BY <1>1, <1>4 DEF RequestOK
<1> QED BY <1>5, <1>6, <1>7, <1>8, <1>9, <1>10 DEF Placed

\* None of them moves.
LEMMA StayKeeps ==
  ASSUME DInv, RequestKept,
         \A t \in Subs, m \in Kinds, d \in Chips : At(t, m, d)' <=> At(t, m, d),
         \A lpn \in HostLPNs : map'[lpn].subPage = map[lpn].subPage
  PROVE  Placed'
<1>1. Waiting' = Waiting /\ restSubreqs' = restSubreqs /\ request' = request /\ hostPc' = hostPc
  BY WaitingKept DEF RequestKept
<1>2. \A lpn \in HostLPNs : Main(lpn) \in Subs /\ RMW(lpn) \in Subs
  BY SubNames
<1>3. /\ OnePlace /\ MainsPlace /\ RMWsPlace /\ WaitsInList /\ CoversStored /\ RequestOK
      /\ restSubreqs \subseteq HostLPNs /\ Waiting \subseteq restSubreqs
      /\ "write list" \in Kinds
  <2>1. "write list" \in Kinds
    BY DEF Kinds
  <2>2. restSubreqs \subseteq HostLPNs
    BY DEF DInv, DataTypeOK
  <2>3. Waiting \subseteq restSubreqs
    BY DEF Waiting
  <2> QED BY <2>1, <2>2, <2>3 DEF DInv
<1>4. OnePlace'
  <2>1. ASSUME NEW t \in Subs, NEW m1 \in Kinds, NEW d1 \in Chips,
               NEW m2 \in Kinds, NEW d2 \in Chips, At(t, m1, d1)', At(t, m2, d2)'
        PROVE  m1 = m2 /\ d1 = d2
    <3>1. At(t, m1, d1) /\ At(t, m2, d2)
      BY <2>1
    <3> QED BY <1>3, <3>1 DEF OnePlace
  <2> QED BY <2>1 DEF OnePlace
<1>5. MainsPlace'
  <2>1. ASSUME NEW lpn \in HostLPNs, NEW m \in Kinds, NEW d \in Chips, At(Main(lpn), m, d)'
        PROVE  At(Main(lpn), m, d)
    BY <1>2, <2>1
  <2> QED BY <1>1, <1>3, <2>1 DEF MainsPlace
<1>6. RMWsPlace'
  <2>1. ASSUME NEW lpn \in HostLPNs, NEW m \in Kinds, NEW d \in Chips, At(RMW(lpn), m, d)'
        PROVE  At(RMW(lpn), m, d)
    BY <1>2, <2>1
  <2> QED BY <1>1, <1>3, <2>1 DEF RMWsPlace
<1>7. WaitsInList'
  BY <1>1, <1>2, <1>3 DEF WaitsInList
<1>8. CoversStored'
  <2>1. ASSUME NEW lpn \in HostLPNs, Unsent(lpn)'
        PROVE  Unsent(lpn)
    BY <1>1, <1>2, <1>3, <2>1 DEF Unsent
  <2> QED BY <1>2, <1>3, <2>1 DEF CoversStored, RequestKept
<1>9. RequestOK'
  BY <1>1, <1>3 DEF RequestOK
<1> QED BY <1>4, <1>5, <1>6, <1>7, <1>8, <1>9 DEF Placed

-----------------------------------------------------------------------------
(* Shapes.                                                                 *)

Stages == {"addr", "register", "data"}
ReadOf == [sub : Subs, stage : Stages]

BytesOK == stored \in [Locations -> Buffers] /\ copyBuf \in [Planes -> Buffers]
HostOK ==
  /\ request \in Requests \cup {NoRequest}
  /\ restSubreqs \subseteq HostLPNs /\ marked \in BOOLEAN
  /\ hostPc \in {"idle", "add writes", "add reads", "wait", "fault"}
SubsOK == sub \in [Subs -> SubOf]
ListsOK == rList \in [Chips -> Seq(Subs)] /\ wList \in [Chips -> Seq(Subs)]
ChipsOK ==
  /\ reading \in [Chips -> ReadOf \cup {NotReading}]
  /\ ending \in [Chips -> Subs \cup {NoSub}]

LEMMA DataTypeParts ==
  /\ DataTypeOK <=> BytesOK /\ HostOK /\ SubsOK /\ ListsOK /\ ChipsOK
  /\ DataTypeOK' <=> BytesOK' /\ HostOK' /\ SubsOK' /\ ListsOK' /\ ChipsOK'
<1>1. DataTypeOK <=> BytesOK /\ HostOK /\ SubsOK /\ ListsOK /\ ChipsOK
  BY DEF DataTypeOK, BytesOK, HostOK, SubsOK, ListsOK, ChipsOK, SubOf, ReadOf, Stages
<1>2. DataTypeOK' <=> BytesOK' /\ HostOK' /\ SubsOK' /\ ListsOK' /\ ChipsOK'
  BY DEF DataTypeOK, BytesOK, HostOK, SubsOK, ListsOK, ChipsOK, SubOf, ReadOf, Stages
<1> QED BY <1>1, <1>2

LEMMA PartsOfDInv ==
  ASSUME DInv
  PROVE  /\ BytesOK /\ HostOK /\ SubsOK /\ ListsOK /\ ChipsOK
         /\ OnePlace /\ NotTwice /\ MainsPlace /\ RMWsPlace
         /\ WaitsInList /\ CoversStored /\ RequestOK
  BY DataTypeParts DEF DInv

LEMMA DInvOfParts ==
  ASSUME BytesOK', HostOK', SubsOK', ListsOK', ChipsOK', NotTwice', Placed'
  PROVE  DInv'
  BY DataTypeParts DEF DInv, Placed

LEMMA UnchangedParts ==
  /\ UNCHANGED <<stored, copyBuf>> /\ BytesOK => BytesOK'
  /\ UNCHANGED hostVars /\ HostOK => HostOK'
  /\ UNCHANGED sub /\ SubsOK => SubsOK'
  /\ UNCHANGED <<rList, wList>> /\ ListsOK /\ NotTwice => ListsOK' /\ NotTwice'
  /\ UNCHANGED <<reading, ending>> /\ ChipsOK => ChipsOK'
<1>1. UNCHANGED <<stored, copyBuf>> /\ BytesOK => BytesOK'
  BY DEF BytesOK
<1>2. UNCHANGED hostVars /\ HostOK => HostOK'
  BY DEF HostOK, hostVars
<1>3. UNCHANGED sub /\ SubsOK => SubsOK'
  BY DEF SubsOK
<1>4. UNCHANGED <<rList, wList>> /\ ListsOK /\ NotTwice => ListsOK' /\ NotTwice'
  BY DEF ListsOK, NotTwice
<1>5. UNCHANGED <<reading, ending>> /\ ChipsOK => ChipsOK'
  BY DEF ChipsOK
<1> QED BY <1>1, <1>2, <1>3, <1>4, <1>5

LEMMA StageSet ==
  ASSUME NEW r \in ReadOf, NEW stage \in Stages
  PROVE  /\ [r EXCEPT !.stage = stage] \in ReadOf
         /\ [r EXCEPT !.stage = stage].sub = r.sub
  BY DEF ReadOf

LEMMA BufferSet ==
  ASSUME NEW r \in SubOf, NEW buf \in Buffers
  PROVE  /\ [r EXCEPT !.buf = buf] \in SubOf
         /\ [r EXCEPT !.buf = buf].bitMap = r.bitMap
         /\ [r EXCEPT !.buf = buf].waits = r.waits
  BY DEF SubOf

LEMMA ProgramKeepsBytes ==
  ASSUME BytesOK, UNCHANGED copyBuf, NEW location, NEW buf \in Buffers, NEW bitMap,
         Program(location, buf, bitMap)
  PROVE  BytesOK'
<1>1. stored' = [stored EXCEPT ![location] = Overlay(stored[location], buf, FirstRun(bitMap))]
  BY DEF Program
<1>2. ASSUME location \in Locations
      PROVE  Overlay(stored[location], buf, FirstRun(bitMap)) \in Buffers
  BY <1>2, Overlaid DEF BytesOK
<1> QED BY <1>1, <1>2 DEF BytesOK

LEMMA CopiesKept ==
  ASSUME BytesOK, UNCHANGED stored, NEW p, NEW buf, p \in Planes => buf \in Buffers,
         copyBuf' = [copyBuf EXCEPT ![p] = buf]
  PROVE  BytesOK'
  BY DEF BytesOK

-----------------------------------------------------------------------------
(* The steps that move no sub-request.                                     *)

\* What else is to be dispatched is no write of the host.
LEMMA StillWrites ==
  ASSUME QueuesOK, NEW c \in Chips, NEW state, NEW x, chipState[c] = "IDLE",
         Busy(c, state, x), state # "PROGRAM" \/ x # c
  PROVE  \A d \in Chips : HostWrites(d)' <=> HostWrites(d)
<1>1. \A d \in Chips : d # c => chipState'[d] = chipState[d] /\ inflight'[d] = inflight[d]
  BY DEF Busy, QueuesOK
<1>2. chipState'[c] = state /\ inflight'[c] = x
  BY DEF Busy, QueuesOK
<1> QED BY <1>1, <1>2 DEF HostWrites

LEMMA PendingKeepsWrites ==
  ASSUME IInv, ~spinning, NEW c \in Chips, chipState[c] = "IDLE", DispatchPending(c)
  PROVE  /\ map' = map
         /\ \A d \in Chips : HostWrites(d)' <=> HostWrites(d)
         /\ \A d \in Chips : cmd'[d] = cmd[d]
<1>1. QueuesOK /\ \A d \in Chips : d \in CommandIDs /\ d \notin Planes
  BY TypeParts, ChipsAndPlanes DEF IInv, CommandIDs
<1>2. CASE DispatchReadData(c)
  BY <1>1, <1>2, StillWrites DEF DispatchReadData, tables
<1>3. CASE DispatchCopyWrite(c)
  <2>1. PICK p \in Planes : StartsProgram(c, p, p)
    BY <1>3, CopyWriteStarts DEF PlanesOf
  <2>2. map' = map /\ Busy(c, "PROGRAM", p) /\ \A y \in CommandIDs : y # p => cmd'[y] = cmd[y]
    BY <2>1 DEF StartsProgram
  <2>3. p # c
    BY <1>1
  <2> QED BY <1>1, <2>2, <2>3, StillWrites
<1>4. CASE DispatchCopyRead(c)
  <2>1. PICK p \in Planes :
          /\ Busy(c, "READ_ADDR", p) /\ UNCHANGED tables
          /\ \A y \in CommandIDs : y # p => cmd'[y] = cmd[y]
    BY <1>4, CopyReadStarts DEF PlanesOf
  <2> QED BY <1>1, <2>1, StillWrites DEF tables
<1>5. CASE DispatchErase(c)
  <2>1. PICK p \in Planes :
          Busy(c, "ERASE", p) /\ UNCHANGED tables /\ cmd' = [cmd EXCEPT ![p] = NoCommand]
    BY <1>5, CollectedOnChip DEF DispatchErase, PlanesOf
  <2>2. \A d \in Chips : cmd'[d] = cmd[d]
    BY <1>1, <2>1 DEF QueuesOK
  <2> QED BY <1>1, <2>1, <2>2, StillWrites DEF tables
<1> QED BY <1>2, <1>3, <1>4, <1>5 DEF DispatchPending

\* The lists and stages stay as they are, and so do the writes of the host.
LEMMA NothingMoves ==
  ASSUME UNCHANGED <<rList, wList>>,
         \A d \in Chips : reading'[d].sub = reading[d].sub /\ ending'[d] = ending[d],
         \A d \in Chips : HostWrites(d)' <=> HostWrites(d),
         \A d \in Chips : HostWrites(d) => cmd'[d].lpn = cmd[d].lpn
  PROVE  \A t \in Subs, m \in Kinds, d \in Chips : At(t, m, d)' <=> At(t, m, d)
<1> SUFFICES ASSUME NEW t \in Subs, NEW m \in Kinds, NEW d \in Chips
             PROVE  At(t, m, d)' <=> At(t, m, d)
  OBVIOUS
<1>1. At(t, m, d)' <=> \/ m = "read list"  /\ Contains(rList'[d], t)
                       \/ m = "write list" /\ Contains(wList'[d], t)
                       \/ m = "reading"    /\ reading'[d].sub = t
                       \/ m = "written"    /\ HostWrites(d)' /\ Main(cmd'[d].lpn) = t
                       \/ m = "ending"     /\ ending'[d] = t
  BY DEF At
<1> QED BY <1>1 DEF At

LEMMA SubsKept ==
  ASSUME UNCHANGED <<hostVars, sub>>
  PROVE  RequestKept
  BY DEF RequestKept, hostVars

LEMMA CopyStepsKeepDInv ==
  ASSUME IInv, DInv, NEW c \in Chips,
         CopyReadData(c) \/ CopyWrite(c) \/ CopyReadPage(c) \/ EraseBlock(c) \/ Collect(c)
  PROVE  DInv'
<1>1. /\ BytesOK /\ HostOK /\ SubsOK /\ ListsOK /\ ChipsOK /\ NotTwice
  BY PartsOfDInv
<1>2. UNCHANGED <<hostVars, sub>> /\ UNCHANGED <<rList, wList>> /\ UNCHANGED <<reading, ending>>
  BY DEF CopyReadData, CopyWrite, CopyReadPage, EraseBlock, Collect, dataVars
<1>3. /\ map' = map
      /\ \A d \in Chips : HostWrites(d)' <=> HostWrites(d)
      /\ \A d \in Chips : cmd'[d] = cmd[d]
  <2>1. CASE Collect(c)
    BY <2>1 DEF Collect, check_and_create_gc, tables, HostWrites
  <2>2. CASE ~Collect(c)
    <3>1. ~spinning /\ chipState[c] = "IDLE" /\ DispatchPending(c)
      BY <2>2 DEF CopyReadData, CopyWrite, CopyReadPage, EraseBlock, Free, Stopped,
                  DispatchPending
    <3> QED BY <3>1, PendingKeepsWrites
  <2> QED BY <2>1, <2>2
<1>4. Placed'
  <2>1. \A t \in Subs, m \in Kinds, d \in Chips : At(t, m, d)' <=> At(t, m, d)
    BY <1>2, <1>3, NothingMoves
  <2>2. RequestKept
    BY <1>2, SubsKept
  <2> QED BY <1>3, <2>1, <2>2, StayKeeps
<1>5. BytesOK'
  <2>1. CASE CopyReadData(c)
    <3> DEFINE p == Head(incompletedR[c])
               buf == Overlay(copyBuf[p], stored[cmd[p].location], FirstRun(cmd[p].bitMap))
    <3>1. UNCHANGED stored /\ copyBuf' = [copyBuf EXCEPT ![p] = buf]
      BY <2>1 DEF CopyReadData
    <3>2. p \in CommandIDs /\ cmd[p].location \in Locations
      <4>1. QueuesOK /\ incompletedR[c] # <<>>
        BY <2>1, TypeParts DEF IInv, CopyReadData, DispatchReadData
      <4>2. p \in CommandIDs
        BY <4>1 DEF QueuesOK
      <4>3. cmd[p] \in CommandOf
        BY <4>1, <4>2 DEF QueuesOK
      <4> QED BY <4>2, <4>3 DEF CommandOf
    <3>3. p \in Planes => buf \in Buffers
      BY <1>1, <3>2, Overlaid DEF BytesOK
    <3> HIDE DEF p, buf
    <3> QED BY <1>1, <3>1, <3>3, CopiesKept
  <2>2. CASE CopyWrite(c)
    <3>1. Collected(c) \in Planes
      BY <2>2, CollectedOnChip DEF CopyWrite, DispatchCopyWrite, PlanesOf
    <3>2. copyBuf[Collected(c)] \in Buffers
      BY <1>1, <3>1 DEF BytesOK
    <3>3. /\ Program(Frontier(Collected(c)), copyBuf[Collected(c)], cmd[Collected(c)].bitMap)
          /\ UNCHANGED copyBuf
      BY <2>2 DEF CopyWrite
    <3> QED BY <1>1, <3>2, <3>3, ProgramKeepsBytes
  <2>3. CASE CopyReadPage(c) \/ Collect(c)
    <3>1. UNCHANGED <<stored, copyBuf>>
      BY <2>3 DEF CopyReadPage, Collect, dataVars
    <3> QED BY <1>1, <3>1, UnchangedParts
  <2>4. CASE EraseBlock(c)
    <3>1. UNCHANGED stored /\ copyBuf' = [copyBuf EXCEPT ![Collected(c)] = FreeSub.buf]
      BY <2>4 DEF EraseBlock
    <3> QED BY <1>1, <3>1, FreeValues, CopiesKept
  <2> QED BY <2>1, <2>2, <2>3, <2>4
<1> QED BY <1>1, <1>2, <1>4, <1>5, UnchangedParts, DInvOfParts

LEMMA ReadAddressedKeepsDInv ==
  ASSUME DInv, NEW c \in Chips, ReadAddressed(c)
  PROVE  DInv'
<1>1. /\ BytesOK /\ HostOK /\ SubsOK /\ ListsOK /\ ChipsOK /\ NotTwice
  BY PartsOfDInv
<1>2. /\ UNCHANGED <<flashVars, stored, copyBuf, hostVars, sub, rList, wList, ending>>
      /\ reading[c].stage = "addr"
      /\ reading' = [reading EXCEPT ![c] = [reading[c] EXCEPT !.stage = "register"]]
  BY DEF ReadAddressed
<1> DEFINE r == [reading[c] EXCEPT !.stage = "register"]
<1>3. r \in ReadOf /\ r.sub = reading[c].sub
  <2>1. NotReading.stage = "none"
    BY DEF NotReading
  <2>2. reading[c] \in ReadOf
    BY <1>1, <1>2, <2>1 DEF ChipsOK
  <2> QED BY <2>2, StageSet DEF Stages
<1>4. reading' = [reading EXCEPT ![c] = r]
  BY <1>2
<1> HIDE DEF r
<1>5. /\ \A d \in Chips : reading'[d].sub = reading[d].sub /\ ending'[d] = ending[d]
      /\ ChipsOK'
  BY <1>1, <1>2, <1>3, <1>4 DEF ChipsOK
<1>6. Placed'
  <2>1. map' = map /\ chipState' = chipState /\ inflight' = inflight /\ cmd' = cmd
    BY <1>2 DEF flashVars, vars, tables
  <2>2. \A d \in Chips : HostWrites(d)' <=> HostWrites(d)
    BY <2>1 DEF HostWrites
  <2>3. UNCHANGED <<rList, wList>> /\ UNCHANGED <<hostVars, sub>>
    BY <1>2
  <2>4. \A t \in Subs, m \in Kinds, d \in Chips : At(t, m, d)' <=> At(t, m, d)
    BY <1>5, <2>1, <2>2, <2>3, NothingMoves
  <2>5. RequestKept
    BY <2>3, SubsKept
  <2> QED BY <2>1, <2>4, <2>5, StayKeeps
<1>7. BytesOK' /\ HostOK' /\ SubsOK' /\ ListsOK' /\ NotTwice'
  BY <1>1, <1>2, UnchangedParts
<1> QED BY <1>5, <1>6, <1>7, DInvOfParts

LEMMA DispatchReadTransferKeepsDInv ==
  ASSUME DInv, NEW c \in Chips, DispatchReadTransfer(c)
  PROVE  DInv'
<1>1. /\ BytesOK /\ HostOK /\ SubsOK /\ ListsOK /\ ChipsOK /\ NotTwice
  BY PartsOfDInv
<1> DEFINE s == reading[c].sub
           r == [reading[c] EXCEPT !.stage = "data"]
           buf == Overlay(sub[s].buf, stored[sub[s].location], FirstRun(sub[s].bitMap))
           t == [sub[s] EXCEPT !.buf = buf]
<1>2. /\ UNCHANGED <<flashVars, stored, copyBuf, hostVars, rList, wList, ending>>
      /\ reading[c].stage = "register"
      /\ reading' = [reading EXCEPT ![c] = r]
      /\ sub' = [sub EXCEPT ![s] = t]
  BY DEF DispatchReadTransfer
<1>3. r \in ReadOf /\ r.sub = s /\ s \in Subs
  <2>1. NotReading.stage = "none"
    BY DEF NotReading
  <2>2. reading[c] \in ReadOf
    BY <1>1, <1>2, <2>1 DEF ChipsOK
  <2>3. s \in Subs
    BY <2>2 DEF ReadOf
  <2> QED BY <2>2, <2>3, StageSet DEF Stages
<1>4. t \in SubOf /\ t.bitMap = sub[s].bitMap /\ t.waits = sub[s].waits
  <2>1. sub[s] \in SubOf
    BY <1>1, <1>3 DEF SubsOK
  <2>2. sub[s].buf \in Buffers /\ sub[s].location \in Locations
    BY <2>1 DEF SubOf
  <2>3. buf \in Buffers
    BY <1>1, <2>2, Overlaid DEF BytesOK
  <2> HIDE DEF buf
  <2> QED BY <2>1, <2>3, BufferSet
<1> HIDE DEF r, t
<1>5. /\ \A d \in Chips : reading'[d].sub = reading[d].sub /\ ending'[d] = ending[d]
      /\ ChipsOK'
  BY <1>1, <1>2, <1>3 DEF ChipsOK
<1>6. /\ \A u \in Subs : sub'[u].bitMap = sub[u].bitMap /\ sub'[u].waits = sub[u].waits
      /\ SubsOK'
  BY <1>1, <1>2, <1>3, <1>4 DEF SubsOK
<1>7. Placed'
  <2>1. map' = map /\ chipState' = chipState /\ inflight' = inflight /\ cmd' = cmd
    BY <1>2 DEF flashVars, vars, tables
  <2>2. \A d \in Chips : HostWrites(d)' <=> HostWrites(d)
    BY <2>1 DEF HostWrites
  <2>3. UNCHANGED <<rList, wList>> /\ UNCHANGED hostVars
    BY <1>2
  <2>4. \A u \in Subs, m \in Kinds, d \in Chips : At(u, m, d)' <=> At(u, m, d)
    BY <1>5, <2>1, <2>2, <2>3, NothingMoves
  <2>5. RequestKept
    BY <1>6, <2>3 DEF RequestKept, hostVars
  <2> QED BY <2>1, <2>4, <2>5, StayKeeps
<1>8. BytesOK' /\ HostOK' /\ ListsOK' /\ NotTwice'
  BY <1>1, <1>2, UnchangedParts
<1> QED BY <1>5, <1>6, <1>7, <1>8, DInvOfParts

-----------------------------------------------------------------------------
(* The steps of a read.                                                    *)

LEMMA OnlyPlace ==
  ASSUME DInv, NEW s \in Subs, NEW k \in Kinds, NEW c \in Chips, At(s, k, c)
  PROVE  \A m \in Kinds, d \in Chips : At(s, m, d) <=> m = k /\ d = c
  BY DEF DInv, OnePlace

LEMMA DispatchReadKeepsDInv ==
  ASSUME DInv, NEW c \in Chips, DispatchRead(c)
  PROVE  DInv'
<1>1. /\ BytesOK /\ HostOK /\ SubsOK /\ ListsOK /\ ChipsOK /\ NotTwice /\ OnePlace
  BY PartsOfDInv
<1> DEFINE s == Head(rList[c])
           r == [sub |-> s, stage |-> "addr"]
<1>2. /\ UNCHANGED <<flashVars, stored, copyBuf, hostVars, sub, wList, ending>>
      /\ rList[c] # <<>> /\ reading[c] = NotReading
      /\ reading' = [reading EXCEPT ![c] = r]
      /\ rList' = [rList EXCEPT ![c] = Tail(rList[c])]
  BY DEF DispatchRead, Free
<1>3. /\ rList[c] \in Seq(Subs) /\ IsInjective(rList[c])
      /\ Tail(rList[c]) \in Seq(Subs) /\ IsInjective(Tail(rList[c]))
      /\ s \in Subs /\ Contains(rList[c], s)
      /\ \A e : Contains(Tail(rList[c]), e) <=> Contains(rList[c], e) /\ e # s
  <2>1. rList[c] \in Seq(Subs) /\ IsInjective(rList[c])
    BY <1>1 DEF ListsOK, NotTwice
  <2> QED BY <1>2, <2>1, TailContains
<1> HIDE DEF s
<1>4. ListsOK' /\ NotTwice'
  BY <1>1, <1>2, <1>3 DEF ListsOK, NotTwice
<1>5. r \in ReadOf /\ r.sub = s
  BY <1>3 DEF ReadOf, Stages
<1> HIDE DEF r
<1>6. ChipsOK' /\ reading'[c].sub = s /\ \A d \in Chips : d # c => reading'[d] = reading[d]
  BY <1>1, <1>2, <1>5 DEF ChipsOK
<1>7. /\ \A d \in Chips : \A e : Contains(rList'[d], e) <=>
           Contains(rList[d], e) /\ ~(d = c /\ e = s)
      /\ reading[c].sub = NoSub
  BY <1>1, <1>2, <1>3 DEF ListsOK, NotReading
<1>8. Placed'
  <2>1. map' = map /\ chipState' = chipState /\ inflight' = inflight /\ cmd' = cmd
    BY <1>2 DEF flashVars, vars, tables
  <2>2. \A d \in Chips : HostWrites(d)' <=> HostWrites(d)
    BY <2>1 DEF HostWrites
  <2>3. RequestKept
    BY <1>2, SubsKept
  <2>4. At(s, "read list", c) /\ "read list" \in Kinds /\ "reading" \in Kinds
    BY <1>3 DEF At, Kinds
  <2>5. ASSUME NEW t \in Subs, NEW m \in Kinds, NEW d \in Chips
        PROVE  At(t, m, d)' <=> IF t = s THEN m = "reading" /\ d = c ELSE At(t, m, d)
    <3>1. At(t, m, d)' <=> \/ m = "read list"  /\ Contains(rList[d], t) /\ ~(d = c /\ t = s)
                           \/ m = "write list" /\ Contains(wList[d], t)
                           \/ m = "reading"    /\ reading'[d].sub = t
                           \/ m = "written"    /\ HostWrites(d) /\ Main(cmd[d].lpn) = t
                           \/ m = "ending"     /\ ending[d] = t
      BY <1>2, <1>7, <2>1, <2>2 DEF At
    <3>2. reading'[d].sub = t <=> IF t = s THEN d = c \/ reading[d].sub = t
                                         ELSE reading[d].sub = t
      BY <1>6, <1>7, SubNames
    <3>3. At(s, m, d) => m = "read list" /\ d = c
      BY <1>3, <2>4, OnlyPlace
    <3>4. "read list" # "reading"
      OBVIOUS
    <3>5. CASE t = s
      <4>1. At(t, m, d)' <=> (At(t, m, d) /\ ~(m = "read list" /\ d = c))
                               \/ (m = "reading" /\ d = c)
        BY <3>1, <3>2, <3>5 DEF At
      <4> QED BY <3>3, <3>5, <4>1
    <3>6. CASE t # s
      BY <3>1, <3>2, <3>6 DEF At
    <3> QED BY <3>5, <3>6
  <2> QED BY <1>3, <2>1, <2>3, <2>4, <2>5, MoveKeeps DEF Way
<1>9. BytesOK' /\ HostOK' /\ SubsOK'
  BY <1>1, <1>2, UnchangedParts
<1> QED BY <1>4, <1>6, <1>8, <1>9, DInvOfParts

LEMMA ReadTransferredKeepsDInv ==
  ASSUME DInv, NEW c \in Chips, ReadTransferred(c)
  PROVE  DInv'
<1>1. /\ BytesOK /\ HostOK /\ SubsOK /\ ListsOK /\ ChipsOK /\ NotTwice
  BY PartsOfDInv
<1> DEFINE s == reading[c].sub
<1>2. /\ UNCHANGED <<flashVars, stored, copyBuf, hostVars, sub, rList, wList>>
      /\ reading[c].stage = "data" /\ ending[c] = NoSub
      /\ reading' = [reading EXCEPT ![c] = NotReading]
      /\ ending' = [ending EXCEPT ![c] = s]
  BY DEF ReadTransferred, MayComplete
<1>3. s \in Subs
  <2>1. NotReading.stage = "none"
    BY DEF NotReading
  <2>2. reading[c] \in ReadOf
    BY <1>1, <1>2, <2>1 DEF ChipsOK
  <2> QED BY <2>2 DEF ReadOf
<1>4. NotReading.sub = NoSub
  BY DEF NotReading
<1>5. /\ ChipsOK'
      /\ reading'[c].sub = NoSub /\ ending'[c] = s
      /\ \A d \in Chips : d # c => reading'[d] = reading[d] /\ ending'[d] = ending[d]
  BY <1>1, <1>2, <1>3, <1>4 DEF ChipsOK
<1>6. At(s, "reading", c) /\ "reading" \in Kinds /\ "ending" \in Kinds
  BY DEF At, Kinds
<1> HIDE DEF s
<1>7. Placed'
  <2>1. map' = map /\ chipState' = chipState /\ inflight' = inflight /\ cmd' = cmd
    BY <1>2 DEF flashVars, vars, tables
  <2>2. \A d \in Chips : HostWrites(d)' <=> HostWrites(d)
    BY <2>1 DEF HostWrites
  <2>3. RequestKept
    BY <1>2, SubsKept
  <2>4. ASSUME NEW t \in Subs, NEW m \in Kinds, NEW d \in Chips
        PROVE  At(t, m, d)' <=> IF t = s THEN m = "ending" /\ d = c ELSE At(t, m, d)
    <3>1. At(t, m, d)' <=> \/ m = "read list"  /\ Contains(rList[d], t)
                           \/ m = "write list" /\ Contains(wList[d], t)
                           \/ m = "reading"    /\ reading'[d].sub = t
                           \/ m = "written"    /\ HostWrites(d) /\ Main(cmd[d].lpn) = t
                           \/ m = "ending"     /\ ending'[d] = t
      BY <1>2, <2>1, <2>2 DEF At
    <3>2. /\ reading'[d].sub = t <=> d # c /\ reading[d].sub = t
          /\ ending'[d] = t <=> IF d = c THEN t = s ELSE ending[d] = t
      BY <1>5, SubNames
    <3>3. At(s, m, d) => m = "reading" /\ d = c
      BY <1>3, <1>6, OnlyPlace
    <3>4. "reading" # "ending" /\ (d = c => ending[d] # t)
      BY <1>2, SubNames
    <3>5. CASE t = s
      <4>1. At(t, m, d)' => (At(t, m, d) /\ ~(m = "reading" /\ d = c))
                              \/ (m = "ending" /\ d = c)
        BY <3>1, <3>2 DEF At
      <4>2. m = "ending" /\ d = c => At(t, m, d)'
        BY <3>1, <3>2, <3>5
      <4> QED BY <3>3, <3>5, <4>1, <4>2
    <3>6. CASE t # s
      <4>1. reading[c].sub # t
        BY <3>6 DEF s
      <4> QED BY <3>1, <3>2, <3>4, <3>6, <4>1 DEF At
    <3> QED BY <3>5, <3>6
  <2> QED BY <1>3, <1>6, <2>1, <2>3, <2>4, MoveKeeps DEF Way
<1>8. BytesOK' /\ HostOK' /\ SubsOK' /\ ListsOK' /\ NotTwice'
  BY <1>1, <1>2, UnchangedParts
<1> QED BY <1>5, <1>7, <1>8, DInvOfParts

-----------------------------------------------------------------------------
(* The steps of a write.                                                   *)

LEMMA DispatchWriteKeepsDInv ==
  ASSUME IInv, DInv, NEW c \in Chips, DispatchWrite(c)
  PROVE  DInv'
<1>1. /\ BytesOK /\ HostOK /\ SubsOK /\ ListsOK /\ ChipsOK /\ NotTwice
  BY PartsOfDInv
<1>2. PICK i \in DOMAIN wList[c] :
        /\ ~sub[wList[c][i]].waits
        /\ SendHostWrite(c, wList[c][i][2], sub[wList[c][i]].bitMap)
        /\ Program(Frontier(sub[wList[c][i]].location[1]), sub[wList[c][i]].buf,
                   sub[wList[c][i]].bitMap)
        /\ wList' = [wList EXCEPT ![c] = RemoveAt(wList[c], i)]
  BY DEF DispatchWrite, IsNextWrite
<1>3. /\ ~spinning /\ chipState[c] = "IDLE"
      /\ UNCHANGED <<copyBuf, hostVars, sub, rList, reading, ending>>
  BY DEF DispatchWrite, Free, Stopped
<1>4. PICK lpn \in HostLPNs :
        /\ wList[c][i] = Main(lpn) /\ wList[c][i][2] = lpn
        /\ At(Main(lpn), "write list", c)
        /\ sub[Main(lpn)].bitMap \in SUBSET SubPages
  BY <1>2, NextWrite
<1> DEFINE s == Main(lpn)
<1>5. s \in Subs /\ SendHostWrite(c, lpn, sub[s].bitMap) /\ ~sub[s].waits
  BY <1>2, <1>4, SubNames
<1>6. /\ wList[c] \in Seq(Subs) /\ IsInjective(wList[c]) /\ i \in 1..Len(wList[c])
      /\ RemoveAt(wList[c], i) \in Seq(Subs) /\ IsInjective(RemoveAt(wList[c], i))
      /\ \A e : Contains(RemoveAt(wList[c], i), e) <=> Contains(wList[c], e) /\ e # s
  <2>1. wList[c] \in Seq(Subs) /\ IsInjective(wList[c])
    BY <1>1 DEF ListsOK, NotTwice
  <2>2. i \in 1..Len(wList[c])
    BY <2>1
  <2> QED BY <1>4, <2>1, <2>2, RemoveAtContains
<1>7. ListsOK' /\ NotTwice'
  BY <1>1, <1>2, <1>3, <1>6 DEF ListsOK, NotTwice
<1>8. \A d \in Chips : \A e : Contains(wList'[d], e) <=>
        Contains(wList[d], e) /\ ~(d = c /\ e = s)
  BY <1>1, <1>2, <1>6 DEF ListsOK
<1>9. BytesOK'
  <2>1. sub[s] \in SubOf
    BY <1>1, <1>5 DEF SubsOK
  <2>2. sub[s].buf \in Buffers
    BY <2>1 DEF SubOf
  <2>3. Program(Frontier(sub[s].location[1]), sub[s].buf, sub[s].bitMap)
    BY <1>2, <1>4
  <2>4. UNCHANGED copyBuf
    BY <1>3
  <2> QED BY <1>1, <2>2, <2>3, <2>4, ProgramKeepsBytes
<1>10. /\ cmd'[c].lpn = lpn /\ Busy(c, "PROGRAM", c) /\ map' = map
       /\ \A y \in CommandIDs : y # c => cmd'[y] = cmd[y]
  <2>1. PICK b \in SUBSET SubPages : SendHostWrite(c, lpn, b)
    BY <1>4, <1>5
  <2>2. /\ cmd'[c].lpn = lpn
        /\ StartsProgram(c, c, allocate_location_for_plane(lpn))
    BY <1>3, <2>1, SendHostWriteStarts
  <2> QED BY <2>2 DEF StartsProgram
<1>11. /\ ~HostWrites(c) /\ HostWrites(c)'
       /\ \A d \in Chips : d # c => (HostWrites(d)' <=> HostWrites(d)) /\ cmd'[d] = cmd[d]
  <2>1. QueuesOK /\ \A d \in Chips : d \in CommandIDs
    BY TypeParts DEF IInv, CommandIDs
  <2> QED BY <1>3, <1>10, <2>1 DEF HostWrites, Busy, QueuesOK
<1>12. "write list" \in Kinds /\ "written" \in Kinds
  BY DEF Kinds
<1> HIDE DEF s
<1>13. Placed'
  <2>1. RequestKept
    BY <1>3, SubsKept
  <2>2. At(s, "write list", c)
    BY <1>4 DEF s
  <2>3. ASSUME NEW t \in Subs, NEW m \in Kinds, NEW d \in Chips
        PROVE  At(t, m, d)' <=> IF t = s THEN m = "written" /\ d = c ELSE At(t, m, d)
    <3>1. At(t, m, d)' <=> \/ m = "read list"  /\ Contains(rList[d], t)
                           \/ m = "write list" /\ Contains(wList[d], t) /\ ~(d = c /\ t = s)
                           \/ m = "reading"    /\ reading[d].sub = t
                           \/ m = "written"    /\ HostWrites(d)' /\ Main(cmd'[d].lpn) = t
                           \/ m = "ending"     /\ ending[d] = t
      BY <1>3, <1>8 DEF At
    <3>2. HostWrites(d)' /\ Main(cmd'[d].lpn) = t <=>
            IF d = c THEN t = s ELSE HostWrites(d) /\ Main(cmd[d].lpn) = t
      BY <1>10, <1>11 DEF s
    <3>3. At(s, m, d) => m = "write list" /\ d = c
      BY <1>5, <1>12, <2>2, OnlyPlace
    <3>4. "write list" # "written"
      OBVIOUS
    <3>5. CASE t = s
      <4>1. At(t, m, d)' => (At(t, m, d) /\ ~(m = "write list" /\ d = c))
                              \/ (m = "written" /\ d = c)
        BY <3>1, <3>2, <3>5 DEF At
      <4>2. m = "written" /\ d = c => At(t, m, d)'
        BY <3>1, <3>2, <3>5
      <4> QED BY <3>3, <3>5, <4>1, <4>2
    <3>6. CASE t # s
      BY <1>11, <3>1, <3>2, <3>6 DEF At
    <3> QED BY <3>5, <3>6
  <2> QED BY <1>5, <1>10, <1>12, <2>1, <2>2, <2>3, MoveKeeps DEF Way
<1>14. HostOK' /\ SubsOK' /\ ChipsOK'
  BY <1>1, <1>3, UnchangedParts
<1> QED BY <1>7, <1>9, <1>13, <1>14, DInvOfParts

LEMMA CompleteCommandKeepsDInv ==
  ASSUME IInv, NoneRefused, CInv, DInv, NEW c \in Chips, CompleteCommand(c)
  PROVE  DInv'
<1>1. /\ BytesOK /\ HostOK /\ SubsOK /\ ListsOK /\ ChipsOK /\ NotTwice
  BY PartsOfDInv
<1>2. /\ ~spinning /\ Complete(c) /\ ending[c] = NoSub
      /\ ending' = [ending EXCEPT ![c] = IF HostWrites(c) THEN Main(cmd[c].lpn) ELSE NoSub]
      /\ UNCHANGED <<stored, copyBuf, hostVars, sub, rList, wList, reading>>
  BY DEF CompleteCommand, MayComplete, Stopped, HostWrites
<1>3. /\ QueuesOK /\ \A d \in Chips : d \in CommandIDs /\ d \notin Planes
      /\ inflight[c] \in {c} \cup PlanesOf(c)
  BY TypeParts, ChipsAndPlanes DEF IInv, CommandIDs, OnOwnChip, OwnChip
<1>4. /\ chipState' = [chipState EXCEPT ![c] = "IDLE"] /\ inflight' = inflight
      /\ \A y \in CommandIDs : y # inflight[c] => cmd'[y] = cmd[y]
  BY <1>2, <1>3 DEF Complete, CompleteProgram, CompleteReadAddr, CompleteReadData,
                    CompleteErase, Idle, QueuesOK
<1>5. /\ ~HostWrites(c)'
      /\ \A d \in Chips : d # c => (HostWrites(d)' <=> HostWrites(d)) /\ cmd'[d] = cmd[d]
  <2>1. \A d \in Chips : d # c => chipState'[d] = chipState[d] /\ d # inflight[c]
    BY <1>3, <1>4 DEF QueuesOK, PlanesOf
  <2>2. chipState'[c] = "IDLE"
    BY <1>3, <1>4 DEF QueuesOK
  <2> QED BY <1>3, <1>4, <2>1, <2>2 DEF HostWrites
<1>6. ASSUME NEW lpn \in HostLPNs, map'[lpn].subPage # map[lpn].subPage
      PROVE  HostWrites(c) /\ cmd[c].lpn = lpn
  <2>1. [Next]_vars
    BY <1>2 DEF Next
  <2>2. PICK d \in Chips : CompleteProgram(d) /\ inflight[d] = d /\ cmd[d].lpn = lpn
    BY <1>6, <2>1, OnlyUsersChange
  <2>3. chipState[d] = "PROGRAM" /\ chipState' = [chipState EXCEPT ![d] = "IDLE"]
    BY <2>2 DEF CompleteProgram, Idle
  <2>4. d = c
    BY <1>3, <1>4, <2>3 DEF QueuesOK
  <2> QED BY <2>2, <2>3, <2>4 DEF HostWrites
<1>7. HostOK' /\ SubsOK' /\ ListsOK' /\ NotTwice' /\ BytesOK' /\ RequestKept
  BY <1>1, <1>2, UnchangedParts, SubsKept
<1>8. CASE ~HostWrites(c)
  <2>1. ending' = ending
    BY <1>1, <1>2, <1>8 DEF ChipsOK
  <2>2. \A d \in Chips : HostWrites(d)' <=> HostWrites(d)
    BY <1>5, <1>8
  <2>3. \A d \in Chips : HostWrites(d) => cmd'[d].lpn = cmd[d].lpn
    BY <1>5, <1>8
  <2>4. \A t \in Subs, m \in Kinds, d \in Chips : At(t, m, d)' <=> At(t, m, d)
    BY <1>2, <2>1, <2>2, <2>3, NothingMoves
  <2>5. \A lpn \in HostLPNs : map'[lpn].subPage = map[lpn].subPage
    BY <1>6, <1>8
  <2>6. Placed'
    BY <1>7, <2>4, <2>5, StayKeeps
  <2>7. ChipsOK'
    BY <1>1, <1>2, <2>1 DEF ChipsOK
  <2> QED BY <1>7, <2>6, <2>7, DInvOfParts
<1>9. CASE HostWrites(c)
  <2> DEFINE s == Main(cmd[c].lpn)
  <2>1. s \in Subs /\ cmd[c].lpn \in HostLPNs
    <3>1. WriteOK(c)
      BY DEF CInv, ChipOK
    <3>2. cmd[c].lpn \in HostLPNs
      BY <1>9, <3>1 DEF WriteOK, HostWrites
    <3> QED BY <3>2, SubNames
  <2>2. At(s, "written", c)
    BY <1>9 DEF At
  <2>3. "written" \in Kinds /\ "ending" \in Kinds
    BY DEF Kinds
  <2>4. \A lpn \in HostLPNs : map'[lpn].subPage = map[lpn].subPage \/ s = Main(lpn)
    BY <1>6
  <2>5. ending' = [ending EXCEPT ![c] = s]
    BY <1>2, <1>9
  <2>6. \A d \in Chips : HostWrites(d)' /\ Main(cmd'[d].lpn) = Main(cmd[d].lpn)
                           <=> d # c /\ HostWrites(d)
    BY <1>5
  <2>7. \A t, d : d = c => (Main(cmd[d].lpn) = t <=> t = s)
    OBVIOUS
  <2> HIDE DEF s
  <2>8. /\ ChipsOK' /\ ending'[c] = s
        /\ \A d \in Chips : d # c => ending'[d] = ending[d]
    BY <1>1, <1>2, <2>1, <2>5 DEF ChipsOK
  <2>9. ASSUME NEW t \in Subs, NEW m \in Kinds, NEW d \in Chips
        PROVE  At(t, m, d)' <=> IF t = s THEN m = "ending" /\ d = c ELSE At(t, m, d)
    <3>1. At(t, m, d)' <=> \/ m = "read list"  /\ Contains(rList[d], t)
                           \/ m = "write list" /\ Contains(wList[d], t)
                           \/ m = "reading"    /\ reading[d].sub = t
                           \/ m = "written"    /\ HostWrites(d)' /\ Main(cmd'[d].lpn) = t
                           \/ m = "ending"     /\ ending'[d] = t
      BY <1>2 DEF At
    <3>2. /\ HostWrites(d)' /\ Main(cmd'[d].lpn) = t
               <=> d # c /\ HostWrites(d) /\ Main(cmd[d].lpn) = t
          /\ ending'[d] = t <=> IF d = c THEN t = s ELSE ending[d] = t
      BY <1>5, <2>8
    <3>3. At(s, m, d) => m = "written" /\ d = c
      BY <2>1, <2>2, <2>3, OnlyPlace
    <3>4. "written" # "ending" /\ (d = c => ending[d] # t)
      BY <1>2, SubNames
    <3>5. CASE t = s
      <4>1. At(t, m, d)' => (At(t, m, d) /\ ~(m = "written" /\ d = c))
                              \/ (m = "ending" /\ d = c)
        BY <3>1, <3>2 DEF At
      <4>2. m = "ending" /\ d = c => At(t, m, d)'
        BY <3>1, <3>2, <3>5
      <4> QED BY <3>3, <3>5, <4>1, <4>2
    <3>6. CASE t # s
      <4>1. HostWrites(d)' /\ Main(cmd'[d].lpn) = t <=> HostWrites(d) /\ Main(cmd[d].lpn) = t
        BY <2>7, <3>2, <3>6
      <4>2. ending'[d] = t <=> ending[d] = t
        BY <3>2, <3>4, <3>6
      <4> QED BY <3>1, <3>6, <4>1, <4>2 DEF At
    <3> QED BY <3>5, <3>6
  <2>10. Placed'
    <3>1. PICK k \in Kinds, l \in Kinds : k = "written" /\ l = "ending"
      BY <2>3
    <3>2. At(s, k, c) /\ Way(k, l) /\ (k = "write list" => ~sub[s].waits)
      BY <2>2, <3>1 DEF Way
    <3>3. \A t \in Subs, m \in Kinds, d \in Chips :
            At(t, m, d)' <=> IF t = s THEN m = l /\ d = c ELSE At(t, m, d)
      BY <2>9, <3>1
    <3>4. \A lpn \in HostLPNs : map'[lpn].subPage = map[lpn].subPage
                                  \/ (k = "written" /\ s = Main(lpn))
      BY <2>4, <3>1
    <3>5. RequestKept
      BY <1>7
    <3> QED BY <2>1, <3>2, <3>3, <3>4, <3>5, MoveKeeps
  <2> QED BY <1>7, <2>8, <2>10, DInvOfParts
<1> QED BY <1>8, <1>9

-----------------------------------------------------------------------------
(* The steps of the block layer's thread.                                  *)

LEMMA NothingThere ==
  ASSUME DInv, hostPc \in {"idle", "add writes"} \/ (hostPc = "add reads" /\ request.op = "READ")
  PROVE  \A t \in Subs, m \in Kinds, d \in Chips : ~At(t, m, d)
<1> SUFFICES ASSUME NEW t \in Subs, NEW m \in Kinds, NEW d \in Chips, At(t, m, d)
             PROVE  FALSE
  OBVIOUS
<1>1. MainsPlace /\ RMWsPlace
  BY PartsOfDInv
<1>2. PICK lpn \in HostLPNs : t = Main(lpn) \/ t = RMW(lpn)
  BY SubNames
<1>3. CASE t = Main(lpn)
  BY <1>1, <1>3 DEF MainsPlace
<1>4. CASE t = RMW(lpn)
  BY <1>1, <1>4 DEF RMWsPlace
<1> QED BY <1>2, <1>3, <1>4

LEMMA SubValues ==
  ASSUME NEW bitMap \in SUBSET SubPages
  PROVE  /\ \A loc \in Locations : /\ SubRead(bitMap, loc) \in SubOf
                                   /\ SubRead(bitMap, loc).bitMap = bitMap
                                   /\ ~SubRead(bitMap, loc).waits
         /\ \A lpn \in HostLPNs, data \in Buffers, waits \in BOOLEAN :
              /\ SubWrite(bitMap, lpn, data, waits) \in SubOf
              /\ SubWrite(bitMap, lpn, data, waits).bitMap = bitMap
              /\ SubWrite(bitMap, lpn, data, waits).waits = waits
<1>1. ASSUME NEW loc \in Locations
      PROVE  /\ SubRead(bitMap, loc) \in SubOf
             /\ SubRead(bitMap, loc).bitMap = bitMap
             /\ SubRead(bitMap, loc).waits = FreeSub.waits
  BY FreeValues DEF SubRead, SubOf
<1>2. ASSUME NEW lpn \in HostLPNs, NEW data \in Buffers, NEW waits \in BOOLEAN
      PROVE  /\ SubWrite(bitMap, lpn, data, waits) \in SubOf
             /\ SubWrite(bitMap, lpn, data, waits).bitMap = bitMap
             /\ SubWrite(bitMap, lpn, data, waits).waits = waits
  <2>1. <<allocate_location_for_plane(lpn), 0, 0>> \in Locations
    BY FreeValues
  <2>2. Overlay(FreeSub.buf, data, bitMap) \in Buffers
    BY FreeValues, Overlaid
  <2> QED BY <2>1, <2>2 DEF SubWrite, SubOf
<1> QED BY <1>1, <1>2, FreeValues

LEMMA HostSubmitReadKeeps ==
  ASSUME TypeOK, NEW req \in Requests, HostSubmitRead(req)
  PROVE  SubsOK' /\ hostPc' = "add reads" /\ UNCHANGED marked
<1>1. PICK at \in [PagesOfRequest(req) -> Locations] :
        sub' = [s \in Subs |->
            IF s[1] = "main" /\ s[2] \in PagesOfRequest(req)
            THEN SubRead(BitMap(req, s[2]), at[s[2]]) ELSE FreeSub]
  BY DEF HostSubmitRead
<1>2. ASSUME NEW lpn \in PagesOfRequest(req)
      PROVE  SubRead(BitMap(req, lpn), at[lpn]) \in SubOf
  <2>1. BitMap(req, lpn) \in SUBSET SubPages /\ at[lpn] \in Locations
    BY DEF BitMap
  <2> QED BY <2>1, SubValues
<1>3. SubsOK'
  BY <1>1, <1>2, FreeValues DEF SubsOK
<1> QED BY <1>3 DEF HostSubmitRead

LEMMA InIsBoolean ==
  ASSUME NEW S, NEW e
  PROVE  \E b \in BOOLEAN : b = (e \in S)
<1>1. (e \in S) \in BOOLEAN
  OBVIOUS
<1> QED BY <1>1, Zenon

LEMMA HostSubmitWriteKeeps ==
  ASSUME TypeOK, marked \in BOOLEAN, NEW req \in Requests, HostSubmitWrite(req)
  PROVE  /\ SubsOK' /\ hostPc' = "add writes" /\ marked' \in BOOLEAN
         /\ \A lpn \in PagesOfRequest(req) :
              /\ sub'[Main(lpn)].bitMap = BitMap(req, lpn)
              /\ \/ map[lpn].subPage \subseteq BitMap(req, lpn)
                 \/ sub'[Main(lpn)].waits /\ sub'[RMW(lpn)].bitMap = map[lpn].subPage
<1> DEFINE pages == PagesOfRequest(req)
           partial == {lpn \in pages : ~Covers(BitMap(req, lpn), lpn)}
<1>1. PICK at \in [partial -> Locations], data \in Payloads(req) :
        /\ sub' = [s \in Subs |->
               IF s[1] = "main" /\ s[2] \in pages
               THEN SubWrite(BitMap(req, s[2]), s[2], data[s[2]], s[2] \in partial)
               ELSE IF s[1] = "rmw" /\ s[2] \in partial
               THEN SubRead(map[s[2]].subPage, at[s[2]]) ELSE FreeSub]
        /\ marked' = (marked \/ \E lpn \in DOMAIN data, i \in SubPages : data[lpn][i] = "new")
  BY DEF HostSubmitWrite
<1>2. marked' \in BOOLEAN
  BY <1>1
<1>3. pages \subseteq HostLPNs /\ data \in [pages -> Buffers] /\ partial \subseteq pages
  BY DEF Payloads, PagesOfRequest, Buffers
<1>4. \A lpn \in HostLPNs : map[lpn].subPage \in SUBSET SubPages
  BY DEF TypeOK
<1>5. \A lpn : lpn \in partial <=> lpn \in pages /\ ~(map[lpn].subPage \subseteq BitMap(req, lpn))
  BY DEF Covers
<1> HIDE DEF pages, partial
<1>6. ASSUME NEW lpn \in pages
      PROVE  LET w == SubWrite(BitMap(req, lpn), lpn, data[lpn], lpn \in partial)
             IN w \in SubOf /\ w.bitMap = BitMap(req, lpn) /\ w.waits = (lpn \in partial)
  <2>1. /\ BitMap(req, lpn) \in SUBSET SubPages /\ data[lpn] \in Buffers /\ lpn \in HostLPNs
    BY <1>3 DEF BitMap
  <2>2. PICK b \in BOOLEAN : b = (lpn \in partial)
    BY InIsBoolean
  <2>3. LET w == SubWrite(BitMap(req, lpn), lpn, data[lpn], b)
        IN w \in SubOf /\ w.bitMap = BitMap(req, lpn) /\ w.waits = b
    BY <2>1, SubValues
  <2> QED BY <2>2, <2>3
<1>7. ASSUME NEW lpn \in partial
      PROVE  LET r == SubRead(map[lpn].subPage, at[lpn])
             IN r \in SubOf /\ r.bitMap = map[lpn].subPage
  <2>1. map[lpn].subPage \in SUBSET SubPages /\ at[lpn] \in Locations
    BY <1>3, <1>4
  <2> QED BY <2>1, SubValues
<1>8. SubsOK'
  BY <1>1, <1>6, <1>7, FreeValues DEF SubsOK
<1>9. ASSUME NEW lpn \in pages
      PROVE  /\ sub'[Main(lpn)] = SubWrite(BitMap(req, lpn), lpn, data[lpn], lpn \in partial)
             /\ lpn \in partial => sub'[RMW(lpn)] = SubRead(map[lpn].subPage, at[lpn])
  <2>1. /\ Main(lpn) \in Subs /\ RMW(lpn) \in Subs
        /\ Main(lpn)[1] = "main" /\ RMW(lpn)[1] = "rmw"
        /\ Main(lpn)[2] = lpn /\ RMW(lpn)[2] = lpn
    BY <1>3, SubNames
  <2> QED BY <1>1, <2>1
<1>10. hostPc' = "add writes"
  BY DEF HostSubmitWrite
<1>11. ASSUME NEW lpn \in pages
       PROVE  /\ sub'[Main(lpn)].bitMap = BitMap(req, lpn)
              /\ \/ map[lpn].subPage \subseteq BitMap(req, lpn)
                 \/ sub'[Main(lpn)].waits /\ sub'[RMW(lpn)].bitMap = map[lpn].subPage
  <2>1. CASE lpn \in partial
    BY <1>6, <1>7, <1>9, <2>1
  <2>2. CASE lpn \notin partial
    BY <1>5, <1>6, <1>9, <2>2
  <2> QED BY <2>1, <2>2
<1> QED BY <1>2, <1>8, <1>10, <1>11 DEF pages

LEMMA HostSubmitKeepsDInv ==
  ASSUME IInv, DInv, HostSubmit
  PROVE  DInv'
<1>1. /\ BytesOK /\ HostOK /\ SubsOK /\ ListsOK /\ ChipsOK /\ NotTwice
  BY PartsOfDInv
<1>2. PICK req \in Requests :
        /\ request' = req /\ restSubreqs' = PagesOfRequest(req)
        /\ \/ req.op = "READ"  /\ HostSubmitRead(req)
           \/ req.op = "WRITE" /\ HostSubmitWrite(req)
  BY DEF HostSubmit
<1>3. /\ hostPc = "idle"
      /\ UNCHANGED <<flashVars, stored, copyBuf, rList, wList, reading, ending>>
  BY DEF HostSubmit
<1>4. TypeOK /\ marked \in BOOLEAN
  BY <1>1 DEF IInv, HostOK
<1>5. /\ SubsOK' /\ marked' \in BOOLEAN
      /\ \/ req.op = "READ"  /\ hostPc' = "add reads"
         \/ req.op = "WRITE" /\ hostPc' = "add writes"
  BY <1>2, <1>4, HostSubmitReadKeeps, HostSubmitWriteKeeps
<1>6. HostOK'
  <2>1. PagesOfRequest(req) \subseteq HostLPNs
    BY DEF PagesOfRequest
  <2> QED BY <1>2, <1>5, <2>1 DEF HostOK
<1>7. \A t \in Subs, m \in Kinds, d \in Chips : ~At(t, m, d)'
  <2>1. \A t \in Subs, m \in Kinds, d \in Chips : ~At(t, m, d)
    BY <1>3, NothingThere
  <2>2. /\ UNCHANGED <<rList, wList, reading, ending>>
        /\ chipState' = chipState /\ inflight' = inflight /\ cmd' = cmd
    BY <1>3 DEF flashVars, vars
  <2>3. \A d \in Chips : HostWrites(d)' <=> HostWrites(d)
    BY <2>2 DEF HostWrites
  <2>4. \A t \in Subs, m \in Kinds, d \in Chips : At(t, m, d)' <=> At(t, m, d)
    BY <2>2, <2>3, NothingMoves
  <2> QED BY <2>1, <2>4
<1>8. OnePlace' /\ MainsPlace' /\ RMWsPlace'
  BY <1>7, SubNames DEF OnePlace, MainsPlace, RMWsPlace
<1>9. WaitsInList' /\ RequestOK'
  BY <1>2, <1>5 DEF WaitsInList, RequestOK
<1>10. CoversStored'
  <2> SUFFICES ASSUME NEW lpn \in HostLPNs, Unsent(lpn)'
               PROVE  /\ sub'[Main(lpn)].bitMap # {}
                      /\ map'[lpn].subPage \subseteq
                           sub'[Main(lpn)].bitMap \cup
                             (IF sub'[Main(lpn)].waits THEN sub'[RMW(lpn)].bitMap ELSE {})
    BY DEF CoversStored
  <2>1. lpn \in PagesOfRequest(req) /\ req.op = "WRITE" /\ HostSubmitWrite(req)
    BY <1>2 DEF Unsent
  <2>2. /\ sub'[Main(lpn)].bitMap = BitMap(req, lpn)
        /\ \/ map[lpn].subPage \subseteq BitMap(req, lpn)
           \/ sub'[Main(lpn)].waits /\ sub'[RMW(lpn)].bitMap = map[lpn].subPage
    BY <1>4, <2>1, HostSubmitWriteKeeps
  <2>3. BitMap(req, lpn) # {}
    BY <2>1 DEF PagesOfRequest
  <2>4. map' = map
    BY <1>3 DEF flashVars, vars, tables
  <2> QED BY <2>2, <2>3, <2>4
<1>11. BytesOK' /\ ListsOK' /\ NotTwice' /\ ChipsOK'
  BY <1>1, <1>3, UnchangedParts
<1> QED BY <1>5, <1>6, <1>8, <1>9, <1>10, <1>11, DInvOfParts DEF Placed

\* The sub-requests hung on a chip are those that are meant for it.
LEMMA AddContains ==
  ASSUME SubsOK, NEW kind \in {"main", "rmw"}, NEW lpns \in SUBSET HostLPNs, NEW c,
         NEW list \in Seq(Subs), IsInjective(list), \A e \in Subs : ~Contains(list, e)
  PROVE  LET new == list \o OfChip(kind, lpns, c)
         IN /\ new \in Seq(Subs) /\ IsInjective(new)
            /\ \A e : Contains(new, e) <=>
                 \E lpn \in lpns : e = <<kind, lpn>> /\ ChipOf(sub[e].location[1]) = c
<1> DEFINE added == OfChip(kind, lpns, c)
<1>1. added \in Seq(Subs) /\ IsInjective(added)
  BY OfChipContains
<1>2. \A e : Contains(added, e) <=>
        \E lpn \in lpns : e = <<kind, lpn>> /\ ChipOf(sub[e].location[1]) = c
  BY OfChipContains
<1> HIDE DEF added
<1>3. \A e : ~Contains(list, e)
  <2> SUFFICES ASSUME NEW e, Contains(list, e) PROVE FALSE
    OBVIOUS
  <2>1. e \in Subs
    BY DEF Contains
  <2> QED BY <2>1
<1>4. /\ list \o added \in Seq(Subs) /\ IsInjective(list \o added)
      /\ \A e : Contains(list \o added, e) <=> Contains(list, e) \/ Contains(added, e)
  BY <1>1, <1>3, ConcatContains
<1> QED BY <1>2, <1>3, <1>4 DEF added

\* Every sub-request is for some chip.
LEMMA ChipOfSub ==
  ASSUME SubsOK, NEW s \in Subs
  PROVE  ChipOf(sub[s].location[1]) \in Chips
<1>1. sub[s] \in SubOf
  BY DEF SubsOK
<1>2. sub[s].location[1] \in Planes
  BY <1>1 DEF SubOf, Locations
<1> QED BY <1>2, ChipsAndPlanes

LEMMA HostAddWritesKeepsDInv ==
  ASSUME DInv, HostAddWrites
  PROVE  DInv'
<1>1. /\ BytesOK /\ HostOK /\ SubsOK /\ ListsOK /\ ChipsOK /\ NotTwice
      /\ CoversStored /\ RequestOK
  BY PartsOfDInv
<1>2. /\ hostPc = "add writes"
      /\ wList' = [c \in Chips |-> wList[c] \o OfChip("main", restSubreqs, c)]
      /\ hostPc' \in {"wait", "add reads"}
      /\ UNCHANGED <<flashVars, stored, copyBuf, request, restSubreqs, marked, sub,
                     rList, reading, ending>>
  BY DEF HostAddWrites
<1>3. \A t \in Subs, m \in Kinds, d \in Chips : ~At(t, m, d)
  BY <1>2, NothingThere
<1>4. request.op = "WRITE" /\ restSubreqs \subseteq HostLPNs /\ request \in Requests
  BY <1>1, <1>2 DEF RequestOK, HostOK
<1>5. ASSUME NEW c \in Chips
      PROVE  /\ wList'[c] \in Seq(Subs) /\ IsInjective(wList'[c])
             /\ \A e : Contains(wList'[c], e) <=>
                  \E lpn \in restSubreqs : e = Main(lpn) /\ ChipOf(sub[e].location[1]) = c
  <2>1. \A e \in Subs : ~Contains(wList[c], e)
    <3> SUFFICES ASSUME NEW e \in Subs, Contains(wList[c], e) PROVE FALSE
      OBVIOUS
    <3>1. At(e, "write list", c) /\ "write list" \in Kinds
      BY DEF At, Kinds
    <3> QED BY <1>3, <3>1
  <2>2. wList[c] \in Seq(Subs) /\ IsInjective(wList[c])
    BY <1>1 DEF ListsOK, NotTwice
  <2>3. LET new == wList[c] \o OfChip("main", restSubreqs, c)
        IN /\ new \in Seq(Subs) /\ IsInjective(new)
           /\ \A e : Contains(new, e) <=>
                \E lpn \in restSubreqs :
                  e = <<"main", lpn>> /\ ChipOf(sub[e].location[1]) = c
    BY <1>1, <1>4, <2>1, <2>2, AddContains
  <2>4. wList'[c] = wList[c] \o OfChip("main", restSubreqs, c)
    BY <1>2
  <2> QED BY <2>3, <2>4 DEF Main
<1>6. ListsOK' /\ NotTwice'
  <2>1. wList' \in [Chips -> Seq(Subs)] /\ \A c \in Chips : IsInjective(wList'[c])
    BY <1>2, <1>5
  <2> QED BY <1>1, <1>2, <2>1 DEF ListsOK, NotTwice
<1>7. "write list" \in Kinds
  BY DEF Kinds
<1>8. ASSUME NEW t \in Subs, NEW m \in Kinds, NEW d \in Chips
      PROVE  At(t, m, d)' <=> /\ m = "write list" /\ ChipOf(sub[t].location[1]) = d
                              /\ \E lpn \in restSubreqs : t = Main(lpn)
  <2>1. ~At(t, m, d)
    BY <1>3
  <2>2. HostWrites(d)' <=> HostWrites(d)
    BY <1>2 DEF HostWrites, flashVars, vars
  <2>3. UNCHANGED <<rList, reading, ending, cmd>>
    BY <1>2 DEF flashVars, vars
  <2>4. At(t, m, d)' <=> \/ m = "read list"  /\ Contains(rList[d], t)
                         \/ m = "write list" /\ Contains(wList'[d], t)
                         \/ m = "reading"    /\ reading[d].sub = t
                         \/ m = "written"    /\ HostWrites(d) /\ Main(cmd[d].lpn) = t
                         \/ m = "ending"     /\ ending[d] = t
    BY <2>2, <2>3 DEF At
  <2>5. At(t, m, d)' <=> m = "write list" /\ Contains(wList'[d], t)
    BY <2>1, <2>4 DEF At
  <2> QED BY <1>5, <2>5
<1>9. OnePlace'
  <2>1. ASSUME NEW t \in Subs, NEW m1 \in Kinds, NEW d1 \in Chips,
               NEW m2 \in Kinds, NEW d2 \in Chips, At(t, m1, d1)', At(t, m2, d2)'
        PROVE  m1 = m2 /\ d1 = d2
    BY <1>8, <2>1
  <2> QED BY <2>1 DEF OnePlace
<1>10. MainsPlace'
  <2>1. ASSUME NEW lpn \in HostLPNs, NEW m \in Kinds, NEW d \in Chips, At(Main(lpn), m, d)'
        PROVE  m = "write list" /\ lpn \in restSubreqs
    <3>1. m = "write list" /\ \E l \in restSubreqs : Main(lpn) = Main(l)
      BY <1>8, <2>1, SubNames
    <3> QED BY <3>1, SubNames
  <2> QED BY <1>2, <1>4, <2>1 DEF MainsPlace
<1>11. RMWsPlace'
  <2>1. ASSUME NEW lpn \in HostLPNs, NEW m \in Kinds, NEW d \in Chips, At(RMW(lpn), m, d)'
        PROVE  FALSE
    BY <1>8, <2>1, SubNames
  <2> QED BY <2>1 DEF RMWsPlace
<1>12. WaitsInList'
  <2>1. ASSUME NEW lpn \in restSubreqs
        PROVE  \E d \in Chips : At(Main(lpn), "write list", d)'
    <3>1. Main(lpn) \in Subs
      BY <1>4, SubNames
    <3>2. ChipOf(sub[Main(lpn)].location[1]) \in Chips
      BY <1>1, <3>1, ChipOfSub
    <3> QED BY <1>7, <1>8, <3>1, <3>2
  <2>2. Waiting' \subseteq restSubreqs
    BY <1>2 DEF Waiting
  <2> QED BY <2>1, <2>2 DEF WaitsInList
<1>13. CoversStored' /\ RequestOK'
  <2>1. \A lpn : Unsent(lpn)' => Unsent(lpn)
    BY <1>2, <1>4 DEF Unsent
  <2>2. map' = map /\ sub' = sub /\ request' = request
    BY <1>2 DEF flashVars, vars, tables
  <2>3. CoversStored'
    BY <1>1, <2>1, <2>2 DEF CoversStored
  <2>4. RequestOK'
    BY <1>2, <1>4, <2>2 DEF RequestOK
  <2> QED BY <2>3, <2>4
<1>14. HostOK'
  BY <1>1, <1>2 DEF HostOK
<1>15. BytesOK' /\ SubsOK' /\ ChipsOK'
  BY <1>1, <1>2, UnchangedParts
<1> QED BY <1>6, <1>9, <1>10, <1>11, <1>12, <1>13, <1>14, <1>15, DInvOfParts DEF Placed

LEMMA HostAddReadsKeepsDInv ==
  ASSUME DInv, HostAddReads
  PROVE  DInv'
<1>1. /\ BytesOK /\ HostOK /\ SubsOK /\ ListsOK /\ ChipsOK /\ NotTwice
      /\ OnePlace /\ MainsPlace /\ RMWsPlace /\ WaitsInList /\ CoversStored /\ RequestOK
  BY PartsOfDInv
<1> DEFINE kind == IF request.op = "READ" THEN "main" ELSE "rmw"
           lpns == IF request.op = "READ" THEN restSubreqs ELSE Waiting
<1>2. /\ hostPc = "add reads" /\ hostPc' = "wait"
      /\ rList' = [c \in Chips |-> rList[c] \o OfChip(kind, lpns, c)]
      /\ UNCHANGED <<flashVars, stored, copyBuf, request, restSubreqs, marked, sub,
                     wList, reading, ending>>
  BY DEF HostAddReads
<1>3. /\ request \in Requests /\ request.op \in {"READ", "WRITE"}
      /\ restSubreqs \subseteq HostLPNs /\ Waiting \subseteq restSubreqs
  <2>1. request \in Requests /\ restSubreqs \subseteq HostLPNs
    BY <1>1, <1>2 DEF RequestOK, HostOK
  <2>2. \A req \in Requests : req.op \in {"READ", "WRITE"}
    BY DEF Requests
  <2>3. Waiting \subseteq restSubreqs
    BY DEF Waiting
  <2> QED BY <2>1, <2>2, <2>3
<1>4. kind \in {"main", "rmw"} /\ lpns \in SUBSET restSubreqs /\ lpns \in SUBSET HostLPNs
  BY <1>3
<1>5. ASSUME NEW t \in Subs, NEW d \in Chips PROVE ~Contains(rList[d], t)
  <2> SUFFICES ASSUME Contains(rList[d], t) PROVE FALSE
    OBVIOUS
  <2>1. At(t, "read list", d) /\ "read list" \in Kinds
    BY DEF At, Kinds
  <2>2. PICK lpn \in HostLPNs : t = Main(lpn) \/ t = RMW(lpn)
    BY SubNames
  <2>3. t # RMW(lpn)
    BY <1>1, <1>2, <2>1 DEF RMWsPlace
  <2> QED BY <1>1, <1>2, <2>1, <2>2, <2>3 DEF MainsPlace
<1> HIDE DEF kind, lpns
<1>6. ASSUME NEW c \in Chips
      PROVE  /\ rList'[c] \in Seq(Subs) /\ IsInjective(rList'[c])
             /\ \A e : Contains(rList'[c], e) <=>
                  \E lpn \in lpns : e = <<kind, lpn>> /\ ChipOf(sub[e].location[1]) = c
  <2>1. rList[c] \in Seq(Subs) /\ IsInjective(rList[c])
    BY <1>1 DEF ListsOK, NotTwice
  <2>2. LET new == rList[c] \o OfChip(kind, lpns, c)
        IN /\ new \in Seq(Subs) /\ IsInjective(new)
           /\ \A e : Contains(new, e) <=>
                \E lpn \in lpns : e = <<kind, lpn>> /\ ChipOf(sub[e].location[1]) = c
    <3> DEFINE new == rList[c] \o OfChip(kind, lpns, c)
    <3>1. SubsOK /\ \A e \in Subs : ~Contains(rList[c], e)
      BY <1>1, <1>5
    <3>2. new \in Seq(Subs) /\ IsInjective(new)
      BY <1>4, <2>1, <3>1, AddContains
    <3>3. \A e : Contains(new, e) <=>
            \E lpn \in lpns : e = <<kind, lpn>> /\ ChipOf(sub[e].location[1]) = c
      BY <1>4, <2>1, <3>1, AddContains
    <3> QED BY <3>2, <3>3
  <2>3. rList'[c] = rList[c] \o OfChip(kind, lpns, c)
    BY <1>2
  <2> QED BY <2>2, <2>3
<1>7. ListsOK' /\ NotTwice'
  <2>1. rList' \in [Chips -> Seq(Subs)] /\ \A c \in Chips : IsInjective(rList'[c])
    BY <1>2, <1>6
  <2> QED BY <1>1, <1>2, <2>1 DEF ListsOK, NotTwice
<1>8. ASSUME NEW t \in Subs, NEW m \in Kinds, NEW d \in Chips
      PROVE  At(t, m, d)' <=>
               \/ At(t, m, d)
               \/ /\ m = "read list" /\ ChipOf(sub[t].location[1]) = d
                  /\ \E lpn \in lpns : t = <<kind, lpn>>
  <2>1. HostWrites(d)' <=> HostWrites(d)
    BY <1>2 DEF HostWrites, flashVars, vars
  <2>2. UNCHANGED <<wList, reading, ending, cmd>>
    BY <1>2 DEF flashVars, vars
  <2>3. At(t, m, d)' <=> \/ m = "read list"  /\ Contains(rList'[d], t)
                         \/ m = "write list" /\ Contains(wList[d], t)
                         \/ m = "reading"    /\ reading[d].sub = t
                         \/ m = "written"    /\ HostWrites(d) /\ Main(cmd[d].lpn) = t
                         \/ m = "ending"     /\ ending[d] = t
    BY <2>1, <2>2 DEF At
  <2>4. At(t, m, d) <=> \/ m = "write list" /\ Contains(wList[d], t)
                        \/ m = "reading"    /\ reading[d].sub = t
                        \/ m = "written"    /\ HostWrites(d) /\ Main(cmd[d].lpn) = t
                        \/ m = "ending"     /\ ending[d] = t
    BY <1>5 DEF At
  <2>5. Contains(rList'[d], t) <=>
          ChipOf(sub[t].location[1]) = d /\ \E lpn \in lpns : t = <<kind, lpn>>
    BY <1>6
  <2> QED BY <2>3, <2>4, <2>5
<1>9. map' = map /\ sub' = sub /\ request' = request /\ restSubreqs' = restSubreqs
  BY <1>2 DEF flashVars, vars, tables
<1>10. Waiting' = Waiting
  BY <1>9 DEF Waiting
<1>11. ASSUME NEW t \in Subs, \E lpn \in lpns : t = <<kind, lpn>>
       PROVE  \A m \in Kinds, d \in Chips : ~At(t, m, d)
  <2>1. CASE request.op = "READ"
    BY <1>2, <2>1, NothingThere
  <2>2. CASE request.op = "WRITE"
    <3>1. PICK lpn \in HostLPNs : t = RMW(lpn)
      BY <1>4, <1>11, <2>2 DEF kind, RMW
    <3> QED BY <1>1, <1>2, <3>1 DEF RMWsPlace
  <2> QED BY <1>3, <2>1, <2>2
<1>12. OnePlace'
  <2>1. ASSUME NEW t \in Subs, NEW m1 \in Kinds, NEW d1 \in Chips,
               NEW m2 \in Kinds, NEW d2 \in Chips, At(t, m1, d1)', At(t, m2, d2)'
        PROVE  m1 = m2 /\ d1 = d2
    <3>1. CASE \E lpn \in lpns : t = <<kind, lpn>>
      <4>1. ~At(t, m1, d1) /\ ~At(t, m2, d2)
        BY <1>11, <3>1
      <4>2. /\ m1 = "read list" /\ ChipOf(sub[t].location[1]) = d1
            /\ m2 = "read list" /\ ChipOf(sub[t].location[1]) = d2
        BY <1>8, <2>1, <4>1
      <4> QED BY <4>2
    <3>2. CASE ~ \E lpn \in lpns : t = <<kind, lpn>>
      <4>1. At(t, m1, d1) /\ At(t, m2, d2)
        BY <1>8, <2>1, <3>2
      <4> QED BY <1>1, <4>1 DEF OnePlace
    <3> QED BY <3>1, <3>2
  <2> QED BY <2>1 DEF OnePlace
<1>13. MainsPlace'
  <2>1. ASSUME NEW lpn \in HostLPNs, NEW m \in Kinds, NEW d \in Chips, At(Main(lpn), m, d)'
        PROVE  /\ lpn \in restSubreqs
               /\ \/ request.op = "WRITE" /\ m \in {"write list", "written", "ending"}
                  \/ request.op = "READ" /\ m \in {"read list", "reading", "ending"}
    <3>1. CASE At(Main(lpn), m, d)
      BY <1>1, <3>1 DEF MainsPlace
    <3>2. CASE ~At(Main(lpn), m, d)
      <4>1. m = "read list" /\ \E l \in lpns : Main(lpn) = <<kind, l>>
        BY <1>8, <2>1, <3>2, SubNames
      <4>2. request.op = "READ"
        BY <1>3, <4>1, SubNames DEF kind, RMW
      <4>3. lpn \in restSubreqs
        BY <1>4, <4>1, <4>2, SubNames DEF kind, Main
      <4> QED BY <4>1, <4>2, <4>3
    <3> QED BY <3>1, <3>2
  <2> QED BY <1>2, <1>9, <2>1 DEF MainsPlace
<1>14. RMWsPlace'
  <2>1. ASSUME NEW lpn \in HostLPNs, NEW m \in Kinds, NEW d \in Chips, At(RMW(lpn), m, d)'
        PROVE  lpn \in Waiting /\ request.op = "WRITE" /\ m = "read list"
    <3>1. ~At(RMW(lpn), m, d)
      BY <1>1, <1>2 DEF RMWsPlace
    <3>2. m = "read list" /\ \E l \in lpns : RMW(lpn) = <<kind, l>>
      BY <1>8, <2>1, <3>1, SubNames
    <3>3. request.op = "WRITE"
      BY <1>3, <3>2, SubNames DEF kind, Main
    <3>4. lpn \in Waiting
      <4>1. PICK l \in lpns : RMW(lpn) = <<kind, l>>
        BY <3>2
      <4>2. lpn = l
        BY <4>1 DEF RMW
      <4>3. lpns = Waiting
        BY <3>3 DEF lpns
      <4> QED BY <4>2, <4>3
    <3> QED BY <3>2, <3>3, <3>4
  <2> QED BY <1>2, <1>9, <1>10, <2>1 DEF RMWsPlace
<1>15. ASSUME NEW lpn \in HostLPNs, NEW d \in Chips
       PROVE  At(Main(lpn), "write list", d)' <=> At(Main(lpn), "write list", d)
  BY <1>8, SubNames DEF Kinds
<1>16. WaitsInList'
  <2>1. \A lpn \in Waiting : lpn \in HostLPNs
    BY <1>3
  <2> QED BY <1>1, <1>2, <1>9, <1>10, <1>15, <2>1 DEF WaitsInList
<1>17. CoversStored' /\ RequestOK'
  <2>1. \A lpn \in HostLPNs : Unsent(lpn)' => Unsent(lpn)
    BY <1>2, <1>9, <1>15 DEF Unsent
  <2>2. CoversStored'
    BY <1>1, <1>9, <2>1 DEF CoversStored
  <2>3. RequestOK'
    BY <1>2, <1>3, <1>9 DEF RequestOK
  <2> QED BY <2>2, <2>3
<1>18. HostOK'
  BY <1>1, <1>2 DEF HostOK
<1>19. BytesOK' /\ SubsOK' /\ ChipsOK'
  BY <1>1, <1>2, UnchangedParts
<1> QED BY <1>7, <1>12, <1>13, <1>14, <1>16, <1>17, <1>18, <1>19, DInvOfParts DEF Placed

-----------------------------------------------------------------------------
(* The end of a sub-request.                                               *)

\* It leaves: nothing is any more where it was.
LEMMA HostFaultsKeepsDInv ==
  ASSUME DInv, HostFaults
  PROVE  DInv'
<1>1. /\ BytesOK /\ HostOK /\ SubsOK /\ ListsOK /\ ChipsOK /\ NotTwice
      /\ OnePlace /\ MainsPlace /\ RMWsPlace /\ WaitsInList /\ CoversStored /\ RequestOK
  BY PartsOfDInv
<1>2. /\ hostPc = "add reads" /\ hostPc' = "fault"
      /\ UNCHANGED <<flashVars, stored, copyBuf, request, restSubreqs, marked, sub,
                     rList, wList, reading, ending>>
  BY DEF HostFaults
<1>3. UNCHANGED <<map, chipState, inflight, cmd>>
  BY <1>2 DEF flashVars, vars, tables
<1>4. \A t \in Subs, m \in Kinds, d \in Chips : At(t, m, d)' <=> At(t, m, d)
  <2>1. \A d \in Chips : HostWrites(d)' <=> HostWrites(d)
    BY <1>3 DEF HostWrites
  <2> QED BY <1>2, <1>3, <2>1, NothingMoves
<1>5. Waiting' = Waiting
  BY <1>2 DEF Waiting
<1>6. \A lpn \in HostLPNs : Main(lpn) \in Subs /\ RMW(lpn) \in Subs
  BY SubNames
<1>7. restSubreqs \subseteq HostLPNs /\ "write list" \in Kinds
  BY <1>1 DEF HostOK, Kinds
<1>8. OnePlace'
  <2>1. ASSUME NEW t \in Subs, NEW m1 \in Kinds, NEW d1 \in Chips,
               NEW m2 \in Kinds, NEW d2 \in Chips, At(t, m1, d1)', At(t, m2, d2)'
        PROVE  m1 = m2 /\ d1 = d2
    <3>1. At(t, m1, d1) /\ At(t, m2, d2)
      BY <1>4, <2>1
    <3> QED BY <1>1, <3>1 DEF OnePlace
  <2> QED BY <2>1 DEF OnePlace
<1>9. MainsPlace'
  <2>1. ASSUME NEW lpn \in HostLPNs, NEW m \in Kinds, NEW d \in Chips, At(Main(lpn), m, d)'
        PROVE  /\ lpn \in restSubreqs /\ request.op = "WRITE"
               /\ m \in {"write list", "written", "ending"}
    <3>1. At(Main(lpn), m, d)
      BY <1>4, <1>6, <2>1
    <3> QED BY <1>1, <1>2, <3>1 DEF MainsPlace
  <2> QED BY <1>2, <2>1 DEF MainsPlace
<1>10. RMWsPlace'
  <2>1. ASSUME NEW lpn \in HostLPNs, NEW m \in Kinds, NEW d \in Chips, At(RMW(lpn), m, d)'
        PROVE  FALSE
    <3>1. At(RMW(lpn), m, d)
      BY <1>4, <1>6, <2>1
    <3> QED BY <1>1, <1>2, <3>1 DEF RMWsPlace
  <2> QED BY <2>1 DEF RMWsPlace
<1>11. WaitsInList'
  <2>1. Waiting \subseteq HostLPNs
    BY <1>7 DEF Waiting
  <2> QED BY <1>1, <1>2, <1>4, <1>5, <1>6, <1>7, <2>1 DEF WaitsInList
<1>12. CoversStored'
  <2>1. ASSUME NEW lpn \in HostLPNs, Unsent(lpn)' PROVE Unsent(lpn)
    BY <1>2, <1>4, <1>6, <1>7, <2>1 DEF Unsent
  <2> QED BY <1>1, <1>2, <1>3, <2>1 DEF CoversStored
<1>13. RequestOK' /\ HostOK'
  BY <1>1, <1>2 DEF RequestOK, HostOK
<1>14. BytesOK' /\ SubsOK' /\ ListsOK' /\ ChipsOK' /\ NotTwice'
  BY <1>1, <1>2, UnchangedParts DEF NotTwice
<1> QED BY <1>8, <1>9, <1>10, <1>11, <1>12, <1>13, <1>14, DInvOfParts DEF Placed

LEMMA EndingLeaves ==
  ASSUME DInv, NEW c \in Chips, NEW s \in Subs, ending[c] = s,
         ending' = [ending EXCEPT ![c] = NoSub],
         UNCHANGED <<flashVars, rList, wList, reading>>
  PROVE  /\ ChipsOK'
         /\ \A t \in Subs, m \in Kinds, d \in Chips :
              At(t, m, d)' <=> At(t, m, d) /\ t # s
<1>1. ChipsOK
  BY PartsOfDInv
<1>2. ChipsOK'
  BY <1>1 DEF ChipsOK
<1>3. /\ ending'[c] = NoSub
      /\ \A d \in Chips : d # c => ending'[d] = ending[d]
  BY <1>1 DEF ChipsOK
<1>4. At(s, "ending", c) /\ "ending" \in Kinds
  BY DEF At, Kinds
<1>5. ASSUME NEW t \in Subs, NEW m \in Kinds, NEW d \in Chips
      PROVE  At(t, m, d)' <=> At(t, m, d) /\ t # s
  <2>1. HostWrites(d)' <=> HostWrites(d)
    BY DEF HostWrites, flashVars, vars
  <2>2. cmd' = cmd
    BY DEF flashVars, vars
  <2>3. At(t, m, d)' <=> \/ m = "read list"  /\ Contains(rList[d], t)
                         \/ m = "write list" /\ Contains(wList[d], t)
                         \/ m = "reading"    /\ reading[d].sub = t
                         \/ m = "written"    /\ HostWrites(d) /\ Main(cmd[d].lpn) = t
                         \/ m = "ending"     /\ ending'[d] = t
    BY <2>1, <2>2 DEF At
  <2>4. ending'[d] = t <=> d # c /\ ending[d] = t
    BY <1>3, SubNames
  <2>5. At(s, m, d) => m = "ending" /\ d = c
    BY <1>4, OnlyPlace
  <2>6. CASE t = s
    <3>1. At(t, m, d)' => At(t, m, d) /\ ~(m = "ending" /\ d = c)
      BY <2>3, <2>4 DEF At
    <3> QED BY <2>5, <2>6, <3>1
  <2>7. CASE t # s
    BY <2>3, <2>4, <2>7 DEF At
  <2> QED BY <2>6, <2>7
<1> QED BY <1>2, <1>5

LEMMA EndRMWKeepsDInv ==
  ASSUME DInv, NEW c \in Chips, EndRMW(c)
  PROVE  DInv'
<1>1. /\ BytesOK /\ HostOK /\ SubsOK /\ ListsOK /\ ChipsOK /\ NotTwice
      /\ OnePlace /\ MainsPlace /\ RMWsPlace /\ WaitsInList /\ CoversStored /\ RequestOK
  BY PartsOfDInv
<1>2. PICK lpn \in HostLPNs : ending[c] = RMW(lpn)
  <2>1. ending[c][1] = "rmw" /\ ending[c] \in Subs \cup {NoSub}
    BY <1>1 DEF EndRMW, ChipsOK
  <2> QED BY <2>1, SubNames
<1> DEFINE rmw == RMW(lpn)  main == Main(lpn)
           w == sub[main]  r == sub[rmw]
           buf == Overlay(w.buf, r.buf, Missing(r, w))
           new == [w EXCEPT !.bitMap = w.bitMap \cup r.bitMap, !.waits = FALSE, !.buf = buf]
<1>3. /\ rmw \in Subs /\ main \in Subs /\ rmw # main /\ ending[c][2] = lpn
      /\ \A l \in HostLPNs : /\ Main(l) # rmw /\ RMW(l) # main
                             /\ l # lpn => Main(l) # main /\ RMW(l) # rmw
  BY <1>2, SubNames
<1>4. /\ sub' = [sub EXCEPT ![rmw] = FreeSub, ![main] = new]
      /\ ending' = [ending EXCEPT ![c] = NoSub]
      /\ UNCHANGED <<flashVars, stored, copyBuf, hostVars, rList, wList, reading>>
  <2>1. sub' = [sub EXCEPT ![rmw] = FreeSub, ![main] =
          [@ EXCEPT !.bitMap = w.bitMap \cup r.bitMap, !.waits = FALSE, !.buf = buf]]
    BY <1>2, <1>3 DEF EndRMW
  <2>2. [sub EXCEPT ![rmw] = FreeSub][main] = sub[main]
    BY <1>1, <1>3 DEF SubsOK
  <2> QED BY <2>1, <2>2 DEF EndRMW
<1>5. /\ new \in SubOf /\ ~new.waits
      /\ new.bitMap = w.bitMap \cup r.bitMap
  <2>1. w \in SubOf /\ r \in SubOf
    BY <1>1, <1>3 DEF SubsOK
  <2>2. w.buf \in Buffers /\ r.buf \in Buffers
    BY <2>1 DEF SubOf
  <2>3. buf \in Buffers
    BY <2>2, Overlaid
  <2> HIDE DEF buf
  <2> QED BY <2>1, <2>3 DEF SubOf
<1> HIDE DEF new
<1>6. /\ sub'[main] = new /\ SubsOK'
      /\ \A l \in HostLPNs : l # lpn => sub'[Main(l)] = sub[Main(l)] /\ sub'[RMW(l)] = sub[RMW(l)]
  <2>1. sub'[main] = new /\ \A s \in Subs : s # rmw /\ s # main => sub'[s] = sub[s]
    BY <1>1, <1>3, <1>4 DEF SubsOK
  <2>2. SubsOK'
    BY <1>1, <1>4, <1>5, FreeValues DEF SubsOK
  <2> QED BY <1>3, <2>1, <2>2, SubNames
<1>7. /\ ChipsOK'
      /\ \A t \in Subs, m \in Kinds, d \in Chips : At(t, m, d)' <=> At(t, m, d) /\ t # rmw
  <2>1. UNCHANGED <<flashVars, rList, wList, reading>> /\ ending' = [ending EXCEPT ![c] = NoSub]
    BY <1>4
  <2> HIDE DEF rmw
  <2> QED BY <1>2, <1>3, <2>1, EndingLeaves DEF rmw
<1>8. /\ lpn \in Waiting /\ request.op = "WRITE" /\ hostPc = "wait"
  <2>1. At(rmw, "ending", c) /\ "ending" \in Kinds
    BY <1>2 DEF At, Kinds
  <2> QED BY <1>1, <2>1 DEF RMWsPlace
<1>9. /\ map' = map /\ request' = request /\ restSubreqs' = restSubreqs /\ hostPc' = hostPc
      /\ restSubreqs \subseteq HostLPNs
  BY <1>1, <1>4 DEF flashVars, vars, tables, hostVars, HostOK
<1>10. \A l : l \in Waiting' <=> l \in Waiting /\ l # lpn
  <2>1. \A l \in restSubreqs : l # lpn => sub'[Main(l)].waits = sub[Main(l)].waits
    BY <1>6, <1>9
  <2>2. ~sub'[main].waits
    BY <1>5, <1>6
  <2> QED BY <1>9, <2>1, <2>2 DEF Waiting
<1>11. OnePlace'
  <2>1. ASSUME NEW t \in Subs, NEW m1 \in Kinds, NEW d1 \in Chips,
               NEW m2 \in Kinds, NEW d2 \in Chips, At(t, m1, d1)', At(t, m2, d2)'
        PROVE  m1 = m2 /\ d1 = d2
    <3>1. At(t, m1, d1) /\ At(t, m2, d2)
      BY <1>7, <2>1
    <3> QED BY <1>1, <3>1 DEF OnePlace
  <2> QED BY <2>1 DEF OnePlace
<1>12. ASSUME NEW l \in HostLPNs, NEW m \in Kinds, NEW d \in Chips
       PROVE  /\ At(Main(l), m, d)' <=> At(Main(l), m, d)
              /\ At(RMW(l), m, d)' <=> At(RMW(l), m, d) /\ l # lpn
  <2>1. Main(l) \in Subs /\ RMW(l) \in Subs
    BY SubNames
  <2> QED BY <1>3, <1>7, <2>1
<1>13. MainsPlace'
  BY <1>1, <1>9, <1>12 DEF MainsPlace
<1>14. RMWsPlace'
  BY <1>1, <1>9, <1>10, <1>12 DEF RMWsPlace
<1>15. "write list" \in Kinds
  BY DEF Kinds
<1>16. WaitsInList'
  <2>1. ASSUME NEW l \in Waiting
        PROVE  \E d \in Chips : At(Main(l), "write list", d)'
    <3>1. PICK d \in Chips : At(Main(l), "write list", d)
      BY <1>1, <1>8 DEF WaitsInList
    <3>2. l \in HostLPNs
      BY <1>9 DEF Waiting
    <3> QED BY <1>12, <1>15, <3>1, <3>2
  <2> QED BY <1>10, <2>1 DEF WaitsInList
<1>17. CoversStored'
  <2>1. ASSUME NEW l \in HostLPNs, Unsent(l)' PROVE Unsent(l)
    BY <1>9, <1>12, <1>15, <2>1 DEF Unsent
  <2>2. ASSUME NEW l \in HostLPNs, Unsent(l)
        PROVE  /\ sub'[Main(l)].bitMap # {}
               /\ map[l].subPage \subseteq
                    sub'[Main(l)].bitMap \cup
                      (IF sub'[Main(l)].waits THEN sub'[RMW(l)].bitMap ELSE {})
    <3>1. /\ sub[Main(l)].bitMap # {}
          /\ map[l].subPage \subseteq
               sub[Main(l)].bitMap \cup
                 (IF sub[Main(l)].waits THEN sub[RMW(l)].bitMap ELSE {})
      BY <1>1, <2>2 DEF CoversStored
    <3>2. CASE l = lpn
      BY <1>5, <1>6, <3>1, <3>2
    <3>3. CASE l # lpn
      BY <1>6, <3>1, <3>3
    <3> QED BY <3>2, <3>3
  <2> QED BY <1>9, <2>1, <2>2 DEF CoversStored
<1>18. RequestOK'
  BY <1>1, <1>9 DEF RequestOK
<1>19. BytesOK' /\ HostOK' /\ ListsOK' /\ NotTwice'
  BY <1>1, <1>4, UnchangedParts
<1> QED BY <1>6, <1>7, <1>11, <1>13, <1>14, <1>16, <1>17, <1>18, <1>19, DInvOfParts DEF Placed

LEMMA EndMainKeepsDInv ==
  ASSUME DInv, NEW c \in Chips, EndMain(c)
  PROVE  DInv'
<1>1. /\ BytesOK /\ HostOK /\ SubsOK /\ ListsOK /\ ChipsOK /\ NotTwice
      /\ OnePlace /\ MainsPlace /\ RMWsPlace /\ WaitsInList /\ CoversStored /\ RequestOK
  BY PartsOfDInv
<1>2. PICK lpn \in HostLPNs : ending[c] = Main(lpn)
  <2>1. ending[c][1] = "main" /\ ending[c] \in Subs \cup {NoSub}
    BY <1>1 DEF EndMain, ChipsOK
  <2> QED BY <2>1, SubNames
<1> DEFINE main == Main(lpn)
<1>3. /\ main \in Subs /\ ending[c][2] = lpn
      /\ \A l \in HostLPNs : RMW(l) # main /\ (l # lpn => Main(l) # main)
  BY <1>2, SubNames
<1>4. /\ restSubreqs' = restSubreqs \ {lpn}
      /\ \/ restSubreqs' # {} /\ UNCHANGED <<request, sub, hostPc>>
         \/ /\ restSubreqs' = {} /\ request' = NoRequest /\ hostPc' = "idle"
            /\ sub' = [s \in Subs |-> FreeSub]
      /\ ending' = [ending EXCEPT ![c] = NoSub]
      /\ UNCHANGED <<flashVars, stored, copyBuf, marked, rList, wList, reading>>
  BY <1>3 DEF EndMain
<1>5. /\ ChipsOK'
      /\ \A t \in Subs, m \in Kinds, d \in Chips : At(t, m, d)' <=> At(t, m, d) /\ t # main
  <2>1. UNCHANGED <<flashVars, rList, wList, reading>>
    BY <1>4
  <2> HIDE DEF main
  <2> QED BY <1>2, <1>3, <1>4, <2>1, EndingLeaves DEF main
<1>6. /\ map' = map /\ restSubreqs \subseteq HostLPNs /\ restSubreqs' \subseteq restSubreqs
      /\ "write list" \in Kinds
  BY <1>1, <1>4 DEF flashVars, vars, tables, HostOK, Kinds
<1>7. ASSUME NEW l \in HostLPNs, NEW m \in Kinds, NEW d \in Chips
      PROVE  /\ At(Main(l), m, d)' <=> At(Main(l), m, d) /\ l # lpn
             /\ At(RMW(l), m, d)' <=> At(RMW(l), m, d)
  <2>1. Main(l) \in Subs /\ RMW(l) \in Subs
    BY SubNames
  <2> QED BY <1>3, <1>5, <2>1
\* The page has no read under way: it would still be waiting in a list.
<1>8. ASSUME NEW m \in Kinds, NEW d \in Chips, At(RMW(lpn), m, d) PROVE FALSE
  <2>1. lpn \in Waiting /\ request.op = "WRITE" /\ hostPc = "wait"
    BY <1>1, <1>8 DEF RMWsPlace
  <2>2. PICK e \in Chips : At(main, "write list", e)
    BY <1>1, <2>1 DEF WaitsInList
  <2>3. At(main, "ending", c) /\ "ending" \in Kinds
    BY <1>2 DEF At, Kinds
  <2>4. "write list" # "ending"
    OBVIOUS
  <2> QED BY <1>3, <1>6, <2>2, <2>3, <2>4, OnlyPlace
<1>9. OnePlace'
  <2>1. ASSUME NEW t \in Subs, NEW m1 \in Kinds, NEW d1 \in Chips,
               NEW m2 \in Kinds, NEW d2 \in Chips, At(t, m1, d1)', At(t, m2, d2)'
        PROVE  m1 = m2 /\ d1 = d2
    <3>1. At(t, m1, d1) /\ At(t, m2, d2)
      BY <1>5, <2>1
    <3> QED BY <1>1, <3>1 DEF OnePlace
  <2> QED BY <2>1 DEF OnePlace
<1>10. ASSUME NEW l \in HostLPNs, NEW m \in Kinds, NEW d \in Chips,
              At(Main(l), m, d)' \/ At(RMW(l), m, d)'
       PROVE  l \in restSubreqs'
  <2>1. l \in restSubreqs
    BY <1>1, <1>7, <1>10 DEF MainsPlace, RMWsPlace, Waiting
  <2>2. l # lpn
    BY <1>7, <1>8, <1>10
  <2> QED BY <1>4, <2>1, <2>2
<1>11. BytesOK' /\ ListsOK' /\ NotTwice'
  BY <1>1, <1>4, UnchangedParts
<1>12. CASE restSubreqs' # {}
  <2>1. UNCHANGED <<request, sub, hostPc>>
    BY <1>4, <1>12
  <2>2. \A l : l \in Waiting' <=> l \in Waiting /\ l # lpn
    BY <1>4, <2>1 DEF Waiting
  <2>3. MainsPlace'
    <3>1. ASSUME NEW l \in HostLPNs, NEW m \in Kinds, NEW d \in Chips, At(Main(l), m, d)'
          PROVE  At(Main(l), m, d) /\ l \in restSubreqs'
      BY <1>7, <1>10, <3>1
    <3> QED BY <1>1, <2>1, <3>1 DEF MainsPlace
  <2>4. RMWsPlace'
    <3>1. ASSUME NEW l \in HostLPNs, NEW m \in Kinds, NEW d \in Chips, At(RMW(l), m, d)'
          PROVE  At(RMW(l), m, d) /\ l # lpn
      BY <1>7, <1>8, <3>1
    <3> QED BY <1>1, <2>1, <2>2, <3>1 DEF RMWsPlace
  <2>5. WaitsInList'
    <3>1. ASSUME request.op = "WRITE", hostPc # "add writes", NEW l \in Waiting, l # lpn
          PROVE  \E d \in Chips : At(Main(l), "write list", d)'
      <4>1. PICK d \in Chips : At(Main(l), "write list", d)
        BY <1>1, <3>1 DEF WaitsInList
      <4>2. l \in HostLPNs
        BY <1>6 DEF Waiting
      <4> QED BY <1>6, <1>7, <3>1, <4>1, <4>2
    <3> QED BY <2>1, <2>2, <3>1 DEF WaitsInList
  <2>6. CoversStored'
    <3>1. ASSUME NEW l \in HostLPNs, Unsent(l)' PROVE Unsent(l)
      BY <1>6, <1>7, <2>1, <3>1 DEF Unsent
    <3> QED BY <1>1, <1>6, <2>1, <3>1 DEF CoversStored
  <2>7. RequestOK'
    <3>1. hostPc = "idle" => restSubreqs' = {}
      BY <1>1, <1>6 DEF RequestOK
    <3> QED BY <1>1, <2>1, <3>1 DEF RequestOK
  <2>8. HostOK' /\ SubsOK'
    BY <1>1, <1>4, <1>6, <2>1 DEF HostOK, SubsOK
  <2> QED BY <1>5, <1>9, <1>11, <2>3, <2>4, <2>5, <2>6, <2>7, <2>8, DInvOfParts DEF Placed
<1>13. CASE restSubreqs' = {}
  <2>1. request' = NoRequest /\ hostPc' = "idle" /\ sub' = [s \in Subs |-> FreeSub]
    BY <1>4, <1>13
  <2>2. \A l \in HostLPNs, m \in Kinds, d \in Chips : ~At(Main(l), m, d)' /\ ~At(RMW(l), m, d)'
    BY <1>10, <1>13
  <2>3. MainsPlace' /\ RMWsPlace'
    BY <2>2 DEF MainsPlace, RMWsPlace
  <2>4. NoRequest.op = "NONE"
    BY DEF NoRequest
  <2>5. WaitsInList' /\ RequestOK'
    BY <1>13, <2>1, <2>4 DEF WaitsInList, RequestOK
  <2>6. CoversStored'
    BY <1>13 DEF CoversStored, Unsent
  <2>7. HostOK' /\ SubsOK'
    BY <1>1, <1>4, <1>13, <2>1, FreeValues DEF HostOK, SubsOK
  <2> QED BY <1>5, <1>9, <1>11, <2>3, <2>5, <2>6, <2>7, DInvOfParts DEF Placed
<1> QED BY <1>12, <1>13

-----------------------------------------------------------------------------
(* The theorems.                                                           *)

LEMMA InitDInv == DataInit => DInv
<1> SUFFICES ASSUME DataInit PROVE DInv
  OBVIOUS
<1>1. /\ stored = [loc \in Locations |-> FreeSub.buf]
      /\ copyBuf = [p \in Planes |-> FreeSub.buf]
      /\ request = NoRequest /\ restSubreqs = {} /\ hostPc = "idle" /\ marked = FALSE
      /\ sub = [s \in Subs |-> FreeSub]
      /\ rList = [c \in Chips |-> <<>>] /\ wList = [c \in Chips |-> <<>>]
      /\ reading = [c \in Chips |-> NotReading] /\ ending = [c \in Chips |-> NoSub]
      /\ chipState = [c \in Chips |-> "IDLE"]
  BY DEF DataInit, Init
<1>2. BytesOK /\ SubsOK /\ ChipsOK
  BY <1>1, FreeValues DEF BytesOK, SubsOK, ChipsOK
<1>3. HostOK
  BY <1>1 DEF HostOK
<1>4. IsInjective(<<>>) /\ <<>> \in Seq(Subs)
  BY DEF IsInjective
<1>5. ListsOK /\ NotTwice
  BY <1>1, <1>4 DEF ListsOK, NotTwice
<1>6. ASSUME NEW t \in Subs, NEW m \in Kinds, NEW d \in Chips PROVE ~At(t, m, d)
  <2>1. ~Contains(rList[d], t) /\ ~Contains(wList[d], t)
    BY <1>1, ContainsOne
  <2>2. reading[d].sub # t /\ ending[d] # t
    BY <1>1, SubNames DEF NotReading
  <2>3. ~HostWrites(d)
    BY <1>1 DEF HostWrites
  <2> QED BY <2>1, <2>2, <2>3 DEF At
<1>7. OnePlace /\ MainsPlace /\ RMWsPlace
  BY <1>6, SubNames DEF OnePlace, MainsPlace, RMWsPlace
<1>8. NoRequest.op = "NONE"
  BY DEF NoRequest
<1>9. WaitsInList /\ CoversStored /\ RequestOK
  BY <1>1, <1>8 DEF WaitsInList, CoversStored, Unsent, RequestOK
<1> QED BY <1>2, <1>3, <1>5, <1>7, <1>9, DataTypeParts DEF DInv

LEMMA DataStutterKeepsDInv ==
  ASSUME DInv, UNCHANGED allVars
  PROVE  DInv'
<1>1. /\ BytesOK /\ HostOK /\ SubsOK /\ ListsOK /\ ChipsOK /\ NotTwice
  BY PartsOfDInv
<1>2. /\ UNCHANGED <<stored, copyBuf>> /\ UNCHANGED hostVars /\ UNCHANGED sub
      /\ UNCHANGED <<rList, wList>> /\ UNCHANGED <<reading, ending>>
      /\ map' = map /\ chipState' = chipState /\ inflight' = inflight /\ cmd' = cmd
  BY DEF allVars, dataVars, flashVars, vars, tables
<1>3. \A d \in Chips : HostWrites(d)' <=> HostWrites(d)
  BY <1>2 DEF HostWrites
<1>4. \A t \in Subs, m \in Kinds, d \in Chips : At(t, m, d)' <=> At(t, m, d)
  BY <1>2, <1>3, NothingMoves
<1>5. RequestKept
  BY <1>2, SubsKept
<1>6. Placed'
  BY <1>2, <1>4, <1>5, StayKeeps
<1> QED BY <1>1, <1>2, <1>6, UnchangedParts, DInvOfParts

LEMMA DataNextKeepsDInv ==
  ASSUME IInv, NoneRefused, CInv, DInv, [DataNext]_allVars
  PROVE  DInv'
<1>1. CASE UNCHANGED allVars
  BY <1>1, DataStutterKeepsDInv
<1>2. CASE HostSubmit
  BY <1>2, HostSubmitKeepsDInv
<1>3. CASE HostAddWrites
  BY <1>3, HostAddWritesKeepsDInv
<1>4. CASE HostAddReads
  BY <1>4, HostAddReadsKeepsDInv
<1>6. CASE HostFaults
  BY <1>6, HostFaultsKeepsDInv
<1>5. ASSUME NEW c \in Chips,
             \/ DispatchRead(c) \/ DispatchReadTransfer(c) \/ DispatchWrite(c)
             \/ CopyReadData(c) \/ CopyWrite(c) \/ CopyReadPage(c) \/ EraseBlock(c)
             \/ ReadAddressed(c) \/ ReadTransferred(c) \/ CompleteCommand(c)
             \/ Collect(c) \/ EndRMW(c) \/ EndMain(c)
      PROVE  DInv'
  <2>1. CASE \/ CopyReadData(c) \/ CopyWrite(c) \/ CopyReadPage(c) \/ EraseBlock(c) \/ Collect(c)
    BY <2>1, CopyStepsKeepDInv
  <2>2. CASE DispatchRead(c)
    BY <2>2, DispatchReadKeepsDInv
  <2>3. CASE DispatchReadTransfer(c)
    BY <2>3, DispatchReadTransferKeepsDInv
  <2>4. CASE DispatchWrite(c)
    BY <2>4, DispatchWriteKeepsDInv
  <2>5. CASE ReadAddressed(c)
    BY <2>5, ReadAddressedKeepsDInv
  <2>6. CASE ReadTransferred(c)
    BY <2>6, ReadTransferredKeepsDInv
  <2>7. CASE CompleteCommand(c)
    BY <2>7, CompleteCommandKeepsDInv
  <2>8. CASE EndRMW(c)
    BY <2>8, EndRMWKeepsDInv
  <2>9. CASE EndMain(c)
    BY <2>9, EndMainKeepsDInv
  <2> QED BY <1>5, <2>1, <2>2, <2>3, <2>4, <2>5, <2>6, <2>7, <2>8, <2>9
<1> QED BY <1>1, <1>2, <1>3, <1>4, <1>5, <1>6 DEF DataNext

LEMMA DataInvariance == DataSpec /\ []NoneRefused => [](IInv /\ CInv /\ DInv)
<1>1. DataInit => IInv /\ CInv /\ DInv
  BY InitIInv, InitCInv, InitDInv DEF DataInit
<1>2. ASSUME IInv, NoneRefused, CInv, DInv, [DataNext]_allVars
      PROVE  IInv' /\ CInv' /\ DInv'
  <2>1. [Next]_vars
    BY <1>2, DataStepIsFlashStep
  <2>2. IInv'
    BY <1>2, <2>1, NextKeepsIInv
  <2>3. CInv'
    BY <1>2, <2>1, <2>2, NextKeepsCInv
  <2>4. DInv'
    BY <1>2, DataNextKeepsDInv
  <2> QED BY <2>2, <2>3, <2>4
<1>3. (IInv /\ CInv /\ DInv) /\ NoneRefused /\ [DataNext]_allVars => (IInv /\ CInv /\ DInv)'
  BY <1>2
<1> QED BY <1>1, <1>3, PTL DEF DataSpec

(* The requests of the host drive the tables as Flash allows: a write that  *)
(* reaches a chip, however long after its request was cut into pages, still *)
(* covers, with what its read brought, all that is stored of its page.      *)
THEOREM DataPathImplementsFlash == DataSpec /\ []NoneRefused => IsFlash
<1>1. DataInit => Init
  BY DEF DataInit
<1>2. DInv /\ [DataNext]_allVars => [Next]_vars
  BY DataStepIsFlashStep
<1> QED BY <1>1, <1>2, DataInvariance, PTL DEF DataSpec, IsFlash, Spec

(* Every buffer, list and sub-request of a request keeps its shape.         *)
THEOREM DataTypeCorrect == DataSpec /\ []NoneRefused => []DataTypeOK
<1>1. DInv => DataTypeOK
  BY DEF DInv
<1> QED BY <1>1, DataInvariance, PTL

(* A sub-request is in one list, one command or one work item at a time, so *)
(* it is written once and ended once; and a write that waits for its read   *)
(* is not sent before the read has ended.                                   *)
THEOREM SubsInOnePlace == DataSpec /\ []NoneRefused => [](OnePlace /\ NotTwice /\ WaitsInList)
<1>1. DInv => OnePlace /\ NotTwice /\ WaitsInList
  BY DEF DInv
<1> QED BY <1>1, DataInvariance, PTL

(* So under the requests of the host the map and the page table stay        *)
(* inverse, the counters count, erasures hit nothing stored and copies are  *)
(* current: what is proved of Flash holds of the path of the sectors.       *)
THEOREM TablesUnderRequests ==
  DataSpec /\ []NoneRefused =>
    [](MapAndPagesAgree /\ CountersAgree /\ EraseIsSafe /\ CopyIsCurrent) /\ CollectionKeepsMap
  BY DataPathImplementsFlash, MapAgrees, AllCounted, SafeErase, CurrentCopy,
     CollectionIsInvisible, PTL DEF IsFlash

(* And a write of the host always finds a page, on a device with room.      *)
THEOREM RequestsFindRoom ==
  ASSUME EnoughRoom
  PROVE  DataSpec /\ []NoneRefused => []NeverSpins
  BY DataPathImplementsFlash, SearchAlwaysEnds, PTL DEF IsFlash

(* Where no number of a page is refused the hypothesis falls away.          *)
THEOREM DataPathWithoutRefusals ==
  ASSUME PPNs \subseteq LPNs
  PROVE  DataSpec => IsFlash /\ []DataTypeOK
<1>1. TypeOK => NoneRefused
  BY DEF TypeOK, NoneRefused
<1>2. IInv => TypeOK
  BY DEF IInv
<1>3. DataInit => IInv /\ CInv /\ DInv
  BY InitIInv, InitCInv, InitDInv DEF DataInit
<1>4. ASSUME IInv, CInv, DInv, [DataNext]_allVars
      PROVE  IInv' /\ CInv' /\ DInv'
  <2>1. [Next]_vars /\ NoneRefused
    BY <1>1, <1>2, <1>4, DataStepIsFlashStep
  <2>2. IInv'
    BY <1>4, <2>1, NextKeepsIInv
  <2>3. CInv'
    BY <1>4, <2>1, <2>2, NextKeepsCInv
  <2>4. DInv'
    BY <1>4, <2>1, DataNextKeepsDInv
  <2> QED BY <2>2, <2>3, <2>4
<1>5. (IInv /\ CInv /\ DInv) /\ [DataNext]_allVars => (IInv /\ CInv /\ DInv)'
  BY <1>4
<1>6. DataSpec => []NoneRefused
  BY <1>1, <1>2, <1>3, <1>5, PTL DEF DataSpec
<1> QED BY <1>6, DataPathImplementsFlash, DataTypeCorrect, PTL

-----------------------------------------------------------------------------
(* The bytes.                                                              *)

\* Two buffers hold the same in the sectors of the bitMap.
Agree(a, b, bitMap) == \A i \in bitMap : a[i] = b[i]

\* A write of the host goes to the plane of its page.
WritesInPlace ==
  request.op = "WRITE" => \A lpn \in restSubreqs :
    sub[Main(lpn)].location[1] = allocate_location_for_plane(lpn)

\* The page a collection copies, and what its chip does with it.
From(p) == <<p, eraseBlock[p], EPage[p]>>
Does(p, state) == chipState[ChipOf(p)] = state /\ inflight[ChipOf(p)] = p

\* The copy has the bytes of the page it is of, in its buffer and then in the
\* hardware.
CopyOf(p) ==
  /\ cmd[p].operation = "READ" => cmd[p].location = From(p)
  /\ Does(p, "READ_DATA") \/ CopyRead(p) =>
       Agree(copyBuf[p], stored[From(p)], FirstRun(cmd[p].bitMap))
  /\ Does(p, "PROGRAM") =>
       Agree(stored[cmd[p].location], stored[From(p)], FirstRun(cmd[p].bitMap))
CopiesOK == \A p \in Planes : CopyOf(p)

\* The steps of the hardware and of collection.
FlashStep(c) ==
  \/ DispatchWrite(c) \/ CopyReadData(c) \/ CopyWrite(c) \/ CopyReadPage(c)
  \/ EraseBlock(c) \/ CompleteCommand(c) \/ Collect(c)

LEMMA TwoKindsOfSteps ==
  ASSUME [DataNext]_allVars
  PROVE  \/ UNCHANGED <<flashVars, stored, copyBuf>>
         \/ \E c \in Chips : FlashStep(c) /\ UNCHANGED <<hostVars, sub, rList, reading>>
<1>1. CASE UNCHANGED allVars
  BY <1>1 DEF allVars, dataVars
<1>2. CASE HostSubmit \/ HostAddWrites \/ HostAddReads \/ HostFaults
  BY <1>2 DEF HostSubmit, HostAddWrites, HostAddReads, HostFaults
<1>3. ASSUME NEW c \in Chips,
             \/ DispatchRead(c) \/ DispatchReadTransfer(c) \/ ReadAddressed(c)
             \/ ReadTransferred(c) \/ EndRMW(c) \/ EndMain(c)
      PROVE  UNCHANGED <<flashVars, stored, copyBuf>>
  BY <1>3 DEF DispatchRead, DispatchReadTransfer, ReadAddressed, ReadTransferred, EndRMW,
              EndMain
<1>4. ASSUME NEW c \in Chips, FlashStep(c)
      PROVE  UNCHANGED <<hostVars, sub, rList, reading>>
  BY <1>4 DEF FlashStep, DispatchWrite, CopyReadData, CopyWrite, CopyReadPage, EraseBlock,
              CompleteCommand, Collect, dataVars
<1> QED BY <1>1, <1>2, <1>3, <1>4 DEF DataNext, FlashStep

\* A write of the host is sent.
LEMMA WriteSent ==
  ASSUME IInv, DInv, WritesInPlace, NEW c \in Chips, DispatchWrite(c)
  PROVE  \E lpn \in HostLPNs :
           LET plane == allocate_location_for_plane(lpn)
           IN /\ At(Main(lpn), "write list", c) /\ plane \in PlanesOf(c)
              /\ Frontier(plane) \in Locations /\ Frontier(plane)[1] = plane
              /\ StartsProgram(c, c, plane)
              /\ cmd'[c].lpn = lpn /\ cmd'[c].bitMap = sub[Main(lpn)].bitMap
              /\ Program(Frontier(plane), sub[Main(lpn)].buf, sub[Main(lpn)].bitMap)
<1>1. PICK i \in DOMAIN wList[c] :
        /\ ~sub[wList[c][i]].waits
        /\ SendHostWrite(c, wList[c][i][2], sub[wList[c][i]].bitMap)
        /\ Program(Frontier(sub[wList[c][i]].location[1]), sub[wList[c][i]].buf,
                   sub[wList[c][i]].bitMap)
  BY DEF DispatchWrite, IsNextWrite
<1>2. PICK lpn \in HostLPNs :
        /\ wList[c][i] = Main(lpn) /\ wList[c][i][2] = lpn
        /\ At(Main(lpn), "write list", c)
        /\ sub[Main(lpn)].bitMap \in SUBSET SubPages
  BY <1>1, NextWrite
<1> DEFINE plane == allocate_location_for_plane(lpn)
<1>3. ~spinning /\ chipState[c] = "IDLE"
  BY DEF DispatchWrite, Free, Stopped
<1>4. sub[Main(lpn)].location[1] = plane
  <2>1. "write list" \in Kinds
    BY DEF Kinds
  <2>2. lpn \in restSubreqs /\ request.op = "WRITE"
    BY <1>2, <2>1, PartsOfDInv DEF MainsPlace
  <2> QED BY <2>2 DEF WritesInPlace
<1>5. SendHostWrite(c, lpn, sub[Main(lpn)].bitMap)
  BY <1>1, <1>2
<1>6. /\ cmd'[c].lpn = lpn /\ cmd'[c].bitMap = sub[Main(lpn)].bitMap
      /\ plane \in PlanesOf(c) /\ StartsProgram(c, c, plane)
  <2> PICK bitMap \in SUBSET SubPages : bitMap = sub[Main(lpn)].bitMap
    BY <1>2
  <2>1. SendHostWrite(c, lpn, bitMap)
    BY <1>5
  <2>2. /\ cmd'[c].lpn = lpn /\ cmd'[c].bitMap = bitMap
        /\ plane \in PlanesOf(c) /\ StartsProgram(c, c, plane)
    BY <1>3, <2>1, SendHostWriteStarts
  <2> QED BY <2>2
<1>7. Frontier(plane) \in Locations /\ Frontier(plane)[1] = plane
  <2>1. plane \in Planes /\ allocate_location_in_plane(plane)
    BY <1>6 DEF StartsProgram, PlanesOf
  <2> QED BY <1>3, <2>1, FrontierExists
<1>8. Program(Frontier(plane), sub[Main(lpn)].buf, sub[Main(lpn)].bitMap)
  BY <1>1, <1>2, <1>4
<1> QED BY <1>2, <1>6, <1>7, <1>8

\* A copy is sent.
LEMMA CopySent ==
  ASSUME IInv, NEW c \in Chips, CopyWrite(c)
  PROVE  LET p == Collected(c)
         IN /\ p \in PlanesOf(c) /\ CopyRead(p) /\ eraseCommands[c] # <<>>
            /\ Frontier(p) \in Locations /\ Frontier(p)[1] = p
            /\ StartsProgram(c, p, p)
            /\ cmd'[p].bitMap = cmd[p].bitMap
            /\ Program(Frontier(p), copyBuf[p], cmd[p].bitMap) /\ UNCHANGED copyBuf
<1> DEFINE p == Collected(c)
<1>1. /\ ~spinning /\ chipState[c] = "IDLE" /\ DispatchCopyWrite(c)
      /\ Program(Frontier(p), copyBuf[p], cmd[p].bitMap) /\ UNCHANGED copyBuf
  BY DEF CopyWrite, Free, Stopped
<1>2. /\ p \in PlanesOf(c) /\ EraseIsNext(c) /\ CopyRead(p) /\ StartsProgram(c, p, p)
      /\ cmd'[p].bitMap = cmd[p].bitMap
  BY <1>1, CopyWriteStarts
<1>3. p \in Planes /\ allocate_location_in_plane(p)
  BY <1>2 DEF PlanesOf, StartsProgram
<1>4. Frontier(p) \in Locations /\ Frontier(p)[1] = p
  BY <1>1, <1>3, FrontierExists
<1> QED BY <1>1, <1>2, <1>4 DEF EraseIsNext

\* The only page whose bytes a step changes is the one a plane writes next.
LEMMA BytesMove ==
  ASSUME IInv, DInv, WritesInPlace, NEW c \in Chips, FlashStep(c),
         NEW loc \in Locations, stored'[loc] # stored[loc]
  PROVE  /\ loc = Frontier(loc[1]) /\ ChipOf(loc[1]) = c /\ chipState[c] = "IDLE"
         /\ DispatchWrite(c) \/ (CopyWrite(c) /\ loc[1] = Collected(c))
<1>1. CASE DispatchWrite(c)
  <2>1. PICK lpn \in HostLPNs :
          /\ allocate_location_for_plane(lpn) \in PlanesOf(c)
          /\ Frontier(allocate_location_for_plane(lpn))[1] = allocate_location_for_plane(lpn)
          /\ Program(Frontier(allocate_location_for_plane(lpn)), sub[Main(lpn)].buf,
                     sub[Main(lpn)].bitMap)
    BY <1>1, WriteSent
  <2>2. loc = Frontier(allocate_location_for_plane(lpn))
    BY <2>1 DEF Program
  <2>3. loc[1] = allocate_location_for_plane(lpn)
    BY <2>1, <2>2
  <2>4. loc = Frontier(loc[1]) /\ ChipOf(loc[1]) = c
    BY <2>1, <2>2, <2>3 DEF PlanesOf
  <2> QED BY <1>1, <2>4 DEF DispatchWrite, Free
<1>2. CASE CopyWrite(c)
  <2> DEFINE p == Collected(c)
  <2>1. /\ p \in PlanesOf(c) /\ Frontier(p)[1] = p
        /\ Program(Frontier(p), copyBuf[p], cmd[p].bitMap)
    BY <1>2, CopySent
  <2>2. loc = Frontier(p)
    BY <2>1 DEF Program
  <2> HIDE DEF p
  <2>3. loc[1] = p /\ ChipOf(loc[1]) = c /\ loc = Frontier(loc[1])
    BY <2>1, <2>2 DEF PlanesOf
  <2> QED BY <1>2, <2>3 DEF CopyWrite, Free, p
<1>3. CASE \/ CopyReadData(c) \/ CopyReadPage(c) \/ EraseBlock(c) \/ CompleteCommand(c)
           \/ Collect(c)
  BY <1>3 DEF CopyReadData, CopyReadPage, EraseBlock, CompleteCommand, Collect, dataVars
<1> QED BY <1>1, <1>2, <1>3 DEF FlashStep

\* That page holds no data, is not being programmed, and is in no block that is
\* to be erased.
LEMMA FrontierIsNew ==
  ASSUME IInv, CInv, NEW loc \in Locations,
         \/ pageInfos[loc].state # {}
         \/ loc \in Programmed(ChipOf(loc[1]))
         \/ eraseUsed[loc[1]] /\ loc[2] = eraseBlock[loc[1]]
  PROVE  loc # Frontier(loc[1])
<1> SUFFICES ASSUME loc = Frontier(loc[1]) PROVE FALSE
  OBVIOUS
<1>1. /\ loc[2] = activeBlock[loc[1]]
      /\ loc[3] = blockInfos[<<loc[1], activeBlock[loc[1]]>>].startWrite
  BY DEF Frontier
<1>2. loc[3] \in Int /\ loc[1] \in Planes
  BY Sizes DEF Locations, PageNos
<1>3. CASE pageInfos[loc].state # {} \/ loc \in Programmed(ChipOf(loc[1]))
  <2>1. loc[3] < blockInfos[<<loc[1], loc[2]>>].startWrite
    BY <1>3, WriteFrontierParts DEF IInv, PagesBelow
  <2> QED BY <1>1, <1>2, <2>1
<1>4. CASE eraseUsed[loc[1]] /\ loc[2] = eraseBlock[loc[1]]
  <2>1. ChipOf(loc[1]) \in Chips /\ loc[1] \in PlanesOf(ChipOf(loc[1]))
    BY <1>2, ChipsAndPlanes DEF PlanesOf
  <2>2. VictimOK(loc[1])
    BY <2>1 DEF CInv, ChipOK
  <2> QED BY <1>1, <1>4, <2>2 DEF VictimOK
<1> QED BY <1>3, <1>4

-----------------------------------------------------------------------------
(* What a copy copies.                                                     *)

\* A copy that is being made is of a page with data, which the map names.
LEMMA CopyIsOfPage ==
  ASSUME IInv, CInv, NEW p \in Planes,
         CopyUnderWay(p) \/ CopyRead(p) \/ Does(p, "READ_DATA") \/ Does(p, "PROGRAM")
  PROVE  /\ From(p) \in Locations /\ pageInfos[From(p)].state # {} /\ eraseUsed[p]
         /\ cmd[p].lpn \in HostLPNs
         /\ map[cmd[p].lpn].subPage = cmd[p].bitMap
         /\ map[cmd[p].lpn].ppn = get_PPN_From_Detail(From(p))
         /\ p = allocate_location_for_plane(cmd[p].lpn)
         /\ Does(p, "READ_DATA") => cmd[p].operation = "READ" /\ ~cmd[p].completed
         /\ Does(p, "PROGRAM") => /\ cmd[p].operation = "WRITE" /\ ~cmd[p].completed
                                  /\ cmd[p].location \in Programmed(ChipOf(p))
                                  /\ cmd[p].location \in Locations
                                  /\ cmd[p].location[1] = p
<1> DEFINE c == ChipOf(p)
<1>1. /\ c \in Chips /\ p \in PlanesOf(c) /\ p \in CommandIDs /\ QueuesOK
      /\ cmd[p] \in CommandOf
  BY ChipsAndPlanes, TypeParts DEF PlanesOf, IInv, CommandIDs, QueuesOK
<1>2. WriteOK(c) /\ ReadOK(c) /\ CopyOK(p) /\ PhaseOK(c, p)
  BY <1>1 DEF CInv, ChipOK
<1>3. Does(p, "READ_DATA") => cmd[p].operation = "READ" /\ ~cmd[p].completed
  BY <1>2 DEF ReadOK, Does
<1>4. Does(p, "PROGRAM") => cmd[p].operation = "WRITE" /\ ~cmd[p].completed
  BY <1>2 DEF WriteOK, Does
<1>5. CopyUnderWay(p) \/ CopyRead(p)
  BY <1>3, <1>4 DEF CopyUnderWay
<1>6. cmd[p].operation # "NONE"
  BY <1>5 DEF CopyUnderWay, CopyRead
<1>7. eraseUsed[p]
  <2>1. eraseCommands[c] # <<>> /\ Head(eraseCommands[c]) = p
    BY <1>2, <1>6 DEF PhaseOK
  <2> QED BY <1>1, <2>1, HeadIsUsed DEF Collected
<1>8. /\ EPage[p] \in PageNos /\ cmd[p].bitMap # {}
      /\ pageInfos[From(p)] = [state |-> cmd[p].bitMap, lpn |-> cmd[p].lpn]
  BY <1>2, <1>5 DEF CopyOK, From
<1>9. From(p) \in Locations /\ From(p)[1] = p
  BY <1>1, <1>8 DEF From, Locations, QueuesOK
<1>10. pageInfos[From(p)].state = cmd[p].bitMap /\ pageInfos[From(p)].lpn = cmd[p].lpn
  BY <1>8
<1> DEFINE ppn == get_PPN_From_Detail(From(p))
<1>11. /\ cmd[p].lpn \in HostLPNs /\ allocate_location_for_plane(cmd[p].lpn) = p
       /\ map[cmd[p].lpn] = [subPage |-> cmd[p].bitMap, ppn |-> ppn]
  BY <1>8, <1>9, <1>10 DEF CInv, DataOK, LiveIsMapped
<1> HIDE DEF ppn
<1>12. map[cmd[p].lpn].subPage = cmd[p].bitMap /\ map[cmd[p].lpn].ppn = ppn
  BY <1>11
<1>13. Does(p, "PROGRAM") => /\ cmd[p].location \in Programmed(c)
                             /\ cmd[p].location \in Locations /\ cmd[p].location[1] = p
  <2>1. cmd[p].location \in Locations
    BY <1>1 DEF CommandOf
  <2>2. cmd[p].location[1] = p
    BY <1>6 DEF IInv, CopyInPlace
  <2> QED BY <2>1, <2>2 DEF Does, Programmed
<1> QED BY <1>3, <1>4, <1>7, <1>8, <1>9, <1>10, <1>11, <1>12, <1>13 DEF ppn

\* What a step must leave alone of a plane, for its copy to be as it was.
CopyUntouched(p) ==
  /\ cmd'[p] = cmd[p] /\ EPage'[p] = EPage[p] /\ eraseBlock'[p] = eraseBlock[p]
  /\ copyBuf'[p] = copyBuf[p]
  /\ Does(p, "READ_DATA")' => Does(p, "READ_DATA")
  /\ Does(p, "PROGRAM")' => Does(p, "PROGRAM")

LEMMA CopyStays ==
  ASSUME IInv, CInv, NEW p \in Planes, CopyOf(p), CopyUntouched(p),
         \A loc \in Locations : stored'[loc] # stored[loc] => loc = Frontier(loc[1])
  PROVE  CopyOf(p)'
<1>1. From(p)' = From(p) /\ CopyRead(p)' = CopyRead(p)
  BY DEF CopyUntouched, From, CopyRead
<1>2. CopyRead(p) \/ Does(p, "READ_DATA") \/ Does(p, "PROGRAM") =>
        stored'[From(p)] = stored[From(p)]
  BY CopyIsOfPage, FrontierIsNew
<1>3. Does(p, "PROGRAM") => stored'[cmd[p].location] = stored[cmd[p].location]
  BY CopyIsOfPage, FrontierIsNew
<1>4. cmd[p].operation = "READ" => cmd'[p].location = From(p)'
  BY <1>1 DEF CopyOf, CopyUntouched
<1>5. (Does(p, "READ_DATA") \/ CopyRead(p))' => Does(p, "READ_DATA") \/ CopyRead(p)
  BY <1>1 DEF CopyUntouched
<1>6. Does(p, "READ_DATA")' \/ CopyRead(p)' =>
        Agree(copyBuf'[p], stored'[From(p)'], FirstRun(cmd'[p].bitMap))
  BY <1>1, <1>2, <1>5 DEF CopyOf, CopyUntouched
<1>7. Does(p, "PROGRAM")' =>
        Agree(stored'[cmd'[p].location], stored'[From(p)'], FirstRun(cmd'[p].bitMap))
  BY <1>1, <1>2, <1>3 DEF CopyOf, CopyUntouched
<1> QED BY <1>1, <1>4, <1>6, <1>7 DEF CopyOf, CopyUntouched, Agree

LEMMA FirstRunWithin ==
  ASSUME NEW bitMap
  PROVE  FirstRun(bitMap) \subseteq bitMap
  BY DEF FirstRun

LEMMA OverlaidAgrees ==
  ASSUME NEW old, NEW new, NEW bitMap \in SUBSET SubPages
  PROVE  Agree(Overlay(old, new, bitMap), new, bitMap)
  BY DEF Agree, Overlay

\* The chip of a plane is the only one that touches its copy.
LEMMA OthersUntouched ==
  ASSUME IInv, NEW c \in Chips, NEW p \in Planes, NEW x \in CommandIDs,
         p # x, copyBuf'[p] = copyBuf[p],
         \A y \in CommandIDs : y # x => cmd'[y] = cmd[y],
         EPage'[p] = EPage[p], eraseBlock'[p] = eraseBlock[p],
         \A d \in Chips : d # c => chipState'[d] = chipState[d] /\ inflight'[d] = inflight[d],
         inflight'[c] = x \/ chipState'[c] = "IDLE"
  PROVE  CopyUntouched(p)
<1>1. p \in CommandIDs /\ ChipOf(p) \in Chips
  BY ChipsAndPlanes DEF CommandIDs
<1>2. CASE ChipOf(p) # c
  BY <1>1, <1>2 DEF CopyUntouched, Does
<1>3. CASE ChipOf(p) = c
  <2>1. ~Does(p, "READ_DATA")' /\ ~Does(p, "PROGRAM")'
    BY <1>3 DEF Does
  <2> QED BY <1>1, <2>1 DEF CopyUntouched
<1> QED BY <1>2, <1>3

LEMMA DispatchWriteKeepsCopies ==
  ASSUME IInv, CInv, DInv, WritesInPlace, CopiesOK, NEW c \in Chips, DispatchWrite(c)
  PROVE  CopiesOK'
<1>1. PICK plane : StartsProgram(c, c, plane)
  BY WriteSent
<1>2. QueuesOK /\ c \in CommandIDs /\ UNCHANGED copyBuf
  BY TypeParts DEF IInv, CommandIDs, DispatchWrite
<1>3. /\ \A d \in Chips : d # c => chipState'[d] = chipState[d] /\ inflight'[d] = inflight[d]
      /\ inflight'[c] = c
      /\ \A y \in CommandIDs : y # c => cmd'[y] = cmd[y]
      /\ UNCHANGED <<EPage, eraseBlock>>
  BY <1>1, <1>2 DEF StartsProgram, Busy, QueuesOK
<1>4. \A loc \in Locations : stored'[loc] # stored[loc] => loc = Frontier(loc[1])
  BY BytesMove DEF FlashStep
<1>5. ASSUME NEW p \in Planes PROVE CopyOf(p)'
  <2>1. CopyUntouched(p)
    BY <1>2, <1>3, ChipsAndPlanes, OthersUntouched
  <2> QED BY <1>4, <2>1, CopyStays DEF CopiesOK
<1> QED BY <1>5 DEF CopiesOK

LEMMA CopyReadDataKeepsCopies ==
  ASSUME IInv, CInv, DInv, CopiesOK, NEW c \in Chips, CopyReadData(c)
  PROVE  CopiesOK'
<1> PICK x : x = inflight[c]
  OBVIOUS
<1> DEFINE buf == Overlay(copyBuf[x], stored[cmd[x].location], FirstRun(cmd[x].bitMap))
<1>1. /\ DispatchReadData(c) /\ chipState[c] = "IDLE" /\ UNCHANGED stored
      /\ copyBuf' = [copyBuf EXCEPT ![Head(incompletedR[c])] =
           Overlay(@, stored[cmd[Head(incompletedR[c])].location],
                   FirstRun(cmd[Head(incompletedR[c])].bitMap))]
  BY DEF CopyReadData, Free
<1>2. /\ QueuesOK /\ x \in CommandIDs /\ incompletedR[c] = <<x>>
  BY <1>1, TypeParts DEF IInv, QueuesMatchChip, DispatchReadData, QueuesOK
<1>3. /\ x \in PlanesOf(c) /\ x \in Planes /\ ChipOf(x) = c
      /\ cmd[x].operation = "READ" /\ ~cmd[x].completed
  BY <1>1, <1>2 DEF CInv, ChipOK, ReadOK, PlanesOf
<1>4. /\ Busy(c, "READ_DATA", x) /\ UNCHANGED <<EPage, eraseBlock, cmd>>
      /\ copyBuf' = [copyBuf EXCEPT ![x] = buf]
  BY <1>1, <1>2 DEF DispatchReadData, erasing
<1>5. /\ \A d \in Chips : d # c => chipState'[d] = chipState[d] /\ inflight'[d] = inflight[d]
      /\ inflight'[c] = x /\ chipState'[c] = "READ_DATA"
  BY <1>2, <1>4 DEF Busy, QueuesOK
<1>6. ASSUME NEW p \in Planes, p # x PROVE CopyOf(p)'
  <2>1. copyBuf'[p] = copyBuf[p]
    BY <1>4, <1>6
  <2>2. CopyUntouched(p)
    BY <1>2, <1>4, <1>5, <1>6, <2>1, OthersUntouched
  <2> QED BY <1>1, <2>2, CopyStays DEF CopiesOK
<1>7. CopyOf(x)'
  <2>4. cmd[x].location = From(x) /\ From(x)' = From(x)
    BY <1>3, <1>4 DEF CopiesOK, CopyOf, From
  <2>5. FirstRun(cmd[x].bitMap) \in SUBSET SubPages
    <3>1. cmd[x].bitMap \in SUBSET SubPages
      BY <1>2 DEF QueuesOK, CommandOf
    <3> QED BY <3>1, FirstRunWithin
  <2>6. copyBuf'[x] = Overlay(copyBuf[x], stored[From(x)], FirstRun(cmd[x].bitMap))
    <3>1. copyBuf'[x] = buf
      BY <1>3, <1>4 DEF DInv, DataTypeOK
    <3> QED BY <2>4, <3>1
  <2>7. Agree(copyBuf'[x], stored[From(x)], FirstRun(cmd[x].bitMap))
    BY <2>5, <2>6, OverlaidAgrees
  <2>8. ~Does(x, "PROGRAM")'
    BY <1>3, <1>5 DEF Does
  <2> QED BY <1>1, <1>4, <2>4, <2>7, <2>8 DEF CopyOf
<1> QED BY <1>6, <1>7 DEF CopiesOK

LEMMA CopyWriteKeepsCopies ==
  ASSUME IInv, CInv, DInv, WritesInPlace, CopiesOK, NEW c \in Chips, CopyWrite(c)
  PROVE  CopiesOK'
<1> PICK x : x = Collected(c)
  OBVIOUS
<1>1. /\ x \in PlanesOf(c) /\ CopyRead(x)
      /\ Frontier(x) \in Locations /\ Frontier(x)[1] = x
      /\ StartsProgram(c, x, x) /\ cmd'[x].bitMap = cmd[x].bitMap
      /\ Program(Frontier(x), copyBuf[x], cmd[x].bitMap) /\ UNCHANGED copyBuf
  BY CopySent
<1>2. QueuesOK /\ x \in Planes /\ x \in CommandIDs /\ ChipOf(x) = c
  BY <1>1, TypeParts DEF IInv, CommandIDs, PlanesOf
<1>3. /\ \A d \in Chips : d # c => chipState'[d] = chipState[d] /\ inflight'[d] = inflight[d]
      /\ inflight'[c] = x /\ chipState'[c] = "PROGRAM"
      /\ \A y \in CommandIDs : y # x => cmd'[y] = cmd[y]
      /\ UNCHANGED <<EPage, eraseBlock>>
      /\ cmd'[x].operation = "WRITE" /\ ~cmd'[x].completed /\ cmd'[x].location = Frontier(x)
  BY <1>1, <1>2 DEF StartsProgram, Busy, QueuesOK
<1>4. \A loc \in Locations : stored'[loc] # stored[loc] => loc = Frontier(loc[1])
  BY BytesMove DEF FlashStep
<1>5. ASSUME NEW p \in Planes, p # x PROVE CopyOf(p)'
  <2>1. CopyUntouched(p)
    BY <1>1, <1>2, <1>3, <1>5, OthersUntouched
  <2> QED BY <1>4, <2>1, CopyStays DEF CopiesOK
<1>6. CopyOf(x)'
  <2>1. /\ From(x) \in Locations /\ pageInfos[From(x)].state # {}
        /\ cmd[x].lpn \in HostLPNs /\ map[cmd[x].lpn].subPage = cmd[x].bitMap
    BY <1>1, <1>2, CopyIsOfPage
  <2>3. From(x)' = From(x) /\ From(x)[1] = x
    BY <1>3 DEF From
  <2>4. stored'[From(x)] = stored[From(x)]
    BY <1>4, <2>1, FrontierIsNew
  <2>5. FirstRun(cmd[x].bitMap) \in SUBSET SubPages
    <3>1. cmd[x].bitMap \in SUBSET SubPages
      BY <1>2 DEF QueuesOK, CommandOf
    <3> QED BY <3>1, FirstRunWithin
  <2>6. stored'[Frontier(x)] =
          Overlay(stored[Frontier(x)], copyBuf[x], FirstRun(cmd[x].bitMap))
    <3>1. stored \in [Locations -> Buffers]
      BY DEF DInv, DataTypeOK
    <3> QED BY <1>1, <3>1 DEF Program
  <2>7. Agree(stored'[Frontier(x)], copyBuf[x], FirstRun(cmd[x].bitMap))
    BY <2>5, <2>6, OverlaidAgrees
  <2>8. Agree(copyBuf[x], stored[From(x)], FirstRun(cmd[x].bitMap))
    BY <1>1, <1>2 DEF CopiesOK, CopyOf
  <2>9. Agree(stored'[Frontier(x)], stored[From(x)], FirstRun(cmd[x].bitMap))
    BY <2>7, <2>8 DEF Agree
  <2>10. Agree(stored'[cmd'[x].location], stored'[From(x)'], FirstRun(cmd'[x].bitMap))
    BY <1>1, <1>3, <2>3, <2>4, <2>9
  <2>11. ~Does(x, "READ_DATA")' /\ ~CopyRead(x)' /\ cmd'[x].operation # "READ"
    BY <1>2, <1>3 DEF Does, CopyRead
  <2> QED BY <2>10, <2>11 DEF CopyOf, Agree
<1> QED BY <1>5, <1>6 DEF CopiesOK

LEMMA CopyReadPageKeepsCopies ==
  ASSUME IInv, CInv, CopiesOK, NEW c \in Chips, CopyReadPage(c)
  PROVE  CopiesOK'
<1> PICK x : x = Collected(c)
  OBVIOUS
<1>1. chipState[c] = "IDLE" /\ DispatchCopyRead(c) /\ UNCHANGED <<stored, copyBuf>>
  BY DEF CopyReadPage, Free, dataVars
<1>2. /\ x \in PlanesOf(c) /\ Busy(c, "READ_ADDR", x) /\ UNCHANGED eraseBlock
      /\ \A q \in Planes : q # x => EPage'[q] = EPage[q]
      /\ cmd'[x] = [operation |-> "READ", completed |-> FALSE,
                    lpn |-> pageInfos[<<x, eraseBlock[x], EPage'[x]>>].lpn,
                    bitMap |-> pageInfos[<<x, eraseBlock[x], EPage'[x]>>].state,
                    location |-> <<x, eraseBlock[x], EPage'[x]>>]
      /\ \A y \in CommandIDs : y # x => cmd'[y] = cmd[y]
  BY <1>1, CopyReadStarts
<1>3. QueuesOK /\ x \in Planes /\ x \in CommandIDs /\ ChipOf(x) = c
  BY <1>2, TypeParts DEF IInv, CommandIDs, PlanesOf
<1>4. /\ \A d \in Chips : d # c => chipState'[d] = chipState[d] /\ inflight'[d] = inflight[d]
      /\ inflight'[c] = x /\ chipState'[c] = "READ_ADDR"
  BY <1>2, <1>3 DEF Busy, QueuesOK
<1>5. ASSUME NEW p \in Planes, p # x PROVE CopyOf(p)'
  <2>1. CopyUntouched(p)
    BY <1>1, <1>2, <1>3, <1>4, <1>5, OthersUntouched
  <2> QED BY <1>1, <2>1, CopyStays DEF CopiesOK
<1>6. CopyOf(x)'
  <2>1. cmd'[x].location = From(x)' /\ ~cmd'[x].completed
    BY <1>2 DEF From
  <2>2. ~Does(x, "READ_DATA")' /\ ~Does(x, "PROGRAM")' /\ ~CopyRead(x)'
    BY <1>3, <1>4, <2>1 DEF Does, CopyRead
  <2> QED BY <2>1, <2>2 DEF CopyOf
<1> QED BY <1>5, <1>6 DEF CopiesOK

LEMMA EraseBlockKeepsCopies ==
  ASSUME IInv, CInv, CopiesOK, NEW c \in Chips, EraseBlock(c)
  PROVE  CopiesOK'
<1> PICK x : x = Collected(c)
  OBVIOUS
<1>1. /\ chipState[c] = "IDLE" /\ DispatchErase(c) /\ UNCHANGED stored
      /\ copyBuf' = [copyBuf EXCEPT ![x] = FreeSub.buf]
  BY DEF EraseBlock, Free
<1>2. x \in PlanesOf(c) /\ x \in CommandIDs /\ x \in Planes /\ ChipOf(x) = c /\ QueuesOK
  BY <1>1, CollectedOnChip, TypeParts DEF DispatchErase, PlanesOf, IInv
<1>3. /\ EPage' = EPage \/ EPage' = [EPage EXCEPT ![x] = pageOfBlock]
      /\ cmd' = [cmd EXCEPT ![x] = NoCommand] /\ Busy(c, "ERASE", x) /\ UNCHANGED eraseBlock
  BY <1>1 DEF DispatchErase
<1>4. /\ \A d \in Chips : d # c => chipState'[d] = chipState[d] /\ inflight'[d] = inflight[d]
      /\ inflight'[c] = x /\ chipState'[c] = "ERASE"
      /\ \A y \in CommandIDs : y # x => cmd'[y] = cmd[y]
      /\ \A q \in Planes : q # x => EPage'[q] = EPage[q] /\ copyBuf'[q] = copyBuf[q]
  BY <1>1, <1>2, <1>3 DEF Busy, QueuesOK
<1>5. ASSUME NEW p \in Planes, p # x PROVE CopyOf(p)'
  <2>1. CopyUntouched(p)
    BY <1>2, <1>3, <1>4, <1>5, OthersUntouched
  <2> QED BY <1>1, <2>1, CopyStays DEF CopiesOK
<1>6. CopyOf(x)'
  <2>1. cmd'[x].operation = "NONE"
    BY <1>2, <1>3, FirstValues DEF QueuesOK
  <2>2. ~Does(x, "READ_DATA")' /\ ~Does(x, "PROGRAM")' /\ ~CopyRead(x)'
    BY <1>2, <1>4, <2>1 DEF Does, CopyRead
  <2> QED BY <2>1, <2>2 DEF CopyOf
<1> QED BY <1>5, <1>6 DEF CopiesOK

LEMMA CompleteCommandKeepsCopies ==
  ASSUME IInv, CInv, CopiesOK, NEW c \in Chips, CompleteCommand(c)
  PROVE  CopiesOK'
<1> DEFINE x == inflight[c]
<1>1. QueuesOK /\ x \in CommandIDs /\ x \in {c} \cup PlanesOf(c)
  BY TypeParts DEF IInv, QueuesOK, OnOwnChip, OwnChip
<1>2. /\ UNCHANGED <<stored, copyBuf, EPage, eraseBlock>>
      /\ chipState' = [chipState EXCEPT ![c] = "IDLE"] /\ inflight' = inflight
      /\ \/ cmd' = cmd
         \/ chipState[c] = "PROGRAM" /\ x = c /\ cmd' = [cmd EXCEPT ![x] = NoCommand]
         \/ chipState[c] = "PROGRAM" /\ x # c /\ cmd' = [cmd EXCEPT ![x].completed = TRUE]
         \/ chipState[c] = "READ_DATA" /\ cmd' = [cmd EXCEPT ![x].completed = TRUE]
  BY DEF CompleteCommand, Complete, CompleteProgram, CompleteReadAddr, CompleteReadData,
         CompleteErase, Idle, erasing
<1>3. /\ \A d \in Chips : d # c => chipState'[d] = chipState[d] /\ inflight'[d] = inflight[d]
      /\ chipState'[c] = "IDLE"
      /\ \A y \in CommandIDs : y # x => cmd'[y] = cmd[y]
  BY <1>1, <1>2 DEF QueuesOK
<1>4. ASSUME NEW p \in Planes, p # x PROVE CopyOf(p)'
  <2>1. CopyUntouched(p)
    BY <1>1, <1>2, <1>3, <1>4, OthersUntouched
  <2> QED BY <1>2, <2>1, CopyStays DEF CopiesOK
<1>5. ASSUME NEW p \in Planes, p = x PROVE CopyOf(p)'
  <2>1. /\ ChipOf(p) = c /\ x # c /\ p \in CommandIDs /\ cmd[p] \in CommandOf /\ CopyOf(p)
    BY <1>1, <1>5, ChipsAndPlanes DEF PlanesOf, CopiesOK, QueuesOK
  <2>2. ~Does(p, "READ_DATA")' /\ ~Does(p, "PROGRAM")' /\ From(p)' = From(p)
    BY <1>2, <1>3, <2>1 DEF Does, From
  <2>3. CASE cmd' = cmd
    <3>1. CopyUntouched(p)
      BY <1>2, <2>2, <2>3 DEF CopyUntouched
    <3> QED BY <1>2, <2>1, <3>1, CopyStays
  <2>4. CASE cmd' # cmd
    <3>1. cmd' = [cmd EXCEPT ![p].completed = TRUE]
      BY <1>2, <1>5, <2>1, <2>4
    <3>2. /\ cmd'[p].operation = cmd[p].operation /\ cmd'[p].location = cmd[p].location
          /\ cmd'[p].bitMap = cmd[p].bitMap
      BY <1>1, <2>1, <3>1 DEF QueuesOK, CommandOf
    <3>3. Does(p, "READ_DATA") \/ Does(p, "PROGRAM")
      BY <1>2, <1>5, <2>1, <2>4 DEF Does
    <3>4. cmd[p].operation = "READ" => Does(p, "READ_DATA")
      BY <3>3, CopyIsOfPage
    <3> QED BY <1>2, <2>1, <2>2, <3>2, <3>4 DEF CopyOf, CopyRead
  <2> QED BY <2>3, <2>4
<1> QED BY <1>4, <1>5 DEF CopiesOK

LEMMA CollectKeepsCopies ==
  ASSUME IInv, CInv, CopiesOK, NEW c \in Chips, Collect(c)
  PROVE  CopiesOK'
<1>1. QueuesOK /\ UNCHANGED <<stored, copyBuf, cmd, chipState, inflight>>
  BY TypeParts DEF IInv, Collect, check_and_create_gc, dataVars
<1>2. ASSUME NEW p \in Planes, eraseUsed[p]
      PROVE  EPage'[p] = EPage[p] /\ eraseBlock'[p] = eraseBlock[p]
  BY <1>1, <1>2 DEF Collect, check_and_create_gc, NeedsGC, erasing, QueuesOK
<1>3. ASSUME NEW p \in Planes PROVE CopyOf(p)'
  <2>1. \A st : Does(p, st)' <=> Does(p, st)
    BY <1>1 DEF Does
  <2>2. CASE eraseUsed[p]
    <3>1. CopyUntouched(p)
      BY <1>1, <1>2, <2>1, <2>2 DEF CopyUntouched
    <3> QED BY <1>1, <3>1, CopyStays DEF CopiesOK
  <2>3. CASE ~eraseUsed[p]
    <3>1. ~CopyUnderWay(p) /\ ~CopyRead(p) /\ ~Does(p, "READ_DATA") /\ ~Does(p, "PROGRAM")
      BY <2>3, CopyIsOfPage
    <3>2. cmd[p].operation # "READ"
      <4>1. cmd[p].completed \in BOOLEAN
        BY <1>1 DEF QueuesOK, CommandOf, CommandIDs
      <4> QED BY <3>1, <4>1 DEF CopyUnderWay, CopyRead
    <3> QED BY <1>1, <2>1, <3>1, <3>2 DEF CopyOf, CopyRead
  <2> QED BY <2>2, <2>3
<1> QED BY <1>3 DEF CopiesOK

LEMMA StepKeepsCopies ==
  ASSUME IInv, CInv, DInv, WritesInPlace, CopiesOK, [DataNext]_allVars
  PROVE  CopiesOK'
<1>1. CASE UNCHANGED <<flashVars, stored, copyBuf>>
  BY <1>1 DEF CopiesOK, CopyOf, CopyRead, Does, From, Agree, flashVars, vars, erasing
<1>2. ASSUME NEW c \in Chips, FlashStep(c) PROVE CopiesOK'
  BY <1>2, DispatchWriteKeepsCopies, CopyReadDataKeepsCopies, CopyWriteKeepsCopies,
     CopyReadPageKeepsCopies, EraseBlockKeepsCopies, CompleteCommandKeepsCopies,
     CollectKeepsCopies DEF FlashStep
<1> QED BY <1>1, <1>2, TwoKindsOfSteps

-----------------------------------------------------------------------------
(* What changes the map, and where the bytes go.                           *)

\* The write of a page that the host waits for ends.
HostWriteEnds(c, lpn) == CompleteCommand(c) /\ HostWrites(c) /\ cmd[c].lpn = lpn

\* Where the sectors of a page are.
LEMMA PlaceOf ==
  ASSUME NoneRefused, CInv, NEW lpn \in HostLPNs, map[lpn].subPage # {}
  PROVE  /\ Place(lpn) \in Locations
         /\ pageInfos[Place(lpn)] = [state |-> map[lpn].subPage, lpn |-> lpn]
         /\ Place(lpn)[1] = allocate_location_for_plane(lpn)
         /\ LookUp(lpn) = {Place(lpn)}
<1>1. map[lpn].ppn \in LPNs
  BY DEF NoneRefused
<1>2. get_PPN_Detail(map[lpn].ppn) = {Place(lpn)}
  BY <1>1 DEF get_PPN_Detail, Place
<1>3. /\ Place(lpn) \in Locations
      /\ pageInfos[Place(lpn)] = [state |-> map[lpn].subPage, lpn |-> lpn]
  BY <1>2, NamedPage DEF CInv, DataOK
<1>4. pageInfos[Place(lpn)].state # {} /\ pageInfos[Place(lpn)].lpn = lpn
  BY <1>3
<1>5. Place(lpn)[1] = allocate_location_for_plane(lpn)
  BY <1>3, <1>4 DEF CInv, DataOK, LiveIsMapped
<1> QED BY <1>2, <1>3, <1>5 DEF LookUp

\* Only the end of a program changes the map, in the entry of what was programmed.
LEMMA MapChanges ==
  ASSUME IInv, CInv, DInv, WritesInPlace, [DataNext]_allVars,
         NEW lpn \in HostLPNs, map'[lpn] # map[lpn]
  PROVE  \E c \in Chips :
           /\ CompleteCommand(c) /\ chipState[c] = "PROGRAM"
           /\ cmd[inflight[c]].lpn = lpn /\ cmd[inflight[c]] \in CommandOf
           /\ UNCHANGED <<eraseUsed, eraseBlock>> /\ UNCHANGED stored
           /\ map'[lpn].subPage = cmd[inflight[c]].bitMap
           /\ map'[lpn].ppn = get_PPN_From_Detail(cmd[inflight[c]].location)
<1>1. PICK c \in Chips : FlashStep(c)
  BY TwoKindsOfSteps DEF flashVars, vars, tables
<1>2. CASE DispatchWrite(c)
  BY <1>2, WriteSent DEF StartsProgram
<1>3. CASE CopyWrite(c)
  BY <1>3, CopySent DEF StartsProgram
<1>4. CASE CopyReadPage(c)
  BY <1>4, CopyReadStarts DEF CopyReadPage, Free, tables
<1>5. CASE CopyReadData(c) \/ EraseBlock(c) \/ Collect(c)
  BY <1>5 DEF CopyReadData, EraseBlock, Collect, DispatchReadData, DispatchErase,
              check_and_create_gc, tables
<1>6. CASE CompleteCommand(c)
  <2>1. CompleteProgram(c)
    BY <1>6 DEF CompleteCommand, Complete, CompleteReadAddr, CompleteReadData, CompleteErase,
                tables
  <2> DEFINE x == inflight[c]
             ppn == get_PPN_From_Detail(cmd[x].location)
  <2>2. TablesOK /\ cmd[x] \in CommandOf
    BY TypeParts DEF IInv, QueuesOK
  <2>3. map' = [map EXCEPT ![cmd[x].lpn] = [subPage |-> cmd[x].bitMap, ppn |-> ppn]]
    BY <2>1 DEF CompleteProgram, update_Map_and_invilate_page
  <2>4. UNCHANGED <<eraseUsed, eraseBlock>> /\ chipState[c] = "PROGRAM"
    BY <2>1 DEF CompleteProgram, erasing
  <2> HIDE DEF ppn, x
  <2>5. /\ cmd[x].lpn = lpn /\ map'[lpn].subPage = cmd[x].bitMap /\ map'[lpn].ppn = ppn
    BY <2>2, <2>3 DEF TablesOK
  <2> QED BY <1>6, <2>2, <2>4, <2>5 DEF CompleteCommand, ppn, x
<1> QED BY <1>1, <1>2, <1>3, <1>4, <1>5, <1>6 DEF FlashStep

\* The bytes of a page with data, of a page being programmed, and of a block
\* that is to be erased, stay.
LEMMA BytesStay ==
  ASSUME IInv, CInv, DInv, WritesInPlace, [DataNext]_allVars, NEW loc \in Locations,
         \/ pageInfos[loc].state # {}
         \/ loc \in Programmed(ChipOf(loc[1]))
         \/ eraseUsed[loc[1]] /\ loc[2] = eraseBlock[loc[1]]
  PROVE  stored'[loc] = stored[loc]
  BY TwoKindsOfSteps, BytesMove, FrontierIsNew

\* Unless the host's own write of a page ends, its sectors stay as they are, or
\* are moved as they are by the copy of their plane.
LEMMA ContentMoves ==
  ASSUME IInv, NoneRefused, CInv, DInv, WritesInPlace, CopiesOK, [DataNext]_allVars,
         NEW lpn \in HostLPNs, \A c \in Chips : ~HostWriteEnds(c, lpn)
  PROVE  /\ map'[lpn].subPage = map[lpn].subPage
         /\ Agree(stored'[Place(lpn)'], stored[Place(lpn)], FirstRun(map[lpn].subPage))
         /\ \/ map[lpn].subPage = {}
            \/ Place(lpn)' = Place(lpn)
            \/ \E c \in Chips : LET p == allocate_location_for_plane(lpn)
                                IN /\ CompleteCommand(c) /\ eraseUsed[p]
                                   /\ UNCHANGED <<eraseUsed, eraseBlock>>
                                   /\ Place(lpn) = From(p)
<1>1. CASE map'[lpn] = map[lpn]
  <2>1. Place(lpn)' = Place(lpn)
    BY <1>1 DEF Place
  <2>2. CASE map[lpn].subPage = {}
    BY <1>1, <2>1, <2>2, FirstRunWithin DEF Agree
  <2>3. CASE map[lpn].subPage # {}
    <3>3. /\ Place(lpn) \in Locations
          /\ pageInfos[Place(lpn)] = [state |-> map[lpn].subPage, lpn |-> lpn]
      BY <2>3, PlaceOf
    <3>4. pageInfos[Place(lpn)].state = map[lpn].subPage
      BY <3>3
    <3>1. Place(lpn) \in Locations /\ pageInfos[Place(lpn)].state # {}
      BY <2>3, <3>3, <3>4
    <3>2. stored'[Place(lpn)] = stored[Place(lpn)]
      BY <3>1, BytesStay
    <3> QED BY <1>1, <2>1, <3>2 DEF Agree
  <2> QED BY <2>2, <2>3
<1>2. CASE map'[lpn] # map[lpn]
  <2>1. PICK c \in Chips :
          /\ CompleteCommand(c) /\ chipState[c] = "PROGRAM"
          /\ cmd[inflight[c]].lpn = lpn /\ cmd[inflight[c]] \in CommandOf
          /\ UNCHANGED <<eraseUsed, eraseBlock>> /\ UNCHANGED stored
          /\ map'[lpn].subPage = cmd[inflight[c]].bitMap
          /\ map'[lpn].ppn = get_PPN_From_Detail(cmd[inflight[c]].location)
    BY <1>2, MapChanges
  <2>2. inflight[c] \in PlanesOf(c)
    BY <2>1 DEF IInv, OnOwnChip, OwnChip, HostWriteEnds, HostWrites
  <2> PICK x \in Planes : x = inflight[c] /\ ChipOf(x) = c
    BY <2>2 DEF PlanesOf
  <2>3. Does(x, "PROGRAM")
    BY <2>1 DEF Does
  <2>4. /\ From(x) \in Locations /\ eraseUsed[x]
        /\ map[lpn].subPage = cmd[x].bitMap
        /\ map[lpn].ppn = get_PPN_From_Detail(From(x))
        /\ x = allocate_location_for_plane(lpn)
    BY <2>1, <2>3, CopyIsOfPage
  <2>5. Place(lpn) = From(x)
    BY <2>4, LocationRoundTrip DEF Place
  <2>6. Place(lpn)' = cmd[x].location
    <3>1. cmd[x].location \in Locations /\ map'[lpn].ppn = get_PPN_From_Detail(cmd[x].location)
      BY <2>1 DEF CommandOf
    <3> QED BY <3>1, LocationRoundTrip DEF Place
  <2>7. Agree(stored[cmd[x].location], stored[From(x)], FirstRun(cmd[x].bitMap))
    BY <2>3 DEF CopiesOK, CopyOf
  <2>8. Agree(stored'[Place(lpn)'], stored[Place(lpn)], FirstRun(map[lpn].subPage))
    BY <2>1, <2>4, <2>5, <2>6, <2>7
  <2>9. map'[lpn].subPage = map[lpn].subPage
    BY <2>1, <2>4
  <2> QED BY <2>1, <2>4, <2>5, <2>8, <2>9
<1> QED BY <1>1, <1>2

-----------------------------------------------------------------------------
(* The sub-requests of the request.                                        *)

\* The sub-requests of a new request.
IsRead(s, bitMap, lpn) ==
  \E loc \in Locations : loc \in LookUp(lpn) /\ s = SubRead(bitMap, loc)
IsWrite(s, req, lpn) ==
  \E data \in Buffers, waits \in BOOLEAN :
    /\ s = SubWrite(BitMap(req, lpn), lpn, data, waits)
    /\ waits <=> ~Covers(BitMap(req, lpn), lpn)

LEMMA ReadSubmitted ==
  ASSUME NEW req \in Requests, HostSubmitRead(req), NEW lpn \in PagesOfRequest(req)
  PROVE  IsRead(sub'[Main(lpn)], BitMap(req, lpn), lpn)
<1> DEFINE pages == PagesOfRequest(req)
<1>1. PICK at \in [pages -> Locations] :
        /\ \A l \in pages : at[l] \in LookUp(l)
        /\ sub' = [s \in Subs |->
            IF s[1] = "main" /\ s[2] \in pages
            THEN SubRead(BitMap(req, s[2]), at[s[2]]) ELSE FreeSub]
  BY DEF HostSubmitRead
<1>2. lpn \in pages /\ lpn \in HostLPNs
  BY DEF PagesOfRequest
<1> HIDE DEF pages
<1>3. Main(lpn) \in Subs /\ Main(lpn)[1] = "main" /\ Main(lpn)[2] = lpn
  BY <1>2, SubNames
<1>4. sub'[Main(lpn)] = SubRead(BitMap(req, lpn), at[lpn])
  BY <1>1, <1>2, <1>3
<1>5. at[lpn] \in Locations /\ at[lpn] \in LookUp(lpn)
  BY <1>1, <1>2
<1> QED BY <1>4, <1>5 DEF IsRead

LEMMA WriteSubmitted ==
  ASSUME NEW req \in Requests, HostSubmitWrite(req), NEW lpn \in PagesOfRequest(req)
  PROVE  /\ IsWrite(sub'[Main(lpn)], req, lpn)
         /\ ~Covers(BitMap(req, lpn), lpn) => IsRead(sub'[RMW(lpn)], map[lpn].subPage, lpn)
<1> DEFINE pages == PagesOfRequest(req)
           partial == {l \in pages : ~Covers(BitMap(req, l), l)}
<1>1. PICK at \in [partial -> Locations], data \in Payloads(req) :
        /\ \A l \in partial : at[l] \in LookUp(l)
        /\ sub' = [s \in Subs |->
               IF s[1] = "main" /\ s[2] \in pages
               THEN SubWrite(BitMap(req, s[2]), s[2], data[s[2]], s[2] \in partial)
               ELSE IF s[1] = "rmw" /\ s[2] \in partial
               THEN SubRead(map[s[2]].subPage, at[s[2]]) ELSE FreeSub]
  BY DEF HostSubmitWrite
<1>2. data \in [pages -> Buffers] /\ lpn \in pages /\ lpn \in HostLPNs
  BY DEF Payloads, PagesOfRequest, Buffers
<1>3. lpn \in partial <=> ~Covers(BitMap(req, lpn), lpn)
  BY <1>2
<1> HIDE DEF pages, partial
<1>4. /\ Main(lpn) \in Subs /\ Main(lpn)[1] = "main" /\ Main(lpn)[2] = lpn
      /\ RMW(lpn) \in Subs /\ RMW(lpn)[1] = "rmw" /\ RMW(lpn)[2] = lpn
  BY <1>2, SubNames
<1>5. /\ sub'[Main(lpn)] = SubWrite(BitMap(req, lpn), lpn, data[lpn], lpn \in partial)
      /\ lpn \in partial => sub'[RMW(lpn)] = SubRead(map[lpn].subPage, at[lpn])
  BY <1>1, <1>2, <1>4
<1>6. data[lpn] \in Buffers
  BY <1>2
<1>7. PICK waits \in BOOLEAN : waits = (lpn \in partial)
  BY InIsBoolean
<1>8. IsWrite(sub'[Main(lpn)], req, lpn)
  BY <1>3, <1>5, <1>6, <1>7 DEF IsWrite
<1>9. lpn \in partial => IsRead(sub'[RMW(lpn)], map[lpn].subPage, lpn)
  BY <1>1, <1>5 DEF IsRead
<1> QED BY <1>3, <1>8, <1>9

\* What the thread submits, and all that it leaves alone.
LEMMA Submitted ==
  ASSUME HostSubmit
  PROVE  /\ hostPc = "idle" /\ hostPc' \in {"add writes", "add reads"}
         /\ UNCHANGED <<flashVars, stored, copyBuf, rList, wList, reading, ending>>
         /\ \E req \in Requests :
              /\ request' = req /\ restSubreqs' = PagesOfRequest(req)
              /\ \A lpn \in PagesOfRequest(req) :
                   /\ req.op = "READ" => IsRead(sub'[Main(lpn)], BitMap(req, lpn), lpn)
                   /\ req.op = "WRITE" =>
                        /\ IsWrite(sub'[Main(lpn)], req, lpn)
                        /\ ~Covers(BitMap(req, lpn), lpn) =>
                             IsRead(sub'[RMW(lpn)], map[lpn].subPage, lpn)
<1>1. PICK req \in Requests :
        /\ request' = req /\ restSubreqs' = PagesOfRequest(req)
        /\ \/ req.op = "READ"  /\ HostSubmitRead(req)
           \/ req.op = "WRITE" /\ HostSubmitWrite(req)
  BY DEF HostSubmit
<1>2. hostPc' \in {"add writes", "add reads"}
  BY <1>1 DEF HostSubmitRead, HostSubmitWrite
<1>3. ASSUME NEW lpn \in PagesOfRequest(req)
      PROVE  /\ req.op = "READ" => IsRead(sub'[Main(lpn)], BitMap(req, lpn), lpn)
             /\ req.op = "WRITE" =>
                  /\ IsWrite(sub'[Main(lpn)], req, lpn)
                  /\ ~Covers(BitMap(req, lpn), lpn) =>
                       IsRead(sub'[RMW(lpn)], map[lpn].subPage, lpn)
  <2>1. CASE HostSubmitRead(req) /\ req.op = "READ"
    BY <2>1, ReadSubmitted
  <2>2. CASE HostSubmitWrite(req) /\ req.op = "WRITE"
    BY <2>2, WriteSubmitted
  <2> QED BY <1>1, <2>1, <2>2
<1>4. /\ hostPc = "idle"
      /\ UNCHANGED <<flashVars, stored, copyBuf, rList, wList, reading, ending>>
  BY DEF HostSubmit
<1>5. \A lpn \in PagesOfRequest(req) :
                   /\ req.op = "READ" => IsRead(sub'[Main(lpn)], BitMap(req, lpn), lpn)
                   /\ req.op = "WRITE" =>
                        /\ IsWrite(sub'[Main(lpn)], req, lpn)
                        /\ ~Covers(BitMap(req, lpn), lpn) =>
                             IsRead(sub'[RMW(lpn)], map[lpn].subPage, lpn)
  BY <1>3
<1> QED BY <1>1, <1>2, <1>4, <1>5

\* The bytes of a read are fetched.
Fetches(c, s) ==
  /\ DispatchReadTransfer(c) /\ At(s, "reading", c) /\ reading[c].stage = "register"
  /\ sub'[s] = [sub[s] EXCEPT !.buf =
                  Overlay(sub[s].buf, stored[sub[s].location], FirstRun(sub[s].bitMap))]

\* A read ends, and its bytes go to the write that waits for it.
Merges(c, lpn) ==
  /\ EndRMW(c) /\ ending[c] = RMW(lpn) /\ sub'[RMW(lpn)] = FreeSub
  /\ sub'[Main(lpn)] = [sub[Main(lpn)] EXCEPT
       !.bitMap = sub[Main(lpn)].bitMap \cup sub[RMW(lpn)].bitMap, !.waits = FALSE,
       !.buf = Overlay(sub[Main(lpn)].buf, sub[RMW(lpn)].buf,
                       Missing(sub[RMW(lpn)], sub[Main(lpn)]))]

\* Nothing else changes a sub-request of the request that is being served.
LEMMA SubChanges ==
  ASSUME DInv, [DataNext]_allVars, ~HostSubmit, NEW s \in Subs, sub'[s] # sub[s]
  PROVE  \/ \E c \in Chips : Fetches(c, s)
         \/ \E c \in Chips, lpn \in HostLPNs : Merges(c, lpn) /\ s \in {RMW(lpn), Main(lpn)}
         \/ \E c \in Chips : EndMain(c) /\ restSubreqs' = {}
<1>1. SubsOK /\ ChipsOK
  BY PartsOfDInv
<1>2. ~UNCHANGED sub
  OBVIOUS
<1>3. PICK c \in Chips : DispatchReadTransfer(c) \/ EndRMW(c) \/ EndMain(c)
  <2>1. CASE UNCHANGED allVars
    BY <1>2, <2>1 DEF allVars, dataVars
  <2>2. CASE HostAddWrites \/ HostAddReads \/ HostFaults
    BY <1>2, <2>2 DEF HostAddWrites, HostAddReads, HostFaults
  <2>3. ASSUME NEW c \in Chips, FlashStep(c) PROVE UNCHANGED sub
    BY <2>3 DEF FlashStep, DispatchWrite, CopyReadData, CopyWrite, CopyReadPage, EraseBlock,
                CompleteCommand, Collect, dataVars
  <2>4. ASSUME NEW c \in Chips, DispatchRead(c) \/ ReadAddressed(c) \/ ReadTransferred(c)
        PROVE  UNCHANGED sub
    BY <2>4 DEF DispatchRead, ReadAddressed, ReadTransferred
  <2> QED BY <1>2, <2>1, <2>2, <2>3, <2>4 DEF DataNext, FlashStep
<1>4. CASE DispatchReadTransfer(c)
  <2> DEFINE t == reading[c].sub
             new == [sub[t] EXCEPT !.buf =
                       Overlay(sub[t].buf, stored[sub[t].location], FirstRun(sub[t].bitMap))]
  <2>1. reading[c].stage = "register" /\ sub' = [sub EXCEPT ![t] = new]
    BY <1>4 DEF DispatchReadTransfer
  <2> HIDE DEF new
  <2>2. s = t /\ sub'[s] = new
    BY <1>1, <2>1 DEF SubsOK
  <2> QED BY <1>4, <2>1, <2>2 DEF Fetches, At, new
<1>5. CASE EndRMW(c)
  <2>1. PICK lpn \in HostLPNs : ending[c] = RMW(lpn)
    <3>1. ending[c][1] = "rmw" /\ ending[c] \in Subs \cup {NoSub}
      BY <1>1, <1>5 DEF EndRMW, ChipsOK
    <3> QED BY <3>1, SubNames
  <2> DEFINE rmw == RMW(lpn)  main == Main(lpn)
             new == [sub[main] EXCEPT
                !.bitMap = sub[main].bitMap \cup sub[rmw].bitMap, !.waits = FALSE,
                !.buf = Overlay(sub[main].buf, sub[rmw].buf, Missing(sub[rmw], sub[main]))]
  <2>2. rmw \in Subs /\ main \in Subs /\ rmw # main /\ ending[c][2] = lpn
    BY <2>1, SubNames
  <2>3. sub' = [sub EXCEPT ![rmw] = FreeSub, ![main] = new]
    <3>1. sub' = [sub EXCEPT ![rmw] = FreeSub, ![main] =
            [@ EXCEPT !.bitMap = sub[main].bitMap \cup sub[rmw].bitMap, !.waits = FALSE,
                      !.buf = Overlay(sub[main].buf, sub[rmw].buf,
                                      Missing(sub[rmw], sub[main]))]]
      BY <1>5, <2>1, <2>2 DEF EndRMW
    <3>2. [sub EXCEPT ![rmw] = FreeSub][main] = sub[main]
      BY <1>1, <2>2 DEF SubsOK
    <3> QED BY <3>1, <3>2
  <2> HIDE DEF new, rmw, main
  <2>4. sub'[rmw] = FreeSub /\ sub'[main] = new /\ s \in {rmw, main}
    BY <1>1, <2>2, <2>3 DEF SubsOK
  <2>5. Merges(c, lpn)
    BY <1>5, <2>1, <2>4 DEF Merges, rmw, main, new
  <2> QED BY <2>4, <2>5 DEF rmw, main
<1>6. CASE EndMain(c)
  BY <1>2, <1>6 DEF EndMain
<1> QED BY <1>3, <1>4, <1>5, <1>6

\* The request stays until all its pages have ended.
LEMMA RequestStays ==
  ASSUME [DataNext]_allVars, ~HostSubmit
  PROVE  /\ restSubreqs' \subseteq restSubreqs
         /\ restSubreqs' # {} \/ ~(\E c \in Chips : EndMain(c)) => UNCHANGED request
<1>1. CASE UNCHANGED allVars
  BY <1>1 DEF allVars, dataVars, hostVars
<1>2. CASE HostAddWrites \/ HostAddReads \/ HostFaults
  BY <1>2 DEF HostAddWrites, HostAddReads, HostFaults
<1>3. ASSUME NEW c \in Chips, FlashStep(c)
      PROVE  UNCHANGED <<request, restSubreqs>>
  BY <1>3 DEF FlashStep, DispatchWrite, CopyReadData, CopyWrite, CopyReadPage, EraseBlock,
              CompleteCommand, Collect, dataVars, hostVars
<1>4. ASSUME NEW c \in Chips,
             \/ DispatchRead(c) \/ DispatchReadTransfer(c) \/ ReadAddressed(c)
             \/ ReadTransferred(c) \/ EndRMW(c)
      PROVE  UNCHANGED <<request, restSubreqs>>
  BY <1>4 DEF DispatchRead, DispatchReadTransfer, ReadAddressed, ReadTransferred, EndRMW,
              hostVars
<1>5. ASSUME NEW c \in Chips, EndMain(c)
      PROVE  restSubreqs' \subseteq restSubreqs /\ (restSubreqs' # {} => UNCHANGED request)
  BY <1>5 DEF EndMain
<1> QED BY <1>1, <1>2, <1>3, <1>4, <1>5 DEF DataNext, FlashStep

\* Where a read is directed, and the plane of a write, are settled when the
\* sub-request is built.
LEMMA LocationStays ==
  ASSUME DInv, [DataNext]_allVars, ~HostSubmit, NEW s \in Subs,
         ~ \E c \in Chips : EndMain(c) /\ restSubreqs' = {},
         ~ \E c \in Chips, lpn \in HostLPNs : Merges(c, lpn) /\ s = RMW(lpn)
  PROVE  sub'[s].location = sub[s].location
<1>1. sub[s] \in SubOf
  BY PartsOfDInv DEF SubsOK
<1>2. CASE sub'[s] = sub[s]
  BY <1>2
<1>3. CASE \E c \in Chips : Fetches(c, s)
  BY <1>1, <1>3 DEF Fetches, SubOf
<1>4. ASSUME NEW c \in Chips, NEW lpn \in HostLPNs, Merges(c, lpn), s = Main(lpn)
      PROVE  sub'[s].location = sub[s].location
  BY <1>1, <1>4 DEF Merges, SubOf
<1> QED BY <1>2, <1>3, <1>4, SubChanges

LEMMA StepKeepsPlaces ==
  ASSUME DInv, WritesInPlace, [DataNext]_allVars
  PROVE  WritesInPlace'
<1> SUFFICES ASSUME request'.op = "WRITE", NEW lpn \in restSubreqs'
             PROVE  sub'[Main(lpn)].location[1] = allocate_location_for_plane(lpn)
  BY DEF WritesInPlace
<1>1. CASE HostSubmit
  <2>1. IsWrite(sub'[Main(lpn)], request', lpn)
    BY <1>1, Submitted
  <2> QED BY <2>1 DEF IsWrite, SubWrite
<1>2. CASE ~HostSubmit
  <2>1. lpn \in restSubreqs /\ request' = request /\ lpn \in HostLPNs
    <3>1. restSubreqs \subseteq HostLPNs
      BY PartsOfDInv DEF HostOK
    <3> QED BY <1>2, <3>1, RequestStays
  <2>2. Main(lpn) \in Subs /\ \A l \in HostLPNs : Main(lpn) # RMW(l)
    BY <2>1, SubNames
  <2>3. sub'[Main(lpn)].location = sub[Main(lpn)].location
    BY <1>2, <2>2, LocationStays
  <2> QED BY <2>1, <2>3 DEF WritesInPlace
<1> QED BY <1>1, <1>2

-----------------------------------------------------------------------------
(* A write reaches the map with its bytes.                                 *)

\* The page that a chip programs for the host has the bytes of the buffer, up to
\* the first hole.
WriteBytes ==
  \A c \in Chips : HostWrites(c) =>
    /\ cmd[c].bitMap = sub[Main(cmd[c].lpn)].bitMap
    /\ Agree(stored[cmd[c].location], sub[Main(cmd[c].lpn)].buf, FirstRun(cmd[c].bitMap))

\* And once it has, so has the place that the map names.
EndedBytes ==
  \A lpn \in HostLPNs, c \in Chips : ending[c] = Main(lpn) /\ request.op = "WRITE" =>
    Agree(stored[Place(lpn)], sub[Main(lpn)].buf, FirstRun(map[lpn].subPage))

\* A write that was sent has its sub-request as it was, until it has ended.
LEMMA SentStays ==
  ASSUME DInv, DInv', [DataNext]_allVars, NEW lpn \in HostLPNs,
         NEW k \in {"written", "ending"}, NEW c \in Chips, At(Main(lpn), k, c),
         NEW l \in {"written", "ending"}, NEW d \in Chips, At(Main(lpn), l, d)',
         request.op = "WRITE" \/ k = "written"
  PROVE  /\ ~HostSubmit /\ request' = request /\ request.op = "WRITE"
         /\ sub'[Main(lpn)] = sub[Main(lpn)]
<1>1. k \in Kinds /\ l \in Kinds /\ "reading" \in Kinds /\ "write list" \in Kinds
      /\ "ending" \in Kinds /\ k # "reading" /\ k # "write list"
  BY DEF Kinds
<1>2. lpn \in restSubreqs /\ request.op = "WRITE" /\ hostPc # "add writes" /\ hostPc # "idle"
  <2>1. MainsPlace
    BY PartsOfDInv
  <2> QED BY <1>1, <2>1 DEF MainsPlace
<1>3. lpn \in restSubreqs'
  BY <1>1 DEF DInv, MainsPlace
<1>4. ~HostSubmit
  BY <1>2 DEF HostSubmit
<1>5. request' = request
  BY <1>3, <1>4, RequestStays
<1>6. Main(lpn) \in Subs
  BY SubNames
<1>7. sub'[Main(lpn)] = sub[Main(lpn)]
  <2>1. ASSUME NEW e \in Chips, Fetches(e, Main(lpn)) PROVE FALSE
    BY <1>1, <1>6, <2>1, OnlyPlace DEF Fetches
  <2>2. ASSUME NEW e \in Chips, NEW m \in HostLPNs, Merges(e, m), Main(lpn) \in {RMW(m), Main(m)}
        PROVE  FALSE
    <3>1. m = lpn
      BY <2>2, SubNames
    <3>2. At(RMW(lpn), "ending", e)
      BY <2>2, <3>1 DEF Merges, At
    <3>3. lpn \in Waiting
      BY <1>1, <3>2, PartsOfDInv DEF RMWsPlace
    <3>4. PICK f \in Chips : At(Main(lpn), "write list", f)
      BY <1>2, <3>3, PartsOfDInv DEF WaitsInList
    <3> QED BY <1>1, <1>6, <3>4, OnlyPlace
  <2>3. ~ \E e \in Chips : EndMain(e) /\ restSubreqs' = {}
    BY <1>3
  <2> QED BY <1>4, <1>6, <2>1, <2>2, <2>3, SubChanges
<1> QED BY <1>2, <1>4, <1>5, <1>7

\* A write of the host is under way since it was sent.
LEMMA WriteGoesOn ==
  ASSUME IInv, DInv, WritesInPlace, [DataNext]_allVars, NEW c \in Chips, HostWrites(c)'
  PROVE  (HostWrites(c) /\ cmd'[c] = cmd[c]) \/ DispatchWrite(c)
<1>1. QueuesOK /\ c \in CommandIDs
  BY TypeParts DEF IInv, CommandIDs
<1>2. CASE UNCHANGED <<flashVars, stored, copyBuf>>
  BY <1>2 DEF HostWrites, flashVars, vars
<1>3. ASSUME NEW d \in Chips, FlashStep(d), ~DispatchWrite(c)
      PROVE  HostWrites(c) /\ cmd'[c] = cmd[c]
  <2>1. CASE DispatchWrite(d)
    <3>1. PICK plane : StartsProgram(d, d, plane)
      BY <2>1, WriteSent
    <3>2. d # c
      BY <1>3, <2>1
    <3> QED BY <1>1, <3>1, <3>2 DEF StartsProgram, Busy, QueuesOK, HostWrites
  <2>2. CASE CompleteCommand(d)
    <3>1. /\ chipState' = [chipState EXCEPT ![d] = "IDLE"] /\ inflight' = inflight
          /\ \A y \in CommandIDs : y # inflight[d] => cmd'[y] = cmd[y]
      BY <1>1, <2>2 DEF CompleteCommand, Complete, CompleteProgram, CompleteReadAddr,
                        CompleteReadData, CompleteErase, Idle, QueuesOK
    <3>2. d # c /\ chipState'[c] = chipState[c]
      BY <1>1, <3>1 DEF HostWrites, QueuesOK
    <3>3. inflight[d] \in {d} \cup PlanesOf(d) /\ c \notin Planes
      BY ChipsAndPlanes DEF IInv, OnOwnChip, OwnChip
    <3>4. inflight[d] # c
      BY <3>2, <3>3 DEF PlanesOf
    <3> QED BY <1>1, <3>1, <3>2, <3>4 DEF HostWrites
  <2>3. CASE Collect(d)
    BY <2>3 DEF Collect, check_and_create_gc, HostWrites
  <2>4. CASE CopyReadData(d) \/ CopyWrite(d) \/ CopyReadPage(d) \/ EraseBlock(d)
    <3>1. ~spinning /\ chipState[d] = "IDLE" /\ DispatchPending(d)
      BY <2>4 DEF CopyReadData, CopyWrite, CopyReadPage, EraseBlock, Free, Stopped,
                  DispatchPending
    <3> QED BY <3>1, PendingKeepsWrites
  <2> QED BY <1>3, <2>1, <2>2, <2>3, <2>4 DEF FlashStep
<1> QED BY <1>2, <1>3, TwoKindsOfSteps

LEMMA StepKeepsWritten ==
  ASSUME IInv, CInv, DInv, DInv', WritesInPlace, WriteBytes, [DataNext]_allVars
  PROVE  WriteBytes'
<1> SUFFICES ASSUME NEW c \in Chips, HostWrites(c)'
             PROVE  /\ cmd'[c].bitMap = sub'[Main(cmd'[c].lpn)].bitMap
                    /\ Agree(stored'[cmd'[c].location], sub'[Main(cmd'[c].lpn)].buf,
                             FirstRun(cmd'[c].bitMap))
  BY DEF WriteBytes, Agree
<1>1. QueuesOK /\ c \in CommandIDs /\ cmd[c] \in CommandOf
  BY TypeParts DEF IInv, CommandIDs, QueuesOK
<1>2. CASE HostWrites(c) /\ cmd'[c] = cmd[c]
  <2> PICK lpn \in HostLPNs : /\ lpn = cmd[c].lpn
                              /\ cmd[c].location[1] = allocate_location_for_plane(lpn)
    <3>1. WriteOK(c)
      BY DEF CInv, ChipOK
    <3> QED BY <1>2, <3>1 DEF WriteOK, HostWrites
  <2>1. At(Main(lpn), "written", c) /\ At(Main(lpn), "written", c)'
    BY <1>2 DEF At
  <2>2. sub'[Main(lpn)] = sub[Main(lpn)]
    BY <2>1, SentStays
  <2>3. stored'[cmd[c].location] = stored[cmd[c].location]
    <3> DEFINE loc == cmd[c].location
    <3>1. loc \in Locations
      BY <1>1 DEF CommandOf
    <3>2. ChipOf(loc[1]) = c
      <4>1. OwnChip(c)
        BY DEF IInv, OnOwnChip
      <4> QED BY <1>2, <4>1 DEF OwnChip, HostWrites
    <3>3. loc \in Programmed(ChipOf(loc[1]))
      BY <1>2, <3>2 DEF Programmed, HostWrites
    <3> QED BY <3>1, <3>3, BytesStay
  <2> QED BY <1>2, <2>2, <2>3 DEF WriteBytes, Agree
<1>3. CASE DispatchWrite(c)
  <2>1. PICK lpn \in HostLPNs :
           /\ Frontier(allocate_location_for_plane(lpn)) \in Locations
           /\ StartsProgram(c, c, allocate_location_for_plane(lpn))
           /\ cmd'[c].lpn = lpn /\ cmd'[c].bitMap = sub[Main(lpn)].bitMap
           /\ Program(Frontier(allocate_location_for_plane(lpn)), sub[Main(lpn)].buf,
                      sub[Main(lpn)].bitMap)
    BY <1>3, WriteSent
  <2> PICK loc \in Locations : loc = Frontier(allocate_location_for_plane(lpn))
    BY <2>1
  <2>2. cmd'[c].location = loc /\ sub' = sub
    BY <1>3, <2>1 DEF StartsProgram, DispatchWrite
  <2>3. sub[Main(lpn)].bitMap \in SUBSET SubPages
    <3>1. Main(lpn) \in Subs /\ SubsOK
      BY SubNames, PartsOfDInv
    <3>2. sub[Main(lpn)] \in SubOf
      BY <3>1 DEF SubsOK
    <3> QED BY <3>2 DEF SubOf
  <2>4. FirstRun(sub[Main(lpn)].bitMap) \in SUBSET SubPages
    BY <2>3 DEF FirstRun
  <2>5. stored'[loc] = Overlay(stored[loc], sub[Main(lpn)].buf, FirstRun(sub[Main(lpn)].bitMap))
    <3>1. stored \in [Locations -> Buffers]
      BY DEF DInv, DataTypeOK
    <3> QED BY <2>1, <3>1 DEF Program
  <2>6. Agree(stored'[loc], sub[Main(lpn)].buf, FirstRun(sub[Main(lpn)].bitMap))
    BY <2>4, <2>5, OverlaidAgrees
  <2> QED BY <2>1, <2>2, <2>6
<1> QED BY <1>2, <1>3, WriteGoesOn

LEMMA AgreeTransitive ==
  ASSUME NEW a, NEW b, NEW d, NEW bitMap, Agree(a, b, bitMap), Agree(b, d, bitMap)
  PROVE  Agree(a, d, bitMap)
  BY DEF Agree

\* What a chip is ending, it was ending, or its command has just been completed.
LEMMA EndingBegins ==
  ASSUME DInv, [DataNext]_allVars, NEW c \in Chips, NEW s \in Subs, ending'[c] = s
  PROVE  \/ ending[c] = s
         \/ CompleteCommand(c) /\ HostWrites(c) /\ s = Main(cmd[c].lpn)
         \/ ReadTransferred(c) /\ reading[c].sub = s
<1>1. s # NoSub /\ ending \in [Chips -> Subs \cup {NoSub}]
  BY SubNames, PartsOfDInv DEF ChipsOK
<1>2. CASE UNCHANGED allVars
  BY <1>2 DEF allVars, dataVars
<1>3. CASE HostSubmit \/ HostAddWrites \/ HostAddReads \/ HostFaults
  BY <1>3 DEF HostSubmit, HostAddWrites, HostAddReads, HostFaults
<1>4. ASSUME NEW d \in Chips,
             \/ DispatchRead(d) \/ DispatchReadTransfer(d) \/ ReadAddressed(d)
             \/ DispatchWrite(d) \/ CopyReadData(d) \/ CopyWrite(d) \/ CopyReadPage(d)
             \/ EraseBlock(d) \/ Collect(d)
      PROVE  ending' = ending
  BY <1>4 DEF DispatchRead, DispatchReadTransfer, ReadAddressed, DispatchWrite, CopyReadData,
              CopyWrite, CopyReadPage, EraseBlock, Collect, dataVars
<1>5. ASSUME NEW d \in Chips, EndRMW(d) \/ EndMain(d) PROVE ending[c] = s
  <2>1. ending' = [ending EXCEPT ![d] = NoSub]
    BY <1>5 DEF EndRMW, EndMain
  <2> QED BY <1>1, <2>1
<1>6. ASSUME NEW d \in Chips, ReadTransferred(d)
      PROVE  ending[c] = s \/ (ReadTransferred(c) /\ reading[c].sub = s)
  <2>1. ending' = [ending EXCEPT ![d] = reading[d].sub]
    BY <1>6 DEF ReadTransferred
  <2> QED BY <1>1, <1>6, <2>1
<1>7. ASSUME NEW d \in Chips, CompleteCommand(d)
      PROVE  ending[c] = s \/ (CompleteCommand(c) /\ HostWrites(c) /\ s = Main(cmd[c].lpn))
  <2>1. ending' = [ending EXCEPT ![d] = IF HostWrites(d) THEN Main(cmd[d].lpn) ELSE NoSub]
    BY <1>7 DEF CompleteCommand, HostWrites
  <2>2. CASE HostWrites(d)
    <3>1. ending' = [ending EXCEPT ![d] = Main(cmd[d].lpn)]
      BY <2>1, <2>2
    <3> QED BY <1>1, <1>7, <2>2, <3>1
  <2>3. CASE ~HostWrites(d)
    BY <1>1, <2>1, <2>3
  <2> QED BY <2>2, <2>3
<1> QED BY <1>2, <1>3, <1>4, <1>5, <1>6, <1>7 DEF DataNext

LEMMA StepKeepsEnded ==
  ASSUME IInv, NoneRefused, CInv, DInv, DInv', WritesInPlace, CopiesOK, WriteBytes,
         EndedBytes, [DataNext]_allVars
  PROVE  EndedBytes'
<1> SUFFICES ASSUME NEW lpn \in HostLPNs, NEW c \in Chips, ending'[c] = Main(lpn),
                    request'.op = "WRITE"
             PROVE  Agree(stored'[Place(lpn)'], sub'[Main(lpn)].buf, FirstRun(map'[lpn].subPage))
  BY DEF EndedBytes, Agree
<1>1. Main(lpn) \in Subs /\ "ending" \in Kinds /\ "written" \in Kinds /\ "reading" \in Kinds
  BY SubNames DEF Kinds
<1>2. At(Main(lpn), "ending", c)'
  BY DEF At
<1>3. lpn \in restSubreqs'
  BY <1>1, <1>2 DEF DInv, MainsPlace
<1>4. CASE ending[c] = Main(lpn)
  <2>1. At(Main(lpn), "ending", c)
    BY <1>4 DEF At
  <2>2. request.op = "WRITE"
    <3>1. hostPc # "idle"
      BY <1>1, <2>1, PartsOfDInv DEF MainsPlace
    <3>2. ~HostSubmit
      BY <3>1 DEF HostSubmit
    <3> QED BY <1>3, <3>2, RequestStays
  <2>3. sub'[Main(lpn)] = sub[Main(lpn)]
    BY <1>2, <2>1, <2>2, SentStays
  <2>4. \A d \in Chips : ~HostWriteEnds(d, lpn)
    <3> SUFFICES ASSUME NEW d \in Chips, HostWriteEnds(d, lpn) PROVE FALSE
      OBVIOUS
    <3>1. At(Main(lpn), "written", d)
      BY DEF HostWriteEnds, At
    <3>2. "written" # "ending"
      OBVIOUS
    <3> QED BY <1>1, <2>1, <3>1, <3>2, OnlyPlace
  <2>5. /\ map'[lpn].subPage = map[lpn].subPage
        /\ Agree(stored'[Place(lpn)'], stored[Place(lpn)], FirstRun(map[lpn].subPage))
    BY <2>4, ContentMoves
  <2>6. Agree(stored[Place(lpn)], sub[Main(lpn)].buf, FirstRun(map[lpn].subPage))
    BY <1>4, <2>2 DEF EndedBytes
  <2>7. Agree(stored'[Place(lpn)'], sub[Main(lpn)].buf, FirstRun(map[lpn].subPage))
    BY <2>5, <2>6, AgreeTransitive
  <2> QED BY <2>3, <2>5, <2>7
<1>5. CASE CompleteCommand(c) /\ HostWrites(c) /\ Main(lpn) = Main(cmd[c].lpn)
  <2>1. lpn = cmd[c].lpn /\ inflight[c] = c /\ chipState[c] = "PROGRAM"
    BY <1>5, SubNames DEF HostWrites
  <2>2. QueuesOK /\ TablesOK /\ c \in CommandIDs /\ cmd[c] \in CommandOf
    BY TypeParts DEF IInv, CommandIDs, QueuesOK
  <2> DEFINE ppn == get_PPN_From_Detail(cmd[c].location)
  <2>3. map' = [map EXCEPT ![lpn] = [subPage |-> cmd[c].bitMap, ppn |-> ppn]]
    BY <1>5, <2>1 DEF CompleteCommand, Complete, CompleteProgram, CompleteReadAddr,
                      CompleteReadData, CompleteErase, update_Map_and_invilate_page
  <2> HIDE DEF ppn
  <2>4. map'[lpn].subPage = cmd[c].bitMap /\ map'[lpn].ppn = ppn
    BY <2>2, <2>3 DEF TablesOK
  <2>5. Place(lpn)' = cmd[c].location
    <3>1. cmd[c].location \in Locations
      BY <2>2 DEF CommandOf
    <3> QED BY <2>4, <3>1, LocationRoundTrip DEF Place, ppn
  <2>6. stored' = stored /\ sub' = sub
    BY <1>5 DEF CompleteCommand
  <2>8. Agree(stored[cmd[c].location], sub[Main(lpn)].buf, FirstRun(cmd[c].bitMap))
    BY <1>5, <2>1 DEF WriteBytes
  <2> QED BY <2>4, <2>5, <2>6, <2>8
<1>6. CASE ReadTransferred(c) /\ reading[c].sub = Main(lpn)
  <2>1. At(Main(lpn), "reading", c)
    BY <1>6 DEF At
  <2>2. request.op = "READ"
    BY <1>1, <2>1, PartsOfDInv DEF MainsPlace
  <2>3. request' = request
    BY <1>6 DEF ReadTransferred, hostVars
  <2> QED BY <2>2, <2>3
<1> QED BY <1>1, <1>4, <1>5, <1>6, EndingBegins

-----------------------------------------------------------------------------
(* The reads, on the chips of their pages.                                 *)

\* The chip has the read in its list, or executes it.
Reads(s, c) == At(s, "read list", c) \/ At(s, "reading", c)

\* A read hangs on the chip of the page it was directed to.
ReadsOnChip ==
  \A s \in Subs, c \in Chips : Reads(s, c) => ChipOf(sub[s].location[1]) = c

\* A read that the thread has directed to a page and not yet hung on its chip.
LookedUp(s) ==
  /\ hostPc \in {"add writes", "add reads"}
  /\ \/ request.op = "READ" /\ \E lpn \in restSubreqs : s = Main(lpn)
     \/ request.op = "WRITE" /\ \E lpn \in Waiting : s = RMW(lpn)
Hanging(s, c) ==
  At(s, "read list", c) \/ (At(s, "reading", c) /\ reading[c].stage \in {"addr", "register"})

\* The read has not fetched its bytes.
Unfetched(s) == LookedUp(s) \/ \E c \in Chips : Hanging(s, c)

\* A read was hung on its chip, or hung there before.
LEMMA HangingBegins ==
  ASSUME DInv, [DataNext]_allVars, NEW c \in Chips, NEW s \in Subs, Reads(s, c)'
  PROVE  /\ \/ Reads(s, c)
            \/ /\ HostAddReads /\ LookedUp(s)
               /\ ChipOf(sub[s].location[1]) = c
         /\ Hanging(s, c)' => Hanging(s, c) \/ HostAddReads
<1>1. /\ reading \in [Chips -> ReadOf \cup {NotReading}] /\ rList \in [Chips -> Seq(Subs)]
      /\ s # NoSub
  BY SubNames, PartsOfDInv DEF ChipsOK, ListsOK
<1>2. CASE UNCHANGED <<rList, reading>>
  BY <1>2 DEF Reads, At, Hanging
<1>3. CASE HostAddReads
  <2>1. UNCHANGED <<reading, sub, restSubreqs, request>> /\ hostPc = "add reads"
    BY <1>3 DEF HostAddReads
  <2>2. CASE Contains(rList[c], s) \/ reading[c].sub = s
    BY <1>3, <2>2 DEF Reads, At
  <2>3. CASE ~Contains(rList[c], s) /\ reading[c].sub # s
    <3>1. Contains(rList'[c], s)
      BY <2>1, <2>3 DEF Reads, At
    <3> DEFINE kind == IF request.op = "READ" THEN "main" ELSE "rmw"
               lpns == IF request.op = "READ" THEN restSubreqs ELSE Waiting
               added == OfChip(kind, lpns, c)
    <3>2. /\ request.op \in {"READ", "WRITE"} /\ restSubreqs \subseteq HostLPNs
          /\ Waiting \subseteq restSubreqs
      <4>1. request \in Requests /\ restSubreqs \subseteq HostLPNs
        BY <2>1, PartsOfDInv DEF RequestOK, HostOK
      <4>2. \A req \in Requests : req.op \in {"READ", "WRITE"}
        BY DEF Requests
      <4>3. Waiting \subseteq restSubreqs
        BY DEF Waiting
      <4> QED BY <4>1, <4>2, <4>3
    <3>3. kind \in {"main", "rmw"} /\ lpns \in SUBSET HostLPNs
      BY <3>2
    <3>4. rList'[c] = rList[c] \o added
      BY <1>3 DEF HostAddReads
    <3> HIDE DEF kind, lpns
    <3>5. /\ added \in Seq(Subs) /\ IsInjective(added)
          /\ \A e : Contains(added, e) <=>
              \E lpn \in lpns : e = <<kind, lpn>> /\ ChipOf(sub[e].location[1]) = c
      BY <3>3, OfChipContains
    <3> HIDE DEF added
    <3>6. PICK i \in 1..Len(rList[c] \o added) : (rList[c] \o added)[i] = s
      <4>1. rList[c] \o added \in Seq(Subs)
        BY <1>1, <3>5
      <4>2. DOMAIN (rList[c] \o added) = 1..Len(rList[c] \o added)
        BY <4>1
      <4> QED BY <3>1, <3>4, <4>2 DEF Contains
    <3>7. Contains(added, s)
      <4>1. rList[c] \in Seq(Subs)
        BY <1>1
      <4>2. ASSUME NEW j \in 1..Len(rList[c]) PROVE rList[c][j] # s
        BY <2>3, <4>1, <4>2 DEF Contains
      <4>3. PICK j \in 1..Len(added) : added[j] = s
        BY <3>5, <3>6, <4>1, <4>2
      <4> QED BY <3>5, <4>3 DEF Contains
    <3>8. (\E lpn \in lpns : s = <<kind, lpn>>) /\ ChipOf(sub[s].location[1]) = c
      BY <3>5, <3>7
    <3>9. LookedUp(s)
      BY <2>1, <3>2, <3>8 DEF LookedUp, kind, lpns, Main, RMW
    <3> QED BY <1>3, <3>8, <3>9
  <2> QED BY <2>2, <2>3
<1>4. ASSUME NEW d \in Chips, DispatchRead(d)
      PROVE  Reads(s, c) /\ (Hanging(s, c)' => Hanging(s, c))
  <2>1. /\ rList[d] # <<>> /\ reading[d] = NotReading
        /\ reading' = [reading EXCEPT ![d] = [sub |-> Head(rList[d]), stage |-> "addr"]]
        /\ rList' = [rList EXCEPT ![d] = Tail(rList[d])]
    BY <1>4 DEF DispatchRead, Free
  <2>2. CASE d # c
    <3>1. rList'[c] = rList[c] /\ reading'[c] = reading[c]
      BY <1>1, <2>1, <2>2
    <3> QED BY <2>1, <2>2, <3>1 DEF Reads, At, Hanging
  <2>3. CASE d = c
    <3>1. /\ rList[c] \in Seq(Subs) /\ IsInjective(rList[c])
      BY PartsOfDInv DEF ListsOK, NotTwice
    <3>2. /\ Contains(rList[c], Head(rList[c]))
          /\ \A e : Contains(Tail(rList[c]), e) => Contains(rList[c], e)
      BY <2>1, <2>3, <3>1, TailContains
    <3>3. reading'[c] = [sub |-> Head(rList[c]), stage |-> "addr"] /\ rList'[c] = Tail(rList[c])
      BY <1>1, <2>1, <2>3
    <3>4. reading'[c].sub = Head(rList[c])
      BY <3>3
    <3>5. Contains(rList[c], s)
      BY <3>2, <3>3, <3>4 DEF Reads, At
    <3> QED BY <3>5 DEF Reads, At, Hanging
  <2> QED BY <2>2, <2>3
<1>5. ASSUME NEW d \in Chips, DispatchReadTransfer(d) \/ ReadAddressed(d) \/ ReadTransferred(d)
      PROVE  /\ Reads(s, c)
             /\ Hanging(s, c)' => Hanging(s, c)
  <2>1. UNCHANGED rList
    BY <1>5 DEF DispatchReadTransfer, ReadAddressed, ReadTransferred
  <2>2. CASE d # c
    <3>1. reading'[c] = reading[c]
      BY <1>1, <1>5, <2>2 DEF DispatchReadTransfer, ReadAddressed, ReadTransferred
    <3> QED BY <2>1, <3>1 DEF Reads, At, Hanging
  <2>3. CASE d = c /\ ReadTransferred(d)
    <3>1. reading'[c] = NotReading
      BY <1>1, <2>3 DEF ReadTransferred
    <3> QED BY <1>1, <2>1, <3>1 DEF Reads, At, Hanging, NotReading
  <2>4. CASE d = c /\ ReadAddressed(d)
    <3>1. reading[c].stage = "addr" /\ reading' = [reading EXCEPT ![c].stage = "register"]
      BY <2>4 DEF ReadAddressed
    <3>2. reading[c] \in ReadOf
      BY <1>1, <3>1 DEF NotReading
    <3>3. reading'[c].sub = reading[c].sub
      BY <1>1, <3>1, <3>2 DEF ReadOf
    <3> QED BY <2>1, <3>1, <3>3 DEF Reads, At, Hanging
  <2>5. CASE d = c /\ DispatchReadTransfer(d)
    <3>1. reading[c].stage = "register" /\ reading' = [reading EXCEPT ![c].stage = "data"]
      BY <2>5 DEF DispatchReadTransfer
    <3>2. reading[c] \in ReadOf
      BY <1>1, <3>1 DEF NotReading
    <3>3. reading'[c].sub = reading[c].sub
      BY <1>1, <3>1, <3>2 DEF ReadOf
    <3> QED BY <2>1, <3>1, <3>3 DEF Reads, At, Hanging
  <2> QED BY <1>5, <2>2, <2>3, <2>4, <2>5
<1>6. CASE UNCHANGED allVars \/ HostSubmit \/ HostAddWrites \/ HostFaults
  BY <1>2, <1>6 DEF allVars, dataVars, HostSubmit, HostAddWrites, HostFaults
<1>7. ASSUME NEW d \in Chips, FlashStep(d) \/ EndRMW(d) \/ EndMain(d)
      PROVE  UNCHANGED <<rList, reading>>
  BY <1>7 DEF FlashStep, DispatchWrite, CopyReadData, CopyWrite, CopyReadPage, EraseBlock,
              CompleteCommand, Collect, dataVars, EndRMW, EndMain
<1> QED BY <1>2, <1>3, <1>4, <1>5, <1>6, <1>7 DEF DataNext, FlashStep

\* The step is the end of the request.
RequestEnds == \E c \in Chips : EndMain(c) /\ restSubreqs' = {}

\* The thread moves on when it has hung the sub-requests, or all is ended.
LEMMA ThreadMoves ==
  ASSUME [DataNext]_allVars, ~HostSubmit, hostPc' # hostPc
  PROVE  \/ HostAddWrites /\ hostPc = "add writes" /\ hostPc' \in {"wait", "add reads"}
         \/ HostAddReads /\ hostPc = "add reads" /\ hostPc' = "wait"
         \/ HostFaults /\ hostPc = "add reads" /\ hostPc' = "fault"
         \/ RequestEnds /\ hostPc' = "idle"
<1>1. ~UNCHANGED allVars
  BY DEF allVars, dataVars, hostVars
<1>2. ASSUME NEW c \in Chips, FlashStep(c)
      PROVE  UNCHANGED hostPc
  BY <1>2 DEF FlashStep, DispatchWrite, CopyReadData, CopyWrite, CopyReadPage, EraseBlock,
              CompleteCommand, Collect, dataVars, hostVars
<1>3. ASSUME NEW c \in Chips,
             \/ DispatchRead(c) \/ DispatchReadTransfer(c) \/ ReadAddressed(c)
             \/ ReadTransferred(c) \/ EndRMW(c)
      PROVE  UNCHANGED hostPc
  BY <1>3 DEF DispatchRead, DispatchReadTransfer, ReadAddressed, ReadTransferred, EndRMW,
              hostVars
<1>4. ASSUME NEW c \in Chips, EndMain(c)
      PROVE  RequestEnds /\ hostPc' = "idle"
  BY <1>4 DEF EndMain, RequestEnds
<1>5. CASE HostAddWrites
  BY <1>5 DEF HostAddWrites
<1>6. CASE HostAddReads
  BY <1>6 DEF HostAddReads
<1>7. CASE HostFaults
  BY <1>7 DEF HostFaults
<1> QED BY <1>1, <1>2, <1>3, <1>4, <1>5, <1>6, <1>7 DEF DataNext, FlashStep

\* A read that a chip has is of the request, and the thread waits.
LEMMA ReadIsOfRequest ==
  ASSUME DInv, NEW s \in Subs, NEW c \in Chips, Reads(s, c)
  PROVE  /\ hostPc = "wait" /\ restSubreqs # {}
         /\ \E lpn \in HostLPNs :
              \/ s = Main(lpn) /\ request.op = "READ"
              \/ s = RMW(lpn) /\ request.op = "WRITE" /\ lpn \in Waiting
<1>1. PICK k \in {"read list", "reading"} : At(s, k, c)
  BY DEF Reads
<1>2. k \in Kinds /\ k \notin {"write list", "written", "ending"} /\ MainsPlace /\ RMWsPlace
  BY PartsOfDInv DEF Kinds
<1>3. PICK lpn \in HostLPNs : s = Main(lpn) \/ s = RMW(lpn)
  BY SubNames
<1>4. CASE s = Main(lpn)
  BY <1>1, <1>2, <1>4 DEF MainsPlace
<1>5. CASE s = RMW(lpn)
  <2>1. lpn \in Waiting /\ request.op = "WRITE" /\ hostPc = "wait"
    BY <1>1, <1>2, <1>5 DEF RMWsPlace
  <2>2. lpn \in restSubreqs
    BY <2>1 DEF Waiting
  <2> QED BY <1>5, <2>1, <2>2
<1> QED BY <1>3, <1>4, <1>5

LEMMA HangingReads ==
  ASSUME NEW s, NEW c
  PROVE  Hanging(s, c) => Reads(s, c)
  BY DEF Hanging, Reads

\* A read that is looked up or on a chip goes where it went.
LEMMA ReadStays ==
  ASSUME DInv, [DataNext]_allVars, ~HostSubmit, ~RequestEnds, NEW s \in Subs,
         LookedUp(s) \/ \E c \in Chips : Reads(s, c)
  PROVE  sub'[s].location = sub[s].location
<1>1. ASSUME NEW c \in Chips, NEW lpn \in HostLPNs, Merges(c, lpn), s = RMW(lpn)
      PROVE  FALSE
  <2>1. At(s, "ending", c) /\ "ending" \in Kinds /\ "read list" \in Kinds /\ "reading" \in Kinds
    BY <1>1 DEF Merges, At, Kinds
  <2>2. hostPc = "wait"
    BY <1>1, <2>1, PartsOfDInv DEF RMWsPlace
  <2>3. PICK d \in Chips : Reads(s, d)
    BY <2>2 DEF LookedUp
  <2>4. PICK k \in {"read list", "reading"} : At(s, k, d)
    BY <2>3 DEF Reads
  <2>5. k \in Kinds /\ k # "ending"
    BY <2>1
  <2> QED BY <2>1, <2>4, <2>5, OnlyPlace
<1> QED BY <1>1, LocationStays DEF RequestEnds

\* A read that has not fetched its bytes has not since it was looked up.
LEMMA UnfetchedStays ==
  ASSUME DInv, DInv', [DataNext]_allVars, ~HostSubmit, NEW s \in Subs, Unfetched(s)'
  PROVE  /\ Unfetched(s) /\ sub'[s].location = sub[s].location
         /\ hostPc = "wait" => hostPc' = "wait"
<1>1. restSubreqs' # {}
  <2>1. CASE LookedUp(s)'
    BY <2>1 DEF LookedUp, Waiting
  <2>2. ASSUME NEW c \in Chips, Hanging(s, c)' PROVE restSubreqs' # {}
    <3>1. Reads(s, c)'
      BY <2>2 DEF Hanging, Reads
    <3>2. PICK k \in {"read list", "reading"} : At(s, k, c)'
      BY <3>1 DEF Reads
    <3>3. k \in Kinds /\ MainsPlace' /\ RMWsPlace'
      BY DEF Kinds, DInv
    <3>4. PICK lpn \in HostLPNs : s = Main(lpn) \/ s = RMW(lpn)
      BY SubNames
    <3> QED BY <3>2, <3>3, <3>4 DEF MainsPlace, RMWsPlace, Waiting
  <2> QED BY <2>1, <2>2 DEF Unfetched
<1>2. ~RequestEnds
  BY <1>1 DEF RequestEnds
<1>3. restSubreqs' \subseteq restSubreqs /\ request' = request
  BY <1>1, RequestStays
<1>4. hostPc = "wait" => hostPc' = "wait"
  BY <1>2, ThreadMoves
<1>5. ASSUME LookedUp(s)' PROVE LookedUp(s)
  <2>1. hostPc \in {"add writes", "add reads"}
    BY <1>2, <1>5, ThreadMoves DEF LookedUp
  <2>2. ASSUME NEW lpn \in Waiting' PROVE lpn \in Waiting
    <3>1. lpn \in restSubreqs' /\ sub'[Main(lpn)].waits
      BY DEF Waiting
    <3>2. lpn \in restSubreqs /\ lpn \in HostLPNs
      BY <1>3, <3>1, PartsOfDInv DEF HostOK
    <3>3. Main(lpn) \in Subs /\ \A l \in HostLPNs : Main(lpn) # RMW(l)
      BY <3>2, SubNames
    <3>4. sub[Main(lpn)] \in SubOf
      BY <3>3, PartsOfDInv DEF SubsOK
    <3>5. CASE \E c \in Chips : Fetches(c, Main(lpn))
      BY <3>1, <3>2, <3>4, <3>5 DEF Fetches, SubOf, Waiting
    <3>6. ASSUME NEW c \in Chips, NEW l \in HostLPNs, Merges(c, l), Main(lpn) = Main(l)
          PROVE  FALSE
      BY <3>1, <3>4, <3>6 DEF Merges, SubOf
    <3>7. CASE sub'[Main(lpn)] = sub[Main(lpn)]
      BY <3>1, <3>2, <3>7 DEF Waiting
    <3> QED BY <1>2, <3>3, <3>5, <3>6, <3>7, SubChanges DEF RequestEnds
  <2> QED BY <1>3, <1>5, <2>1, <2>2 DEF LookedUp
<1>6. ASSUME NEW c \in Chips, Hanging(s, c)' PROVE Unfetched(s)
  <2>1. Reads(s, c)'
    BY <1>6 DEF Hanging, Reads
  <2>2. CASE HostAddReads
    <3>1. ~Reads(s, c)
      BY <2>2, ReadIsOfRequest DEF HostAddReads
    <3> QED BY <2>1, <3>1, HangingBegins DEF Unfetched
  <2>3. CASE ~HostAddReads
    BY <1>6, <2>1, <2>3, HangingBegins DEF Unfetched
  <2> QED BY <2>2, <2>3
<1>7. Unfetched(s)
  BY <1>5, <1>6 DEF Unfetched
<1>8. sub'[s].location = sub[s].location
  BY <1>2, <1>7, HangingReads, ReadStays DEF Unfetched
<1> QED BY <1>4, <1>7, <1>8

LEMMA StepKeepsReadsOnChip ==
  ASSUME DInv, DInv', ReadsOnChip, [DataNext]_allVars
  PROVE  ReadsOnChip'
<1> SUFFICES ASSUME NEW s \in Subs, NEW c \in Chips, Reads(s, c)'
             PROVE  ChipOf(sub'[s].location[1]) = c
  BY DEF ReadsOnChip
<1>1. PICK k \in {"read list", "reading"} : At(s, k, c)'
  BY DEF Reads
<1>2. restSubreqs' # {} /\ hostPc' = "wait"
  <2>1. k \in Kinds /\ k \notin {"write list", "written", "ending"} /\ MainsPlace' /\ RMWsPlace'
    BY DEF Kinds, DInv
  <2>2. PICK lpn \in HostLPNs : s = Main(lpn) \/ s = RMW(lpn)
    BY SubNames
  <2> QED BY <1>1, <2>1, <2>2 DEF MainsPlace, RMWsPlace, Waiting
<1>3. ~HostSubmit /\ ~RequestEnds
  BY <1>2, Submitted DEF RequestEnds
<1>4. Reads(s, c) \/ (LookedUp(s) /\ ChipOf(sub[s].location[1]) = c)
  BY HangingBegins
<1>5. sub'[s].location = sub[s].location
  BY <1>3, <1>4, ReadStays
<1> QED BY <1>4, <1>5 DEF ReadsOnChip

-----------------------------------------------------------------------------
(* The bytes a read is on its way to.                                      *)

\* The page a read goes to has the bytes of the sectors: it is where they are,
\* or in the block that the collection of their plane is to erase, or in one it
\* has erased, which nothing is written to while the read is before the chip.
SourceKept(lpn, loc) ==
  LET p == allocate_location_for_plane(lpn)
      c == ChipOf(p)
  IN /\ loc[1] = p
     /\ Agree(stored[loc], stored[Place(lpn)], FirstRun(map[lpn].subPage))
     /\ \/ loc = Place(lpn)
        \/ hostPc = "wait" /\ eraseUsed[p] /\ loc[2] = eraseBlock[p]
        \/ hostPc = "wait" /\ ~eraseUsed[p] /\ toCheck[c] = {} /\ ~HostWrites(c)
SourceOK ==
  \A s \in Subs : Unfetched(s) /\ map[s[2]].subPage # {} => SourceKept(s[2], sub[s].location)

\* A collection ends with the erase, when the chip is idle and nothing is to be
\* checked.
LEMMA CollectionGoesOn ==
  ASSUME IInv, CInv, DInv, WritesInPlace, [DataNext]_allVars, NEW p \in Planes, eraseUsed[p]
  PROVE  \/ eraseUsed'[p] /\ eraseBlock'[p] = eraseBlock[p]
         \/ ~eraseUsed'[p] /\ toCheck'[ChipOf(p)] = {} /\ ~HostWrites(ChipOf(p))'
<1>1. QueuesOK /\ eraseUsed[p] \in BOOLEAN
  BY TypeParts DEF IInv, QueuesOK
<1>2. CASE UNCHANGED <<flashVars, stored, copyBuf>>
  BY <1>2 DEF flashVars, vars, erasing
<1>3. ASSUME NEW d \in Chips, FlashStep(d)
      PROVE  \/ UNCHANGED <<eraseUsed, eraseBlock>>
             \/ Collect(d) \/ (CompleteCommand(d) /\ CompleteErase(d))
  <2>1. CASE DispatchWrite(d)
    BY <2>1, WriteSent DEF StartsProgram
  <2>2. CASE CopyWrite(d)
    BY <2>2, CopySent DEF StartsProgram
  <2>3. CASE CopyReadData(d) \/ CopyReadPage(d) \/ EraseBlock(d)
    BY <2>3 DEF CopyReadData, CopyReadPage, EraseBlock, DispatchReadData, DispatchCopyRead,
                DispatchErase, erasing
  <2>4. CASE CompleteCommand(d)
    BY <2>4 DEF CompleteCommand, Complete, CompleteProgram, CompleteReadAddr,
                CompleteReadData, erasing
  <2> QED BY <1>3, <2>1, <2>2, <2>3, <2>4 DEF FlashStep
<1>4. ASSUME NEW d \in Chips, Collect(d)
      PROVE  eraseUsed'[p] /\ eraseBlock'[p] = eraseBlock[p]
  BY <1>1, <1>4 DEF Collect, check_and_create_gc, NeedsGC, erasing, QueuesOK
<1>5. ASSUME NEW d \in Chips, CompleteCommand(d), CompleteErase(d)
      PROVE  \/ eraseUsed'[p] /\ eraseBlock'[p] = eraseBlock[p]
             \/ ~eraseUsed'[p] /\ toCheck'[ChipOf(p)] = {} /\ ~HostWrites(ChipOf(p))'
  <2>1. /\ eraseUsed' = [eraseUsed EXCEPT ![inflight[d]] = FALSE]
        /\ UNCHANGED <<eraseBlock, toCheck>> /\ toCheck[d] = {}
        /\ chipState' = [chipState EXCEPT ![d] = "IDLE"]
    BY <1>5 DEF CompleteCommand, CompleteErase, MayComplete, Idle
  <2>2. CASE inflight[d] = p
    <3>1. inflight[d] \in {d} \cup PlanesOf(d)
      BY DEF IInv, OnOwnChip, OwnChip
    <3>2. ChipOf(p) = d
      BY <2>2, <3>1, ChipsAndPlanes DEF PlanesOf
    <3>3. ~eraseUsed'[p] /\ chipState'[d] = "IDLE"
      BY <1>1, <2>1, <2>2 DEF QueuesOK
    <3> QED BY <2>1, <3>2, <3>3 DEF HostWrites
  <2>3. CASE inflight[d] # p
    BY <1>1, <2>1, <2>3 DEF QueuesOK
  <2> QED BY <2>2, <2>3
<1> QED BY <1>2, <1>3, <1>4, <1>5, TwoKindsOfSteps

\* A plane is collected after a write to it only.
LEMMA NoneCollected ==
  ASSUME IInv, CInv, DInv, WritesInPlace, [DataNext]_allVars, NEW p \in Planes,
         ~eraseUsed[p], toCheck[ChipOf(p)] = {}, ~HostWrites(ChipOf(p))
  PROVE  ~eraseUsed'[p] /\ toCheck'[ChipOf(p)] = {}
<1> DEFINE c == ChipOf(p)
<1>1. QueuesOK /\ c \in Chips /\ toCheck \in [Chips -> SUBSET Planes]
  BY TypeParts, ChipsAndPlanes DEF IInv, QueuesOK, TypeOK
<1>2. CASE UNCHANGED <<flashVars, stored, copyBuf>>
  BY <1>2 DEF flashVars, vars, erasing
<1>3. ASSUME NEW d \in Chips, FlashStep(d)
      PROVE  ~eraseUsed'[p] /\ toCheck'[c] = {}
  <2>1. CASE DispatchWrite(d)
    BY <2>1, WriteSent DEF StartsProgram
  <2>2. CASE CopyWrite(d)
    BY <2>2, CopySent DEF StartsProgram
  <2>3. CASE CopyReadData(d) \/ CopyReadPage(d) \/ EraseBlock(d)
    BY <2>3 DEF CopyReadData, CopyReadPage, EraseBlock, DispatchReadData, DispatchCopyRead,
                DispatchErase, erasing
  <2>4. CASE CompleteCommand(d)
    <3>1. CASE CompleteProgram(d)
      <4>1. eraseUsed' = eraseUsed
        BY <3>1 DEF CompleteProgram, erasing
      <4>2. CASE inflight[d] = d
        <5>1. d # c
          BY <3>1, <4>2 DEF CompleteProgram, HostWrites
        <5>2. toCheck' = [toCheck EXCEPT ![d] = {cmd[d].location[1]}]
          BY <3>1, <4>2 DEF CompleteProgram
        <5> QED BY <1>1, <4>1, <5>1, <5>2
      <4>3. CASE inflight[d] # d
        BY <3>1, <4>1, <4>3 DEF CompleteProgram
      <4> QED BY <4>2, <4>3
    <3>2. CASE CompleteErase(d)
      <4>1. eraseUsed' = [eraseUsed EXCEPT ![inflight[d]] = FALSE] /\ toCheck' = toCheck
        BY <3>2 DEF CompleteErase
      <4> QED BY <1>1, <4>1 DEF QueuesOK
    <3>3. CASE CompleteReadAddr(d) \/ CompleteReadData(d)
      BY <3>3 DEF CompleteReadAddr, CompleteReadData, erasing
    <3> QED BY <2>4, <3>1, <3>2, <3>3 DEF CompleteCommand, Complete
  <2>5. CASE Collect(d)
    <3>1. PICK plane \in toCheck[d] :
            /\ toCheck' = [toCheck EXCEPT ![d] = {}]
            /\ eraseUsed' = eraseUsed \/ eraseUsed' = [eraseUsed EXCEPT ![plane] = TRUE]
      BY <2>5 DEF Collect, check_and_create_gc, erasing
    <3>2. plane \in PlanesOf(d)
      BY DEF IInv, OnOwnChip, OwnChip
    <3>3. plane # p
      BY <3>2 DEF PlanesOf
    <3> QED BY <1>1, <3>1, <3>3 DEF QueuesOK
  <2> QED BY <1>3, <2>1, <2>2, <2>3, <2>4, <2>5 DEF FlashStep
<1> QED BY <1>2, <1>3, TwoKindsOfSteps

\* While a read is before a chip, only the planes that it collects are written.
LEMMA ReadHoldsWrites ==
  ASSUME IInv, CInv, DInv, WritesInPlace, [DataNext]_allVars, NEW loc \in Locations,
         NEW s \in Subs, Reads(s, ChipOf(loc[1])), ~eraseUsed[loc[1]]
  PROVE  /\ stored'[loc] = stored[loc]
         /\ HostWrites(ChipOf(loc[1]))' => HostWrites(ChipOf(loc[1]))
<1> DEFINE p == loc[1]  c == ChipOf(p)
<1>1. p \in Planes /\ c \in Chips
  BY ChipsAndPlanes DEF Locations
<1>2. ~DispatchWrite(c)
  <2>1. \A e : ~Contains(<<>>, e)
    BY DEF Contains
  <2>2. NotReading.sub # s
    BY SubNames DEF NotReading
  <2> QED BY <2>1, <2>2 DEF DispatchWrite, Free, Reads, At
<1>3. stored'[loc] = stored[loc]
  <2> SUFFICES ASSUME stored'[loc] # stored[loc] PROVE FALSE
    OBVIOUS
  <2>1. PICK d \in Chips : FlashStep(d)
    BY TwoKindsOfSteps
  <2>2. CopyWrite(c) /\ Collected(c) = p
    BY <1>2, <2>1, BytesMove
  <2>3. CopyRead(p)
    BY <1>1, <2>2, CopySent
  <2> QED BY <1>1, <2>3, CopyIsOfPage
<1>4. HostWrites(c)' => HostWrites(c)
  BY <1>1, <1>2, WriteGoesOn
<1> QED BY <1>3, <1>4

\* A command ends while a read is under way only when the thread waits, and then
\* it is no write of the read's page.
LEMMA NotOverwritten ==
  ASSUME HostPreempted = FALSE, DInv, NEW s \in Subs, Unfetched(s),
         NEW d \in Chips, CompleteCommand(d)
  PROVE  hostPc = "wait" /\ ~HostWriteEnds(d, s[2])
<1>1. hostPc \in {"idle", "wait"}
  BY DEF CompleteCommand, MayComplete, HostKeepsUp
<1>2. PICK c \in Chips : Reads(s, c)
  BY <1>1, HangingReads DEF Unfetched, LookedUp
<1>3. /\ hostPc = "wait" /\ restSubreqs # {}
      /\ \E lpn \in HostLPNs :
              \/ s = Main(lpn) /\ request.op = "READ"
              \/ s = RMW(lpn) /\ request.op = "WRITE" /\ lpn \in Waiting
  BY <1>2, ReadIsOfRequest
<1>4. ASSUME HostWriteEnds(d, s[2]) PROVE FALSE
  <2>1. PICK lpn \in HostLPNs :
              \/ s = Main(lpn) /\ request.op = "READ"
              \/ s = RMW(lpn) /\ request.op = "WRITE" /\ lpn \in Waiting
    BY <1>3
  <2>2. s[2] = lpn
    BY <2>1, SubNames
  <2>3. At(Main(lpn), "written", d) /\ Main(lpn) \in Subs
    BY <1>4, <2>2, SubNames DEF HostWriteEnds, At
  <2>4. "written" \in Kinds /\ "write list" \in Kinds
    BY DEF Kinds
  <2>5. request.op = "WRITE"
    BY <2>3, <2>4, PartsOfDInv DEF MainsPlace
  <2>6. PICK e \in Chips : At(Main(lpn), "write list", e)
    BY <1>3, <2>1, <2>5, PartsOfDInv DEF WaitsInList
  <2>7. "written" # "write list"
    OBVIOUS
  <2> QED BY <2>3, <2>4, <2>6, <2>7, OnlyPlace
<1> QED BY <1>3, <1>4

\* What a new request reads is where the map says.
LEMMA LookedUpPlace ==
  ASSUME NoneRefused, CInv, NEW s, NEW bitMap, NEW lpn \in HostLPNs,
         IsRead(s, bitMap, lpn), map[lpn].subPage # {}
  PROVE  s.location = Place(lpn) /\ Place(lpn)[1] = allocate_location_for_plane(lpn)
<1>1. PICK loc \in Locations : loc \in LookUp(lpn) /\ s = SubRead(bitMap, loc)
  BY DEF IsRead
<1>2. s.location = loc
  BY <1>1 DEF SubRead, FreeSub
<1>3. loc = Place(lpn) /\ Place(lpn)[1] = allocate_location_for_plane(lpn)
  BY <1>1, PlaceOf
<1> QED BY <1>2, <1>3

LEMMA SubmitFindsSource ==
  ASSUME NoneRefused, CInv, DInv, DInv', HostSubmit
  PROVE  SourceOK'
<1> SUFFICES ASSUME NEW s \in Subs, Unfetched(s)', map'[s[2]].subPage # {}
             PROVE  SourceKept(s[2], sub[s].location)'
  BY DEF SourceOK
<1>1. map' = map /\ stored' = stored /\ hostPc' # "wait"
  BY Submitted DEF flashVars, vars, tables
<1>2. ASSUME NEW c \in Chips, Hanging(s, c)' PROVE FALSE
  <2>1. PICK k \in {"read list", "reading"} : At(s, k, c)'
    BY <1>2 DEF Hanging
  <2>2. k \in Kinds /\ k \notin {"write list", "written", "ending"} /\ MainsPlace' /\ RMWsPlace'
    BY DEF Kinds, DInv
  <2>3. PICK lpn \in HostLPNs : s = Main(lpn) \/ s = RMW(lpn)
    BY SubNames
  <2> QED BY <1>1, <2>1, <2>2, <2>3 DEF MainsPlace, RMWsPlace
<1>3. LookedUp(s)'
  BY <1>2 DEF Unfetched
<1>4. PICK req \in Requests :
              /\ request' = req /\ restSubreqs' = PagesOfRequest(req)
              /\ \A lpn \in PagesOfRequest(req) :
                   /\ req.op = "READ" => IsRead(sub'[Main(lpn)], BitMap(req, lpn), lpn)
                   /\ req.op = "WRITE" =>
                        /\ IsWrite(sub'[Main(lpn)], req, lpn)
                        /\ ~Covers(BitMap(req, lpn), lpn) =>
                             IsRead(sub'[RMW(lpn)], map[lpn].subPage, lpn)
  BY Submitted
<1>5. PICK lpn \in HostLPNs : s[2] = lpn /\ \E bitMap : IsRead(sub'[s], bitMap, lpn)
  <2>1. CASE req.op = "READ"
    <3>1. PICK lpn \in PagesOfRequest(req) : s = Main(lpn)
      BY <1>3, <1>4, <2>1 DEF LookedUp
    <3>2. lpn \in HostLPNs /\ s[2] = lpn
      BY <3>1, SubNames DEF PagesOfRequest
    <3> QED BY <1>4, <2>1, <3>1, <3>2
  <2>2. CASE req.op # "READ"
    <3>1. PICK lpn \in PagesOfRequest(req) :
            req.op = "WRITE" /\ s = RMW(lpn) /\ sub'[Main(lpn)].waits
      BY <1>3, <1>4, <2>2 DEF LookedUp, Waiting
    <3>2. lpn \in HostLPNs /\ s[2] = lpn
      BY <3>1, SubNames DEF PagesOfRequest
    <3>3. ~Covers(BitMap(req, lpn), lpn)
      <4>1. IsWrite(sub'[Main(lpn)], req, lpn)
        BY <1>4, <3>1
      <4> QED BY <3>1, <4>1 DEF IsWrite, SubWrite
    <3> QED BY <1>4, <3>1, <3>2, <3>3
  <2> QED BY <2>1, <2>2
<1>6. sub'[s].location = Place(lpn) /\ Place(lpn)[1] = allocate_location_for_plane(lpn)
  BY <1>1, <1>5, LookedUpPlace
<1>7. Place(lpn)' = Place(lpn)
  BY <1>1 DEF Place
<1> QED BY <1>1, <1>5, <1>6, <1>7 DEF SourceKept, Agree

LEMMA StepKeepsSource ==
  ASSUME HostPreempted = FALSE, IInv, NoneRefused, CInv, DInv, DInv', WritesInPlace,
         CopiesOK, ReadsOnChip, SourceOK, [DataNext]_allVars
  PROVE  SourceOK'
<1>1. CASE HostSubmit
  BY <1>1, SubmitFindsSource
<1>2. CASE ~HostSubmit
  <2> SUFFICES ASSUME NEW s \in Subs, Unfetched(s)', map'[s[2]].subPage # {}
               PROVE  SourceKept(s[2], sub[s].location)'
    BY DEF SourceOK
  <2>1. PICK lpn \in HostLPNs : s[2] = lpn
    BY SubNames
  <2> PICK loc \in Locations : loc = sub[s].location
    <3>1. sub[s] \in SubOf
      BY PartsOfDInv DEF SubsOK
    <3> QED BY <3>1 DEF SubOf
  <2> DEFINE p == allocate_location_for_plane(lpn)
             c == ChipOf(p)
  <2>2. Unfetched(s) /\ sub'[s].location = loc /\ (hostPc = "wait" => hostPc' = "wait")
    BY <1>2, UnfetchedStays
  <2>3. \A d \in Chips : CompleteCommand(d) => hostPc = "wait" /\ ~HostWriteEnds(d, lpn)
    BY <2>1, <2>2, NotOverwritten
  <2>4. \A d \in Chips : ~HostWriteEnds(d, lpn)
    BY <2>3 DEF HostWriteEnds
  <2>5. /\ map'[lpn].subPage = map[lpn].subPage
        /\ Agree(stored'[Place(lpn)'], stored[Place(lpn)], FirstRun(map[lpn].subPage))
        /\ \/ map[lpn].subPage = {}
           \/ Place(lpn)' = Place(lpn)
           \/ \E d \in Chips : /\ CompleteCommand(d) /\ eraseUsed[p]
                               /\ UNCHANGED <<eraseUsed, eraseBlock>>
                               /\ Place(lpn) = From(p)
    BY <2>4, ContentMoves
  <2>6. map[lpn].subPage # {}
    BY <2>1, <2>5
  <2>7. /\ loc[1] = p
        /\ Agree(stored[loc], stored[Place(lpn)], FirstRun(map[lpn].subPage))
        /\ \/ loc = Place(lpn)
           \/ hostPc = "wait" /\ eraseUsed[p] /\ loc[2] = eraseBlock[p]
           \/ hostPc = "wait" /\ ~eraseUsed[p] /\ toCheck[c] = {} /\ ~HostWrites(c)
    BY <2>1, <2>2, <2>6 DEF SourceOK, SourceKept
  <2>8. p \in Planes /\ c \in Chips
    BY <2>7, ChipsAndPlanes DEF Locations
  <2> HIDE DEF p, c
  <2>9. SUFFICES /\ stored'[loc] = stored[loc]
                 /\ \/ loc = Place(lpn)'
                    \/ hostPc' = "wait" /\ eraseUsed'[p] /\ loc[2] = eraseBlock'[p]
                    \/ hostPc' = "wait" /\ ~eraseUsed'[p] /\ toCheck'[c] = {} /\ ~HostWrites(c)'
    <3>1. ASSUME stored'[loc] = stored[loc]
          PROVE  Agree(stored'[loc], stored'[Place(lpn)'], FirstRun(map[lpn].subPage))
      BY <2>5, <2>7, <3>1 DEF Agree
    <3> QED BY <2>1, <2>2, <2>5, <2>7, <3>1 DEF SourceKept, p, c
  <2>10. CASE loc = Place(lpn)
    <3>1. pageInfos[loc].state # {}
      <4>1. pageInfos[loc] = [state |-> map[lpn].subPage, lpn |-> lpn]
        BY <2>6, <2>10, PlaceOf
      <4>2. pageInfos[loc].state = map[lpn].subPage
        BY <4>1
      <4> QED BY <2>6, <4>2
    <3>2. stored'[loc] = stored[loc]
      BY <3>1, BytesStay
    <3>3. CASE Place(lpn)' = Place(lpn)
      BY <2>10, <3>2, <3>3
    <3>4. ASSUME NEW d \in Chips, CompleteCommand(d), eraseUsed[p],
                 UNCHANGED <<eraseUsed, eraseBlock>>, Place(lpn) = From(p)
          PROVE  hostPc' = "wait" /\ eraseUsed'[p] /\ loc[2] = eraseBlock'[p]
      <4>1. hostPc = "wait"
        BY <2>3, <3>4
      <4> QED BY <2>2, <2>10, <3>4, <4>1 DEF From
    <3> QED BY <2>5, <2>6, <3>2, <3>3, <3>4 DEF p
  <2>11. CASE hostPc = "wait" /\ eraseUsed[p] /\ loc[2] = eraseBlock[p]
    <3>1. stored'[loc] = stored[loc]
      BY <2>7, <2>11, BytesStay
    <3>2. \/ eraseUsed'[p] /\ eraseBlock'[p] = eraseBlock[p]
          \/ ~eraseUsed'[p] /\ toCheck'[c] = {} /\ ~HostWrites(c)'
      BY <2>8, <2>11, CollectionGoesOn DEF c
    <3> QED BY <2>2, <2>11, <3>1, <3>2
  <2>12. CASE hostPc = "wait" /\ ~eraseUsed[p] /\ toCheck[c] = {} /\ ~HostWrites(c)
    <3>1. Reads(s, c)
      <4>1. PICK d \in Chips : Reads(s, d)
        BY <2>2, <2>12, HangingReads DEF Unfetched, LookedUp
      <4>2. ChipOf(loc[1]) = d
        BY <4>1 DEF ReadsOnChip
      <4> QED BY <2>7, <4>1, <4>2 DEF c
    <3>2. stored'[loc] = stored[loc] /\ (HostWrites(c)' => HostWrites(c))
      <4>1. Reads(s, ChipOf(loc[1])) /\ ~eraseUsed[loc[1]] /\ ChipOf(loc[1]) = c
        BY <2>7, <2>12, <3>1 DEF c
      <4> QED BY <4>1, ReadHoldsWrites
    <3>3. ~eraseUsed'[p] /\ toCheck'[c] = {}
      BY <2>8, <2>12, NoneCollected DEF c
    <3> QED BY <2>2, <2>12, <3>2, <3>3
  <2> QED BY <2>7, <2>10, <2>11, <2>12
<1> QED BY <1>1, <1>2

-----------------------------------------------------------------------------
\* What the bytes do, but for the reads.
BInv == WritesInPlace /\ CopiesOK /\ WriteBytes /\ EndedBytes /\ ReadsOnChip

LEMMA InitBInv == DataInit => BInv /\ SourceOK
<1> SUFFICES ASSUME DataInit PROVE BInv /\ SourceOK
  OBVIOUS
<1>1. /\ request = NoRequest /\ restSubreqs = {} /\ hostPc = "idle"
      /\ rList = [c \in Chips |-> <<>>]
      /\ reading = [c \in Chips |-> NotReading] /\ ending = [c \in Chips |-> NoSub]
      /\ chipState = [c \in Chips |-> "IDLE"] /\ cmd = [x \in CommandIDs |-> NoCommand]
  BY DEF DataInit, Init
<1>2. ASSUME NEW s \in Subs, NEW c \in Chips PROVE ~Reads(s, c)
  <2>1. ~Contains(rList[c], s)
    BY <1>1, ContainsOne
  <2>2. reading[c].sub # s
    BY <1>1, SubNames DEF NotReading
  <2> QED BY <2>1, <2>2 DEF Reads, At
<1>3. ReadsOnChip /\ SourceOK
  BY <1>1, <1>2, HangingReads DEF ReadsOnChip, SourceOK, Unfetched, LookedUp
<1>5. WritesInPlace /\ WriteBytes /\ EndedBytes
  <2>1. WritesInPlace
    BY <1>1 DEF WritesInPlace
  <2>2. WriteBytes
    <3>1. \A c \in Chips : ~HostWrites(c)
      BY <1>1 DEF HostWrites
    <3> QED BY <3>1 DEF WriteBytes
  <2>3. EndedBytes
    <3>1. \A c \in Chips, lpn \in HostLPNs : ending[c] # Main(lpn)
      BY <1>1, SubNames
    <3> QED BY <3>1 DEF EndedBytes
  <2> QED BY <2>1, <2>2, <2>3
<1>6. ASSUME NEW p \in Planes PROVE CopyOf(p)
  <2>1. /\ p \in CommandIDs /\ ChipOf(p) \in Chips /\ NoCommand.operation = "NONE"
    BY FirstValues, ChipsAndPlanes DEF CommandIDs
  <2>2. cmd[p].operation = "NONE" /\ chipState[ChipOf(p)] = "IDLE"
    BY <1>1, <2>1
  <2> QED BY <2>2 DEF CopyOf, CopyRead, Does
<1> QED BY <1>3, <1>5, <1>6 DEF BInv, CopiesOK

LEMMA StepKeepsBInv ==
  ASSUME IInv, NoneRefused, CInv, DInv, DInv', BInv, [DataNext]_allVars
  PROVE  BInv'
  BY StepKeepsPlaces, StepKeepsCopies, StepKeepsWritten, StepKeepsEnded, StepKeepsReadsOnChip
     DEF BInv

\* The invariant of the bytes.
LEMMA BytesInvariance == DataSpec /\ []NoneRefused => []BInv
<1>1. DataInit => BInv
  BY InitBInv
<1>2. IInv /\ NoneRefused /\ CInv /\ DInv /\ DInv' /\ BInv
        /\ [DataNext]_allVars => BInv'
  BY StepKeepsBInv
<1> QED BY <1>1, <1>2, DataInvariance, PTL DEF DataSpec

LEMMA SourceInvariance ==
  ASSUME HostPreempted = FALSE
  PROVE  DataSpec /\ []NoneRefused => []SourceOK
<1>1. DataInit => SourceOK
  BY InitBInv
<1>2. IInv /\ NoneRefused /\ CInv /\ DInv /\ DInv' /\ BInv /\ SourceOK
        /\ [DataNext]_allVars => SourceOK'
  BY StepKeepsSource DEF BInv
<1> QED BY <1>1, <1>2, DataInvariance, BytesInvariance, PTL DEF DataSpec

-----------------------------------------------------------------------------
(* The theorems of the bytes.                                              *)

(* A kept subpage holds what was written.  When the command of a write has  *)
(* ended (end_program_CMD), the hardware has, for each sector before the    *)
(* first hole of what the map calls valid, the byte that was in the         *)
(* sub-request's buffer: the sectors of the request, and around them those  *)
(* its read brought, which no copy of a collection moved in the meantime.   *)
THEOREM WrittenIsStored == DataSpec /\ []NoneRefused => []KeptIsWritten
<1>1. ASSUME EndedBytes PROVE KeptIsWritten
  <2> SUFFICES ASSUME NEW lpn \in HostLPNs, request.op = "WRITE",
                      NEW c \in Chips, ending[c] = Main(lpn),
                      NEW i \in FirstRun(map[lpn].subPage)
               PROVE  stored[Place(lpn)][i] = sub[Main(lpn)].buf[i]
    BY DEF KeptIsWritten, WriteEnded, HoldsWhatWasWritten
  <2>1. Agree(stored[Place(lpn)], sub[Main(lpn)].buf, FirstRun(map[lpn].subPage))
    BY <1>1 DEF EndedBytes
  <2> QED BY <2>1 DEF Agree
<1>2. BInv => KeptIsWritten
  BY <1>1 DEF BInv
<1> QED BY <1>2, BytesInvariance, PTL

(* A read is sent to the place that get_PPN_USBSSD gave when its request    *)
(* was built, and waits in a list while the collection may move its page    *)
(* and erase the block.  It finds the bytes of its sectors all the same, if *)
(* the block layer's thread hangs it on its chip before another command     *)
(* ends (HostPreempted = FALSE).                                            *)
THEOREM ReadsFindTheirBytes ==
  ASSUME HostPreempted = FALSE
  PROVE  DataSpec /\ []NoneRefused => []ReadSourceIntact
<1>1. DInv /\ SourceOK => ReadSourceIntact
  <2> SUFFICES ASSUME DInv, SourceOK, NEW s \in Unread,
                      NEW i \in sub[s].bitMap \cap FirstRun(map[s[2]].subPage)
               PROVE  stored[sub[s].location][i] = Content[<<s[2], i>>]
    BY DEF ReadSourceIntact
  <2>1. PICK c \in Chips : \/ s \in ToSet(rList[c])
                           \/ reading[c].stage \in {"addr", "register"} /\ s = reading[c].sub
    BY DEF Unread
  <2>2. s \in Subs /\ Hanging(s, c)
    <3>1. rList[c] \in Seq(Subs) /\ reading[c] \in ReadOf \cup {NotReading}
      BY PartsOfDInv DEF ListsOK, ChipsOK
    <3>2. CASE s \in ToSet(rList[c])
      BY <3>1, <3>2 DEF ToSet, Hanging, At, Contains
    <3>3. CASE reading[c].stage \in {"addr", "register"} /\ s = reading[c].sub
      <4>1. NotReading.stage = "none"
        BY DEF NotReading
      <4>2. reading[c] \in ReadOf
        BY <3>1, <3>3, <4>1
      <4> QED BY <3>3, <4>2 DEF ReadOf, Hanging, At
    <3> QED BY <2>1, <3>2, <3>3
  <2>3. PICK lpn \in HostLPNs : s[2] = lpn
    BY <2>2, SubNames
  <2>4. Agree(stored[sub[s].location], stored[Place(lpn)], FirstRun(map[lpn].subPage))
    <3>1. map[lpn].subPage # {}
      BY <2>3, FirstRunWithin
    <3> QED BY <2>2, <2>3, <3>1 DEF SourceOK, Unfetched, SourceKept
  <2>5. Content[<<lpn, i>>] = stored[Place(lpn)][i]
    <3>1. <<lpn, i>> \in Sectors /\ <<lpn, i>>[1] = lpn /\ <<lpn, i>>[2] = i
      <4>1. sub[s] \in SubOf
        BY <2>2, PartsOfDInv DEF SubsOK
      <4> QED BY <4>1 DEF SubOf, Sectors
    <3> QED BY <2>3, <3>1 DEF Content
  <2> QED BY <2>3, <2>4, <2>5 DEF Agree
<1> QED BY <1>1, DataInvariance, SourceInvariance, PTL

-----------------------------------------------------------------------------
(* The sectors of the request.                                             *)

\* A read is of the sectors of the request; a write that waits has those alone,
\* and the read it waits for is of all that is stored.
PagesOK == restSubreqs \subseteq PagesOfRequest(request)
ReadMaps ==
  request.op = "READ" =>
    \A lpn \in restSubreqs : sub[Main(lpn)].bitMap = BitMap(request, lpn)
WaitMaps ==
  \A lpn \in Waiting :
    /\ request.op = "WRITE" /\ sub[Main(lpn)].bitMap = BitMap(request, lpn)
    /\ sub[RMW(lpn)].bitMap = map[lpn].subPage

\* A write that waits no more and has not ended has the sectors of the request
\* and around them, as they are, those that are stored.
Ended(lpn) == \E c \in Chips : ending[c] = Main(lpn)
MergedOK ==
  \A lpn \in restSubreqs :
    request.op = "WRITE" /\ ~sub[Main(lpn)].waits /\ ~Ended(lpn) =>
      /\ sub[Main(lpn)].bitMap = BitMap(request, lpn) \cup map[lpn].subPage
      /\ Agree(sub[Main(lpn)].buf, stored[Place(lpn)],
               FirstRun(map[lpn].subPage) \ BitMap(request, lpn))

\* A read that has its bytes has those that are stored.
Fetched(s) ==
  \E c \in Chips : \/ At(s, "reading", c) /\ reading[c].stage = "data"
                   \/ s[1] = "rmw" /\ At(s, "ending", c)
FetchedOK ==
  \A s \in Subs : Fetched(s) =>
    Agree(sub[s].buf, stored[Place(s[2])], sub[s].bitMap \cap FirstRun(map[s[2]].subPage))

EInv == PagesOK /\ ReadMaps /\ WaitMaps /\ MergedOK /\ FetchedOK

LEMMA PagesAndMaps ==
  ASSUME NEW req, NEW lpn
  PROVE  BitMap(req, lpn) \in SUBSET SubPages /\ PagesOfRequest(req) \subseteq HostLPNs
  BY DEF BitMap, PagesOfRequest

\* A new request gives its sub-requests these bitMaps.
LEMMA SubmittedMaps ==
  ASSUME NEW s, NEW lpn \in HostLPNs, NEW req
  PROVE  /\ \A bitMap \in SUBSET SubPages :
              IsRead(s, bitMap, lpn) => s.bitMap = bitMap /\ ~s.waits
         /\ IsWrite(s, req, lpn) =>
              s.bitMap = BitMap(req, lpn) /\ (s.waits <=> ~Covers(BitMap(req, lpn), lpn))
<1>1. ASSUME NEW bitMap \in SUBSET SubPages, IsRead(s, bitMap, lpn)
      PROVE  s.bitMap = bitMap /\ ~s.waits
  BY <1>1, SubValues DEF IsRead
<1>2. ASSUME IsWrite(s, req, lpn)
      PROVE  s.bitMap = BitMap(req, lpn) /\ (s.waits <=> ~Covers(BitMap(req, lpn), lpn))
  <2>1. PICK data \in Buffers, waits \in BOOLEAN :
           /\ s = SubWrite(BitMap(req, lpn), lpn, data, waits)
           /\ waits <=> ~Covers(BitMap(req, lpn), lpn)
    BY <1>2 DEF IsWrite
  <2>2. s.bitMap = BitMap(req, lpn) /\ s.waits = waits
    BY <2>1, SubValues, PagesAndMaps
  <2> QED BY <2>1, <2>2
<1> QED BY <1>1, <1>2

\* While the request is out only a transfer changes a read of the host, and only
\* the merge a write.
LEMMA MainChanges ==
  ASSUME DInv, [DataNext]_allVars, ~HostSubmit, ~RequestEnds,
         NEW lpn \in HostLPNs, sub'[Main(lpn)] # sub[Main(lpn)]
  PROVE  \/ request.op = "READ" /\ \E c \in Chips : Fetches(c, Main(lpn))
         \/ request.op = "WRITE" /\ \E c \in Chips : Merges(c, lpn)
<1>1. Main(lpn) \in Subs /\ \A l : Main(lpn) # RMW(l) /\ (Main(lpn) = Main(l) => lpn = l)
  BY SubNames
<1>2. "reading" \in Kinds /\ "ending" \in Kinds /\ MainsPlace /\ RMWsPlace
  BY PartsOfDInv DEF Kinds
<1>3. ASSUME NEW c \in Chips, Fetches(c, Main(lpn))
      PROVE  request.op = "READ"
  BY <1>2, <1>3 DEF Fetches, MainsPlace
<1>4. ASSUME NEW c \in Chips, NEW l \in HostLPNs, Merges(c, l), Main(lpn) \in {RMW(l), Main(l)}
      PROVE  l = lpn /\ request.op = "WRITE"
  <2>1. At(RMW(l), "ending", c)
    BY <1>4 DEF Merges, At
  <2> QED BY <1>1, <1>2, <1>4, <2>1 DEF RMWsPlace
<1> QED BY <1>1, <1>3, <1>4, SubChanges DEF RequestEnds

\* The read before a write changes by its transfer and goes with its end.
LEMMA RMWChanges ==
  ASSUME DInv, [DataNext]_allVars, ~HostSubmit, ~RequestEnds,
         NEW lpn \in HostLPNs, sub'[RMW(lpn)] # sub[RMW(lpn)]
  PROVE  \E c \in Chips : Fetches(c, RMW(lpn)) \/ Merges(c, lpn)
<1>1. RMW(lpn) \in Subs /\ \A l : RMW(lpn) # Main(l) /\ (RMW(lpn) = RMW(l) => lpn = l)
  BY SubNames
<1> QED BY <1>1, SubChanges DEF RequestEnds

\* What these steps make of bitMap and waits.
LEMMA ChangedMaps ==
  ASSUME DInv, NEW c \in Chips, NEW lpn \in HostLPNs
  PROVE  /\ \A s \in Subs : Fetches(c, s) =>
              sub'[s].bitMap = sub[s].bitMap /\ sub'[s].waits = sub[s].waits
         /\ Merges(c, lpn) =>
              /\ sub'[Main(lpn)].bitMap = sub[Main(lpn)].bitMap \cup sub[RMW(lpn)].bitMap
              /\ ~sub'[Main(lpn)].waits
              /\ sub'[Main(lpn)].buf = Overlay(sub[Main(lpn)].buf, sub[RMW(lpn)].buf,
                                               Missing(sub[RMW(lpn)], sub[Main(lpn)]))
<1>1. \A s \in Subs : sub[s] \in SubOf
  BY PartsOfDInv DEF SubsOK
<1>2. ASSUME NEW s \in Subs, Fetches(c, s)
      PROVE  sub'[s].bitMap = sub[s].bitMap /\ sub'[s].waits = sub[s].waits
  BY <1>1, <1>2 DEF Fetches, SubOf
<1>3. ASSUME Merges(c, lpn)
      PROVE  /\ sub'[Main(lpn)].bitMap = sub[Main(lpn)].bitMap \cup sub[RMW(lpn)].bitMap
             /\ ~sub'[Main(lpn)].waits
             /\ sub'[Main(lpn)].buf = Overlay(sub[Main(lpn)].buf, sub[RMW(lpn)].buf,
                                              Missing(sub[RMW(lpn)], sub[Main(lpn)]))
  <2>1. sub[Main(lpn)] \in SubOf
    BY <1>1, SubNames
  <2> QED BY <1>3, <2>1 DEF Merges, SubOf
<1> QED BY <1>2, <1>3

\* What waits is not being programmed.
LEMMA WaitingNotWritten ==
  ASSUME DInv, NEW lpn \in Waiting, request.op = "WRITE", NEW c \in Chips
  PROVE  ~At(Main(lpn), "written", c) /\ ~HostWriteEnds(c, lpn)
<1>1. lpn \in HostLPNs /\ Main(lpn) \in Subs
  BY PartsOfDInv, SubNames DEF Waiting, HostOK
<1>2. "written" \in Kinds /\ "write list" \in Kinds /\ "written" # "write list"
  BY DEF Kinds
<1>3. ASSUME At(Main(lpn), "written", c) PROVE FALSE
  <2>1. hostPc \in {"add reads", "wait", "fault"}
    BY <1>1, <1>2, <1>3, PartsOfDInv DEF MainsPlace
  <2>2. PICK e \in Chips : At(Main(lpn), "write list", e)
    BY <2>1, PartsOfDInv DEF WaitsInList
  <2> QED BY <1>1, <1>2, <1>3, <2>2, OnlyPlace
<1>4. HostWriteEnds(c, lpn) => At(Main(lpn), "written", c)
  BY DEF HostWriteEnds, At
<1> QED BY <1>3, <1>4

\* Between its submission and its end a request is the same, and nothing new waits.
LEMMA RequestGoesOn ==
  ASSUME DInv, [DataNext]_allVars, ~HostSubmit, ~RequestEnds
  PROVE  /\ request' = request /\ restSubreqs' \subseteq restSubreqs
         /\ restSubreqs' \subseteq HostLPNs /\ Waiting' \subseteq Waiting
<1>1. request' = request /\ restSubreqs' \subseteq restSubreqs
  <2>1. restSubreqs' # {} \/ ~(\E c \in Chips : EndMain(c))
    BY DEF RequestEnds
  <2> QED BY <2>1, RequestStays
<1>2. restSubreqs' \subseteq HostLPNs
  BY <1>1, PartsOfDInv DEF HostOK
<1>3. ASSUME NEW lpn \in Waiting' PROVE lpn \in Waiting
  <2>1. lpn \in restSubreqs' /\ sub'[Main(lpn)].waits /\ lpn \in HostLPNs
    BY <1>2 DEF Waiting
  <2>2. Main(lpn) \in Subs
    BY <2>1, SubNames
  <2>3. CASE sub'[Main(lpn)] = sub[Main(lpn)]
    BY <1>1, <2>1, <2>3 DEF Waiting
  <2>4. ASSUME NEW c \in Chips, Fetches(c, Main(lpn)) PROVE lpn \in Waiting
    BY <1>1, <2>1, <2>2, <2>4, ChangedMaps DEF Waiting
  <2>5. ASSUME NEW c \in Chips, Merges(c, lpn) PROVE FALSE
    BY <2>1, <2>5, ChangedMaps
  <2> QED BY <2>1, <2>3, <2>4, <2>5, MainChanges
<1> QED BY <1>1, <1>2, <1>3

LEMMA SubmitSetsMaps ==
  ASSUME IInv, HostSubmit
  PROVE  PagesOK' /\ ReadMaps' /\ WaitMaps'
<1>1. PICK req \in Requests :
              /\ request' = req /\ restSubreqs' = PagesOfRequest(req)
              /\ \A lpn \in PagesOfRequest(req) :
                   /\ req.op = "READ" => IsRead(sub'[Main(lpn)], BitMap(req, lpn), lpn)
                   /\ req.op = "WRITE" =>
                        /\ IsWrite(sub'[Main(lpn)], req, lpn)
                        /\ ~Covers(BitMap(req, lpn), lpn) =>
                             IsRead(sub'[RMW(lpn)], map[lpn].subPage, lpn)
  BY Submitted
<1>2. map' = map /\ req.op \in {"READ", "WRITE"}
  <2>1. UNCHANGED flashVars
    BY Submitted
  <2>2. req.op \in {"READ", "WRITE"}
    BY DEF Requests
  <2> QED BY <2>1, <2>2 DEF flashVars, vars, tables
<1>3. ASSUME NEW lpn \in PagesOfRequest(req), req.op = "READ"
      PROVE  sub'[Main(lpn)].bitMap = BitMap(req, lpn) /\ ~sub'[Main(lpn)].waits
  BY <1>1, <1>3, SubmittedMaps, PagesAndMaps
<1>4. ASSUME NEW lpn \in PagesOfRequest(req), req.op = "WRITE", sub'[Main(lpn)].waits
      PROVE  sub'[Main(lpn)].bitMap = BitMap(req, lpn) /\ sub'[RMW(lpn)].bitMap = map[lpn].subPage
  <2>1. lpn \in HostLPNs /\ map[lpn].subPage \in SUBSET SubPages
    BY PagesAndMaps DEF IInv, TypeOK
  <2>2. sub'[Main(lpn)].bitMap = BitMap(req, lpn) /\ ~Covers(BitMap(req, lpn), lpn)
    BY <1>1, <1>4, <2>1, SubmittedMaps
  <2>3. IsRead(sub'[RMW(lpn)], map[lpn].subPage, lpn)
    BY <1>1, <1>4, <2>2
  <2> QED BY <2>1, <2>2, <2>3, SubmittedMaps
<1>5. PagesOK' /\ ReadMaps'
  BY <1>1, <1>3 DEF PagesOK, ReadMaps
<1>6. WaitMaps'
  <2>1. \A lpn \in Waiting' : lpn \in PagesOfRequest(req) /\ sub'[Main(lpn)].waits
    BY <1>1 DEF Waiting
  <2>2. \A lpn \in Waiting' : req.op = "WRITE"
    BY <1>2, <1>3, <2>1
  <2> QED BY <1>1, <1>2, <1>4, <2>1, <2>2 DEF WaitMaps
<1> QED BY <1>5, <1>6

LEMMA StepKeepsMaps ==
  ASSUME IInv, NoneRefused, CInv, DInv, WritesInPlace, CopiesOK,
         PagesOK, ReadMaps, WaitMaps, [DataNext]_allVars
  PROVE  PagesOK' /\ ReadMaps' /\ WaitMaps'
<1>1. CASE RequestEnds
  BY <1>1 DEF RequestEnds, PagesOK, ReadMaps, WaitMaps, Waiting
<1>2. CASE ~HostSubmit /\ ~RequestEnds
  <2>1. /\ request' = request /\ restSubreqs' \subseteq restSubreqs
        /\ restSubreqs' \subseteq HostLPNs /\ Waiting' \subseteq Waiting
    BY <1>2, RequestGoesOn
  <2>2. PagesOK'
    BY <2>1 DEF PagesOK
  <2>3. ASSUME request.op = "READ", NEW lpn \in restSubreqs'
        PROVE  sub'[Main(lpn)].bitMap = BitMap(request, lpn)
    <3>1. lpn \in HostLPNs /\ lpn \in restSubreqs /\ Main(lpn) \in Subs
      BY <2>1, SubNames
    <3>2. sub'[Main(lpn)].bitMap = sub[Main(lpn)].bitMap
      <4>1. CASE sub'[Main(lpn)] = sub[Main(lpn)]
        BY <4>1
      <4>2. ASSUME NEW c \in Chips, Fetches(c, Main(lpn))
            PROVE  sub'[Main(lpn)].bitMap = sub[Main(lpn)].bitMap
        BY <3>1, <4>2, ChangedMaps
      <4> QED BY <1>2, <2>3, <3>1, <4>1, <4>2, MainChanges
    <3> QED BY <2>3, <3>1, <3>2 DEF ReadMaps
  <2>4. ASSUME NEW lpn \in Waiting'
        PROVE  /\ request.op = "WRITE" /\ sub'[Main(lpn)].bitMap = BitMap(request, lpn)
               /\ sub'[RMW(lpn)].bitMap = map'[lpn].subPage
    <3>1. /\ lpn \in Waiting /\ request.op = "WRITE" /\ sub[Main(lpn)].bitMap = BitMap(request, lpn)
          /\ sub[RMW(lpn)].bitMap = map[lpn].subPage
      BY <2>1 DEF WaitMaps
    <3>2. lpn \in HostLPNs /\ Main(lpn) \in Subs /\ RMW(lpn) \in Subs
      BY <2>1, SubNames DEF Waiting
    <3>3. \A c \in Chips : ~Merges(c, lpn)
      BY <3>2, ChangedMaps DEF Waiting
    <3>4. sub'[Main(lpn)] = sub[Main(lpn)]
      BY <1>2, <3>1, <3>2, <3>3, MainChanges
    <3>5. sub'[RMW(lpn)].bitMap = sub[RMW(lpn)].bitMap
      <4>1. CASE sub'[RMW(lpn)] = sub[RMW(lpn)]
        BY <4>1
      <4>2. ASSUME NEW c \in Chips, Fetches(c, RMW(lpn))
            PROVE  sub'[RMW(lpn)].bitMap = sub[RMW(lpn)].bitMap
        BY <3>2, <4>2, ChangedMaps
      <4> QED BY <1>2, <3>2, <3>3, <4>1, <4>2, RMWChanges
    <3>6. map'[lpn].subPage = map[lpn].subPage
      BY <3>1, <3>2, WaitingNotWritten, ContentMoves
    <3> QED BY <3>1, <3>4, <3>5, <3>6
  <2>5. ReadMaps'
    BY <2>1, <2>3 DEF ReadMaps
  <2>6. WaitMaps'
    BY <2>1, <2>4 DEF WaitMaps
  <2> QED BY <2>2, <2>5, <2>6
<1> QED BY <1>1, <1>2, SubmitSetsMaps

-----------------------------------------------------------------------------
(* The reads that have their bytes, and the writes that were merged.       *)

\* A transfer begins with the chip's read in the register.
LEMMA TransferFetches ==
  ASSUME DInv, NEW d \in Chips, DispatchReadTransfer(d)
  PROVE  /\ \A c \in Chips : c # d => reading'[c] = reading[c]
         /\ reading'[d].sub = reading[d].sub
         /\ Fetches(d, reading[d].sub)
<1>1. reading \in [Chips -> ReadOf \cup {NotReading}] /\ sub \in [Subs -> SubOf]
  BY PartsOfDInv DEF ChipsOK, SubsOK
<1>2. reading[d].stage = "register"
      /\ reading' = [reading EXCEPT ![d].stage = "data"]
  BY DEF DispatchReadTransfer
<1>3. reading[d] \in ReadOf
  BY <1>1, <1>2 DEF NotReading
<1> PICK s : s = reading[d].sub
  OBVIOUS
<1>4. s \in Subs
  BY <1>3 DEF ReadOf
<1>5. reading'[d] = [reading[d] EXCEPT !.stage = "data"]
  BY <1>1, <1>2
<1>6. reading'[d].sub = s
  BY <1>3, <1>5 DEF ReadOf
<1>7. sub' = [sub EXCEPT ![s].buf =
                Overlay(@, stored[sub[s].location], FirstRun(sub[s].bitMap))]
  BY DEF DispatchReadTransfer
<1>8. Fetches(d, s)
  BY <1>1, <1>2, <1>4, <1>7 DEF Fetches, At
<1> QED BY <1>1, <1>2, <1>6, <1>8

\* A read that has its bytes had them before, or fetches them.
LEMMA FetchedBegins ==
  ASSUME DInv, DInv', [DataNext]_allVars, NEW s \in Subs, Fetched(s)'
  PROVE  /\ ~HostSubmit /\ ~RequestEnds
         /\ Fetched(s) \/ \E c \in Chips : Fetches(c, s)
<1>1. PICK k \in {"reading", "ending"}, c \in Chips : At(s, k, c)'
        /\ (k = "reading" => reading'[c].stage = "data") /\ (k = "ending" => s[1] = "rmw")
  BY DEF Fetched
<1>2. k \in Kinds /\ MainsPlace' /\ RMWsPlace'
  BY <1>1 DEF Kinds, DInv
<1>3. PICK lpn \in HostLPNs : s = Main(lpn) \/ s = RMW(lpn)
  BY SubNames
<1>4. s = Main(lpn) => k = "reading"
  BY <1>1, SubNames
<1>5. hostPc' = "wait" /\ lpn \in restSubreqs'
  <2>1. At(s, k, c)'
    BY <1>1
  <2>2. CASE s = Main(lpn)
    <3>1. k \in Kinds /\ k \notin {"write list", "written", "ending"}
      BY <1>2, <1>4, <2>2
    <3> QED BY <1>2, <2>1, <2>2, <3>1 DEF MainsPlace
  <2>3. CASE s = RMW(lpn)
    BY <1>2, <2>1, <2>3 DEF RMWsPlace, Waiting
  <2> QED BY <1>3, <2>2, <2>3
<1>6. ~HostSubmit /\ ~RequestEnds
  BY <1>5, Submitted DEF RequestEnds
<1>7. Fetched(s) \/ \E d \in Chips : Fetches(d, s)
  <2>1. CASE k = "reading" /\ reading'[c] = reading[c]
    BY <1>1, <2>1 DEF Fetched, At
  <2>2. CASE k = "reading" /\ reading'[c] # reading[c]
    <3>1. reading'[c].stage = "data" /\ reading'[c].sub = s
      BY <1>1, <2>2 DEF At
    <3>2. reading \in [Chips -> ReadOf \cup {NotReading}]
      BY PartsOfDInv DEF ChipsOK
    <3>3. CASE UNCHANGED reading
      BY <2>2, <3>3
    <3>4. ASSUME NEW d \in Chips, DispatchRead(d) \/ ReadAddressed(d) \/ ReadTransferred(d)
          PROVE  FALSE
      <4>1. c = d
        BY <2>2, <3>2, <3>4 DEF DispatchRead, ReadAddressed, ReadTransferred
      <4>2. CASE DispatchRead(d)
        BY <3>1, <3>2, <4>1, <4>2 DEF DispatchRead
      <4>3. CASE ReadAddressed(d)
        <5>1. reading'[c] = [reading[c] EXCEPT !.stage = "register"]
          BY <3>2, <4>1, <4>3 DEF ReadAddressed
        <5>2. reading[c] \in ReadOf
          BY <3>2, <4>1, <4>3 DEF ReadAddressed, NotReading
        <5> QED BY <3>1, <5>1, <5>2 DEF ReadOf
      <4>4. CASE ReadTransferred(d)
        BY <3>1, <3>2, <4>1, <4>4 DEF ReadTransferred, NotReading
      <4> QED BY <3>4, <4>2, <4>3, <4>4
    <3>5. ASSUME NEW d \in Chips, DispatchReadTransfer(d)
          PROVE  Fetches(d, s)
      BY <2>2, <3>1, <3>5, TransferFetches
    <3>6. UNCHANGED reading \/ \E d \in Chips :
             DispatchRead(d) \/ ReadAddressed(d) \/ ReadTransferred(d) \/ DispatchReadTransfer(d)
      BY DEF DataNext, HostSubmit, HostAddWrites, HostAddReads, HostFaults, DispatchWrite,
             CopyReadData, CopyWrite, CopyReadPage, EraseBlock, CompleteCommand, Collect, EndRMW,
             EndMain,
             allVars, dataVars
    <3> QED BY <3>3, <3>4, <3>5, <3>6
  <2>3. CASE k = "ending"
    <3>1. ending'[c] = s /\ s[1] = "rmw"
      BY <1>1, <2>3 DEF At
    <3>2. CASE ending[c] = s
      BY <3>1, <3>2 DEF Fetched, At
    <3>3. CASE ReadTransferred(c) /\ reading[c].sub = s
      BY <3>3 DEF Fetched, At, ReadTransferred
    <3>4. \A l : s # Main(l)
      BY <3>1, SubNames
    <3> QED BY <3>1, <3>2, <3>3, <3>4, EndingBegins
  <2> QED BY <1>1, <2>1, <2>2, <2>3
<1> QED BY <1>6, <1>7

\* The sectors of a request in a page are one run.
LEMMA RequestIsOneRun ==
  ASSUME NEW req \in Requests, NEW lpn \in HostLPNs
  PROVE  FirstRun(BitMap(req, lpn)) = BitMap(req, lpn)
<1>1. lpn \in Nat /\ req.lsa \in Nat /\ req.len \in Nat
  <2>1. HostLPNs \subseteq Nat
    BY FreeValues
  <2>2. SubPages \subseteq Nat /\ subpageOfPage \in Nat
    BY DataPathAssumption
  <2> QED BY <2>1, <2>2, DataPathAssumption DEF Requests
<1>2. SubPages = 0..subpageOfPage-1 /\ subpageOfPage \in Nat
  BY DataPathAssumption
<1>3. PICK base \in Nat : base = lpn * subpageOfPage
  BY <1>1, <1>2
<1>4. BitMap(req, lpn) = {i \in SubPages : base + i \in req.lsa..(req.lsa + req.len - 1)}
  BY <1>3 DEF BitMap
<1>5. ASSUME NEW i \in BitMap(req, lpn), NEW j \in BitMap(req, lpn), NEW k \in j..i
      PROVE  k \in BitMap(req, lpn)
  BY <1>1, <1>2, <1>4, <1>5
<1> QED BY <1>5 DEF FirstRun

\* What a step does to a page that the host waits for and that has not ended.
LEMMA EndedStays ==
  ASSUME DInv, [DataNext]_allVars, ~HostSubmit, ~RequestEnds,
         NEW lpn \in restSubreqs', lpn \in HostLPNs, ~Ended(lpn)'
  PROVE  ~Ended(lpn) /\ \A c \in Chips : ~HostWriteEnds(c, lpn)
<1>1. ending \in [Chips -> Subs \cup {NoSub}]
  BY PartsOfDInv DEF ChipsOK
<1>2. Main(lpn) # NoSub /\ Main(lpn)[1] = "main" /\ Main(lpn)[2] = lpn
  BY SubNames
<1>3. ASSUME NEW c \in Chips, ending[c] = Main(lpn) PROVE FALSE
  <2>1. ending'[c] # Main(lpn)
    BY DEF Ended
  <2>2. CASE UNCHANGED ending
    BY <1>3, <2>1, <2>2
  <2>3. ASSUME NEW d \in Chips, CompleteCommand(d) \/ ReadTransferred(d) PROVE FALSE
    BY <1>1, <1>2, <1>3, <2>1, <2>3 DEF CompleteCommand, ReadTransferred, MayComplete
  <2>4. ASSUME NEW d \in Chips, EndRMW(d) PROVE FALSE
    BY <1>1, <1>2, <1>3, <2>1, <2>4 DEF EndRMW
  <2>5. ASSUME NEW d \in Chips, EndMain(d) PROVE FALSE
    <3>1. d = c
      BY <1>1, <1>3, <2>1, <2>5 DEF EndMain
    <3> QED BY <1>2, <1>3, <2>5, <3>1 DEF EndMain
  <2>6. UNCHANGED ending \/ \E d \in Chips :
           CompleteCommand(d) \/ ReadTransferred(d) \/ EndRMW(d) \/ EndMain(d)
    BY DEF DataNext, HostAddWrites, HostAddReads, HostFaults, DispatchRead, DispatchReadTransfer,
           DispatchWrite, CopyReadData, CopyWrite, CopyReadPage, EraseBlock, ReadAddressed,
           Collect, allVars, dataVars
  <2> QED BY <2>2, <2>3, <2>4, <2>5, <2>6
<1>4. ASSUME NEW c \in Chips, HostWriteEnds(c, lpn) PROVE FALSE
  <2>1. ending'[c] = Main(lpn)
    BY <1>1, <1>4 DEF HostWriteEnds, HostWrites, CompleteCommand
  <2> QED BY <2>1 DEF Ended
<1> QED BY <1>3, <1>4 DEF Ended

LEMMA MergeAgrees ==
  ASSUME NEW old, NEW new, NEW place, NEW bitMap, NEW subPage \in SUBSET SubPages,
         Agree(new, place, FirstRun(subPage))
  PROVE  Agree(Overlay(old, new, subPage \ bitMap), place, FirstRun(subPage) \ bitMap)
  BY FirstRunWithin DEF Agree, Overlay

LEMMA StepKeepsMerged ==
  ASSUME IInv, NoneRefused, CInv, DInv, WritesInPlace, CopiesOK,
         WaitMaps, MergedOK, FetchedOK, [DataNext]_allVars
  PROVE  MergedOK'
<1> SUFFICES ASSUME NEW lpn \in restSubreqs', request'.op = "WRITE", ~sub'[Main(lpn)].waits,
                    ~Ended(lpn)'
             PROVE  /\ sub'[Main(lpn)].bitMap = BitMap(request', lpn) \cup map'[lpn].subPage
                    /\ Agree(sub'[Main(lpn)].buf, stored'[Place(lpn)'],
                             FirstRun(map'[lpn].subPage) \ BitMap(request', lpn))
  BY DEF MergedOK, Agree
<1>1. CASE HostSubmit
  <2>1. PICK req \in Requests :
              /\ request' = req /\ restSubreqs' = PagesOfRequest(req)
              /\ \A l \in PagesOfRequest(req) :
                   req.op = "WRITE" => IsWrite(sub'[Main(l)], req, l)
    BY <1>1, Submitted
  <2>2. lpn \in HostLPNs /\ IsWrite(sub'[Main(lpn)], req, lpn)
    BY <2>1, PagesAndMaps
  <2>3. sub'[Main(lpn)].bitMap = BitMap(req, lpn) /\ Covers(BitMap(req, lpn), lpn)
    BY <2>2, SubmittedMaps
  <2>4. map' = map
    BY <1>1, Submitted DEF flashVars, vars, tables
  <2> QED BY <2>1, <2>3, <2>4, FirstRunWithin DEF Covers, Agree
<1>2. CASE ~HostSubmit
  <2>1. ~RequestEnds
    BY DEF RequestEnds
  <2>2. request' = request /\ lpn \in restSubreqs /\ lpn \in HostLPNs
    BY <1>2, <2>1, RequestGoesOn
  <2>3. ~Ended(lpn) /\ \A c \in Chips : ~HostWriteEnds(c, lpn)
    BY <1>2, <2>1, <2>2, EndedStays
  <2>4. /\ map'[lpn].subPage = map[lpn].subPage
        /\ Agree(stored'[Place(lpn)'], stored[Place(lpn)], FirstRun(map[lpn].subPage))
    BY <2>2, <2>3, ContentMoves
  <2>5. CASE sub'[Main(lpn)] = sub[Main(lpn)]
    <3>1. /\ sub[Main(lpn)].bitMap = BitMap(request, lpn) \cup map[lpn].subPage
          /\ Agree(sub[Main(lpn)].buf, stored[Place(lpn)],
                   FirstRun(map[lpn].subPage) \ BitMap(request, lpn))
      BY <2>2, <2>3, <2>5 DEF MergedOK
    <3> QED BY <2>2, <2>4, <2>5, <3>1 DEF Agree
  <2>6. ASSUME NEW c \in Chips, Merges(c, lpn)
        PROVE  /\ sub'[Main(lpn)].bitMap = BitMap(request, lpn) \cup map[lpn].subPage
               /\ Agree(sub'[Main(lpn)].buf, stored[Place(lpn)],
                        FirstRun(map[lpn].subPage) \ BitMap(request, lpn))
    <3> DEFINE r == sub[RMW(lpn)]
               w == sub[Main(lpn)]
    <3>1. At(RMW(lpn), "ending", c) /\ RMW(lpn)[1] = "rmw" /\ RMW(lpn)[2] = lpn
          /\ "ending" \in Kinds /\ RMW(lpn) \in Subs
      BY <2>2, <2>6, SubNames DEF Merges, At, Kinds
    <3>2. lpn \in Waiting
      BY <2>2, <3>1, PartsOfDInv DEF RMWsPlace
    <3>3. w.bitMap = BitMap(request, lpn) /\ r.bitMap = map[lpn].subPage
      BY <3>2 DEF WaitMaps
    <3>4. map[lpn].subPage \in SUBSET SubPages
      BY <2>2 DEF IInv, TypeOK
    <3>5. Agree(r.buf, stored[Place(lpn)], FirstRun(map[lpn].subPage))
      <4>1. Fetched(RMW(lpn))
        BY <3>1 DEF Fetched
      <4>2. Agree(r.buf, stored[Place(lpn)], r.bitMap \cap FirstRun(map[lpn].subPage))
        BY <3>1, <4>1 DEF FetchedOK
      <4> QED BY <3>3, <4>2, FirstRunWithin DEF Agree
    <3>6. /\ sub'[Main(lpn)].bitMap = w.bitMap \cup r.bitMap
          /\ sub'[Main(lpn)].buf = Overlay(w.buf, r.buf, Missing(r, w))
      BY <2>2, <2>6, ChangedMaps
    <3>7. Missing(r, w) = map[lpn].subPage \ BitMap(request, lpn)
      BY <3>3 DEF Missing
    <3>8. PICK place : place = stored[Place(lpn)]
      OBVIOUS
    <3>9. PICK subPage \in SUBSET SubPages : subPage = map[lpn].subPage
      BY <3>4
    <3>10. Agree(Overlay(w.buf, r.buf, subPage \ BitMap(request, lpn)), place,
                 FirstRun(subPage) \ BitMap(request, lpn))
      <4>1. Agree(r.buf, place, FirstRun(subPage))
        BY <3>5, <3>8, <3>9
      <4> HIDE DEF r, w
      <4> QED BY <4>1, MergeAgrees
    <3>11. /\ sub'[Main(lpn)].bitMap = BitMap(request, lpn) \cup map[lpn].subPage
           /\ sub'[Main(lpn)].buf = Overlay(w.buf, r.buf, subPage \ BitMap(request, lpn))
      BY <3>3, <3>6, <3>7, <3>9
    <3> QED BY <3>8, <3>9, <3>10, <3>11
  <2>7. ASSUME NEW c \in Chips, Merges(c, lpn)
        PROVE  /\ sub'[Main(lpn)].bitMap = BitMap(request', lpn) \cup map'[lpn].subPage
               /\ Agree(sub'[Main(lpn)].buf, stored'[Place(lpn)'],
                        FirstRun(map'[lpn].subPage) \ BitMap(request', lpn))
    BY <2>2, <2>4, <2>6, <2>7 DEF Agree
  <2>8. request.op # "READ"
    BY <2>2
  <2> QED BY <1>2, <2>1, <2>2, <2>5, <2>7, <2>8, MainChanges
<1> QED BY <1>1, <1>2

\* A transfer brings the bytes of all the sectors that are kept and wanted.
LEMMA FetchBrings ==
  ASSUME IInv, DInv, SourceOK, ReadMaps, WaitMaps, NEW s \in Subs,
         NEW c \in Chips, Fetches(c, s)
  PROVE  Agree(sub'[s].buf, stored[Place(s[2])], sub[s].bitMap \cap FirstRun(map[s[2]].subPage))
<1>1. Unfetched(s) /\ Reads(s, c) /\ At(s, "reading", c)
  BY DEF Fetches, Unfetched, Hanging, Reads
<1>2. sub[s] \in SubOf
  BY PartsOfDInv DEF SubsOK
<1>3. PICK lpn \in HostLPNs : \/ s = Main(lpn) /\ request.op = "READ"
                              \/ s = RMW(lpn) /\ request.op = "WRITE" /\ lpn \in Waiting
  BY <1>1, ReadIsOfRequest
<1>4. s[2] = lpn
  BY <1>3, SubNames
<1>5. FirstRun(sub[s].bitMap) = sub[s].bitMap \/ sub[s].bitMap = map[lpn].subPage
  <2>1. CASE s = Main(lpn) /\ request.op = "READ"
    <3>1. hostPc = "wait" /\ request \in Requests
      <4>1. hostPc = "wait"
        BY <1>1, ReadIsOfRequest
      <4> QED BY <4>1, PartsOfDInv DEF RequestOK
    <3>2. "reading" \in Kinds
      BY DEF Kinds
    <3>3. lpn \in restSubreqs
      BY <1>1, <2>1, <3>2, PartsOfDInv DEF MainsPlace
    <3>4. sub[s].bitMap = BitMap(request, lpn)
      BY <2>1, <3>3 DEF ReadMaps
    <3> QED BY <3>1, <3>4, RequestIsOneRun
  <2>2. CASE s = RMW(lpn) /\ lpn \in Waiting
    BY <2>2 DEF WaitMaps
  <2> QED BY <1>3, <2>1, <2>2
<1>6. PICK loc : loc = sub[s].location
  OBVIOUS
<1>7. PICK bitMap \in SUBSET SubPages : bitMap = sub[s].bitMap
  BY <1>2 DEF SubOf
<1>8. sub'[s].buf = Overlay(sub[s].buf, stored[loc], FirstRun(bitMap))
  BY <1>2, <1>6, <1>7 DEF Fetches, SubOf
<1>9. Agree(sub'[s].buf, stored[loc], FirstRun(bitMap))
  <2>1. FirstRun(bitMap) \in SUBSET SubPages
    BY <1>7, FirstRunWithin
  <2> QED BY <1>8, <2>1, OverlaidAgrees
<1>10. map[lpn].subPage # {} => Agree(stored[loc], stored[Place(lpn)], FirstRun(map[lpn].subPage))
  BY <1>1, <1>4, <1>6 DEF SourceOK, SourceKept
<1>11. PICK subPage : subPage = map[lpn].subPage
  OBVIOUS
<1>12. Agree(sub'[s].buf, stored[Place(lpn)], bitMap \cap FirstRun(subPage))
  <2>1. bitMap \cap FirstRun(subPage) \subseteq FirstRun(bitMap)
    BY <1>5, <1>7, <1>11, FirstRunWithin
  <2>2. subPage = {} => bitMap \cap FirstRun(subPage) = {}
    BY FirstRunWithin
  <2> QED BY <1>9, <1>10, <1>11, <2>1, <2>2 DEF Agree
<1> QED BY <1>4, <1>7, <1>11, <1>12

LEMMA StepKeepsFetched ==
  ASSUME IInv, NoneRefused, CInv, DInv, DInv', WritesInPlace, CopiesOK, SourceOK,
         ReadMaps, WaitMaps, FetchedOK, [DataNext]_allVars
  PROVE  FetchedOK'
<1> SUFFICES ASSUME NEW s \in Subs, Fetched(s)'
             PROVE  Agree(sub'[s].buf, stored'[Place(s[2])'],
                          sub'[s].bitMap \cap FirstRun(map'[s[2]].subPage))
  BY DEF FetchedOK, Agree
<1>1. /\ ~HostSubmit /\ ~RequestEnds
      /\ Fetched(s) \/ \E c \in Chips : Fetches(c, s)
  BY FetchedBegins
<1>2. PICK lpn \in HostLPNs : s = Main(lpn) \/ s = RMW(lpn)
  BY SubNames
<1>3. s[2] = lpn
  BY <1>2, SubNames
<1>4. \A k \in {"reading", "ending"} : k \in Kinds
  BY DEF Kinds
<1>5. CASE \E c \in Chips : Fetches(c, s)
  <2>1. PICK c \in Chips : Fetches(c, s)
    BY <1>5
  <2>2. sub'[s].bitMap = sub[s].bitMap
    BY <2>1, ChangedMaps
  <2>3. map' = map /\ stored' = stored
    BY <2>1 DEF Fetches, DispatchReadTransfer, flashVars, vars, tables
  <2>4. Place(s[2])' = Place(s[2])
    BY <2>3 DEF Place
  <2> QED BY <2>1, <2>2, <2>3, <2>4, FetchBrings
<1>6. CASE Fetched(s) /\ ~ \E c \in Chips : Fetches(c, s)
  <2>1. PICK k \in {"reading", "ending"}, c \in Chips : At(s, k, c)
          /\ (k = "ending" => s[1] = "rmw")
    BY <1>6 DEF Fetched
  <2>2. \/ s = Main(lpn) /\ request.op = "READ"
        \/ s = RMW(lpn) /\ lpn \in Waiting /\ request.op = "WRITE"
    <3>1. CASE s = Main(lpn)
      <4>1. k = "reading"
        BY <2>1, <3>1, SubNames
      <4> QED BY <1>4, <2>1, <3>1, <4>1, PartsOfDInv DEF MainsPlace
    <3>2. CASE s = RMW(lpn)
      BY <1>4, <2>1, <3>2, PartsOfDInv DEF RMWsPlace
    <3> QED BY <1>2, <3>1, <3>2
  <2>3. \A d \in Chips : ~HostWriteEnds(d, lpn)
    <3>1. CASE request.op = "READ"
      <4>1. ASSUME NEW d \in Chips, HostWriteEnds(d, lpn) PROVE FALSE
        <5>1. At(Main(lpn), "written", d) /\ "written" \in Kinds
          BY <4>1 DEF HostWriteEnds, At, Kinds
        <5> QED BY <3>1, <5>1, PartsOfDInv DEF MainsPlace
      <4> QED BY <4>1
    <3>2. CASE lpn \in Waiting /\ request.op = "WRITE"
      BY <3>2, WaitingNotWritten
    <3> QED BY <2>2, <3>1, <3>2
  <2>4. sub'[s] = sub[s]
    <3>1. CASE s = Main(lpn) /\ request.op = "READ"
      <4>1. request.op # "WRITE"
        BY <3>1
      <4> QED BY <1>1, <1>6, <3>1, <4>1, MainChanges
    <3>2. CASE s = RMW(lpn)
      <4>1. lpn \in Waiting'
        <5>1. PICK l \in {"reading", "ending"}, d \in Chips : At(s, l, d)'
          BY DEF Fetched
        <5>2. RMWsPlace'
          BY DEF DInv
        <5> QED BY <1>4, <3>2, <5>1, <5>2 DEF RMWsPlace
      <4>2. \A d \in Chips : ~Merges(d, lpn)
        BY <4>1, ChangedMaps DEF Waiting
      <4> QED BY <1>1, <1>6, <3>2, <4>2, RMWChanges
    <3> QED BY <2>2, <3>1, <3>2
  <2>5. /\ map'[lpn].subPage = map[lpn].subPage
        /\ Agree(stored'[Place(lpn)'], stored[Place(lpn)], FirstRun(map[lpn].subPage))
    BY <2>3, ContentMoves
  <2>6. Agree(sub[s].buf, stored[Place(lpn)], sub[s].bitMap \cap FirstRun(map[lpn].subPage))
    BY <1>3, <1>6 DEF FetchedOK
  <2> QED BY <1>3, <2>4, <2>5, <2>6 DEF Agree
<1> QED BY <1>1, <1>5, <1>6

LEMMA InitEInv == DataInit => EInv
<1> SUFFICES ASSUME DataInit PROVE EInv
  OBVIOUS
<1>1. restSubreqs = {} /\ (\A c \in Chips : reading[c] = NotReading /\ ending[c] = NoSub)
  BY DEF DataInit
<1>2. \A s \in Subs : ~Fetched(s)
  BY <1>1, SubNames DEF Fetched, At, NotReading
<1> QED BY <1>1, <1>2 DEF EInv, PagesOK, ReadMaps, WaitMaps, MergedOK, FetchedOK, Waiting

LEMMA SectorsInvariance ==
  ASSUME HostPreempted = FALSE
  PROVE  DataSpec /\ []NoneRefused => []EInv
<1>1. DataInit => EInv
  BY InitEInv
<1>2. IInv /\ NoneRefused /\ CInv /\ DInv /\ DInv' /\ BInv /\ SourceOK /\ EInv
        /\ [DataNext]_allVars => EInv'
  BY StepKeepsMaps, StepKeepsMerged, StepKeepsFetched DEF BInv, EInv
<1> QED BY <1>1, <1>2, DataInvariance, BytesInvariance, SourceInvariance, PTL DEF DataSpec

-----------------------------------------------------------------------------
(* The disk.                                                               *)

\* What Disk calls todo and data.
Todo == {s \in SectorsOfRequest : s[1] \notin Served}
Seen == [s \in SectorsOfRequest |->
           IF request.op = "READ" /\ s[1] \notin Served THEN "unwritten"
           ELSE sub[Main(s[1])].buf[s[2]]]

LEMMA SectorParts ==
  /\ \A s \in Sectors : s[1] \in HostLPNs /\ s[2] \in SubPages
  /\ \A lpn \in HostLPNs, i \in SubPages :
       <<lpn, i>> \in Sectors /\ <<lpn, i>>[1] = lpn /\ <<lpn, i>>[2] = i
  /\ \A s \in SectorsOfRequest : /\ s \in Sectors /\ s[2] \in BitMap(request, s[1])
                                 /\ s[1] \in PagesOfRequest(request)
<1>1. ASSUME NEW s \in SectorsOfRequest
      PROVE  s \in Sectors /\ s[2] \in BitMap(request, s[1]) /\ s[1] \in PagesOfRequest(request)
  BY <1>1 DEF SectorsOfRequest, Sectors, PagesOfRequest
<1> QED BY <1>1 DEF Sectors

\* A page is served once its command has ended, and counted until its work item
\* is through.
LEMMA ServedIs ==
  ASSUME DInv, NEW lpn \in PagesOfRequest(request)
  PROVE  lpn \in Served <=> lpn \notin restSubreqs \/ Ended(lpn)
<1>1. ending \in [Chips -> Subs \cup {NoSub}]
  BY PartsOfDInv DEF ChipsOK
<1>2. ASSUME NEW c \in Chips
      PROVE  ending[c][1] = "main" /\ ending[c][2] = lpn <=> ending[c] = Main(lpn)
  <2>1. ending[c] = NoSub \/ \E l \in HostLPNs : ending[c] = Main(l) \/ ending[c] = RMW(l)
    BY <1>1, SubNames
  <2> QED BY <2>1, SubNames
<1>3. lpn \in {ending[c][2] : c \in {d \in Chips : ending[d][1] = "main"}} <=> Ended(lpn)
  BY <1>2 DEF Ended
<1> QED BY <1>3 DEF Served

ServedKnown ==
  \A lpn \in PagesOfRequest(request) : lpn \in Served <=> lpn \notin restSubreqs \/ Ended(lpn)

LEMMA ServedStays == DInv' => ServedKnown'
<1>1. DInv => ServedKnown
  BY ServedIs DEF ServedKnown
<1> QED BY <1>1, PTL

\* The command of a read ends.
HostReadEnds(c, lpn) == ReadTransferred(c) /\ reading[c].sub = Main(lpn)
Ends(c, lpn) == HostWriteEnds(c, lpn) \/ HostReadEnds(c, lpn)

LEMMA EndsAre ==
  ASSUME DInv, NEW c \in Chips, NEW lpn \in HostLPNs, Ends(c, lpn)
  PROVE  /\ ending[c] = NoSub /\ ending' = [ending EXCEPT ![c] = Main(lpn)]
         /\ UNCHANGED <<hostVars, sub>> /\ ~HostSubmit /\ ~RequestEnds
         /\ lpn \in restSubreqs /\ ~Ended(lpn)
         /\ HostWriteEnds(c, lpn) => request.op = "WRITE"
         /\ HostReadEnds(c, lpn) => request.op = "READ"
<1>1. ending[c] = NoSub /\ ending' = [ending EXCEPT ![c] = Main(lpn)]
      /\ UNCHANGED <<hostVars, sub>>
  BY DEF Ends, HostWriteEnds, HostReadEnds, HostWrites, CompleteCommand, ReadTransferred,
         MayComplete
<1>2. /\ HostWriteEnds(c, lpn) => At(Main(lpn), "written", c)
      /\ HostReadEnds(c, lpn) => At(Main(lpn), "reading", c)
  BY DEF HostWriteEnds, HostReadEnds, At
<1>3. "written" \in Kinds /\ "reading" \in Kinds /\ "ending" \in Kinds
  BY DEF Kinds
<1>4. PICK k \in {"written", "reading"} : At(Main(lpn), k, c)
  BY <1>2 DEF Ends
<1>5. lpn \in restSubreqs
  BY <1>3, <1>4, PartsOfDInv DEF MainsPlace
<1>6. ~Ended(lpn)
  <2>1. ASSUME NEW d \in Chips, ending[d] = Main(lpn) PROVE FALSE
    <3>1. At(Main(lpn), "ending", d) /\ Main(lpn) \in Subs
      BY <2>1, SubNames DEF At
    <3>2. k \in Kinds /\ k # "ending"
      BY <1>3
    <3> QED BY <1>3, <1>4, <3>1, <3>2, OnlyPlace
  <2> QED BY <2>1 DEF Ended
<1>7. /\ HostWriteEnds(c, lpn) => request.op = "WRITE"
      /\ HostReadEnds(c, lpn) => request.op = "READ"
  BY <1>2, <1>3, PartsOfDInv DEF MainsPlace
<1>8. restSubreqs' # {}
  BY <1>1, <1>5 DEF hostVars
<1>9. ~HostSubmit
  <2>1. hostPc' = hostPc
    BY <1>1 DEF hostVars
  <2>2. HostSubmit => hostPc' # hostPc
    BY Submitted
  <2> QED BY <2>1, <2>2
<1> QED BY <1>1, <1>5, <1>6, <1>7, <1>8, <1>9 DEF RequestEnds

\* One step ends one page.
LEMMA OneEnds ==
  ASSUME DInv, NEW c \in Chips, NEW lpn \in HostLPNs, Ends(c, lpn),
         NEW d \in Chips, NEW l \in HostLPNs, Ends(d, l)
  PROVE  c = d /\ lpn = l
<1>1. ending \in [Chips -> Subs \cup {NoSub}]
  BY PartsOfDInv DEF ChipsOK
<1>2. ending[c] = NoSub /\ ending' = [ending EXCEPT ![c] = Main(lpn)]
  BY EndsAre
<1>3. ending[d] = NoSub /\ ending' = [ending EXCEPT ![d] = Main(l)]
  BY EndsAre
<1>4. Main(lpn) # NoSub /\ Main(l) # NoSub /\ (Main(lpn) = Main(l) => lpn = l)
  BY SubNames
<1> QED BY <1>1, <1>2, <1>3, <1>4

\* What is served grows by what ends.
LEMMA ServedGrows ==
  ASSUME DInv, DInv', PagesOK, [DataNext]_allVars, ~HostSubmit, ~RequestEnds,
         NEW lpn \in PagesOfRequest(request)
  PROVE  (lpn \in Served)' <=> lpn \in Served \/ \E c \in Chips : Ends(c, lpn)
<1>1. request' = request /\ restSubreqs' \subseteq restSubreqs /\ lpn \in HostLPNs
  BY RequestGoesOn, PagesAndMaps
<1>2. lpn \in Served <=> lpn \notin restSubreqs \/ Ended(lpn)
  BY ServedIs
<1>3. (lpn \in Served)' <=> lpn \notin restSubreqs' \/ Ended(lpn)'
  <2>1. lpn \in PagesOfRequest(request')
    BY <1>1
  <2> QED BY <2>1, ServedStays DEF ServedKnown
<1>4. ASSUME ~(lpn \in Served)' PROVE lpn \notin Served /\ \A c \in Chips : ~Ends(c, lpn)
  <2>1. lpn \in restSubreqs' /\ ~Ended(lpn)'
    BY <1>3, <1>4
  <2>2. ~Ended(lpn) /\ \A c \in Chips : ~HostWriteEnds(c, lpn)
    BY <1>1, <2>1, EndedStays
  <2>3. ASSUME NEW c \in Chips, Ends(c, lpn) PROVE FALSE
    <3>1. ending \in [Chips -> Subs \cup {NoSub}]
      BY PartsOfDInv DEF ChipsOK
    <3>2. ending'[c] = Main(lpn)
      BY <1>1, <2>3, <3>1, EndsAre
    <3> QED BY <2>1, <3>2 DEF Ended
  <2> QED BY <1>1, <1>2, <2>1, <2>2, <2>3
<1>5. ASSUME lpn \notin Served, \A c \in Chips : ~Ends(c, lpn) PROVE ~(lpn \in Served)'
  <2>1. lpn \in restSubreqs /\ ~Ended(lpn)
    BY <1>2, <1>5
  <2>2. ASSUME NEW c \in Chips, ending'[c] = Main(lpn) PROVE FALSE
    <3>1. Main(lpn) \in Subs /\ \A l : Main(lpn) = Main(l) => lpn = l
      BY <1>1, SubNames
    <3>2. \/ ending[c] = Main(lpn)
          \/ CompleteCommand(c) /\ HostWrites(c) /\ Main(lpn) = Main(cmd[c].lpn)
          \/ ReadTransferred(c) /\ reading[c].sub = Main(lpn)
      BY <2>2, <3>1, EndingBegins
    <3> QED BY <1>5, <2>1, <3>1, <3>2 DEF Ended, Ends, HostWriteEnds, HostReadEnds
  <2>3. lpn \in restSubreqs'
    <3>1. CASE UNCHANGED restSubreqs
      BY <2>1, <3>1
    <3>2. ASSUME NEW c \in Chips, EndMain(c) PROVE lpn \in restSubreqs'
      <4>1. ending[c] # Main(lpn) /\ ending[c][1] = "main"
            /\ restSubreqs' = restSubreqs \ {ending[c][2]}
        BY <2>1, <3>2 DEF Ended, EndMain
      <4>2. ending[c] \in Subs \cup {NoSub}
        BY PartsOfDInv DEF ChipsOK
      <4>3. ending[c][2] # lpn
        BY <4>1, <4>2, SubNames
      <4> QED BY <2>1, <4>1, <4>3
    <3>3. UNCHANGED restSubreqs \/ \E c \in Chips : EndMain(c)
      BY DEF DataNext, HostAddWrites, HostAddReads, HostFaults, DispatchRead, DispatchReadTransfer,
             DispatchWrite, CopyReadData, CopyWrite, CopyReadPage, EraseBlock, ReadAddressed,
             ReadTransferred, CompleteCommand, Collect, EndRMW, allVars, dataVars, hostVars
    <3> QED BY <3>1, <3>2, <3>3
  <2> QED BY <1>3, <2>2, <2>3 DEF Ended
<1> QED BY <1>4, <1>5

\* What is stored of a sector shows through the map.
LEMMA ContentIs ==
  ASSUME NEW s \in Sectors
  PROVE  /\ Content[s] = IF s[2] \in FirstRun(map[s[1]].subPage)
                         THEN stored[Place(s[1])][s[2]] ELSE "unwritten"
         /\ Content'[s] = IF s[2] \in FirstRun(map'[s[1]].subPage)
                          THEN stored'[Place(s[1])'][s[2]] ELSE "unwritten"
  BY DEF Content

\* What Disk calls written, and what it keeps of it.
Written == {s \in Sectors : s[2] \in map[s[1]].subPage}

LEMMA KeptOf ==
  ASSUME NEW subPage, \A lpn \in HostLPNs : subPage[lpn] \in SUBSET SubPages, NEW W,
         W = {s \in Sectors : s[2] \in subPage[s[1]]}
  PROVE  \A s \in Sectors : s \in Kept[W] <=> s[2] \in FirstRun(subPage[s[1]])
<1>1. Kept[W] = {s \in W : s[2] \in FirstRun({i \in SubPages : <<s[1], i>> \in W})}
  BY DEF Kept
<1>2. ASSUME NEW s \in Sectors PROVE {i \in SubPages : <<s[1], i>> \in W} = subPage[s[1]]
  <2>1. s[1] \in HostLPNs
    BY SectorParts
  <2>2. \A i \in SubPages : <<s[1], i>> \in W <=> i \in subPage[s[1]]
    BY <2>1, SectorParts
  <2> QED BY <2>1, <2>2
<1>3. ASSUME NEW s \in Sectors PROVE s \in Kept[W] <=> s[2] \in FirstRun(subPage[s[1]])
  <2>1. PICK run : run = FirstRun(subPage[s[1]])
    OBVIOUS
  <2>2. run \subseteq subPage[s[1]]
    BY <2>1, FirstRunWithin
  <2>3. s \in Kept[W] <=> s \in W /\ s[2] \in run
    BY <1>1, <1>2, <2>1
  <2> QED BY <2>1, <2>2, <2>3
<1> QED BY <1>3

LEMMA KeptStored ==
  ASSUME IInv, IInv'
  PROVE  \A s \in Sectors : /\ s \in Kept[Written] <=> s[2] \in FirstRun(map[s[1]].subPage)
                            /\ s \in Kept[Written'] <=> s[2] \in FirstRun(map'[s[1]].subPage)
<1> DEFINE subPage == [lpn \in HostLPNs |-> map[lpn].subPage]
           subPage2 == [lpn \in HostLPNs |-> map'[lpn].subPage]
<1>1. \A lpn \in HostLPNs : subPage[lpn] \in SUBSET SubPages /\ subPage2[lpn] \in SUBSET SubPages
  BY DEF IInv, TypeOK
<1>2. /\ Written = {s \in Sectors : s[2] \in subPage[s[1]]}
      /\ Written' = {s \in Sectors : s[2] \in subPage2[s[1]]}
  BY SectorParts DEF Written
<1>3. \A s \in Sectors : /\ subPage[s[1]] = map[s[1]].subPage
                         /\ subPage2[s[1]] = map'[s[1]].subPage
  BY SectorParts
<1> HIDE DEF subPage, subPage2
<1>4. \A s \in Sectors : s \in Kept[Written] <=> s[2] \in FirstRun(subPage[s[1]])
  BY <1>1, <1>2, KeptOf
<1>5. \A s \in Sectors : s \in Kept[Written'] <=> s[2] \in FirstRun(subPage2[s[1]])
  BY <1>1, <1>2, KeptOf
<1> QED BY <1>3, <1>4, <1>5

\* What is kept has a byte, and what is not has none.
ContentOK ==
  \A s \in Sectors :
    Content[s] \in IF s[2] \in FirstRun(map[s[1]].subPage) THEN Values ELSE {"unwritten"}

LEMMA ContentIsBytes == IInv' /\ NoneRefused' /\ CInv' /\ DInv' => ContentOK'
<1>1. ASSUME IInv, NoneRefused, CInv, DInv, NEW s \in Sectors
      PROVE  Content[s] \in IF s[2] \in FirstRun(map[s[1]].subPage) THEN Values ELSE {"unwritten"}
  <2>1. PICK lpn \in HostLPNs, i \in SubPages : s[1] = lpn /\ s[2] = i
    BY SectorParts
  <2>2. CASE i \in FirstRun(map[lpn].subPage)
    <3>1. map[lpn].subPage # {}
      BY <2>2, FirstRunWithin
    <3>2. Place(lpn) \in Locations
      BY <1>1, <3>1, PlaceOf
    <3>3. stored[Place(lpn)] \in Buffers
      BY <1>1, <3>2, PartsOfDInv DEF BytesOK
    <3>4. stored[Place(lpn)][i] \in Values
      BY <3>3 DEF Buffers
    <3> QED BY <2>1, <2>2, <3>4, ContentIs
  <2> QED BY <2>1, <2>2, ContentIs
<1>2. IInv /\ NoneRefused /\ CInv /\ DInv => ContentOK
  BY <1>1 DEF ContentOK
<1> QED BY <1>2, PTL

\* Only the end of a write changes the content, of its page.
LEMMA ContentStays ==
  ASSUME IInv, NoneRefused, CInv, DInv, WritesInPlace, CopiesOK, [DataNext]_allVars,
         NEW s \in Sectors, \A c \in Chips : ~HostWriteEnds(c, s[1])
  PROVE  Content'[s] = Content[s] /\ map'[s[1]].subPage = map[s[1]].subPage
<1>1. PICK lpn \in HostLPNs : lpn = s[1]
  BY SectorParts
<1>2. /\ map'[lpn].subPage = map[lpn].subPage
      /\ Agree(stored'[Place(lpn)'], stored[Place(lpn)], FirstRun(map[lpn].subPage))
  BY <1>1, ContentMoves
<1> QED BY <1>1, <1>2, ContentIs DEF Agree

LEMMA SameContent ==
  ASSUME \A s \in Sectors : Content'[s] = Content[s] /\ map'[s[1]].subPage = map[s[1]].subPage
  PROVE  Content' = Content /\ Written' = Written
<1>1. Content = [s \in Sectors |-> Content[s]] /\ Content' = [s \in Sectors |-> Content'[s]]
  BY DEF Content
<1>2. Written' = Written
  BY DEF Written
<1> QED BY <1>1, <1>2

\* The bytes of a request stay, once they are there.
LEMMA BytesOfRequestStay ==
  ASSUME DInv, PagesOK, WaitMaps, [DataNext]_allVars, ~HostSubmit, ~RequestEnds,
         NEW s \in SectorsOfRequest, request.op = "READ" => s[1] \in Served
  PROVE  sub'[Main(s[1])].buf[s[2]] = sub[Main(s[1])].buf[s[2]]
<1>1. PICK lpn \in PagesOfRequest(request), i \in SubPages :
        s[1] = lpn /\ s[2] = i /\ lpn \in HostLPNs /\ i \in BitMap(request, lpn)
  BY SectorParts
<1>2. CASE sub'[Main(lpn)] = sub[Main(lpn)]
  BY <1>1, <1>2
<1>3. ASSUME request.op = "READ", NEW c \in Chips, Fetches(c, Main(lpn)) PROVE FALSE
  <2>1. At(Main(lpn), "reading", c) /\ "reading" \in Kinds /\ "ending" \in Kinds
        /\ Main(lpn) \in Subs
    BY <1>1, <1>3, SubNames DEF Fetches, Kinds
  <2>2. lpn \in restSubreqs
    BY <1>1, <2>1, PartsOfDInv DEF MainsPlace
  <2>3. Ended(lpn)
    BY <1>1, <1>3, <2>2, ServedIs
  <2>4. PICK d \in Chips : At(Main(lpn), "ending", d)
    BY <2>3 DEF Ended, At
  <2>5. "reading" # "ending"
    OBVIOUS
  <2> QED BY <2>1, <2>4, <2>5, OnlyPlace
<1>4. ASSUME NEW c \in Chips, Merges(c, lpn)
      PROVE  sub'[Main(lpn)].buf[i] = sub[Main(lpn)].buf[i]
  <2>1. At(RMW(lpn), "ending", c) /\ "ending" \in Kinds
    BY <1>4 DEF Merges, At, Kinds
  <2>2. lpn \in Waiting
    BY <1>1, <2>1, PartsOfDInv DEF RMWsPlace
  <2>3. i \notin Missing(sub[RMW(lpn)], sub[Main(lpn)])
    BY <1>1, <2>2 DEF WaitMaps, Missing
  <2>4. sub'[Main(lpn)].buf = Overlay(sub[Main(lpn)].buf, sub[RMW(lpn)].buf,
                                      Missing(sub[RMW(lpn)], sub[Main(lpn)]))
    BY <1>1, <1>4, ChangedMaps
  <2> QED BY <2>3, <2>4 DEF Overlay
<1> QED BY <1>1, <1>2, <1>3, <1>4, MainChanges

LEMMA SeenIs ==
  ASSUME NEW s \in SectorsOfRequest
  PROVE  Seen[s] = IF request.op = "READ" /\ s[1] \notin Served THEN "unwritten"
                   ELSE sub[Main(s[1])].buf[s[2]]
  BY DEF Seen

\* What the disk has to do after a step that neither begins nor ends a request.
LEMMA SeenGoesOn ==
  ASSUME DInv, DInv', PagesOK, WaitMaps, [DataNext]_allVars, ~HostSubmit, ~RequestEnds
  PROVE  /\ request' = request /\ SectorsOfRequest' = SectorsOfRequest
         /\ DOMAIN Seen = SectorsOfRequest /\ DOMAIN Seen' = SectorsOfRequest
         /\ \A s \in SectorsOfRequest :
              /\ s \in Todo' <=> s \in Todo /\ \A c \in Chips : ~Ends(c, s[1])
              /\ s \in Todo <=> s[1] \notin Served
              /\ request.op = "READ" /\ (\E c \in Chips : Ends(c, s[1])) =>
                   Seen'[s] = sub'[Main(s[1])].buf[s[2]]
              /\ request.op = "WRITE" \/ (\A c \in Chips : ~Ends(c, s[1])) =>
                   Seen'[s] = Seen[s]
         /\ Todo \subseteq SectorsOfRequest /\ Todo' \subseteq SectorsOfRequest
<1>1. request' = request
  BY RequestGoesOn
<1>2. SectorsOfRequest' = SectorsOfRequest
  BY <1>1 DEF SectorsOfRequest, BitMap
<1>3. DOMAIN Seen = SectorsOfRequest /\ DOMAIN Seen' = SectorsOfRequest
  BY <1>2 DEF Seen
<1>4. Todo \subseteq SectorsOfRequest /\ Todo' \subseteq SectorsOfRequest
  BY <1>2 DEF Todo
<1>5. ASSUME NEW s \in SectorsOfRequest
      PROVE  /\ s \in Todo' <=> s \in Todo /\ \A c \in Chips : ~Ends(c, s[1])
             /\ s \in Todo <=> s[1] \notin Served
             /\ request.op = "READ" /\ (\E c \in Chips : Ends(c, s[1])) =>
                   Seen'[s] = sub'[Main(s[1])].buf[s[2]]
             /\ request.op = "WRITE" \/ (\A c \in Chips : ~Ends(c, s[1])) =>
                   Seen'[s] = Seen[s]
  <2>1. PICK lpn \in PagesOfRequest(request) : lpn = s[1]
    BY SectorParts
  <2>2. (lpn \in Served)' <=> lpn \in Served \/ \E c \in Chips : Ends(c, lpn)
    BY ServedGrows
  <2>3. lpn \in Served' <=> lpn \in Served \/ \E c \in Chips : Ends(c, lpn)
    BY <2>2
  <2>4. s \in Todo <=> lpn \notin Served
    BY <2>1 DEF Todo
  <2>5. s \in Todo' <=> lpn \notin Served'
    BY <1>2, <2>1 DEF Todo
  <2>6. Seen'[s] = IF request'.op = "READ" /\ s[1] \notin Served' THEN "unwritten"
                   ELSE sub'[Main(s[1])].buf[s[2]]
    BY <1>2 DEF Seen
  <2>7. ASSUME request.op = "READ", \E c \in Chips : Ends(c, s[1])
        PROVE  Seen'[s] = sub'[Main(s[1])].buf[s[2]]
    BY <1>1, <2>1, <2>3, <2>6, <2>7
  <2>8. ASSUME request.op = "WRITE" \/ \A c \in Chips : ~Ends(c, s[1])
        PROVE  Seen'[s] = Seen[s]
    <3>1. CASE request.op = "READ" /\ lpn \notin Served
      <4>1. lpn \notin Served'
        BY <2>1, <2>3, <2>8, <3>1
      <4> QED BY <1>1, <2>1, <2>6, <3>1, <4>1, SeenIs
    <3>2. CASE request.op = "READ" => lpn \in Served
      <4>1. sub'[Main(s[1])].buf[s[2]] = sub[Main(s[1])].buf[s[2]]
        BY <2>1, <3>2, BytesOfRequestStay
      <4>2. Seen[s] = sub[Main(s[1])].buf[s[2]]
        BY <2>1, <3>2, SeenIs
      <4>3. request'.op = "READ" => s[1] \in Served'
        BY <1>1, <2>1, <2>3, <3>2
      <4> QED BY <2>6, <4>1, <4>2, <4>3
    <3> QED BY <3>1, <3>2
  <2> QED BY <2>1, <2>3, <2>4, <2>5, <2>7, <2>8
<1> QED BY <1>1, <1>2, <1>3, <1>4, <1>5

\* The sectors of a request that are in a page.
OfPage(lpn) == {s \in SectorsOfRequest : s[1] = lpn}

\* The sectors of the page whose command ends are served.
LEMMA PageIsServed ==
  ASSUME DInv, DInv', PagesOK, WaitMaps, [DataNext]_allVars,
         NEW c \in Chips, NEW lpn \in HostLPNs, Ends(c, lpn)
  PROVE  /\ OfPage(lpn) \in (SUBSET Todo) \ {{}} /\ Todo' = Todo \ OfPage(lpn)
         /\ \A s \in SectorsOfRequest : (\E d \in Chips : Ends(d, s[1])) <=> s \in OfPage(lpn)
<1>1. ~HostSubmit /\ ~RequestEnds /\ lpn \in restSubreqs /\ ~Ended(lpn)
  BY EndsAre
<1>2. lpn \in PagesOfRequest(request) /\ lpn \notin Served
  <2>1. lpn \in PagesOfRequest(request)
    BY <1>1 DEF PagesOK
  <2> QED BY <1>1, <2>1, ServedIs
<1>3. \A s \in SectorsOfRequest : s[1] \in HostLPNs
  BY SectorParts
<1>4. \A s \in SectorsOfRequest : (\E d \in Chips : Ends(d, s[1])) <=> s[1] = lpn
  BY <1>3, OneEnds
<1>5. /\ \A s \in SectorsOfRequest :
            /\ s \in Todo' <=> s \in Todo /\ \A d \in Chips : ~Ends(d, s[1])
            /\ s \in Todo <=> s[1] \notin Served
      /\ Todo \subseteq SectorsOfRequest /\ Todo' \subseteq SectorsOfRequest
  BY <1>1, SeenGoesOn
<1>6. OfPage(lpn) \subseteq Todo
  BY <1>2, <1>5 DEF OfPage
<1>7. OfPage(lpn) # {}
  <2>1. PICK i \in SubPages : i \in BitMap(request, lpn)
    BY <1>2 DEF PagesOfRequest, BitMap
  <2>2. <<lpn, i>> \in Sectors /\ <<lpn, i>>[1] = lpn /\ <<lpn, i>>[2] = i
    BY SectorParts
  <2>3. <<lpn, i>> \in OfPage(lpn)
    BY <2>1, <2>2 DEF OfPage, SectorsOfRequest
  <2> QED BY <2>3
<1>8. Todo' = Todo \ OfPage(lpn)
  BY <1>4, <1>5 DEF OfPage
<1> QED BY <1>4, <1>6, <1>7, <1>8 DEF OfPage

LEMMA ServeIs ==
  ASSUME NEW S \in (SUBSET Todo) \ {{}}, Todo' = Todo \ S, request'.op = request.op,
         TheDisk!Write(S) \/ TheDisk!Read(S)
  PROVE  TheDisk!Serve
  BY DEF TheDisk!Serve, Todo

\* A write that ends has written its sectors.
LEMMA WriteEndsMap ==
  ASSUME IInv, NoneRefused, CInv, DInv, BInv, EInv, [DataNext]_allVars,
         NEW c \in Chips, NEW lpn \in HostLPNs, HostWriteEnds(c, lpn)
  PROVE  /\ map'[lpn].subPage = BitMap(request, lpn) \cup map[lpn].subPage
         /\ Agree(sub[Main(lpn)].buf, stored[Place(lpn)],
                  FirstRun(map[lpn].subPage) \ BitMap(request, lpn))
         /\ \A l \in HostLPNs \ {lpn} : \A d \in Chips : ~HostWriteEnds(d, l)
<1>1. Ends(c, lpn)
  BY DEF Ends
<1>2. lpn \in restSubreqs /\ ~Ended(lpn) /\ request.op = "WRITE"
  BY <1>1, EndsAre
<1>3. At(Main(lpn), "written", c)
  BY DEF HostWriteEnds, At
<1>4. ~sub[Main(lpn)].waits
  BY <1>2, <1>3, WaitingNotWritten DEF Waiting
<1>5. /\ sub[Main(lpn)].bitMap = BitMap(request, lpn) \cup map[lpn].subPage
      /\ Agree(sub[Main(lpn)].buf, stored[Place(lpn)],
               FirstRun(map[lpn].subPage) \ BitMap(request, lpn))
  BY <1>2, <1>4 DEF EInv, MergedOK
<1>6. map'[lpn].subPage = sub[Main(lpn)].bitMap
  <2>1. lpn = cmd[c].lpn /\ inflight[c] = c /\ chipState[c] = "PROGRAM"
    BY DEF HostWriteEnds, HostWrites
  <2>2. TablesOK
    BY TypeParts DEF IInv
  <2> DEFINE ppn == get_PPN_From_Detail(cmd[c].location)
  <2>3. map' = [map EXCEPT ![lpn] = [subPage |-> cmd[c].bitMap, ppn |-> ppn]]
    BY <2>1 DEF HostWriteEnds, CompleteCommand, Complete, CompleteProgram,
                CompleteReadAddr, CompleteReadData, CompleteErase,
                update_Map_and_invilate_page
  <2> HIDE DEF ppn
  <2>4. map'[lpn].subPage = cmd[c].bitMap
    BY <2>2, <2>3 DEF TablesOK
  <2>5. cmd[c].bitMap = sub[Main(lpn)].bitMap
    BY <2>1 DEF HostWriteEnds, BInv, WriteBytes
  <2> QED BY <2>4, <2>5
<1>7. ASSUME NEW l \in HostLPNs \ {lpn}, NEW d \in Chips, HostWriteEnds(d, l) PROVE FALSE
  BY <1>1, <1>7, OneEnds DEF Ends
<1> QED BY <1>5, <1>6, <1>7

\* What is kept of the sectors it has written is its data, and what is kept of the
\* others before and after is the same.
LEMMA WriteEndsContent ==
  ASSUME IInv, NoneRefused, CInv, DInv, DInv', BInv, BInv', EInv, [DataNext]_allVars,
         NEW c \in Chips, NEW lpn \in HostLPNs, HostWriteEnds(c, lpn), NEW s \in Sectors,
         s[2] \in FirstRun(map'[s[1]].subPage)
  PROVE  /\ s \in OfPage(lpn) => Content'[s] = Seen[s]
         /\ s \notin OfPage(lpn) /\ s[2] \in FirstRun(map[s[1]].subPage) =>
              Content'[s] = Content[s]
<1>1. /\ ending' = [ending EXCEPT ![c] = Main(lpn)] /\ UNCHANGED <<request, sub>>
      /\ request.op = "WRITE"
  BY EndsAre DEF Ends, hostVars
<1>2. PICK l \in HostLPNs, i \in SubPages : s[1] = l /\ s[2] = i
  BY SectorParts
<1>3. CASE l # lpn
  <2>1. Content'[s] = Content[s]
    <3>1. \A d \in Chips : ~HostWriteEnds(d, l)
      BY <1>3, WriteEndsMap
    <3> QED BY <1>2, <3>1, ContentStays DEF BInv
  <2> QED BY <1>2, <1>3, <2>1 DEF OfPage
<1>4. CASE l = lpn
  <2>1. s \in OfPage(lpn) <=> i \in BitMap(request, lpn)
    BY <1>2, <1>4 DEF OfPage, SectorsOfRequest
  <2>2. Agree(stored'[Place(lpn)'], sub[Main(lpn)].buf, FirstRun(map'[lpn].subPage))
    <3>1. ending \in [Chips -> Subs \cup {NoSub}]
      BY PartsOfDInv DEF ChipsOK
    <3>2. ending'[c] = Main(lpn) /\ request'.op = "WRITE" /\ sub' = sub
      BY <1>1, <3>1
    <3>3. EndedBytes'
      BY DEF BInv
    <3>4. Agree(stored'[Place(lpn)'], sub'[Main(lpn)].buf, FirstRun(map'[lpn].subPage))
      BY <3>2, <3>3 DEF EndedBytes, Agree
    <3> QED BY <3>2, <3>4
  <2>3. Content'[s] = sub[Main(lpn)].buf[i]
    <3>1. Content'[s] = stored'[Place(lpn)'][i]
      BY <1>2, <1>4, ContentIs
    <3> QED BY <1>2, <1>4, <2>2, <3>1 DEF Agree
  <2>4. CASE i \in BitMap(request, lpn)
    <3>1. s \in SectorsOfRequest
      BY <2>1, <2>4 DEF OfPage
    <3>2. Seen[s] = sub[Main(lpn)].buf[i]
      BY <1>1, <1>2, <1>4, <3>1, SeenIs
    <3> QED BY <2>1, <2>3, <2>4, <3>2
  <2>5. CASE i \notin BitMap(request, lpn)
    <3>1. ASSUME i \in FirstRun(map[lpn].subPage) PROVE Content'[s] = Content[s]
      <4>1. Content[s] = stored[Place(lpn)][i]
        BY <1>2, <1>4, <3>1, ContentIs
      <4>2. sub[Main(lpn)].buf[i] = stored[Place(lpn)][i]
        BY <2>5, <3>1, WriteEndsMap DEF Agree
      <4> QED BY <2>3, <4>1, <4>2
    <3> QED BY <1>2, <1>4, <2>1, <2>5, <3>1
  <2> QED BY <2>4, <2>5
<1> QED BY <1>3, <1>4

LEMMA WriteEndsServes ==
  ASSUME IInv, IInv', NoneRefused, NoneRefused', CInv, CInv', DInv, DInv', BInv, BInv', EInv,
         [DataNext]_allVars, NEW c \in Chips, NEW lpn \in HostLPNs, HostWriteEnds(c, lpn)
  PROVE  TheDisk!Serve
<1>1. Ends(c, lpn)
  BY DEF Ends
<1>2. request.op = "WRITE" /\ request' = request /\ ~HostSubmit /\ ~RequestEnds
  BY <1>1, EndsAre DEF hostVars
<1>3. OfPage(lpn) \in (SUBSET Todo) \ {{}} /\ Todo' = Todo \ OfPage(lpn)
  BY <1>1, PageIsServed DEF EInv
<1>4. Written' = Written \cup OfPage(lpn)
  <2> SUFFICES ASSUME NEW s \in Sectors
               PROVE  s[2] \in map'[s[1]].subPage <=>
                        s[2] \in map[s[1]].subPage \/ s \in OfPage(lpn)
    BY SectorParts DEF Written, OfPage
  <2>1. CASE s[1] = lpn
    BY <2>1, WriteEndsMap DEF OfPage, SectorsOfRequest
  <2>2. CASE s[1] # lpn
    <3>1. map'[s[1]].subPage = map[s[1]].subPage
      BY <2>2, SectorParts, WriteEndsMap, ContentStays DEF BInv
    <3> QED BY <2>2, <3>1 DEF OfPage
  <2> QED BY <2>1, <2>2
<1>5. Seen' = Seen
  <2>1. /\ DOMAIN Seen = SectorsOfRequest /\ DOMAIN Seen' = SectorsOfRequest
        /\ \A s \in SectorsOfRequest : Seen'[s] = Seen[s]
    BY <1>2, SeenGoesOn DEF EInv
  <2>2. Seen = [s \in SectorsOfRequest |-> Seen[s]]
    BY DEF Seen
  <2>3. Seen' = [s \in SectorsOfRequest |-> Seen'[s]]
    BY <2>1 DEF Seen
  <2> QED BY <2>1, <2>2, <2>3
<1>6. ContentOK'
  BY ContentIsBytes
<1>7. Content' \in [Sectors -> Values \cup {"unwritten"}]
  <2>1. Content' = [s \in Sectors |-> Content'[s]]
    BY DEF Content
  <2>2. \A s \in Sectors : Content'[s] \in Values \cup {"unwritten"}
    BY <1>6 DEF ContentOK
  <2> QED BY <2>1, <2>2
<1>8. ASSUME NEW s \in Sectors
      PROVE  /\ Content'[s] = "unwritten" <=> s \notin Kept[Written']
             /\ s \in Kept[Written'] \cap OfPage(lpn) => Content'[s] = Seen[s]
             /\ s \in (Kept[Written'] \cap Kept[Written]) \ OfPage(lpn) =>
                  Content'[s] = Content[s]
  <2>1. /\ s \in Kept[Written] <=> s[2] \in FirstRun(map[s[1]].subPage)
        /\ s \in Kept[Written'] <=> s[2] \in FirstRun(map'[s[1]].subPage)
    BY KeptStored
  <2>2. Content'[s] \in IF s[2] \in FirstRun(map'[s[1]].subPage) THEN Values ELSE {"unwritten"}
    BY <1>6 DEF ContentOK
  <2>3. "unwritten" \notin Values
    BY DEF Values
  <2> QED BY <2>1, <2>2, <2>3, WriteEndsContent
<1>9. PICK pages : pages = OfPage(lpn)
  OBVIOUS
<1>10. TheDisk!Write(pages)
  BY <1>2, <1>4, <1>5, <1>7, <1>8, <1>9 DEF TheDisk!Write, Seen, Written
<1>11. request'.op = request.op
  BY <1>2
<1> QED BY <1>3, <1>9, <1>10, <1>11, ServeIs

\* A read that ends returns what is stored of its sectors.
LEMMA ReadEndsServes ==
  ASSUME IInv, NoneRefused, CInv, DInv, DInv', BInv, EInv, [DataNext]_allVars,
         NEW c \in Chips, NEW lpn \in HostLPNs, HostReadEnds(c, lpn)
  PROVE  TheDisk!Serve
<1>1. Ends(c, lpn)
  BY DEF Ends
<1>2. /\ request.op = "READ" /\ request' = request /\ sub' = sub /\ ~HostSubmit /\ ~RequestEnds
      /\ lpn \in restSubreqs
  BY <1>1, EndsAre DEF hostVars
<1>3. /\ OfPage(lpn) \in (SUBSET Todo) \ {{}} /\ Todo' = Todo \ OfPage(lpn)
      /\ \A s \in SectorsOfRequest : (\E d \in Chips : Ends(d, s[1])) <=> s \in OfPage(lpn)
  BY <1>1, PageIsServed DEF EInv
<1>4. Content' = Content /\ Written' = Written
  <2>1. ASSUME NEW s \in Sectors
        PROVE  Content'[s] = Content[s] /\ map'[s[1]].subPage = map[s[1]].subPage
    <3>1. ASSUME NEW d \in Chips, HostWriteEnds(d, s[1]) PROVE FALSE
      <4>1. s[1] \in HostLPNs /\ Ends(d, s[1])
        BY <3>1, SectorParts DEF Ends
      <4> QED BY <1>2, <3>1, <4>1, EndsAre
    <3> QED BY <3>1, ContentStays DEF BInv
  <2> QED BY <2>1, SameContent
<1>5. /\ DOMAIN Seen = SectorsOfRequest /\ DOMAIN Seen' = SectorsOfRequest
      /\ \A s \in SectorsOfRequest :
           /\ s \in OfPage(lpn) => Seen'[s] = sub'[Main(s[1])].buf[s[2]]
           /\ s \notin OfPage(lpn) => Seen'[s] = Seen[s]
  BY <1>2, <1>3, SeenGoesOn DEF EInv
<1>6. ASSUME NEW s \in SectorsOfRequest, s \in OfPage(lpn), Content[s] # "unwritten"
      PROVE  Seen'[s] = Content[s]
  <2>1. PICK i \in SubPages : s \in Sectors /\ s[1] = lpn /\ s[2] = i /\ i \in BitMap(request, lpn)
    BY <1>6, SectorParts DEF OfPage
  <2>2. i \in FirstRun(map[lpn].subPage) /\ Content[s] = stored[Place(lpn)][i]
    BY <1>6, <2>1, ContentIs
  <2>3. Fetched(Main(lpn)) /\ Main(lpn) \in Subs /\ Main(lpn)[2] = lpn
    BY SubNames DEF HostReadEnds, ReadTransferred, Fetched, At
  <2>4. Agree(sub[Main(lpn)].buf, stored[Place(lpn)],
              sub[Main(lpn)].bitMap \cap FirstRun(map[lpn].subPage))
    BY <2>3 DEF EInv, FetchedOK
  <2>5. sub[Main(lpn)].bitMap = BitMap(request, lpn)
    BY <1>2 DEF EInv, ReadMaps
  <2>6. sub[Main(lpn)].buf[i] = stored[Place(lpn)][i]
    BY <2>1, <2>2, <2>4, <2>5 DEF Agree
  <2>7. Seen'[s] = sub[Main(lpn)].buf[i]
    BY <1>2, <1>5, <1>6, <2>1
  <2> QED BY <2>2, <2>6, <2>7
<1>7. PICK pages : pages = OfPage(lpn)
  OBVIOUS
<1>8. pages \in (SUBSET Todo) \ {{}} /\ Todo' = Todo \ pages
  BY <1>3, <1>7
<1>9. TheDisk!Read(pages)
  BY <1>2, <1>4, <1>5, <1>6, <1>7 DEF TheDisk!Read, Seen, Written
<1>10. request'.op = request.op
  BY <1>2
<1> QED BY <1>8, <1>9, <1>10, ServeIs

\* Everything else between the beginning and the end of a request is invisible.
LEMMA NothingEnds ==
  ASSUME IInv, NoneRefused, CInv, DInv, DInv', BInv, EInv, [DataNext]_allVars,
         ~HostSubmit, ~RequestEnds, \A c \in Chips, lpn \in HostLPNs : ~Ends(c, lpn)
  PROVE  /\ Content' = Content /\ Written' = Written
         /\ request' = request /\ Todo' = Todo /\ Seen' = Seen
<1>1. \A s \in SectorsOfRequest, c \in Chips : ~Ends(c, s[1])
  BY SectorParts
<1>2. Content' = Content /\ Written' = Written
  <2>1. ASSUME NEW s \in Sectors
        PROVE  Content'[s] = Content[s] /\ map'[s[1]].subPage = map[s[1]].subPage
    <3>1. \A c \in Chips : ~HostWriteEnds(c, s[1])
      BY SectorParts DEF Ends
    <3> QED BY <3>1, ContentStays DEF BInv
  <2> QED BY <2>1, SameContent
<1>3. /\ request' = request /\ SectorsOfRequest' = SectorsOfRequest
      /\ DOMAIN Seen = SectorsOfRequest /\ DOMAIN Seen' = SectorsOfRequest
      /\ \A s \in SectorsOfRequest : (s \in Todo' <=> s \in Todo) /\ Seen'[s] = Seen[s]
      /\ Todo \subseteq SectorsOfRequest /\ Todo' \subseteq SectorsOfRequest
  BY <1>1, SeenGoesOn DEF EInv
<1>4. Todo' = Todo
  BY <1>3
<1>5. Seen' = Seen
  <2>1. Seen = [s \in SectorsOfRequest |-> Seen[s]]
    BY DEF Seen
  <2>2. Seen' = [s \in SectorsOfRequest |-> Seen'[s]]
    BY <1>3 DEF Seen
  <2> QED BY <1>3, <2>1, <2>2
<1> QED BY <1>2, <1>3, <1>4, <1>5

\* The request of the block layer is the disk's.
LEMMA SubmitSubmits ==
  ASSUME IInv, DInv, DInv', HostSubmit
  PROVE  TheDisk!Submit
<1>1. PICK req \in Requests : request' = req /\ restSubreqs' = PagesOfRequest(req)
  BY Submitted
<1>2. hostPc = "idle" /\ UNCHANGED <<map, stored, ending>>
  <2>1. hostPc = "idle" /\ UNCHANGED <<flashVars, stored, ending>>
    BY Submitted
  <2> QED BY <2>1 DEF flashVars, vars, tables
<1>3. request.op = "NONE"
  BY <1>2, PartsOfDInv DEF RequestOK, NoRequest
<1>4. req.op \in {"READ", "WRITE"}
  BY DEF Requests
<1>5. Content' = Content /\ Written' = Written
  BY <1>2 DEF Content, Place, Written
<1>6. \A lpn \in PagesOfRequest(req) : lpn \notin Served'
  <2> SUFFICES ASSUME NEW lpn \in PagesOfRequest(req) PROVE lpn \notin Served'
    OBVIOUS
  <2>1. lpn \in Served' <=> lpn \notin restSubreqs' \/ Ended(lpn)'
    <3>1. lpn \in PagesOfRequest(request')
      BY <1>1
    <3>2. (lpn \in Served)' <=> lpn \notin restSubreqs' \/ Ended(lpn)'
      BY <3>1, ServedStays DEF ServedKnown
    <3> QED BY <3>2
  <2>2. ASSUME NEW c \in Chips, ending[c] = Main(lpn) PROVE FALSE
    <3>1. At(Main(lpn), "ending", c) /\ "ending" \in Kinds /\ Main(lpn) \in Subs
      BY <2>2, PagesAndMaps, SubNames DEF At, Kinds
    <3> QED BY <1>2, <3>1, NothingThere
  <2>3. ~Ended(lpn)'
    BY <1>2, <2>2 DEF Ended
  <2> QED BY <1>1, <2>1, <2>3
<1> DEFINE sectors == {s \in Sectors : s[2] \in BitMap(req, s[1])}
<1>7. SectorsOfRequest' = sectors
  BY <1>1 DEF SectorsOfRequest
<1>8. \A s \in sectors : s[1] \in PagesOfRequest(req) /\ s[1] \in HostLPNs /\ s[2] \in SubPages
  BY SectorParts DEF PagesOfRequest
<1>9. sectors \in SUBSET Sectors /\ sectors # {}
  <2>1. PICK lpn \in HostLPNs, i \in SubPages : req.lsa = lpn * subpageOfPage + i
    BY DEF Requests
  <2>2. req.lsa \in req.lsa..(req.lsa + req.len - 1)
    <3>1. req.len \in Nat /\ req.len >= 1
      BY DataPathAssumption DEF Requests
    <3>2. req.lsa \in Int
      <4>1. lpn \in Nat /\ i \in Nat /\ subpageOfPage \in Nat
        BY FreeValues, DataPathAssumption
      <4> QED BY <2>1, <4>1
    <3> QED BY <3>1, <3>2
  <2>3. i \in BitMap(req, lpn)
    BY <2>1, <2>2 DEF BitMap
  <2>4. <<lpn, i>> \in Sectors /\ <<lpn, i>>[1] = lpn /\ <<lpn, i>>[2] = i
    BY SectorParts
  <2>5. <<lpn, i>> \in sectors
    BY <2>3, <2>4
  <2> QED BY <2>5
<1> HIDE DEF sectors
<1>10. Todo' = sectors
  BY <1>6, <1>7, <1>8 DEF Todo
<1>11. Seen' \in [sectors -> IF req.op = "WRITE" THEN Values ELSE {"unwritten"}]
  <2>1. Seen' = [s \in sectors |->
                   IF req.op = "READ" /\ s[1] \notin Served' THEN "unwritten"
                   ELSE sub'[Main(s[1])].buf[s[2]]]
    BY <1>1, <1>7 DEF Seen
  <2>2. ASSUME NEW s \in sectors, req.op = "WRITE"
        PROVE  sub'[Main(s[1])].buf[s[2]] \in Values
    <3>1. SubsOK'
      BY DataTypeParts DEF DInv
    <3>2. Main(s[1]) \in Subs
      BY <1>8, SubNames
    <3>3. sub'[Main(s[1])] \in SubOf
      BY <3>1, <3>2 DEF SubsOK
    <3>4. sub'[Main(s[1])].buf \in Buffers
      BY <3>3 DEF SubOf
    <3> QED BY <1>8, <3>4 DEF Buffers
  <2>3. CASE req.op = "WRITE"
    BY <2>1, <2>2, <2>3
  <2>4. CASE req.op = "READ"
    BY <1>6, <1>8, <2>1, <2>4
  <2> QED BY <1>4, <2>3, <2>4
<1> QED BY <1>1, <1>3, <1>4, <1>5, <1>9, <1>10, <1>11 DEF TheDisk!Submit, Todo, Seen, Written

\* And so is its end.
LEMMA EndEnds ==
  ASSUME DInv, EInv, RequestEnds
  PROVE  TheDisk!End
<1>1. PICK c \in Chips : EndMain(c) /\ restSubreqs' = {}
  BY DEF RequestEnds
<1>2. PICK lpn \in HostLPNs : ending[c] = Main(lpn) /\ restSubreqs \subseteq {lpn}
  <2>1. ending[c] \in Subs \cup {NoSub} /\ ending[c][1] = "main"
        /\ restSubreqs \subseteq {ending[c][2]}
    BY <1>1, PartsOfDInv DEF ChipsOK, EndMain
  <2> QED BY <2>1, SubNames
<1>3. request' = NoRequest /\ UNCHANGED <<map, stored>>
  BY <1>1 DEF EndMain, flashVars, vars, tables
<1>4. Content' = Content /\ Written' = Written
  BY <1>3 DEF Content, Place, Written
<1>5. request.op # "NONE"
  <2>1. At(Main(lpn), "ending", c) /\ "ending" \in Kinds
    BY <1>2 DEF At, Kinds
  <2> QED BY <2>1, PartsOfDInv DEF MainsPlace
<1>6. Todo = {}
  <2>1. ASSUME NEW s \in SectorsOfRequest PROVE s[1] \in Served
    <3>1. s[1] \in PagesOfRequest(request)
      BY SectorParts
    <3>2. s[1] \in restSubreqs => Ended(s[1])
      BY <1>2 DEF Ended
    <3> QED BY <3>1, <3>2, ServedIs
  <2> QED BY <2>1 DEF Todo
<1>7. SectorsOfRequest' = {}
  <2>1. \A lpn2 : BitMap(NoRequest, lpn2) = {}
    BY DEF BitMap, NoRequest
  <2> QED BY <1>3, <2>1 DEF SectorsOfRequest
<1>8. Todo' = {} /\ Seen' = <<>>
  BY <1>7 DEF Todo, Seen
<1>9. request'.op = "NONE"
  BY <1>3 DEF NoRequest
<1> QED BY <1>4, <1>5, <1>6, <1>8, <1>9 DEF TheDisk!End, Todo, Seen, Written

LEMMA StepIsDiskStep ==
  ASSUME IInv, IInv', NoneRefused, NoneRefused', CInv, CInv', DInv, DInv', BInv, BInv', EInv,
         [DataNext]_allVars
  PROVE  [TheDisk!Submit \/ TheDisk!Serve \/ TheDisk!End]_(TheDisk!diskVars)
<1>1. CASE HostSubmit
  BY <1>1, SubmitSubmits
<1>2. CASE RequestEnds
  BY <1>2, EndEnds
<1>3. CASE ~HostSubmit /\ ~RequestEnds
  <2>1. ASSUME NEW c \in Chips, NEW lpn \in HostLPNs, Ends(c, lpn)
        PROVE  TheDisk!Serve
    BY <2>1, WriteEndsServes, ReadEndsServes DEF Ends
  <2>2. CASE \A c \in Chips, lpn \in HostLPNs : ~Ends(c, lpn)
    <3>1. /\ Content' = Content /\ Written' = Written
          /\ request' = request /\ Todo' = Todo /\ Seen' = Seen
      BY <1>3, <2>2, NothingEnds
    <3> QED BY <3>1 DEF TheDisk!diskVars, Todo, Seen, Written
  <2> QED BY <2>1, <2>2
<1> QED BY <1>1, <1>2, <1>3

LEMMA InitIsDiskInit ==
  ASSUME DataInit
  PROVE  TheDisk!Init
<1>1. /\ request = NoRequest
      /\ \A lpn \in HostLPNs : map[lpn].subPage = {}
  BY DEF DataInit, Init
<1>2. Content = [s \in Sectors |-> "unwritten"] /\ Written = {}
  <2>1. \A s \in Sectors : map[s[1]].subPage = {}
    BY <1>1, SectorParts
  <2>2. FirstRun({}) = {}
    BY FirstRunWithin
  <2>3. \A s \in Sectors : Content[s] = "unwritten"
    BY <2>1, <2>2, ContentIs
  <2>4. Content = [s \in Sectors |-> Content[s]]
    BY DEF Content
  <2>5. Written = {}
    BY <2>1 DEF Written
  <2> QED BY <2>3, <2>4, <2>5
<1>3. SectorsOfRequest = {}
  <2>1. \A lpn : BitMap(NoRequest, lpn) = {}
    BY DEF BitMap, NoRequest
  <2> QED BY <1>1, <2>1 DEF SectorsOfRequest
<1>4. Todo = {} /\ Seen = <<>>
  BY <1>3 DEF Todo, Seen
<1>5. request.op = "NONE"
  BY <1>1 DEF NoRequest
<1> QED BY <1>2, <1>4, <1>5 DEF TheDisk!Init, Todo, Seen, Written

(* The driver is a disk that forgets what lies behind a hole (Disk, with the *)
(* Kept of DataPath): whatever pages the collection moves and the            *)
(* read-modify-writes read and merge meanwhile, a read returns, in every     *)
(* sector before the first hole of its page, what was last written to it; a  *)
(* write changes the sectors of its request, to the block layer's data, and  *)
(* no others but those it makes a hole behind or fills one before; each      *)
(* sector is served once, and the request ends when all are.                 *)
THEOREM DriverIsDisk ==
  ASSUME HostPreempted = FALSE
  PROVE  DataSpec /\ []NoneRefused => IsDisk
<1>1. DataInit => TheDisk!Init
  BY InitIsDiskInit
<1>2. IInv /\ IInv' /\ NoneRefused /\ NoneRefused' /\ CInv /\ CInv' /\ DInv /\ DInv'
        /\ BInv /\ BInv' /\ EInv /\ [DataNext]_allVars
        => [TheDisk!Submit \/ TheDisk!Serve \/ TheDisk!End]_(TheDisk!diskVars)
  BY StepIsDiskStep
<1> QED BY <1>1, <1>2, DataInvariance, BytesInvariance, SectorsInvariance, PTL
        DEF DataSpec, IsDisk, TheDisk!Spec

(* Where no number of a page is refused nothing is left to assume of the     *)
(* states: all three hold of every behaviour.                                *)
THEOREM BytesWithoutRefusals ==
  ASSUME PPNs \subseteq LPNs
  PROVE  /\ DataSpec => []KeptIsWritten
         /\ HostPreempted = FALSE => (DataSpec => []ReadSourceIntact /\ IsDisk)
<1>1. IInv => NoneRefused
  BY DEF IInv, TypeOK, NoneRefused
<1>2. DataSpec => []IInv
  BY DataPathWithoutRefusals, Invariance, PTL DEF IsFlash
<1>3. DataSpec => []NoneRefused
  BY <1>1, <1>2, PTL
<1>4. DataSpec => []KeptIsWritten
  BY <1>3, WrittenIsStored, PTL
<1>5. ASSUME HostPreempted = FALSE PROVE DataSpec => []ReadSourceIntact /\ IsDisk
  <2>1. DataSpec /\ []NoneRefused => []ReadSourceIntact
    BY <1>5, ReadsFindTheirBytes
  <2>2. DataSpec /\ []NoneRefused => IsDisk
    BY <1>5, DriverIsDisk
  <2> QED BY <1>3, <2>1, <2>2, PTL
<1> QED BY <1>4, <1>5
=============================================================================
