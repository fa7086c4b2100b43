------------------------------- MODULE DataPath -------------------------------
(***************************************************************************)
(* The sectors: what a request of the block layer writes and reads, from   *)
(* the bio through the sub-requests of request.c and sub_request.c to the  *)
(* bytes of simulateNAND.c and back, while the tables of Flash move pages  *)
(* underneath.  It puts the requests of the host in the place of the       *)
(* arbitrary writes of Flash, and adds the host's reads, which change no   *)
(* table: every step is a step of Flash or leaves the tables alone.        *)
(*                                                                         *)
(* The block layer has one request out at a time (queue_depth = 1).  That  *)
(* the lists of a chip lose nothing is shown in Scheduler.                 *)
(***************************************************************************)
EXTENDS Flash, Lists

CONSTANTS
  subpageOfPage, \* sectors of a page
  MaxSectors,    \* sectors of the longest request
  HostPreempted  \* TRUE: the block layer's thread may be held up, between its
                 \* critical sections, for longer than a command takes

ASSUME DataPathAssumption ==
  /\ subpageOfPage \in Nat \ {0} /\ SubPages = 0..subpageOfPage-1
  /\ MaxSectors \in Nat \ {0} /\ HostPreempted \in BOOLEAN

\* One sector of one write, whichever it is, holds "new"; all other writes, and
\* what memory held before, "other".  The driver never looks at the data, so a
\* write that is lost is seen when it is the "new" one, and a sector that comes
\* back after it was overwritten too.
Values == {"new", "other"}
Junk == "other"  \* in a recycled buffer, in a page never written

Main(lpn) == <<"main", lpn>>  \* the SubRequest of a page of the request,
RMW(lpn)  == <<"rmw", lpn>>   \* and the read of what a write does not cover
Subs == {Main(lpn) : lpn \in HostLPNs} \cup {RMW(lpn) : lpn \in HostLPNs}
NoSub == <<"none", 0>>

VARIABLES
  stored,      \* Chip_HW_USBSSD.pages: the bytes of each page of the hardware
  copyBuf,     \* the buffer of each plane's relocation
  request,     \* Request_USBSSD: operation and range of sectors
  sub,         \* SubRequest_USBSSD; "waits" while its relatedSub is set
  restSubreqs, \* the pages restSubreqCount still counts
  hostPc,      \* where allocate_Request_USBSSD is
  rList, wList,\* per chip: the sub-requests waiting for a command
  reading,     \* per chip: the host's read it executes, and its stage
  ending,      \* per chip: the sub-request recv_signal_back is to end
  marked       \* "new" has been written

flashVars == vars
hostVars == <<request, restSubreqs, hostPc, marked>>
dataVars == <<stored, copyBuf, hostVars, sub, rList, wList, reading, ending>>
allVars == <<flashVars, dataVars>>

FreeSub == [bitMap |-> {}, buf |-> [i \in SubPages |-> Junk],
            location |-> NoLocation, waits |-> FALSE]
NotReading == [sub |-> NoSub, stage |-> "none"]
NoRequest == [op |-> "NONE", lsa |-> 0, len |-> 0]

-----------------------------------------------------------------------------
(* Sectors.                                                                *)

\* Variant: shifted by the sector's number, not by its place in the page.
BitMap_of_sectors(req, lpn) ==
  {s \in req.lsa..(req.lsa + req.len - 1) : s \div subpageOfPage = lpn}

\* The bitMap of the sectors that the request covers of a page.
BitMap(req, lpn) ==
  {i \in SubPages : lpn * subpageOfPage + i \in req.lsa..(req.lsa + req.len - 1)}
PagesOfRequest(req) == {lpn \in HostLPNs : BitMap(req, lpn) # {}}

\* The sectors a command transfers: the loop over the bitMap stops at the
\* first hole.
FirstRun(bitMap) == {i \in bitMap : \A j \in bitMap : j..i \subseteq bitMap}

\* memcpy of some sectors onto others.
Overlay(old, new, bitMap) ==
  [i \in SubPages |-> IF i \in bitMap THEN new[i] ELSE old[i]]

-----------------------------------------------------------------------------
(* The block layer's thread: allocate_Request_USBSSD.                      *)

\* Where a read is sent.  setup_USBSSD leaves the ppn of a page never written as it
\* found it; if it is refused, or that of a page in the reserve is, the location
\* stays what it was in the memory of the sub-request: a place of the device, as it
\* is in a recycled one, or none (HostFaults).
LookUp(lpn) == IF map[lpn].subPage = {} THEN Locations
                                        ELSE get_PPN_Detail(map[lpn].ppn)

\* Variant: a page is read before it is written only if nothing is written.
Covers_something(bitMap, lpn) ==
  map[lpn].subPage = {} \/ bitMap \cap map[lpn].subPage # {}

\* A write that covers what is stored needs no read.
Covers(bitMap, lpn) == map[lpn].subPage \subseteq bitMap

Payloads(req) ==
  {data \in [PagesOfRequest(req) -> [SubPages -> Values]] :
     LET news == {s \in PagesOfRequest(req) \X SubPages : data[s[1]][s[2]] = "new"}
     IN IF marked THEN news = {}
        ELSE Cardinality(news) <= 1 /\ \A n \in news : n[2] \in BitMap(req, n[1])}

SubRead(bitMap, loc) == [FreeSub EXCEPT !.bitMap = bitMap, !.location = loc]
SubWrite(bitMap, lpn, data, waits) ==
  [bitMap |-> bitMap, buf |-> Overlay(FreeSub.buf, data, bitMap),
   location |-> <<allocate_location_for_plane(lpn), 0, 0>>, waits |-> waits]

\* The sub-requests are built; nobody else knows of them yet.
HostSubmitRead(req) ==
  /\ \E at \in [PagesOfRequest(req) -> Locations] :
       /\ \A lpn \in PagesOfRequest(req) : at[lpn] \in LookUp(lpn)
       /\ sub' = [s \in Subs |->
            IF s[1] = "main" /\ s[2] \in PagesOfRequest(req)
            THEN SubRead(BitMap(req, s[2]), at[s[2]]) ELSE FreeSub]
  /\ hostPc' = "add reads"
  /\ UNCHANGED marked

HostSubmitWrite(req) ==
  LET partial == {lpn \in PagesOfRequest(req) : ~Covers(BitMap(req, lpn), lpn)}
  IN /\ \E at \in [partial -> Locations], data \in Payloads(req) :
          /\ \A lpn \in partial : at[lpn] \in LookUp(lpn)
          /\ sub' = [s \in Subs |->
               IF s[1] = "main" /\ s[2] \in PagesOfRequest(req)
               THEN SubWrite(BitMap(req, s[2]), s[2], data[s[2]], s[2] \in partial)
               ELSE IF s[1] = "rmw" /\ s[2] \in partial
               THEN SubRead(map[s[2]].subPage, at[s[2]]) ELSE FreeSub]
          /\ marked' = (marked \/ \E lpn \in DOMAIN data, i \in SubPages : data[lpn][i] = "new")
     /\ hostPc' = "add writes"

Requests ==
  {[op |-> op, lsa |-> lsa, len |-> len] :
     op \in {"READ", "WRITE"}, len \in 1..MaxSectors,
     lsa \in {lpn * subpageOfPage + i : lpn \in HostLPNs, i \in SubPages}}

HostSubmit ==
  /\ hostPc = "idle"
  /\ \E req \in Requests :
       /\ \A s \in req.lsa..(req.lsa + req.len - 1) : s \div subpageOfPage \in HostLPNs
       /\ request' = req
       /\ restSubreqs' = PagesOfRequest(req)
       /\ \/ req.op = "READ"  /\ HostSubmitRead(req)
          \/ req.op = "WRITE" /\ HostSubmitWrite(req)
  /\ UNCHANGED <<flashVars, stored, copyBuf, rList, wList, reading, ending>>

\* add_subReqs_to_chip hangs sub-requests, in the order of their pages, on the
\* chip of their location.
OfChip(kind, lpns, c) ==
  LET mine == {lpn \in lpns : ChipOf(sub[<<kind, lpn>>].location[1]) = c}
  IN Picked([n \in 1..mapSize |-> <<kind, n-1>>], {<<kind, lpn>> : lpn \in mine})

\* The pages of the request that a read must complete first.
Waiting == {lpn \in restSubreqs : sub[Main(lpn)].waits}

HostAddWrites ==
  /\ hostPc = "add writes"
  /\ wList' = [c \in Chips |-> wList[c] \o OfChip("main", restSubreqs, c)]
  /\ hostPc' = IF Waiting = {} THEN "wait" ELSE "add reads"
  /\ UNCHANGED <<flashVars, stored, copyBuf, request, restSubreqs, marked, sub,
                 rList, reading, ending>>

HostAddReads ==
  /\ hostPc = "add reads"
  /\ rList' = [c \in Chips |->
       rList[c] \o IF request.op = "READ" THEN OfChip("main", restSubreqs, c)
                                         ELSE OfChip("rmw", Waiting, c)]
  /\ hostPc' = "wait"
  /\ UNCHANGED <<flashVars, stored, copyBuf, request, restSubreqs, marked, sub,
                 wList, reading, ending>>

\* add_subReqs_to_chip indexes channelInfos with what was never looked up: the
\* thread dies holding usbssdListMutex, which everybody needs, so nothing is
\* followed from there on.
HostFaults ==
  /\ hostPc = "add reads"
  /\ \E lpn \in IF request.op = "READ" THEN restSubreqs ELSE Waiting :
       map[lpn].subPage = {} \/ map[lpn].ppn \notin LPNs
  /\ hostPc' = "fault"
  /\ UNCHANGED <<flashVars, stored, copyBuf, request, restSubreqs, marked, sub,
                 rList, wList, reading, ending>>

-----------------------------------------------------------------------------
(* Dispatch to an idle chip.  A read of the host that has its address is   *)
(* the chip's next command whatever else it could do.                      *)

Stopped == spinning \/ hostPc = "fault"
Free(c) == ~Stopped /\ chipState[c] = "IDLE" /\ reading[c] = NotReading

DispatchRead(c) ==
  /\ Free(c) /\ NoEraseStep(c) /\ commands[c] = <<>> /\ rList[c] # <<>>
  /\ reading' = [reading EXCEPT ![c] = [sub |-> Head(rList[c]), stage |-> "addr"]]
  /\ rList' = [rList EXCEPT ![c] = Tail(@)]
  /\ UNCHANGED <<flashVars, stored, copyBuf, hostVars, sub, wList, ending>>

\* send_Read_data copies the bytes as the transfer begins.
DispatchReadTransfer(c) ==
  /\ ~Stopped /\ reading[c].stage = "register"
  /\ reading' = [reading EXCEPT ![c].stage = "data"]
  /\ LET s == reading[c].sub
     IN sub' = [sub EXCEPT ![s].buf =
          Overlay(@, stored[sub[s].location], FirstRun(sub[s].bitMap))]
  /\ UNCHANGED <<flashVars, stored, copyBuf, hostVars, rList, wList, ending>>

\* Variant: the sector that begins the run does not count in its length.
Program_one_short(location, buf, bitMap) ==
  LET run == FirstRun(bitMap)
  IN stored' = [stored EXCEPT ![location] = Overlay(@, buf, {i \in run : i + 1 \in run})]

\* write_data copies the bytes as the command is sent.
Program(location, buf, bitMap) ==
  stored' = [stored EXCEPT ![location] = Overlay(@, buf, FirstRun(bitMap))]

\* The first of the list that waits for no read.
IsNextWrite(c, i) ==
  /\ ~sub[wList[c][i]].waits
  /\ \A j \in 1..i-1 : sub[wList[c][j]].waits

DispatchWrite(c) ==
  /\ Free(c) /\ rList[c] = <<>>
  /\ \E i \in DOMAIN wList[c] :
       LET s == wList[c][i]
       IN /\ IsNextWrite(c, i)
          /\ SendHostWrite(c, s[2], sub[s].bitMap)
          /\ Program(Frontier(sub[s].location[1]), sub[s].buf, sub[s].bitMap)
          /\ wList' = [wList EXCEPT ![c] = RemoveAt(@, i)]
  /\ UNCHANGED <<copyBuf, hostVars, sub, rList, reading, ending>>

CopyReadData(c) ==
  /\ Free(c) /\ DispatchReadData(c)
  /\ LET p == Head(incompletedR[c])
     IN copyBuf' = [copyBuf EXCEPT ![p] =
          Overlay(@, stored[cmd[p].location], FirstRun(cmd[p].bitMap))]
  /\ UNCHANGED <<stored, hostVars, sub, rList, wList, reading, ending>>

CopyWrite(c) ==
  /\ Free(c) /\ DispatchCopyWrite(c)
  /\ LET p == Collected(c) IN Program(Frontier(p), copyBuf[p], cmd[p].bitMap)
  /\ UNCHANGED <<copyBuf, hostVars, sub, rList, wList, reading, ending>>

CopyReadPage(c) == Free(c) /\ DispatchCopyRead(c) /\ UNCHANGED dataVars

\* Variant: the erase wipes the block, as flash would.
EraseBlock_wiping(c) ==
  /\ Free(c) /\ DispatchErase(c)
  /\ LET p == Collected(c)
     IN /\ stored' = [loc \in Locations |->
             IF loc[1] = p /\ loc[2] = eraseBlock[p] THEN FreeSub.buf ELSE stored[loc]]
        /\ copyBuf' = [copyBuf EXCEPT ![p] = FreeSub.buf]
  /\ UNCHANGED <<hostVars, sub, rList, wList, reading, ending>>

\* A simulated erase leaves the bytes where they are.  The buffer of the copy
\* goes back to the pool; what the next one holds is arbitrary.
EraseBlock(c) ==
  /\ Free(c) /\ DispatchErase(c)
  /\ copyBuf' = [copyBuf EXCEPT ![Collected(c)] = FreeSub.buf]
  /\ UNCHANGED <<stored, hostVars, sub, rList, wList, reading, ending>>

-----------------------------------------------------------------------------
(* Completion.  The work item of a chip runs to its end, subRequest_End    *)
(* included, before it is entered again.                                   *)

HostKeepsUp == HostPreempted \/ hostPc \in {"idle", "wait"}
MayComplete(c) == ~Stopped /\ HostKeepsUp /\ toCheck[c] = {} /\ ending[c] = NoSub

ReadAddressed(c) ==
  /\ MayComplete(c) /\ reading[c].stage = "addr"
  /\ reading' = [reading EXCEPT ![c].stage = "register"]
  /\ UNCHANGED <<flashVars, stored, copyBuf, hostVars, sub, rList, wList, ending>>

ReadTransferred(c) ==
  /\ MayComplete(c) /\ reading[c].stage = "data"
  /\ reading' = [reading EXCEPT ![c] = NotReading]
  /\ ending' = [ending EXCEPT ![c] = reading[c].sub]
  /\ UNCHANGED <<flashVars, stored, copyBuf, hostVars, sub, rList, wList>>

CompleteCommand(c) ==
  /\ MayComplete(c) /\ Complete(c)
  /\ ending' = [ending EXCEPT ![c] =
       IF chipState[c] = "PROGRAM" /\ inflight[c] = c THEN Main(cmd[c].lpn) ELSE NoSub]
  /\ UNCHANGED <<stored, copyBuf, hostVars, sub, rList, wList, reading>>

Collect(c) == ~Stopped /\ check_and_create_gc(c) /\ UNCHANGED dataVars

\* Variant: the read brings all its sectors, the new ones too.
Missing_none(r, w) == r.bitMap

\* The sectors of the read that the write waiting for it does not have.
Missing(r, w) == r.bitMap \ w.bitMap

\* subRequest_End of the read a write waits for.
EndRMW(c) ==
  /\ hostPc # "fault" /\ ending[c][1] = "rmw" /\ toCheck[c] = {}
  /\ LET r == sub[ending[c]]
         w == sub[Main(ending[c][2])]
     IN sub' = [sub EXCEPT ![ending[c]] = FreeSub,
                           ![Main(ending[c][2])] =
          [@ EXCEPT !.bitMap = w.bitMap \cup r.bitMap, !.waits = FALSE,
                    !.buf = Overlay(w.buf, r.buf, Missing(r, w))]]
  /\ ending' = [ending EXCEPT ![c] = NoSub]
  /\ UNCHANGED <<flashVars, stored, copyBuf, hostVars, rList, wList, reading>>

\* request_May_End: the last page ends the request.
EndMain(c) ==
  /\ hostPc # "fault" /\ ending[c][1] = "main" /\ toCheck[c] = {}
  /\ restSubreqs' = restSubreqs \ {ending[c][2]}
  /\ \/ /\ restSubreqs' # {}
        /\ UNCHANGED <<request, sub, hostPc>>
     \/ /\ restSubreqs' = {}
        /\ request' = NoRequest /\ sub' = [s \in Subs |-> FreeSub]
        /\ hostPc' = "idle"
  /\ ending' = [ending EXCEPT ![c] = NoSub]
  /\ UNCHANGED <<flashVars, stored, copyBuf, marked, rList, wList, reading>>

-----------------------------------------------------------------------------
DataInit ==
  /\ Init
  /\ stored = [loc \in Locations |-> FreeSub.buf]
  /\ copyBuf = [p \in Planes |-> FreeSub.buf]
  /\ request = NoRequest /\ restSubreqs = {} /\ hostPc = "idle" /\ marked = FALSE
  /\ sub = [s \in Subs |-> FreeSub]
  /\ rList = [c \in Chips |-> <<>>] /\ wList = [c \in Chips |-> <<>>]
  /\ reading = [c \in Chips |-> NotReading] /\ ending = [c \in Chips |-> NoSub]

DataNext ==
  \/ HostSubmit \/ HostAddWrites \/ HostAddReads \/ HostFaults
  \/ \E c \in Chips :
       \/ DispatchRead(c) \/ DispatchReadTransfer(c) \/ DispatchWrite(c)
       \/ CopyReadData(c) \/ CopyWrite(c) \/ CopyReadPage(c) \/ EraseBlock(c)
       \/ ReadAddressed(c) \/ ReadTransferred(c) \/ CompleteCommand(c)
       \/ Collect(c) \/ EndRMW(c) \/ EndMain(c)

DataSpec == DataInit /\ [][DataNext]_allVars

\* The block layer's thread finishes what it has begun, timers fire, and a work
\* item runs to its end, where it dispatches what its chip has pending.
DataFairness ==
  /\ WF_allVars(HostAddWrites) /\ WF_allVars(HostAddReads \/ HostFaults)
  /\ \A c \in Chips :
       /\ WF_allVars(\/ DispatchRead(c) \/ DispatchReadTransfer(c) \/ DispatchWrite(c)
                     \/ CopyReadData(c) \/ CopyWrite(c) \/ CopyReadPage(c)
                     \/ EraseBlock(c))
       /\ WF_allVars(ReadAddressed(c) \/ ReadTransferred(c) \/ CompleteCommand(c))
       /\ WF_allVars(Collect(c)) /\ WF_allVars(EndRMW(c) \/ EndMain(c))

DataFairSpec == DataSpec /\ DataFairness
-----------------------------------------------------------------------------
(* Properties.                                                             *)

Place(lpn) == Coordinates(map[lpn].ppn)
Sectors == HostLPNs \X SubPages

\* What the driver keeps of a page with a hole in what has been written: a command
\* transfers the sectors before the hole, and memory has what it had behind it.
Kept == [W \in SUBSET Sectors |->
  {s \in W : s[2] \in FirstRun({i \in SubPages : <<s[1], i>> \in W})}]
Content == [s \in Sectors |->
  IF s[2] \in FirstRun(map[s[1]].subPage) THEN stored[Place(s[1])][s[2]] ELSE "unwritten"]

\* Pages of the request whose command has ended.
Served == (PagesOfRequest(request) \ restSubreqs)
            \cup {ending[c][2] : c \in {d \in Chips : ending[d][1] = "main"}}
SectorsOfRequest == {s \in Sectors : s[2] \in BitMap(request, s[1])}

Buffers == [SubPages -> Values]

(* Every buffer, list and sub-request has its shape.                         *)
DataTypeOK ==
  /\ stored \in [Locations -> Buffers] /\ copyBuf \in [Planes -> Buffers]
  /\ request \in Requests \cup {NoRequest}
  /\ restSubreqs \subseteq HostLPNs /\ marked \in BOOLEAN
  /\ hostPc \in {"idle", "add writes", "add reads", "wait", "fault"}
  /\ sub \in [Subs -> [bitMap : SUBSET SubPages, buf : Buffers,
                       location : Locations, waits : BOOLEAN]]
  /\ rList \in [Chips -> Seq(Subs)] /\ wList \in [Chips -> Seq(Subs)]
  /\ reading \in [Chips -> [sub : Subs, stage : {"addr", "register", "data"}]
                             \cup {NotReading}]
  /\ ending \in [Chips -> Subs \cup {NoSub}]

\* What the block layer sees of the driver as a disk.
TheDisk == INSTANCE Disk WITH
  Unwritten <- "unwritten",
  Kept <- Kept,
  content <- Content,
  written <- {s \in Sectors : s[2] \in map[s[1]].subPage},
  op <- request.op,
  todo <- {s \in SectorsOfRequest : s[1] \notin Served},
  data <- [s \in SectorsOfRequest |->
             IF request.op = "READ" /\ s[1] \notin Served THEN "unwritten"
             ELSE sub[Main(s[1])].buf[s[2]]]

(* The driver is a disk that forgets what lies behind a hole: through        *)
(* read-modify-writes, relocation and erasure, a read of a sector before the *)
(* first hole of its page returns what was last written to it, and a write   *)
(* changes the sectors of its request and what it makes a hole behind or     *)
(* fills one before, and no others.                                          *)
IsDisk == TheDisk!Spec

(* Every step on the way of a sector is a step of Flash: the requests of the *)
(* host meet what Flash assumes of its writes, that they cover all that is   *)
(* stored, although the map is read when the request arrives and the page is *)
(* written much later.                                                       *)
IsFlash == Spec

\* The reads that have not fetched their bytes yet.
Unread == UNION {ToSet(rList[c]) \cup
  (IF reading[c].stage \in {"addr", "register"} THEN {reading[c].sub} ELSE {}) : c \in Chips}

(* The location a read goes to was looked up when its request was built.     *)
(* Though the page may have been moved and its old block erased since, the   *)
(* bytes there are still those of the sectors it wants, as far as the driver *)
(* keeps them.                                                               *)
ReadSourceIntact ==
  \A s \in Unread : \A i \in sub[s].bitMap \cap FirstRun(map[s[2]].subPage) :
    stored[sub[s].location][i] = Content[<<s[2], i>>]

HoldsWhatWasWritten(lpn, bitMap) ==
  \A i \in bitMap : stored[Place(lpn)][i] = sub[Main(lpn)].buf[i]
WriteEnded ==
  {lpn \in HostLPNs : request.op = "WRITE" /\ \E c \in Chips : ending[c] = Main(lpn)}

(* Once the command of a write has ended, the hardware has, for each sector  *)
(* before the first hole of what the map then calls valid, the byte of the   *)
(* sub-request's buffer: what was merged into it and the map agree.          *)
KeptIsWritten ==
  \A lpn \in WriteEnded : HoldsWhatWasWritten(lpn, FirstRun(map[lpn].subPage))

(* The subpages in an entry of the map are the valid ones (command.h:48,149): *)
(* once the command of a write has ended, the hardware has the byte that was *)
(* in the sub-request's buffer for each of them.  Fails: what lies behind a  *)
(* hole is called valid and never sent.                                      *)
ValidIsWritten ==
  \A lpn \in WriteEnded : HoldsWhatWasWritten(lpn, map[lpn].subPage)

(* Every request ends, however much there is to collect meanwhile, unless    *)
(* the search for a free block or the fault of HostFaults stops the driver.  *)
RequestsEnd == request.op # "NONE" ~> request.op = "NONE" \/ Stopped
=============================================================================
