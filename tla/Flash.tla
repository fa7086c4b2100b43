-------------------------------- MODULE Flash --------------------------------
(***************************************************************************)
(* The flash translation layer of src/src/command.c: the logical-to-        *)
(* physical map, the page, block and plane tables with their counters, the *)
(* write frontier of each plane, and garbage collection, driven by the      *)
(* commands of each chip.                                                   *)
(*                                                                          *)
(* Every action is one critical section under usbssdMutex.  A chip executes *)
(* one command at a time; when it ends (Complete), the chip's work item     *)
(* releases the mutex before it takes it again to look for a block to       *)
(* collect (check_and_create_gc), and any thread may dispatch the next      *)
(* command in between.  Threads, timers and the channel are in Scheduler;   *)
(* user reads change no table and are in DataPath.                          *)
(***************************************************************************)
EXTENDS Geometry, FiniteSets, Sequences, SequencesExt

CONSTANTS
  GC_RATE,   \* a plane is collected at or below 1/GC_RATE of its pages free
  SubPages,  \* the sectors of a page (a bitMap is a set of them)
  HostLPNs   \* the logical pages the host ever writes

ASSUME FlashAssumption ==
  /\ GC_RATE \in Nat \ {0}
  /\ SubPages # {}
  /\ HostLPNs \subseteq LPNs /\ HostLPNs # {}

VARIABLES
  map,           \* map[lpn]: subPage = {} means "invalid" (command.h)
  pageInfos,     \* Page_USBSSD of each location
  blockInfos,    \* Block_USBSSD of each block
  counts,        \* page counters of each plane, die, chip and channel
  activeBlock,   \* Plane_USBSSD: the block being filled,
  eraseUsed,     \*   whether eraseLocation is taken by an erase command,
  eraseBlock,    \*   and the block it names
  chipState,     \* Chip_USBSSD: what the chip is executing,
  inflight,      \*   the ID the hardware will signal,
  commands,      \*   the queue of reads and writes,
  incompletedR,  \*   of reads whose data is still to be transferred,
  eraseCommands, \*   and of erases (a plane stands for its erase command)
  cmd,           \* Command_USBSSD with its SubRequest_USBSSD: cmd[chip] is the
                 \*   user's write, cmd[plane] the "related" copy of the erase
  EPage,         \* the page each plane's erase command has reached
  toCheck,       \* per chip: the plane of the write just ended, until
                 \*   check_and_create_gc has looked at it
  spinning       \* a thread loops for ever in allocate_location_in_plane

tables == <<map, pageInfos, blockInfos, counts, activeBlock>>
erasing == <<eraseUsed, eraseBlock, eraseCommands, EPage>>
queues == <<commands, incompletedR>>
vars == <<tables, erasing, queues, chipState, inflight, cmd, toCheck, spinning>>

Units == UNION {Ancestors(p) : p \in Planes}
CommandIDs == Chips \cup Planes

NoLocation == <<<<0, 0, 0, 0>>, 0, 0>>
NoCommand == [operation |-> "NONE", completed |-> FALSE,
              lpn |-> 0, bitMap |-> {}, location |-> NoLocation]

-----------------------------------------------------------------------------
(* The page tables.                                                        *)

\* n pages of the plane move between the counters of all its ancestors.
Shift(plane, dFree, dValid, dInvalid) ==
  counts' = [u \in Units |->
    IF u \in Ancestors(plane)
    THEN [freePageCount    |-> counts[u].freePageCount + dFree,
          validPageCount   |-> counts[u].validPageCount + dValid,
          invalidPageCount |-> counts[u].invalidPageCount + dInvalid]
    ELSE counts[u]]

\* Variant: the search gives up at the last block instead of wrapping around.
NextFree_without_wrapping(plane, infos, n) ==
  LET from == activeBlock[plane]
      isFree(b) == infos[<<plane, b>>].freePageCount = pageOfBlock
  IN n >= from /\ isFree(n) /\ \A b \in from..blockOfPlane-1 : isFree(b) => n <= b

\* The circular search from the active block finds block n.
NextFree(plane, infos, n) ==
  LET from == activeBlock[plane]
      ahead(b) == (b - from) % blockOfPlane
      isFree(b) == infos[<<plane, b>>].freePageCount = pageOfBlock
  IN isFree(n) /\ \A b \in BlockNos : isFree(b) => ahead(n) <= ahead(b)

\* Variant: startWrite is read after it has been incremented.
Frontier_after_increment(plane) ==
  <<plane, activeBlock[plane],
    blockInfos[<<plane, activeBlock[plane]>>].startWrite + 1>>

\* The page the next write to the plane gets.
Frontier(plane) ==
  <<plane, activeBlock[plane],
    blockInfos[<<plane, activeBlock[plane]>>].startWrite>>

allocate_location_in_plane(plane) ==
  LET block == <<plane, activeBlock[plane]>>
      infos == [blockInfos EXCEPT
                  ![block].freePageCount  = @ - 1,
                  ![block].validPageCount = @ + 1,
                  ![block].startWrite     = @ + 1]
  IN /\ blockInfos' = infos
     /\ Shift(plane, -1, 1, 0)
     /\ \/ /\ infos[block].freePageCount # 0
           /\ UNCHANGED <<activeBlock, spinning>>
        \/ /\ infos[block].freePageCount = 0
           /\ \E n \in BlockNos :
                /\ NextFree(plane, infos, n)
                /\ activeBlock' = [activeBlock EXCEPT ![plane] = n]
           /\ UNCHANGED spinning
        \/ /\ infos[block].freePageCount = 0
           /\ ~ \E n \in BlockNos : NextFree(plane, infos, n)
           /\ spinning' = TRUE
           /\ UNCHANGED activeBlock

\* Variant: the page that is invalidated keeps its state.
invilate_page_keeping_state(loc, pages) ==
  /\ Shift(loc[1], 0, -1, 1)
  /\ blockInfos' = [blockInfos EXCEPT
                      ![<<loc[1], loc[2]>>].validPageCount   = @ - 1,
                      ![<<loc[1], loc[2]>>].invalidPageCount = @ + 1]
  /\ pageInfos' = pages

\* invilate_page, applied to page table "pages".
invilate_page(loc, pages) ==
  /\ Shift(loc[1], 0, -1, 1)
  /\ blockInfos' = [blockInfos EXCEPT
                      ![<<loc[1], loc[2]>>].validPageCount   = @ - 1,
                      ![<<loc[1], loc[2]>>].invalidPageCount = @ + 1]
  /\ pageInfos' = [pages EXCEPT ![loc].state = {}]

\* prelocation is on the stack: if get_PPN_Detail_USBSSD refuses and what was there
\* is no page of the device, invilate_page faults or writes outside the tables.
update_Map_and_invilate_page(sub) ==
  LET pre   == map[sub.lpn]
      pages == [pageInfos EXCEPT
                  ![sub.location] = [state |-> sub.bitMap, lpn |-> sub.lpn]]
  IN /\ map' = [map EXCEPT ![sub.lpn] =
                  [subPage |-> sub.bitMap,
                   ppn     |-> get_PPN_From_Detail(sub.location)]]
     /\ \/ /\ pre.subPage = {} \/ pre.ppn \notin LPNs
           /\ pageInfos' = pages
           /\ UNCHANGED <<blockInfos, counts>>
        \/ /\ pre.subPage # {}
           /\ \E old \in get_PPN_Detail(pre.ppn) : invilate_page(old, pages)

\* Variant: the invalid pages of the erased block stay in the totals.
erase_block_keeping_invalid(plane, b) ==
  /\ Shift(plane, pageOfBlock, 0, 0)
  /\ blockInfos' = [blockInfos EXCEPT ![<<plane, b>>] =
                      [freePageCount |-> pageOfBlock, validPageCount |-> 0,
                       invalidPageCount |-> 0, startWrite |-> 0]]
  /\ pageInfos' = [loc \in Locations |->
                     IF loc[1] = plane /\ loc[2] = b
                     THEN [pageInfos[loc] EXCEPT !.state = {}]
                     ELSE pageInfos[loc]]

\* Variant: startWrite is not reset.
erase_block_keeping_startWrite(plane, b) ==
  /\ Shift(plane, pageOfBlock, 0, -pageOfBlock)
  /\ blockInfos' = [blockInfos EXCEPT
       ![<<plane, b>>].freePageCount    = pageOfBlock,
       ![<<plane, b>>].validPageCount   = 0,
       ![<<plane, b>>].invalidPageCount = 0]
  /\ pageInfos' = [loc \in Locations |->
                     IF loc[1] = plane /\ loc[2] = b
                     THEN [pageInfos[loc] EXCEPT !.state = {}]
                     ELSE pageInfos[loc]]

erase_block(plane, b) ==
  /\ Shift(plane, pageOfBlock, 0, -pageOfBlock)
  /\ blockInfos' = [blockInfos EXCEPT ![<<plane, b>>] =
                      [freePageCount |-> pageOfBlock, validPageCount |-> 0,
                       invalidPageCount |-> 0, startWrite |-> 0]]
  /\ pageInfos' = [loc \in Locations |->
                     IF loc[1] = plane /\ loc[2] = b
                     THEN [pageInfos[loc] EXCEPT !.state = {}]
                     ELSE pageInfos[loc]]

-----------------------------------------------------------------------------
(* Dispatching a command to an idle chip: get_Command_USBSSD followed by   *)
(* send_command, one critical section of allocate_command_USBSSD.          *)

Busy(c, state, x) ==
  /\ chipState' = [chipState EXCEPT ![c] = state]
  /\ inflight'  = [inflight EXCEPT ![c] = x]

\* send_command of a read (first stage) or a write; "table" is the table of
\* commands after what get_Command_USBSSD has just changed in it.
Send(c, table, x) ==
  \/ /\ table[x].operation = "READ"
     /\ Busy(c, "READ_ADDR", x)
     /\ cmd' = table
     /\ UNCHANGED <<tables, spinning>>
  \/ /\ table[x].operation = "WRITE"
     /\ Busy(c, "PROGRAM", x)
     /\ cmd' = [table EXCEPT ![x].location = Frontier(@[1])]
     /\ allocate_location_in_plane(table[x].location[1])
     /\ UNCHANGED <<map, pageInfos>>

\* Append x to the queue of the chip, then send the head of the queue.
Enqueue(c, table, x) ==
  LET q == Append(commands[c], x)
  IN commands' = [commands EXCEPT ![c] = q] /\ Send(c, table, Head(q))

\* send_read_command_stage2
DispatchReadData(c) ==
  /\ incompletedR[c] # <<>>
  /\ Busy(c, "READ_DATA", Head(incompletedR[c]))
  /\ UNCHANGED <<tables, erasing, queues, cmd, toCheck, spinning>>

\* for_erase.  The erase at the head of the queue, its copy, and the first
\* page at or after EPage that still holds data.
Collected(c) == Head(eraseCommands[c])
EraseIsNext(c) == incompletedR[c] = <<>> /\ eraseCommands[c] # <<>>
HasData(plane, page) ==
  pageInfos[<<plane, eraseBlock[plane], page>>].state # {}
\* Variant: the search starts after EPage instead of at it.
LivePages_after_EPage(plane) == {p \in PageNos : p > EPage[plane] /\ HasData(plane, p)}
LivePages(plane) == {p \in PageNos : p >= EPage[plane] /\ HasData(plane, p)}
AllInvalid(plane) ==
  blockInfos[<<plane, eraseBlock[plane]>>].invalidPageCount = pageOfBlock

CopyUnderWay(plane) ==
  cmd[plane].operation # "NONE" /\ ~cmd[plane].completed
CopyRead(plane) == cmd[plane].operation = "READ" /\ cmd[plane].completed
LooksForPage(plane) ==
  \/ cmd[plane].operation = "WRITE" /\ cmd[plane].completed
  \/ cmd[plane].operation = "NONE" /\ ~AllInvalid(plane)

\* Variant: the copy is queued again as the read it was.
DispatchCopyWrite_as_read(c) ==
  /\ EraseIsNext(c) /\ CopyRead(Collected(c))
  /\ LET p == Collected(c)
     IN Enqueue(c, [cmd EXCEPT ![p].completed = FALSE], p)
  /\ UNCHANGED <<erasing, incompletedR, toCheck>>

\* The copy has been read into the buffer: turn it into a write.
DispatchCopyWrite(c) ==
  /\ EraseIsNext(c) /\ CopyRead(Collected(c))
  /\ LET p == Collected(c)
     IN Enqueue(c, [cmd EXCEPT ![p].operation = "WRITE",
                               ![p].completed = FALSE], p)
  /\ UNCHANGED <<erasing, incompletedR, toCheck>>

\* Variant: the copy takes every sector of the page, stored or not.
DispatchCopyRead_of_whole_page(c) ==
  /\ EraseIsNext(c) /\ LooksForPage(Collected(c))
  /\ LET p == Collected(c)
     IN \E e \in LivePages(p) :
          /\ \A o \in LivePages(p) : e <= o
          /\ EPage' = [EPage EXCEPT ![p] = e]
          /\ LET loc == <<p, eraseBlock[p], e>>
             IN Enqueue(c, [cmd EXCEPT ![p] =
                  [operation |-> "READ", completed |-> FALSE,
                   lpn |-> pageInfos[loc].lpn, bitMap |-> SubPages,
                   location |-> loc]], p)
  /\ UNCHANGED <<eraseUsed, eraseBlock, eraseCommands, incompletedR, toCheck>>

\* Read the next page with data of the block being collected.
DispatchCopyRead(c) ==
  /\ EraseIsNext(c) /\ LooksForPage(Collected(c))
  /\ LET p == Collected(c)
     IN \E e \in LivePages(p) :
          /\ \A o \in LivePages(p) : e <= o
          /\ EPage' = [EPage EXCEPT ![p] = e]
          /\ LET loc == <<p, eraseBlock[p], e>>
             IN Enqueue(c, [cmd EXCEPT ![p] =
                  [operation |-> "READ", completed |-> FALSE,
                   lpn |-> pageInfos[loc].lpn, bitMap |-> pageInfos[loc].state,
                   location |-> loc]], p)
  /\ UNCHANGED <<eraseUsed, eraseBlock, eraseCommands, incompletedR, toCheck>>

\* Nothing is left in the block: send the erase.
DispatchErase(c) ==
  /\ EraseIsNext(c)
  /\ LET p == Collected(c)
     IN /\ \/ /\ LooksForPage(p) /\ LivePages(p) = {}
              /\ EPage' = [EPage EXCEPT ![p] = pageOfBlock]
           \/ /\ cmd[p].operation = "NONE" /\ AllInvalid(p)
              /\ UNCHANGED EPage
        /\ cmd' = [cmd EXCEPT ![p] = NoCommand]
        /\ Busy(c, "ERASE", p)
  /\ UNCHANGED <<tables, queues, eraseUsed, eraseBlock, eraseCommands,
                 toCheck, spinning>>

\* Variant: the requests of the host do not wait for the erase.
NoEraseStep_needed(c) == incompletedR[c] = <<>>

\* for_erase has nothing to send.  (What it has queued is sent at once, so the
\* queue of an idle chip is empty here: QueuesMatchChip.)
NoEraseStep(c) ==
  /\ incompletedR[c] = <<>>
  /\ eraseCommands[c] # <<>> => CopyUnderWay(Collected(c))

\* A write sub-request of the host becomes a command.
SendHostWrite(c, lpn, bitMap) ==
  /\ NoEraseStep(c) /\ commands[c] = <<>>
  /\ LET plane == allocate_location_for_plane(lpn)
     IN /\ ChipOf(plane) = c
        /\ Enqueue(c, [cmd EXCEPT ![c] =
             [operation |-> "WRITE", completed |-> FALSE, lpn |-> lpn,
              bitMap |-> bitMap, location |-> <<plane, 0, 0>>]], c)
  /\ UNCHANGED <<erasing, incompletedR, toCheck>>

\* Its bitMap covers the sectors already stored: the sub-request waits until
\* its read-modify-write is done.  (DataPath has the requests of the host, and
\* shows that they meet this.)
DispatchHostWrite(c) ==
  \E lpn \in HostLPNs, bitMap \in SUBSET SubPages :
    /\ bitMap # {} /\ map[lpn].subPage \subseteq bitMap
    /\ SendHostWrite(c, lpn, bitMap)

\* What the chip has left to do, without a new request of the host.
DispatchPending(c) ==
  \/ DispatchReadData(c)
  \/ DispatchCopyWrite(c)
  \/ DispatchCopyRead(c)
  \/ DispatchErase(c)

Dispatch(c) ==
  /\ chipState[c] = "IDLE"
  /\ DispatchPending(c) \/ DispatchHostWrite(c)

-----------------------------------------------------------------------------
(* The completion of a command: recv_signal_back for a chip.               *)

Idle(c) == chipState' = [chipState EXCEPT ![c] = "IDLE"] /\ UNCHANGED inflight

\* Variant: the command is found but not taken off the queue.
get_end_CMD_without_removal(queue, x) == queue

\* get_end_CMD: the queue without the command that ended.  A command that is
\* not there would be a NULL dereference.
get_end_CMD(queue, x) ==
  IF Head(queue) = x THEN Tail(queue) ELSE RemoveFirst(queue, x)

CompleteProgram(c) ==
  LET x == inflight[c]
  IN /\ chipState[c] = "PROGRAM"
     /\ commands' = [commands EXCEPT ![c] = get_end_CMD(@, x)]
     /\ update_Map_and_invilate_page(cmd[x])
     /\ \/ /\ x = c
           /\ cmd' = [cmd EXCEPT ![c] = NoCommand]
           /\ toCheck' = [toCheck EXCEPT ![c] = {cmd[x].location[1]}]
        \/ /\ x # c
           /\ cmd' = [cmd EXCEPT ![x].completed = TRUE]
           /\ UNCHANGED toCheck
     /\ Idle(c)
     /\ UNCHANGED <<activeBlock, erasing, incompletedR, spinning>>

CompleteReadAddr(c) ==
  /\ chipState[c] = "READ_ADDR"
  /\ commands' = [commands EXCEPT ![c] = get_end_CMD(@, inflight[c])]
  /\ incompletedR' = [incompletedR EXCEPT ![c] = Append(@, inflight[c])]
  /\ Idle(c)
  /\ UNCHANGED <<tables, erasing, cmd, toCheck, spinning>>

CompleteReadData(c) ==
  /\ chipState[c] = "READ_DATA"
  /\ incompletedR' = [incompletedR EXCEPT ![c] = get_end_CMD(@, inflight[c])]
  /\ cmd' = [cmd EXCEPT ![inflight[c]].completed = TRUE]
  /\ Idle(c)
  /\ UNCHANGED <<tables, erasing, commands, toCheck, spinning>>

CompleteErase(c) ==
  LET p == inflight[c]
  IN /\ chipState[c] = "ERASE"
     /\ eraseCommands' = [eraseCommands EXCEPT ![c] = get_end_CMD(@, p)]
     /\ erase_block(p, eraseBlock[p])
     /\ eraseUsed' = [eraseUsed EXCEPT ![p] = FALSE]
     /\ Idle(c)
     /\ UNCHANGED <<map, activeBlock, eraseBlock, EPage, queues, cmd, toCheck,
                    spinning>>

\* A work item is not re-entered before it has returned.
Complete(c) ==
  /\ toCheck[c] = {}
  /\ \/ CompleteProgram(c)
     \/ CompleteReadAddr(c)
     \/ CompleteReadData(c)
     \/ CompleteErase(c)

-----------------------------------------------------------------------------
(* check_and_create_gc, in its own critical section.                       *)

Invalid(plane, b) == blockInfos[<<plane, b>>].invalidPageCount
Candidates(plane) ==
  {b \in BlockNos : /\ blockInfos[<<plane, b>>].freePageCount = 0
                    /\ Invalid(plane, b) # 0}

\* The scan keeps the first block with the most invalid pages.
IsTarget(plane, b) ==
  /\ b \in Candidates(plane)
  /\ \A o \in Candidates(plane) :
       Invalid(plane, o) < Invalid(plane, b)
         \/ (Invalid(plane, o) = Invalid(plane, b) /\ b <= o)

NeedsGC(plane) ==
  /\ ~eraseUsed[plane]
  /\ counts[plane].freePageCount <= (pageOfBlock * blockOfPlane) \div GC_RATE
  /\ Candidates(plane) # {}

check_and_create_gc(c) ==
  \E plane \in toCheck[c] :
    /\ toCheck' = [toCheck EXCEPT ![c] = {}]
    /\ \/ /\ ~NeedsGC(plane)
          /\ UNCHANGED erasing
       \/ /\ NeedsGC(plane)
          /\ \E b \in BlockNos :
               IsTarget(plane, b) /\ eraseBlock' = [eraseBlock EXCEPT ![plane] = b]
          /\ eraseUsed' = [eraseUsed EXCEPT ![plane] = TRUE]
          /\ eraseCommands' = [eraseCommands EXCEPT ![c] = Append(@, plane)]
          /\ EPage' = [EPage EXCEPT ![plane] = 0]
    /\ UNCHANGED <<tables, queues, chipState, inflight, cmd, spinning>>

-----------------------------------------------------------------------------
Init ==
  /\ map = [lpn \in HostLPNs |-> [subPage |-> {}, ppn |-> 0]]
  /\ pageInfos = [loc \in Locations |-> [state |-> {}, lpn |-> 0]]
  /\ blockInfos = [b \in Blocks |->
       [freePageCount |-> pageOfBlock, validPageCount |-> 0,
        invalidPageCount |-> 0, startWrite |-> 0]]
  /\ counts = [u \in Units |->
       [freePageCount |-> Cardinality({p \in Planes : u \in Ancestors(p)})
                            * page_no_per_plane,
        validPageCount |-> 0, invalidPageCount |-> 0]]
  /\ activeBlock = [p \in Planes |-> 0]
  /\ eraseUsed = [p \in Planes |-> FALSE]
  /\ eraseBlock = [p \in Planes |-> 0]
  /\ eraseCommands = [c \in Chips |-> <<>>]
  /\ EPage = [p \in Planes |-> 0]
  /\ commands = [c \in Chips |-> <<>>]
  /\ incompletedR = [c \in Chips |-> <<>>]
  /\ chipState = [c \in Chips |-> "IDLE"]
  /\ inflight = [c \in Chips |-> c]
  /\ cmd = [x \in CommandIDs |-> NoCommand]
  /\ toCheck = [c \in Chips |-> {}]
  /\ spinning = FALSE

\* A spinning thread never releases usbssdMutex.
Next ==
  /\ ~spinning
  /\ \E c \in Chips : Dispatch(c) \/ Complete(c) \/ check_and_create_gc(c)

\* Timers fire and work items run, and each work item ends by dispatching
\* whatever the chip has pending.  The host owes nothing.
Fairness ==
  \A c \in Chips : /\ WF_vars(~spinning /\ chipState[c] = "IDLE" /\ DispatchPending(c))
                   /\ WF_vars(~spinning /\ Complete(c))
                   /\ WF_vars(~spinning /\ check_and_create_gc(c))

Spec == Init /\ [][Next]_vars
FairSpec == Spec /\ Fairness
-----------------------------------------------------------------------------
(* Properties.                                                             *)

CommandOf ==
  [operation : {"NONE", "READ", "WRITE"}, completed : BOOLEAN,
   lpn : LPNs, bitMap : SUBSET SubPages, location : Locations]

(* Every table and queue has its shape.                                    *)
TypeOK ==
  /\ map \in [HostLPNs -> [subPage : SUBSET SubPages, ppn : PPNs]]
  /\ pageInfos \in [Locations -> [state : SUBSET SubPages, lpn : LPNs]]
  /\ blockInfos \in [Blocks ->
       [freePageCount : Int, validPageCount : Int,
        invalidPageCount : Int, startWrite : Int]]
  /\ counts \in [Units -> [freePageCount : Int, validPageCount : Int,
                           invalidPageCount : Int]]
  /\ activeBlock \in [Planes -> BlockNos]
  /\ eraseUsed \in [Planes -> BOOLEAN]
  /\ eraseBlock \in [Planes -> BlockNos]
  /\ eraseCommands \in [Chips -> Seq(Planes)]
  /\ EPage \in [Planes -> 0..pageOfBlock]
  /\ commands \in [Chips -> Seq(CommandIDs)]
  /\ incompletedR \in [Chips -> Seq(CommandIDs)]
  /\ chipState \in [Chips -> {"IDLE", "PROGRAM", "READ_ADDR", "READ_DATA", "ERASE"}]
  /\ inflight \in [Chips -> CommandIDs]
  /\ cmd \in [CommandIDs -> CommandOf]
  /\ toCheck \in [Chips -> SUBSET Planes]
  /\ spinning \in BOOLEAN

(* The command a chip signals is the head of the queue get_end_CMD searches, *)
(* and an idle chip has no command left but an addressed read, the one it    *)
(* executed last: no command is executed twice or forgotten.                 *)
QueuesMatchChip ==
  \A c \in Chips :
    /\ chipState[c] \in {"PROGRAM", "READ_ADDR"} =>
         commands[c] = <<inflight[c]>> /\ incompletedR[c] = <<>>
    /\ chipState[c] = "READ_DATA" =>
         commands[c] = <<>> /\ incompletedR[c] = <<inflight[c]>>
    /\ chipState[c] = "ERASE" =>
         /\ commands[c] = <<>> /\ incompletedR[c] = <<>>
         /\ eraseCommands[c] # <<>> /\ Head(eraseCommands[c]) = inflight[c]
    /\ chipState[c] = "IDLE" =>
         commands[c] = <<>> /\ incompletedR[c] \in {<<>>, <<inflight[c]>>}

(* A map entry whose subPage is not 0 is valid: its ppn is that of a page of *)
(* the hardware that holds just these sectors of this logical page.          *)
MapNamesPage ==
  \A lpn \in HostLPNs : map[lpn].subPage # {} =>
    \E loc \in Locations :
      /\ map[lpn].ppn = get_PPN_From_Detail(loc)
      /\ pageInfos[loc] = [state |-> map[lpn].subPage, lpn |-> lpn]

(* The map and the page table are inverse to each other: a mapped logical    *)
(* page names the one physical page that holds its current sectors, through  *)
(* overwrites, relocation and erasure.                                       *)
MapAndPagesAgree ==
  /\ MapNamesPage
  /\ \A loc \in Locations : pageInfos[loc].state # {} =>
       /\ pageInfos[loc].lpn \in HostLPNs
       /\ map[pageInfos[loc].lpn].ppn = get_PPN_From_Detail(loc)

\* The page a chip is programming (counted valid, but not yet holding data).
Programmed(c) ==
  IF chipState[c] = "PROGRAM" THEN {cmd[inflight[c]].location} ELSE {}
PagesOf(plane, b) == {loc \in Locations : loc[1] = plane /\ loc[2] = b}
SumOf(field, blocks) == SumFunctionOnSet([b \in Blocks |-> blockInfos[b][field]], blocks)

\* The pages of a block that hold data, or are about to.
Census(b) ==
  {loc \in PagesOf(b[1], b[2]) :
     pageInfos[loc].state # {} \/ loc \in Programmed(ChipOf(b[1]))}

\* The counters of a block are the census of its pages.
BlocksAgree ==
  \A b \in Blocks :
    /\ blockInfos[b].freePageCount = pageOfBlock - blockInfos[b].startWrite
    /\ blockInfos[b].invalidPageCount =
         blockInfos[b].startWrite - blockInfos[b].validPageCount
    /\ blockInfos[b].validPageCount = Cardinality(Census(b))

(* What check() prints about, and more: the counters of every block are the *)
(* census of its pages, and those of a plane, die, chip and channel are the *)
(* sums over the blocks below it.  So no counter underflows.                *)
CountersAgree ==
  /\ BlocksAgree
  /\ \A u \in Units :
       LET below == {b \in Blocks : u \in Ancestors(b[1])}
       IN counts[u] = [freePageCount    |-> SumOf("freePageCount", below),
                       validPageCount   |-> SumOf("validPageCount", below),
                       invalidPageCount |-> SumOf("invalidPageCount", below)]

(* Pages are programmed in order into one block per plane at a time: every   *)
(* other block is blank or full, the active block has room, and no page      *)
(* at or after startWrite holds data or is being programmed.                 *)
WriteFrontier ==
  \A b \in Blocks :
    /\ blockInfos[b].startWrite \in 0..pageOfBlock
    /\ activeBlock[b[1]] = b[2] /\ ~spinning => blockInfos[b].startWrite # pageOfBlock
    /\ activeBlock[b[1]] # b[2] => blockInfos[b].startWrite \in {0, pageOfBlock}
    /\ \A loc \in PagesOf(b[1], b[2]) :
         pageInfos[loc].state # {} \/ loc \in Programmed(ChipOf(b[1]))
           => loc[3] < blockInfos[b].startWrite

(* The erase sent to a chip hits a full block in which nothing is stored, is *)
(* being programmed or will be programmed next.                              *)
EraseIsSafe ==
  \A c \in Chips : chipState[c] = "ERASE" =>
    LET p == inflight[c]
    IN /\ eraseUsed[p] /\ activeBlock[p] # eraseBlock[p]
       /\ AllInvalid(p)
       /\ \A loc \in PagesOf(p, eraseBlock[p]) : pageInfos[loc].state = {}

(* A page being relocated is still the current page of its logical page when *)
(* the copy is programmed: no user write slips in between the read and the   *)
(* write of the copy, so the copy never brings old sectors back.             *)
CopyIsCurrent ==
  \A p \in Planes : CopyUnderWay(p) \/ CopyRead(p) =>
    LET from == <<p, eraseBlock[p], EPage[p]>>
    IN /\ pageInfos[from] = [state |-> cmd[p].bitMap, lpn |-> cmd[p].lpn]
       /\ map[cmd[p].lpn] = [subPage |-> cmd[p].bitMap,
                             ppn     |-> get_PPN_From_Detail(from)]

(* The search for the next active block always finds one: collection keeps   *)
(* enough pages free for its own copies.                                     *)
NeverSpins == ~spinning

(* When the search does fail, it is because the plane is full to the last    *)
(* page: no free page is ever out of its reach in a block partly written, or  *)
(* behind the active block.                                                   *)
SpinsOnlyWhenFull ==
  spinning => \E p \in Planes :
    \A b \in BlockNos : blockInfos[<<p, b>>].freePageCount = 0

(* Relocation moves a logical page and changes nothing else about it; an     *)
(* erasure changes no map entry.                                             *)
CollectionKeepsMap ==
  [][\A c \in Chips : inflight[c] # c /\ chipState[c] # chipState'[c]
       => \A lpn \in HostLPNs :
            ChipOf(allocate_location_for_plane(lpn)) = c
              => map'[lpn].subPage = map[lpn].subPage]_vars

(* A collection that has been started erases its block in the end, unless the *)
(* search for a free block hangs the driver.                                 *)
CollectionEnds == \A p \in Planes : eraseUsed[p] ~> ~eraseUsed[p] \/ spinning
=============================================================================
