# USBSSD: TLA+ models, checks and proofs

USBSSD is a Linux kernel module: a block device (`src/src/main.c`, blk-mq) on top
of a flash translation layer (`request.c`, `sub_request.c`, `command.c`) that
drives simulated NAND flash (`simulateNAND.c`). This directory models it in
TLA+, checks the models with TLC on small instances, and proves some of their
properties for all instances with TLAPS. `PROJECT.json` lists the runs, the
mutants that show each property can fail, the source lines behind every
definition, the hazards and the theorems.

## 1. The system

A request of the block layer passes through the parts in this order:

    block layer --USBSSD_queue_rq--> request.c --SubRequest--> per-chip lists (command.c)
        ^                                                        | get_Command, send_command
        | request_May_End                                        v
        +------------- recv_signal_back (work items) <--timers-- simulateNAND.c

| Component | State | Operations | Interacts through |
|---|---|---|---|
| Geometry (`setup_USBSSD`, address functions) | counts of channels ... pages, capacity, `mapSize` | `get_PPN_Detail_USBSSD`, `get_PPN_From_Detail_USBSSD`, `allocate_location_for_plane` | called by everything else |
| Flash translation layer (`command.c`) | `map`, `pageInfos`, `blockInfos`, counters of plane, die, chip and channel, `activeBlock` | `allocate_location_in_plane`, `update_Map_and_invilate_page`, `invilate_page`, `erase_block`, `check` | under `usbssdMutex`, from dispatch and completion |
| Garbage collection (`command.c`) | erase command and its `related` copy, `EPage`, `eraseLocation` | `check_and_create_gc`, `for_erase` | shares the chip with the host's requests |
| Queues and dispatch (`command.c`) | per chip: `rList`, `wList`, `wTail`, `commands`, `incompletedR`, `eraseCommands`, state; per channel: state | `add_subReqs_to_chip`, `get_SubRequests_*`, `get_Command_USBSSD`, `allocate_command_USBSSD`, `recv_signal`, `recv_signal_back`, `get_end_CMD` | called by the block layer's thread, timers, and work items of channel and chips |
| Requests (`request.c`, `sub_request.c`) | `restSubreqCount`, `subMutex`, `relatedSub` | `allocate_Request_USBSSD`, `subRequest_End`, `request_May_End` | allocated by the block layer's thread, ended by work items |
| NAND hardware (`simulateNAND.c`) | state of channel and chips, `preCMD`, two kinds of timers, bytes | `send_cmd_2_NAND`, `timer_callback_channel`, `timer_callback_chip` | called by dispatch; signals through `recv_signal` |
| Block layer glue (`main.c`) | gendisk, tag set (`queue_depth = 1`) | `USBSSD_queue_rq`, `req_end`, init, exit | kernel |
| Pool allocator (`allocator.c`) | free list, used list, two mutexes | `allocate_USBSSD`, `free_USBSSD` | every object above |
| Allocation counter (`memCheck.c`) | one atomic | `kmalloc_wrap`, `kfree_wrap` | every allocation |
| Set-up and tear-down | - | `setup_USBSSD`, `init_*`, `destory_*` and the goto ladder of `USBSSD_init` | - |
| Load tests (`boost_test_*` in `request.c`), `test.c` | - | never called; prints a greeting | - |

What is hard here:

* **Concurrency.** The block layer's thread, timer callbacks, one work item per
  channel and one per chip meet at `usbssdMutex`, `usbssdListMutex`, the mutexes
  of the hardware and that of the request, and leave them between steps that
  belong together: queueing and dispatching, completing and collecting,
  ending the last sub-request and freeing the request.
* **Order.** A read has two stages; a partial write waits for a read; relocation
  is a read, a write and an invalidation per page, then an erasure, and the
  host's writes go on meanwhile.
* **Redundant state.** The map and the page table are inverse to each other, and
  free, valid and invalid pages are counted on five levels.
* **Limits.** Collection needs free pages to make free pages; `mapSize` is not
  the number of pages; the search for a free block does not end without one.
* **Progress.** Nothing polls: a command is sent only because some thread passes
  through `allocate_command_USBSSD` at the right time.

What makes each component correct: page numbering is a bijection and the map
covers what the disk announces (Geometry); the map names the page that holds the
current sectors, the counters are the census of the pages, pages are programmed
in order, nothing live is erased, collection never runs out of pages (Flash);
no command is lost, doubled, refused or overtaken, and no wake-up is missed
while nobody sleeps for ever (Scheduler, NAND); a request ends once, after its last page (BlockDevice); a
sector read is the sector last written, but for those the driver forgets (DataPath, Disk); an object has one
holder (Pool, Recycle); what is loaded is whole, and what is unloaded leaves
nothing behind (Lifecycle).

## 2. The modules

| Module | Models | Main correspondences |
|---|---|---|
| `Geometry` | address arithmetic | one operator per function; `get_PPN_Detail(ppn)` is the *set* of locations the caller may be left with, since the function refuses a number at or above `mapSize` and leaves its argument uninitialised |
| `MCGeometry` | the properties of the address arithmetic, and a counter over page numbers, for TLC | - |
| `Flash` | tables, collection and the command cycle of each chip | one action per critical section under `usbssdMutex`: `Dispatch*` is `get_Command_USBSSD` with `send_command`, `Complete*` the first section of `recv_signal_back`, `check_and_create_gc` the second |
| `MCFlash` | instances of `Flash`; `FirstPageInPart` says which sectors the host of a run asks for | - |
| `NAND` | hardware of one channel | `Accepts` is the check at the head of each `send_*`; a callback is two steps: under the hardware's mutex (`timer_callback_*`), and the signal after it (`Signal*` in Scheduler) |
| `Scheduler` (EXTENDS `NAND`) | threads and queues of one channel | `hostPc`, `chipPc`, `channelPc` say where a thread is between two critical sections |
| `BlockDevice` | abstract specification of the whole | `Submit`, `Serve` |
| `MCScheduler` | instances of `Scheduler` | - |
| `Disk` | abstract specification of the data: a disk that keeps the sectors `Kept[W]` of those `W` that have been written | `Submit`, `Serve` sector by sector in any order, `End` |
| `DataPath` (EXTENDS `Flash`) | sectors, from the bio to the hardware and back | `HostSubmit*`, `HostAdd*` are `allocate_Request_USBSSD`; `Dispatch*` and `CompleteCommand` wrap the actions of `Flash` and move bytes; `EndRMW` and `EndMain` are `subRequest_End` and `request_May_End`; `HostFaults` is the end of a thread that uses a location nobody has filled in |
| `MCDataPath` | instances of `DataPath`; `SecondPageSmall` says which sectors the host of a run asks for | - |
| `Pool` | `allocator.c`: two doubly linked lists under two mutexes | one action per critical section and per step of the search; `pc[t]`, `ptr[t]`, `iter[t]` are a thread's locals |
| `MCPool` | instances of `Pool` | - |
| `Recycle` | the lives of commands and sub-requests | `CreateCopy`, `GoOn`, `EraseNow` are the branches of `for_erase`; `EndSignal`, `Look`, `Check`, `EndSub`, `FreeCommand` the sections of `recv_signal_back` |
| `MCRecycle` | instances of `Recycle` | - |
| `Signals` | command IDs with the widths of C; operators, no state | `AsInt` is the conversion at the call of `get_end_CMD`, `Matches` the one at its comparison |
| `Lifecycle` | loading, unloading, memory | one action per function or label of `USBSSD_init` and `USBSSD_exit` |
| `MCLifecycle` | instances of `Lifecycle`, which step through the page numbers (`MCGeometry`) while the module runs | - |
| `Lists` | the loop of `add_subReqs_to_chip`, for `Scheduler` and `DataPath`; an operator, no state | `Picked` |
| `GeometryProofs`, `SetupProofs`, `FlashProofs`, `ListProofs`, `SchedulerProofs`, `RecycleProofs`, `DataPathProofs`, `PoolProofs` | theorems | section 5 |

Definitions called `X_something` after a comment "Variant" are broken forms of
`X`, each with a bug a programmer could make; `PROJECT.json` ("mutants") pairs
every property with the one that violates it. No specification uses them.

**Identities for objects.** A pointer to a `Command_USBSSD` becomes a name. In
`Flash`, `cmd[c]` of chip `c` is the one user write the chip can have, and
`cmd[p]` of plane `p` the `related` copy of the plane's erase. In `Scheduler` a
command is named by what it executes. `commandID` is this name there. Two
modules look at what the names hide: `Signals` at IDs as numbers, `Recycle`
at objects that are freed and taken again.

**Why there are two views of `command.c`.** `Flash` keeps the tables and drops
the threads; `Scheduler` keeps the threads and drops the tables: after a user
write collection may begin and finds any number of pages to copy, at most
`MaxCopies`. What joins them is that the actions of `Flash` are exactly the critical sections
of `Scheduler`. `DataPath` puts the host's requests, their sectors and the bytes
of the hardware on top of `Flash`; that it only does what `Flash` allows is
checked and proved (`IsFlash`), so what is shown or proved of `Flash` holds of it.

**Data.** In `Flash` a page is its set of sectors (`SubPages`) and its logical
page. In `DataPath` a sector has a value, "new" or "other": the driver never looks
at the data, so it is enough to mark one sector of one write, any one, and
follow it. A write that is lost shows when it is the marked one, and so does an
old value that comes back. Bytes within a sector, and their place in the chunks of
`alloc_pages`, are left out. Kernel times: a timer fires at any moment, so every order
of timers is possible, the orders of all constants `*_TIME` among them.

**Memory.** `Lifecycle` names every block of memory: the nodes of the tree under
`usbssd` and their arrays by their path, the map, the parts of the simulated
hardware, the pools and their objects. A function of the ladder is one step with
any set of failing allocations. `memCheck`'s counter counts what the code counts: a
failed call too. Not in it: `alloc_pages`, whose loop on failure decrements an
unsigned order below zero (`simulateNAND.c:329`).

**Channels.** `Scheduler` has one channel. Channels have separate chips, lists
and hardware and share only the mutexes, so each action of one is an action of
this model with the others unchanged. `Flash` has any number.

## 3. The runs

| Run | Instance | What it shows |
|---|---|---|
| `flash_two_planes` | 2 planes of 3 blocks of 3 pages on a chip, two logical pages in one plane, of which one is stored in part, and one in the other, fair, 441 thousand states | `TypeOK`, `QueuesMatchChip`, `MapAndPagesAgree`, `EraseIsSafe`, `NeverSpins`, `CountersAgree`, `CopyIsCurrent`, `WriteFrontier`, `CollectionKeepsMap`, `CollectionEnds` |
| `flash_refused_ppn` (violation) | one plane of 4 blocks of 2 pages, reserve 1/4 | `MapNamesPage` fails |
| `scheduler_one_chip` | requests of 3 pages, one page to copy, fair, 77 thousand states | `TypeOK`, `CountMatchesPending`, `ReadBeforeWrite`, `NoLostWakeup`, and `KeepsPromise`, the refinement of `BlockDevice` with its liveness |
| `scheduler_two_chips` | 2 chips, requests of 2 pages, submitting thread held up at will, a fresh request's mutex looks unlocked, 3.9 million states | `NeverRefused`, `OneSignalPerCommand`, `LostOnlyToSleepers`, `StaleOnlyInWindow`, `EachInOnePlace` |
| `scheduler_mutex` (violation) | one page, submitting thread held up | `MutexReady` fails |
| `datapath_two_pages` | 2 pages of 3 sectors in a plane of 2 blocks of 2 pages, requests of one or two sectors (of the second page, the first sector), within a page or across both, fair, 285 thousand states | `DataTypeOK`, `ReadSourceIntact`, `KeptIsWritten`, `SpinsOnlyWhenFull`, `IsDisk` (implements `Disk`), `IsFlash` (implements `Flash`), `RequestsEnd` |
| `datapath_hole_lost` (violation) | one page of 3 sectors, requests of up to three | `ValidIsWritten` fails |
| `pool_lists` | 4 objects, 2 threads, kmalloc may fail, fair, 266 thousand states | `OneHolder`, `LinksAreInverse`, `CallsReturn` |
| `recycle_one_chip` | one chip, 4 commands, 3 sub-requests, completions held up at will, 3358 states | `EndsOwnCommand`, `FreedOnce`, `OnlyErasesLeak` |
| `recycle_stale_sub` (violation) | the same | `CopyOwnsItsSub` fails |
| `lifecycle_ladder` | 2 chips, any 2 failures, pools of up to 3 objects, 2x2x2x2 planes of 3 blocks of 4 pages, reserve 1/10, 37 thousand states | `EndsClean`, `SafeWhileDisk`, `FreedOnce`, `TreeIsWhole`, `MemcheckTells`, `PPNRoundTrip`, `PlanesKeepRoom` |
| `lifecycle_exit` (violation) | the same | `WorkIsSafe` fails |

**Bounds, and why they suffice.** Nothing in `Flash` is cut off by a counter: the
tables are finite, so a run covers histories of any length. With three blocks of three pages there
are two victims to choose from, blocks are partly written, partly invalid or both, and a user write can
come between a completion and its `check_and_create_gc` without filling the plane.
Relocations of live pages, two queued erases on one chip, and dispatch between the two critical
sections do happen. Two sectors are enough to tell a partial page from a full
one; one page stored in part is enough to see a copy that takes too many sectors or too few, so the
host of the run asks for the first sector of page 0 and for the others whole (`FirstPageInPart`, a `CONSTRAINT` on what the host asks for;
other partial writes are in `datapath_two_pages`). More chips add no table that they share but the counters of the channel and
the device; the theorems of section 5 hold for any number. In `Scheduler` three
pages are the least with which the write list has a head that waits, one behind it that does not, and a tail that
is taken; two chips the least that compete for
the channel; the theorems about it hold for any numbers. Nothing is ever added to a write list that is not empty:
the writes of a request are added at once, and `queue_depth` is 1. So the branch of
`HostAddWrites` for a list whose tail pointer is gone is in the model and is never reached.

In `DataPath` two pages have read-modify-writes, partial reads,
requests that end page by page, relocation of partial pages, and pages that move
while they wait to be read. **Three sectors are the least with a hole.** The driver's pages
have four, and a page written in two pieces that do not touch has a hole: then
the piece behind it is lost (finding 4). What becomes of a hole is a matter of the page's
own reads, writes and copies, so one page with all its sectors is enough, and the second has only requests of its first sector (`SecondPageSmall`, a `CONSTRAINT` on
what the host asks for). What is true of pages with holes is stated in terms of what the driver *keeps*: the
sectors before the first hole (`Kept`). `IsDisk` refines `Disk` with that set, so a sector that
falls behind a hole may read as anything from then on, and every other sector reads as it was written;
where no page has a hole everything is kept and `Disk` is an ordinary disk.
A plane of 2x2 that holds both pages sooner or later has none free, so `RequestsEnd`
excepts a driver that hangs in the search for a free block, and `SpinsOnlyWhenFull` says that this happens only in a
plane without one free page; as long as only one of the two pages is written there is no end to the history.
In `Pool` two threads are enough for a search to be overtaken: its start, read before
the mutex, is freed and perhaps taken again by the other thread; four objects make a
list with an inside. (The safety properties were also checked with three threads
and four objects, with symmetry.)
In `Lifecycle` one failure of two chips' tables leaves one chip there and
the other not, and two failures are the least where one hits what the clean-up after the other relies on.
In `Recycle` four commands allow an erase, its copy and two users, or a user
after leaked erases. `lifecycle_ladder` tries every page number of a device with two of everything, while the module runs.

**The passing runs of `Flash` and `DataPath` set `RESERVE_RATE` to 100000**, so the reserve is less
than a page and `mapSize = PageCount`: `get_PPN_Detail_USBSSD` then refuses
nothing. With the shipped reserve it does, and the finding of section 4 spoils
every property about the map. What the runs show of the rest of the code is
what the code does while the physical pages in use are below `mapSize`.

**`NeverSpins` depends on the amount of data.** In a plane of four blocks of two it holds with two logical pages
and fails with three (checked besides the runs). When a write comes between a completion
and its check the plane is one page shorter than `check_and_create_gc` assumes; a
block with two invalid pages to gain must exist then. `EnoughRoom` of `FlashProofs` is the
condition: the host writes fewer than `(blockOfPlane-1)(pageOfBlock-1)` logical pages
to a plane (2 < 3 there, so the bound is tight; 2 < 4 in the run), and `GC_RATE <= blockOfPlane`. The shipped
plane has 256 blocks of 64 and at most 14746 logical pages, fewer than 16065, and `GC_RATE`
is 10. That the condition suffices for every device is proved (`SearchAlwaysEnds`).
`datapath_two_pages` is the complementary run: its plane is asked to hold two pages out of four; the search does fail there, and
only when not one page is free (`CHECK_DEADLOCK FALSE`: a spinning thread is the end).

**Fairness.** `Flash`: a chip that executes something completes
(timers fire), a work item that has completed a write reaches
`check_and_create_gc`, and an idle chip with something pending gets it, because
every work item ends by calling `allocate_command_USBSSD`. The host is under no
obligation. `Scheduler`: weak fairness for each timer, softirq and work item,
which the kernel schedules, and for the block layer's thread once it has taken
a request; none for the submission of requests. `DataPath`: as `Flash`, and weak
fairness for each step of a request once it is submitted, reads included (the thread that queues
the reads either does so or faults on a location nobody filled in; `RequestsEnd` excepts a driver that has stopped).
`Pool`: weak fairness for a thread inside a call, strong for taking a mutex, since
the kernel's mutexes hand over to waiters (`MUTEX_FLAG_HANDOFF`).

**Timing assumption.** With `HostPreempted = FALSE` no timer fires while the
block layer's thread is between its critical sections: these are microseconds, a
command at least the transfer time of a page. `scheduler_two_chips` does without the
assumption; `scheduler_mutex` shows what goes wrong without it.
`CHECK_DEADLOCK FALSE` in both because a sleeping work item is the end. `DataPath` has the same
constant and its run the same assumption. Without it a read-modify-write whose
thread is held up while many commands pass can be looked up in a block that is
erased and written again before its read is sent: with three logical pages and four
blocks `ReadSourceIntact` fails. No document of the driver promises it, so
it is a hazard and not a finding.

**What a mutex finds.** The memory of a request is recycled with its mutex locked, or fresh from `kmalloc`
and anything. `FreshMutex` says how a mutex in fresh memory looks to a lock: "stale" (locked, the
caller sleeps for ever) or "free". With "free" a completion may lock it before `mutex_init` and
run on, as it may end, free and recycle the request; `scheduler_two_chips` and `scheduler_mutex` take this value (every
request but the first finds recycled memory there, so they have both cases); in `scheduler_one_chip` no completion comes before `mutex_init`, so
the value makes no difference. Not followed: what `mutex_init` does to a mutex that is held at that moment, and
a request that is submitted while the thread of the previous one, already freed, is still before `mutex_init`.

**Assumptions about memory.** After a copy has taken another's
sub-request nothing is certain. `recycle_one_chip` has `CopyOwnsItsSub` as a `CONSTRAINT`, which
cuts a behaviour at the first such copy, and the theorems have `[]CopyOwnsItsSub` as a hypothesis where
they need it: what they show is of executions in which every copy found none, as `Flash` and
`DataPath` assume of all of them. `Prompt` says that a work item
is not held up for the few instructions between releasing `usbssdMutex` and looking at
its command. No run assumes it; two theorems about any number of chips do (section 5). `DataPath` stops at `HostFaults`: the thread dies with
`usbssdListMutex` held. Its guard reads the map when the read is added, which is when it was
looked up unless the thread was held up. `Lifecycle` stops at a fault (a NULL or
freed pointer used), where the kernel would; that faults happen is said in section 4, the
properties say what holds besides. `CallsReturn` excepts a thread that has been given
the address of a failed allocation, for the same reason.
`CHECK_DEADLOCK FALSE` in `Pool` and `Recycle`, where the bound on objects
may leave nothing to do, in `Lifecycle`, which ends, in `DataPath`, where a full
plane is the end, and in `flash_refused_ppn`, where damaged tables may end in one.

## 4. Findings

With a run that shows them:

1. `flash_refused_ppn`: `get_PPN_Detail_USBSSD` (`command.c:800`) compares a *physical*
   page number with the number of *logical* pages. Pages of the last tenth are
   refused, the callers (`command.c:235`, `sub_request.c:56`) ignore the refusal, and
   an overwrite invalidates a location left over on the stack. A map entry
   whose `subPage` is not 0 then names a page that holds nothing, against
   `command.h:149-150`.
2. `scheduler_mutex`: `allocate_Request_USBSSD` calls `mutex_init` after it has
   handed the sub-requests to the chips (`request.c:116-122`), while the
   driver's load test does it before (`request.c:262`, `357`). Requests are recycled with the
   mutex locked, so a completion in the window sleeps for ever.
3. `recycle_stale_sub`: `for_erase` (`command.c:665-675`) "creates" a sub-request
   only if the recycled command has none; it has the one of its last user. The first
   collection after any user command meets this, so it is the most serious one:
   the copy and a user share a sub-request.
4. `datapath_hole_lost`: `send_write_command` (`command.c:31`) sends the first contiguous
   run of sectors; a page written in two pieces that do not touch loses the second,
   but its sectors are called valid (`command.h:48`, `149`).
5. `lifecycle_exit`: `USBSSD_exit` cancels no timer and flushes no work item, and frees what they use
   (`main.c:179`), while `allocate_command_USBSSD` does test for a driver that is gone
   (`command.c:759`), which nothing ever tells it.

To finding 2 belongs that the sleeper was also going to send the next command: what is queued behind it then lies
there with the channel free until somebody else passes `allocate_command_USBSSD`. `LostOnlyToSleepers` says that this is
the only way to lose a wake-up.

Deviations met while modelling, which no run shows:

6. `recv_signal_back` uses a command after it has released the mutex (`command.c:361-377`),
   and `for_erase` may have deleted it (`command.c:657`). While the work item of one chip is held up
   there, its copy command is freed and taken for a user of another chip, and the work item then ends
   that user's command while its chip still executes it. It needs a second chip, and the shipped device has one,
   where the property holds (`recycle_one_chip`, theorem `EndsWhatItTook`); `EndsOwnCommand` fails as soon as `Chips` of that run has two.
7. `allocate_USBSSD` adds the offset to NULL before it
   tests it (`allocator.c:20`, `22`): a thread of `Pool` that has taken `KmallocFails`
   is past the test.
8. `destory_USBSSD` reads through what it tests for NULL
   later (`command.c:1087`, `1098`); the labels of `USBSSD_init` end in `del_gendisk` of a
   disk that does not exist (`main.c:165`, `98`), or undo nothing if `register_blkdev`
   fails (`main.c:130`); `init_Simulate_USBSSD` succeeds without channels
   (`simulateNAND.c:289`, `291`). In `Lifecycle` these are the actions that set `fault`.
9. A read of a page that was never written goes to the location of a map
   entry that is invalid (`command.h:149`); `setup_USBSSD` never set its page number, and when that is refused
   the location is what memory held, used as an index (`sub_request.c:56`, `command.c:829`). In `DataPath` this is `HostFaults`.
10. `get_end_CMD` takes the ID as an `int` (`command.c:124`); the
   2^31st command is not found (theorem `LargeIDsAreLost`).
11. `update_Map_and_invilate_page` with a refused page number may use a location that is no place of the device;
   `get_PPN_Detail` follows the cases where it is one (finding 1).

Hazards without a property have a note in `PROJECT.json`.

## 5. The proofs

All proofs are checked by `tlapm`; they assume only `GeometryAssumption` (all counts
and `RESERVE_RATE` are positive), `FlashAssumption` (`GC_RATE` positive, some
sector, and the host writes some logical pages, all below `mapSize`), `NANDAssumption`
(a chip at least), `SchedulerAssumption` (a page at least, and the hardware knows
the names of the driver's commands and addresses), `RecycleAssumption` (memory is
finite, and an object is neither NULL nor garbage), `PoolAssumption` (the same of its objects) and `DataPathAssumption`
(a request has at least one sector, and sectors are numbered from 0) and `LifecycleAssumption`
(every part of the tree has children).

* `GeometryProofs`. `NumberRoundTrip` and `LocationRoundTrip`: page numbering is a
  bijection between locations and `0..PageCount-1`. The proof peels off one
  coordinate at a time, with `Split` (a number below `b * n` is a pair of digits),
  `Compose` and `DivMod` (and back).
* `SetupProofs`, of the geometry. `PPNRoundTrip` and
  `AnnouncedIsMapped` (the map has an entry for every whole page of sectors the disk announces) for every geometry and reserve, and `PlanesKeepRoom` for planes of
  `RESERVE_RATE` pages or more (16384 against 10 as shipped): with fewer a reserve
  below a page per plane is rounded away. `PlacementIsFair` says that two logical pages of one plane
  differ in their quotient by the number of planes, so a plane has no more of them than quotients.
* `SetupProofs`, of `Lifecycle`: `EndsClean`, `FreedOnce`, `TreeIsWhole`, `MemcheckTells` for any
  shape of the tree, any growth of the pools, any number of failures and chips at work throughout, and `SafeWhileDisk`
  (after `del_gendisk`, finding 5). The inductive invariant `LifeInv` is a table of
  the stages: what is certainly allocated when a stage is reached (`Owned`), so that a
  label frees nothing twice; what is certainly gone (`Gone`), so that nothing is left at the end;
  what is still registered (`Registered`); where a chip may be at work (`Busy`); and that the counter
  counts (`Counted`), for which all that can be allocated must be finite (`MemoryIsFinite`, level by
  level of the recursive function `Level`). `Gone` alone says nothing of a ladder that frees too
  early, `Owned` nothing of one that frees too little.
* `FlashProofs`. `TypeCorrect`, `EndsWhatItFinds` and `ProgramsInOrder`:
  `TypeOK`, `QueuesMatchChip` and `WriteFrontier` are invariants of `Flash`, for any
  device, **with or without** the refusals of `get_PPN_Detail_USBSSD` (whatever
  location it leaves, only states and counters of valid pages are damaged).
  The inductive invariant is `IInv`: the three properties and three more facts.
  `FreeIsUnwritten` ties `freePageCount`, by which the code decides that a
  block is full or free, to `startWrite`, by which it chooses the page; without it a
  "free" block might not be blank. `OnOwnChip` and `CopyInPlace` keep a chip's
  commands on the chip's planes; without them the completion of one chip could
  store data where another is erasing. Layout: `WriteFrontierParts` splits the
  invariant into blocks and pages; `AllocateKeepsOrder`, `UpdateKeepsOrder` and
  `EraseKeepsOrder` say what the three operations on the tables do to it;
  `OneChipSteps` and `TablesKept` carry over what a step leaves alone; then one
  lemma per action, and `NextKeepsIInv`. TLC found `IInv` to hold on the instance of
  `flash_two_planes` and on one with two chips.
* The second part of `FlashProofs`. `SpinsOnlyWithoutRoom`: the search for a free block hangs only in a
  plane without a free page (`SpinsOnlyWhenFull`); it follows from `IInv`. The others,
  `MapAgrees`, `AllCounted`, `SafeErase`, `CurrentCopy` and `CollectionIsInvisible`, say
  that `MapAndPagesAgree`, `CountersAgree`, `EraseIsSafe`, `CopyIsCurrent` and `CollectionKeepsMap` hold of every behaviour in which
  no mapped page has a number that `get_PPN_Detail_USBSSD` refuses
  (`Spec /\ []NoneRefused`), for any device. Without the hypothesis they are false:
  finding 1. It holds while the pages in use are below `mapSize`, and
  `WithoutRefusals` discharges it where `mapSize` reaches the number of pages, as in
  the passing runs. The inductive invariant is `CInv`: the map and the tables agree
  (`DataOK`), and each chip is somewhere in the course of a collection (`ChipOK`). Its
  parts need one another. An erase is safe because the pages of the victim before
  `EPage` are blank (`VictimOK`) and stay so, as nothing is programmed during a
  collection but its copies, into another block (`WriteOK`, `PhaseOK`); a copy is
  current because nothing else on the chip runs between its read and its write
  (`PhaseOK`); an overwrite invalidates the one page that held the sectors because the
  map names that page and no other (`LiveIsMapped`); and the victim is full because
  only full blocks are taken and the census says so (`BlocksAgree`). There is one lemma
  per action, and `StartKeepsCInv`, `OneChipSteps` and their like carry over what a step leaves
  alone. TLC found `CInv` to hold on the instance of `flash_two_planes`, on two chips,
  and on one plane of four blocks with `GC_RATE = 2` (3 million states).
  `AllCounted` goes from the blocks (`BlocksAgree`, part of `CInv`) to planes, dies, chips and
  channels: the driver never sums, it adds to and takes from five counters at a time. `UnitsAgree` says
  that a counter is the sum over the blocks below; a step changes the counters of one block
  and those of the units above it by as much (`SumFollows`, `ShiftKeepsUnits`). An erase adds
  the pages of a block to the free pages and takes them from the invalid ones, which is right because the victim has
  no valid page left. Sums are folds over sets; `PartSums` gives them the two equations the proofs use.
* The last part of `FlashProofs`, about room. `SearchAlwaysEnds`: `NeverSpins`, under `EnoughRoom`
  (section 3) and `NoneRefused`. `ShippedHasRoom` shows that the numbers of `setup_USBSSD` and `command.h`
  meet `EnoughRoom`; `RequestsFindRoom` of `DataPathProofs` carries the theorem over to the requests.
  Once a block's worth of a plane or less is free, all of it is in the active
  block and every other block is full (`PlaneNearlyFull`). If none of those had two invalid
  pages the host would have at least `(blockOfPlane-1)(pageOfBlock-1)` logical pages there: disjoint
  sets of pages are counted (`CountOfDisjoint`), and pages with data hold different
  logical pages (`HeldPages`), which is `LiveIsMapped` of `CInv`. So there is a block to collect, and one
  that gives two pages when the plane is that short (`VictimExists`). The inductive invariant is
  `RoomInv`. `RoomIn` keeps the account of a plane: outside a collection more than a block's worth is free,
  but for the page the host took since `check_and_create_gc` last looked (`Owed`); in a collection, but
  for the invalid pages of its block, each copy spending a free page and
  making one invalid. That one page at most is owed is the work item's doing: it does not run again
  before it has looked (`OneToCheck`). `LastAllocated` places the page being programmed, which no block
  counts as invalid and which holds nothing yet. TLC found `RoomInv` to hold on the instance of
  `flash_two_planes`, and on one plane of four blocks of two pages, with `GC_RATE = 4` too.
* `ListProofs`. Sequences without repetition, as the lists of the driver are: what is in one
  after its head or a member has been taken (`TailContains`, `RemoveAtContains`) or
  another has been put behind it (`ConcatContains`), and what `add_subReqs_to_chip` picks
  (`PickedContains`). `SchedulerProofs` and `DataPathProofs` rest on them, and all inductions
  over a length on `LeastNumber`.
* `DataPathProofs`. `DataPathImplementsFlash`: the requests of the host drive the tables as
  `Flash` says (`IsFlash`), whenever no mapped page is refused; `DataTypeCorrect`: `DataTypeOK`;
  `SubsInOnePlace`; `TablesUnderRequests`: what the second part of `FlashProofs` shows of
  `Flash` holds of `DataPath`; `DataPathWithoutRefusals`: the instances in which nothing is
  refused need no hypothesis. `Flash` lets the host write a page only if the write covers every
  sector stored of it. The code decides what to read beforehand in `allocate_Request_USBSSD`,
  against the map of that moment, and sends the write much later. So the core of the
  inductive invariant `DInv` is `CoversStored`: a write that is not yet sent covers, together
  with the read it waits for, what the map says *now*. It is kept because only the
  write itself changes what is stored of its page: copies move a page as it is
  (`OnlyUsersChange`, from `CInv` of `FlashProofs`), and a second sub-request of the page
  would be in two places (`OnePlace`, `NotTwice`). `MainsPlace` and `RMWsPlace` say
  which places a sub-request goes through, so that what a completion ends belongs to the request
  being served; `WaitsInList`, that a write that waits is still in its list, so that the end
  of its read merges into a write that has not been sent; `RequestOK` ties the thread to its request.
  Layout: `MoveKeeps` (one sub-request goes on to its next place) and `StayKeeps`, then one lemma per
  action, `DataStepIsFlashStep`, `DataInvariance`. TLC found `DInv` to hold on the
  instance of `datapath_two_pages`, and in 1.6 million states of one of two chips.
* The second part of `DataPathProofs`, about the bytes: `WrittenIsStored` (`KeptIsWritten`),
  `ReadsFindTheirBytes` (`ReadSourceIntact`) and `DriverIsDisk` (`IsDisk`), for any device, any
  request, any number of sectors per page and any holes. They are of the behaviours in which
  no mapped page is refused; the last two
  assume `HostPreempted = FALSE`, without which `ReadSourceIntact` fails (section 3).
  `BytesWithoutRefusals` discharges the first hypothesis for a `mapSize`
  that reaches the number of pages: the instances of the runs, of any size. A hole forgets what is behind it, and
  filling it does not bring it back; so everything is said of the sectors before the first hole of a page
  (`FirstRun`), of what is stored, copied, read and merged alike, and `FirstRun` of a larger set agrees with that of a
  smaller one only as far as the latter goes. Three invariants on top of `CInv` and `DInv`:
  - `BInv`. A copy has the bytes of the page it is of, in its buffer and then at the frontier
    (`CopiesOK`); a write has put the bytes of its buffer where it was sent (`WriteBytes`), and once
    it has ended the map names that place (`EndedBytes`). So the end of a write is the only step
    after which a sector holds something else (`ContentMoves`), and only a sector of its page.
  - `SourceOK`. A read is sent to the place that the map gave when the request arrived.
    That place is in one of three conditions (`SourceKept`): the map still names it; or it is in the
    block that the collection of its plane is to erase, whose bytes are there till the
    next write; or that block has been erased, and nothing has been written since because the read
    goes before every write of its chip. The last is where the timing assumption is needed:
    a read that does not hang on its chip yet goes before nothing.
  - `EInv`. What the buffers of a request hold: a read that was made has what is stored
    (`FetchedOK`); a write that waits has the sectors of the request (`WaitMaps`), and one that waits
    no more has them and around them what is stored (`MergedOK`).

  `DriverIsDisk` maps a submission to `Submit` of `Disk`, the end of the command of a page to `Serve` of its
  sectors, the last `subRequest_End` to `End`, and every other step (collection,
  reads of a read-modify-write, lists, work items) to a stutter: one lemma each, joined in `StepIsDiskStep`.
  TLC found `BInv`, `SourceOK` and `EInv` to hold on the instance of `datapath_two_pages`.
* `SchedulerProofs`. The safety properties of the two scheduler runs, for any number of
  chips, pages of a request and pages a collection copies: `SchedulerTypes`, `HardwareAcceptsAll`,
  `CountIsRight`, `SignalsMatchCommands`, `NoneLost`, `ReadsFirst`, `NobodyForgets` (`LostOnlyToSleepers`) and
  `StaleMutexOnlyInWindow` (`StaleOnlyInWindow`), with the submitting thread held up or not; `NobodyForgetsInTime`
  (`NoLostWakeup`) where it is not (otherwise finding 2); and `DriverImplementsBlockDevice`, the refinement of `BlockDevice` without its
  fairness. The inductive invariant is `SInv`, and none of the properties is inductive
  without the others. The hardware refuses nothing (`NeverRefused`) because its state
  follows from the driver's (`HardwareFollows`), which holds only while one signal per chip
  is on its way (`OneSignal`); the signal finds its command because the chip carries that
  command alone, in the queue its state names (`Carries`); that a copy that ends is
  the one `for_erase` waits for is `CopyIsErases`. The count is right because what ends is pending,
  and it is pending because a sub-request is in one place (`InOnePlace`), no list has it
  twice (`NotTwice`), and a write that waits for its read is in the write list only
  (`RelatedOK`). Layout: where a sub-request is
  after one has been taken, added or ended (`Placed`, `OneMoves`, `AddsPlaces`, `EndPlaces`);
  `AllocateKeeps` for `allocate_command_USBSSD`, which three threads call, and one lemma per
  action; `NextKeeps`. `NobodyForgets` needs `Watched`, which follows from `AllocateSends` (who looks
  for a command leaves none that could be sent); `NobodyForgetsInTime` adds that nobody sleeps (`NoSleeper`, from `Prompt`: a command of
  the host is not over before its mutex is ready). TLC found `SInv` to
  hold on the instances of both scheduler runs, `Prompt` on that of `scheduler_one_chip`.
* `RecycleProofs`. `NothingFreedTwice` and `ErasesAloneLeak`: the
  properties of `recycle_one_chip` for any number of chips, commands and sub-requests, under
  a timing assumption (`ASSUME Prompt`) and of the behaviours in which no copy has another's sub-request
  (`[]CopyOwnsItsSub`; finding 3 otherwise). `EndsWhatItTook`: `EndsOwnCommand` for a device of one chip, with neither
  assumption (with two chips, deviation 6). Its invariant is `OneChipInv`: while the one work item
  is between unlocking and looking, a copy it has taken may be freed, but only by a dispatch that starts the
  erase, and then the chip is busy and nobody takes the command from the pool for a user.
  `RInv` says who holds what. A command that serves a user is held by exactly one chip, which
  runs it, or by exactly one work item, which ends it (`CommandsHeld`): so it is freed once,
  and is not in the pool before. Between the end of its sub-request and its own return to the pool
  the command still names a sub-request that may be another's by then; so what is said of
  sub-requests (`SubsHeld`) is said of `Active` commands only. The free lists are sequences
  without repetition: `Taken`, `Put` and `Listed` say what allocating and freeing do to
  one. TLC found `OneChipInv` to hold on the instance of `recycle_one_chip`,
  `RInv` on the same with two chips and `Prompt = TRUE` (86 thousand states).
* The last part of `SchedulerProofs`, about `Signals`. `SignalFindsItsCommand`: a signal for
  one of the first 2^31 commands stops `get_end_CMD` at that command and nowhere else, in a
  queue of any length; `LargeIDsAreLost`: the next 2^31 are found in no queue. Both go through
  `Modulo`, what a conversion to an unsigned type does. `Scheduler` takes IDs for identities,
  as the first theorem allows.
* `PoolProofs`. `ObjectsHaveOneHolder` and `UsedLinksInverse`: `OneHolder` and `LinksAreInverse`
  for any number of threads and objects, kmalloc failing or not. `SearchNeverEmpty`: the early
  return of `free_USBSSD` for an empty list is never taken (so the guard `iter[t] # NULL` of `Unlink`
  cuts nothing off). The inductive invariant `PInv` says that there are two sequences without
  repetition which `next` runs through from `freeHead` and `usedHead` (`Linked`), that `pre` runs
  back through the used one (`LinkedBack`), and that a function `where` gives each object its one
  place (`PlacedIn`); `OwnObjects`, that no two threads are about one object. It
  says nothing of `iter` or the mutex: what is unlinked is the object itself, wherever the
  search has ended. `pre` is not said to run back through the free list, where nobody reads
  it. Layout: what taking the head (`TakeFirst`), an inner object (`TakeInner`) or putting one
  in front (`PutFirst`) makes of a linked list; where objects are after a step (`ObjectMoves`);
  one lemma per action; and `ChainOfList`, by which the properties, which follow `next` step by step,
  are about the sequences.

Only model-checked: liveness (`CollectionEnds`, `RequestsEnd`, `CallsReturn`, the liveness of
`KeepsPromise`), which is out of the prover's reach. Every safety property of the
passing runs is stated by a theorem. The theorems named above with a hypothesis
on the behaviour (`NoneRefused`, `CopyOwnsItsSub`) say nothing of the others, in which the
properties do fail (findings 1 and 3).

## 6. Not modelled, and the plan

The plan:

1. Proofs: `EnoughRoom` from `RESERVE_RATE` for devices of several planes, by `PlacementIsFair`.
2. `Flash` and `Scheduler` joined: `Scheduler` implements the command cycle of
   `Flash` for one chip (the erase of one is the collection of the other).

Not modelled: the load tests (never called) and `test.c`; the error path of
`allocate_Request_USBSSD`, which is not reached (the pool never returns NULL, and
no announced sector is refused, `AnnouncedIsMapped`); `alloc_pages` and the chunks
it returns; the branch of `add_subReqs_to_chip` for a write list whose tail was taken, which one request at a
time (`queue_depth = 1`) never reaches; requests of a partition scan inside `add_disk`, which are those of the stage "running";
the rules of kernel contexts (the timer callbacks take mutexes, which softirq code
must not, and which no one initialises); logging.
