------------------------------ MODULE Lifecycle ------------------------------
(***************************************************************************)
(* Loading and unloading the module: the init and destory functions of      *)
(* main.c, request.c, sub_request.c, command.c, allocator.c and             *)
(* simulateNAND.c, the ladder of labels of USBSSD_init, with any kmalloc or *)
(* registration failing, and memCheck.c, which counts allocations.          *)
(*                                                                          *)
(* Memory is a set of named blocks <<kind, name>>.  A function of the ladder*)
(* is one step: nothing else touches what it builds.  Beside the unloading  *)
(* goes the work of the chips, which del_gendisk does not wait for: the     *)
(* collections, and what recv_signal_back still does when the block layer   *)
(* has been told that the request is over.                                  *)
(***************************************************************************)
EXTENDS Integers, Sequences, FiniteSets, FiniteSetsExt

CONSTANTS
  Fanout,      \* children of usbssd, a channel, a chip, a die, a plane, a block
  MaxFailures, \* bound: how many allocations and registrations fail
  MaxObjects   \* bound: sub-requests and commands that exist at one time

ASSUME LifecycleAssumption ==
  /\ Fanout \in Seq(Nat \ {0}) /\ Len(Fanout) = 6
  /\ MaxFailures \in Nat /\ MaxObjects \in Nat \ {0}

VARIABLES
  stage,      \* the function or label USBSSD_init or USBSSD_exit comes to next
  alive,      \* the blocks of memory allocated and not freed
  v,          \* memCheck's counter
  registered, \* with the block layer
  failures,   \* how many calls have failed
  pending,    \* the block layer waits for a request (queue_depth is 1)
  working,    \* timers and work items of a chip have something left to do
  fault       \* what used memory it must not, or "none"

lifeVars == <<stage, alive, v, registered, failures, pending, working, fault>>

-----------------------------------------------------------------------------
(* Memory.                                                                 *)

\* The nodes of the tree under usbssd, by depth: usbssd is <<>>, then channels,
\* chips, dies, planes, blocks and pages.  All but a page have an array of
\* pointers to their children.
Level[k \in 0..6] ==
  IF k = 0 THEN {<<>>} ELSE {Append(p, i) : p \in Level[k-1], i \in 1..Fanout[k]}

Node(p)  == <<"node", p>>
Array(p) == <<"array", p>>
Nodes  == UNION {Level[k] : k \in 0..6}
Inner  == UNION {Level[k] : k \in 0..5}
Map    == <<"map", <<>>>>
Tree   == {Node(p) : p \in Nodes} \cup {Array(p) : p \in Inner}

\* What must have been allocated before b is tried.
Above(b) ==
  LET p == b[2] Prefixes == {SubSeq(p, 1, k) : k \in 0..(Len(p)-1)}
  IN  {Node(q) : q \in Prefixes} \cup {Array(q) : q \in Prefixes}
        \cup (IF b[1] = "array" THEN {Node(p)} ELSE {})

Pools == {"request", "subrequest", "command"}
Allocator(pool) == <<"allocator", pool>>
Object(pool, i) == <<"object", <<pool, i>>>>
PoolBlocks(pool) == {Allocator(pool)} \cup {Object(pool, i) : i \in 1..MaxObjects}

\* The simulated hardware, each part reached through the one before it (one
\* channel, one chip: their loops do the same for every one).
HWPart == <<"ssd", "channels", "channel", "chips", "chip", "pages">>
HW(i) == <<"hardware", HWPart[i]>>
Hardware == {HW(i) : i \in 1..6}

Memory == Tree \cup {Map} \cup Hardware \cup UNION {PoolBlocks(p) : p \in Pools}

\* The ways the allocations of S can fail.
Failing(S) == UNION {kSubset(k, S) : k \in 0..Min({MaxFailures - failures, Cardinality(S)})}

-----------------------------------------------------------------------------
LifeInit ==
  /\ stage = "init_Request" /\ alive = {} /\ v = 0 /\ registered = {}
  /\ failures = 0 /\ pending = FALSE /\ working = FALSE /\ fault = "none"

Go(s) == stage' = s
Outside == UNCHANGED <<registered, pending, working>>

Fault(f) == fault' = f /\ UNCHANGED <<stage, alive, v>>

\* Variant: the counter is not atomic and an increment may be lost.
Kmalloc_loses_one(tried, failed) ==
  /\ alive' = alive \cup (tried \ failed) /\ v' \in {v + Cardinality(tried) - 1, v + Cardinality(tried)}
  /\ failures' = failures + Cardinality(failed)

\* kmalloc_wrap counts before it knows whether there is memory; kfree_wrap
\* counts down for NULL too.
Kmalloc(tried, failed) ==
  /\ alive' = alive \cup (tried \ failed) /\ v' = v + Cardinality(tried)
  /\ failures' = failures + Cardinality(failed)
Kfree(S, nulls) ==
  IF S \subseteq alive
  THEN alive' = alive \ S /\ v' = v - Cardinality(S) - nulls /\ UNCHANGED fault
  ELSE fault' = "double free" /\ UNCHANGED <<alive, v>>

-----------------------------------------------------------------------------
(* USBSSD_init.                                                            *)

\* init_Request_USBSSD and init_SubRequest_USBSSD.
InitPool(at, pool, next, label) ==
  /\ stage = at
  /\ \E F \in Failing({Allocator(pool)}) :
       Kmalloc({Allocator(pool)}, F) /\ Go(IF F = {} THEN next ELSE label)
  /\ UNCHANGED fault /\ Outside

InitRequest    == InitPool("init_Request", "request", "init_SubRequest", "err3")
InitSubRequest == InitPool("init_SubRequest", "subrequest", "init_Command", "err4")

\* destory_USBSSD of a tree of which only "got" is there.  Its first loop prints
\* the first read of every chip before anything is looked at for NULL.
ReadsNull(got) ==
  /\ Array(<<>>) \in got
  /\ \E p \in Level[2] : ~ {Node(<<p[1]>>), Array(<<p[1]>>), Node(p)} \subseteq got
\* The lists of a chip whose dieInfos failed are whatever memory held.
ReadsGarbage(got) == Array(<<>>) \in got /\ \E p \in Level[2] : Array(p) \notin got

\* A node whose array is missing: kfree_wrap is given the array, NULL; a channel
\* is freed itself.
Orphans(got) ==
  {Node(p) : p \in {q \in UNION {Level[k] : k \in 2..5} : Node(q) \in got /\ Array(q) \notin got}}

\* setup_USBSSD goes on after a failure, below what it has, and then undoes it.
\* Without usbssd it returns at once (with the four mutexes locked).
Setup(F) ==
  {b \in Tree \cup {Map} : IF b = Map THEN Node(<<>>) \notin F ELSE Above(b) \cap F = {}}

\* Variant: the flag is not set for a page.
Fails_but_pages(F) == F \ {Node(p) : p \in Level[6]} # {}

\* The flag of setup_USBSSD.
Fails(F) == F # {}

InitCommand ==
  /\ stage = "init_Command"
  /\ \E F \in Failing(Tree \cup {Map, Allocator("command")}) :
       LET pool == Allocator("command")
           tried == IF pool \in F THEN {} ELSE Setup(F)
           got == tried \ F
           left == IF Node(<<>>) \in F THEN {} ELSE Orphans(got)
           freed == (got \ left) \cup {pool}
       IN  /\ F \subseteq tried \cup {pool}
           /\ \/ /\ ~ Fails(F) \/ pool \in F
                 /\ Kmalloc(tried \cup {pool}, F)
                 /\ Go(IF Fails(F) THEN "err5" ELSE "init_Simulate") /\ UNCHANGED fault
              \/ /\ Fails(F) /\ pool \notin F /\ ~ ReadsNull(got)
                 /\ alive' = alive \cup left
                 /\ v' = v + Cardinality(tried \cup {pool}) - Cardinality(freed) - Cardinality(left)
                 /\ failures' = failures + Cardinality(F)
                 /\ Go("err5") /\ UNCHANGED fault
              \/ /\ Fails(F) /\ pool \notin F /\ (ReadsNull(got) \/ ReadsGarbage(got))
                 /\ failures' = failures + Cardinality(F)
                 /\ Fault("destory_USBSSD")
  /\ Outside

\* init_Simulate_USBSSD.  Nothing is said of a failure of channels; a chip
\* without pages is written to.
InitSimulate ==
  /\ stage = "init_Simulate"
  /\ \E f \in 1..7 :
       LET tried == {HW(i) : i \in 1..Min({f, 6})}
           failed == IF f = 7 THEN {} ELSE {HW(f)}
       IN  /\ f = 7 \/ failures < MaxFailures
           /\ \/ /\ f \in {1, 2, 7}
                 /\ Kmalloc(tried, failed)
                 /\ Go(IF f = 1 THEN "err6" ELSE "register_blkdev") /\ UNCHANGED fault
              \/ /\ f \in {3, 4, 5}
                 /\ v' = v + 1 /\ failures' = failures + 1
                 /\ Go("err6") /\ UNCHANGED <<alive, fault>>
              \/ f = 6 /\ failures' = failures + 1 /\ Fault("init_Simulate")
  /\ Outside

\* register_blkdev, blk_mq_alloc_tag_set and USBSSD_register_disk.
Register(at, what, next, label) ==
  /\ stage = at
  /\ \/ Go(next) /\ registered' = registered \cup {what} /\ UNCHANGED failures
     \/ failures < MaxFailures /\ Go(label) /\ failures' = failures + 1 /\ UNCHANGED registered
  /\ UNCHANGED <<alive, v, pending, working, fault>>

RegisterBlkdev == Register("register_blkdev", "blkdev", "alloc_tag_set", "failed")
AllocTagSet    == Register("alloc_tag_set", "tag_set", "register_disk", "err1")
RegisterDisk   == Register("register_disk", "disk", "running", "err2")

-----------------------------------------------------------------------------
(* The destory functions, and the labels that fall through them.           *)

Unregister(at, what, next) ==
  /\ stage = at /\ Go(next) /\ registered' = registered \ {what}
  /\ UNCHANGED <<alive, v, failures, pending, working, fault>>

\* destory_allocator_USBSSD frees the objects of both lists.
PoolOf(pool) == {Allocator(pool)} \cup (PoolBlocks(pool) \cap alive)
Destroy(at, blocks, next) ==
  /\ stage = at /\ Go(next) /\ Kfree(blocks, 0) /\ UNCHANGED failures /\ Outside

\* Variant: the map is forgotten.
DestroyCommand_but_map == Tree \cup PoolOf("command")

DestroyCommand == Tree \cup {Map} \cup PoolOf("command")
\* destory_Simulate_USBSSD does test what is there.
DestroySimulate == {HW(1)} \cup (Hardware \cap alive)

Err2 == Unregister("err2", "tag_set", "err1")
Err1 == Unregister("err1", "blkdev", "err6")
Err6 == Destroy("err6", DestroyCommand, "err5")
\* Variant: the label undoes what init_Command_USBSSD has undone itself.
Err5_and_command == Destroy("err5", {Allocator("command")} \cup PoolOf("subrequest"), "err4")

Err5 == Destroy("err5", PoolOf("subrequest"), "err4")
Err4 == Destroy("err4", PoolOf("request"), "err3")
\* del_gendisk and put_disk of USBSSD_gendisk: NULL, as USBSSD_register_disk sets
\* it only for a disk it keeps, and then nothing comes here.
Err3 == stage = "err3" /\ UNCHANGED failures /\ Outside /\ Fault("del_gendisk")

-----------------------------------------------------------------------------
(* Running, as far as memory goes.                                         *)

\* Objects taken from a pool come from its free list until that is empty.
Take(needed) ==
  LET new == needed \ alive
  IN  \/ Kmalloc(new, {}) /\ UNCHANGED <<fault, stage>>
      \/ /\ new # {} /\ failures < MaxFailures
         /\ failures' = failures + 1 /\ Fault("allocate_USBSSD")

Submit ==
  /\ stage \in {"running", "del_gendisk"} /\ ~ pending
  /\ pending' = TRUE /\ working' = TRUE /\ UNCHANGED registered
  /\ \E subs \in 1..MaxObjects : \E commands \in 1..subs :
       LET needed == {Object("request", 1)} \cup {Object("subrequest", i) : i \in 1..subs}
                       \cup {Object("command", i) : i \in 1..commands}
       IN  IF Hardware \subseteq alive THEN Take(needed)
           ELSE Fault("send_cmd_2_NAND") /\ UNCHANGED failures

\* req_end: the block layer has its answer, recv_signal_back goes on.
RequestEnds ==
  /\ pending /\ pending' = FALSE
  /\ UNCHANGED <<stage, alive, v, registered, failures, working, fault>>

\* A timer or work item of a chip: it uses the hardware, the tree and the pools,
\* takes a command for an erase and its copy, or has nothing more to do.
InUse == Hardware \cup Tree \cup {Map} \cup {Allocator(p) : p \in Pools}
ChipWorks ==
  /\ working /\ UNCHANGED <<registered, pending>>
  /\ IF InUse \subseteq alive
     THEN \/ \E n \in 1..MaxObjects :
               /\ Take({Object("command", i) : i \in 1..n} \cup {Object("subrequest", 1)})
               /\ UNCHANGED working
          \/ ~ pending /\ working' = FALSE /\ UNCHANGED <<stage, alive, v, failures, fault>>
     ELSE Fault("use after free") /\ UNCHANGED <<failures, working>>

-----------------------------------------------------------------------------
(* USBSSD_exit.  Nothing cancels a timer or waits for a work item.         *)

\* Variant: the hardware is freed first.
Unload_frees_hardware ==
  /\ stage = "running" /\ Go("del_gendisk") /\ registered' = registered \ {"blkdev"}
  /\ Kfree(DestroySimulate, 0) /\ UNCHANGED <<failures, pending, working>>

Unload == Unregister("running", "blkdev", "del_gendisk")
\* del_gendisk waits for the block layer's request, not for the chips.
DelGendisk == ~ pending /\ Unregister("del_gendisk", "disk", "free_tag_set")
FreeTagSet == Unregister("free_tag_set", "tag_set", "destory_Simulate")
DestorySimulate   == Destroy("destory_Simulate", DestroySimulate, "destory_Command")
DestoryCommand    == Destroy("destory_Command", DestroyCommand, "destory_SubRequest")
DestorySubRequest == Destroy("destory_SubRequest", PoolOf("subrequest"), "destory_Request")
DestoryRequest    == Destroy("destory_Request", PoolOf("request"), "out")

LifeNext ==
  /\ fault = "none"
  /\ \/ InitRequest \/ InitSubRequest \/ InitCommand \/ InitSimulate
     \/ RegisterBlkdev \/ AllocTagSet \/ RegisterDisk
     \/ Err2 \/ Err1 \/ Err6 \/ Err5 \/ Err4 \/ Err3
     \/ Submit \/ RequestEnds \/ ChipWorks
     \/ Unload \/ DelGendisk \/ FreeTagSet
     \/ DestorySimulate \/ DestoryCommand \/ DestorySubRequest \/ DestoryRequest

LifeSpec == LifeInit /\ [][LifeNext]_lifeVars
-----------------------------------------------------------------------------
(* Properties.                                                             *)

\* Unloading a module that could be loaded gives back everything: all memory,
\* whatever the pools grew to, and all registrations (USBSSD_exit, main.c:172).
EndsClean == stage = "out" => alive = {} /\ registered = {}

\* get_kmalloc_count never says less than is allocated, and says exactly that
\* as long as no allocation failed: "end memcheck 0" means that nothing leaked
\* (memCheck.c, kfree_wrap of NULL and the count of failed calls).
MemcheckTells ==
  /\ fault = "none" => v >= Cardinality(alive)
  /\ failures = 0 => v = Cardinality(alive)

\* Whatever fails, no label of USBSSD_init and no destory function frees what
\* another one, or a set-up that undid itself, has freed (main.c:154-167).
FreedOnce == fault # "double free"

\* When init_Command_USBSSD has reported success every table of the tree is
\* there, down to the last page, and the map: the one flag setup_USBSSD keeps
\* while it goes on after failures misses none (command.c:911-1059).
TreeIsWhole ==
  stage \in {"init_Simulate", "register_blkdev", "alloc_tag_set", "register_disk", "running",
             "del_gendisk", "free_tag_set", "destory_Simulate", "destory_Command"}
    => Tree \cup {Map} \subseteq alive

\* Nothing the driver has set going runs on memory the exit has freed: what
\* allocate_command_USBSSD's test of allocator and usbssd is for (command.c:759).
\* Fails: nothing clears them, and nothing waits for a timer or a work item.
WorkIsSafe == fault # "use after free"

\* What is true: until del_gendisk has returned, nothing the driver has set going
\* misses memory it uses.  USBSSD_exit takes the disk away before the hardware, the
\* tree and the pools (main.c:174-181).
SafeWhileDisk == stage \in {"running", "del_gendisk"} => fault # "use after free"
=============================================================================
