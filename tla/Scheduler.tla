------------------------------ MODULE Scheduler ------------------------------
(***************************************************************************)
(* The threads of the driver around the queues of src/src/command.c, on    *)
(* one channel: the block layer's thread that splits a request and hands   *)
(* its sub-requests to the chips (request.c, sub_request.c), the timers of *)
(* the hardware (NAND), the work item of the channel and that of each      *)
(* chip.  Channels share nothing but usbssdMutex.                          *)
(*                                                                         *)
(* One action is one critical section, or the code between two.  The flash *)
(* tables are in Flash: here garbage collection starts after any write and *)
(* finds any number of pages to copy.  The block layer has one request out *)
(* at a time (tag_set.queue_depth = 1).                                    *)
(***************************************************************************)
EXTENDS Lists, NAND, FiniteSets, Sequences, SequencesExt

CONSTANTS
  MaxPages,     \* pages of the longest request
  MaxCopies,    \* pages garbage collection copies out of a block at most
  FreshMutex,   \* what a lock of a mutex in memory from kmalloc finds: see subMutex
  HostPreempted \* TRUE: the block layer's thread may be held up, between its
                \* critical sections, for longer than a command takes

Pages == 1..MaxPages
Main(k) == <<"main", k>>  \* the SubRequest of page k of the request,
RMW(k)  == <<"rmw", k>>   \* and the read of what a write does not cover
Subs == {Main(k) : k \in Pages} \cup {RMW(k) : k \in Pages}
Copy(c, n, op) == <<"copy", c, n, op>>  \* relocation of the n-th last page
Erase(c) == <<"erase", c>>
NoSub == <<"none", 0>>

CommandIDs == Subs \cup {Erase(c) : c \in Chips}
              \cup {Copy(c, n, op) : c \in Chips, n \in 0..MaxCopies, op \in {"READ", "WRITE"}}
CommandAddresses == Subs \cup {Erase(c) : c \in Chips}
                    \cup {<<"page", c, n>> : c \in Chips, n \in 0..MaxCopies}

ASSUME SchedulerAssumption ==
  /\ MaxPages \in Nat \ {0} /\ MaxCopies \in Nat /\ HostPreempted \in BOOLEAN
  /\ FreshMutex \in {"stale", "free"}
  /\ CommandIDs \subseteq IDs /\ CommandAddresses \subseteq Addresses

VARIABLES
  \* Request_USBSSD and its SubRequest_USBSSDs
  operation,        \* of the request
  chipOf,           \* the chip of each page of the request
  relatedSub,       \* of each sub-request
  pending,          \* the sub-requests that have not ended
  restSubreqCount,
  subMutex,         \* what a lock of it finds: "free", or "stale", locked for ever,
                    \*   as request_May_End leaves it in the request it frees
  \* Chip_USBSSD and Channle_USBSSD
  channelState, chipState,
  rList, wList, wTail,
  commands, incompletedR,
  erase,            \* the erase of each chip and its related copy
  \* the threads
  hostPc,           \* of allocate_Request_USBSSD
  commandID,        \* what recv_signal has left for the work of the chip,
  chipWork,         \*   whether that work is scheduled,
  chipPc, chipID,   \*   where it is, and the command it was started for
  channelWork, channelPc

request == <<operation, chipOf, relatedSub, pending, restSubreqCount, subMutex>>
lists == <<rList, wList, wTail>>
queues == <<commands, incompletedR, erase>>
works == <<commandID, chipWork, chipPc, chipID, channelWork, channelPc>>
vars == <<hardware, request, channelState, chipState, lists, queues, hostPc, works>>

NoErase == [used |-> FALSE, pages |-> 0, copy |-> "NONE", completed |-> FALSE]

-----------------------------------------------------------------------------
(* get_Command_USBSSD and send_command for a chip that is idle.            *)

Send(c, CMD, address, id) ==
  /\ channelState' = CMD
  /\ chipState' = [chipState EXCEPT ![c] = CMD]
  /\ send_cmd_2_NAND(CMD, c, address, id)

IsCopy(id) == id[1] = "copy"
AddressOf(id) == IF IsCopy(id) THEN <<"page", id[2], id[3]>> ELSE id
OpOf(id) == CASE IsCopy(id)     -> id[4]
              [] id[1] = "main" -> operation
              [] id[1] = "rmw"  -> "READ"

SendCommand(c, id) ==
  Send(c, IF OpOf(id) = "READ" THEN "READ_ADDR" ELSE "PROGRAM", AddressOf(id), id)

\* Append to the queue of the chip, and send the head of the queue.
Enqueue(c, id) ==
  /\ commands' = [commands EXCEPT ![c] = Append(@, id)]
  /\ SendCommand(c, Head(Append(commands[c], id)))

\* for_erase: what it does with the erase of the chip, if anything.
EraseBlocked(e) == ~e.used \/ (e.copy # "NONE" /\ ~e.completed)
for_erase(c) ==
  LET e == erase[c]
  IN \/ /\ e.copy = "READ" /\ e.completed
        /\ erase' = [erase EXCEPT ![c].copy = "WRITE", ![c].completed = FALSE]
        /\ Enqueue(c, Copy(c, e.pages, "WRITE"))
     \/ /\ e.copy # "READ" /\ e.pages > 0
        /\ erase' = [erase EXCEPT ![c].copy = "READ", ![c].completed = FALSE]
        /\ Enqueue(c, Copy(c, e.pages, "READ"))
     \/ /\ e.copy # "READ" /\ e.pages = 0
        /\ erase' = [erase EXCEPT ![c].copy = "NONE"]
        /\ Send(c, "ERASE", Erase(c), Erase(c))
        /\ UNCHANGED commands

\* Variant: a write does not wait for the read of what it does not cover.
Writable_at_once(c) == DOMAIN wList[c]

\* get_SubRequests_Write_USBSSD passes over the writes that wait for a read.
Writable(c) == {i \in DOMAIN wList[c] : relatedSub[wList[c][i]] = NoSub}
\* Variant: the head of the list is moved behind a write taken from the middle.
get_SubRequests_Write_dropping(c) ==
  \E i \in Writable(c) :
    /\ \A j \in Writable(c) : i <= j
    /\ LET sub == wList[c][i]
       IN /\ wList' = [wList EXCEPT ![c] = SubSeq(@, i + 1, Len(@))]
          /\ wTail' = [wTail EXCEPT ![c] = IF @ = sub THEN NoSub ELSE @]
          /\ Enqueue(c, sub)
    /\ UNCHANGED rList

get_SubRequests_Write(c) ==
  \E i \in Writable(c) :
    /\ \A j \in Writable(c) : i <= j
    /\ LET sub == wList[c][i]
       IN /\ wList' = [wList EXCEPT ![c] = RemoveAt(@, i)]
          /\ wTail' = [wTail EXCEPT ![c] = IF @ = sub THEN NoSub ELSE @]
          /\ Enqueue(c, sub)
    /\ UNCHANGED rList

get_SubRequests_Read(c) ==
  /\ rList' = [rList EXCEPT ![c] = Tail(@)]
  /\ Enqueue(c, Head(rList[c]))
  /\ UNCHANGED <<wList, wTail>>

HasCommand(c) ==
  \/ incompletedR[c] # <<>> \/ ~EraseBlocked(erase[c])
  \/ rList[c] # <<>> \/ Writable(c) # {}

\* What is queued is sent at once, so the queue of an idle chip is empty here
\* (OneSignalPerCommand).
get_Command(c) ==
  \/ /\ incompletedR[c] # <<>>
     /\ LET id == Head(incompletedR[c]) IN Send(c, "READ_DATA", AddressOf(id), id)
     /\ UNCHANGED <<lists, queues>>
  \/ /\ incompletedR[c] = <<>> /\ ~EraseBlocked(erase[c])
     /\ for_erase(c)
     /\ UNCHANGED <<lists, incompletedR>>
  \/ /\ incompletedR[c] = <<>> /\ EraseBlocked(erase[c])
     /\ \/ rList[c] # <<>> /\ get_SubRequests_Read(c)
        \/ rList[c] = <<>> /\ get_SubRequests_Write(c)
     /\ UNCHANGED <<incompletedR, erase>>

\* The loop sends at most one command: it makes the channel busy.
Ready == {c \in Chips : chipState[c] = "IDLE" /\ HasCommand(c)}
allocate_command ==
  /\ \/ /\ channelState = "IDLE"
        /\ \E c \in Ready : (\A d \in Ready : c <= d) /\ get_Command(c)
     \/ /\ channelState # "IDLE" \/ Ready = {}
        /\ UNCHANGED <<hardware, channelState, chipState, lists, queues>>
  /\ UNCHANGED request

-----------------------------------------------------------------------------
(* The block layer's thread: allocate_Request_USBSSD.                      *)

\* The sub-requests are built; nobody else knows of them yet.
HostSubmit ==
  /\ hostPc = "idle"
  /\ \E op \in {"READ", "WRITE"}, n \in Pages :
       \E chips \in [1..n -> Chips],
          partial \in SUBSET (1..n) :
         /\ op = "READ" => partial = {}
         /\ operation' = op
         /\ chipOf' = chips
         /\ pending' = {Main(k) : k \in 1..n} \cup {RMW(k) : k \in partial}
         /\ relatedSub' = [s \in Subs |->
              IF s[2] \in partial
              THEN (IF s[1] = "main" THEN RMW(s[2]) ELSE Main(s[2]))
              ELSE NoSub]
         /\ restSubreqCount' = n
         /\ hostPc' = IF op = "WRITE" THEN "add writes" ELSE "add reads"
  /\ UNCHANGED <<hardware, subMutex, channelState, chipState, lists, queues, works>>

\* add_subReqs_to_chip: the sub-requests of that kind for the chip, in order.
AddedTo(c, kind) ==
  Picked([k \in 1..Len(chipOf) |-> <<kind, k>>], {s \in pending : chipOf[s[2]] = c})

\* The writes of one request are added at once and to empty lists: the list that
\* does not end with its tail (command.c:426) is not met by queue_depth 1.
HostAddWrites ==
  /\ hostPc = "add writes"
  /\ wList' = [c \in Chips |->
       IF wList[c] = <<>> THEN AddedTo(c, "main")
       ELSE IF wTail[c] = Last(wList[c]) THEN wList[c] \o AddedTo(c, "main")
       ELSE wList[c]]
  /\ wTail' = [c \in Chips |->
       IF AddedTo(c, "main") = <<>> THEN wTail[c] ELSE Last(AddedTo(c, "main"))]
  /\ hostPc' = "dispatch writes"
  /\ UNCHANGED <<hardware, request, channelState, chipState, rList, queues, works>>

HostAddReads ==
  /\ hostPc = "add reads"
  /\ rList' = [c \in Chips |->
       rList[c] \o IF operation = "READ" THEN AddedTo(c, "main") ELSE AddedTo(c, "rmw")]
  /\ hostPc' = "dispatch reads"
  /\ UNCHANGED <<hardware, request, channelState, chipState, wList, wTail, queues, works>>

HostDispatch ==
  /\ \/ /\ hostPc = "dispatch writes"
        /\ hostPc' = IF \E k \in Pages : RMW(k) \in pending THEN "add reads" ELSE "init mutex"
     \/ /\ hostPc = "dispatch reads"
        /\ hostPc' = "init mutex"
  /\ allocate_command
  /\ UNCHANGED works

\* The request may have been ended and freed by now: memory that happened to look
\* unlocked has let its last sub-request through.
HostInitMutex ==
  /\ hostPc = "init mutex"
  /\ subMutex' = "free"
  /\ hostPc' = IF restSubreqCount = 0 THEN "idle" ELSE "wait"
  /\ UNCHANGED <<hardware, operation, chipOf, relatedSub, pending, restSubreqCount,
                 channelState, chipState, lists, queues, works>>

Host == HostSubmit \/ HostAddWrites \/ HostAddReads \/ HostDispatch \/ HostInitMutex

-----------------------------------------------------------------------------
(* The timers, and recv_signal at the end of their callbacks.              *)

\* The thread of the block layer is done long before a command is, unless it
\* is preempted.
HostKeepsUp == HostPreempted \/ hostPc \in {"idle", "wait"}

Timer ==
  /\ HostKeepsUp
  /\ timer_callback_channel \/ \E c \in Chips : timer_callback_chip(c)
  /\ UNCHANGED <<request, channelState, chipState, lists, queues, hostPc, works>>

SignalChannel ==
  /\ channelTimer = "fired"
  /\ channelTimer' = "off"
  /\ channelWork' = TRUE
  /\ UNCHANGED <<hwChannel, hwChip, hwID, preCMD, chipTimer, refused, request,
                 channelState, chipState, lists, queues, hostPc,
                 commandID, chipWork, chipPc, chipID, channelPc>>

SignalChip(c) ==
  /\ chipTimer[c] = "fired"
  /\ chipTimer' = [chipTimer EXCEPT ![c] = "off"]
  /\ commandID' = [commandID EXCEPT ![c] = hwID[c]]
  /\ chipWork' = [chipWork EXCEPT ![c] = TRUE]
  /\ UNCHANGED <<hwChannel, hwChip, hwID, preCMD, channelTimer, refused, request,
                 channelState, chipState, lists, queues, hostPc,
                 chipPc, chipID, channelWork, channelPc>>

-----------------------------------------------------------------------------
(* The work items: recv_signal_back.                                       *)

ChannelRecv ==
  /\ channelWork /\ channelPc = "none"
  /\ channelWork' = FALSE
  /\ channelPc' = "dispatch"
  /\ channelState' = "IDLE"
  /\ UNCHANGED <<hardware, request, chipState, lists, queues, hostPc,
                 commandID, chipWork, chipPc, chipID>>

\* Variant: the work item of the channel does not look for a command.
ChannelDispatch_nothing ==
  /\ channelPc = "dispatch"
  /\ channelPc' = "none"
  /\ UNCHANGED <<hardware, request, channelState, chipState, lists, queues, hostPc,
                 commandID, chipWork, chipPc, chipID, channelWork>>

ChannelDispatch ==
  /\ channelPc = "dispatch"
  /\ channelPc' = "none"
  /\ allocate_command
  /\ UNCHANGED <<hostPc, commandID, chipWork, chipPc, chipID, channelWork>>

\* work_func_recv_signal reads commandID before the mutex is taken.
ChipStart(c) ==
  /\ chipWork[c] /\ chipPc[c] = "none"
  /\ chipWork' = [chipWork EXCEPT ![c] = FALSE]
  /\ chipID' = [chipID EXCEPT ![c] = commandID[c]]
  /\ chipPc' = [chipPc EXCEPT ![c] = "receive"]
  /\ UNCHANGED <<hardware, request, channelState, chipState, lists, queues, hostPc,
                 commandID, channelWork, channelPc>>

get_end_CMD(queue, id) ==
  IF Head(queue) = id THEN Tail(queue) ELSE RemoveFirst(queue, id)

Goto(c, pc) == chipPc' = [chipPc EXCEPT ![c] = pc]

EndProgram(c) ==
  /\ chipState[c] = "PROGRAM"
  /\ commands' = [commands EXCEPT ![c] = get_end_CMD(@, chipID[c])]
  /\ \/ /\ IsCopy(chipID[c])
        /\ erase' = [erase EXCEPT ![c].completed = TRUE, ![c].pages = @ - 1]
        /\ Goto(c, "dispatch")
     \/ /\ ~IsCopy(chipID[c])
        /\ Goto(c, "check")
        /\ UNCHANGED erase
  /\ UNCHANGED incompletedR

EndReadAddr(c) ==
  /\ chipState[c] = "READ_ADDR"
  /\ commands' = [commands EXCEPT ![c] = get_end_CMD(@, chipID[c])]
  /\ incompletedR' = [incompletedR EXCEPT ![c] = Append(@, chipID[c])]
  /\ Goto(c, "dispatch")
  /\ UNCHANGED erase

\* Variant: a page counts as copied when it has been read.
EndReadData_counting(c) ==
  /\ chipState[c] = "READ_DATA"
  /\ incompletedR' = [incompletedR EXCEPT ![c] = get_end_CMD(@, chipID[c])]
  /\ \/ /\ IsCopy(chipID[c])
        /\ erase' = [erase EXCEPT ![c].completed = TRUE, ![c].pages = @ - 1]
        /\ Goto(c, "dispatch")
     \/ /\ ~IsCopy(chipID[c])
        /\ Goto(c, "end")
        /\ UNCHANGED erase
  /\ UNCHANGED commands

EndReadData(c) ==
  /\ chipState[c] = "READ_DATA"
  /\ incompletedR' = [incompletedR EXCEPT ![c] = get_end_CMD(@, chipID[c])]
  /\ \/ /\ IsCopy(chipID[c])
        /\ erase' = [erase EXCEPT ![c].completed = TRUE]
        /\ Goto(c, "dispatch")
     \/ /\ ~IsCopy(chipID[c])
        /\ Goto(c, "end")
        /\ UNCHANGED erase
  /\ UNCHANGED commands

EndErase(c) ==
  /\ chipState[c] = "ERASE"
  /\ erase' = [erase EXCEPT ![c] = NoErase]
  /\ Goto(c, "dispatch")
  /\ UNCHANGED <<commands, incompletedR>>

ChipReceive(c) ==
  /\ chipPc[c] = "receive"
  /\ EndProgram(c) \/ EndReadAddr(c) \/ EndReadData(c) \/ EndErase(c)
  /\ chipState' = [chipState EXCEPT ![c] = "IDLE"]
  /\ UNCHANGED <<hardware, request, channelState, lists, hostPc,
                 commandID, chipWork, chipID, channelWork, channelPc>>

\* check_and_create_gc.  Which block it takes, if any, is up to Flash.
ChipCheckGC(c) ==
  /\ chipPc[c] = "check"
  /\ \/ UNCHANGED erase
     \/ /\ ~erase[c].used
        /\ \E n \in 0..MaxCopies :
             erase' = [erase EXCEPT ![c] = [NoErase EXCEPT !.used = TRUE, !.pages = n]]
  /\ Goto(c, "end")
  /\ UNCHANGED <<hardware, request, channelState, chipState, lists, commands, incompletedR,
                 hostPc, commandID, chipWork, chipID, channelWork, channelPc>>

\* Variant: the read of a read-modify-write counts for the request.
EndRelated_counting(sub) ==
  /\ relatedSub[sub] # NoSub
  /\ relatedSub' = [relatedSub EXCEPT ![relatedSub[sub]] = NoSub, ![sub] = NoSub]
  /\ restSubreqCount' = restSubreqCount - 1
  /\ pending' = pending \ {sub}
  /\ UNCHANGED <<operation, chipOf, subMutex, hostPc>>

\* subRequest_End: the read of a read-modify-write lets its write go.
EndRelated(sub) ==
  /\ relatedSub[sub] # NoSub
  /\ relatedSub' = [relatedSub EXCEPT ![relatedSub[sub]] = NoSub, ![sub] = NoSub]
  /\ pending' = pending \ {sub}
  /\ UNCHANGED <<operation, chipOf, restSubreqCount, subMutex, hostPc>>

\* Variant: the first sub-request that ends ends the request.
request_May_End_first(sub) ==
  /\ relatedSub[sub] = NoSub
  /\ subMutex = "free"
  /\ restSubreqCount' = restSubreqCount - 1
  /\ pending' = pending \ {sub}
  /\ operation' = "READ" /\ chipOf' = <<>>
  /\ subMutex' = "stale"
  /\ hostPc' = IF hostPc = "wait" THEN "idle" ELSE hostPc
  /\ UNCHANGED relatedSub

\* request_May_End.  The thread that counts to 0 frees the request and its
\* sub-requests, and never unlocks the mutex it frees.
request_May_End(sub) ==
  /\ relatedSub[sub] = NoSub
  /\ subMutex = "free"
  /\ restSubreqCount' = restSubreqCount - 1
  /\ pending' = pending \ {sub}
  /\ \/ /\ restSubreqCount' # 0
        /\ UNCHANGED <<operation, chipOf, subMutex, hostPc>>
     \/ /\ restSubreqCount' = 0
        /\ operation' = "READ" /\ chipOf' = <<>>
        /\ subMutex' = "stale"
        /\ hostPc' = IF hostPc = "wait" THEN "idle" ELSE hostPc
  /\ UNCHANGED relatedSub

ChipEndSub(c) ==
  /\ chipPc[c] = "end"
  /\ EndRelated(chipID[c]) \/ request_May_End(chipID[c])
  /\ Goto(c, "dispatch")
  /\ UNCHANGED <<hardware, channelState, chipState, lists, queues,
                 commandID, chipWork, chipID, channelWork, channelPc>>

\* The request is a recycled one and its mutex still looks locked: the thread
\* sleeps on it, and mutex_init forgets the sleepers.
ChipSleepsForEver(c) ==
  /\ chipPc[c] = "end"
  /\ relatedSub[chipID[c]] = NoSub /\ subMutex = "stale"
  /\ Goto(c, "asleep")
  /\ UNCHANGED <<hardware, request, channelState, chipState, lists, queues, hostPc,
                 commandID, chipWork, chipID, channelWork, channelPc>>

ChipDispatch(c) ==
  /\ chipPc[c] = "dispatch"
  /\ Goto(c, "none")
  /\ chipID' = [chipID EXCEPT ![c] = Erase(c)]
  /\ allocate_command
  /\ UNCHANGED <<hostPc, commandID, chipWork, channelWork, channelPc>>

-----------------------------------------------------------------------------
Init ==
  /\ InitNAND
  /\ operation = "READ" /\ chipOf = <<>> /\ pending = {} /\ restSubreqCount = 0
  /\ relatedSub = [s \in Subs |-> NoSub]
  /\ subMutex = FreshMutex
  /\ channelState = "IDLE"
  /\ chipState = [c \in Chips |-> "IDLE"]
  /\ rList = [c \in Chips |-> <<>>]
  /\ wList = [c \in Chips |-> <<>>]
  /\ wTail = [c \in Chips |-> NoSub]
  /\ commands = [c \in Chips |-> <<>>]
  /\ incompletedR = [c \in Chips |-> <<>>]
  /\ erase = [c \in Chips |-> NoErase]
  /\ hostPc = "idle"
  /\ commandID = [c \in Chips |-> Erase(c)]
  /\ chipWork = [c \in Chips |-> FALSE]
  /\ chipPc = [c \in Chips |-> "none"]
  /\ chipID = [c \in Chips |-> Erase(c)]
  /\ channelWork = FALSE
  /\ channelPc = "none"

Work(c) ==
  \/ ChipStart(c) \/ ChipReceive(c) \/ ChipCheckGC(c) \/ ChipEndSub(c)
  \/ ChipSleepsForEver(c) \/ ChipDispatch(c)

Next ==
  \/ Host \/ Timer \/ SignalChannel \/ ChannelRecv \/ ChannelDispatch
  \/ \E c \in Chips : SignalChip(c) \/ Work(c)

Spec == Init /\ [][Next]_vars

\* Timers fire, softirqs and kernel worker threads run, and so does a thread of
\* the block layer once it has taken a request.
Fairness ==
  /\ WF_vars(Timer) /\ WF_vars(SignalChannel) /\ WF_vars(ChannelRecv)
  /\ WF_vars(ChannelDispatch)
  /\ WF_vars(HostAddWrites \/ HostAddReads \/ HostDispatch \/ HostInitMutex)
  /\ \A c \in Chips : WF_vars(SignalChip(c)) /\ WF_vars(Work(c))

FairSpec == Spec /\ Fairness
-----------------------------------------------------------------------------
(* Properties.                                                             *)

(* Every variable of the driver and of the hardware has its shape.         *)
TypeOK ==
  /\ NANDTypeOK
  /\ operation \in {"READ", "WRITE"}
  /\ \E n \in 0..MaxPages : chipOf \in [1..n -> Chips]
  /\ relatedSub \in [Subs -> Subs \cup {NoSub}]
  /\ pending \subseteq Subs
  /\ restSubreqCount \in 0..MaxPages
  /\ subMutex \in {"stale", "free"}
  /\ channelState \in States /\ chipState \in [Chips -> States]
  /\ rList \in [Chips -> Seq(Subs)] /\ wList \in [Chips -> Seq(Subs)]
  /\ wTail \in [Chips -> Subs \cup {NoSub}]
  /\ commands \in [Chips -> Seq(CommandIDs)]
  /\ incompletedR \in [Chips -> Seq(CommandIDs)]
  /\ erase \in [Chips -> [used : BOOLEAN, pages : 0..MaxCopies,
                          copy : {"NONE", "READ", "WRITE"}, completed : BOOLEAN]]
  /\ hostPc \in {"idle", "add writes", "dispatch writes", "add reads",
                "dispatch reads", "init mutex", "wait"}
  /\ commandID \in [Chips -> CommandIDs] /\ chipID \in [Chips -> CommandIDs]
  /\ chipWork \in [Chips -> BOOLEAN] /\ channelWork \in BOOLEAN
  /\ chipPc \in [Chips -> {"none", "receive", "check", "end", "asleep", "dispatch"}]
  /\ channelPc \in {"none", "dispatch"}

(* The hardware never refuses a command: what the driver believes of the     *)
(* channel and of the chips is never ahead of the hardware, and a page read  *)
(* stays in the register until it is fetched.  A refused command would leave *)
(* its chip busy for ever.                                                   *)
NeverRefused == refused = {}

\* The command the driver would find at the head of the queue get_end_CMD
\* searches when the chip signals.
Executing(c) ==
  CASE chipState[c] \in {"PROGRAM", "READ_ADDR"} -> commands[c]
    [] chipState[c] = "READ_DATA" -> incompletedR[c]
    [] chipState[c] = "ERASE"     -> <<Erase(c)>>
    [] chipState[c] = "IDLE"      -> <<>>
Signals(c) ==
  {t \in {"timer", "scheduled", "running"} :
     \/ t = "timer" /\ chipTimer[c] # "off"
     \/ t = "scheduled" /\ chipWork[c]
     \/ t = "running" /\ chipPc[c] = "receive"}

(* A busy chip has exactly one signal on its way, the one of the command at  *)
(* the head of its queue; an idle chip has none, and nothing is left queued. *)
(* So no signal overwrites another in commandID or finds its command gone.   *)
OneSignalPerCommand ==
  \A c \in Chips :
    /\ Cardinality(Signals(c)) = IF chipState[c] = "IDLE" THEN 0 ELSE 1
    /\ chipState[c] = "IDLE" => commands[c] = <<>>
    /\ Signals(c) # {} =>
         /\ Executing(c) # <<>>
         /\ Head(Executing(c)) = IF "timer" \in Signals(c) THEN hwID[c]
                                 ELSE IF "scheduled" \in Signals(c) THEN commandID[c]
                                 ELSE chipID[c]

(* A command that could be sent is sent: when the channel is free and an idle *)
(* chip has something to do, some thread is on its way to                     *)
(* allocate_command_USBSSD; when the channel is not free, a signal of it is.  *)
(* A thread that sleeps on a stale mutex is not on its way anywhere.          *)
NoLostWakeup ==
  /\ channelState = "IDLE" /\ Ready # {} =>
       \/ channelPc = "dispatch"
       \/ hostPc \in {"dispatch writes", "dispatch reads"}
       \/ \E c \in Chips : chipPc[c] \in {"check", "end", "dispatch"}
  /\ channelState # "IDLE" => channelTimer # "off" \/ channelWork

(* With the block layer's thread held up, a command is left lying only if the *)
(* thread that should have sent it sleeps on a stale mutex (request.c:163).   *)
LostOnlyToSleepers == (\A c \in Chips : chipPc[c] # "asleep") => NoLostWakeup

\* The places where a sub-request that has not ended can be.
IsAt(sub, q, c) ==
  \/ q = "r" /\ Contains(rList[c], sub)
  \/ q = "w" /\ Contains(wList[c], sub)
  \/ q = "commands" /\ Contains(commands[c], sub)
  \/ q = "incompleted" /\ Contains(incompletedR[c], sub)
  \/ q = "ending" /\ chipPc[c] \in {"check", "end", "asleep"} /\ chipID[c] = sub
Places(sub) ==
  {pl \in {"r", "w", "commands", "incompleted", "ending"} \X Chips : IsAt(sub, pl[1], pl[2])}
Added(sub) ==
  IF sub \in {Main(k) : k \in Pages} /\ operation = "WRITE"
  THEN hostPc # "add writes"
  ELSE hostPc \notin {"add writes", "dispatch writes", "add reads"}

(* No sub-request is lost, not even a write in the list when the one behind   *)
(* it, the tail, is taken first, and none is handled twice: one that has not  *)
(* ended is in one queue of one chip, one that has ended is in none.          *)
EachInOnePlace ==
  \A sub \in Subs :
    Cardinality(Places(sub)) = IF sub \in pending /\ Added(sub) THEN 1 ELSE 0

(* The request is counted down to zero when, and only when, all of its       *)
(* sub-requests have ended: it is not freed under the feet of one of them.   *)
CountMatchesPending ==
  /\ restSubreqCount = Cardinality({k \in Pages : Main(k) \in pending})
  /\ hostPc = "idle" => pending = {}

(* A partial write is not sent to the chip before the read of the sectors it *)
(* does not cover has ended.                                                 *)
ReadBeforeWrite ==
  \A k \in Pages, c \in Chips :
    RMW(k) \in pending => ~Contains(commands[c], Main(k))

(* The request's mutex has been initialised when a thread that ends one of   *)
(* its sub-requests locks it.                                                *)
MutexReady ==
  \A c \in Chips :
    chipPc[c] = "end" /\ relatedSub[chipID[c]] = NoSub => subMutex = "free"

(* A thread finds the mutex stale only between the queueing of the request's *)
(* sub-requests and mutex_init (request.c:116-122), never later nor in a      *)
(* request that is over; and the request it then sleeps on is not ended, so   *)
(* it is never freed under the sleeper.                                       *)
StaleOnlyInWindow ==
  \A c \in Chips :
    /\ chipPc[c] = "end" /\ relatedSub[chipID[c]] = NoSub /\ subMutex = "stale" =>
         hostPc \in {"dispatch writes", "add reads", "dispatch reads", "init mutex"}
    /\ chipPc[c] = "asleep" => chipID[c] \in pending /\ restSubreqCount # 0

Promise == INSTANCE BlockDevice
             WITH out <- restSubreqCount # 0, todo <- {k \in Pages : Main(k) \in pending}

(* The driver keeps the promise of BlockDevice: one request at a time, each  *)
(* page served once, the end at the last page, and under fairness an end.    *)
KeepsPromise == Promise!Spec
=============================================================================
