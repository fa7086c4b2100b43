--------------------------- MODULE SchedulerProofs ---------------------------
(***************************************************************************)
(* Theorems about the threads and queues of Scheduler, for any number of   *)
(* chips, pages of a request and pages to copy, whatever the mutex of a    *)
(* fresh request looks like, and, but for NobodyForgetsInTime, however     *)
(* long the thread of the block layer is held up.                          *)
(*                                                                         *)
(* SInv is the inductive invariant.  A chip carries at most one command,   *)
(* in the queue its state says (Carries), and has one signal on its way if *)
(* it is busy (OneSignal); the state of the hardware follows from that of  *)
(* the driver (HardwareFollows), so it refuses nothing.  A copy that is    *)
(* carried is the one the erase of the chip waits for (CopyIsErases).      *)
(* Every sub-request that has been added and has not ended is in one place *)
(* (InOnePlace), a write that waits for its read in the write list         *)
(* (RelatedOK): so what ends is pending, and is counted once.              *)
(***************************************************************************)
EXTENDS Scheduler, Signals, ListProofs, FiniteSetTheorems

\* The channel is busy from the moment a command is sent until the work item
\* of its timer has run.
ChannelOK ==
  /\ channelState = "IDLE" => channelTimer = "off" /\ ~channelWork
  /\ channelState # "IDLE" => \/ channelTimer # "off" /\ ~channelWork
                              \/ channelTimer = "off" /\ channelWork
  /\ hwChannel # "IDLE" => channelTimer = "set"

\* What a chip can carry: sub-requests, and its own copies.
Carriable(c) ==
  Subs \cup {Copy(c, n, op) : n \in 1..MaxCopies, op \in {"READ", "WRITE"}}

Empty(queue) == queue = <<>>
Holds(c, queue) == \E id \in Carriable(c) : queue = <<id>>

Carries(c) ==
  \/ /\ chipState[c] = "IDLE" /\ Empty(commands[c])
     /\ Empty(incompletedR[c]) \/ Holds(c, incompletedR[c])
  \/ chipState[c] = "ERASE" /\ Empty(commands[c]) /\ Empty(incompletedR[c])
  \/ chipState[c] = "READ_DATA" /\ Empty(commands[c]) /\ Holds(c, incompletedR[c])
  \/ /\ chipState[c] \in {"PROGRAM", "READ_ADDR"}
     /\ Holds(c, commands[c]) /\ Empty(incompletedR[c])

Current(c) == Head(Executing(c))

\* A busy chip has one signal on its way, which names its command.
OneSignal(c) ==
  \/ /\ chipState[c] = "IDLE"
     /\ chipTimer[c] = "off" /\ ~chipWork[c] /\ chipPc[c] # "receive"
  \/ /\ chipState[c] # "IDLE" /\ chipTimer[c] # "off" /\ ~chipWork[c] /\ chipPc[c] # "receive"
     /\ hwID[c] = Current(c)
  \/ /\ chipState[c] # "IDLE" /\ chipTimer[c] = "off" /\ chipWork[c] /\ chipPc[c] # "receive"
     /\ commandID[c] = Current(c)
  \/ /\ chipState[c] # "IDLE" /\ chipTimer[c] = "off" /\ ~chipWork[c] /\ chipPc[c] = "receive"
     /\ chipID[c] = Current(c)

\* A page stays in the register of the chip from its read to its transfer.
PageInRegister(c) ==
  chipState[c] = "READ_ADDR" \/ (chipState[c] = "IDLE" /\ ~Empty(incompletedR[c]))
HardwareFollows(c) ==
  /\ chipTimer[c] = "set" => hwChip[c] = chipState[c]
  /\ chipTimer[c] # "set" =>
       hwChip[c] = IF PageInRegister(c) THEN "READ_ADDR" ELSE "IDLE"
  /\ chipState[c] = "READ_ADDR" => preCMD[c] = AddressOf(Head(commands[c]))
  /\ chipState[c] = "IDLE" /\ ~Empty(incompletedR[c])
       => preCMD[c] = AddressOf(Head(incompletedR[c]))

\* The copy the chip carries is the one its erase waits for.
CopyIsErases(c) ==
  /\ \A queue \in {commands[c], incompletedR[c]} :
       queue # <<>> /\ IsCopy(Head(queue)) =>
         /\ erase[c].used /\ ~erase[c].completed
         /\ Head(queue) = Copy(c, erase[c].pages, erase[c].copy)
  /\ erase[c].copy = "READ" => erase[c].pages > 0
  /\ chipState[c] = "PROGRAM" /\ IsCopy(Head(commands[c]))
       => Head(commands[c])[4] = "WRITE"

ChipOK(c) ==
  /\ Carries(c) /\ OneSignal(c) /\ HardwareFollows(c) /\ CopyIsErases(c)

\* Nothing is listed twice.
NotTwice == \A c \in Chips : IsInjective(rList[c]) /\ IsInjective(wList[c])

InOnePlace ==
  \A sub \in Subs :
    /\ sub \in pending /\ Added(sub) => \E pl \in Places(sub) : Places(sub) = {pl}
    /\ ~(sub \in pending /\ Added(sub)) => Places(sub) = {}

\* A thread that ends something ends a sub-request.
Ending(c) == chipPc[c] \in {"check", "end", "asleep"}
EndsSubs == \A c \in Chips : Ending(c) => chipID[c] \in Subs

\* A partial write and its read are linked as long as the read has not ended,
\* and the write is in no place but the write list.
RelatedOK ==
  \A k \in Pages :
    /\ RMW(k) \in pending =>
         /\ relatedSub[Main(k)] = RMW(k) /\ relatedSub[RMW(k)] = Main(k)
         /\ Main(k) \in pending /\ operation = "WRITE"
         /\ \A pl \in Places(Main(k)) : pl[1] = "w"
    /\ RMW(k) \notin pending => relatedSub[Main(k)] = NoSub /\ relatedSub[RMW(k)] = NoSub
    /\ Main(k) \in pending => k \in 1..Len(chipOf)

RequestOK ==
  /\ hostPc = "add writes" => operation = "WRITE"
  /\ hostPc = "dispatch writes" => operation = "WRITE" \/ pending = {}
  /\ hostPc = "wait" => subMutex = "free"

SInv ==
  /\ TypeOK /\ NeverRefused /\ ChannelOK /\ (\A c \in Chips : ChipOK(c))
  /\ CountMatchesPending /\ RequestOK /\ RelatedOK /\ EndsSubs /\ NotTwice /\ InOnePlace

\* If the thread of the block layer is not held up, what it has sent is still
\* being executed as long as it is not done.
Prompt ==
  hostPc \notin {"idle", "wait"} =>
    \A c \in Chips :
      /\ ~Ending(c)
      /\ ~Empty(incompletedR[c]) => IsCopy(Head(incompletedR[c]))
      /\ ~Empty(commands[c]) /\ ~IsCopy(Head(commands[c])) => chipTimer[c] = "set"

-----------------------------------------------------------------------------
(* Lists and names.                                                        *)

\* The list add_subReqs_to_chip builds: what it should, each once.
LEMMA AddedToContains ==
  ASSUME pending \subseteq Subs, Len(chipOf) \in Nat, NEW c, NEW kind
  PROVE  /\ AddedTo(c, kind) \in Seq(Subs) /\ IsInjective(AddedTo(c, kind))
         /\ \A e : Contains(AddedTo(c, kind), e) <=>
              \E k \in 1..Len(chipOf) : e = <<kind, k>> /\ e \in pending /\ chipOf[k] = c
<1> DEFINE items == [k \in 1..Len(chipOf) |-> <<kind, k>>]
           wanted == {s \in pending : chipOf[s[2]] = c}
<1>1. /\ items \in Seq({kind} \X Nat) /\ IsInjective(items)
      /\ \A e : Contains(items, e) <=> \E k \in 1..Len(chipOf) : e = <<kind, k>>
  <2>1. items \in [1..Len(chipOf) -> {kind} \X Nat]
    OBVIOUS
  <2>2. items \in Seq({kind} \X Nat) /\ Len(items) = Len(chipOf)
    BY <2>1, SeqDef, LenProperties
  <2>3. DOMAIN items = 1..Len(chipOf) /\ \A k \in 1..Len(chipOf) : items[k] = <<kind, k>>
    OBVIOUS
  <2> HIDE DEF items
  <2> QED BY <2>2, <2>3 DEF IsInjective, Contains
<1>2. wanted \in SUBSET Subs /\ AddedTo(c, kind) = Picked(items, wanted)
  BY DEF AddedTo
<1>3. \A k : <<kind, k>> \in wanted <=> <<kind, k>> \in pending /\ chipOf[k] = c
  OBVIOUS
<1> HIDE DEF items, wanted
<1>4. /\ Picked(items, wanted) \in Seq(Subs) /\ IsInjective(Picked(items, wanted))
      /\ \A e : Contains(Picked(items, wanted), e) <=> Contains(items, e) /\ e \in wanted
  BY <1>1, <1>2, PickedContains
<1> QED BY <1>1, <1>2, <1>3, <1>4

LEMMA SubNames ==
  /\ \A s \in Subs : /\ s # NoSub /\ ~IsCopy(s) /\ AddressOf(s) = s
                     /\ \E k \in Pages : s = Main(k) \/ s = RMW(k)
  /\ \A k \in Pages : /\ Main(k) \in Subs /\ RMW(k) \in Subs
                      /\ Main(k)[2] = k /\ RMW(k)[2] = k
                      /\ Main(k)[1] = "main" /\ RMW(k)[1] = "rmw"
  /\ \A j, k : /\ Main(j) # RMW(k)
               /\ Main(j) = Main(k) => j = k
               /\ RMW(j) = RMW(k) => j = k
<1>1. \A k : Main(k)[1] = "main" /\ RMW(k)[1] = "rmw" /\ Main(k)[2] = k /\ RMW(k)[2] = k
  BY DEF Main, RMW
<1>2. NoSub[1] = "none"
  BY DEF NoSub
<1>3. \A s \in Subs : \E k \in Pages : s = Main(k) \/ s = RMW(k)
  BY DEF Subs
<1>4. \A k \in Pages : Main(k) \in Subs /\ RMW(k) \in Subs
  BY DEF Subs
<1>5. \A s \in Subs : s[1] \in {"main", "rmw"}
  BY <1>1, <1>3
<1>6. \A s \in Subs : s # NoSub /\ ~IsCopy(s)
  BY <1>2, <1>5 DEF IsCopy
<1> QED BY <1>1, <1>3, <1>4, <1>6 DEF AddressOf

LEMMA CopyNames ==
  /\ \A c, n, op : IsCopy(Copy(c, n, op)) /\ Copy(c, n, op)[4] = op
  /\ \A c \in Chips : Carriable(c) \subseteq CommandIDs
  /\ \A c : \A id \in Carriable(c) : id \in Subs \/ IsCopy(id)
  /\ \A c \in Chips : Erase(c) \in CommandIDs
  /\ Subs \subseteq CommandIDs
<1>1. \A c, n, op : IsCopy(Copy(c, n, op)) /\ Copy(c, n, op)[4] = op
  BY DEF Copy, IsCopy
<1>2. 1..MaxCopies \subseteq 0..MaxCopies
  BY SchedulerAssumption
<1> QED BY <1>1, <1>2 DEF Carriable, CommandIDs

-----------------------------------------------------------------------------
(* One chip.                                                               *)

\* A chip nothing happens to stays as it is.
LEMMA SameChip ==
  ASSUME NEW d, ChipOK(d),
         chipState'[d] = chipState[d], commands'[d] = commands[d],
         incompletedR'[d] = incompletedR[d], erase'[d] = erase[d],
         hwChip'[d] = hwChip[d], hwID'[d] = hwID[d], preCMD'[d] = preCMD[d],
         chipTimer'[d] = chipTimer[d], chipWork'[d] = chipWork[d],
         commandID'[d] = commandID[d],
         chipPc'[d] = "receive" <=> chipPc[d] = "receive",
         chipPc[d] = "receive" => chipID'[d] = chipID[d]
  PROVE  ChipOK(d)'
<1>1. Carries(d)'
  BY DEF ChipOK, Carries, Empty, Holds
<1>2. Current(d)' = Current(d)
  BY DEF Current, Executing
<1>3. OneSignal(d)'
  <2>1. OneSignal(d)
    BY DEF ChipOK
  <2> QED BY <1>2, <2>1 DEF OneSignal
<1>4. HardwareFollows(d)'
  <2>1. PageInRegister(d)' = PageInRegister(d)
    BY DEF PageInRegister, Empty
  <2> QED BY <2>1 DEF ChipOK, HardwareFollows, Empty
<1>5. CopyIsErases(d)'
  BY DEF ChipOK, CopyIsErases
<1> QED BY <1>1, <1>3, <1>4, <1>5 DEF ChipOK

\* What Send does when the hardware accepts.
Sends(c, CMD, id) ==
  /\ channelState' = CMD /\ chipState' = [chipState EXCEPT ![c] = CMD]
  /\ hwChannel' = CMD /\ hwChip' = [hwChip EXCEPT ![c] = CMD]
  /\ hwID' = [hwID EXCEPT ![c] = id] /\ preCMD' = [preCMD EXCEPT ![c] = AddressOf(id)]
  /\ channelTimer' = "set" /\ chipTimer' = [chipTimer EXCEPT ![c] = "set"]
  /\ refused' = refused

LEMMA Accepted ==
  ASSUME ChannelOK, NEW c \in Chips, ChipOK(c), NEW CMD \in CMDs, NEW id,
         channelState = "IDLE", chipState[c] = "IDLE", chipTimer \in [Chips -> {"off", "set", "fired"}],
         hwChip \in [Chips -> States], preCMD \in [Chips -> Addresses], hwChannel \in States,
         IF CMD = "READ_DATA" THEN incompletedR[c] = <<id>> ELSE incompletedR[c] = <<>>,
         Send(c, CMD, AddressOf(id), id)
  PROVE  Sends(c, CMD, id)
<1>1. hwChannel = "IDLE"
  BY DEF ChannelOK
<1>2. chipTimer[c] = "off"
  BY DEF ChipOK, OneSignal
<1>3. hwChip[c] = IF incompletedR[c] # <<>> THEN "READ_ADDR" ELSE "IDLE"
  BY <1>2 DEF ChipOK, HardwareFollows, PageInRegister, Empty
<1>4. CMD = "READ_DATA" => hwChip[c] = "READ_ADDR" /\ preCMD[c] = AddressOf(id)
  <2>1. SUFFICES ASSUME CMD = "READ_DATA" PROVE hwChip[c] = "READ_ADDR" /\ preCMD[c] = AddressOf(id)
    OBVIOUS
  <2>2. incompletedR[c] = <<id>>
    BY <2>1
  <2>3. Head(incompletedR[c]) = id /\ incompletedR[c] # <<>>
    BY <2>2, ContainsOne
  <2> QED BY <1>3, <2>3 DEF ChipOK, HardwareFollows, Empty
<1>5. CMD # "READ_DATA" => hwChip[c] = "IDLE"
  BY <1>3
<1>6. Accepts(c, CMD, AddressOf(id))
  BY <1>1, <1>4, <1>5 DEF Accepts
<1> QED BY <1>6 DEF Send, send_cmd_2_NAND, Sends

\* The queues of the chip that is sent something.
LEMMA SentChip ==
  ASSUME TypeOK, NEW c \in Chips, ChipOK(c), chipState[c] = "IDLE",
         NEW CMD \in CMDs, NEW id \in Carriable(c) \cup {Erase(c)}, Sends(c, CMD, id),
         chipWork'[c] = chipWork[c],
         chipPc'[c] = "receive" <=> chipPc[c] = "receive",
         commands' \in [Chips -> Seq(CommandIDs)],
         incompletedR' \in [Chips -> Seq(CommandIDs)],
         \/ /\ CMD \in {"PROGRAM", "READ_ADDR"} /\ id \in Carriable(c)
            /\ commands'[c] = <<id>> /\ incompletedR'[c] = <<>>
         \/ /\ CMD = "READ_DATA" /\ id \in Carriable(c)
            /\ commands'[c] = <<>> /\ incompletedR'[c] = <<id>>
         \/ /\ CMD = "ERASE" /\ id = Erase(c)
            /\ commands'[c] = <<>> /\ incompletedR'[c] = <<>>
  PROVE  Carries(c)' /\ OneSignal(c)' /\ HardwareFollows(c)'
<1>1. /\ chipState'[c] = CMD /\ hwChip'[c] = CMD /\ hwID'[c] = id
      /\ preCMD'[c] = AddressOf(id) /\ chipTimer'[c] = "set"
  BY DEF Sends, TypeOK, NANDTypeOK
<1>2. Carries(c)'
  BY <1>1 DEF Carries, Empty, Holds, Carriable, CMDs
<1>3. ~chipWork[c] /\ chipPc[c] # "receive"
  BY DEF ChipOK, OneSignal
<1>4. Current(c)' = id
  <2>1. Executing(c)' = <<id>>
    <3>1. CASE CMD \in {"PROGRAM", "READ_ADDR"}
      BY <1>1, <3>1 DEF Executing
    <3>2. CASE CMD = "READ_DATA"
      BY <1>1, <3>2 DEF Executing
    <3>3. CASE CMD = "ERASE"
      BY <1>1, <3>3 DEF Executing
    <3> QED BY <3>1, <3>2, <3>3 DEF CMDs
  <2> QED BY <2>1, ContainsOne DEF Current
<1>5. OneSignal(c)'
  BY <1>1, <1>3, <1>4 DEF OneSignal, CMDs
<1>6. HardwareFollows(c)'
  <2>1. chipState'[c] # "IDLE"
    BY <1>1 DEF CMDs
  <2>2. chipState'[c] = "READ_ADDR" => Head(commands'[c]) = id
    BY <1>1, ContainsOne
  <2> QED BY <1>1, <2>1, <2>2 DEF HardwareFollows
<1> QED BY <1>2, <1>5, <1>6

LEMMA EnqueueOne ==
  ASSUME TypeOK, ChannelOK, NEW c \in Chips, ChipOK(c), channelState = "IDLE", chipState[c] = "IDLE",
         incompletedR[c] = <<>>, NEW id \in Carriable(c), Enqueue(c, id)
  PROVE  \E CMD \in {"PROGRAM", "READ_ADDR"} :
           /\ Sends(c, CMD, id) /\ commands' = [commands EXCEPT ![c] = <<id>>]
           /\ CMD = "PROGRAM" /\ IsCopy(id) => id[4] = "WRITE"
<1>1. commands[c] = <<>>
  BY DEF ChipOK, Carries, Empty
<1>2. commands' = [commands EXCEPT ![c] = <<id>>] /\ SendCommand(c, id)
  BY <1>1, ContainsOne DEF Enqueue
<1> DEFINE CMD == IF OpOf(id) = "READ" THEN "READ_ADDR" ELSE "PROGRAM"
<1>3. Send(c, CMD, AddressOf(id), id)
  BY <1>2 DEF SendCommand
<1>4. CMD \in {"PROGRAM", "READ_ADDR"} /\ CMD \in CMDs
  BY DEF CMDs
<1>5. CMD = "PROGRAM" /\ IsCopy(id) => id[4] = "WRITE"
  <2>1. SUFFICES ASSUME CMD = "PROGRAM", IsCopy(id) PROVE id[4] = "WRITE"
    OBVIOUS
  <2>2. id[4] # "READ"
    <3>1. OpOf(id) # "READ"
      BY <2>1
    <3>2. OpOf(id) = id[4]
      BY <2>1 DEF OpOf, IsCopy
    <3> QED BY <3>1, <3>2
  <2>3. PICK n \in 1..MaxCopies, op \in {"READ", "WRITE"} : id = Copy(c, n, op)
    BY <2>1, SubNames DEF Carriable
  <2> QED BY <2>2, <2>3, CopyNames
<1> HIDE DEF CMD
<1>6. Sends(c, CMD, id)
  BY <1>3, <1>4, Accepted DEF TypeOK, NANDTypeOK
<1> QED BY <1>2, <1>4, <1>5, <1>6

\* What get_Command does, case by case.
SendsPage(c) ==
  \E id \in Carriable(c) :
    /\ incompletedR[c] = <<id>> /\ Sends(c, "READ_DATA", id)
    /\ UNCHANGED <<rList, wList, wTail, commands, incompletedR, erase>>
SendsErase(c) ==
  /\ Sends(c, "ERASE", Erase(c)) /\ incompletedR[c] = <<>>
  /\ erase' = [erase EXCEPT ![c].copy = "NONE"]
  /\ UNCHANGED <<rList, wList, wTail, commands, incompletedR>>
SendsNew(c, CMD, id) ==
  /\ Sends(c, CMD, id) /\ CMD \in {"PROGRAM", "READ_ADDR"}
  /\ CMD = "PROGRAM" /\ IsCopy(id) => id[4] = "WRITE"
  /\ incompletedR[c] = <<>>
  /\ commands' = [commands EXCEPT ![c] = <<id>>] /\ UNCHANGED incompletedR
SendsCopy(c) ==
  \E CMD \in CMDs, op \in {"READ", "WRITE"} :
    /\ SendsNew(c, CMD, Copy(c, erase[c].pages, op))
    /\ erase[c].used /\ erase[c].pages \in 1..MaxCopies
    /\ erase' = [erase EXCEPT ![c].copy = op, ![c].completed = FALSE]
    /\ UNCHANGED <<rList, wList, wTail>>
SendsRead(c) ==
  /\ rList[c] # <<>> /\ Head(rList[c]) \in Subs
  /\ \E CMD \in CMDs : SendsNew(c, CMD, Head(rList[c]))
  /\ rList' = [rList EXCEPT ![c] = Tail(@)]
  /\ UNCHANGED <<wList, wTail, erase>>
SendsWrite(c) ==
  /\ \E i \in Writable(c) :
       /\ wList[c][i] \in Subs /\ relatedSub[wList[c][i]] = NoSub /\ i \in 1..Len(wList[c])
       /\ \E CMD \in CMDs : SendsNew(c, CMD, wList[c][i])
       /\ wList' = [wList EXCEPT ![c] = RemoveAt(@, i)]
       /\ wTail' \in [Chips -> Subs \cup {NoSub}]
  /\ UNCHANGED <<rList, erase>>

LEMMA GetCommand ==
  ASSUME TypeOK, ChannelOK, NEW c \in Chips, ChipOK(c), channelState = "IDLE", chipState[c] = "IDLE",
         get_Command(c)
  PROVE  SendsPage(c) \/ SendsErase(c) \/ SendsCopy(c) \/ SendsRead(c) \/ SendsWrite(c)
<1>1. CASE /\ incompletedR[c] # <<>>
           /\ LET id == Head(incompletedR[c]) IN Send(c, "READ_DATA", AddressOf(id), id)
           /\ UNCHANGED <<lists, queues>>
  <2>1. PICK id \in Carriable(c) : incompletedR[c] = <<id>>
    BY <1>1 DEF ChipOK, Carries, Empty, Holds
  <2>2. Send(c, "READ_DATA", AddressOf(id), id)
    BY <1>1, <2>1, ContainsOne
  <2>3. Sends(c, "READ_DATA", id)
    BY <2>1, <2>2, Accepted DEF TypeOK, NANDTypeOK, CMDs
  <2> QED BY <1>1, <2>1, <2>3 DEF SendsPage, lists, queues
<1>2. CASE /\ incompletedR[c] = <<>> /\ ~EraseBlocked(erase[c])
           /\ for_erase(c)
           /\ UNCHANGED <<lists, incompletedR>>
  <2> DEFINE e == erase[c]
  <2>1. e \in [used : BOOLEAN, pages : 0..MaxCopies, copy : {"NONE", "READ", "WRITE"}, completed : BOOLEAN]
    BY DEF TypeOK
  <2>2. e.used /\ (e.copy = "NONE" \/ e.completed)
    BY <1>2, <2>1 DEF EraseBlocked
  <2>3. e.copy = "READ" => e.pages > 0
    BY DEF ChipOK, CopyIsErases
  <2>4. UNCHANGED <<rList, wList, wTail, incompletedR>>
    BY <1>2 DEF lists
  <2>5. ASSUME NEW op \in {"READ", "WRITE"}, e.pages > 0, Enqueue(c, Copy(c, e.pages, op)),
               erase' = [erase EXCEPT ![c].copy = op, ![c].completed = FALSE]
        PROVE  SendsCopy(c)
    <3>1. e.pages \in 1..MaxCopies
      BY <2>1, <2>5, SchedulerAssumption
    <3>2. Copy(c, e.pages, op) \in Carriable(c)
      BY <3>1 DEF Carriable
    <3>3. PICK CMD \in {"PROGRAM", "READ_ADDR"} :
            /\ Sends(c, CMD, Copy(c, e.pages, op))
            /\ commands' = [commands EXCEPT ![c] = <<Copy(c, e.pages, op)>>]
            /\ CMD = "PROGRAM" /\ IsCopy(Copy(c, e.pages, op)) => Copy(c, e.pages, op)[4] = "WRITE"
      BY <1>2, <2>5, <3>2, EnqueueOne
    <3>4. CMD \in CMDs
      BY DEF CMDs
    <3>5. SendsNew(c, CMD, Copy(c, e.pages, op))
      BY <1>2, <2>4, <3>3 DEF SendsNew
    <3> QED BY <2>2, <2>4, <2>5, <3>1, <3>4, <3>5 DEF SendsCopy
  <2>6. CASE /\ e.copy = "READ" /\ e.completed
             /\ erase' = [erase EXCEPT ![c].copy = "WRITE", ![c].completed = FALSE]
             /\ Enqueue(c, Copy(c, e.pages, "WRITE"))
    BY <2>3, <2>5, <2>6
  <2>7. CASE /\ e.copy # "READ" /\ e.pages > 0
             /\ erase' = [erase EXCEPT ![c].copy = "READ", ![c].completed = FALSE]
             /\ Enqueue(c, Copy(c, e.pages, "READ"))
    BY <2>5, <2>7
  <2>8. CASE /\ e.copy # "READ" /\ e.pages = 0
             /\ erase' = [erase EXCEPT ![c].copy = "NONE"]
             /\ Send(c, "ERASE", Erase(c), Erase(c))
             /\ UNCHANGED commands
    <3>1. AddressOf(Erase(c)) = Erase(c)
      BY DEF AddressOf, IsCopy, Erase
    <3>2. Sends(c, "ERASE", Erase(c))
      BY <1>2, <2>8, <3>1, Accepted DEF TypeOK, NANDTypeOK, CMDs
    <3> QED BY <1>2, <2>4, <2>8, <3>2 DEF SendsErase
  <2> QED BY <1>2, <2>6, <2>7, <2>8 DEF for_erase
<1>3. CASE /\ incompletedR[c] = <<>> /\ rList[c] # <<>> /\ get_SubRequests_Read(c)
           /\ UNCHANGED <<incompletedR, erase>>
  <2>1. Head(rList[c]) \in Subs
    <3>1. rList[c] \in Seq(Subs)
      BY DEF TypeOK
    <3> QED BY <1>3, <3>1
  <2>2. Head(rList[c]) \in Carriable(c)
    BY <2>1 DEF Carriable
  <2>3. PICK CMD \in {"PROGRAM", "READ_ADDR"} :
            /\ Sends(c, CMD, Head(rList[c]))
            /\ commands' = [commands EXCEPT ![c] = <<Head(rList[c])>>]
            /\ CMD = "PROGRAM" /\ IsCopy(Head(rList[c])) => Head(rList[c])[4] = "WRITE"
    BY <1>3, <2>2, EnqueueOne DEF get_SubRequests_Read
  <2>4. CMD \in CMDs
    BY DEF CMDs
  <2>5. SendsNew(c, CMD, Head(rList[c]))
    BY <1>3, <2>3 DEF SendsNew
  <2> QED BY <1>3, <2>1, <2>4, <2>5 DEF SendsRead, get_SubRequests_Read
<1>4. CASE /\ incompletedR[c] = <<>> /\ get_SubRequests_Write(c)
           /\ UNCHANGED <<incompletedR, erase>>
  <2>1. PICK i \in Writable(c) :
          /\ wList' = [wList EXCEPT ![c] = RemoveAt(@, i)]
          /\ wTail' = [wTail EXCEPT ![c] = IF @ = wList[c][i] THEN NoSub ELSE @]
          /\ Enqueue(c, wList[c][i])
          /\ UNCHANGED rList
    BY <1>4 DEF get_SubRequests_Write
  <2> DEFINE id == wList[c][i]
  <2>2. i \in 1..Len(wList[c]) /\ id \in Subs /\ relatedSub[id] = NoSub
    <3>1. wList[c] \in Seq(Subs)
      BY DEF TypeOK
    <3>2. i \in DOMAIN wList[c] /\ relatedSub[wList[c][i]] = NoSub
      BY DEF Writable
    <3> QED BY <3>1, <3>2
  <2>3. id \in Carriable(c)
    BY <2>2 DEF Carriable
  <2>4. Enqueue(c, id) /\ wTail' = [wTail EXCEPT ![c] = IF @ = id THEN NoSub ELSE @]
    BY <2>1
  <2>5. wTail' \in [Chips -> Subs \cup {NoSub}]
    <3> HIDE DEF id
    <3> QED BY <2>4 DEF TypeOK
  <2>6. PICK CMD \in {"PROGRAM", "READ_ADDR"} :
            /\ Sends(c, CMD, id)
            /\ commands' = [commands EXCEPT ![c] = <<id>>]
            /\ CMD = "PROGRAM" /\ IsCopy(id) => id[4] = "WRITE"
    <3> HIDE DEF id
    <3> QED BY <1>4, <2>3, <2>4, EnqueueOne
  <2>7. CMD \in CMDs
    BY DEF CMDs
  <2>8. SendsNew(c, CMD, id)
    BY <1>4, <2>6 DEF SendsNew
  <2> QED BY <1>4, <2>1, <2>2, <2>5, <2>7, <2>8 DEF SendsWrite
<1> QED BY <1>1, <1>2, <1>3, <1>4 DEF get_Command

\* What a thread that looks for a command does besides.
Passes ==
  /\ chipWork' = chipWork /\ commandID' = commandID /\ channelWork' = channelWork
  /\ chipPc' \in [Chips -> {"none", "receive", "check", "end", "asleep", "dispatch"}]
  /\ chipID' \in [Chips -> CommandIDs] /\ channelPc' \in {"none", "dispatch"}
  /\ \A d \in Chips : \/ chipPc'[d] = chipPc[d] /\ chipID'[d] = chipID[d]
                      \/ chipPc[d] = "dispatch" /\ chipPc'[d] = "none"
  /\ \/ hostPc' = hostPc
     \/ /\ hostPc = "dispatch writes"
        /\ hostPc' = IF \E k \in Pages : RMW(k) \in pending THEN "add reads" ELSE "init mutex"
     \/ hostPc = "dispatch reads" /\ hostPc' = "init mutex"

\* A chip is sent a command; the other chips stay as they are.
LEMMA SentChips ==
  ASSUME TypeOK, ChannelOK, \A d \in Chips : ChipOK(d), NEW c \in Chips,
         channelState = "IDLE", chipState[c] = "IDLE", Passes,
         SendsPage(c) \/ SendsErase(c) \/ SendsCopy(c) \/ SendsRead(c) \/ SendsWrite(c)
  PROVE  /\ \A d \in Chips : ChipOK(d)'
         /\ ChannelOK' /\ refused' = refused
         /\ commands' \in [Chips -> Seq(CommandIDs)] /\ incompletedR' = incompletedR
         /\ erase' \in [Chips -> [used : BOOLEAN, pages : 0..MaxCopies,
                          copy : {"NONE", "READ", "WRITE"}, completed : BOOLEAN]]
         /\ \E CMD \in CMDs, id \in CommandIDs : Sends(c, CMD, id)
<1> DEFINE Erases == [used : BOOLEAN, pages : 0..MaxCopies,
                      copy : {"NONE", "READ", "WRITE"}, completed : BOOLEAN]
<1>1. /\ erase \in [Chips -> Erases] /\ commands \in [Chips -> Seq(CommandIDs)]
      /\ incompletedR \in [Chips -> Seq(CommandIDs)]
  BY DEF TypeOK
<1> HIDE DEF Erases
<1>2. /\ commands[c] = <<>> /\ chipWork'[c] = chipWork[c]
      /\ chipPc'[c] = "receive" <=> chipPc[c] = "receive"
  BY DEF Passes, ChipOK, Carries, Empty
<1>3. ASSUME NEW CMD \in CMDs, NEW id \in CommandIDs, Sends(c, CMD, id),
             NEW queue, commands' = [commands EXCEPT ![c] = queue], incompletedR' = incompletedR,
             NEW e, erase' = [erase EXCEPT ![c] = e], Carries(c)', OneSignal(c)',
             HardwareFollows(c)', CopyIsErases(c)'
      PROVE  /\ \A d \in Chips : ChipOK(d)'
             /\ ChannelOK' /\ refused' = refused
  <2>1. ASSUME NEW d \in Chips, d # c PROVE ChipOK(d)'
    <3>1. /\ chipState'[d] = chipState[d] /\ hwChip'[d] = hwChip[d] /\ hwID'[d] = hwID[d]
          /\ preCMD'[d] = preCMD[d] /\ chipTimer'[d] = chipTimer[d]
      BY <1>3, <2>1 DEF Sends, TypeOK, NANDTypeOK
    <3>2. /\ commands'[d] = commands[d] /\ incompletedR'[d] = incompletedR[d]
          /\ erase'[d] = erase[d]
      BY <1>1, <1>3, <2>1
    <3>3. /\ chipWork'[d] = chipWork[d] /\ commandID'[d] = commandID[d]
          /\ chipPc'[d] = "receive" <=> chipPc[d] = "receive"
          /\ chipPc[d] = "receive" => chipID'[d] = chipID[d]
      BY DEF Passes
    <3> QED BY <3>1, <3>2, <3>3, SameChip
  <2>2. ChannelOK'
    <3>1. channelTimer = "off" /\ ~channelWork
      BY DEF ChannelOK
    <3>2. ~channelWork' /\ channelState' # "IDLE" /\ channelTimer' = "set"
      BY <1>3, <3>1 DEF Passes, Sends, CMDs
    <3> QED BY <3>2 DEF ChannelOK
  <2> QED BY <1>3, <2>1, <2>2 DEF ChipOK, Sends
<1>4. CASE SendsPage(c)
  <2>1. PICK id \in Carriable(c) :
          /\ incompletedR[c] = <<id>> /\ Sends(c, "READ_DATA", id)
          /\ UNCHANGED <<commands, incompletedR, erase>>
    BY <1>4 DEF SendsPage
  <2>2. id \in CommandIDs /\ "READ_DATA" \in CMDs
    BY CopyNames DEF CMDs
  <2>3. Carries(c)' /\ OneSignal(c)' /\ HardwareFollows(c)'
    BY <1>1, <1>2, <2>1, <2>2, SentChip
  <2>4. chipState'[c] = "READ_DATA"
    BY <2>1 DEF Sends, TypeOK
  <2>5. CopyIsErases(c)'
    BY <2>1, <2>4 DEF ChipOK, CopyIsErases
  <2>6. commands' = [commands EXCEPT ![c] = commands[c]] /\ erase' = [erase EXCEPT ![c] = erase[c]]
    BY <1>1, <2>1
  <2> QED BY <1>1, <1>3, <2>1, <2>2, <2>3, <2>5, <2>6 DEF Erases
<1>5. CASE SendsErase(c)
  <2>1. /\ Sends(c, "ERASE", Erase(c)) /\ incompletedR[c] = <<>>
        /\ UNCHANGED <<commands, incompletedR>>
    BY <1>5 DEF SendsErase
  <2>2. Erase(c) \in CommandIDs /\ "ERASE" \in CMDs
    BY CopyNames DEF CMDs
  <2>3. Carries(c)' /\ OneSignal(c)' /\ HardwareFollows(c)'
    BY <1>1, <1>2, <2>1, <2>2, SentChip
  <2> DEFINE e == [erase[c] EXCEPT !.copy = "NONE"]
  <2>4. e \in Erases /\ erase' = [erase EXCEPT ![c] = e] /\ e.copy = "NONE"
    BY <1>1, <1>5 DEF SendsErase, Erases
  <2> HIDE DEF e
  <2>5. chipState'[c] = "ERASE" /\ erase'[c] = e
    BY <1>1, <2>1, <2>4 DEF Sends, TypeOK
  <2>6. commands'[c] = <<>> /\ incompletedR'[c] = <<>>
    BY <1>2, <2>1
  <2>7. CopyIsErases(c)'
    BY <2>4, <2>5, <2>6 DEF CopyIsErases
  <2>8. commands' = [commands EXCEPT ![c] = commands[c]]
    BY <1>1, <2>1
  <2>9. erase' \in [Chips -> Erases]
    BY <1>1, <2>4
  <2> QED BY <1>1, <1>3, <2>1, <2>2, <2>3, <2>4, <2>7, <2>8, <2>9 DEF Erases
<1>6. ASSUME NEW CMD \in CMDs, NEW id \in Carriable(c), SendsNew(c, CMD, id)
      PROVE  /\ Carries(c)' /\ OneSignal(c)' /\ HardwareFollows(c)'
             /\ commands' \in [Chips -> Seq(CommandIDs)] /\ id \in CommandIDs
             /\ chipState'[c] = CMD /\ commands'[c] = <<id>> /\ incompletedR'[c] = <<>>
             /\ IsCopy(id) => (chipState'[c] = "PROGRAM" => id[4] = "WRITE")
  <2>1. /\ Sends(c, CMD, id) /\ CMD \in {"PROGRAM", "READ_ADDR"} /\ incompletedR[c] = <<>>
        /\ commands' = [commands EXCEPT ![c] = <<id>>] /\ incompletedR' = incompletedR
    BY <1>6 DEF SendsNew
  <2>2. id \in CommandIDs
    BY CopyNames
  <2>3. <<id>> \in Seq(CommandIDs)
    BY <2>2
  <2>4. commands' \in [Chips -> Seq(CommandIDs)] /\ commands'[c] = <<id>> /\ incompletedR'[c] = <<>>
    BY <1>1, <2>1, <2>3
  <2>5. Carries(c)' /\ OneSignal(c)' /\ HardwareFollows(c)'
    BY <1>1, <1>2, <2>1, <2>4, SentChip
  <2>6. chipState'[c] = CMD
    BY <2>1 DEF Sends, TypeOK
  <2> QED BY <1>6, <2>2, <2>4, <2>5, <2>6 DEF SendsNew
<1>7. CASE SendsCopy(c)
  <2>1. PICK CMD \in CMDs, op \in {"READ", "WRITE"} :
          /\ SendsNew(c, CMD, Copy(c, erase[c].pages, op))
          /\ erase[c].used /\ erase[c].pages \in 1..MaxCopies
          /\ erase' = [erase EXCEPT ![c].copy = op, ![c].completed = FALSE]
    BY <1>7 DEF SendsCopy
  <2> DEFINE id == Copy(c, erase[c].pages, op)
             e == [erase[c] EXCEPT !.copy = op, !.completed = FALSE]
  <2>2. id \in Carriable(c) /\ SendsNew(c, CMD, id)
    BY <2>1 DEF Carriable
  <2>3. /\ e \in Erases /\ erase' = [erase EXCEPT ![c] = e]
        /\ e.used /\ e.copy = op /\ ~e.completed /\ e.pages = erase[c].pages /\ e.pages > 0
    <3>1. erase[c] \in Erases /\ erase' = [erase EXCEPT ![c] = e]
      BY <1>1, <2>1
    <3>2. /\ e \in Erases /\ e.copy = op /\ ~e.completed /\ e.used = erase[c].used
          /\ e.pages = erase[c].pages
      BY <3>1 DEF Erases
    <3>3. erase[c].pages > 0
      BY <2>1, SchedulerAssumption
    <3> QED BY <2>1, <3>1, <3>2, <3>3
  <2>4. id = Copy(c, e.pages, e.copy)
    BY <2>3
  <2> HIDE DEF e, id
  <2>5. /\ Carries(c)' /\ OneSignal(c)' /\ HardwareFollows(c)'
        /\ commands' \in [Chips -> Seq(CommandIDs)] /\ id \in CommandIDs
        /\ chipState'[c] = CMD /\ commands'[c] = <<id>> /\ incompletedR'[c] = <<>>
        /\ IsCopy(id) => (chipState'[c] = "PROGRAM" => id[4] = "WRITE")
    BY <1>6, <2>2
  <2>6. erase'[c] = e /\ erase' \in [Chips -> Erases]
    BY <1>1, <2>3
  <2>7. Head(commands'[c]) = id
    BY <2>5, ContainsOne
  <2>8. CopyIsErases(c)'
    BY <2>3, <2>4, <2>5, <2>6, <2>7 DEF CopyIsErases
  <2> QED BY <1>1, <1>3, <2>2, <2>3, <2>5, <2>6, <2>8 DEF SendsNew, Erases
<1>8. ASSUME NEW CMD \in CMDs, NEW id \in Subs, SendsNew(c, CMD, id), erase' = erase
      PROVE  /\ \A d \in Chips : ChipOK(d)'
             /\ ChannelOK' /\ refused' = refused
             /\ commands' \in [Chips -> Seq(CommandIDs)] /\ incompletedR' = incompletedR
             /\ erase' \in [Chips -> Erases]
             /\ Sends(c, CMD, id) /\ id \in CommandIDs
  <2>1. id \in Carriable(c) /\ ~IsCopy(id)
    BY SubNames DEF Carriable
  <2>2. /\ Carries(c)' /\ OneSignal(c)' /\ HardwareFollows(c)'
        /\ commands' \in [Chips -> Seq(CommandIDs)] /\ id \in CommandIDs
        /\ commands'[c] = <<id>> /\ incompletedR'[c] = <<>>
    BY <1>6, <1>8, <2>1
  <2>3. Head(commands'[c]) = id /\ erase'[c] = erase[c]
    BY <1>8, <2>2, ContainsOne
  <2>4. CopyIsErases(c)'
    BY <2>1, <2>2, <2>3 DEF CopyIsErases, ChipOK
  <2>5. erase' = [erase EXCEPT ![c] = erase[c]]
    BY <1>1, <1>8
  <2> QED BY <1>1, <1>3, <1>8, <2>2, <2>4, <2>5 DEF SendsNew
<1>9. CASE SendsRead(c)
  <2>1. PICK CMD \in CMDs : SendsNew(c, CMD, Head(rList[c])) /\ Head(rList[c]) \in Subs /\ erase' = erase
    BY <1>9 DEF SendsRead
  <2> QED BY <1>8, <2>1 DEF Erases
<1>10. CASE SendsWrite(c)
  <2>1. PICK i \in Writable(c), CMD \in CMDs : SendsNew(c, CMD, wList[c][i]) /\ wList[c][i] \in Subs /\ erase' = erase
    BY <1>10 DEF SendsWrite
  <2> QED BY <1>8, <2>1 DEF Erases
<1> QED BY <1>4, <1>5, <1>7, <1>9, <1>10

-----------------------------------------------------------------------------
(* Places.                                                                 *)

PlaceNames == {"r", "w", "commands", "incompleted", "ending"}

LEMMA AtPlace ==
  ASSUME NEW s, NEW d
  PROVE  /\ IsAt(s, "r", d) <=> Contains(rList[d], s)
         /\ IsAt(s, "w", d) <=> Contains(wList[d], s)
         /\ IsAt(s, "commands", d) <=> Contains(commands[d], s)
         /\ IsAt(s, "incompleted", d) <=> Contains(incompletedR[d], s)
         /\ IsAt(s, "ending", d) <=> Ending(d) /\ chipID[d] = s
         /\ IsAt(s, "r", d)' <=> Contains(rList'[d], s)
         /\ IsAt(s, "w", d)' <=> Contains(wList'[d], s)
         /\ IsAt(s, "commands", d)' <=> Contains(commands'[d], s)
         /\ IsAt(s, "incompleted", d)' <=> Contains(incompletedR'[d], s)
         /\ IsAt(s, "ending", d)' <=> Ending(d)' /\ chipID'[d] = s
  BY DEF IsAt, Ending

LEMMA InPlaces ==
  ASSUME NEW s
  PROVE  /\ \A pl \in Places(s) : pl \in PlaceNames \X Chips
         /\ \A q \in PlaceNames, d \in Chips :
              /\ <<q, d>> \in Places(s) <=> IsAt(s, q, d)
              /\ <<q, d>> \in Places(s)' <=> IsAt(s, q, d)'
         /\ (\A q \in PlaceNames, d \in Chips : IsAt(s, q, d)' <=> IsAt(s, q, d))
              => Places(s)' = Places(s)
<1>1. \A pl \in PlaceNames \X Chips :
        /\ pl[1] \in PlaceNames /\ pl[2] \in Chips
        /\ pl \in Places(s) <=> IsAt(s, pl[1], pl[2])
        /\ pl \in Places(s)' <=> IsAt(s, pl[1], pl[2])'
  BY DEF Places, PlaceNames
<1>2. \A pl : pl \in Places(s) \/ pl \in Places(s)' => pl \in PlaceNames \X Chips
  BY DEF Places, PlaceNames
<1>3. \A q \in PlaceNames, d \in Chips : <<q, d>> \in PlaceNames \X Chips /\ <<q, d>>[1] = q /\ <<q, d>>[2] = d
  OBVIOUS
<1>4. \A q \in PlaceNames, d \in Chips :
        /\ <<q, d>> \in Places(s) <=> IsAt(s, q, d)
        /\ <<q, d>> \in Places(s)' <=> IsAt(s, q, d)'
  <2> TAKE q \in PlaceNames, d \in Chips
  <2> DEFINE pl == <<q, d>>
  <2>1. pl \in PlaceNames \X Chips /\ pl[1] = q /\ pl[2] = d
    BY <1>3
  <2> HIDE DEF pl
  <2>2. /\ pl \in Places(s) <=> IsAt(s, q, d)
        /\ pl \in Places(s)' <=> IsAt(s, q, d)'
    BY <1>1, <2>1
  <2> QED BY <2>2 DEF pl
<1>5. ASSUME \A q \in PlaceNames, d \in Chips : IsAt(s, q, d)' <=> IsAt(s, q, d)
      PROVE  Places(s)' = Places(s)
  <2>1. \A pl : pl \in Places(s)' <=> pl \in Places(s)
    BY <1>1, <1>2, <1>5
  <2> QED BY <2>1
<1> QED BY <1>2, <1>4, <1>5

\* Whatever is somewhere is pending and has been added, and is nowhere else.
LEMMA Placed ==
  ASSUME InOnePlace, NEW s \in Subs, NEW q \in PlaceNames, NEW d \in Chips, IsAt(s, q, d)
  PROVE  /\ s \in pending /\ Added(s)
         /\ Places(s) = {<<q, d>>}
         /\ \A p \in PlaceNames, b \in Chips : IsAt(s, p, b) => p = q /\ b = d
<1>1. <<q, d>> \in Places(s)
  BY InPlaces
<1>2. s \in pending /\ Added(s)
  BY <1>1 DEF InOnePlace
<1>3. Places(s) = {<<q, d>>}
  BY <1>1, <1>2 DEF InOnePlace
<1>4. ASSUME NEW p \in PlaceNames, NEW b \in Chips, IsAt(s, p, b) PROVE p = q /\ b = d
  <2>1. <<p, b>> \in Places(s)
    BY <1>4, InPlaces
  <2>2. <<p, b>> = <<q, d>>
    BY <1>3, <2>1
  <2> QED BY <2>2
<1> QED BY <1>2, <1>3, <1>4

\* If nothing moves, and nothing is added or ends, everything stays in its place.
LEMMA NothingMoves ==
  ASSUME InOnePlace, RelatedOK,
         \A x \in Subs, q \in PlaceNames, d \in Chips : IsAt(x, q, d)' <=> IsAt(x, q, d),
         UNCHANGED <<pending, relatedSub, operation, chipOf>>,
         \A x \in pending : Added(x)' <=> Added(x)
  PROVE  InOnePlace' /\ RelatedOK'
<1>1. \A x \in Subs : Places(x)' = Places(x)
  BY InPlaces
<1>2. InOnePlace'
  BY <1>1 DEF InOnePlace
<1>3. RelatedOK'
  BY <1>1, SubNames DEF RelatedOK
<1> QED BY <1>2, <1>3

\* One sub-request goes from one place to another.
LEMMA OneMoves ==
  ASSUME InOnePlace, RelatedOK,
         NEW s \in Subs, NEW p \in PlaceNames, NEW q \in PlaceNames, NEW c \in Chips,
         IsAt(s, p, c), p # q, p = "w" => relatedSub[s] = NoSub,
         \A x \in Subs, r \in PlaceNames, d \in Chips :
            x # s => (IsAt(x, r, d)' <=> IsAt(x, r, d)),
         \A r \in PlaceNames, d \in Chips : IsAt(s, r, d)' <=> (r = q /\ d = c),
         UNCHANGED <<pending, relatedSub, operation, chipOf>>,
         \A x \in pending : Added(x)' <=> Added(x)
  PROVE  InOnePlace' /\ RelatedOK'
<1>1. \A x \in Subs : x # s => Places(x)' = Places(x)
  BY InPlaces
<1>2. Places(s)' = {<<q, c>>}
  <2>1. <<q, c>> \in Places(s)'
    BY InPlaces
  <2>2. ASSUME NEW pl \in Places(s)' PROVE pl = <<q, c>>
    <3>1. PICK r \in PlaceNames, d \in Chips : pl = <<r, d>>
      BY <2>2 DEF Places, PlaceNames
    <3>2. IsAt(s, r, d)'
      BY <2>2, <3>1, InPlaces
    <3> QED BY <3>1, <3>2
  <2> QED BY <2>1, <2>2
<1>3. s \in pending /\ Added(s) /\ Places(s) = {<<p, c>>}
  BY Placed
<1>4. InOnePlace'
  <2> SUFFICES ASSUME NEW x \in Subs
               PROVE  /\ (x \in pending /\ Added(x))' => \E pl \in Places(x)' : Places(x)' = {pl}
                      /\ ~(x \in pending /\ Added(x))' => Places(x)' = {}
    BY DEF InOnePlace
  <2>1. CASE x = s
    <3>1. x \in pending' /\ Added(x)'
      BY <1>3, <2>1
    <3>2. Places(x)' = {<<q, c>>}
      BY <1>2, <2>1
    <3> QED BY <3>1, <3>2
  <2>2. CASE x # s
    BY <1>1, <2>2 DEF InOnePlace
  <2> QED BY <2>1, <2>2
<1>5. RelatedOK'
  <2>1. \A k \in Pages : s = Main(k) => RMW(k) \notin pending
    <3> SUFFICES ASSUME NEW k \in Pages, s = Main(k), RMW(k) \in pending PROVE FALSE
      OBVIOUS
    <3>1. relatedSub[s] = RMW(k) /\ \A pl \in Places(s) : pl[1] = "w"
      BY DEF RelatedOK
    <3>2. p = "w"
      BY <1>3, <3>1
    <3>3. relatedSub[s] = NoSub
      BY <3>2
    <3> QED BY <3>1, <3>3, SubNames
  <2>2. \A k \in Pages : RMW(k) \in pending => Places(Main(k))' = Places(Main(k))
    BY <1>1, <2>1, SubNames
  <2> QED BY <2>2 DEF RelatedOK
<1> QED BY <1>4, <1>5

-----------------------------------------------------------------------------
(* allocate_command_USBSSD.                                                *)

\* Passing on does not change what counts as added.
LEMMA StillAdded ==
  ASSUME RequestOK, Passes, UNCHANGED request, pending \subseteq Subs,
         operation \in {"READ", "WRITE"}
  PROVE  /\ \A x \in pending : Added(x)' <=> Added(x)
         /\ RequestOK' /\ (hostPc' = "idle" => hostPc = "idle")
         /\ hostPc \in {"idle", "add writes", "dispatch writes", "add reads",
                        "dispatch reads", "init mutex", "wait"}
            => hostPc' \in {"idle", "add writes", "dispatch writes", "add reads",
                            "dispatch reads", "init mutex", "wait"}
<1>1. UNCHANGED <<operation, pending, subMutex>>
  BY DEF request
<1>2. \/ hostPc' = hostPc
      \/ /\ hostPc = "dispatch writes" /\ (operation = "WRITE" \/ pending = {})
         /\ hostPc' = IF \E k \in Pages : RMW(k) \in pending THEN "add reads" ELSE "init mutex"
      \/ hostPc = "dispatch reads" /\ hostPc' = "init mutex"
  BY DEF Passes, RequestOK
<1>3. ASSUME NEW x \in pending PROVE Added(x)' <=> Added(x)
  <2>1. PICK k \in Pages : x = Main(k) \/ x = RMW(k)
    BY SubNames
  <2>2. CASE hostPc' = hostPc
    BY <1>1, <2>2 DEF Added
  <2>3. CASE hostPc = "dispatch reads" /\ hostPc' = "init mutex"
    BY <1>1, <2>3 DEF Added
  <2>4. CASE /\ hostPc = "dispatch writes" /\ (operation = "WRITE" \/ pending = {})
             /\ hostPc' = IF \E j \in Pages : RMW(j) \in pending THEN "add reads" ELSE "init mutex"
    <3>1. hostPc' \in {"add reads", "init mutex"}
      BY <2>4
    <3>2. CASE x = Main(k)
      <4>1. x \in {Main(j) : j \in Pages}
        BY <3>2
      <4> QED BY <1>1, <2>4, <3>1, <4>1 DEF Added
    <3>3. CASE x = RMW(k)
      <4>1. x \notin {Main(j) : j \in Pages}
        BY <3>3, SubNames
      <4>2. hostPc' = "add reads"
        BY <2>4, <3>3
      <4> QED BY <1>1, <2>4, <4>1, <4>2 DEF Added
    <3> QED BY <2>1, <3>2, <3>3
  <2> QED BY <1>2, <2>2, <2>3, <2>4
<1>4. RequestOK'
  BY <1>1, <1>2 DEF RequestOK
<1> QED BY <1>2, <1>3, <1>4

\* Nothing ends while a thread passes.
LEMMA PassesEnding ==
  ASSUME Passes, NEW x, NEW d \in Chips
  PROVE  /\ IsAt(x, "ending", d)' <=> IsAt(x, "ending", d)
         /\ Ending(d)' <=> Ending(d)
         /\ Ending(d) => chipID'[d] = chipID[d]
<1>1. \/ chipPc'[d] = chipPc[d] /\ chipID'[d] = chipID[d]
      \/ chipPc[d] = "dispatch" /\ chipPc'[d] = "none"
  BY DEF Passes
<1>2. (Ending(d)' <=> Ending(d)) /\ (Ending(d) => chipID'[d] = chipID[d])
  BY <1>1 DEF Ending
<1> QED BY <1>2, AtPlace

LEMMA SentKeepsPlaces ==
  ASSUME SInv, Passes, UNCHANGED request, NEW c \in Chips,
         chipState[c] = "IDLE",
         SendsPage(c) \/ SendsErase(c) \/ SendsCopy(c) \/ SendsRead(c) \/ SendsWrite(c)
  PROVE  /\ InOnePlace' /\ RelatedOK' /\ NotTwice'
         /\ rList' \in [Chips -> Seq(Subs)] /\ wList' \in [Chips -> Seq(Subs)]
         /\ wTail' \in [Chips -> Subs \cup {NoSub}]
<1>1. /\ rList \in [Chips -> Seq(Subs)] /\ wList \in [Chips -> Seq(Subs)]
      /\ wTail \in [Chips -> Subs \cup {NoSub}]
      /\ commands \in [Chips -> Seq(CommandIDs)] /\ pending \subseteq Subs
      /\ operation \in {"READ", "WRITE"}
  BY DEF SInv, TypeOK
<1>2. /\ \A x \in pending : Added(x)' <=> Added(x)
      /\ UNCHANGED <<pending, relatedSub, operation, chipOf>>
  BY <1>1, StillAdded DEF SInv, request
<1>3. commands[c] = <<>>
  BY DEF SInv, ChipOK, Carries, Empty
<1>4. InOnePlace /\ RelatedOK /\ NotTwice
  BY DEF SInv
<1>5. CASE UNCHANGED <<rList, wList, wTail, commands, incompletedR>>
  <2>1. \A x \in Subs, q \in PlaceNames, d \in Chips : IsAt(x, q, d)' <=> IsAt(x, q, d)
    BY <1>5, AtPlace, PassesEnding DEF PlaceNames
  <2>2. InOnePlace' /\ RelatedOK'
    BY <1>2, <1>4, <2>1, NothingMoves
  <2> QED BY <1>1, <1>4, <1>5, <2>2 DEF NotTwice
<1>6. ASSUME NEW id, ~ (id \in Subs), commands' = [commands EXCEPT ![c] = <<id>>],
             UNCHANGED <<rList, wList, wTail, incompletedR>>
      PROVE  InOnePlace' /\ RelatedOK'
  <2>1. \A x \in Subs, d \in Chips : Contains(commands'[d], x) <=> Contains(commands[d], x)
    <3> TAKE x \in Subs, d \in Chips
    <3>1. CASE d = c
      <4>1. commands'[d] = <<id>> /\ commands[d] = <<>>
        BY <1>1, <1>3, <1>6, <3>1
      <4> QED BY <1>6, <4>1, ContainsOne
    <3>2. CASE d # c
      BY <1>1, <1>6, <3>2
    <3> QED BY <3>1, <3>2
  <2>2. \A x \in Subs, q \in PlaceNames, d \in Chips : IsAt(x, q, d)' <=> IsAt(x, q, d)
    BY <1>6, <2>1, AtPlace, PassesEnding DEF PlaceNames
  <2> QED BY <1>2, <1>4, <2>2, NothingMoves
<1>7. ASSUME NEW s \in Subs, NEW p \in {"r", "w"}, IsAt(s, p, c),
             p = "w" => relatedSub[s] = NoSub,
             commands' = [commands EXCEPT ![c] = <<s>>], UNCHANGED incompletedR,
             \A d \in Chips : ~Contains(rList'[d], s) /\ ~Contains(wList'[d], s),
             \A x \in Subs, d \in Chips : x # s =>
               /\ Contains(rList'[d], x) <=> Contains(rList[d], x)
               /\ Contains(wList'[d], x) <=> Contains(wList[d], x)
      PROVE  InOnePlace' /\ RelatedOK'
  <2>1. p \in PlaceNames /\ "commands" \in PlaceNames /\ p # "commands"
    BY DEF PlaceNames
  <2>2. \A x \in Subs, d \in Chips : x # s => (Contains(commands'[d], x) <=> Contains(commands[d], x))
    <3> SUFFICES ASSUME NEW x \in Subs, NEW d \in Chips, x # s
                 PROVE  Contains(commands'[d], x) <=> Contains(commands[d], x)
      OBVIOUS
    <3>1. CASE d = c
      <4>1. commands'[d] = <<s>> /\ commands[d] = <<>>
        BY <1>1, <1>3, <1>7, <3>1
      <4> QED BY <4>1, ContainsOne
    <3>2. CASE d # c
      BY <1>1, <1>7, <3>2
    <3> QED BY <3>1, <3>2
  <2>3. \A r \in PlaceNames, d \in Chips : IsAt(s, r, d) => r = p /\ d = c
    BY <1>4, <1>7, <2>1, Placed
  <2>4. \A d \in Chips : Contains(commands'[d], s) <=> d = c
    <3> SUFFICES ASSUME NEW d \in Chips PROVE Contains(commands'[d], s) <=> d = c
      OBVIOUS
    <3>1. CASE d = c
      <4>1. commands'[d] = <<s>>
        BY <1>1, <1>7, <3>1
      <4> QED BY <3>1, <4>1, ContainsOne
    <3>2. CASE d # c
      <4>1. commands'[d] = commands[d]
        BY <1>1, <1>7, <3>2
      <4>2. ~IsAt(s, "commands", d)
        BY <2>1, <2>3
      <4> QED BY <3>2, <4>1, <4>2, AtPlace
    <3> QED BY <3>1, <3>2
  <2>5. \A x \in Subs, r \in PlaceNames, d \in Chips : x # s => (IsAt(x, r, d)' <=> IsAt(x, r, d))
    <3> SUFFICES ASSUME NEW x \in Subs, NEW r \in PlaceNames, NEW d \in Chips, x # s
                 PROVE  IsAt(x, r, d)' <=> IsAt(x, r, d)
      OBVIOUS
    <3>1. /\ IsAt(x, "r", d)' <=> IsAt(x, "r", d)
          /\ IsAt(x, "w", d)' <=> IsAt(x, "w", d)
      BY <1>7, AtPlace
    <3>2. IsAt(x, "commands", d)' <=> IsAt(x, "commands", d)
      BY <2>2, AtPlace
    <3>3. IsAt(x, "incompleted", d)' <=> IsAt(x, "incompleted", d)
      BY <1>7, AtPlace
    <3>4. IsAt(x, "ending", d)' <=> IsAt(x, "ending", d)
      BY PassesEnding
    <3> QED BY <3>1, <3>2, <3>3, <3>4 DEF PlaceNames
  <2>6. \A r \in PlaceNames, d \in Chips : IsAt(s, r, d)' <=> (r = "commands" /\ d = c)
    <3> SUFFICES ASSUME NEW r \in PlaceNames, NEW d \in Chips
                 PROVE  IsAt(s, r, d)' <=> (r = "commands" /\ d = c)
      OBVIOUS
    <3>1. IsAt(s, "commands", d)' <=> d = c
      BY <2>4, AtPlace
    <3>2. ~IsAt(s, "r", d)' /\ ~IsAt(s, "w", d)'
      BY <1>7, AtPlace
    <3>3. ~IsAt(s, "incompleted", d) /\ ~IsAt(s, "ending", d)
      BY <2>3 DEF PlaceNames
    <3>4. ~IsAt(s, "incompleted", d)'
      BY <1>7, <3>3, AtPlace
    <3>5. ~IsAt(s, "ending", d)'
      BY <3>3, PassesEnding
    <3> QED BY <3>1, <3>2, <3>4, <3>5 DEF PlaceNames
  <2> QED BY <1>2, <1>4, <1>7, <2>1, <2>5, <2>6, OneMoves
<1>8. CASE SendsCopy(c)
  <2>1. PICK op \in {"READ", "WRITE"} :
          /\ commands' = [commands EXCEPT ![c] = <<Copy(c, erase[c].pages, op)>>]
          /\ UNCHANGED <<rList, wList, wTail, incompletedR>>
    BY <1>8 DEF SendsCopy, SendsNew
  <2>2. Copy(c, erase[c].pages, op) \notin Subs
    BY CopyNames, SubNames
  <2> QED BY <1>1, <1>4, <1>6, <2>1, <2>2 DEF NotTwice
<1>9. CASE SendsRead(c)
  <2> DEFINE s == Head(rList[c])
  <2>1. /\ rList[c] # <<>> /\ s \in Subs /\ commands' = [commands EXCEPT ![c] = <<s>>]
        /\ rList' = [rList EXCEPT ![c] = Tail(rList[c])] /\ UNCHANGED <<wList, wTail, incompletedR>>
    BY <1>9 DEF SendsRead, SendsNew
  <2>2. rList[c] \in Seq(Subs) /\ IsInjective(rList[c])
    BY <1>1, <1>4 DEF NotTwice
  <2>3. /\ Tail(rList[c]) \in Seq(Subs) /\ IsInjective(Tail(rList[c])) /\ Contains(rList[c], s)
        /\ \A e : Contains(Tail(rList[c]), e) <=> Contains(rList[c], e) /\ e # s
    BY <2>1, <2>2, TailContains
  <2> HIDE DEF s
  <2>4. rList' \in [Chips -> Seq(Subs)] /\ rList'[c] = Tail(rList[c])
        /\ \A d \in Chips : d # c => rList'[d] = rList[d]
    BY <1>1, <2>1, <2>3
  <2>5. \A x \in Subs, d \in Chips : x # s =>
          /\ Contains(rList'[d], x) <=> Contains(rList[d], x)
          /\ Contains(wList'[d], x) <=> Contains(wList[d], x)
    BY <2>1, <2>3, <2>4
  <2>6. IsAt(s, "r", c)
    BY <2>3, AtPlace
  <2>7. \A d \in Chips : ~Contains(rList'[d], s) /\ ~Contains(wList'[d], s)
    <3> SUFFICES ASSUME NEW d \in Chips PROVE ~Contains(rList'[d], s) /\ ~Contains(wList'[d], s)
      OBVIOUS
    <3>1. ~IsAt(s, "w", d) /\ (d # c => ~IsAt(s, "r", d))
      BY <1>4, <2>1, <2>6, Placed DEF PlaceNames
    <3>2. ~Contains(wList'[d], s)
      BY <2>1, <3>1, AtPlace
    <3>3. CASE d = c
      BY <2>3, <2>4, <3>2, <3>3
    <3>4. CASE d # c
      BY <2>4, <3>1, <3>2, <3>4, AtPlace
    <3> QED BY <3>3, <3>4
  <2>8. InOnePlace' /\ RelatedOK'
    BY <1>7, <2>1, <2>5, <2>6, <2>7
  <2>9. NotTwice'
    BY <1>4, <2>1, <2>3, <2>4 DEF NotTwice
  <2> QED BY <1>1, <2>1, <2>4, <2>8, <2>9
<1>10. CASE SendsWrite(c)
  <2>1. PICK i \in Writable(c) :
           /\ wList[c][i] \in Subs /\ relatedSub[wList[c][i]] = NoSub /\ i \in 1..Len(wList[c])
           /\ commands' = [commands EXCEPT ![c] = <<wList[c][i]>>]
           /\ wList' = [wList EXCEPT ![c] = RemoveAt(wList[c], i)]
           /\ wTail' \in [Chips -> Subs \cup {NoSub}]
           /\ UNCHANGED <<rList, incompletedR>>
    BY <1>10 DEF SendsWrite, SendsNew
  <2> DEFINE s == wList[c][i]
  <2>2. wList[c] \in Seq(Subs) /\ IsInjective(wList[c])
    BY <1>1, <1>4 DEF NotTwice
  <2>3. /\ RemoveAt(wList[c], i) \in Seq(Subs) /\ IsInjective(RemoveAt(wList[c], i))
        /\ Contains(wList[c], s)
        /\ \A e : Contains(RemoveAt(wList[c], i), e) <=> Contains(wList[c], e) /\ e # s
    BY <2>1, <2>2, RemoveAtContains
  <2>4. wList' \in [Chips -> Seq(Subs)] /\ wList'[c] = RemoveAt(wList[c], i)
        /\ \A d \in Chips : d # c => wList'[d] = wList[d]
    BY <1>1, <2>1, <2>3
  <2>5. s \in Subs /\ relatedSub[s] = NoSub /\ commands' = [commands EXCEPT ![c] = <<s>>]
    BY <2>1
  <2> HIDE DEF s
  <2>6. \A x \in Subs, d \in Chips : x # s =>
          /\ Contains(rList'[d], x) <=> Contains(rList[d], x)
          /\ Contains(wList'[d], x) <=> Contains(wList[d], x)
    BY <2>1, <2>3, <2>4
  <2>7. IsAt(s, "w", c)
    BY <2>3, AtPlace
  <2>10. \A d \in Chips : ~Contains(rList'[d], s) /\ ~Contains(wList'[d], s)
    <3> SUFFICES ASSUME NEW d \in Chips PROVE ~Contains(rList'[d], s) /\ ~Contains(wList'[d], s)
      OBVIOUS
    <3>1. ~IsAt(s, "r", d) /\ (d # c => ~IsAt(s, "w", d))
      BY <1>4, <2>5, <2>7, Placed DEF PlaceNames
    <3>2. ~Contains(rList'[d], s)
      BY <2>1, <3>1, AtPlace
    <3>3. CASE d = c
      BY <2>3, <2>4, <3>2, <3>3
    <3>4. CASE d # c
      BY <2>4, <3>1, <3>2, <3>4, AtPlace
    <3> QED BY <3>3, <3>4
  <2>8. InOnePlace' /\ RelatedOK'
    BY <1>7, <2>1, <2>5, <2>6, <2>7, <2>10
  <2>9. NotTwice'
    BY <1>4, <2>1, <2>3, <2>4 DEF NotTwice
  <2> QED BY <1>1, <2>1, <2>4, <2>8, <2>9
<1>11. CASE SendsPage(c) \/ SendsErase(c)
  <2>1. UNCHANGED <<rList, wList, wTail, commands, incompletedR>>
    BY <1>11 DEF SendsPage, SendsErase
  <2> QED BY <1>5, <2>1
<1> QED BY <1>8, <1>9, <1>10, <1>11

LEMMA Addressed == \A id \in CommandIDs : AddressOf(id) \in CommandAddresses
<1> SUFFICES ASSUME NEW id \in CommandIDs PROVE AddressOf(id) \in CommandAddresses
  OBVIOUS
<1>1. CASE id \in Subs
  BY <1>1, SubNames DEF CommandAddresses
<1>2. CASE id \in {Erase(c) : c \in Chips}
  <2>1. PICK c \in Chips : id = Erase(c)
    BY <1>2
  <2>2. AddressOf(id) = Erase(c)
    BY <2>1 DEF AddressOf, IsCopy, Erase
  <2> QED BY <2>2 DEF CommandAddresses
<1>3. CASE id \in {Copy(c, n, op) : c \in Chips, n \in 0..MaxCopies, op \in {"READ", "WRITE"}}
  <2>1. PICK c \in Chips, n \in 0..MaxCopies, op \in {"READ", "WRITE"} : id = Copy(c, n, op)
    BY <1>3
  <2>2. AddressOf(id) = <<"page", c, n>>
    BY <2>1 DEF AddressOf, IsCopy, Copy
  <2> QED BY <2>2 DEF CommandAddresses
<1> QED BY <1>1, <1>2, <1>3 DEF CommandIDs

\* A thread that looks for a command and sends it, or finds none.
LEMMA AllocateKeeps ==
  ASSUME SInv, allocate_command, Passes
  PROVE  SInv'
<1>1. UNCHANGED request /\ UNCHANGED <<pending, relatedSub, operation, chipOf, restSubreqCount, subMutex>>
  BY DEF allocate_command, request
<1>2. TypeOK /\ pending \subseteq Subs /\ operation \in {"READ", "WRITE"}
  BY DEF SInv, TypeOK
<1>3. /\ \A x \in pending : Added(x)' <=> Added(x)
      /\ RequestOK' /\ (hostPc' = "idle" => hostPc = "idle")
      /\ hostPc' \in {"idle", "add writes", "dispatch writes", "add reads",
                      "dispatch reads", "init mutex", "wait"}
  BY <1>1, <1>2, StillAdded DEF SInv, TypeOK
<1>4. CountMatchesPending'
  BY <1>1, <1>3 DEF SInv, CountMatchesPending
<1>5. EndsSubs'
  BY PassesEnding DEF SInv, EndsSubs
<1>6. ASSUME NANDTypeOK', channelState' \in States, chipState' \in [Chips -> States],
             rList' \in [Chips -> Seq(Subs)], wList' \in [Chips -> Seq(Subs)],
             wTail' \in [Chips -> Subs \cup {NoSub}],
             commands' \in [Chips -> Seq(CommandIDs)], incompletedR' \in [Chips -> Seq(CommandIDs)],
             erase' \in [Chips -> [used : BOOLEAN, pages : 0..MaxCopies,
                          copy : {"NONE", "READ", "WRITE"}, completed : BOOLEAN]]
      PROVE  TypeOK'
  <2>1. /\ operation' \in {"READ", "WRITE"}
        /\ \E n \in 0..MaxPages : chipOf' \in [1..n -> Chips]
        /\ relatedSub' \in [Subs -> Subs \cup {NoSub}]
        /\ pending' \subseteq Subs
        /\ restSubreqCount' \in 0..MaxPages
        /\ subMutex' \in {"stale", "free"}
    BY <1>1, <1>2 DEF TypeOK
  <2>2. /\ commandID' \in [Chips -> CommandIDs] /\ chipID' \in [Chips -> CommandIDs]
        /\ chipWork' \in [Chips -> BOOLEAN] /\ channelWork' \in BOOLEAN
        /\ chipPc' \in [Chips -> {"none", "receive", "check", "end", "asleep", "dispatch"}]
        /\ channelPc' \in {"none", "dispatch"}
    BY <1>2 DEF Passes, TypeOK
  <2> QED BY <1>3, <1>6, <2>1, <2>2 DEF TypeOK
<1>7. CASE UNCHANGED <<hardware, channelState, chipState, lists, queues>>
  <2>1. /\ UNCHANGED <<hwChannel, hwChip, hwID, preCMD, channelTimer, chipTimer, refused>>
        /\ UNCHANGED <<channelState, chipState, rList, wList, wTail, commands, incompletedR, erase>>
    BY <1>7 DEF hardware, lists, queues
  <2>2. TypeOK'
    BY <1>2, <1>6, <2>1 DEF TypeOK, NANDTypeOK
  <2>3. ASSUME NEW d \in Chips PROVE ChipOK(d)'
    <3>1. /\ chipWork'[d] = chipWork[d] /\ commandID'[d] = commandID[d]
          /\ chipPc'[d] = "receive" <=> chipPc[d] = "receive"
          /\ chipPc[d] = "receive" => chipID'[d] = chipID[d]
      BY DEF Passes
    <3> QED BY <2>1, <3>1, SameChip DEF SInv
  <2>4. ChannelOK' /\ NeverRefused'
    BY <2>1 DEF SInv, ChannelOK, NeverRefused, Passes
  <2>5. InOnePlace' /\ RelatedOK'
    <3>1. \A x \in Subs, q \in PlaceNames, d \in Chips : IsAt(x, q, d)' <=> IsAt(x, q, d)
      BY <2>1, AtPlace, PassesEnding DEF PlaceNames
    <3> QED BY <1>1, <1>3, <3>1, NothingMoves DEF SInv
  <2>6. NotTwice'
    BY <2>1 DEF SInv, NotTwice
  <2> QED BY <1>3, <1>4, <1>5, <2>2, <2>3, <2>4, <2>5, <2>6 DEF SInv
<1>8. ASSUME NEW c \in Ready, channelState = "IDLE", get_Command(c)
      PROVE  SInv'
  <2>1. c \in Chips /\ chipState[c] = "IDLE"
    BY DEF Ready
  <2>2. SendsPage(c) \/ SendsErase(c) \/ SendsCopy(c) \/ SendsRead(c) \/ SendsWrite(c)
    BY <1>8, <2>1, GetCommand DEF SInv
  <2>3. /\ \A d \in Chips : ChipOK(d)'
        /\ ChannelOK' /\ refused' = refused
        /\ commands' \in [Chips -> Seq(CommandIDs)] /\ incompletedR' = incompletedR
        /\ erase' \in [Chips -> [used : BOOLEAN, pages : 0..MaxCopies,
                          copy : {"NONE", "READ", "WRITE"}, completed : BOOLEAN]]
        /\ \E CMD \in CMDs, id \in CommandIDs : Sends(c, CMD, id)
    BY <1>8, <2>1, <2>2, SentChips DEF SInv
  <2>4. /\ InOnePlace' /\ RelatedOK' /\ NotTwice'
        /\ rList' \in [Chips -> Seq(Subs)] /\ wList' \in [Chips -> Seq(Subs)]
        /\ wTail' \in [Chips -> Subs \cup {NoSub}]
    BY <1>1, <2>1, <2>2, SentKeepsPlaces
  <2>5. NANDTypeOK' /\ channelState' \in States /\ chipState' \in [Chips -> States]
    <3>1. PICK CMD \in CMDs, id \in CommandIDs : Sends(c, CMD, id)
      BY <2>3
    <3>2. id \in IDs /\ AddressOf(id) \in Addresses
      <4>1. AddressOf(id) \in CommandAddresses
        BY Addressed
      <4> QED BY <4>1, SchedulerAssumption
    <3>3. NANDTypeOK
      BY <1>2 DEF TypeOK
    <3>4. CMD \in States
      BY DEF States
    <3>5. NANDTypeOK'
      BY <2>1, <3>1, <3>2, <3>3, <3>4 DEF Sends, NANDTypeOK
    <3> QED BY <1>2, <2>1, <3>1, <3>4, <3>5 DEF Sends, TypeOK
  <2>6. incompletedR' \in [Chips -> Seq(CommandIDs)]
    BY <1>2, <2>3 DEF TypeOK
  <2>7. TypeOK'
    BY <1>6, <2>3, <2>4, <2>5, <2>6
  <2>8. NeverRefused'
    BY <2>3 DEF SInv, NeverRefused
  <2> QED BY <1>3, <1>4, <1>5, <2>3, <2>4, <2>7, <2>8 DEF SInv
<1> QED BY <1>7, <1>8 DEF allocate_command

-----------------------------------------------------------------------------
(* The steps that move no sub-request.                                     *)

LEMMA DispatchKeeps ==
  ASSUME SInv,
         HostDispatch \/ ChannelDispatch \/ \E c \in Chips : ChipDispatch(c)
  PROVE  SInv'
<1>1. /\ chipPc \in [Chips -> {"none", "receive", "check", "end", "asleep", "dispatch"}]
      /\ chipID \in [Chips -> CommandIDs] /\ channelPc \in {"none", "dispatch"}
  BY DEF SInv, TypeOK
<1>2. CASE HostDispatch
  <2>1. Passes
    BY <1>1, <1>2 DEF HostDispatch, works, Passes
  <2> QED BY <1>2, <2>1, AllocateKeeps DEF HostDispatch
<1>3. CASE ChannelDispatch
  <2>1. Passes
    BY <1>1, <1>3 DEF ChannelDispatch, Passes
  <2> QED BY <1>3, <2>1, AllocateKeeps DEF ChannelDispatch
<1>4. CASE \E c \in Chips : ChipDispatch(c)
  <2>1. PICK c \in Chips : ChipDispatch(c)
    BY <1>4
  <2>2. Passes
    <3>1. /\ chipPc[c] = "dispatch" /\ chipPc' = [chipPc EXCEPT ![c] = "none"]
          /\ chipID' = [chipID EXCEPT ![c] = Erase(c)]
          /\ UNCHANGED <<hostPc, commandID, chipWork, channelWork, channelPc>>
      BY <2>1 DEF ChipDispatch, Goto
    <3>2. Erase(c) \in CommandIDs
      BY CopyNames
    <3> HIDE DEF Passes
    <3>3. /\ chipPc' \in [Chips -> {"none", "receive", "check", "end", "asleep", "dispatch"}]
          /\ chipID' \in [Chips -> CommandIDs]
      BY <1>1, <3>1, <3>2
    <3>4. \A d \in Chips : \/ chipPc'[d] = chipPc[d] /\ chipID'[d] = chipID[d]
                           \/ chipPc[d] = "dispatch" /\ chipPc'[d] = "none"
      BY <1>1, <3>1
    <3> QED BY <1>1, <3>1, <3>3, <3>4 DEF Passes
  <2> QED BY <2>1, <2>2, AllocateKeeps DEF ChipDispatch
<1> QED BY <1>2, <1>3, <1>4

\* What a step keeps that leaves the request and the queues alone.
LEMMA OthersKept ==
  ASSUME SInv, UNCHANGED <<request, rList, wList, commands, incompletedR, hostPc>>,
         \A d \in Chips : (Ending(d)' <=> Ending(d)) /\ (Ending(d) => chipID'[d] = chipID[d])
  PROVE  /\ CountMatchesPending' /\ RequestOK' /\ RelatedOK' /\ EndsSubs' /\ NotTwice'
         /\ InOnePlace'
<1>1. UNCHANGED <<pending, relatedSub, operation, chipOf, restSubreqCount, subMutex, hostPc>>
  BY DEF request
<1>2. CountMatchesPending' /\ RequestOK'
  BY <1>1 DEF SInv, CountMatchesPending, RequestOK
<1>3. EndsSubs' /\ NotTwice'
  BY DEF SInv, EndsSubs, NotTwice
<1>4. InOnePlace' /\ RelatedOK'
  <2>1. \A x \in Subs, q \in PlaceNames, d \in Chips : IsAt(x, q, d)' <=> IsAt(x, q, d)
    <3> SUFFICES ASSUME NEW x \in Subs, NEW q \in PlaceNames, NEW d \in Chips
                 PROVE  IsAt(x, q, d)' <=> IsAt(x, q, d)
      OBVIOUS
    <3>1. IsAt(x, "ending", d)' <=> IsAt(x, "ending", d)
      BY AtPlace
    <3>2. /\ IsAt(x, "r", d)' <=> IsAt(x, "r", d)
          /\ IsAt(x, "w", d)' <=> IsAt(x, "w", d)
          /\ IsAt(x, "commands", d)' <=> IsAt(x, "commands", d)
          /\ IsAt(x, "incompleted", d)' <=> IsAt(x, "incompleted", d)
      BY AtPlace
    <3> QED BY <3>1, <3>2 DEF PlaceNames
  <2>2. \A x \in pending : Added(x)' <=> Added(x)
    BY <1>1 DEF Added
  <2> QED BY <1>1, <2>1, <2>2, NothingMoves DEF SInv
<1> QED BY <1>2, <1>3, <1>4

LEMMA TimerKeeps ==
  ASSUME SInv, Timer
  PROVE  SInv'
<1>1. UNCHANGED <<request, channelState, chipState, rList, wList, wTail, commands, incompletedR,
                  erase, hostPc, commandID, chipWork, chipPc, chipID, channelWork, channelPc>>
  BY DEF Timer, lists, queues, works
<1>2. /\ CountMatchesPending' /\ RequestOK' /\ RelatedOK' /\ EndsSubs' /\ NotTwice'
      /\ InOnePlace'
  BY <1>1, OthersKept DEF Ending
<1>3. TypeOK /\ NANDTypeOK
  BY DEF SInv, TypeOK
<1>4. NANDTypeOK' => TypeOK'
  BY <1>1, <1>3 DEF TypeOK, request
<1>5. CASE timer_callback_channel
  <2>1. /\ channelTimer = "set" /\ channelTimer' = "fired" /\ hwChannel' = "IDLE"
        /\ UNCHANGED <<hwChip, hwID, preCMD, chipTimer, refused>>
    BY <1>5 DEF timer_callback_channel
  <2>2. NANDTypeOK'
    BY <1>3, <2>1 DEF NANDTypeOK, States
  <2>3. ChannelOK' /\ NeverRefused'
    BY <1>1, <2>1 DEF SInv, ChannelOK, NeverRefused
  <2>4. \A d \in Chips : ChipOK(d)'
    BY <1>1, <2>1, SameChip DEF SInv
  <2> QED BY <1>2, <1>4, <2>2, <2>3, <2>4 DEF SInv
<1>6. CASE \E c \in Chips : timer_callback_chip(c)
  <2>1. PICK c \in Chips : timer_callback_chip(c)
    BY <1>6
  <2>2. /\ chipTimer[c] = "set" /\ chipTimer' = [chipTimer EXCEPT ![c] = "fired"]
        /\ hwChip' = [hwChip EXCEPT ![c] = IF hwChip[c] = "READ_ADDR" THEN hwChip[c] ELSE "IDLE"]
        /\ UNCHANGED <<hwChannel, hwID, preCMD, channelTimer, refused>>
    BY <2>1 DEF timer_callback_chip
  <2>3. NANDTypeOK'
    BY <1>3, <2>2 DEF NANDTypeOK, States
  <2>4. ChannelOK' /\ NeverRefused'
    BY <1>1, <2>2 DEF SInv, ChannelOK, NeverRefused
  <2>5. ASSUME NEW d \in Chips, d # c PROVE ChipOK(d)'
    <3>1. chipTimer'[d] = chipTimer[d] /\ hwChip'[d] = hwChip[d]
      BY <1>3, <2>2, <2>5 DEF NANDTypeOK
    <3> QED BY <1>1, <2>2, <3>1, SameChip DEF SInv
  <2>6. ChipOK(c)'
    <3>1. /\ chipTimer'[c] = "fired"
          /\ hwChip'[c] = IF hwChip[c] = "READ_ADDR" THEN hwChip[c] ELSE "IDLE"
      BY <1>3, <2>2 DEF NANDTypeOK
    <3>2. ChipOK(c)
      BY DEF SInv
    <3>3. chipState[c] # "IDLE" /\ ~chipWork[c] /\ chipPc[c] # "receive" /\ hwID[c] = Current(c)
      BY <2>2, <3>2 DEF ChipOK, OneSignal
    <3>4. Carries(c)' /\ CopyIsErases(c)'
      BY <1>1, <3>2 DEF ChipOK, Carries, CopyIsErases, Empty, Holds
    <3>5. Current(c)' = Current(c)
      BY <1>1 DEF Current, Executing
    <3>6. OneSignal(c)'
      BY <1>1, <2>2, <3>1, <3>3, <3>5 DEF OneSignal
    <3>7. HardwareFollows(c)'
      <4>1. hwChip[c] = chipState[c]
        BY <2>2, <3>2 DEF ChipOK, HardwareFollows
      <4>2. PageInRegister(c)' <=> chipState[c] = "READ_ADDR"
        BY <1>1, <3>3 DEF PageInRegister
      <4>3. hwChip'[c] = IF PageInRegister(c)' THEN "READ_ADDR" ELSE "IDLE"
        BY <3>1, <4>1, <4>2
      <4> QED BY <1>1, <2>2, <3>1, <3>2, <3>3, <4>3 DEF ChipOK, HardwareFollows
    <3> QED BY <3>4, <3>6, <3>7 DEF ChipOK
  <2> QED BY <1>2, <1>4, <2>3, <2>4, <2>5, <2>6 DEF SInv
<1> QED BY <1>5, <1>6 DEF Timer

LEMMA SignalKeeps ==
  ASSUME SInv, SignalChannel \/ ChannelRecv
  PROVE  SInv'
<1>1. UNCHANGED <<hwChip, hwID, preCMD, chipTimer, refused, request, chipState, rList, wList, wTail,
                  commands, incompletedR, erase, hostPc, commandID, chipWork, chipPc, chipID>>
  BY DEF SignalChannel, ChannelRecv, lists, queues, hardware
<1>2. /\ CountMatchesPending' /\ RequestOK' /\ RelatedOK' /\ EndsSubs' /\ NotTwice'
      /\ InOnePlace'
  BY <1>1, OthersKept DEF Ending
<1>3. TypeOK /\ NANDTypeOK /\ ChannelOK
  BY DEF SInv, TypeOK
<1>4. TypeOK'
  BY <1>1, <1>3 DEF SignalChannel, ChannelRecv, TypeOK, NANDTypeOK, request, hardware, States
<1>5. ChannelOK'
  BY <1>3 DEF SignalChannel, ChannelRecv, ChannelOK, hardware
<1>6. \A d \in Chips : ChipOK(d)'
  BY <1>1, SameChip DEF SInv
<1>7. NeverRefused'
  BY <1>1 DEF SInv, NeverRefused
<1> QED BY <1>2, <1>4, <1>5, <1>6, <1>7 DEF SInv

\* A busy chip executes one command.
LEMMA ExecutesOne ==
  ASSUME NEW c \in Chips, ChipOK(c), chipState[c] # "IDLE"
  PROVE  /\ Executing(c) = <<Current(c)>> /\ Current(c) \in CommandIDs
         /\ \/ /\ chipState[c] \in {"PROGRAM", "READ_ADDR"} /\ Current(c) \in Carriable(c)
               /\ commands[c] = <<Current(c)>> /\ incompletedR[c] = <<>>
            \/ /\ chipState[c] = "READ_DATA" /\ Current(c) \in Carriable(c)
               /\ commands[c] = <<>> /\ incompletedR[c] = <<Current(c)>>
            \/ /\ chipState[c] = "ERASE" /\ Current(c) = Erase(c)
               /\ commands[c] = <<>> /\ incompletedR[c] = <<>>
<1>1. CASE chipState[c] = "ERASE" /\ Empty(commands[c]) /\ Empty(incompletedR[c])
  <2>1. Executing(c) = <<Erase(c)>>
    BY <1>1 DEF Executing
  <2>2. Current(c) = Erase(c)
    BY <2>1, ContainsOne DEF Current
  <2> QED BY <1>1, <2>1, <2>2, CopyNames DEF Empty
<1>2. CASE chipState[c] = "READ_DATA" /\ Empty(commands[c]) /\ Holds(c, incompletedR[c])
  <2>1. PICK id \in Carriable(c) : incompletedR[c] = <<id>>
    BY <1>2 DEF Holds
  <2>2. Executing(c) = <<id>>
    BY <1>2, <2>1 DEF Executing
  <2>3. Current(c) = id
    BY <2>2, ContainsOne DEF Current
  <2> QED BY <1>2, <2>1, <2>2, <2>3, CopyNames DEF Empty
<1>3. CASE /\ chipState[c] \in {"PROGRAM", "READ_ADDR"}
           /\ Holds(c, commands[c]) /\ Empty(incompletedR[c])
  <2>1. PICK id \in Carriable(c) : commands[c] = <<id>>
    BY <1>3 DEF Holds
  <2>2. Executing(c) = <<id>>
    BY <1>3, <2>1 DEF Executing
  <2>3. Current(c) = id
    BY <2>2, ContainsOne DEF Current
  <2> QED BY <1>3, <2>1, <2>2, <2>3, CopyNames DEF Empty
<1> QED BY <1>1, <1>2, <1>3 DEF ChipOK, Carries

LEMMA SignalChipKeeps ==
  ASSUME SInv, NEW c \in Chips, SignalChip(c) \/ ChipStart(c)
  PROVE  SInv'
<1>1. UNCHANGED <<hwChannel, hwChip, hwID, preCMD, channelTimer, refused, request, channelState,
                  chipState, rList, wList, wTail, commands, incompletedR, erase, hostPc,
                  channelWork, channelPc>>
  BY DEF SignalChip, ChipStart, lists, queues, hardware
<1>2. TypeOK /\ NANDTypeOK /\ ChannelOK /\ ChipOK(c)
  BY DEF SInv, TypeOK
<1>3. \A d \in Chips : (Ending(d)' <=> Ending(d)) /\ (Ending(d) => chipID'[d] = chipID[d])
  BY <1>2 DEF SignalChip, ChipStart, TypeOK, Ending
<1>4. /\ CountMatchesPending' /\ RequestOK' /\ RelatedOK' /\ EndsSubs' /\ NotTwice'
      /\ InOnePlace'
  BY <1>1, <1>3, OthersKept
<1>5. ASSUME NEW d \in Chips, d # c PROVE ChipOK(d)'
  <2>1. /\ chipTimer'[d] = chipTimer[d] /\ chipWork'[d] = chipWork[d]
        /\ commandID'[d] = commandID[d] /\ chipPc'[d] = chipPc[d] /\ chipID'[d] = chipID[d]
    BY <1>2, <1>5 DEF SignalChip, ChipStart, TypeOK, NANDTypeOK, hardware
  <2> QED BY <1>1, <2>1, SameChip DEF SInv
<1>6. Current(c)' = Current(c) /\ Carries(c)' /\ CopyIsErases(c)'
  BY <1>1, <1>2 DEF Current, Executing, ChipOK, Carries, CopyIsErases, Empty, Holds
<1>7. PageInRegister(c)' <=> PageInRegister(c)
  BY <1>1 DEF PageInRegister, Empty
<1>8. ChannelOK' /\ NeverRefused'
  BY <1>1 DEF SInv, ChannelOK, NeverRefused
<1>9. CASE SignalChip(c)
  <2>1. /\ chipTimer[c] = "fired" /\ chipTimer' = [chipTimer EXCEPT ![c] = "off"]
        /\ commandID' = [commandID EXCEPT ![c] = hwID[c]]
        /\ chipWork' = [chipWork EXCEPT ![c] = TRUE] /\ UNCHANGED <<chipPc, chipID>>
    BY <1>9 DEF SignalChip
  <2>2. chipTimer'[c] = "off" /\ commandID'[c] = hwID[c] /\ chipWork'[c]
    BY <1>2, <2>1 DEF TypeOK, NANDTypeOK
  <2>3. chipState[c] # "IDLE" /\ chipPc[c] # "receive" /\ hwID[c] = Current(c)
    BY <1>2, <2>1 DEF ChipOK, OneSignal
  <2>4. OneSignal(c)'
    BY <1>1, <1>6, <2>1, <2>2, <2>3 DEF OneSignal
  <2>5. HardwareFollows(c)'
    BY <1>1, <1>2, <1>7, <2>1, <2>2 DEF ChipOK, HardwareFollows, Empty
  <2>6. TypeOK'
    <3>1. hwID[c] \in CommandIDs
      <4>1. Current(c) \in CommandIDs
        BY <1>2, <2>3, ExecutesOne
      <4> QED BY <2>3, <4>1
    <3>2. commandID' \in [Chips -> CommandIDs] /\ chipWork' \in [Chips -> BOOLEAN]
          /\ chipTimer' \in [Chips -> {"off", "set", "fired"}]
      BY <1>2, <2>1, <3>1 DEF TypeOK, NANDTypeOK
    <3> QED BY <1>1, <1>2, <2>1, <3>2 DEF TypeOK, NANDTypeOK, request
  <2> QED BY <1>4, <1>5, <1>6, <1>8, <2>4, <2>5, <2>6 DEF SInv, ChipOK
<1>10. CASE ChipStart(c)
  <2>1. /\ chipWork[c] /\ chipPc[c] = "none"
        /\ chipWork' = [chipWork EXCEPT ![c] = FALSE]
        /\ chipID' = [chipID EXCEPT ![c] = commandID[c]]
        /\ chipPc' = [chipPc EXCEPT ![c] = "receive"] /\ UNCHANGED <<chipTimer, commandID>>
    BY <1>10 DEF ChipStart, hardware
  <2>2. chipID'[c] = commandID[c] /\ ~chipWork'[c] /\ chipPc'[c] = "receive"
    BY <1>2, <2>1 DEF TypeOK
  <2>3. chipState[c] # "IDLE" /\ chipTimer[c] = "off" /\ commandID[c] = Current(c)
    BY <1>2, <2>1 DEF ChipOK, OneSignal
  <2>4. OneSignal(c)'
    BY <1>1, <1>6, <2>1, <2>2, <2>3 DEF OneSignal
  <2>5. HardwareFollows(c)'
    BY <1>1, <1>2, <1>7, <2>1, <2>2 DEF ChipOK, HardwareFollows, Empty
  <2>6. TypeOK'
    <3>1. /\ chipID' \in [Chips -> CommandIDs] /\ chipWork' \in [Chips -> BOOLEAN]
          /\ chipPc' \in [Chips -> {"none", "receive", "check", "end", "asleep", "dispatch"}]
      BY <1>2, <2>1 DEF TypeOK
    <3> QED BY <1>1, <1>2, <2>1, <3>1 DEF TypeOK, NANDTypeOK, request
  <2> QED BY <1>4, <1>5, <1>6, <1>8, <2>4, <2>5, <2>6 DEF SInv, ChipOK
<1> QED BY <1>9, <1>10

-----------------------------------------------------------------------------
(* The work of a chip.                                                     *)

\* get_end_CMD takes the command that signals: it is the only one.
LEMMA EndsHead == \A id : get_end_CMD(<<id>>, id) = <<>>
  BY ContainsOne DEF get_end_CMD

\* What ChipReceive does, state by state.
Received(c, pc) ==
  /\ chipPc' = [chipPc EXCEPT ![c] = pc]
  /\ chipState' = [chipState EXCEPT ![c] = "IDLE"]
ReceivesProgram(c, id) ==
  /\ chipState[c] = "PROGRAM" /\ id \in Carriable(c)
  /\ commands[c] = <<id>> /\ incompletedR[c] = <<>>
  /\ commands' = [commands EXCEPT ![c] = <<>>] /\ incompletedR' = incompletedR
  /\ \/ /\ IsCopy(id) /\ Received(c, "dispatch")
        /\ erase' = [erase EXCEPT ![c].completed = TRUE, ![c].pages = @ - 1]
     \/ ~IsCopy(id) /\ Received(c, "check") /\ erase' = erase
ReceivesAddr(c, id) ==
  /\ chipState[c] = "READ_ADDR" /\ id \in Carriable(c)
  /\ commands[c] = <<id>> /\ incompletedR[c] = <<>>
  /\ commands' = [commands EXCEPT ![c] = <<>>]
  /\ incompletedR' = [incompletedR EXCEPT ![c] = <<id>>]
  /\ Received(c, "dispatch") /\ erase' = erase
ReceivesData(c, id) ==
  /\ chipState[c] = "READ_DATA" /\ id \in Carriable(c)
  /\ commands[c] = <<>> /\ incompletedR[c] = <<id>>
  /\ commands' = commands /\ incompletedR' = [incompletedR EXCEPT ![c] = <<>>]
  /\ \/ /\ IsCopy(id) /\ Received(c, "dispatch")
        /\ erase' = [erase EXCEPT ![c].completed = TRUE]
     \/ ~IsCopy(id) /\ Received(c, "end") /\ erase' = erase
ReceivesErase(c) ==
  /\ chipState[c] = "ERASE" /\ commands[c] = <<>> /\ incompletedR[c] = <<>>
  /\ erase' = [erase EXCEPT ![c] = NoErase] /\ Received(c, "dispatch")
  /\ commands' = commands /\ incompletedR' = incompletedR

LEMMA Receives ==
  ASSUME NEW c \in Chips, ChipOK(c), ChipReceive(c)
  PROVE  /\ chipID[c] = Current(c) /\ chipTimer[c] = "off" /\ ~chipWork[c]
         /\ chipState[c] # "IDLE" /\ chipPc[c] = "receive"
         /\ \/ ReceivesProgram(c, chipID[c]) \/ ReceivesAddr(c, chipID[c])
            \/ ReceivesData(c, chipID[c]) \/ ReceivesErase(c)
<1>1. chipPc[c] = "receive" /\ chipState' = [chipState EXCEPT ![c] = "IDLE"]
  BY DEF ChipReceive
<1>2. chipID[c] = Current(c) /\ chipTimer[c] = "off" /\ ~chipWork[c] /\ chipState[c] # "IDLE"
  BY <1>1 DEF ChipOK, OneSignal
<1> DEFINE id == chipID[c]
<1>3. \/ /\ chipState[c] \in {"PROGRAM", "READ_ADDR"} /\ id \in Carriable(c)
         /\ commands[c] = <<id>> /\ incompletedR[c] = <<>>
      \/ /\ chipState[c] = "READ_DATA" /\ id \in Carriable(c)
         /\ commands[c] = <<>> /\ incompletedR[c] = <<id>>
      \/ /\ chipState[c] = "ERASE"
         /\ commands[c] = <<>> /\ incompletedR[c] = <<>>
  BY <1>2, ExecutesOne
<1>4. get_end_CMD(<<id>>, id) = <<>> /\ Append(<<>>, id) = <<id>>
  BY EndsHead, ContainsOne
<1>5. CASE EndProgram(c)
  <2>1. commands[c] = <<id>> /\ incompletedR[c] = <<>> /\ id \in Carriable(c) /\ chipState[c] = "PROGRAM"
    BY <1>3, <1>5 DEF EndProgram
  <2>2. commands' = [commands EXCEPT ![c] = <<>>] /\ incompletedR' = incompletedR
    BY <1>4, <1>5, <2>1 DEF EndProgram
  <2>3. \/ /\ IsCopy(id) /\ Received(c, "dispatch")
           /\ erase' = [erase EXCEPT ![c].completed = TRUE, ![c].pages = @ - 1]
        \/ ~IsCopy(id) /\ Received(c, "check") /\ erase' = erase
    BY <1>1, <1>5 DEF EndProgram, Received, Goto
  <2> QED BY <1>1, <1>2, <2>1, <2>2, <2>3 DEF ReceivesProgram
<1>6. CASE EndReadAddr(c)
  <2>1. commands[c] = <<id>> /\ incompletedR[c] = <<>> /\ id \in Carriable(c) /\ chipState[c] = "READ_ADDR"
    BY <1>3, <1>6 DEF EndReadAddr
  <2>2. commands' = [commands EXCEPT ![c] = <<>>] /\ incompletedR' = [incompletedR EXCEPT ![c] = <<id>>]
    BY <1>4, <1>6, <2>1 DEF EndReadAddr
  <2> QED BY <1>1, <1>2, <1>6, <2>1, <2>2 DEF ReceivesAddr, EndReadAddr, Received, Goto
<1>7. CASE EndReadData(c)
  <2>1. commands[c] = <<>> /\ incompletedR[c] = <<id>> /\ id \in Carriable(c) /\ chipState[c] = "READ_DATA"
    BY <1>3, <1>7 DEF EndReadData
  <2>2. incompletedR' = [incompletedR EXCEPT ![c] = <<>>] /\ commands' = commands
    BY <1>4, <1>7, <2>1 DEF EndReadData
  <2>3. \/ /\ IsCopy(id) /\ Received(c, "dispatch")
           /\ erase' = [erase EXCEPT ![c].completed = TRUE]
        \/ ~IsCopy(id) /\ Received(c, "end") /\ erase' = erase
    BY <1>1, <1>7 DEF EndReadData, Received, Goto
  <2> QED BY <1>1, <1>2, <2>1, <2>2, <2>3 DEF ReceivesData
<1>8. CASE EndErase(c)
  <2>1. commands[c] = <<>> /\ incompletedR[c] = <<>> /\ chipState[c] = "ERASE"
    BY <1>3, <1>8 DEF EndErase
  <2> QED BY <1>1, <1>2, <1>8, <2>1 DEF ReceivesErase, EndErase, Received, Goto
<1> QED BY <1>5, <1>6, <1>7, <1>8 DEF ChipReceive

\* The erase of a chip that receives is as the copies need it.
LEMMA ReceiveErase ==
  ASSUME TypeOK, NEW c \in Chips, ChipOK(c), NEW id,
         \/ ReceivesProgram(c, id) \/ ReceivesAddr(c, id)
         \/ ReceivesData(c, id) \/ ReceivesErase(c)
  PROVE  /\ erase' \in [Chips -> [used : BOOLEAN, pages : 0..MaxCopies,
                                  copy : {"NONE", "READ", "WRITE"}, completed : BOOLEAN]]
         /\ \A d \in Chips : d # c => erase'[d] = erase[d]
         /\ erase'[c].copy = "READ" => erase'[c].pages > 0
<1> DEFINE Erases == [used : BOOLEAN, pages : 0..MaxCopies,
                      copy : {"NONE", "READ", "WRITE"}, completed : BOOLEAN]
<1>1. erase \in [Chips -> Erases] /\ (erase[c].copy = "READ" => erase[c].pages > 0)
  BY DEF TypeOK, ChipOK, CopyIsErases
<1>2. ASSUME NEW e \in Erases, erase' = [erase EXCEPT ![c] = e], e.copy = "READ" => e.pages > 0
      PROVE  /\ erase' \in [Chips -> Erases]
             /\ \A d \in Chips : d # c => erase'[d] = erase[d]
             /\ erase'[c].copy = "READ" => erase'[c].pages > 0
  <2> HIDE DEF Erases
  <2>1. erase'[c] = e
    BY <1>1, <1>2
  <2> QED BY <1>1, <1>2, <2>1
<1>3. CASE erase' = erase
  BY <1>1, <1>3
<1>4. CASE /\ ReceivesProgram(c, id) /\ IsCopy(id)
           /\ erase' = [erase EXCEPT ![c].completed = TRUE, ![c].pages = @ - 1]
  <2> DEFINE e == [erase[c] EXCEPT !.completed = TRUE, !.pages = @ - 1]
  <2>1. erase' = [erase EXCEPT ![c] = e]
    BY <1>1, <1>4
  <2>2. /\ commands[c] = <<id>> /\ chipState[c] = "PROGRAM" /\ id \in Carriable(c)
    BY <1>4 DEF ReceivesProgram
  <2>3. Head(commands[c]) = id /\ commands[c] # <<>>
    BY <2>2, ContainsOne
  <2>4. id = Copy(c, erase[c].pages, erase[c].copy) /\ id[4] = "WRITE"
    BY <1>4, <2>2, <2>3 DEF ChipOK, CopyIsErases
  <2>5. erase[c].copy = "WRITE"
    BY <2>4, CopyNames
  <2>6. erase[c].pages \in 1..MaxCopies
    <3>1. PICK n \in 1..MaxCopies, op \in {"READ", "WRITE"} : id = Copy(c, n, op)
      BY <1>4, <2>2, SubNames DEF Carriable
    <3>2. erase[c].pages = n
      BY <2>4, <3>1 DEF Copy
    <3> QED BY <3>2
  <2>7. e \in Erases /\ e.copy = "WRITE"
    <3>1. erase[c].pages - 1 \in 0..MaxCopies
      BY <2>6, SchedulerAssumption
    <3> QED BY <1>1, <2>5, <3>1
  <2> HIDE DEF e, Erases
  <2>8. e.copy = "READ" => e.pages > 0
    BY <2>7
  <2> QED BY <1>2, <2>1, <2>7, <2>8 DEF Erases
<1>5. CASE erase' = [erase EXCEPT ![c].completed = TRUE]
  <2> DEFINE e == [erase[c] EXCEPT !.completed = TRUE]
  <2>1. erase' = [erase EXCEPT ![c] = e] /\ e \in Erases
        /\ e.copy = erase[c].copy /\ e.pages = erase[c].pages
    BY <1>1, <1>5
  <2> HIDE DEF e, Erases
  <2>2. e.copy = "READ" => e.pages > 0
    BY <1>1, <2>1
  <2> QED BY <1>2, <2>1, <2>2 DEF Erases
<1>6. CASE erase' = [erase EXCEPT ![c] = NoErase]
  <2>1. NoErase \in Erases /\ NoErase.copy # "READ"
    BY SchedulerAssumption DEF NoErase
  <2> HIDE DEF Erases
  <2> QED BY <1>2, <1>6, <2>1 DEF Erases
<1> QED BY <1>3, <1>4, <1>5, <1>6 DEF ReceivesProgram, ReceivesAddr, ReceivesData, ReceivesErase

\* The chip that receives is idle afterwards.
LEMMA ReceiveChip ==
  ASSUME TypeOK, NEW c \in Chips, ChipOK(c), NEW id, ChipReceive(c), id = chipID[c],
         \/ ReceivesProgram(c, id) \/ ReceivesAddr(c, id)
         \/ ReceivesData(c, id) \/ ReceivesErase(c)
  PROVE  /\ ChipOK(c)'
         /\ \A d \in Chips : d # c =>
              /\ chipState'[d] = chipState[d] /\ commands'[d] = commands[d]
              /\ incompletedR'[d] = incompletedR[d] /\ chipPc'[d] = chipPc[d]
         /\ commands' \in [Chips -> Seq(CommandIDs)] /\ incompletedR' \in [Chips -> Seq(CommandIDs)]
         /\ chipState' \in [Chips -> States]
         /\ chipPc' \in [Chips -> {"none", "receive", "check", "end", "asleep", "dispatch"}]
         /\ chipPc'[c] \in {"check", "end", "dispatch"}
<1>1. /\ commands \in [Chips -> Seq(CommandIDs)] /\ incompletedR \in [Chips -> Seq(CommandIDs)]
      /\ chipState \in [Chips -> States]
      /\ chipPc \in [Chips -> {"none", "receive", "check", "end", "asleep", "dispatch"}]
  BY DEF TypeOK
<1>2. \E pc \in {"check", "end", "dispatch"} : Received(c, pc)
  BY DEF ReceivesProgram, ReceivesAddr, ReceivesData, ReceivesErase
<1>3. PICK pc \in {"check", "end", "dispatch"} : Received(c, pc)
  BY <1>2
<1>4. /\ chipState' \in [Chips -> States] /\ chipState'[c] = "IDLE"
      /\ chipPc' \in [Chips -> {"none", "receive", "check", "end", "asleep", "dispatch"}]
      /\ chipPc'[c] = pc
      /\ \A d \in Chips : d # c => chipState'[d] = chipState[d] /\ chipPc'[d] = chipPc[d]
  BY <1>1, <1>3 DEF Received, States
<1>5. chipTimer[c] = "off" /\ ~chipWork[c] /\ chipState[c] # "IDLE"
  BY Receives
<1>6. UNCHANGED <<hwChip, preCMD, chipTimer, chipWork>>
  BY DEF ChipReceive, hardware
<1>7. OneSignal(c)'
  BY <1>4, <1>5, <1>6 DEF OneSignal
<1>8. erase'[c].copy = "READ" => erase'[c].pages > 0
  BY ReceiveErase
<1>9. ASSUME NEW queue \in {<<>>, <<id>>},
             commands' = [commands EXCEPT ![c] = <<>>],
             incompletedR' = [incompletedR EXCEPT ![c] = queue], queue = <<id>> => id \in CommandIDs
      PROVE  /\ commands' \in [Chips -> Seq(CommandIDs)] /\ incompletedR' \in [Chips -> Seq(CommandIDs)]
             /\ \A d \in Chips : d # c => commands'[d] = commands[d] /\ incompletedR'[d] = incompletedR[d]
             /\ commands'[c] = <<>> /\ incompletedR'[c] = queue
  <2>1. <<>> \in Seq(CommandIDs) /\ queue \in Seq(CommandIDs)
    <3>1. CASE queue = <<>>
      BY <3>1
    <3>2. CASE queue = <<id>>
      BY <1>9, <3>2
    <3> QED BY <3>1, <3>2
  <2> QED BY <1>1, <1>9, <2>1
<1>10. CASE ReceivesAddr(c, id)
  <2>1. /\ chipState[c] = "READ_ADDR" /\ commands[c] = <<id>> /\ id \in Carriable(c)
        /\ commands' = [commands EXCEPT ![c] = <<>>]
        /\ incompletedR' = [incompletedR EXCEPT ![c] = <<id>>] /\ erase' = erase
    BY <1>10 DEF ReceivesAddr
  <2>2. id \in CommandIDs
    BY <2>1, CopyNames
  <2>3. /\ commands' \in [Chips -> Seq(CommandIDs)] /\ incompletedR' \in [Chips -> Seq(CommandIDs)]
        /\ \A d \in Chips : d # c => commands'[d] = commands[d] /\ incompletedR'[d] = incompletedR[d]
        /\ commands'[c] = <<>> /\ incompletedR'[c] = <<id>>
    BY <1>9, <2>1, <2>2
  <2>4. Head(commands[c]) = id /\ Head(incompletedR'[c]) = id /\ incompletedR'[c] # <<>>
        /\ commands[c] # <<>>
    BY <2>1, <2>3, ContainsOne
  <2>5. Carries(c)'
    BY <1>4, <2>1, <2>3 DEF Carries, Empty, Holds, Carriable
  <2>6. HardwareFollows(c)'
    <3>1. hwChip[c] = "READ_ADDR" /\ preCMD[c] = AddressOf(id)
      BY <1>5, <2>1, <2>4 DEF ChipOK, HardwareFollows, PageInRegister
    <3> QED BY <1>4, <1>5, <1>6, <2>4, <3>1 DEF HardwareFollows, PageInRegister, Empty
  <2>7. CopyIsErases(c)'
    <3>1. IsCopy(id) =>
            /\ erase[c].used /\ ~erase[c].completed
            /\ id = Copy(c, erase[c].pages, erase[c].copy)
      BY <2>4 DEF ChipOK, CopyIsErases
    <3> QED BY <1>4, <1>8, <2>1, <2>3, <2>4, <3>1 DEF CopyIsErases
  <2> QED BY <1>4, <1>7, <2>3, <2>5, <2>6, <2>7 DEF ChipOK
<1>11. CASE ReceivesProgram(c, id) \/ ReceivesData(c, id) \/ ReceivesErase(c)
  <2>1. /\ commands' = [commands EXCEPT ![c] = <<>>]
        /\ incompletedR' = [incompletedR EXCEPT ![c] = <<>>]
        /\ chipState[c] # "READ_ADDR" /\ chipState[c] # "IDLE"
    BY <1>1, <1>11 DEF ReceivesProgram, ReceivesData, ReceivesErase
  <2>2. <<>> # <<id>>
    BY ContainsOne
  <2>3. /\ commands' \in [Chips -> Seq(CommandIDs)] /\ incompletedR' \in [Chips -> Seq(CommandIDs)]
        /\ \A d \in Chips : d # c => commands'[d] = commands[d] /\ incompletedR'[d] = incompletedR[d]
        /\ commands'[c] = <<>> /\ incompletedR'[c] = <<>>
    BY <1>9, <2>1, <2>2
  <2>5. Carries(c)'
    BY <1>4, <2>3 DEF Carries, Empty
  <2>6. HardwareFollows(c)'
    <3>1. hwChip[c] = "IDLE"
      BY <1>5, <2>1 DEF ChipOK, HardwareFollows, PageInRegister
    <3> QED BY <1>4, <1>5, <1>6, <2>3, <3>1 DEF HardwareFollows, PageInRegister, Empty
  <2>7. CopyIsErases(c)'
    BY <1>4, <1>8, <2>3 DEF CopyIsErases
  <2> QED BY <1>4, <1>7, <2>3, <2>5, <2>6, <2>7 DEF ChipOK
<1> QED BY <1>10, <1>11

\* A command that is no sub-request moves none.
LEMMA ReceivePlaces ==
  ASSUME SInv, NEW c \in Chips, ChipReceive(c), NEW id, id = chipID[c],
         \/ ReceivesProgram(c, id) \/ ReceivesAddr(c, id)
         \/ ReceivesData(c, id) \/ ReceivesErase(c),
         \A d \in Chips : d # c =>
              /\ commands'[d] = commands[d]
              /\ incompletedR'[d] = incompletedR[d] /\ chipPc'[d] = chipPc[d]
  PROVE  InOnePlace' /\ RelatedOK' /\ EndsSubs'
<1>1. UNCHANGED <<rList, wList, pending, relatedSub, operation, chipOf, hostPc, chipID>>
  BY DEF ChipReceive, lists, request
<1>2. \A x \in pending : Added(x)' <=> Added(x)
  BY <1>1 DEF Added
<1>3. /\ chipPc \in [Chips -> {"none", "receive", "check", "end", "asleep", "dispatch"}]
      /\ commands \in [Chips -> Seq(CommandIDs)] /\ incompletedR \in [Chips -> Seq(CommandIDs)]
  BY DEF SInv, TypeOK
<1>4. ~Ending(c)
  BY DEF ChipReceive, Ending
<1>5. \A x : \A d \in Chips : d # c =>
        \A q \in PlaceNames : IsAt(x, q, d)' <=> IsAt(x, q, d)
  <2> SUFFICES ASSUME NEW x, NEW d \in Chips, d # c, NEW q \in PlaceNames
               PROVE  IsAt(x, q, d)' <=> IsAt(x, q, d)
    OBVIOUS
  <2>1. Ending(d)' <=> Ending(d)
    BY DEF Ending
  <2>2. IsAt(x, "ending", d)' <=> IsAt(x, "ending", d)
    BY <1>1, <2>1, AtPlace
  <2>3. /\ IsAt(x, "r", d)' <=> IsAt(x, "r", d)
        /\ IsAt(x, "w", d)' <=> IsAt(x, "w", d)
        /\ IsAt(x, "commands", d)' <=> IsAt(x, "commands", d)
        /\ IsAt(x, "incompleted", d)' <=> IsAt(x, "incompleted", d)
    BY <1>1, AtPlace
  <2> QED BY <2>2, <2>3 DEF PlaceNames
<1>6. \A x : /\ IsAt(x, "r", c)' <=> IsAt(x, "r", c)
             /\ IsAt(x, "w", c)' <=> IsAt(x, "w", c)
             /\ ~IsAt(x, "ending", c)
  BY <1>1, <1>4, AtPlace
<1>7. ASSUME id \notin Subs, NEW a \in {<<>>, <<id>>}, NEW b \in {<<>>, <<id>>},
             commands'[c] \in {<<>>, <<id>>}, incompletedR'[c] \in {<<>>, <<id>>},
             commands[c] \in {<<>>, <<id>>}, incompletedR[c] \in {<<>>, <<id>>},
             ~Ending(c)'
      PROVE  InOnePlace' /\ RelatedOK' /\ EndsSubs'
  <2>1. \A x \in Subs : /\ ~Contains(commands'[c], x) /\ ~Contains(incompletedR'[c], x)
                        /\ ~Contains(commands[c], x) /\ ~Contains(incompletedR[c], x)
    BY <1>7, ContainsOne
  <2>2. \A x \in Subs : /\ IsAt(x, "commands", c)' <=> IsAt(x, "commands", c)
                        /\ IsAt(x, "incompleted", c)' <=> IsAt(x, "incompleted", c)
                        /\ IsAt(x, "ending", c)' <=> IsAt(x, "ending", c)
    BY <1>6, <1>7, <2>1, AtPlace
  <2>3. \A x \in Subs, q \in PlaceNames, d \in Chips : IsAt(x, q, d)' <=> IsAt(x, q, d)
    <3> SUFFICES ASSUME NEW x \in Subs, NEW q \in PlaceNames, NEW d \in Chips
                 PROVE  IsAt(x, q, d)' <=> IsAt(x, q, d)
      OBVIOUS
    <3>1. CASE d = c
      BY <1>6, <2>2, <3>1 DEF PlaceNames
    <3> QED BY <1>5, <3>1
  <2>4. EndsSubs'
    BY <1>1, <1>7 DEF SInv, EndsSubs, Ending
  <2> QED BY <1>1, <1>2, <2>3, <2>4, NothingMoves DEF SInv
<1>8. ASSUME id \in Subs, NEW p \in PlaceNames, NEW q \in PlaceNames, p # q, p # "w",
             IsAt(id, p, c), \A x : x # id => ~IsAt(x, p, c) /\ ~IsAt(x, q, c)',
             \A x : x # id => ~IsAt(x, p, c)' /\ ~IsAt(x, q, c),
             ~IsAt(id, p, c)', IsAt(id, q, c)',
             \A x : \A r \in PlaceNames : r # p /\ r # q => (IsAt(x, r, c)' <=> IsAt(x, r, c)),
             Ending(c)' => q = "ending"
      PROVE  InOnePlace' /\ RelatedOK' /\ EndsSubs'
  <2>1. \A r \in PlaceNames, d \in Chips : IsAt(id, r, d) => r = p /\ d = c
    BY <1>8, Placed DEF SInv
  <2>2. \A x \in Subs, r \in PlaceNames, d \in Chips : x # id => (IsAt(x, r, d)' <=> IsAt(x, r, d))
    BY <1>5, <1>8
  <2>3. \A r \in PlaceNames, d \in Chips : IsAt(id, r, d)' <=> (r = q /\ d = c)
    <3> SUFFICES ASSUME NEW r \in PlaceNames, NEW d \in Chips
                 PROVE  IsAt(id, r, d)' <=> (r = q /\ d = c)
      OBVIOUS
    <3>1. CASE d = c
      BY <1>8, <2>1, <3>1
    <3>2. CASE d # c
      BY <1>5, <2>1, <3>2
    <3> QED BY <3>1, <3>2
  <2>4. InOnePlace' /\ RelatedOK'
    BY <1>1, <1>2, <1>8, <2>2, <2>3, OneMoves DEF SInv
  <2>5. EndsSubs'
    BY <1>1, <1>8 DEF SInv, EndsSubs, Ending
  <2> QED BY <2>4, <2>5
<1>9. id \in Carriable(c) /\ ~IsCopy(id) => id \in Subs
  BY CopyNames
<1>10. IsCopy(id) => id \notin Subs
  BY SubNames
<1>11. /\ IsAt(id, "ending", c)' <=> Ending(c)'
       /\ \A x : x # id => ~IsAt(x, "ending", c)'
  BY <1>1, AtPlace
<1>12. /\ \A x : ~Contains(<<>>, x)
       /\ \A x : Contains(<<id>>, x) <=> x = id
  BY ContainsOne
<1>13. CASE ReceivesProgram(c, id)
  <2>1. commands[c] = <<id>> /\ incompletedR[c] = <<>> /\ commands'[c] = <<>> /\ incompletedR'[c] = <<>>
    BY <1>3, <1>13 DEF ReceivesProgram
  <2>2. CASE IsCopy(id)
    <3>1. ~Ending(c)'
      BY <1>3, <1>13, <2>2 DEF ReceivesProgram, Received, Ending
    <3> QED BY <1>7, <1>10, <2>1, <2>2, <3>1
  <2>3. CASE ~IsCopy(id)
    <3>1. Ending(c)' /\ id \in Subs
      BY <1>3, <1>9, <1>13, <2>3 DEF ReceivesProgram, Received, Ending
    <3>2. /\ "commands" \in PlaceNames /\ "ending" \in PlaceNames
          /\ \A x : IsAt(x, "commands", c) <=> x = id
          /\ \A x : ~IsAt(x, "commands", c)'
          /\ \A x : IsAt(x, "incompleted", c)' <=> IsAt(x, "incompleted", c)
      BY <1>12, <2>1, AtPlace DEF PlaceNames
    <3>3. \A x : \A r \in PlaceNames :
             r # "commands" /\ r # "ending" => (IsAt(x, r, c)' <=> IsAt(x, r, c))
      BY <1>6, <3>2 DEF PlaceNames
    <3> QED BY <1>6, <1>8, <1>11, <3>1, <3>2, <3>3
  <2> QED BY <2>2, <2>3
<1>14. CASE ReceivesData(c, id)
  <2>1. commands[c] = <<>> /\ incompletedR[c] = <<id>> /\ commands'[c] = <<>> /\ incompletedR'[c] = <<>>
    BY <1>3, <1>14 DEF ReceivesData
  <2>2. CASE IsCopy(id)
    <3>1. ~Ending(c)'
      BY <1>3, <1>14, <2>2 DEF ReceivesData, Received, Ending
    <3> QED BY <1>7, <1>10, <2>1, <2>2, <3>1
  <2>3. CASE ~IsCopy(id)
    <3>1. Ending(c)' /\ id \in Subs
      BY <1>3, <1>9, <1>14, <2>3 DEF ReceivesData, Received, Ending
    <3>2. /\ "incompleted" \in PlaceNames /\ "ending" \in PlaceNames
          /\ \A x : IsAt(x, "incompleted", c) <=> x = id
          /\ \A x : ~IsAt(x, "incompleted", c)'
          /\ \A x : IsAt(x, "commands", c)' <=> IsAt(x, "commands", c)
      BY <1>12, <2>1, AtPlace DEF PlaceNames
    <3>3. \A x : \A r \in PlaceNames :
             r # "incompleted" /\ r # "ending" => (IsAt(x, r, c)' <=> IsAt(x, r, c))
      BY <1>6, <3>2 DEF PlaceNames
    <3> QED BY <1>6, <1>8, <1>11, <3>1, <3>2, <3>3
  <2> QED BY <2>2, <2>3
<1>15. CASE ReceivesAddr(c, id)
  <2>1. commands[c] = <<id>> /\ incompletedR[c] = <<>> /\ commands'[c] = <<>> /\ incompletedR'[c] = <<id>>
    BY <1>3, <1>15 DEF ReceivesAddr
  <2>2. ~Ending(c)'
    BY <1>3, <1>15 DEF ReceivesAddr, Received, Ending
  <2>3. CASE IsCopy(id)
    BY <1>7, <1>10, <2>1, <2>2, <2>3
  <2>4. CASE ~IsCopy(id)
    <3>1. id \in Subs
      BY <1>9, <1>15, <2>4 DEF ReceivesAddr
    <3>2. /\ "commands" \in PlaceNames /\ "incompleted" \in PlaceNames
          /\ \A x : IsAt(x, "commands", c) <=> x = id
          /\ \A x : ~IsAt(x, "commands", c)'
          /\ \A x : IsAt(x, "incompleted", c)' <=> x = id
          /\ \A x : ~IsAt(x, "incompleted", c)
          /\ \A x : ~IsAt(x, "ending", c)'
      BY <1>11, <1>12, <2>1, <2>2, AtPlace DEF PlaceNames
    <3>3. \A x : \A r \in PlaceNames :
             r # "commands" /\ r # "incompleted" => (IsAt(x, r, c)' <=> IsAt(x, r, c))
      BY <1>6, <3>2 DEF PlaceNames
    <3> QED BY <1>8, <2>2, <3>1, <3>2, <3>3
  <2> QED BY <2>3, <2>4
<1>16. CASE ReceivesErase(c)
  <2>1. commands[c] = <<>> /\ incompletedR[c] = <<>> /\ commands'[c] = <<>> /\ incompletedR'[c] = <<>>
    BY <1>16 DEF ReceivesErase
  <2>2. ~Ending(c)'
    BY <1>3, <1>16 DEF ReceivesErase, Received, Ending
  <2>3. \A x : /\ IsAt(x, "commands", c)' <=> IsAt(x, "commands", c)
               /\ IsAt(x, "incompleted", c)' <=> IsAt(x, "incompleted", c)
               /\ IsAt(x, "ending", c)' <=> IsAt(x, "ending", c)
    BY <1>6, <2>1, <2>2, AtPlace
  <2>4. \A x \in Subs, q \in PlaceNames, d \in Chips : IsAt(x, q, d)' <=> IsAt(x, q, d)
    <3> SUFFICES ASSUME NEW x \in Subs, NEW q \in PlaceNames, NEW d \in Chips
                 PROVE  IsAt(x, q, d)' <=> IsAt(x, q, d)
      OBVIOUS
    <3>1. CASE d = c
      BY <1>6, <2>3, <3>1 DEF PlaceNames
    <3> QED BY <1>5, <3>1
  <2>5. EndsSubs'
    BY <1>1, <2>2 DEF SInv, EndsSubs, Ending
  <2> QED BY <1>1, <1>2, <2>4, <2>5, NothingMoves DEF SInv
<1> QED BY <1>13, <1>14, <1>15, <1>16

LEMMA ReceiveKeeps ==
  ASSUME SInv, NEW c \in Chips, ChipReceive(c)
  PROVE  SInv'
<1>1. TypeOK /\ NANDTypeOK /\ ChipOK(c)
  BY DEF SInv, TypeOK
<1>2. \/ ReceivesProgram(c, chipID[c]) \/ ReceivesAddr(c, chipID[c])
      \/ ReceivesData(c, chipID[c]) \/ ReceivesErase(c)
  BY <1>1, Receives
<1>3. /\ ChipOK(c)'
      /\ \A d \in Chips : d # c =>
           /\ chipState'[d] = chipState[d] /\ commands'[d] = commands[d]
           /\ incompletedR'[d] = incompletedR[d] /\ chipPc'[d] = chipPc[d]
      /\ commands' \in [Chips -> Seq(CommandIDs)] /\ incompletedR' \in [Chips -> Seq(CommandIDs)]
      /\ chipState' \in [Chips -> States]
      /\ chipPc' \in [Chips -> {"none", "receive", "check", "end", "asleep", "dispatch"}]
  BY <1>1, <1>2, ReceiveChip
<1>4. /\ erase' \in [Chips -> [used : BOOLEAN, pages : 0..MaxCopies,
                               copy : {"NONE", "READ", "WRITE"}, completed : BOOLEAN]]
      /\ \A d \in Chips : d # c => erase'[d] = erase[d]
  BY <1>1, <1>2, ReceiveErase
<1>5. UNCHANGED <<hwChannel, hwChip, hwID, preCMD, channelTimer, chipTimer, refused, operation,
                  chipOf, relatedSub, pending, restSubreqCount, subMutex, channelState, rList,
                  wList, wTail, hostPc, commandID, chipWork, chipID, channelWork, channelPc>>
  BY DEF ChipReceive, hardware, request, lists
<1>6. TypeOK'
  BY <1>1, <1>3, <1>4, <1>5 DEF TypeOK, NANDTypeOK
<1>7. \A d \in Chips : ChipOK(d)'
  <2> SUFFICES ASSUME NEW d \in Chips, d # c PROVE ChipOK(d)'
    BY <1>3
  <2> QED BY <1>3, <1>4, <1>5, SameChip DEF SInv
<1>8. InOnePlace' /\ RelatedOK' /\ EndsSubs'
  BY <1>2, <1>3, ReceivePlaces
<1>9. ChannelOK' /\ NeverRefused' /\ CountMatchesPending' /\ RequestOK' /\ NotTwice'
  BY <1>5 DEF SInv, ChannelOK, NeverRefused, CountMatchesPending, RequestOK, NotTwice
<1> QED BY <1>6, <1>7, <1>8, <1>9 DEF SInv

LEMMA CheckKeeps ==
  ASSUME SInv, NEW c \in Chips, ChipCheckGC(c) \/ ChipSleepsForEver(c)
  PROVE  SInv'
<1>1. UNCHANGED <<hwChannel, hwChip, hwID, preCMD, channelTimer, chipTimer, refused, request,
                  channelState, chipState, rList, wList, wTail, commands, incompletedR, hostPc,
                  commandID, chipWork, chipID, channelWork, channelPc>>
  BY DEF ChipCheckGC, ChipSleepsForEver, hardware, lists, queues
<1>2. TypeOK /\ NANDTypeOK /\ ChipOK(c)
  BY DEF SInv, TypeOK
<1>3. /\ chipPc' \in [Chips -> {"none", "receive", "check", "end", "asleep", "dispatch"}]
      /\ chipPc[c] \in {"check", "end"} /\ chipPc'[c] \in {"end", "asleep"}
      /\ \A d \in Chips : d # c => chipPc'[d] = chipPc[d]
  BY <1>2 DEF ChipCheckGC, ChipSleepsForEver, Goto, TypeOK
<1>4. \A d \in Chips : Ending(d)' <=> Ending(d)
  BY <1>3 DEF Ending
<1>5. /\ CountMatchesPending' /\ RequestOK' /\ RelatedOK' /\ EndsSubs' /\ NotTwice'
      /\ InOnePlace'
  BY <1>1, <1>4, OthersKept
<1>6. ChannelOK' /\ NeverRefused'
  BY <1>1 DEF SInv, ChannelOK, NeverRefused
<1> DEFINE Erases == [used : BOOLEAN, pages : 0..MaxCopies,
                      copy : {"NONE", "READ", "WRITE"}, completed : BOOLEAN]
<1>7. erase' \in [Chips -> Erases] => TypeOK'
  BY <1>1, <1>2, <1>3 DEF TypeOK, NANDTypeOK, request
<1>8. CASE erase' = erase
  <2>1. ASSUME NEW d \in Chips PROVE ChipOK(d)'
    <3>1. chipPc'[d] = "receive" <=> chipPc[d] = "receive"
      BY <1>3
    <3> QED BY <1>1, <1>8, <3>1, SameChip DEF SInv
  <2>2. erase' \in [Chips -> Erases]
    BY <1>2, <1>8 DEF TypeOK
  <2> QED BY <1>5, <1>6, <1>7, <2>1, <2>2 DEF SInv
<1>9. CASE erase' # erase
  <2>1. PICK n \in 0..MaxCopies :
          erase' = [erase EXCEPT ![c] = [NoErase EXCEPT !.used = TRUE, !.pages = n]]
    BY <1>9 DEF ChipCheckGC, ChipSleepsForEver, queues
  <2>2. ~erase[c].used
    BY <1>9 DEF ChipCheckGC, ChipSleepsForEver, queues
  <2> DEFINE e == [NoErase EXCEPT !.used = TRUE, !.pages = n]
  <2>3. e \in Erases /\ e.copy = "NONE" /\ erase \in [Chips -> Erases]
    BY <1>2 DEF NoErase, TypeOK
  <2>4. erase' = [erase EXCEPT ![c] = e]
    BY <2>1
  <2> HIDE DEF e, Erases
  <2>5. /\ erase' \in [Chips -> Erases] /\ erase'[c] = e
        /\ \A d \in Chips : d # c => erase'[d] = erase[d]
    BY <2>3, <2>4
  <2>6. ASSUME NEW d \in Chips, d # c PROVE ChipOK(d)'
    <3>1. (chipPc'[d] = "receive" <=> chipPc[d] = "receive") /\ erase'[d] = erase[d]
      BY <1>3, <2>5, <2>6
    <3> QED BY <1>1, <3>1, SameChip DEF SInv
  <2>7. CopyIsErases(c)'
    <3>1. \A queue \in {commands[c], incompletedR[c]} : ~(queue # <<>> /\ IsCopy(Head(queue)))
      BY <1>2, <2>2 DEF ChipOK, CopyIsErases
    <3>2. chipState[c] = "PROGRAM" /\ IsCopy(Head(commands[c])) => Head(commands[c])[4] = "WRITE"
      BY <1>2 DEF ChipOK, CopyIsErases
    <3> QED BY <1>1, <2>3, <2>5, <3>1, <3>2 DEF CopyIsErases
  <2>8. Carries(c)'
    BY <1>1, <1>2 DEF ChipOK, Carries, Empty, Holds
  <2>9. Current(c)' = Current(c)
    BY <1>1 DEF Current, Executing
  <2>10. OneSignal(c)'
    <3>1. OneSignal(c)
      BY <1>2 DEF ChipOK
    <3> QED BY <1>1, <1>3, <2>9, <3>1 DEF OneSignal
  <2>11. HardwareFollows(c)'
    <3>1. PageInRegister(c)' = PageInRegister(c)
      BY <1>1 DEF PageInRegister, Empty
    <3> QED BY <1>1, <1>2, <3>1 DEF ChipOK, HardwareFollows, Empty
  <2>12. ChipOK(c)'
    BY <2>7, <2>8, <2>10, <2>11 DEF ChipOK
  <2>13. \A d \in Chips : ChipOK(d)'
    BY <2>6, <2>12
  <2> QED BY <1>5, <1>6, <1>7, <2>5, <2>13 DEF SInv, Erases
<1> QED BY <1>8, <1>9

\* What a step keeps that leaves the chips alone.
LEMMA ChipsKept ==
  ASSUME SInv,
         UNCHANGED <<hwChannel, hwChip, hwID, preCMD, channelTimer, chipTimer, refused,
                     channelState, chipState, commands, incompletedR, erase,
                     commandID, chipWork, chipID, channelWork, channelPc>>,
         chipPc' \in [Chips -> {"none", "receive", "check", "end", "asleep", "dispatch"}],
         \A d \in Chips : chipPc'[d] = "receive" <=> chipPc[d] = "receive",
         operation' \in {"READ", "WRITE"},
         \E n \in 0..MaxPages : chipOf' \in [1..n -> Chips],
         relatedSub' \in [Subs -> Subs \cup {NoSub}],
         pending' \subseteq Subs,
         restSubreqCount' \in 0..MaxPages,
         subMutex' \in {"stale", "free"},
         rList' \in [Chips -> Seq(Subs)], wList' \in [Chips -> Seq(Subs)],
         wTail' \in [Chips -> Subs \cup {NoSub}],
         hostPc' \in {"idle", "add writes", "dispatch writes", "add reads",
                      "dispatch reads", "init mutex", "wait"}
  PROVE  TypeOK' /\ NeverRefused' /\ ChannelOK' /\ (\A d \in Chips : ChipOK(d)')
<1>1. TypeOK'
  BY DEF SInv, TypeOK, NANDTypeOK
<1>2. NeverRefused' /\ ChannelOK'
  BY DEF SInv, NeverRefused, ChannelOK
<1>3. \A d \in Chips : ChipOK(d)'
  BY SameChip DEF SInv
<1> QED BY <1>1, <1>2, <1>3

-----------------------------------------------------------------------------
(* The thread of the block layer, and the end of a sub-request.            *)

\* The count is zero exactly when everything has ended.
LEMMA CountIsZero ==
  ASSUME SInv
  PROVE  restSubreqCount = 0 <=> pending = {}
<1> DEFINE Left == {k \in Pages : Main(k) \in pending}
<1>1. IsFiniteSet(Left) /\ restSubreqCount = Cardinality(Left)
  <2>1. IsFiniteSet(Pages)
    BY SchedulerAssumption, FS_Interval DEF Pages
  <2>2. Left \subseteq Pages
    OBVIOUS
  <2>3. IsFiniteSet(Left)
    BY <2>1, <2>2, FS_Subset
  <2> QED BY <2>3 DEF SInv, CountMatchesPending
<1>2. Left = {} <=> pending = {}
  <2>1. ASSUME NEW x \in pending PROVE \E k \in Pages : Main(k) \in pending
    <3>1. PICK k \in Pages : x = Main(k) \/ x = RMW(k)
      BY <2>1, SubNames DEF SInv, TypeOK
    <3> QED BY <2>1, <3>1 DEF SInv, RelatedOK
  <2> QED BY <2>1
<1> HIDE DEF Left
<1> QED BY <1>1, <1>2, FS_EmptySet

LEMMA InitMutexKeeps ==
  ASSUME SInv, HostInitMutex
  PROVE  SInv'
<1>1. /\ hostPc = "init mutex" /\ subMutex' = "free"
      /\ hostPc' = IF restSubreqCount = 0 THEN "idle" ELSE "wait"
      /\ UNCHANGED <<hwChannel, hwChip, hwID, preCMD, channelTimer, chipTimer, refused, operation,
                     chipOf, relatedSub, pending, restSubreqCount, channelState, chipState, rList,
                     wList, wTail, commands, incompletedR, erase, commandID, chipWork, chipPc,
                     chipID, channelWork, channelPc>>
  BY DEF HostInitMutex, hardware, lists, queues, works
<1>2. TypeOK
  BY DEF SInv
<1>3. TypeOK' /\ NeverRefused' /\ ChannelOK' /\ (\A d \in Chips : ChipOK(d)')
  BY <1>1, <1>2, ChipsKept DEF TypeOK
<1>4. CountMatchesPending' /\ RequestOK' /\ EndsSubs' /\ NotTwice'
  BY <1>1, CountIsZero DEF SInv, CountMatchesPending, RequestOK, EndsSubs, Ending, NotTwice
<1>5. InOnePlace' /\ RelatedOK'
  <2>1. \A x \in Subs, q \in PlaceNames, d \in Chips : IsAt(x, q, d)' <=> IsAt(x, q, d)
    <3> SUFFICES ASSUME NEW x \in Subs, NEW q \in PlaceNames, NEW d \in Chips
                 PROVE  IsAt(x, q, d)' <=> IsAt(x, q, d)
      OBVIOUS
    <3>1. /\ IsAt(x, "r", d)' <=> IsAt(x, "r", d)
          /\ IsAt(x, "w", d)' <=> IsAt(x, "w", d)
          /\ IsAt(x, "commands", d)' <=> IsAt(x, "commands", d)
          /\ IsAt(x, "incompleted", d)' <=> IsAt(x, "incompleted", d)
          /\ IsAt(x, "ending", d)' <=> IsAt(x, "ending", d)
      BY <1>1, AtPlace DEF Ending
    <3> QED BY <3>1 DEF PlaceNames
  <2>2. \A x \in pending : Added(x)' <=> Added(x)
    BY <1>1 DEF Added
  <2> QED BY <1>1, <2>1, <2>2, NothingMoves DEF SInv
<1> QED BY <1>3, <1>4, <1>5 DEF SInv

\* What ends leaves its place, and nothing else moves.
LEMMA EndPlaces ==
  ASSUME SInv, NEW c \in Chips, ChipEndSub(c), NEW s, s = chipID[c]
  PROVE  /\ s \in Subs /\ s \in pending /\ Places(s) = {<<"ending", c>>}
         /\ \A x \in Subs : x # s => Places(x)' = Places(x)
         /\ Places(s)' = {}
         /\ EndsSubs' /\ pending' = pending \ {s}
<1>1. /\ chipPc[c] = "end" /\ chipPc' = [chipPc EXCEPT ![c] = "dispatch"]
      /\ UNCHANGED <<rList, wList, commands, incompletedR, chipID>>
      /\ pending' = pending \ {s}
  BY DEF ChipEndSub, Goto, lists, queues, EndRelated, request_May_End
<1>2. s \in Subs /\ IsAt(s, "ending", c)
  BY <1>1, AtPlace DEF SInv, EndsSubs, Ending
<1>3. /\ s \in pending /\ Places(s) = {<<"ending", c>>}
      /\ \A p \in PlaceNames, b \in Chips : IsAt(s, p, b) => p = "ending" /\ b = c
  BY <1>2, Placed DEF SInv, PlaceNames
<1>4. /\ ~Ending(c)' /\ \A d \in Chips : d # c => (Ending(d)' <=> Ending(d))
  BY <1>1 DEF SInv, TypeOK, Ending
<1>5. \A x : \A d \in Chips : /\ IsAt(x, "r", d)' <=> IsAt(x, "r", d)
                              /\ IsAt(x, "w", d)' <=> IsAt(x, "w", d)
                              /\ IsAt(x, "commands", d)' <=> IsAt(x, "commands", d)
                              /\ IsAt(x, "incompleted", d)' <=> IsAt(x, "incompleted", d)
  BY <1>1, AtPlace
<1>6. \A x : \A d \in Chips :
        /\ x # s => (IsAt(x, "ending", d)' <=> IsAt(x, "ending", d))
        /\ d # c => (IsAt(x, "ending", d)' <=> IsAt(x, "ending", d))
        /\ ~IsAt(x, "ending", c)'
  BY <1>1, <1>4, AtPlace
<1>7. ASSUME NEW x \in Subs, x # s PROVE Places(x)' = Places(x)
  <2>1. \A q \in PlaceNames, d \in Chips : IsAt(x, q, d)' <=> IsAt(x, q, d)
    BY <1>5, <1>6, <1>7 DEF PlaceNames
  <2> QED BY <2>1, InPlaces
<1>8. Places(s)' = {}
  <2>1. \A q \in PlaceNames, d \in Chips : ~IsAt(s, q, d)'
    BY <1>3, <1>5, <1>6 DEF PlaceNames
  <2>2. ASSUME NEW pl \in Places(s)' PROVE FALSE
    <3>1. PICK r \in PlaceNames, d \in Chips : pl = <<r, d>>
      BY <2>2 DEF Places, PlaceNames
    <3>2. IsAt(s, r, d)'
      BY <2>2, <3>1, InPlaces
    <3> QED BY <2>1, <3>2
  <2> QED BY <2>2
<1>9. EndsSubs'
  BY <1>1, <1>4 DEF SInv, EndsSubs
<1> QED BY <1>1, <1>2, <1>3, <1>7, <1>8, <1>9

\* The read of a read-modify-write ends: its write may go.
LEMMA EndRelatedKeeps ==
  ASSUME SInv, NEW c \in Chips, ChipEndSub(c), NEW s, s = chipID[c], EndRelated(s)
  PROVE  SInv' /\ \A j \in Pages : Main(j) \in pending' <=> Main(j) \in pending
<1>1. /\ relatedSub[s] # NoSub
      /\ relatedSub' = [relatedSub EXCEPT ![relatedSub[s]] = NoSub, ![s] = NoSub]
      /\ UNCHANGED <<operation, chipOf, restSubreqCount, subMutex, hostPc>>
  BY DEF EndRelated
<1>2. /\ UNCHANGED <<hwChannel, hwChip, hwID, preCMD, channelTimer, chipTimer, refused, channelState,
                     chipState, rList, wList, wTail, commands, incompletedR, erase, commandID,
                     chipWork, chipID, channelWork, channelPc>>
      /\ chipPc[c] = "end" /\ chipPc' = [chipPc EXCEPT ![c] = "dispatch"]
  BY DEF ChipEndSub, hardware, lists, queues, Goto
<1>3. /\ s \in Subs /\ s \in pending /\ Places(s) = {<<"ending", c>>}
      /\ \A x \in Subs : x # s => Places(x)' = Places(x)
      /\ Places(s)' = {}
      /\ EndsSubs' /\ pending' = pending \ {s}
  BY EndPlaces
<1>4. TypeOK /\ pending \subseteq Subs /\ relatedSub \in [Subs -> Subs \cup {NoSub}] /\ RelatedOK
  BY DEF SInv, TypeOK
<1>5. PICK k \in Pages : s = Main(k) \/ s = RMW(k)
  BY <1>3, SubNames
<1>6. s = RMW(k) /\ relatedSub[s] = Main(k) /\ relatedSub[Main(k)] = s
  <2>1. ASSUME s = Main(k) PROVE FALSE
    <3>1. RMW(k) \in pending
      BY <1>1, <1>4, <2>1 DEF RelatedOK
    <3>2. \A pl \in Places(s) : pl[1] = "w"
      BY <1>4, <2>1, <3>1 DEF RelatedOK
    <3>3. <<"ending", c>>[1] = "w"
      BY <1>3, <3>2
    <3> QED BY <3>3
  <2>2. s = RMW(k)
    BY <1>5, <2>1
  <2> QED BY <1>3, <1>4, <2>2 DEF RelatedOK
<1>7. /\ relatedSub' \in [Subs -> Subs \cup {NoSub}]
      /\ relatedSub'[Main(k)] = NoSub /\ relatedSub'[RMW(k)] = NoSub
      /\ \A x \in Subs : x # Main(k) /\ x # RMW(k) => relatedSub'[x] = relatedSub[x]
  BY <1>1, <1>4, <1>6, SubNames
<1>8. TypeOK' /\ NeverRefused' /\ ChannelOK' /\ (\A d \in Chips : ChipOK(d)')
  <2>1. /\ chipPc' \in [Chips -> {"none", "receive", "check", "end", "asleep", "dispatch"}]
        /\ \A d \in Chips : chipPc'[d] = "receive" <=> chipPc[d] = "receive"
    BY <1>2, <1>4 DEF TypeOK
  <2>2. pending' \subseteq Subs
    BY <1>3, <1>4
  <2> QED BY <1>1, <1>2, <1>4, <1>7, <2>1, <2>2, ChipsKept DEF TypeOK
<1>13. \A j \in Pages : Main(j) \in pending' <=> Main(j) \in pending
  BY <1>3, <1>6, SubNames
<1>9. CountMatchesPending'
  <2>2. {j \in Pages : Main(j) \in pending'} = {j \in Pages : Main(j) \in pending}
    BY <1>13
  <2>3. hostPc' = "idle" => pending' = {}
    BY <1>1, <1>3 DEF SInv, CountMatchesPending
  <2> QED BY <1>1, <2>2, <2>3 DEF SInv, CountMatchesPending
<1>10. RequestOK' /\ NotTwice'
  BY <1>1, <1>2, <1>3 DEF SInv, RequestOK, NotTwice
<1>11. RelatedOK'
  <2> SUFFICES ASSUME NEW j \in Pages
        PROVE /\ RMW(j) \in pending' =>
                   /\ relatedSub'[Main(j)] = RMW(j) /\ relatedSub'[RMW(j)] = Main(j)
                   /\ Main(j) \in pending' /\ operation' = "WRITE"
                   /\ \A pl \in Places(Main(j))' : pl[1] = "w"
              /\ RMW(j) \notin pending' => relatedSub'[Main(j)] = NoSub /\ relatedSub'[RMW(j)] = NoSub
              /\ Main(j) \in pending' => j \in 1..Len(chipOf')
    BY DEF RelatedOK
  <2>1. Main(j) \in pending' <=> Main(j) \in pending
    BY <1>3, <1>6, SubNames
  <2>2. CASE j = k
    BY <1>1, <1>3, <1>4, <1>6, <1>7, <2>1, <2>2 DEF RelatedOK
  <2>3. CASE j # k
    <3>1. /\ Main(j) # Main(k) /\ Main(j) # RMW(k) /\ RMW(j) # Main(k) /\ RMW(j) # RMW(k)
          /\ Main(j) \in Subs /\ RMW(j) \in Subs
      BY <2>3, SubNames
    <3>2. /\ relatedSub'[Main(j)] = relatedSub[Main(j)] /\ relatedSub'[RMW(j)] = relatedSub[RMW(j)]
          /\ RMW(j) \in pending' <=> RMW(j) \in pending
          /\ Places(Main(j))' = Places(Main(j))
      BY <1>3, <1>6, <1>7, <3>1
    <3> QED BY <1>1, <1>4, <2>1, <3>2 DEF RelatedOK
  <2> QED BY <2>2, <2>3
<1>12. InOnePlace'
  <2> SUFFICES ASSUME NEW x \in Subs
               PROVE  /\ (x \in pending /\ Added(x))' => \E pl \in Places(x)' : Places(x)' = {pl}
                      /\ ~(x \in pending /\ Added(x))' => Places(x)' = {}
    BY DEF InOnePlace
  <2>1. CASE x = s
    BY <1>3, <2>1
  <2>2. CASE x # s
    <3>1. (x \in pending /\ Added(x))' <=> (x \in pending /\ Added(x))
      BY <1>1, <1>3, <2>2 DEF Added
    <3> QED BY <1>3, <2>2, <3>1 DEF SInv, InOnePlace
  <2> QED BY <2>1, <2>2
<1> QED BY <1>3, <1>8, <1>9, <1>10, <1>11, <1>12, <1>13 DEF SInv

\* A page of the request ends, the last one with the request.
LEMMA EndPageKeeps ==
  ASSUME SInv, NEW c \in Chips, ChipEndSub(c), NEW s, s = chipID[c], request_May_End(s)
  PROVE  /\ SInv'
         /\ \E k \in Pages : s = Main(k) /\ Main(k) \in pending /\ pending' = pending \ {Main(k)}
         /\ restSubreqCount' = 0 => pending' = {}
         /\ restSubreqCount' # 0 => \E j \in Pages : Main(j) \in pending'
<1>1. /\ relatedSub[s] = NoSub /\ subMutex = "free"
      /\ restSubreqCount' = restSubreqCount - 1
      /\ relatedSub' = relatedSub
      /\ \/ restSubreqCount' # 0 /\ UNCHANGED <<operation, chipOf, subMutex, hostPc>>
         \/ /\ restSubreqCount' = 0 /\ operation' = "READ" /\ chipOf' = <<>>
            /\ subMutex' = "stale" /\ hostPc' = IF hostPc = "wait" THEN "idle" ELSE hostPc
  BY DEF request_May_End
<1>2. /\ UNCHANGED <<hwChannel, hwChip, hwID, preCMD, channelTimer, chipTimer, refused, channelState,
                     chipState, rList, wList, wTail, commands, incompletedR, erase, commandID,
                     chipWork, chipID, channelWork, channelPc>>
      /\ chipPc[c] = "end" /\ chipPc' = [chipPc EXCEPT ![c] = "dispatch"]
  BY DEF ChipEndSub, hardware, lists, queues, Goto
<1>3. /\ s \in Subs /\ s \in pending /\ Places(s) = {<<"ending", c>>}
      /\ \A x \in Subs : x # s => Places(x)' = Places(x)
      /\ Places(s)' = {}
      /\ EndsSubs' /\ pending' = pending \ {s}
  BY EndPlaces
<1>4. /\ TypeOK /\ pending \subseteq Subs /\ relatedSub \in [Subs -> Subs \cup {NoSub}] /\ RelatedOK
      /\ restSubreqCount \in 0..MaxPages
  BY DEF SInv, TypeOK
<1>5. PICK k \in Pages : s = Main(k) \/ s = RMW(k)
  BY <1>3, SubNames
<1>6. s = Main(k) /\ RMW(k) \notin pending
  <2>1. RMW(k) \notin pending
    <3>1. ASSUME RMW(k) \in pending PROVE FALSE
      <4>1. relatedSub[Main(k)] = RMW(k) /\ relatedSub[RMW(k)] = Main(k)
        BY <1>4, <3>1 DEF RelatedOK
      <4> QED BY <1>1, <1>5, <4>1, SubNames
    <3> QED BY <3>1
  <2> QED BY <1>3, <1>5, <2>1
<1> DEFINE Left == {j \in Pages : Main(j) \in pending}
<1>7. /\ IsFiniteSet(Left) /\ k \in Left /\ restSubreqCount = Cardinality(Left)
      /\ Left \subseteq Pages
  <2>1. IsFiniteSet(Pages)
    BY SchedulerAssumption, FS_Interval DEF Pages
  <2>2. Left \subseteq Pages
    OBVIOUS
  <2>3. IsFiniteSet(Left)
    BY <2>1, <2>2, FS_Subset
  <2> QED BY <1>3, <1>6, <2>2, <2>3 DEF SInv, CountMatchesPending
<1>8. {j \in Pages : Main(j) \in pending'} = Left \ {k}
  BY <1>3, <1>6, SubNames
<1> HIDE DEF Left
<1>9. /\ IsFiniteSet(Left \ {k}) /\ Cardinality(Left \ {k}) = Cardinality(Left) - 1
      /\ restSubreqCount' = Cardinality(Left \ {k})
  BY <1>1, <1>7, FS_RemoveElement
<1>10. restSubreqCount' \in 0..MaxPages
  <2>1. Cardinality(Left \ {k}) \in Nat
    BY <1>9, FS_CardinalityType
  <2> QED BY <1>1, <1>4, <1>9, <2>1, SchedulerAssumption
<1>11. restSubreqCount' = 0 => pending' = {}
  <2> SUFFICES ASSUME restSubreqCount' = 0, NEW x \in pending' PROVE FALSE
    OBVIOUS
  <2>1. Left \ {k} = {}
    BY <1>9, FS_EmptySet
  <2>2. \A j \in Pages : Main(j) \notin pending'
    BY <1>8, <2>1
  <2>3. PICK j \in Pages : x = Main(j) \/ x = RMW(j)
    BY <1>3, <1>4, SubNames
  <2>4. x = RMW(j) /\ RMW(j) \in pending
    BY <1>3, <2>2, <2>3
  <2>5. Main(j) \in pending /\ j # k
    BY <1>4, <1>6, <2>4 DEF RelatedOK
  <2>6. Main(j) \in pending'
    BY <1>3, <1>6, <2>5, SubNames
  <2> QED BY <2>2, <2>6
<1>12. restSubreqCount' # 0 => \E j \in Pages : Main(j) \in pending'
  <2> SUFFICES ASSUME restSubreqCount' # 0 PROVE \E j \in Pages : Main(j) \in pending'
    OBVIOUS
  <2>1. Left \ {k} # {}
    BY <1>9, FS_EmptySet
  <2> QED BY <1>8, <2>1
<1>13. hostPc \notin {"idle", "add writes"}
  <2>1. Added(s)
    BY <1>3 DEF SInv, InOnePlace
  <2>2. hostPc # "add writes"
    BY <2>1 DEF Added
  <2> QED BY <1>3, <2>2 DEF SInv, CountMatchesPending
<1>14. /\ operation' \in {"READ", "WRITE"} /\ \E n \in 0..MaxPages : chipOf' \in [1..n -> Chips]
       /\ subMutex' \in {"stale", "free"}
       /\ hostPc' \in {"idle", "add writes", "dispatch writes", "add reads",
                       "dispatch reads", "init mutex", "wait"}
  <2>1. CASE restSubreqCount' # 0
    BY <1>1, <1>4, <2>1 DEF TypeOK
  <2>2. CASE restSubreqCount' = 0
    <3>1. <<>> \in [1..0 -> Chips] /\ 0 \in 0..MaxPages
      BY SchedulerAssumption
    <3> QED BY <1>1, <1>4, <2>2, <3>1 DEF TypeOK
  <2> QED BY <2>1, <2>2
<1>15. TypeOK' /\ NeverRefused' /\ ChannelOK' /\ (\A d \in Chips : ChipOK(d)')
  <2>1. /\ chipPc' \in [Chips -> {"none", "receive", "check", "end", "asleep", "dispatch"}]
        /\ \A d \in Chips : chipPc'[d] = "receive" <=> chipPc[d] = "receive"
    BY <1>2, <1>4 DEF TypeOK
  <2>2. pending' \subseteq Subs
    BY <1>3, <1>4
  <2> QED BY <1>1, <1>2, <1>4, <1>10, <1>14, <2>1, <2>2, ChipsKept DEF TypeOK
<1>16. CountMatchesPending'
  <2>1. restSubreqCount' = Cardinality({j \in Pages : Main(j) \in pending'})
    BY <1>8, <1>9
  <2>2. hostPc' = "idle" => pending' = {}
    BY <1>1, <1>11, <1>13
  <2> QED BY <2>1, <2>2 DEF CountMatchesPending
<1>20. RequestOK'
  <2>1. pending # {} /\ RequestOK
    BY <1>3 DEF SInv
  <2>2. CASE restSubreqCount' # 0
    BY <1>1, <2>1, <2>2 DEF RequestOK
  <2>3. CASE restSubreqCount' = 0
    BY <1>1, <1>11, <1>13, <2>3 DEF RequestOK
  <2> QED BY <2>2, <2>3
<1>17. RequestOK' /\ NotTwice'
  BY <1>2, <1>20 DEF SInv, NotTwice
<1>18. RelatedOK'
  <2> SUFFICES ASSUME NEW j \in Pages
        PROVE /\ RMW(j) \in pending' =>
                   /\ relatedSub'[Main(j)] = RMW(j) /\ relatedSub'[RMW(j)] = Main(j)
                   /\ Main(j) \in pending' /\ operation' = "WRITE"
                   /\ \A pl \in Places(Main(j))' : pl[1] = "w"
              /\ RMW(j) \notin pending' => relatedSub'[Main(j)] = NoSub /\ relatedSub'[RMW(j)] = NoSub
              /\ Main(j) \in pending' => j \in 1..Len(chipOf')
    BY DEF RelatedOK
  <2>1. (RMW(j) \in pending' <=> RMW(j) \in pending) /\ (Main(j) \in pending' => Main(j) \in pending)
    BY <1>3, <1>6, SubNames
  <2>2. CASE restSubreqCount' = 0
    BY <1>1, <1>4, <1>11, <2>1, <2>2 DEF RelatedOK
  <2>3. CASE restSubreqCount' # 0
    <3>1. operation' = operation /\ chipOf' = chipOf
      BY <1>1, <2>3
    <3>2. RMW(j) \in pending => Main(j) # s /\ Main(j) \in Subs
      BY <1>6, SubNames
    <3>3. RMW(j) \in pending => Main(j) \in pending' /\ Places(Main(j))' = Places(Main(j))
      BY <1>3, <1>4, <3>2 DEF RelatedOK
    <3> QED BY <1>1, <1>4, <2>1, <3>1, <3>3 DEF RelatedOK
  <2> QED BY <2>2, <2>3
<1>19. InOnePlace'
  <2> SUFFICES ASSUME NEW x \in Subs
               PROVE  /\ (x \in pending /\ Added(x))' => \E pl \in Places(x)' : Places(x)' = {pl}
                      /\ ~(x \in pending /\ Added(x))' => Places(x)' = {}
    BY DEF InOnePlace
  <2>1. CASE x = s
    BY <1>3, <2>1
  <2>2. CASE x # s
    <3>1. x \in pending' <=> x \in pending
      BY <1>3, <2>2
    <3>2. x \in pending => (Added(x)' <=> Added(x))
      BY <1>1, <1>11, <3>1 DEF Added
    <3> QED BY <1>3, <2>2, <3>1, <3>2 DEF SInv, InOnePlace
  <2> QED BY <2>1, <2>2
<1> QED BY <1>3, <1>6, <1>11, <1>12, <1>15, <1>16, <1>17, <1>18, <1>19 DEF SInv

LEMMA LenChipOf ==
  ASSUME TypeOK
  PROVE  /\ Len(chipOf) \in 0..MaxPages /\ Len(chipOf) \in Nat
         /\ \A k \in 1..Len(chipOf) : chipOf[k] \in Chips
<1>1. PICK n \in 0..MaxPages : chipOf \in [1..n -> Chips]
  BY DEF TypeOK
<1>2. n \in Nat
  BY SchedulerAssumption
<1>3. DOMAIN chipOf = 1..n /\ chipOf \in Seq(Chips)
  BY <1>1, <1>2
<1>4. Len(chipOf) = n
  BY <1>2, <1>3
<1> QED BY <1>1, <1>2, <1>4

\* add_subReqs_to_chip puts what it adds in one place, and moves nothing.
LEMMA AddsPlaces ==
  ASSUME SInv, NEW kind \in {"main", "rmw"}, NEW q \in {"r", "w"},
         kind = "main" => q = "w" \/ operation = "READ",
         UNCHANGED <<pending, relatedSub, operation, chipOf, commands, incompletedR, chipPc, chipID>>,
         \A x \in pending : IF x[1] = kind THEN ~Added(x) /\ Added(x)' ELSE Added(x)' <=> Added(x),
         \A x \in Subs : \A p \in {"r", "w"}, d \in Chips :
           IsAt(x, p, d)' <=> IsAt(x, p, d) \/ (p = q /\ Contains(AddedTo(d, kind), x))
  PROVE  InOnePlace' /\ RelatedOK'
<1>1. /\ TypeOK /\ RelatedOK /\ InOnePlace /\ pending \subseteq Subs
  BY DEF SInv, TypeOK
<1>2. Len(chipOf) \in Nat /\ \A k \in 1..Len(chipOf) : chipOf[k] \in Chips
  BY <1>1, LenChipOf
<1>3. \A d : \A e : Contains(AddedTo(d, kind), e) <=>
               \E k \in 1..Len(chipOf) : e = <<kind, k>> /\ e \in pending /\ chipOf[k] = d
  BY <1>1, <1>2, AddedToContains
<1>4. \A x : \A d \in Chips : /\ IsAt(x, "commands", d)' <=> IsAt(x, "commands", d)
                              /\ IsAt(x, "incompleted", d)' <=> IsAt(x, "incompleted", d)
                              /\ IsAt(x, "ending", d)' <=> IsAt(x, "ending", d)
  BY AtPlace DEF Ending
<1>5. \A x \in Subs : \A p \in PlaceNames, d \in Chips :
        IsAt(x, p, d)' <=> IsAt(x, p, d) \/ (p = q /\ Contains(AddedTo(d, kind), x))
  <2> SUFFICES ASSUME NEW x \in Subs, NEW p \in PlaceNames, NEW d \in Chips
               PROVE  IsAt(x, p, d)' <=> IsAt(x, p, d) \/ (p = q /\ Contains(AddedTo(d, kind), x))
    OBVIOUS
  <2>1. CASE p \in {"r", "w"}
    BY <2>1
  <2>2. CASE p \in {"commands", "incompleted", "ending"}
    <3>1. p # q
      BY <2>2
    <3>2. IsAt(x, p, d)' <=> IsAt(x, p, d)
      BY <1>4, <2>2
    <3> QED BY <3>1, <3>2
  <2> QED BY <2>1, <2>2 DEF PlaceNames
<1>6. ASSUME NEW x \in Subs, x[1] # kind \/ x \notin pending
      PROVE  Places(x)' = Places(x)
  <2>1. \A d : ~Contains(AddedTo(d, kind), x)
    <3>1. \A k : <<kind, k>>[1] = kind
      OBVIOUS
    <3> QED BY <1>3, <1>6, <3>1
  <2>2. \A p \in PlaceNames, d \in Chips : IsAt(x, p, d)' <=> IsAt(x, p, d)
    BY <1>5, <2>1
  <2> QED BY <2>2, InPlaces
<1>7. ASSUME NEW x \in pending, x[1] = kind
      PROVE  \E d \in Chips : Places(x)' = {<<q, d>>}
  <2>1. x \in Subs /\ ~Added(x) /\ Added(x)'
    BY <1>1, <1>7
  <2>2. PICK k \in 1..Len(chipOf) : x = <<kind, k>>
    <3>1. PICK k \in Pages : x = Main(k) \/ x = RMW(k)
      BY <2>1, SubNames
    <3>2. x = <<kind, k>>
      BY <1>7, <3>1 DEF Main, RMW
    <3>3. k \in 1..Len(chipOf)
      BY <1>1, <1>7, <3>1 DEF RelatedOK
    <3> QED BY <3>2, <3>3
  <2>3. \A d : Contains(AddedTo(d, kind), x) <=> d = chipOf[k]
    <3>1. \A j : x = <<kind, j>> => j = k
      BY <2>2
    <3> QED BY <1>3, <1>7, <2>2, <3>1
  <2>4. Places(x) = {}
    BY <1>1, <2>1 DEF InOnePlace
  <2>5. \A p \in PlaceNames, d \in Chips : ~IsAt(x, p, d)
    BY <2>4, InPlaces
  <2>6. \A p \in PlaceNames, d \in Chips : IsAt(x, p, d)' <=> p = q /\ d = chipOf[k]
    BY <1>5, <2>1, <2>3, <2>5
  <2>7. chipOf[k] \in Chips /\ q \in PlaceNames
    BY <1>2 DEF PlaceNames
  <2>8. <<q, chipOf[k]>> \in Places(x)'
    BY <2>6, <2>7, InPlaces
  <2>9. ASSUME NEW pl \in Places(x)' PROVE pl = <<q, chipOf[k]>>
    <3>1. PICK p \in PlaceNames, d \in Chips : pl = <<p, d>>
      BY <2>9 DEF Places, PlaceNames
    <3>2. IsAt(x, p, d)'
      BY <2>9, <3>1, InPlaces
    <3> QED BY <2>6, <3>1, <3>2
  <2>10. Places(x)' = {<<q, chipOf[k]>>}
    BY <2>8, <2>9
  <2> QED BY <2>7, <2>10
<1>8. InOnePlace'
  <2> SUFFICES ASSUME NEW x \in Subs
               PROVE  /\ (x \in pending /\ Added(x))' => \E pl \in Places(x)' : Places(x)' = {pl}
                      /\ ~(x \in pending /\ Added(x))' => Places(x)' = {}
    BY DEF InOnePlace
  <2>1. CASE x \in pending /\ x[1] = kind
    <3>1. PICK d \in Chips : Places(x)' = {<<q, d>>}
      BY <1>7, <2>1
    <3> QED BY <2>1, <3>1
  <2>2. CASE x \in pending /\ x[1] # kind
    BY <1>1, <1>6, <2>2 DEF InOnePlace
  <2>3. CASE x \notin pending
    BY <1>1, <1>6, <2>3 DEF InOnePlace
  <2> QED BY <2>1, <2>2, <2>3
<1>9. RelatedOK'
  <2>1. ASSUME NEW k \in Pages, RMW(k) \in pending
        PROVE  \A pl \in Places(Main(k))' : pl[1] = "w"
    <3>1. Main(k) \in pending /\ operation = "WRITE" /\ \A pl \in Places(Main(k)) : pl[1] = "w"
      BY <1>1, <2>1 DEF RelatedOK
    <3>2. Main(k) \in Subs /\ Main(k)[1] = "main"
      BY SubNames
    <3>3. CASE kind = "main"
      <4>1. q = "w"
        BY <3>1, <3>3
      <4>2. PICK d \in Chips : Places(Main(k))' = {<<q, d>>}
        BY <1>7, <3>1, <3>2, <3>3
      <4> QED BY <4>1, <4>2
    <3>4. CASE kind # "main"
      BY <1>6, <3>1, <3>2, <3>4
    <3> QED BY <3>3, <3>4
  <2> QED BY <1>1, <2>1 DEF RelatedOK
<1> QED BY <1>8, <1>9

\* The lists a request is added to hold nothing twice.
LEMMA AddedLists ==
  ASSUME SInv, NEW kind, \A x \in pending : x[1] = kind => ~Added(x),
         NEW queue \in Seq(Subs), NEW d \in Chips, NEW q \in {"r", "w"},
         queue = IF q = "r" THEN rList[d] ELSE wList[d]
  PROVE  /\ queue \o AddedTo(d, kind) \in Seq(Subs)
         /\ IsInjective(queue \o AddedTo(d, kind))
         /\ \A x : Contains(queue \o AddedTo(d, kind), x) <=>
                     Contains(queue, x) \/ Contains(AddedTo(d, kind), x)
<1>1. /\ TypeOK /\ InOnePlace /\ pending \subseteq Subs /\ NotTwice
  BY DEF SInv, TypeOK
<1>2. Len(chipOf) \in Nat
  BY <1>1, LenChipOf
<1>3. /\ AddedTo(d, kind) \in Seq(Subs) /\ IsInjective(AddedTo(d, kind))
      /\ \A e : Contains(AddedTo(d, kind), e) <=>
               \E k \in 1..Len(chipOf) : e = <<kind, k>> /\ e \in pending /\ chipOf[k] = d
  BY <1>1, <1>2, AddedToContains
<1>4. IsInjective(queue)
  BY <1>1 DEF NotTwice
<1>5. ASSUME NEW e, Contains(queue, e), Contains(AddedTo(d, kind), e) PROVE FALSE
  <2>1. e \in pending /\ e[1] = kind /\ e \in Subs
    BY <1>1, <1>3, <1>5
  <2>2. Places(e) = {}
    BY <1>1, <2>1 DEF InOnePlace
  <2>3. IsAt(e, q, d)
    BY <1>5, AtPlace
  <2> QED BY <2>2, <2>3, InPlaces DEF PlaceNames
<1> QED BY <1>3, <1>4, <1>5, ConcatContains

LEMMA AddWritesKeeps ==
  ASSUME SInv, HostAddWrites
  PROVE  SInv'
<1>1. /\ hostPc = "add writes" /\ hostPc' = "dispatch writes"
      /\ UNCHANGED <<hwChannel, hwChip, hwID, preCMD, channelTimer, chipTimer, refused, operation,
                     chipOf, relatedSub, pending, restSubreqCount, subMutex, channelState,
                     chipState, rList, commands, incompletedR, erase, commandID, chipWork, chipPc,
                     chipID, channelWork, channelPc>>
  BY DEF HostAddWrites, hardware, request, queues, works
<1>2. /\ TypeOK /\ pending \subseteq Subs /\ InOnePlace /\ NotTwice /\ operation = "WRITE"
      /\ wList \in [Chips -> Seq(Subs)] /\ wTail \in [Chips -> Subs \cup {NoSub}]
  BY <1>1 DEF SInv, TypeOK, RequestOK
<1>3. \A x : ~Added(x)
  BY <1>1 DEF Added
<1>4. \A x \in Subs : Places(x) = {}
  BY <1>2, <1>3 DEF InOnePlace
<1>5. ASSUME NEW d \in Chips PROVE wList[d] = <<>>
  <2> SUFFICES ASSUME wList[d] # <<>> PROVE FALSE
    OBVIOUS
  <2>1. wList[d] \in Seq(Subs) /\ IsInjective(wList[d])
    BY <1>2 DEF NotTwice
  <2>2. Head(wList[d]) \in Subs /\ Contains(wList[d], Head(wList[d]))
    BY <2>1, TailContains
  <2>3. PICK x \in Subs : Contains(wList[d], x)
    BY <2>2
  <2>4. IsAt(x, "w", d)
    BY <2>3, AtPlace
  <2> QED BY <1>4, <2>4, InPlaces DEF PlaceNames
<1>6. wList' = [d \in Chips |-> AddedTo(d, "main")]
  BY <1>5 DEF HostAddWrites
<1>7. Len(chipOf) \in Nat
  BY <1>2, LenChipOf
<1>8. \A d : AddedTo(d, "main") \in Seq(Subs) /\ IsInjective(AddedTo(d, "main"))
  BY <1>2, <1>7, AddedToContains
<1>9. wList' \in [Chips -> Seq(Subs)] /\ \A d \in Chips : wList'[d] = AddedTo(d, "main")
  BY <1>6, <1>8
<1>10. wTail' \in [Chips -> Subs \cup {NoSub}]
  <2>1. wTail' = [d \in Chips |->
          IF AddedTo(d, "main") = <<>> THEN wTail[d] ELSE Last(AddedTo(d, "main"))]
    BY DEF HostAddWrites
  <2>2. \A s \in Seq(Subs) : s # <<>> => Last(s) \in Subs
    BY DEF Last
  <2> QED BY <1>2, <1>8, <2>1, <2>2
<1>11. TypeOK' /\ NeverRefused' /\ ChannelOK' /\ (\A d \in Chips : ChipOK(d)')
  BY <1>1, <1>2, <1>9, <1>10, ChipsKept DEF TypeOK
<1>12. CountMatchesPending' /\ EndsSubs' /\ RequestOK'
  BY <1>1, <1>2 DEF SInv, CountMatchesPending, EndsSubs, Ending, RequestOK
<1>13. NotTwice'
  BY <1>1, <1>2, <1>8, <1>9 DEF NotTwice
<1>14. InOnePlace' /\ RelatedOK'
  <2>1. \A x \in pending : IF x[1] = "main" THEN ~Added(x) /\ Added(x)' ELSE Added(x)' <=> Added(x)
    <3> SUFFICES ASSUME NEW x \in pending
                 PROVE  IF x[1] = "main" THEN ~Added(x) /\ Added(x)' ELSE Added(x)' <=> Added(x)
      OBVIOUS
    <3>1. PICK k \in Pages : x = Main(k) \/ x = RMW(k)
      BY <1>2, SubNames
    <3>2. CASE x = Main(k)
      <4>1. x \in {Main(j) : j \in Pages}
        BY <3>2
      <4>2. Added(x)'
        BY <1>1, <1>2, <4>1 DEF Added
      <4> QED BY <1>3, <3>2, <4>2, SubNames
    <3>3. CASE x = RMW(k)
      <4>1. x \notin {Main(j) : j \in Pages} /\ x[1] # "main"
        BY <3>3, SubNames
      <4>2. ~Added(x)'
        BY <1>1, <4>1 DEF Added
      <4> QED BY <1>3, <4>1, <4>2
    <3> QED BY <3>1, <3>2, <3>3
  <2>2. \A x \in Subs : \A p \in {"r", "w"}, d \in Chips :
           IsAt(x, p, d)' <=> IsAt(x, p, d) \/ (p = "w" /\ Contains(AddedTo(d, "main"), x))
    <3> SUFFICES ASSUME NEW x \in Subs, NEW d \in Chips
                 PROVE  /\ IsAt(x, "r", d)' <=> IsAt(x, "r", d)
                        /\ IsAt(x, "w", d)' <=> IsAt(x, "w", d) \/ Contains(AddedTo(d, "main"), x)
      OBVIOUS
    <3>1. ~Contains(wList[d], x)
      BY <1>5, ContainsOne
    <3> QED BY <1>1, <1>9, <3>1, AtPlace
  <2> QED BY <1>1, <2>1, <2>2, AddsPlaces
<1> QED BY <1>11, <1>12, <1>13, <1>14 DEF SInv

LEMMA AddReadsKeeps ==
  ASSUME SInv, HostAddReads
  PROVE  SInv'
<1>1. /\ hostPc = "add reads" /\ hostPc' = "dispatch reads"
      /\ UNCHANGED <<hwChannel, hwChip, hwID, preCMD, channelTimer, chipTimer, refused, operation,
                     chipOf, relatedSub, pending, restSubreqCount, subMutex, channelState,
                     chipState, wList, wTail, commands, incompletedR, erase, commandID, chipWork,
                     chipPc, chipID, channelWork, channelPc>>
  BY DEF HostAddReads, hardware, request, queues, works
<1>2. /\ TypeOK /\ pending \subseteq Subs /\ InOnePlace /\ NotTwice /\ RelatedOK
      /\ operation \in {"READ", "WRITE"} /\ rList \in [Chips -> Seq(Subs)]
  BY <1>1 DEF SInv, TypeOK
<1>3. PICK kind \in {"main", "rmw"} : kind = IF operation = "READ" THEN "main" ELSE "rmw"
  OBVIOUS
<1>4. rList' = [d \in Chips |-> rList[d] \o AddedTo(d, kind)]
  BY <1>3 DEF HostAddReads
<1>5. \A x \in pending : IF x[1] = kind THEN ~Added(x) /\ Added(x)' ELSE Added(x)' <=> Added(x)
  <2> SUFFICES ASSUME NEW x \in pending
               PROVE  IF x[1] = kind THEN ~Added(x) /\ Added(x)' ELSE Added(x)' <=> Added(x)
    OBVIOUS
  <2>1. PICK k \in Pages : x = Main(k) \/ x = RMW(k)
    BY <1>2, SubNames
  <2>2. Added(x)'
    BY <1>1 DEF Added
  <2>3. CASE x = Main(k)
    <3>1. x \in {Main(j) : j \in Pages} /\ x[1] = "main"
      BY <2>3, SubNames
    <3>2. Added(x) <=> operation = "WRITE"
      BY <1>1, <3>1 DEF Added
    <3> QED BY <1>2, <1>3, <2>2, <3>1, <3>2
  <2>4. CASE x = RMW(k)
    <3>1. x \notin {Main(j) : j \in Pages} /\ x[1] = "rmw"
      BY <2>4, SubNames
    <3>2. ~Added(x)
      BY <1>1, <3>1 DEF Added
    <3>3. operation = "WRITE"
      BY <1>2, <2>4 DEF RelatedOK
    <3> QED BY <1>3, <2>2, <3>1, <3>2, <3>3
  <2> QED BY <2>1, <2>3, <2>4
<1>6. ASSUME NEW d \in Chips
      PROVE  /\ rList[d] \o AddedTo(d, kind) \in Seq(Subs)
             /\ IsInjective(rList[d] \o AddedTo(d, kind))
             /\ \A x : Contains(rList[d] \o AddedTo(d, kind), x) <=>
                         Contains(rList[d], x) \/ Contains(AddedTo(d, kind), x)
  <2>1. PICK queue \in Seq(Subs) : queue = rList[d]
    BY <1>2
  <2>2. \A x \in pending : x[1] = kind => ~Added(x)
    BY <1>5
  <2>3. /\ queue \o AddedTo(d, kind) \in Seq(Subs)
        /\ IsInjective(queue \o AddedTo(d, kind))
        /\ \A x : Contains(queue \o AddedTo(d, kind), x) <=>
                    Contains(queue, x) \/ Contains(AddedTo(d, kind), x)
    BY <2>1, <2>2, AddedLists
  <2> QED BY <2>1, <2>3
<1>7. rList' \in [Chips -> Seq(Subs)] /\ \A d \in Chips : rList'[d] = rList[d] \o AddedTo(d, kind)
  BY <1>4, <1>6
<1>8. TypeOK' /\ NeverRefused' /\ ChannelOK' /\ (\A d \in Chips : ChipOK(d)')
  BY <1>1, <1>2, <1>7, ChipsKept DEF TypeOK
<1>9. CountMatchesPending' /\ EndsSubs' /\ RequestOK'
  BY <1>1, <1>2 DEF SInv, CountMatchesPending, EndsSubs, Ending, RequestOK
<1>10. NotTwice'
  BY <1>1, <1>2, <1>6, <1>7 DEF NotTwice
<1>11. InOnePlace' /\ RelatedOK'
  <2>1. \A x \in Subs : \A p \in {"r", "w"}, d \in Chips :
           IsAt(x, p, d)' <=> IsAt(x, p, d) \/ (p = "r" /\ Contains(AddedTo(d, kind), x))
    <3> SUFFICES ASSUME NEW x \in Subs, NEW d \in Chips
                 PROVE  /\ IsAt(x, "r", d)' <=> IsAt(x, "r", d) \/ Contains(AddedTo(d, kind), x)
                        /\ IsAt(x, "w", d)' <=> IsAt(x, "w", d)
      OBVIOUS
    <3>1. Contains(rList'[d], x) <=> Contains(rList[d], x) \/ Contains(AddedTo(d, kind), x)
      BY <1>6, <1>7
    <3> QED BY <1>1, <3>1, AtPlace
  <2>2. kind = "main" => operation = "READ"
    BY <1>3
  <2> QED BY <1>1, <1>5, <2>1, <2>2, AddsPlaces
<1> QED BY <1>8, <1>9, <1>10, <1>11 DEF SInv

LEMMA SubmitKeeps ==
  ASSUME SInv, HostSubmit
  PROVE  SInv'
<1>1. /\ hostPc = "idle"
      /\ UNCHANGED <<hwChannel, hwChip, hwID, preCMD, channelTimer, chipTimer, refused, subMutex,
                     channelState, chipState, rList, wList, wTail, commands, incompletedR, erase,
                     commandID, chipWork, chipPc, chipID, channelWork, channelPc>>
  BY DEF HostSubmit, hardware, lists, queues, works
<1>2. PICK op \in {"READ", "WRITE"}, n \in Pages :
        \E chips \in [1..n -> Chips], partial \in SUBSET (1..n) :
          /\ op = "READ" => partial = {}
          /\ operation' = op
          /\ chipOf' = chips
          /\ pending' = {Main(k) : k \in 1..n} \cup {RMW(k) : k \in partial}
          /\ relatedSub' = [s \in Subs |->
                IF s[2] \in partial
                THEN (IF s[1] = "main" THEN RMW(s[2]) ELSE Main(s[2]))
                ELSE NoSub]
          /\ restSubreqCount' = n
          /\ hostPc' = IF op = "WRITE" THEN "add writes" ELSE "add reads"
  BY DEF HostSubmit
<1>3. PICK chips \in [1..n -> Chips], partial \in SUBSET (1..n) :
          /\ op = "READ" => partial = {}
          /\ operation' = op
          /\ chipOf' = chips
          /\ pending' = {Main(k) : k \in 1..n} \cup {RMW(k) : k \in partial}
          /\ relatedSub' = [s \in Subs |->
                IF s[2] \in partial
                THEN (IF s[1] = "main" THEN RMW(s[2]) ELSE Main(s[2]))
                ELSE NoSub]
          /\ restSubreqCount' = n
          /\ hostPc' = IF op = "WRITE" THEN "add writes" ELSE "add reads"
  BY <1>2
<1>4. /\ n \in 0..MaxPages /\ n \in Nat /\ 1..n \subseteq Pages /\ partial \subseteq 1..n
      /\ n # 0
  BY SchedulerAssumption DEF Pages
<1>5. /\ TypeOK /\ pending = {} /\ InOnePlace
  BY <1>1 DEF SInv, CountMatchesPending
<1>6. \A k \in Pages : /\ Main(k) \in pending' <=> k \in 1..n
                       /\ RMW(k) \in pending' <=> k \in partial
  <2>1. pending' = {Main(k) : k \in 1..n} \cup {RMW(k) : k \in partial}
    BY <1>3
  <2>2. \A x : x \in pending' <=> \/ \E k \in 1..n : x = Main(k)
                                  \/ \E k \in partial : x = RMW(k)
    BY <2>1
  <2>3. ASSUME NEW k \in Pages PROVE Main(k) \in pending' <=> k \in 1..n
    <3>1. /\ \A j \in partial : Main(k) # RMW(j)
          /\ \A j \in 1..n : Main(k) = Main(j) => k = j
      BY SubNames
    <3> QED BY <2>2, <3>1
  <2>4. ASSUME NEW k \in Pages PROVE RMW(k) \in pending' <=> k \in partial
    <3>1. /\ \A j \in 1..n : RMW(k) # Main(j)
          /\ \A j \in partial : RMW(k) = RMW(j) => k = j
      BY SubNames
    <3> QED BY <2>2, <3>1
  <2> QED BY <2>3, <2>4
<1>7. pending' \subseteq Subs
  <2>1. pending' = {Main(k) : k \in 1..n} \cup {RMW(k) : k \in partial}
    BY <1>3
  <2>2. \A k \in 1..n : k \in Pages
    BY <1>4
  <2>3. \A k \in partial : k \in Pages
    BY <1>4
  <2> QED BY <2>1, <2>2, <2>3, SubNames
<1>8. \A k \in Pages : /\ relatedSub'[Main(k)] = IF k \in partial THEN RMW(k) ELSE NoSub
                       /\ relatedSub'[RMW(k)] = IF k \in partial THEN Main(k) ELSE NoSub
  BY <1>3, SubNames
<1>9. relatedSub' \in [Subs -> Subs \cup {NoSub}]
  <2> SUFFICES ASSUME NEW s \in Subs
               PROVE  (IF s[2] \in partial THEN (IF s[1] = "main" THEN RMW(s[2]) ELSE Main(s[2]))
                       ELSE NoSub) \in Subs \cup {NoSub}
    BY <1>3
  <2>1. PICK k \in Pages : s = Main(k) \/ s = RMW(k)
    BY SubNames
  <2>2. s[2] = k
    BY <2>1, SubNames
  <2> QED BY <2>2, SubNames
<1>10. TypeOK' /\ NeverRefused' /\ ChannelOK' /\ (\A d \in Chips : ChipOK(d)')
  <2>1. \E m \in 0..MaxPages : chipOf' \in [1..m -> Chips]
    BY <1>3, <1>4
  <2>2. operation' \in {"READ", "WRITE"} /\ restSubreqCount' \in 0..MaxPages
        /\ hostPc' \in {"idle", "add writes", "dispatch writes", "add reads",
                        "dispatch reads", "init mutex", "wait"}
    BY <1>3, <1>4
  <2> QED BY <1>1, <1>5, <1>7, <1>9, <2>1, <2>2, ChipsKept DEF TypeOK
<1>11. CountMatchesPending'
  <2>1. {k \in Pages : Main(k) \in pending'} = 1..n
    BY <1>4, <1>6
  <2>2. Cardinality(1..n) = n
    BY <1>4, FS_Interval
  <2> QED BY <1>3, <2>1, <2>2 DEF CountMatchesPending
<1>12. RequestOK' /\ EndsSubs' /\ NotTwice'
  <2>1. hostPc' # "wait" /\ hostPc' # "dispatch writes"
        /\ (hostPc' = "add writes" => operation' = "WRITE")
    BY <1>1, <1>3 DEF SInv, RequestOK
  <2>2. EndsSubs' /\ NotTwice'
    BY <1>1 DEF SInv, EndsSubs, Ending, NotTwice
  <2> QED BY <2>1, <2>2 DEF RequestOK
<1>13. \A x \in Subs : Places(x)' = {} /\ ~Added(x)'
  <2> SUFFICES ASSUME NEW x \in Subs PROVE Places(x)' = {} /\ ~Added(x)'
    OBVIOUS
  <2>1. Places(x) = {}
    BY <1>5 DEF InOnePlace
  <2>2. \A q \in PlaceNames, d \in Chips : IsAt(x, q, d)' <=> IsAt(x, q, d)
    <3> SUFFICES ASSUME NEW q \in PlaceNames, NEW d \in Chips
                 PROVE  IsAt(x, q, d)' <=> IsAt(x, q, d)
      OBVIOUS
    <3>1. /\ IsAt(x, "r", d)' <=> IsAt(x, "r", d)
          /\ IsAt(x, "w", d)' <=> IsAt(x, "w", d)
          /\ IsAt(x, "commands", d)' <=> IsAt(x, "commands", d)
          /\ IsAt(x, "incompleted", d)' <=> IsAt(x, "incompleted", d)
          /\ IsAt(x, "ending", d)' <=> IsAt(x, "ending", d)
      BY <1>1, AtPlace DEF Ending
    <3> QED BY <3>1 DEF PlaceNames
  <2>3. Places(x)' = {}
    BY <2>1, <2>2, InPlaces
  <2>4. ~Added(x)'
    BY <1>3 DEF Added
  <2> QED BY <2>3, <2>4
<1>14. InOnePlace'
  BY <1>13 DEF InOnePlace
<1>15. RelatedOK'
  <2>1. Len(chipOf') = n
    <3>1. chips \in Seq(Chips) /\ DOMAIN chips = 1..n
      BY <1>4
    <3>2. Len(chips) = n
      BY <1>4, <3>1
    <3> QED BY <1>3, <3>2
  <2>2. \A k \in Pages : Places(Main(k))' = {}
    BY <1>13, SubNames
  <2>3. partial # {} => operation' = "WRITE"
    BY <1>3
  <2> QED BY <1>4, <1>6, <1>8, <2>1, <2>2, <2>3 DEF RelatedOK
<1> QED BY <1>10, <1>11, <1>12, <1>14, <1>15 DEF SInv

-----------------------------------------------------------------------------
(* Every state.                                                            *)

LEMMA InitHolds == Init => SInv
<1> SUFFICES ASSUME Init PROVE SInv
  OBVIOUS
<1>1. 0 \in Chips
  BY NANDAssumption DEF Chips
<1>2. (CHOOSE id \in IDs : TRUE) \in IDs
  <2>1. Erase(0) \in IDs
    BY <1>1, CopyNames, SchedulerAssumption
  <2> QED BY <2>1
<1>3. (CHOOSE a \in Addresses : TRUE) \in Addresses
  <2>1. Erase(0) \in CommandAddresses
    BY <1>1 DEF CommandAddresses
  <2>2. Erase(0) \in Addresses
    BY <2>1, SchedulerAssumption
  <2> QED BY <2>2
<1>4. NANDTypeOK
  BY <1>2, <1>3 DEF Init, InitNAND, NANDTypeOK, States
<1>5. TypeOK
  <2>1. <<>> \in [1..0 -> Chips] /\ 0 \in 0..MaxPages /\ 0 \in 0..MaxCopies
    BY SchedulerAssumption
  <2>2. \E n \in 0..MaxPages : chipOf \in [1..n -> Chips]
    BY <2>1 DEF Init
  <2>3. /\ rList \in [Chips -> Seq(Subs)] /\ wList \in [Chips -> Seq(Subs)]
        /\ commands \in [Chips -> Seq(CommandIDs)] /\ incompletedR \in [Chips -> Seq(CommandIDs)]
    BY DEF Init
  <2>4. /\ commandID \in [Chips -> CommandIDs] /\ chipID \in [Chips -> CommandIDs]
    BY CopyNames DEF Init
  <2>5. erase \in [Chips -> [used : BOOLEAN, pages : 0..MaxCopies,
                             copy : {"NONE", "READ", "WRITE"}, completed : BOOLEAN]]
    BY <2>1 DEF Init, NoErase
  <2>6. /\ operation \in {"READ", "WRITE"} /\ relatedSub \in [Subs -> Subs \cup {NoSub}]
        /\ pending \subseteq Subs /\ restSubreqCount \in 0..MaxPages
        /\ subMutex \in {"stale", "free"}
        /\ channelState \in States /\ chipState \in [Chips -> States]
        /\ wTail \in [Chips -> Subs \cup {NoSub}]
        /\ hostPc \in {"idle", "add writes", "dispatch writes", "add reads",
                       "dispatch reads", "init mutex", "wait"}
        /\ chipWork \in [Chips -> BOOLEAN] /\ channelWork \in BOOLEAN
        /\ chipPc \in [Chips -> {"none", "receive", "check", "end", "asleep", "dispatch"}]
        /\ channelPc \in {"none", "dispatch"}
    BY <2>1, SchedulerAssumption DEF Init, States
  <2> QED BY <1>4, <2>2, <2>3, <2>4, <2>5, <2>6 DEF TypeOK
<1>6. NeverRefused /\ ChannelOK
  BY DEF Init, InitNAND, NeverRefused, ChannelOK
<1>7. ASSUME NEW c \in Chips PROVE ChipOK(c)
  <2>1. /\ chipState[c] = "IDLE" /\ chipTimer[c] = "off" /\ ~chipWork[c] /\ chipPc[c] = "none"
        /\ commands[c] = <<>> /\ incompletedR[c] = <<>> /\ hwChip[c] = "IDLE"
        /\ erase[c] = NoErase
    BY DEF Init, InitNAND
  <2>2. erase[c].copy = "NONE"
    BY <2>1 DEF NoErase
  <2>3. Carries(c) /\ OneSignal(c)
    BY <2>1 DEF Carries, Empty, OneSignal
  <2>4. HardwareFollows(c)
    BY <2>1 DEF HardwareFollows, PageInRegister, Empty
  <2>5. CopyIsErases(c)
    BY <2>1, <2>2 DEF CopyIsErases
  <2> QED BY <2>3, <2>4, <2>5 DEF ChipOK
<1>8. pending = {} /\ hostPc = "idle" /\ restSubreqCount = 0
      /\ \A k \in Pages : relatedSub[Main(k)] = NoSub /\ relatedSub[RMW(k)] = NoSub
  BY SubNames DEF Init
<1>9. CountMatchesPending /\ RequestOK /\ RelatedOK
  <2>1. {k \in Pages : Main(k) \in pending} = {}
    BY <1>8
  <2>2. CountMatchesPending
    BY <1>8, <2>1, FS_EmptySet DEF CountMatchesPending
  <2> QED BY <1>8, <2>2 DEF RequestOK, RelatedOK
<1>10. EndsSubs /\ NotTwice
  <2>1. IsInjective(<<>>)
    BY DEF IsInjective
  <2> QED BY <2>1 DEF Init, EndsSubs, Ending, NotTwice
<1>11. InOnePlace
  <2>1. \A x : \A d \in Chips : /\ ~IsAt(x, "r", d) /\ ~IsAt(x, "w", d) /\ ~IsAt(x, "commands", d)
                                /\ ~IsAt(x, "incompleted", d) /\ ~IsAt(x, "ending", d)
    <3>1. \A d \in Chips : /\ rList[d] = <<>> /\ wList[d] = <<>> /\ commands[d] = <<>>
                           /\ incompletedR[d] = <<>> /\ ~Ending(d)
      BY DEF Init, Ending
    <3> QED BY <3>1, AtPlace, ContainsOne
  <2>2. \A x : \A q \in PlaceNames, d \in Chips : ~IsAt(x, q, d)
    BY <2>1 DEF PlaceNames
  <2>3. \A x : Places(x) = {}
    BY <2>2 DEF Places, PlaceNames
  <2> QED BY <1>8, <2>3 DEF InOnePlace
<1> QED BY <1>5, <1>6, <1>7, <1>9, <1>10, <1>11 DEF SInv

LEMMA EndSubKeeps ==
  ASSUME SInv, NEW c \in Chips, ChipEndSub(c)
  PROVE  SInv'
<1>1. PICK s : s = chipID[c]
  OBVIOUS
<1>2. EndRelated(s) \/ request_May_End(s)
  BY <1>1 DEF ChipEndSub
<1>3. CASE EndRelated(s)
  BY <1>1, <1>3, EndRelatedKeeps
<1>4. CASE request_May_End(s)
  BY <1>1, <1>4, EndPageKeeps
<1> QED BY <1>2, <1>3, <1>4

LEMMA UnchangedKeeps ==
  ASSUME SInv, UNCHANGED vars
  PROVE  SInv'
<1>1. /\ UNCHANGED <<hwChannel, hwChip, hwID, preCMD, channelTimer, chipTimer, refused, operation,
                     chipOf, relatedSub, pending, restSubreqCount, subMutex, channelState,
                     chipState, rList, wList, wTail, commands, incompletedR, erase, hostPc,
                     commandID, chipWork, chipPc, chipID, channelWork, channelPc>>
      /\ UNCHANGED request
  BY DEF vars, hardware, request, lists, queues, works
<1>2. TypeOK
  BY DEF SInv
<1>3. TypeOK' /\ NeverRefused' /\ ChannelOK' /\ (\A d \in Chips : ChipOK(d)')
  BY <1>1, <1>2, ChipsKept DEF TypeOK
<1>4. /\ CountMatchesPending' /\ RequestOK' /\ RelatedOK' /\ EndsSubs' /\ NotTwice'
      /\ InOnePlace'
  BY <1>1, OthersKept DEF Ending
<1> QED BY <1>3, <1>4 DEF SInv

\* Every step of every thread and timer keeps the invariant.
LEMMA NextKeeps ==
  ASSUME SInv, [Next]_vars
  PROVE  SInv'
<1>1. CASE Host
  BY <1>1, SubmitKeeps, AddWritesKeeps, AddReadsKeeps, DispatchKeeps, InitMutexKeeps DEF Host
<1>2. CASE Timer
  BY <1>2, TimerKeeps
<1>3. CASE SignalChannel \/ ChannelRecv
  BY <1>3, SignalKeeps
<1>4. CASE ChannelDispatch
  BY <1>4, DispatchKeeps
<1>5. ASSUME NEW c \in Chips, SignalChip(c) \/ Work(c) PROVE SInv'
  <2>1. CASE SignalChip(c) \/ ChipStart(c)
    BY <2>1, SignalChipKeeps
  <2>2. CASE ChipReceive(c)
    BY <2>2, ReceiveKeeps
  <2>3. CASE ChipCheckGC(c) \/ ChipSleepsForEver(c)
    BY <2>3, CheckKeeps
  <2>4. CASE ChipEndSub(c)
    BY <2>4, EndSubKeeps
  <2>5. CASE ChipDispatch(c)
    BY <2>5, DispatchKeeps
  <2> QED BY <1>5, <2>1, <2>2, <2>3, <2>4, <2>5 DEF Work
<1>6. CASE UNCHANGED vars
  BY <1>6, UnchangedKeeps
<1> QED BY <1>1, <1>2, <1>3, <1>4, <1>5, <1>6 DEF Next

\* SInv is an invariant.
THEOREM SInvHolds == Spec => []SInv
<1>1. Init => SInv
  BY InitHolds
<1>2. SInv /\ [Next]_vars => SInv'
  BY NextKeeps
<1> QED BY <1>1, <1>2, PTL DEF Spec

(* Every variable of the driver and of the hardware keeps its shape.       *)
THEOREM SchedulerTypes == Spec => []TypeOK
<1>1. SInv => TypeOK
  BY DEF SInv
<1> QED BY <1>1, SInvHolds, PTL

(* The hardware never refuses a command the driver sends it.               *)
THEOREM HardwareAcceptsAll == Spec => []NeverRefused
<1>1. SInv => NeverRefused
  BY DEF SInv
<1> QED BY <1>1, SInvHolds, PTL

(* restSubreqCount is the number of pages that have not ended, and the     *)
(* request is freed with nothing of it left.                               *)
THEOREM CountIsRight == Spec => []CountMatchesPending
<1>1. SInv => CountMatchesPending
  BY DEF SInv
<1> QED BY <1>1, SInvHolds, PTL

(* A busy chip has exactly one signal on its way, an idle one none, and the *)
(* signal names the command get_end_CMD finds at the head of the queue.     *)
THEOREM SignalsMatchCommands == Spec => []OneSignalPerCommand
<1>1. ASSUME SInv PROVE OneSignalPerCommand
  <2> SUFFICES ASSUME NEW c \in Chips
               PROVE  /\ Cardinality(Signals(c)) = IF chipState[c] = "IDLE" THEN 0 ELSE 1
                      /\ chipState[c] = "IDLE" => commands[c] = <<>>
                      /\ Signals(c) # {} =>
                           /\ Executing(c) # <<>>
                           /\ Head(Executing(c)) = IF "timer" \in Signals(c) THEN hwID[c]
                                                   ELSE IF "scheduled" \in Signals(c) THEN commandID[c]
                                                   ELSE chipID[c]
    BY DEF OneSignalPerCommand
  <2>1. Carries(c) /\ OneSignal(c) /\ ChipOK(c)
    BY <1>1 DEF SInv, ChipOK
  <2>2. chipState[c] = "IDLE" => commands[c] = <<>>
    BY <2>1 DEF Carries, Empty
  <2>3. CASE chipState[c] = "IDLE"
    <3>1. Signals(c) = {}
      BY <2>1, <2>3 DEF OneSignal, Signals
    <3> QED BY <2>2, <2>3, <3>1, FS_EmptySet
  <2>4. CASE chipState[c] # "IDLE"
    <3>1. Executing(c) # <<>> /\ Head(Executing(c)) = Current(c)
      <4>1. Executing(c) = <<Current(c)>>
        BY <2>1, <2>4, ExecutesOne
      <4> QED BY <4>1, ContainsOne
    <3>2. \/ Signals(c) = {"timer"} /\ hwID[c] = Current(c)
          \/ Signals(c) = {"scheduled"} /\ commandID[c] = Current(c)
          \/ Signals(c) = {"running"} /\ chipID[c] = Current(c)
      BY <2>1, <2>4 DEF OneSignal, Signals
    <3>3. Cardinality(Signals(c)) = 1
      BY <3>2, FS_Singleton
    <3> QED BY <2>4, <3>1, <3>2, <3>3
  <2> QED BY <2>3, <2>4
<1> QED BY <1>1, SInvHolds, PTL

(* No sub-request is lost, and none is in two places.                      *)
THEOREM NoneLost == Spec => []EachInOnePlace
<1>1. ASSUME SInv PROVE EachInOnePlace
  <2> SUFFICES ASSUME NEW sub \in Subs
               PROVE  Cardinality(Places(sub)) = IF sub \in pending /\ Added(sub) THEN 1 ELSE 0
    BY DEF EachInOnePlace
  <2>1. CASE sub \in pending /\ Added(sub)
    <3>1. PICK pl : Places(sub) = {pl}
      BY <1>1, <2>1 DEF SInv, InOnePlace
    <3> QED BY <2>1, <3>1, FS_Singleton
  <2>2. CASE ~(sub \in pending /\ Added(sub))
    <3>1. Places(sub) = {}
      BY <1>1, <2>2 DEF SInv, InOnePlace
    <3> QED BY <2>2, <3>1, FS_EmptySet
  <2> QED BY <2>1, <2>2
<1> QED BY <1>1, SInvHolds, PTL

(* A partial write is not sent before the read of what it does not cover    *)
(* has ended.                                                               *)
THEOREM ReadsFirst == Spec => []ReadBeforeWrite
<1>1. ASSUME SInv PROVE ReadBeforeWrite
  <2> SUFFICES ASSUME NEW k \in Pages, NEW c \in Chips, RMW(k) \in pending,
                      Contains(commands[c], Main(k))
               PROVE  FALSE
    BY DEF ReadBeforeWrite
  <2>1. IsAt(Main(k), "commands", c)
    BY AtPlace
  <2>2. <<"commands", c>> \in Places(Main(k))
    BY <2>1, InPlaces DEF PlaceNames
  <2>3. \A pl \in Places(Main(k)) : pl[1] = "w"
    BY <1>1 DEF SInv, RelatedOK
  <2>4. <<"commands", c>>[1] = "w"
    BY <2>2, <2>3
  <2> QED BY <2>4
<1> QED BY <1>1, SInvHolds, PTL

-----------------------------------------------------------------------------
(* Nobody forgets to look for a command.                                   *)

\* A thread that looks for a command leaves none that could be sent.
LEMMA AllocateSends ==
  ASSUME SInv, allocate_command
  PROVE  \/ /\ UNCHANGED <<hardware, channelState, chipState, lists, queues>>
            /\ channelState # "IDLE" \/ Ready = {}
         \/ /\ channelState' # "IDLE" /\ incompletedR' = incompletedR
            /\ \E c \in Chips :
                 /\ chipTimer' = [chipTimer EXCEPT ![c] = "set"]
                 /\ \A d \in Chips : d # c => commands'[d] = commands[d]
<1> SUFFICES ASSUME NEW c \in Ready, channelState = "IDLE", get_Command(c)
             PROVE  /\ channelState' # "IDLE" /\ incompletedR' = incompletedR
                    /\ \E d \in Chips :
                         /\ chipTimer' = [chipTimer EXCEPT ![d] = "set"]
                         /\ \A b \in Chips : b # d => commands'[b] = commands[b]
  BY DEF allocate_command
<1>1. c \in Chips /\ chipState[c] = "IDLE"
  BY DEF Ready
<1>2. SendsPage(c) \/ SendsErase(c) \/ SendsCopy(c) \/ SendsRead(c) \/ SendsWrite(c)
  BY <1>1, GetCommand DEF SInv
<1>3. commands \in [Chips -> Seq(CommandIDs)]
  BY DEF SInv, TypeOK
<1>4. incompletedR' = incompletedR /\ \A b \in Chips : b # c => commands'[b] = commands[b]
  <2>1. CASE SendsPage(c) \/ SendsErase(c)
    BY <2>1 DEF SendsPage, SendsErase
  <2>2. ASSUME NEW CMD, NEW id, SendsNew(c, CMD, id)
        PROVE  incompletedR' = incompletedR /\ \A b \in Chips : b # c => commands'[b] = commands[b]
    BY <1>3, <2>2 DEF SendsNew
  <2>3. CASE SendsCopy(c)
    BY <2>2, <2>3 DEF SendsCopy
  <2>4. CASE SendsRead(c)
    BY <2>2, <2>4 DEF SendsRead
  <2>5. CASE SendsWrite(c)
    BY <2>2, <2>5 DEF SendsWrite
  <2> QED BY <1>2, <2>1, <2>3, <2>4, <2>5
<1>5. PICK CMD \in CMDs, id \in CommandIDs : Sends(c, CMD, id)
  <2>1. CASE SendsPage(c)
    BY <1>1, <2>1, CopyNames DEF SendsPage, CMDs
  <2>2. CASE SendsErase(c)
    BY <1>1, <2>2, CopyNames DEF SendsErase, CMDs
  <2>3. CASE SendsCopy(c)
    <3>1. PICK CMD \in CMDs, op \in {"READ", "WRITE"} :
            SendsNew(c, CMD, Copy(c, erase[c].pages, op)) /\ erase[c].pages \in 1..MaxCopies
      BY <2>3 DEF SendsCopy
    <3>2. Copy(c, erase[c].pages, op) \in CommandIDs
      BY <1>1, <3>1, CopyNames DEF Carriable
    <3> QED BY <3>1, <3>2 DEF SendsNew
  <2>4. CASE SendsRead(c)
    BY <2>4, CopyNames DEF SendsRead, SendsNew
  <2>5. CASE SendsWrite(c)
    BY <2>5, CopyNames DEF SendsWrite, SendsNew
  <2> QED BY <1>2, <2>1, <2>2, <2>3, <2>4, <2>5
<1>6. channelState' # "IDLE" /\ chipTimer' = [chipTimer EXCEPT ![c] = "set"]
  BY <1>5 DEF Sends, CMDs
<1> QED BY <1>1, <1>4, <1>6

\* Whether a chip has something to do depends on its queues only.
LEMMA SameReady ==
  ASSUME UNCHANGED <<chipState, incompletedR, erase, rList, wList, relatedSub>>
  PROVE  Ready' = Ready
<1>1. \A c : Writable(c)' = Writable(c)
  BY DEF Writable
<1>2. \A c : HasCommand(c)' <=> HasCommand(c)
  BY <1>1 DEF HasCommand
<1> QED BY <1>2 DEF Ready

Watched ==
  channelState = "IDLE" /\ Ready # {} =>
       \/ channelPc = "dispatch"
       \/ hostPc \in {"dispatch writes", "dispatch reads"}
       \/ \E c \in Chips : chipPc[c] \in {"check", "end", "asleep", "dispatch"}

LEMMA AllocateWatched ==
  ASSUME SInv, allocate_command
  PROVE  channelState' # "IDLE" \/ Ready' = {}
<1>1. CASE /\ UNCHANGED <<hardware, channelState, chipState, lists, queues>>
           /\ channelState # "IDLE" \/ Ready = {}
  <2>1. UNCHANGED <<channelState, chipState, incompletedR, erase, rList, wList, relatedSub>>
    BY <1>1 DEF lists, queues, allocate_command, request
  <2> QED BY <1>1, <2>1, SameReady
<1> QED BY <1>1, AllocateSends

LEMMA WatchedKept ==
  ASSUME SInv, Watched, [Next]_vars
  PROVE  Watched'
<1>1. TypeOK
  BY DEF SInv
<1>2. CASE HostDispatch \/ ChannelDispatch \/ \E c \in Chips : ChipDispatch(c)
  <2>1. allocate_command
    BY <1>2 DEF HostDispatch, ChannelDispatch, ChipDispatch
  <2> QED BY <2>1, AllocateWatched DEF Watched
<1>3. CASE HostSubmit
  <2>1. /\ UNCHANGED <<channelState, chipState, incompletedR, erase, rList, wList, channelPc, chipPc>>
        /\ hostPc = "idle"
    BY <1>3 DEF HostSubmit, lists, queues, works
  <2>2. \A x \in Subs : Places(x) = {}
    BY <2>1 DEF SInv, CountMatchesPending, InOnePlace
  <2>3. ASSUME NEW c \in Chips PROVE wList[c] = <<>>
    <3> SUFFICES ASSUME wList[c] # <<>> PROVE FALSE
      OBVIOUS
    <3>1. wList[c] \in Seq(Subs) /\ IsInjective(wList[c])
      BY DEF SInv, TypeOK, NotTwice
    <3>2. PICK x \in Subs : Contains(wList[c], x)
      BY <3>1, TailContains
    <3>3. IsAt(x, "w", c)
      BY <3>2, AtPlace
    <3> QED BY <2>2, <3>3, InPlaces DEF PlaceNames
  <2>4. \A c \in Chips : Writable(c) = {} /\ Writable(c)' = {}
    BY <2>1, <2>3 DEF Writable
  <2>5. \A c \in Chips : HasCommand(c)' <=> HasCommand(c)
    BY <2>1, <2>4 DEF HasCommand
  <2>6. Ready' = Ready
    BY <2>1, <2>5 DEF Ready
  <2> QED BY <2>1, <2>6 DEF Watched
<1>4. CASE HostAddWrites \/ HostAddReads
  BY <1>4 DEF HostAddWrites, HostAddReads, Watched
<1>5. CASE HostInitMutex
  <2>1. /\ UNCHANGED <<channelState, chipState, incompletedR, erase, rList, wList, relatedSub,
                       channelPc, chipPc>>
        /\ hostPc = "init mutex"
    BY <1>5 DEF HostInitMutex, lists, queues, works
  <2> QED BY <2>1, SameReady DEF Watched
<1>6. CASE Timer \/ SignalChannel \/ UNCHANGED vars
  <2>1. UNCHANGED <<channelState, chipState, incompletedR, erase, rList, wList, relatedSub,
                    channelPc, chipPc, hostPc>>
    BY <1>6 DEF Timer, SignalChannel, vars, lists, queues, works, request
  <2> QED BY <2>1, SameReady DEF Watched
<1>7. CASE ChannelRecv
  BY <1>7 DEF ChannelRecv, Watched
<1>8. ASSUME NEW c \in Chips, SignalChip(c) \/ ChipStart(c) PROVE Watched'
  <2>1. UNCHANGED <<channelState, chipState, incompletedR, erase, rList, wList, relatedSub,
                    channelPc, hostPc>>
    BY <1>8 DEF SignalChip, ChipStart, lists, queues, request
  <2>2. \A d \in Chips : chipPc[d] \in {"check", "end", "asleep", "dispatch"} => chipPc'[d] = chipPc[d]
    BY <1>1, <1>8 DEF SignalChip, ChipStart, TypeOK
  <2> QED BY <2>1, <2>2, SameReady DEF Watched
<1>9. ASSUME NEW c \in Chips,
             ChipReceive(c) \/ ChipCheckGC(c) \/ ChipEndSub(c) \/ ChipSleepsForEver(c)
      PROVE  Watched'
  <2>1. chipPc'[c] \in {"check", "end", "asleep", "dispatch"}
    <3>1. CASE ChipReceive(c)
      <4>1. \E pc \in {"check", "end", "dispatch"} : chipPc' = [chipPc EXCEPT ![c] = pc]
        BY <3>1 DEF ChipReceive, EndProgram, EndReadAddr, EndReadData, EndErase, Goto
      <4> QED BY <1>1, <4>1 DEF TypeOK
    <3>2. CASE ChipCheckGC(c) \/ ChipEndSub(c) \/ ChipSleepsForEver(c)
      BY <1>1, <3>2 DEF ChipCheckGC, ChipEndSub, ChipSleepsForEver, Goto, TypeOK
    <3> QED BY <1>9, <3>1, <3>2
  <2> QED BY <2>1 DEF Watched
<1> QED BY <1>2, <1>3, <1>4, <1>5, <1>6, <1>7, <1>8, <1>9 DEF Next, Host, Work

\* A thread that sleeps for ever counts as one on its way in Watched only.
LEMMA WatchedHolds == Spec => []Watched
<1>1. Init => Watched
  <2> SUFFICES ASSUME Init PROVE Watched
    OBVIOUS
  <2>1. ASSUME NEW c \in Chips PROVE ~HasCommand(c)
    <3>1. incompletedR[c] = <<>> /\ rList[c] = <<>> /\ wList[c] = <<>> /\ erase[c] = NoErase
      BY DEF Init
    <3>2. Writable(c) = {}
      BY <3>1 DEF Writable
    <3>3. EraseBlocked(erase[c])
      BY <3>1 DEF EraseBlocked, NoErase
    <3> QED BY <3>1, <3>2, <3>3 DEF HasCommand
  <2> QED BY <2>1 DEF Watched, Ready
<1>2. SInv /\ Watched /\ [Next]_vars => Watched'
  BY WatchedKept
<1> QED BY <1>1, <1>2, SInvHolds, PTL DEF Spec

(* However long the thread of the block layer is held up: a command that   *)
(* could be sent is sent, or some thread is on its way to                  *)
(* allocate_command_USBSSD, unless a thread sleeps on a stale mutex        *)
(* (request.c:163); and a busy channel has a signal on its way.            *)
THEOREM NobodyForgets == Spec => []LostOnlyToSleepers
<1>1. SInv /\ Watched => LostOnlyToSleepers
  BY DEF SInv, ChannelOK, Watched, LostOnlyToSleepers, NoLostWakeup
<1> QED BY <1>1, SInvHolds, WatchedHolds, PTL

-----------------------------------------------------------------------------
(* The mutex of the request, when the thread of the block layer keeps up.  *)

\* What a chip carries for no request is a copy.
LEMMA CopiesOnly ==
  ASSUME SInv, pending = {}, NEW c \in Chips
  PROVE  /\ ~Ending(c)
         /\ ~Empty(incompletedR[c]) => IsCopy(Head(incompletedR[c]))
         /\ ~Empty(commands[c]) => IsCopy(Head(commands[c]))
<1>1. \A x \in Subs : Places(x) = {}
  BY DEF SInv, InOnePlace
<1>2. \A x \in Subs : \A q \in PlaceNames : ~IsAt(x, q, c)
  BY <1>1, InPlaces
<1>3. ~Ending(c)
  <2>1. ASSUME Ending(c) PROVE FALSE
    <3>1. PICK x \in Subs : x = chipID[c]
      BY <2>1 DEF SInv, EndsSubs
    <3>2. IsAt(x, "ending", c)
      BY <2>1, <3>1, AtPlace
    <3> QED BY <1>2, <3>2 DEF PlaceNames
  <2> QED BY <2>1
<1>4. ASSUME NEW queue, Empty(queue) \/ Holds(c, queue), ~Empty(queue),
             \A x \in Subs : ~Contains(queue, x)
      PROVE  IsCopy(Head(queue))
  <2>1. PICK id \in Carriable(c) : queue = <<id>>
    BY <1>4 DEF Holds
  <2>2. Head(queue) = id /\ Contains(queue, id)
    BY <2>1, ContainsOne
  <2>3. id \notin Subs
    BY <1>4, <2>2
  <2> QED BY <2>2, <2>3, CopyNames
<1>5. /\ Empty(incompletedR[c]) \/ Holds(c, incompletedR[c])
      /\ Empty(commands[c]) \/ Holds(c, commands[c])
  BY DEF SInv, ChipOK, Carries
<1>6. \A x \in Subs : ~Contains(incompletedR[c], x) /\ ~Contains(commands[c], x)
  BY <1>2, AtPlace DEF PlaceNames
<1>7. ~Empty(incompletedR[c]) => IsCopy(Head(incompletedR[c]))
  BY <1>4, <1>5, <1>6
<1>8. ~Empty(commands[c]) => IsCopy(Head(commands[c]))
  BY <1>4, <1>5, <1>6
<1> QED BY <1>3, <1>7, <1>8

\* What Prompt says of a chip.
Unfinished(c) ==
  /\ ~Ending(c)
  /\ ~Empty(incompletedR[c]) => IsCopy(Head(incompletedR[c]))
  /\ ~Empty(commands[c]) /\ ~IsCopy(Head(commands[c])) => chipTimer[c] = "set"

LEMMA PromptKept ==
  ASSUME SInv, Prompt, [Next]_vars, ~HostPreempted
  PROVE  Prompt'
<1>1. TypeOK /\ NANDTypeOK
  BY DEF SInv, TypeOK
<1>2. SUFFICES ASSUME hostPc' \notin {"idle", "wait"}, NEW c \in Chips PROVE Unfinished(c)'
  BY DEF Prompt, Unfinished
<1>3. hostPc \notin {"idle", "wait"} => Unfinished(c)
  BY DEF Prompt, Unfinished
<1>4. ASSUME UNCHANGED <<incompletedR, commands>>, Ending(c)' <=> Ending(c),
             chipTimer[c] = "set" => chipTimer'[c] = "set",
             hostPc \notin {"idle", "wait"}
      PROVE  Unfinished(c)'
  BY <1>3, <1>4 DEF Unfinished, Empty
<1>5. CASE HostSubmit
  <2>1. UNCHANGED <<incompletedR, commands, chipPc, chipTimer>> /\ hostPc = "idle"
    BY <1>5 DEF HostSubmit, hardware, queues, works
  <2>2. /\ ~Ending(c)
        /\ ~Empty(incompletedR[c]) => IsCopy(Head(incompletedR[c]))
        /\ ~Empty(commands[c]) => IsCopy(Head(commands[c]))
    BY <2>1, CopiesOnly DEF SInv, CountMatchesPending
  <2> QED BY <2>1, <2>2 DEF Unfinished, Ending, Empty
<1>6. CASE HostAddWrites \/ HostAddReads
  <2>1. UNCHANGED <<incompletedR, commands, chipPc, chipTimer>> /\ hostPc \notin {"idle", "wait"}
    BY <1>6 DEF HostAddWrites, HostAddReads, hardware, queues, works
  <2> QED BY <1>4, <2>1 DEF Ending
<1>7. CASE HostDispatch \/ ChannelDispatch \/ \E d \in Chips : ChipDispatch(d)
  <2>1. allocate_command /\ hostPc \notin {"idle", "wait"}
    BY <1>2, <1>7 DEF HostDispatch, ChannelDispatch, ChipDispatch
  <2>2. Ending(c)' <=> Ending(c)
    <3>1. CASE HostDispatch \/ ChannelDispatch
      BY <3>1 DEF HostDispatch, ChannelDispatch, works, Ending
    <3>2. CASE \E d \in Chips : ChipDispatch(d)
      <4>1. PICK d \in Chips : chipPc[d] = "dispatch" /\ chipPc' = [chipPc EXCEPT ![d] = "none"]
        BY <3>2 DEF ChipDispatch, Goto
      <4>2. chipPc'[c] = chipPc[c] \/ (chipPc[c] = "dispatch" /\ chipPc'[c] = "none")
        BY <1>1, <4>1 DEF TypeOK
      <4> QED BY <4>2 DEF Ending
    <3> QED BY <1>7, <3>1, <3>2
  <2>3. CASE UNCHANGED <<hardware, channelState, chipState, lists, queues>>
    BY <1>4, <2>1, <2>2, <2>3 DEF hardware, queues
  <2>4. CASE /\ incompletedR' = incompletedR
             /\ \E d \in Chips :
                  /\ chipTimer' = [chipTimer EXCEPT ![d] = "set"]
                  /\ \A b \in Chips : b # d => commands'[b] = commands[b]
    <3>1. PICK d \in Chips :
            /\ chipTimer' = [chipTimer EXCEPT ![d] = "set"]
            /\ \A b \in Chips : b # d => commands'[b] = commands[b]
      BY <2>4
    <3>2. CASE d = c
      <4>1. chipTimer'[c] = "set"
        BY <1>1, <3>1, <3>2 DEF NANDTypeOK
      <4> QED BY <1>3, <2>1, <2>2, <2>4, <4>1 DEF Unfinished, Empty
    <3>3. CASE d # c
      <4>1. chipTimer'[c] = chipTimer[c] /\ commands'[c] = commands[c]
        BY <1>1, <3>1, <3>3 DEF NANDTypeOK
      <4> QED BY <1>3, <2>1, <2>2, <2>4, <4>1 DEF Unfinished, Empty
    <3> QED BY <3>2, <3>3
  <2> QED BY <2>1, <2>3, <2>4, AllocateSends
<1>8. CASE HostInitMutex
  BY <1>2, <1>8 DEF HostInitMutex
<1>9. CASE Timer
  BY <1>2, <1>9 DEF Timer, HostKeepsUp
<1>10. CASE SignalChannel \/ ChannelRecv \/ UNCHANGED vars
  <2>1. UNCHANGED <<incompletedR, commands, chipPc, chipTimer, hostPc>>
    BY <1>10 DEF SignalChannel, ChannelRecv, vars, hardware, queues, works
  <2> QED BY <1>2, <1>4, <2>1 DEF Ending
<1>11. ASSUME NEW d \in Chips, SignalChip(d) \/ ChipStart(d) PROVE Unfinished(c)'
  <2>1. UNCHANGED <<incompletedR, commands, hostPc>>
    BY <1>11 DEF SignalChip, ChipStart, queues
  <2>2. Ending(c)' <=> Ending(c)
    BY <1>1, <1>11 DEF SignalChip, ChipStart, TypeOK, Ending
  <2>3. chipTimer[c] = "set" => chipTimer'[c] = "set"
    BY <1>1, <1>11 DEF SignalChip, ChipStart, NANDTypeOK, hardware
  <2> QED BY <1>2, <1>4, <2>1, <2>2, <2>3
<1>12. ASSUME NEW d \in Chips, ChipReceive(d) PROVE Unfinished(c)'
  <2>1. hostPc \notin {"idle", "wait"} /\ Unfinished(c)
    BY <1>2, <1>3, <1>12 DEF ChipReceive
  <2>2. ChipOK(d)
    BY DEF SInv
  <2>3. PICK id : id = chipID[d]
    OBVIOUS
  <2>4. /\ chipTimer[d] = "off" /\ UNCHANGED chipTimer
        /\ \/ ReceivesProgram(d, id) \/ ReceivesAddr(d, id)
           \/ ReceivesData(d, id) \/ ReceivesErase(d)
    BY <1>12, <2>2, <2>3, Receives DEF ChipReceive, hardware
  <2>5. \A b \in Chips : b # d => /\ commands'[b] = commands[b] /\ incompletedR'[b] = incompletedR[b]
                                  /\ chipPc'[b] = chipPc[b]
    BY <1>1, <1>12, <2>2, <2>3, <2>4, ReceiveChip
  <2>6. CASE d # c
    BY <2>1, <2>4, <2>5, <2>6 DEF Unfinished, Ending, Empty
  <2>7. CASE d = c
    <3>1. /\ commands[c] # <<>> => IsCopy(Head(commands[c]))
          /\ incompletedR[c] # <<>> => IsCopy(Head(incompletedR[c]))
      BY <2>1, <2>4, <2>7 DEF Unfinished, Empty
    <3>2. <<id>> # <<>> /\ Head(<<id>>) = id
      BY ContainsOne
    <3>3. /\ commands \in [Chips -> Seq(CommandIDs)] /\ incompletedR \in [Chips -> Seq(CommandIDs)]
          /\ chipPc \in [Chips -> {"none", "receive", "check", "end", "asleep", "dispatch"}]
      BY <1>1 DEF TypeOK
    <3>4. CASE ReceivesProgram(c, id)
      <4>1. IsCopy(id)
        BY <3>1, <3>2, <3>4 DEF ReceivesProgram
      <4>2. /\ commands'[c] = <<>> /\ incompletedR'[c] = <<>> /\ chipPc'[c] = "dispatch"
        BY <3>3, <3>4, <4>1 DEF ReceivesProgram, Received
      <4> QED BY <4>2 DEF Unfinished, Empty, Ending
    <3>5. CASE ReceivesData(c, id)
      <4>1. IsCopy(id)
        BY <3>1, <3>2, <3>5 DEF ReceivesData
      <4>2. /\ commands'[c] = <<>> /\ incompletedR'[c] = <<>> /\ chipPc'[c] = "dispatch"
        BY <3>3, <3>5, <4>1 DEF ReceivesData, Received
      <4> QED BY <4>2 DEF Unfinished, Empty, Ending
    <3>6. CASE ReceivesAddr(c, id)
      <4>1. IsCopy(id)
        BY <3>1, <3>2, <3>6 DEF ReceivesAddr
      <4>2. /\ commands'[c] = <<>> /\ incompletedR'[c] = <<id>> /\ chipPc'[c] = "dispatch"
        BY <3>3, <3>6 DEF ReceivesAddr, Received
      <4> QED BY <3>2, <4>1, <4>2 DEF Unfinished, Empty, Ending
    <3>7. CASE ReceivesErase(c)
      <4>1. /\ commands'[c] = <<>> /\ incompletedR'[c] = <<>> /\ chipPc'[c] = "dispatch"
        BY <3>3, <3>7 DEF ReceivesErase, Received
      <4> QED BY <4>1 DEF Unfinished, Empty, Ending
    <3> QED BY <2>4, <2>7, <3>4, <3>5, <3>6, <3>7
  <2> QED BY <2>6, <2>7
<1>13. ASSUME NEW d \in Chips, ChipCheckGC(d) \/ ChipSleepsForEver(d) \/ ChipEndSub(d)
       PROVE  Unfinished(c)'
  <2>1. Ending(d)
    BY <1>13 DEF ChipCheckGC, ChipSleepsForEver, ChipEndSub, Ending
  <2>2. hostPc \in {"idle", "wait"}
    BY <2>1 DEF Prompt
  <2>3. hostPc' \in {"idle", "wait"}
    BY <1>13, <2>2 DEF ChipCheckGC, ChipSleepsForEver, ChipEndSub, EndRelated, request_May_End
  <2> QED BY <1>2, <2>3
<1> QED BY <1>5, <1>6, <1>7, <1>8, <1>9, <1>10, <1>11, <1>12, <1>13 DEF Next, Host, Work

LEMMA PromptHolds ==
  ASSUME ~HostPreempted
  PROVE  Spec => []Prompt
<1>1. Init => Prompt
  BY DEF Init, Prompt
<1>2. SInv /\ Prompt /\ [Next]_vars => Prompt'
  BY PromptKept
<1> QED BY <1>1, <1>2, SInvHolds, PTL DEF Spec

\* What ends while the thread of the block layer keeps up ends after mutex_init.
LEMMA FreeInTime ==
  ASSUME SInv, Prompt, NEW c \in Chips, chipPc[c] = "end"
  PROVE  subMutex = "free"
<1>1. Ending(c)
  BY DEF Ending
<1>2. hostPc \in {"idle", "wait"}
  BY <1>1 DEF Prompt
<1>3. hostPc # "idle"
  BY <1>1, CopiesOnly DEF SInv, CountMatchesPending
<1> QED BY <1>2, <1>3 DEF SInv, RequestOK

NoSleeper == \A c \in Chips : chipPc[c] # "asleep"

LEMMA NoSleeperKept ==
  ASSUME SInv, Prompt, NoSleeper, [Next]_vars
  PROVE  NoSleeper'
<1>1. chipPc \in [Chips -> {"none", "receive", "check", "end", "asleep", "dispatch"}]
  BY DEF SInv, TypeOK
<1>2. ASSUME NEW c \in Chips, ChipSleepsForEver(c) PROVE FALSE
  BY <1>2, FreeInTime DEF ChipSleepsForEver
<1>3. CASE UNCHANGED chipPc
  BY <1>3 DEF NoSleeper
<1>4. CASE Host \/ Timer \/ SignalChannel \/ ChannelRecv \/ ChannelDispatch \/ UNCHANGED vars
  BY <1>3, <1>4 DEF Host, HostSubmit, HostAddWrites, HostAddReads, HostDispatch, HostInitMutex,
     Timer, SignalChannel, ChannelRecv, ChannelDispatch, works, vars
<1>5. ASSUME NEW c \in Chips, SignalChip(c) PROVE UNCHANGED chipPc
  BY <1>5 DEF SignalChip
<1>6. ASSUME NEW c \in Chips, NEW pc \in {"none", "receive", "check", "end", "dispatch"},
             chipPc' = [chipPc EXCEPT ![c] = pc]
      PROVE  NoSleeper'
  BY <1>1, <1>6 DEF NoSleeper
<1>7. ASSUME NEW c \in Chips,
             \/ ChipStart(c) \/ ChipReceive(c) \/ ChipCheckGC(c) \/ ChipEndSub(c) \/ ChipDispatch(c)
      PROVE  \E pc \in {"none", "receive", "check", "end", "dispatch"} :
               chipPc' = [chipPc EXCEPT ![c] = pc]
  BY <1>7 DEF ChipStart, ChipReceive, EndProgram, EndReadAddr, EndReadData, EndErase,
     ChipCheckGC, ChipEndSub, ChipDispatch, Goto
<1> QED BY <1>2, <1>3, <1>4, <1>5, <1>6, <1>7 DEF Next, Work

(* As long as the thread of the block layer is not held up for longer than *)
(* a command takes, no wake-up is lost at all: no thread ever sleeps on a  *)
(* stale mutex, so the one on its way to allocate_command_USBSSD gets      *)
(* there.                                                                  *)
THEOREM NobodyForgetsInTime ==
  ASSUME ~HostPreempted
  PROVE  Spec => []NoLostWakeup
<1>1. Init => NoSleeper
  BY DEF Init, NoSleeper
<1>2. SInv /\ Prompt /\ NoSleeper /\ [Next]_vars => NoSleeper'
  BY NoSleeperKept
<1>3. NoSleeper /\ LostOnlyToSleepers => NoLostWakeup
  BY DEF NoSleeper, LostOnlyToSleepers
<1> QED BY <1>1, <1>2, <1>3, SInvHolds, PromptHolds, NobodyForgets, PTL DEF Spec

(* However long the thread of the block layer is held up: a thread finds   *)
(* the mutex stale only between the queueing of the sub-requests and       *)
(* mutex_init (request.c:116-122), and the request a thread sleeps on for  *)
(* ever has that thread's sub-request left to end, so nobody frees it.     *)
THEOREM StaleMutexOnlyInWindow == Spec => []StaleOnlyInWindow
<1>1. ASSUME SInv PROVE StaleOnlyInWindow
  <2>1. ASSUME NEW c \in Chips, Ending(c)
        PROVE  /\ chipID[c] \in pending /\ restSubreqCount # 0
               /\ hostPc \notin {"idle", "add writes"}
    <3>1. chipID[c] \in Subs
      BY <1>1, <2>1 DEF SInv, EndsSubs
    <3>2. IsAt(chipID[c], "ending", c)
      BY <2>1, AtPlace
    <3>3. chipID[c] \in pending /\ Added(chipID[c])
      BY <1>1, <3>1, <3>2, Placed DEF SInv, PlaceNames
    <3>4. pending # {} /\ restSubreqCount # 0
      BY <1>1, <3>3, CountIsZero
    <3>5. hostPc # "add writes"
      BY <3>3 DEF Added
    <3> QED BY <1>1, <3>3, <3>4, <3>5 DEF SInv, CountMatchesPending
  <2>2. ASSUME NEW c \in Chips, chipPc[c] = "end", subMutex = "stale"
        PROVE  hostPc \in {"dispatch writes", "add reads", "dispatch reads", "init mutex"}
    <3>1. hostPc \notin {"idle", "add writes"}
      BY <2>1, <2>2 DEF Ending
    <3>2. hostPc # "wait"
      BY <1>1, <2>2 DEF SInv, RequestOK
    <3> QED BY <1>1, <3>1, <3>2 DEF SInv, TypeOK
  <2>3. ASSUME NEW c \in Chips, chipPc[c] = "asleep"
        PROVE  chipID[c] \in pending /\ restSubreqCount # 0
    BY <2>1, <2>3 DEF Ending
  <2> QED BY <2>2, <2>3 DEF StaleOnlyInWindow
<1> QED BY <1>1, SInvHolds, PTL

-----------------------------------------------------------------------------
(* What the driver promises the block layer.                               *)

(* Every step of the driver is a step of BlockDevice or changes nothing it *)
(* sees: one request at a time, each page of it served once, and the end   *)
(* with the last page.                                                     *)
THEOREM DriverImplementsBlockDevice ==
  Spec => Promise!Init
          /\ [][Promise!Next]_<<restSubreqCount # 0, {k \in Pages : Main(k) \in pending}>>
<1>1. Init => Promise!Init
  BY DEF Init, Promise!Init
<1>2. ASSUME SInv, [Next]_vars
      PROVE  [Promise!Next]_<<restSubreqCount # 0, {k \in Pages : Main(k) \in pending}>>
  <2>1. CASE UNCHANGED <<pending, restSubreqCount>>
    BY <2>1
  <2>2. CASE HostSubmit
    <3>1. PICK n \in Pages : \E partial \in SUBSET (1..n) :
            /\ pending' = {Main(k) : k \in 1..n} \cup {RMW(k) : k \in partial}
            /\ hostPc = "idle" /\ restSubreqCount' = n
      BY <2>2 DEF HostSubmit
    <3> PICK partial : pending' = {Main(k) : k \in 1..n} \cup {RMW(k) : k \in partial}
      BY <3>1
    <3>2. {k \in Pages : Main(k) \in pending'} = 1..n
      <4>1. 1..n \subseteq Pages
        BY SchedulerAssumption DEF Pages
      <4>2. \A x : x \in pending' <=> \/ \E k \in 1..n : x = Main(k)
                                      \/ \E k \in partial : x = RMW(k)
        OBVIOUS
      <4>3. ASSUME NEW k \in Pages PROVE Main(k) \in pending' <=> k \in 1..n
        <5>1. /\ \A j \in partial : Main(k) # RMW(j)
              /\ \A j \in 1..n : Main(k) = Main(j) => k = j
          BY SubNames
        <5> QED BY <4>2, <5>1
      <4> QED BY <4>1, <4>3
    <3>4. restSubreqCount = 0 /\ restSubreqCount' # 0
      BY <1>2, <3>1, CountIsZero DEF SInv, CountMatchesPending, Pages
    <3>3. Promise!Submit
      BY <3>2, <3>4 DEF Promise!Submit, Pages
    <3> QED BY <3>3 DEF Promise!Next
  <2>3. ASSUME NEW c \in Chips, ChipEndSub(c)
        PROVE  [Promise!Next]_<<restSubreqCount # 0, {k \in Pages : Main(k) \in pending}>>
    <3>1. PICK s : s = chipID[c]
      OBVIOUS
    <3>2. EndRelated(s) \/ request_May_End(s)
      BY <2>3, <3>1 DEF ChipEndSub
    <3>3. CASE EndRelated(s)
      <4>1. \A j \in Pages : Main(j) \in pending' <=> Main(j) \in pending
        BY <1>2, <2>3, <3>1, <3>3, EndRelatedKeeps
      <4>2. {k \in Pages : Main(k) \in pending'} = {k \in Pages : Main(k) \in pending}
        BY <4>1
      <4>3. restSubreqCount' = restSubreqCount
        BY <3>3 DEF EndRelated
      <4> QED BY <4>2, <4>3
    <3>4. CASE request_May_End(s)
      <4>1. /\ \E k \in Pages : s = Main(k) /\ Main(k) \in pending /\ pending' = pending \ {Main(k)}
            /\ restSubreqCount' = 0 => pending' = {}
            /\ restSubreqCount' # 0 => \E j \in Pages : Main(j) \in pending'
        BY <1>2, <2>3, <3>1, <3>4, EndPageKeeps
      <4>2. PICK k \in Pages : Main(k) \in pending /\ pending' = pending \ {Main(k)}
        BY <4>1
      <4>3. {j \in Pages : Main(j) \in pending'} = {j \in Pages : Main(j) \in pending} \ {k}
        BY <4>2, SubNames
      <4>5. restSubreqCount' # 0 <=> {j \in Pages : Main(j) \in pending'} # {}
        BY <4>1
      <4>6. k \in {j \in Pages : Main(j) \in pending}
        BY <4>2
      <4>7. Promise!Serve
        BY <4>3, <4>5, <4>6 DEF Promise!Serve
      <4> QED BY <4>7 DEF Promise!Next
    <3> QED BY <3>2, <3>3, <3>4
  <2>4. CASE HostAddWrites \/ HostAddReads \/ HostInitMutex
    <3>1. UNCHANGED <<pending, restSubreqCount>>
      BY <2>4 DEF HostAddWrites, HostAddReads, HostInitMutex, request
    <3> QED BY <2>1, <3>1
  <2>5. CASE HostDispatch
    <3>1. UNCHANGED <<pending, restSubreqCount>>
      BY <2>5 DEF HostDispatch, allocate_command, request
    <3> QED BY <2>1, <3>1
  <2>6. CASE Timer \/ SignalChannel \/ ChannelRecv \/ ChannelDispatch \/ UNCHANGED vars
    <3>1. UNCHANGED <<pending, restSubreqCount>>
      BY <2>6 DEF Timer, SignalChannel, ChannelRecv, ChannelDispatch, allocate_command, vars, request
    <3> QED BY <2>1, <3>1
  <2>7. ASSUME NEW c \in Chips,
               \/ SignalChip(c) \/ ChipStart(c) \/ ChipReceive(c) \/ ChipCheckGC(c)
               \/ ChipSleepsForEver(c) \/ ChipDispatch(c)
        PROVE  UNCHANGED <<pending, restSubreqCount>>
    BY <2>7 DEF SignalChip, ChipStart, ChipReceive, ChipCheckGC, ChipSleepsForEver, ChipDispatch,
                allocate_command, request
  <2> QED BY <1>2, <2>1, <2>2, <2>3, <2>4, <2>5, <2>6, <2>7 DEF Next, Host, Work
<1> QED BY <1>1, <1>2, SInvHolds, PTL DEF Spec

-----------------------------------------------------------------------------
(* IDs as numbers (Signals): what makes of an ID the name it is in Scheduler. *)

(* What the proofs need to know of the widths.                                *)
LEMMA Widths ==
  /\ HalfInt \in Nat /\ IntSpan \in Nat /\ ULLSpan \in Nat
  /\ 0 < HalfInt /\ HalfInt < IntSpan /\ 2 * IntSpan < ULLSpan
<1>1. \A n \in Int : n > 2 => n * n \in Int /\ n * n > 2 * n
  BY SMT
<1>2. IntSpan \in Int /\ IntSpan > 2
  BY SMT DEF IntSpan
<1>3. ULLSpan \in Int /\ ULLSpan > 2 * IntSpan
  BY <1>1, <1>2, SMT DEF ULLSpan
<1> QED
  BY <1>3, SMT DEF HalfInt, IntSpan

(* Conversion to an unsigned type keeps what fits, and adds the span to what  *)
(* is negative.                                                               *)
LEMMA Modulo ==
  ASSUME NEW n \in Nat, n > 0, NEW x \in Int
  PROVE  /\ 0 <= x /\ x < n => x % n = x
         /\ x < 0 /\ 0 <= x + n => x % n = x + n
<1>1. CASE 0 <= x /\ x < n
  BY <1>1, SMT
<1>2. CASE x < 0 /\ 0 <= x + n
  BY <1>2, SMT
<1> QED
  BY <1>1, <1>2, SMT

(* Up to HalfInt the int says which command is meant, among all there can be. *)
LEMMA SmallIDs ==
  ASSUME NEW id \in CommandNumbers, id < HalfInt, NEW other \in CommandNumbers
  PROVE  Matches(other, AsInt(id)) <=> other = id
<1>1. id \in Int /\ 0 <= id
  BY Widths, SMT DEF CommandNumbers
<1>2. id % IntSpan = id /\ id % ULLSpan = id
  BY <1>1, Widths, Modulo, SMT
<1>3. AsInt(id) = id
  BY <1>2 DEF AsInt
<1> QED
  BY <1>2, <1>3 DEF Matches

(* A signal for one of the first HalfInt commands ends that command, wherever *)
(* it stands in the queue: get_end_CMD stops there and nowhere else, as no    *)
(* two commands of a queue have the same ID (get_commandID).                  *)
THEOREM SignalFindsItsCommand ==
  ASSUME NEW queue \in Seq(CommandNumbers), NEW n \in DOMAIN queue,
         queue[n] < HalfInt,
         \A i, j \in DOMAIN queue : queue[i] = queue[j] => i = j
  PROVE  \A i \in DOMAIN queue : FoundAt(queue, queue[n], i) <=> i = n
<1>1. \A i \in DOMAIN queue : queue[i] \in CommandNumbers
  OBVIOUS
<1>2. \A i \in DOMAIN queue : Matches(queue[i], AsInt(queue[n])) <=> i = n
  BY <1>1, SmallIDs
<1> QED
  BY <1>2 DEF FoundAt

(* Beyond it the int is negative, and comes back as an ID far above it.       *)
LEMMA LargeIDs ==
  ASSUME NEW id \in Int, HalfInt <= id, id < IntSpan,
         NEW other \in Int, other < IntSpan
  PROVE  ~ Matches(other, AsInt(id))
<1>1. id % IntSpan = id
  BY Widths, Modulo, SMT
<1>2. AsInt(id) = id - IntSpan
  BY <1>1, Widths, SMT DEF AsInt
<1>3. (id - IntSpan) % ULLSpan = id - IntSpan + ULLSpan
  <2>1. id - IntSpan \in Int /\ id - IntSpan < 0 /\ 0 <= id - IntSpan + ULLSpan
    BY Widths, SMT
  <2> QED
    BY <2>1, Widths, Modulo, SMT
<1>4. other # id - IntSpan + ULLSpan
  BY Widths, SMT
<1> QED
  BY <1>2, <1>3, <1>4 DEF Matches

(* From the command with the ID HalfInt on, for as many again, get_end_CMD    *)
(* finds nothing, not even the command at the head: it walks over the end of  *)
(* the queue.                                                                 *)
THEOREM LargeIDsAreLost ==
  ASSUME NEW queue \in Seq(CommandNumbers), NEW id \in Int, HalfInt <= id, id < IntSpan,
         \A i \in DOMAIN queue : queue[i] < IntSpan
  PROVE  \A i \in DOMAIN queue : ~ FoundAt(queue, id, i)
<1>1. \A i \in DOMAIN queue : queue[i] \in CommandNumbers
  OBVIOUS
<1>2. CommandNumbers \subseteq Int
  BY Widths, SMT DEF CommandNumbers
<1>3. \A i \in DOMAIN queue : ~ Matches(queue[i], AsInt(id))
  BY <1>1, <1>2, LargeIDs
<1> QED
  BY <1>3 DEF FoundAt
=============================================================================
