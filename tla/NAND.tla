-------------------------------- MODULE NAND --------------------------------
(***************************************************************************)
(* The simulated flash hardware of src/src/simulateNAND.c: one channel and *)
(* its chips.  A command occupies the channel while it is transferred and  *)
(* the chip until it is executed; a kernel timer ends each of the two.  A  *)
(* command the hardware is not ready for is refused, and send_cmd_2_NAND   *)
(* tells nobody ("send failure").                                          *)
(*                                                                         *)
(* Time is left out: a timer fires at any moment after it was set, so      *)
(* every order of the channel's and the chip's timer is possible, the      *)
(* orders of all values of CMD_AND_DATA_TIME, PROGRAM_TIME, READ_TIME and  *)
(* ERASE_TIME among them.  The bytes of the pages are in DataPath.         *)
(***************************************************************************)
EXTENDS Naturals

CONSTANTS
  chipOfChannel, \* chips that share the channel
  Addresses,     \* what a command may address (die, plane, block and page)
  IDs            \* what a command may be called

ASSUME NANDAssumption == chipOfChannel \in Nat \ {0}

VARIABLES
  hwChannel, \* Channel_HW_USBSSD.state
  hwChip,    \* Chip_HW_USBSSD.state of each chip,
  hwID,      \*   the ID of the command it got last,
  preCMD,    \*   and the address of it
  channelTimer, chipTimer, \* "off", "set", or "fired": the callback has left
                           \*   the hardware's mutex and has yet to signal
  refused    \* the commands the hardware has refused

hardware == <<hwChannel, hwChip, hwID, preCMD, channelTimer, chipTimer, refused>>

Chips == 0..chipOfChannel-1
CMDs == {"PROGRAM", "READ_ADDR", "READ_DATA", "ERASE"}
States == CMDs \cup {"IDLE"}

\* The checks at the head of write_data, send_Read_addr, send_Read_data and
\* send_erase.
Accepts(c, CMD, address) ==
  /\ hwChannel = "IDLE"
  /\ CMD # "READ_DATA" => hwChip[c] = "IDLE"
  /\ CMD = "READ_DATA" => hwChip[c] = "READ_ADDR" /\ preCMD[c] = address

\* Variant: send_erase does not note the ID.
send_cmd_2_NAND_without_ID(CMD, c, address, id) ==
  \/ /\ Accepts(c, CMD, address)
     /\ hwChannel' = CMD
     /\ hwChip' = [hwChip EXCEPT ![c] = CMD]
     /\ hwID' = [hwID EXCEPT ![c] = IF CMD = "ERASE" THEN @ ELSE id]
     /\ preCMD' = [preCMD EXCEPT ![c] = address]
     /\ channelTimer' = "set"
     /\ chipTimer' = [chipTimer EXCEPT ![c] = "set"]
     /\ UNCHANGED refused
  \/ /\ ~Accepts(c, CMD, address)
     /\ refused' = refused \cup {id}
     /\ UNCHANGED <<hwChannel, hwChip, hwID, preCMD, channelTimer, chipTimer>>

send_cmd_2_NAND(CMD, c, address, id) ==
  \/ /\ Accepts(c, CMD, address)
     /\ hwChannel' = CMD
     /\ hwChip' = [hwChip EXCEPT ![c] = CMD]
     /\ hwID' = [hwID EXCEPT ![c] = id]
     /\ preCMD' = [preCMD EXCEPT ![c] = address]
     /\ channelTimer' = "set"
     /\ chipTimer' = [chipTimer EXCEPT ![c] = "set"]
     /\ UNCHANGED refused
  \/ /\ ~Accepts(c, CMD, address)
     /\ refused' = refused \cup {id}
     /\ UNCHANGED <<hwChannel, hwChip, hwID, preCMD, channelTimer, chipTimer>>

\* timer_callback_channel, under the channel's mutex.
timer_callback_channel ==
  /\ channelTimer = "set"
  /\ channelTimer' = "fired"
  /\ hwChannel' = "IDLE"
  /\ UNCHANGED <<hwChip, hwID, preCMD, chipTimer, refused>>

\* Variant: the chip forgets the page it has been addressed.
timer_callback_chip_clearing(c) ==
  /\ chipTimer[c] = "set"
  /\ chipTimer' = [chipTimer EXCEPT ![c] = "fired"]
  /\ hwChip' = [hwChip EXCEPT ![c] = "IDLE"]
  /\ UNCHANGED <<hwChannel, hwID, preCMD, channelTimer, refused>>

\* timer_callback_chip, under the chip's mutex: an addressed page stays in
\* the chip's register until it is transferred.
timer_callback_chip(c) ==
  /\ chipTimer[c] = "set"
  /\ chipTimer' = [chipTimer EXCEPT ![c] = "fired"]
  /\ hwChip' = [hwChip EXCEPT ![c] = IF @ = "READ_ADDR" THEN @ ELSE "IDLE"]
  /\ UNCHANGED <<hwChannel, hwID, preCMD, channelTimer, refused>>

InitNAND ==
  /\ hwChannel = "IDLE"
  /\ hwChip = [c \in Chips |-> "IDLE"]
  /\ hwID \in [Chips -> {CHOOSE id \in IDs : TRUE}]
  /\ preCMD \in [Chips -> {CHOOSE a \in Addresses : TRUE}]
  /\ channelTimer = "off"
  /\ chipTimer = [c \in Chips |-> "off"]
  /\ refused = {}

NANDTypeOK ==
  /\ hwChannel \in States
  /\ hwChip \in [Chips -> States]
  /\ hwID \in [Chips -> IDs]
  /\ preCMD \in [Chips -> Addresses]
  /\ channelTimer \in {"off", "set", "fired"}
  /\ chipTimer \in [Chips -> {"off", "set", "fired"}]
  /\ refused \subseteq IDs
=============================================================================
