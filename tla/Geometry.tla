------------------------------ MODULE Geometry ------------------------------
(***************************************************************************)
(* The shape of the flash array and the address arithmetic of              *)
(* src/src/command.c: physical page numbers (PPN) and their six            *)
(* coordinates, the placement of logical pages, and the capacity the disk  *)
(* announces.  setup_USBSSD fixes the counts (1, 1, 1, 1, 256, 64) and     *)
(* command.h fixes RESERVE_RATE = 10; here they are parameters.            *)
(***************************************************************************)
EXTENDS Integers

CONSTANTS
  channelCount,  \* channels of the device
  chipOfChannel, \* chips of a channel
  dieOfChip,     \* dies of a chip
  planeOfDie,    \* planes of a die
  blockOfPlane,  \* erase blocks of a plane
  pageOfBlock,   \* pages of an erase block
  RESERVE_RATE   \* one byte in RESERVE_RATE is kept from the host

ASSUME GeometryAssumption ==
  /\ channelCount \in Nat \ {0} /\ chipOfChannel \in Nat \ {0}
  /\ dieOfChip \in Nat \ {0}    /\ planeOfDie \in Nat \ {0}
  /\ blockOfPlane \in Nat \ {0} /\ pageOfBlock \in Nat \ {0}
  /\ RESERVE_RATE \in Nat \ {0}

PAGE_SIZE_USBSSD == 2048

-----------------------------------------------------------------------------
(* Coordinates.  A plane is <<channel, chip, die, plane>>, a page location *)
(* (PPN_USBSSD) is <<plane, block, page>>.                                 *)

Chips  == (0..channelCount-1) \X (0..chipOfChannel-1)
Planes == (0..channelCount-1) \X (0..chipOfChannel-1)
          \X (0..dieOfChip-1) \X (0..planeOfDie-1)
BlockNos  == 0..blockOfPlane-1
PageNos   == 0..pageOfBlock-1
Blocks    == Planes \X BlockNos
Locations == Planes \X BlockNos \X PageNos

ChipOf(plane) == <<plane[1], plane[2]>>

\* The channel, chip, die and plane whose page counters a page belongs to.
Ancestors(plane) ==
  {<<plane[1]>>, <<plane[1], plane[2]>>, <<plane[1], plane[2], plane[3]>>, plane}

-----------------------------------------------------------------------------
(* Capacity.                                                               *)

page_no_per_plane   == pageOfBlock * blockOfPlane
page_no_per_die     == page_no_per_plane * planeOfDie
page_no_per_chip    == page_no_per_die * dieOfChip
page_no_per_channel == page_no_per_chip * chipOfChannel
PageCount           == page_no_per_channel * channelCount

all_capacity    == PageCount * PAGE_SIZE_USBSSD
usable_capacity == all_capacity - (all_capacity \div RESERVE_RATE)
mapSize         == (usable_capacity + PAGE_SIZE_USBSSD - 1) \div PAGE_SIZE_USBSSD

LPNs == 0..mapSize-1
PPNs == 0..PageCount-1

-----------------------------------------------------------------------------
(* Address arithmetic.                                                     *)

\* Variant: blocks and pages trade places.
get_PPN_From_Detail_swapped(loc) ==
  page_no_per_channel * loc[1][1] + page_no_per_chip * loc[1][2]
    + page_no_per_die * loc[1][3] + page_no_per_plane * loc[1][4]
    + pageOfBlock * loc[3] + loc[2]

get_PPN_From_Detail(loc) ==
  page_no_per_channel * loc[1][1] + page_no_per_chip * loc[1][2]
    + page_no_per_die * loc[1][3] + page_no_per_plane * loc[1][4]
    + pageOfBlock * loc[2] + loc[3]

Coordinates(ppn) ==
  LET inChannel == ppn % page_no_per_channel
      inChip    == inChannel % page_no_per_chip
      inDie     == inChip % page_no_per_die
      inPlane   == inDie % page_no_per_plane
  IN << <<ppn \div page_no_per_channel, inChannel \div page_no_per_chip,
          inChip \div page_no_per_die, inDie \div page_no_per_plane>>,
        inPlane \div pageOfBlock,
        (inPlane % pageOfBlock) % pageOfBlock >>

\* The locations the caller may be left with.  The function refuses a PPN at
\* or above mapSize and then leaves the caller's struct as it was; no caller
\* looks at the returned -1 or fills the struct beforehand, so it may name any
\* place of the device, or none: that case is left to the callers.
get_PPN_Detail(ppn) ==
  IF ppn \in LPNs THEN {Coordinates(ppn)} ELSE Locations

\* Variant: the plane is taken with the divisor of the die.
allocate_location_for_plane_by_die(lpn) ==
  << lpn % channelCount,
     (lpn \div channelCount) % chipOfChannel,
     (lpn \div (channelCount * chipOfChannel)) % dieOfChip,
     (lpn \div (channelCount * chipOfChannel)) % planeOfDie >>

allocate_location_for_plane(lpn) ==
  << lpn % channelCount,
     (lpn \div channelCount) % chipOfChannel,
     (lpn \div (channelCount * chipOfChannel)) % dieOfChip,
     (lpn \div (channelCount * chipOfChannel * dieOfChip)) % planeOfDie >>
=============================================================================
