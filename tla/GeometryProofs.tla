--------------------------- MODULE GeometryProofs ---------------------------
(***************************************************************************)
(* The page numbering of src/src/command.c is a bijection between the page *)
(* locations of the device and 0..PageCount-1, for every geometry.  The    *)
(* argument peels one coordinate at a time, as the code does, each time    *)
(* with the same fact about a quotient and a remainder.                    *)
(***************************************************************************)
EXTENDS Geometry, TLAPS

(* Quotient and remainder of b * a + c by b, when c < b.                   *)
LEMMA DivMod ==
  ASSUME NEW b \in Nat \ {0}, NEW a \in Nat, NEW c \in 0..b-1
  PROVE  /\ (b * a + c) \div b = a
         /\ (b * a + c) % b = c
  OBVIOUS

(* A digit is its own remainder.                                           *)
LEMMA ModSmall ==
  ASSUME NEW b \in Nat \ {0}, NEW c \in 0..b-1
  PROVE  c % b = c
  OBVIOUS

(* A pair of digits below n and b makes a number below b * n.              *)
LEMMA Compose ==
  ASSUME NEW b \in Nat \ {0}, NEW n \in Nat \ {0}, NEW a \in 0..n-1, NEW c \in 0..b-1
  PROVE  b * a + c \in 0..(b * n)-1
<1>1. b * a + c \in Nat
  OBVIOUS
<1>2. b * a <= b * (n - 1)
  OBVIOUS
<1>3. b * (n - 1) = b * n - b
  OBVIOUS
<1> QED BY <1>1, <1>2, <1>3

(* A number below b * n is split into digits below n and b.                *)
LEMMA Split ==
  ASSUME NEW b \in Nat \ {0}, NEW n \in Nat \ {0}, NEW x \in 0..(b * n)-1
  PROVE  /\ x \div b \in 0..n-1
         /\ x % b \in 0..b-1
         /\ b * (x \div b) + (x % b) = x
<1>1. x \div b \in Int /\ x % b \in 0..b-1 /\ x = b * (x \div b) + (x % b)
  OBVIOUS
<1>2. x \div b >= 0
  OBVIOUS
<1>3. x \div b < n
  <2>1. SUFFICES ASSUME x \div b >= n PROVE FALSE
    BY <1>1
  <2>2. b * (x \div b) >= b * n
    BY <2>1, <1>1
  <2> QED BY <2>2, <1>1
<1> QED BY <1>1, <1>2, <1>3

(* Every level of the device has pages.                                    *)
LEMMA Sizes ==
  /\ pageOfBlock \in Nat \ {0} /\ blockOfPlane \in Nat \ {0}
  /\ planeOfDie \in Nat \ {0} /\ dieOfChip \in Nat \ {0}
  /\ chipOfChannel \in Nat \ {0} /\ channelCount \in Nat \ {0}
  /\ page_no_per_plane \in Nat \ {0} /\ page_no_per_die \in Nat \ {0}
  /\ page_no_per_chip \in Nat \ {0} /\ page_no_per_channel \in Nat \ {0}
  /\ PageCount \in Nat \ {0}
<1>1. \A m, n \in Nat \ {0} : m * n \in Nat \ {0}
  OBVIOUS
<1>2. page_no_per_plane \in Nat \ {0}
  BY <1>1, GeometryAssumption DEF page_no_per_plane
<1>3. page_no_per_die \in Nat \ {0}
  BY <1>1, <1>2, GeometryAssumption DEF page_no_per_die
<1>4. page_no_per_chip \in Nat \ {0}
  BY <1>1, <1>3, GeometryAssumption DEF page_no_per_chip
<1>5. page_no_per_channel \in Nat \ {0}
  BY <1>1, <1>4, GeometryAssumption DEF page_no_per_channel
<1>6. PageCount \in Nat \ {0}
  BY <1>1, <1>5, GeometryAssumption DEF PageCount
<1> QED BY <1>2, <1>3, <1>4, <1>5, <1>6, GeometryAssumption

-----------------------------------------------------------------------------
(* From the number of a page to its location and back.                     *)
THEOREM NumberRoundTrip ==
  ASSUME NEW ppn \in PPNs
  PROVE  /\ Coordinates(ppn) \in Locations
         /\ get_PPN_From_Detail(Coordinates(ppn)) = ppn
<1> DEFINE inChannel == ppn % page_no_per_channel
           inChip    == inChannel % page_no_per_chip
           inDie     == inChip % page_no_per_die
           inPlane   == inDie % page_no_per_plane
           channel   == ppn \div page_no_per_channel
           chip      == inChannel \div page_no_per_chip
           die       == inChip \div page_no_per_die
           plane     == inDie \div page_no_per_plane
           block     == inPlane \div pageOfBlock
           page_     == (inPlane % pageOfBlock) % pageOfBlock
<1>1. /\ channel \in 0..channelCount-1 /\ inChannel \in 0..page_no_per_channel-1
      /\ page_no_per_channel * channel + inChannel = ppn
  BY Split, Sizes DEF PPNs, PageCount
<1>2. /\ chip \in 0..chipOfChannel-1 /\ inChip \in 0..page_no_per_chip-1
      /\ page_no_per_chip * chip + inChip = inChannel
  <2> HIDE DEF inChannel
  <2> QED BY <1>1, Split, Sizes DEF page_no_per_channel
<1>3. /\ die \in 0..dieOfChip-1 /\ inDie \in 0..page_no_per_die-1
      /\ page_no_per_die * die + inDie = inChip
  <2> HIDE DEF inChip
  <2> QED BY <1>2, Split, Sizes DEF page_no_per_chip
<1>4. /\ plane \in 0..planeOfDie-1 /\ inPlane \in 0..page_no_per_plane-1
      /\ page_no_per_plane * plane + inPlane = inDie
  <2> HIDE DEF inDie
  <2> QED BY <1>3, Split, Sizes DEF page_no_per_die
<1>5. /\ block \in 0..blockOfPlane-1 /\ page_ \in 0..pageOfBlock-1
      /\ pageOfBlock * block + page_ = inPlane
  <2> HIDE DEF inPlane
  <2>1. /\ block \in 0..blockOfPlane-1 /\ inPlane % pageOfBlock \in 0..pageOfBlock-1
        /\ pageOfBlock * block + (inPlane % pageOfBlock) = inPlane
    BY <1>4, Split, Sizes DEF page_no_per_plane
  <2>2. page_ = inPlane % pageOfBlock
    BY <2>1, ModSmall, Sizes
  <2> QED BY <2>1, <2>2
<1>6. Coordinates(ppn) = << <<channel, chip, die, plane>>, block, page_ >>
  BY DEF Coordinates
<1> HIDE DEF inChannel, inChip, inDie, inPlane, channel, chip, die, plane, block, page_
<1>7. Coordinates(ppn) \in Locations
  BY <1>1, <1>2, <1>3, <1>4, <1>5, <1>6 DEF Locations, Planes, BlockNos, PageNos
<1>8. get_PPN_From_Detail(Coordinates(ppn)) =
        page_no_per_channel * channel + page_no_per_chip * chip
          + page_no_per_die * die + page_no_per_plane * plane
          + pageOfBlock * block + page_
  BY <1>6 DEF get_PPN_From_Detail
<1>9. page_no_per_channel * channel + page_no_per_chip * chip
        + page_no_per_die * die + page_no_per_plane * plane
        + pageOfBlock * block + page_ = ppn
  <2>1. \A m, n \in Nat : m * n \in Nat
    OBVIOUS
  <2>2. /\ page_no_per_channel * channel \in Nat /\ page_no_per_chip * chip \in Nat
        /\ page_no_per_die * die \in Nat /\ page_no_per_plane * plane \in Nat
        /\ pageOfBlock * block \in Nat
    BY <1>1, <1>2, <1>3, <1>4, <1>5, <2>1, Sizes
  <2> QED BY <1>1, <1>2, <1>3, <1>4, <1>5, <2>2
<1> QED BY <1>7, <1>8, <1>9

-----------------------------------------------------------------------------
(* From the location of a page to its number and back: no two pages of the *)
(* device have the same number (get_PPN_From_Detail_USBSSD).               *)
THEOREM LocationRoundTrip ==
  ASSUME NEW loc \in Locations
  PROVE  /\ get_PPN_From_Detail(loc) \in PPNs
         /\ Coordinates(get_PPN_From_Detail(loc)) = loc
<1> DEFINE inPlane   == pageOfBlock * loc[2] + loc[3]
           inDie     == page_no_per_plane * loc[1][4] + inPlane
           inChip    == page_no_per_die * loc[1][3] + inDie
           inChannel == page_no_per_chip * loc[1][2] + inChip
           ppn       == page_no_per_channel * loc[1][1] + inChannel
<1>1. /\ loc = <<loc[1], loc[2], loc[3]>>
      /\ loc[1] = <<loc[1][1], loc[1][2], loc[1][3], loc[1][4]>>
      /\ loc[1][1] \in 0..channelCount-1 /\ loc[1][2] \in 0..chipOfChannel-1
      /\ loc[1][3] \in 0..dieOfChip-1 /\ loc[1][4] \in 0..planeOfDie-1
      /\ loc[2] \in 0..blockOfPlane-1 /\ loc[3] \in 0..pageOfBlock-1
  BY DEF Locations, Planes, BlockNos, PageNos
<1>2. inPlane \in 0..page_no_per_plane-1
  BY <1>1, Compose, Sizes DEF page_no_per_plane
<1>3. inDie \in 0..page_no_per_die-1
  <2> HIDE DEF inPlane
  <2> QED BY <1>1, <1>2, Compose, Sizes DEF page_no_per_die
<1>4. inChip \in 0..page_no_per_chip-1
  <2> HIDE DEF inDie
  <2> QED BY <1>1, <1>3, Compose, Sizes DEF page_no_per_chip
<1>5. inChannel \in 0..page_no_per_channel-1
  <2> HIDE DEF inChip
  <2> QED BY <1>1, <1>4, Compose, Sizes DEF page_no_per_channel
<1>6. ppn \in PPNs
  <2> HIDE DEF inChannel
  <2> QED BY <1>1, <1>5, Compose, Sizes DEF PPNs, PageCount
<1>7. get_PPN_From_Detail(loc) = ppn
  <2>1. \A m, n \in Nat : m * n \in Nat
    OBVIOUS
  <2>2. /\ page_no_per_channel * loc[1][1] \in Nat /\ page_no_per_chip * loc[1][2] \in Nat
        /\ page_no_per_die * loc[1][3] \in Nat /\ page_no_per_plane * loc[1][4] \in Nat
        /\ pageOfBlock * loc[2] \in Nat
    BY <1>1, <2>1, Sizes
  <2> QED BY <1>1, <2>2 DEF get_PPN_From_Detail
<1>8. ppn \div page_no_per_channel = loc[1][1] /\ ppn % page_no_per_channel = inChannel
  <2> HIDE DEF inChannel
  <2> QED BY <1>1, <1>5, DivMod, Sizes
<1>9. inChannel \div page_no_per_chip = loc[1][2] /\ inChannel % page_no_per_chip = inChip
  <2> HIDE DEF inChip
  <2> QED BY <1>1, <1>4, DivMod, Sizes
<1>10. inChip \div page_no_per_die = loc[1][3] /\ inChip % page_no_per_die = inDie
  <2> HIDE DEF inDie
  <2> QED BY <1>1, <1>3, DivMod, Sizes
<1>11. inDie \div page_no_per_plane = loc[1][4] /\ inDie % page_no_per_plane = inPlane
  <2> HIDE DEF inPlane
  <2> QED BY <1>1, <1>2, DivMod, Sizes
<1>12. /\ inPlane \div pageOfBlock = loc[2] /\ inPlane % pageOfBlock = loc[3]
       /\ loc[3] % pageOfBlock = loc[3]
  <2>1. inPlane \div pageOfBlock = loc[2] /\ inPlane % pageOfBlock = loc[3]
    BY <1>1, DivMod, Sizes
  <2>2. loc[3] % pageOfBlock = loc[3]
    BY <1>1, ModSmall, Sizes
  <2> QED BY <2>1, <2>2
<1> HIDE DEF ppn, inChannel, inChip, inDie, inPlane
<1>13. Coordinates(ppn) = << <<loc[1][1], loc[1][2], loc[1][3], loc[1][4]>>, loc[2], loc[3] >>
  BY <1>8, <1>9, <1>10, <1>11, <1>12 DEF Coordinates
<1> QED BY <1>1, <1>6, <1>7, <1>13

-----------------------------------------------------------------------------
(* The page a logical page is written to is on a plane the device has      *)
(* (allocate_location_for_plane).                                          *)
LEMMA PlaneOfLPN ==
  ASSUME NEW lpn \in Nat
  PROVE  allocate_location_for_plane(lpn) \in Planes
<1>1. \A m, n \in Nat \ {0} : m * n \in Nat \ {0}
  OBVIOUS
<1>2. \A x \in Nat, n \in Nat \ {0} : (x \div n) \in Nat /\ (x % n) \in 0..n-1
  OBVIOUS
<1>3. /\ channelCount * chipOfChannel \in Nat \ {0}
      /\ channelCount * chipOfChannel * dieOfChip \in Nat \ {0}
  BY <1>1, Sizes
<1>4. /\ (lpn % channelCount) \in 0..channelCount-1
      /\ ((lpn \div channelCount) % chipOfChannel) \in 0..chipOfChannel-1
      /\ ((lpn \div (channelCount * chipOfChannel)) % dieOfChip) \in 0..dieOfChip-1
      /\ ((lpn \div (channelCount * chipOfChannel * dieOfChip)) % planeOfDie)
            \in 0..planeOfDie-1
  BY <1>2, <1>3, Sizes
<1> QED BY <1>4 DEF Planes, allocate_location_for_plane
=============================================================================
