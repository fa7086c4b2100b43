----------------------------- MODULE FlashProofs -----------------------------
(***************************************************************************)
(* Theorems about Flash, for every geometry, reserve and GC_RATE: its      *)
(* tables and queues keep their shape, what a chip signals is what the     *)
(* driver finds at the head of its queues, and pages are programmed in     *)
(* order into one block per plane.                                         *)
(*                                                                         *)
(* None of these is inductive alone.  A queue can be cut at its head only  *)
(* because the head is the command that ends (QueuesMatchChip); the page   *)
(* a write gets exists only because the active block has room              *)
(* (WriteFrontier); that in turn is seen from freePageCount, which must be *)
(* what startWrite leaves (FreeIsUnwritten); and a page that ends up       *)
(* holding data was below the frontier of its own plane only if the        *)
(* commands of a chip address the chip's own planes (OnOwnChip,            *)
(* CopyInPlace).  IInv is the conjunction.  Then come garbage collection,  *)
(* the counters of the units above a block, and the room collection needs. *)
(***************************************************************************)
EXTENDS Flash, GeometryProofs, ListProofs, FiniteSetTheorems

PlanesOf(c) == {p \in Planes : ChipOf(p) = c}

\* QueuesMatchChip, of one chip.
ChipQueues(c) ==
  /\ chipState[c] \in {"PROGRAM", "READ_ADDR"} =>
       commands[c] = <<inflight[c]>> /\ incompletedR[c] = <<>>
  /\ chipState[c] = "READ_DATA" =>
       commands[c] = <<>> /\ incompletedR[c] = <<inflight[c]>>
  /\ chipState[c] = "ERASE" =>
       /\ commands[c] = <<>> /\ incompletedR[c] = <<>>
       /\ eraseCommands[c] # <<>> /\ Head(eraseCommands[c]) = inflight[c]
  /\ chipState[c] = "IDLE" =>
       commands[c] = <<>> /\ incompletedR[c] \in {<<>>, <<inflight[c]>>}

\* The commands, erases and collections of a chip concern its own planes.
OwnChip(c) ==
  /\ inflight[c] \in {c} \cup PlanesOf(c)
  /\ eraseCommands[c] \in Seq(PlanesOf(c))
  /\ toCheck[c] \subseteq PlanesOf(c)
  /\ chipState[c] = "PROGRAM" => ChipOf(cmd[inflight[c]].location[1]) = c
OnOwnChip == \A c \in Chips : OwnChip(c)

\* Garbage collection copies within the plane.
CopyInPlace ==
  \A p \in Planes : cmd[p].operation # "NONE" => cmd[p].location[1] = p

\* freePageCount of a block counts the pages from startWrite on.
FreeIsUnwritten ==
  \A b \in Blocks : blockInfos[b].freePageCount = pageOfBlock - blockInfos[b].startWrite

IInv ==
  /\ TypeOK /\ QueuesMatchChip /\ WriteFrontier
  /\ OnOwnChip /\ CopyInPlace /\ FreeIsUnwritten

-----------------------------------------------------------------------------
(* The sets the tables range over.                                         *)

BlockInfo == [freePageCount : Int, validPageCount : Int,
              invalidPageCount : Int, startWrite : Int]
Count == [freePageCount : Int, validPageCount : Int, invalidPageCount : Int]

\* A chip and a plane are never taken for each other.
LEMMA ChipsAndPlanes ==
  /\ \A p \in Planes : ChipOf(p) \in Chips
  /\ \A c \in Chips : c \notin Planes
<1>1. \A p \in Planes : ChipOf(p) \in Chips
  BY DEF Planes, Chips, ChipOf
<1>2. ASSUME NEW c \in Chips PROVE c \notin Planes
  <2>1. DOMAIN c = 1..2
    BY DEF Chips
  <2>2. \A p \in Planes : DOMAIN p = 1..4
    BY DEF Planes
  <2>3. 4 \in 1..4 /\ 4 \notin 1..2
    OBVIOUS
  <2> QED BY <2>1, <2>2, <2>3
<1> QED BY <1>1, <1>2

\* The logical pages are numbers, 0 among them; so is the number of a page,
\* and what get_PPN_Detail_USBSSD leaves in its argument is a location.
LEMMA PageNumbers ==
  /\ 0 \in LPNs /\ LPNs \subseteq Nat /\ 0 \in PPNs /\ mapSize \in Nat
  /\ \A ppn : get_PPN_Detail(ppn) \subseteq Locations
<1>1. all_capacity \in Nat /\ all_capacity = PageCount * 2048
  BY Sizes DEF all_capacity, PAGE_SIZE_USBSSD
<1>2. all_capacity \div RESERVE_RATE \in Int /\ all_capacity \div RESERVE_RATE >= 0
  BY <1>1, GeometryAssumption
<1>3. usable_capacity \in Int /\ usable_capacity <= PageCount * 2048
  BY <1>1, <1>2 DEF usable_capacity
<1>4. mapSize \in Int /\ mapSize <= PageCount
  BY <1>3, Sizes DEF mapSize, PAGE_SIZE_USBSSD
<1>5. \E lpn : lpn \in LPNs
  BY FlashAssumption
<1>6. 0 \in LPNs /\ LPNs \subseteq Nat
  BY <1>4, <1>5 DEF LPNs
<1>7. 0 \in PPNs
  BY Sizes DEF PPNs
<1>8. LPNs \subseteq PPNs
  BY <1>4, Sizes DEF LPNs, PPNs
<1>9. ASSUME NEW ppn PROVE get_PPN_Detail(ppn) \subseteq Locations
  BY <1>8, NumberRoundTrip DEF get_PPN_Detail
<1> QED BY <1>4, <1>6, <1>7, <1>9 DEF LPNs

\* What the tables hold at first.
LEMMA FirstValues ==
  /\ 0 \in BlockNos /\ 0 \in PageNos /\ 0 \in 0..pageOfBlock /\ pageOfBlock \in Nat
  /\ NoLocation \in Locations
  /\ NoCommand \in CommandOf /\ NoCommand.operation = "NONE"
<1>1. /\ 0 \in BlockNos /\ 0 \in PageNos /\ 0 \in 0..pageOfBlock /\ pageOfBlock \in Nat
      /\ <<0, 0, 0, 0>> \in Planes
  BY Sizes DEF BlockNos, PageNos, Planes
<1>2. NoLocation \in Locations
  BY <1>1 DEF Locations, NoLocation
<1> QED BY <1>1, <1>2, PageNumbers DEF NoCommand, CommandOf

\* There are finitely many planes: their first pages have different numbers.
LEMMA PlanesFinite == IsFiniteSet(Planes)
<1> DEFINE first == [p \in Planes |-> get_PPN_From_Detail(<<p, 0, 0>>)]
<1>1. \A p \in Planes : <<p, 0, 0>> \in Locations
  BY Sizes DEF Locations, BlockNos, PageNos
<1>2. first \in [Planes -> PPNs]
  BY <1>1, LocationRoundTrip
<1>3. ASSUME NEW p \in Planes, NEW q \in Planes, first[p] = first[q]
      PROVE  p = q
  <2>1. <<p, 0, 0>> = <<q, 0, 0>>
    BY <1>1, <1>3, LocationRoundTrip
  <2> QED BY <2>1
<1>4. first \in Injection(Planes, PPNs)
  BY <1>2, <1>3 DEF Injection, IsInjective
<1>5. IsFiniteSet(PPNs)
  BY FS_Interval, Sizes DEF PPNs
<1> QED BY <1>4, <1>5, FS_Injection

-----------------------------------------------------------------------------
(* WriteFrontier, in two parts: of blocks and of pages.                    *)

BlocksInOrder ==
  \A b \in Blocks :
    /\ blockInfos[b].startWrite \in 0..pageOfBlock
    /\ activeBlock[b[1]] = b[2] /\ ~spinning => blockInfos[b].startWrite # pageOfBlock
    /\ activeBlock[b[1]] # b[2] => blockInfos[b].startWrite \in {0, pageOfBlock}

PagesBelow ==
  \A loc \in Locations :
    pageInfos[loc].state # {} \/ loc \in Programmed(ChipOf(loc[1]))
      => loc[3] < blockInfos[<<loc[1], loc[2]>>].startWrite

\* The blocks of Blocks are those of the pages of Locations.
LEMMA WriteFrontierParts ==
  /\ WriteFrontier <=> BlocksInOrder /\ PagesBelow
  /\ WriteFrontier' <=> BlocksInOrder' /\ PagesBelow'
<1>1. \A loc \in Locations : <<loc[1], loc[2]>> \in Blocks
  BY DEF Locations, Blocks
<1>2. \A b \in Blocks : b = <<b[1], b[2]>>
  BY DEF Blocks
<1>3. WriteFrontier <=> BlocksInOrder /\ PagesBelow
  <2>1. WriteFrontier => BlocksInOrder
    BY DEF WriteFrontier, BlocksInOrder
  <2>2. ASSUME WriteFrontier PROVE PagesBelow
    <3> SUFFICES ASSUME NEW loc \in Locations,
                        pageInfos[loc].state # {} \/ loc \in Programmed(ChipOf(loc[1]))
                 PROVE  loc[3] < blockInfos[<<loc[1], loc[2]>>].startWrite
      BY DEF PagesBelow
    <3> DEFINE b == <<loc[1], loc[2]>>
    <3>1. b \in Blocks /\ loc \in PagesOf(b[1], b[2])
      BY <1>1 DEF PagesOf
    <3> QED BY <2>2, <3>1 DEF WriteFrontier
  <2>3. ASSUME BlocksInOrder, PagesBelow PROVE WriteFrontier
    BY <2>3, <1>2 DEF BlocksInOrder, PagesBelow, WriteFrontier, PagesOf
  <2> QED BY <2>1, <2>2, <2>3
<1>4. WriteFrontier' <=> BlocksInOrder' /\ PagesBelow'
  <2>1. WriteFrontier' => BlocksInOrder'
    BY DEF WriteFrontier, BlocksInOrder
  <2>2. ASSUME WriteFrontier' PROVE PagesBelow'
    <3> SUFFICES ASSUME NEW loc \in Locations,
                        (pageInfos[loc].state # {} \/ loc \in Programmed(ChipOf(loc[1])))'
                 PROVE  (loc[3] < blockInfos[<<loc[1], loc[2]>>].startWrite)'
      BY DEF PagesBelow
    <3> DEFINE b == <<loc[1], loc[2]>>
    <3>1. b \in Blocks /\ loc \in PagesOf(b[1], b[2])
      BY <1>1 DEF PagesOf
    <3> QED BY <2>2, <3>1 DEF WriteFrontier
  <2>3. ASSUME BlocksInOrder', PagesBelow' PROVE WriteFrontier'
    BY <2>3, <1>2 DEF BlocksInOrder, PagesBelow, WriteFrontier, PagesOf
  <2> QED BY <2>1, <2>2, <2>3
<1> QED BY <1>3, <1>4

-----------------------------------------------------------------------------
(* What the operations on the tables do to them.                           *)

TablesOK ==
  /\ map \in [HostLPNs -> [subPage : SUBSET SubPages, ppn : PPNs]]
  /\ pageInfos \in [Locations -> [state : SUBSET SubPages, lpn : LPNs]]
  /\ blockInfos \in [Blocks -> BlockInfo]
  /\ counts \in [Units -> Count]
  /\ activeBlock \in [Planes -> BlockNos]
  /\ spinning \in BOOLEAN

\* The page a write gets exists, is the next one of the active block, and
\* leaves an active block with room, or a spinning thread.
LEMMA AllocateKeepsOrder ==
  ASSUME TablesOK, BlocksInOrder, FreeIsUnwritten, ~spinning,
         NEW plane \in Planes, allocate_location_in_plane(plane)
  PROVE  /\ Frontier(plane) \in Locations
         /\ blockInfos' \in [Blocks -> BlockInfo] /\ counts' \in [Units -> Count]
         /\ activeBlock' \in [Planes -> BlockNos] /\ spinning' \in BOOLEAN
         /\ BlocksInOrder' /\ FreeIsUnwritten'
         /\ \A b \in Blocks : blockInfos'[b].startWrite =
              IF b = <<plane, activeBlock[plane]>>
              THEN blockInfos[b].startWrite + 1 ELSE blockInfos[b].startWrite
<1> DEFINE block == <<plane, activeBlock[plane]>>
           infos == [blockInfos EXCEPT
                       ![block].freePageCount  = @ - 1,
                       ![block].validPageCount = @ + 1,
                       ![block].startWrite     = @ + 1]
<1>1. block \in Blocks /\ activeBlock[block[1]] = block[2]
  BY DEF TablesOK, Blocks
<1>2. blockInfos[block].startWrite \in 0..pageOfBlock-1
  BY <1>1, Sizes DEF BlocksInOrder
<1>3. Frontier(plane) \in Locations
  BY <1>2 DEF Frontier, Locations, TablesOK, PageNos
<1>4. blockInfos' = infos
  BY DEF allocate_location_in_plane
<1>5. /\ infos \in [Blocks -> BlockInfo]
      /\ infos[block].startWrite = blockInfos[block].startWrite + 1
      /\ infos[block].freePageCount = blockInfos[block].freePageCount - 1
      /\ \A b \in Blocks : b # block => infos[b] = blockInfos[b]
  <2> HIDE DEF block
  <2>1. blockInfos[block] \in BlockInfo
    BY <1>1 DEF TablesOK
  <2>2. \A b \in Blocks : b # block => infos[b] = blockInfos[b]
    BY <1>1 DEF TablesOK
  <2>3. infos[block].startWrite = blockInfos[block].startWrite + 1
    BY <1>1, <2>1 DEF TablesOK, BlockInfo
  <2>4. infos[block].freePageCount = blockInfos[block].freePageCount - 1
    BY <1>1, <2>1 DEF TablesOK, BlockInfo
  <2>5. infos \in [Blocks -> BlockInfo]
    <3> DEFINE one == [blockInfos EXCEPT ![block].freePageCount = @ - 1]
               two == [one EXCEPT ![block].validPageCount = @ + 1]
               three == [two EXCEPT ![block].startWrite = @ + 1]
    <3>1. one \in [Blocks -> BlockInfo]
      BY <1>1, <2>1 DEF TablesOK, BlockInfo
    <3>2. two \in [Blocks -> BlockInfo]
      <4> HIDE DEF one
      <4> QED BY <1>1, <3>1 DEF BlockInfo
    <3>3. three \in [Blocks -> BlockInfo]
      <4> HIDE DEF two
      <4> QED BY <1>1, <3>2 DEF BlockInfo
    <3>4. infos = three
      BY <1>1, <2>1 DEF TablesOK, BlockInfo
    <3> QED BY <3>3, <3>4
  <2> QED BY <2>2, <2>3, <2>4, <2>5
<1>6. counts' \in [Units -> Count]
  BY DEF allocate_location_in_plane, Shift, Count, TablesOK
<1> HIDE DEF infos
<1>7. FreeIsUnwritten'
  <2> SUFFICES ASSUME NEW b \in Blocks
               PROVE  infos[b].freePageCount = pageOfBlock - infos[b].startWrite
    BY <1>4 DEF FreeIsUnwritten
  <2>1. blockInfos[b].freePageCount = pageOfBlock - blockInfos[b].startWrite
    BY DEF FreeIsUnwritten
  <2>2. blockInfos[b].startWrite \in Int
    BY DEF TablesOK, BlockInfo
  <2> QED BY <1>5, <2>1, <2>2, Sizes
<1>8. \A b \in Blocks : infos[b].startWrite \in 0..pageOfBlock
  BY <1>2, <1>5, Sizes DEF BlocksInOrder
<1>9. \A b \in Blocks : b[1] # plane \/ b[2] # activeBlock[plane] => b # block
  OBVIOUS
<1>10. \A b \in Blocks : b[1] = plane /\ b[2] = activeBlock[plane] => b = block
  BY DEF Blocks
<1>11. CASE infos[block].freePageCount # 0
  <2>1. activeBlock' = activeBlock /\ spinning' = spinning
    <3>1. infos[block].freePageCount # 0 /\ UNCHANGED <<activeBlock, spinning>>
      BY <1>11 DEF allocate_location_in_plane, infos
    <3> QED BY <3>1
  <2>2. infos[block].startWrite # pageOfBlock
    BY <1>1, <1>4, <1>7, <1>8, <1>11, Sizes DEF FreeIsUnwritten
  <2>3. BlocksInOrder'
    BY <1>4, <1>5, <1>8, <1>9, <1>10, <2>1, <2>2 DEF BlocksInOrder
  <2> QED BY <1>3, <1>4, <1>5, <1>6, <1>7, <2>1, <2>3 DEF TablesOK
<1>12. CASE infos[block].freePageCount = 0
  <2>1. infos[block].startWrite = pageOfBlock
    BY <1>1, <1>4, <1>7, <1>8, <1>12, Sizes DEF FreeIsUnwritten
  <2>2. \/ /\ \E n \in BlockNos : /\ NextFree(plane, infos, n)
                                  /\ activeBlock' = [activeBlock EXCEPT ![plane] = n]
           /\ spinning' = spinning
        \/ activeBlock' = activeBlock /\ spinning' = TRUE
    <3>1. \/ infos[block].freePageCount # 0
          \/ /\ \E n \in BlockNos : /\ NextFree(plane, infos, n)
                                    /\ activeBlock' = [activeBlock EXCEPT ![plane] = n]
             /\ UNCHANGED spinning
          \/ spinning' = TRUE /\ UNCHANGED activeBlock
      BY DEF allocate_location_in_plane, infos
    <3> QED BY <1>12, <3>1
  <2>3. CASE activeBlock' = activeBlock /\ spinning' = TRUE
    <3>1. BlocksInOrder'
      BY <1>4, <1>5, <1>8, <1>9, <1>10, <2>3 DEF BlocksInOrder
    <3> QED BY <1>3, <1>4, <1>5, <1>6, <1>7, <2>3, <3>1 DEF TablesOK
  <2>4. ASSUME NEW n \in BlockNos, NextFree(plane, infos, n), spinning' = spinning,
               activeBlock' = [activeBlock EXCEPT ![plane] = n]
        PROVE  /\ activeBlock' \in [Planes -> BlockNos] /\ BlocksInOrder'
    <3>1. activeBlock' \in [Planes -> BlockNos]
      BY <2>4 DEF TablesOK
    <3>2. infos[<<plane, n>>].freePageCount = pageOfBlock
      BY <2>4 DEF NextFree
    <3>3. <<plane, n>> \in Blocks
      BY DEF Blocks
    <3>4. infos[<<plane, n>>].startWrite = 0
      BY <1>4, <1>7, <1>8, <3>2, <3>3, Sizes DEF FreeIsUnwritten
    <3> SUFFICES ASSUME NEW b \in Blocks
                 PROVE  /\ activeBlock'[b[1]] = b[2] => infos[b].startWrite # pageOfBlock
                        /\ activeBlock'[b[1]] # b[2] => infos[b].startWrite \in {0, pageOfBlock}
      BY <1>4, <1>8, <3>1 DEF BlocksInOrder
    <3>5. CASE b[1] # plane
      <4>1. activeBlock'[b[1]] = activeBlock[b[1]] /\ infos[b] = blockInfos[b]
        BY <1>5, <1>9, <2>4, <3>5 DEF TablesOK, Blocks
      <4> QED BY <4>1 DEF BlocksInOrder
    <3>6. CASE b[1] = plane
      <4>1. activeBlock'[plane] = n
        BY <2>4 DEF TablesOK
      <4>2. b[2] = n => b = <<plane, n>>
        BY <3>6 DEF Blocks
      <4>3. b = block \/ (b # block /\ activeBlock[b[1]] # b[2])
        BY <1>10, <3>6
      <4>4. infos[b].startWrite \in {0, pageOfBlock}
        BY <1>5, <2>1, <4>3 DEF BlocksInOrder
      <4> QED BY <3>4, <3>6, <4>1, <4>2, <4>4, Sizes
    <3> QED BY <3>5, <3>6
  <2> QED BY <1>3, <1>4, <1>5, <1>6, <1>7, <2>2, <2>3, <2>4 DEF TablesOK
<1> QED BY <1>11, <1>12

\* Invalidating pages and noting a write touches no block's frontier.
LEMMA UpdateKeepsOrder ==
  ASSUME TablesOK, NEW sub \in CommandOf, update_Map_and_invilate_page(sub)
  PROVE  /\ map' \in [HostLPNs -> [subPage : SUBSET SubPages, ppn : PPNs]]
         /\ pageInfos' \in [Locations -> [state : SUBSET SubPages, lpn : LPNs]]
         /\ blockInfos' \in [Blocks -> BlockInfo] /\ counts' \in [Units -> Count]
         /\ \A b \in Blocks :
              /\ blockInfos'[b].startWrite = blockInfos[b].startWrite
              /\ blockInfos'[b].freePageCount = blockInfos[b].freePageCount
         /\ \A loc \in Locations : pageInfos'[loc].state # {} =>
              loc = sub.location \/ pageInfos[loc].state # {}
<1> DEFINE pages == [pageInfos EXCEPT
                       ![sub.location] = [state |-> sub.bitMap, lpn |-> sub.lpn]]
<1>1. /\ sub.location \in Locations /\ sub.lpn \in LPNs /\ sub.bitMap \in SUBSET SubPages
  BY DEF CommandOf
<1>2. map' \in [HostLPNs -> [subPage : SUBSET SubPages, ppn : PPNs]]
  <2>1. get_PPN_From_Detail(sub.location) \in PPNs
    BY <1>1, LocationRoundTrip
  <2>2. map' = [map EXCEPT ![sub.lpn] =
                  [subPage |-> sub.bitMap, ppn |-> get_PPN_From_Detail(sub.location)]]
    BY DEF update_Map_and_invilate_page
  <2> QED BY <1>1, <2>1, <2>2 DEF TablesOK
<1>3. /\ pages \in [Locations -> [state : SUBSET SubPages, lpn : LPNs]]
      /\ \A loc \in Locations : loc # sub.location => pages[loc] = pageInfos[loc]
  BY <1>1 DEF TablesOK
<1> DEFINE pre == map[sub.lpn]
<1>4. \/ pageInfos' = pages /\ blockInfos' = blockInfos /\ counts' = counts
      \/ \E old \in get_PPN_Detail(pre.ppn) : invilate_page(old, pages)
  BY DEF update_Map_and_invilate_page
<1> HIDE DEF pages, pre
<1>5. CASE pageInfos' = pages /\ blockInfos' = blockInfos /\ counts' = counts
  BY <1>2, <1>3, <1>5 DEF TablesOK
<1>6. ASSUME NEW old \in get_PPN_Detail(pre.ppn), invilate_page(old, pages)
      PROVE  /\ pageInfos' \in [Locations -> [state : SUBSET SubPages, lpn : LPNs]]
             /\ blockInfos' \in [Blocks -> BlockInfo] /\ counts' \in [Units -> Count]
             /\ \A b \in Blocks :
                  /\ blockInfos'[b].startWrite = blockInfos[b].startWrite
                  /\ blockInfos'[b].freePageCount = blockInfos[b].freePageCount
             /\ \A loc \in Locations : pageInfos'[loc].state # {} =>
                  loc = sub.location \/ pageInfos[loc].state # {}
  <2>1. old \in Locations
    BY <1>6, PageNumbers
  <2>2. counts' \in [Units -> Count]
    BY <1>6 DEF invilate_page, Shift, Count, TablesOK
  <2>3. pageInfos' = [pages EXCEPT ![old].state = {}]
    BY <1>6 DEF invilate_page
  <2>4. \A loc \in Locations : pageInfos'[loc].state # {} => pageInfos'[loc] = pages[loc]
    BY <1>3, <2>1, <2>3
  <2>5. pageInfos' \in [Locations -> [state : SUBSET SubPages, lpn : LPNs]]
    BY <1>3, <2>1, <2>3
  <2>6. /\ blockInfos' \in [Blocks -> BlockInfo]
        /\ \A b \in Blocks :
             /\ blockInfos'[b].startWrite = blockInfos[b].startWrite
             /\ blockInfos'[b].freePageCount = blockInfos[b].freePageCount
    <3> DEFINE B == <<old[1], old[2]>>
    <3>1. B \in Blocks
      BY <2>1 DEF Locations, Blocks
    <3>2. blockInfos' = [blockInfos EXCEPT ![B].validPageCount   = @ - 1,
                                           ![B].invalidPageCount = @ + 1]
      BY <1>6 DEF invilate_page
    <3> HIDE DEF B
    <3> QED BY <3>1, <3>2 DEF TablesOK, BlockInfo
  <2> QED BY <1>3, <2>2, <2>4, <2>5, <2>6
<1> QED BY <1>2, <1>4, <1>5, <1>6

\* An erasure puts startWrite back to the first page of the block.
LEMMA EraseKeepsOrder ==
  ASSUME TablesOK, BlocksInOrder, FreeIsUnwritten,
         NEW plane \in Planes, NEW n \in BlockNos, erase_block(plane, n),
         UNCHANGED <<activeBlock, spinning>>
  PROVE  /\ pageInfos' \in [Locations -> [state : SUBSET SubPages, lpn : LPNs]]
         /\ blockInfos' \in [Blocks -> BlockInfo] /\ counts' \in [Units -> Count]
         /\ BlocksInOrder' /\ FreeIsUnwritten'
         /\ \A loc \in Locations : pageInfos'[loc].state # {} =>
              /\ pageInfos[loc].state # {}
              /\ blockInfos'[<<loc[1], loc[2]>>] = blockInfos[<<loc[1], loc[2]>>]
<1> DEFINE block == <<plane, n>>
<1>1. block \in Blocks
  BY DEF Blocks
<1>2. pageInfos' = [loc \in Locations |->
                      IF loc[1] = plane /\ loc[2] = n
                      THEN [pageInfos[loc] EXCEPT !.state = {}]
                      ELSE pageInfos[loc]]
  BY DEF erase_block
<1>3. blockInfos' = [blockInfos EXCEPT ![block] =
                       [freePageCount |-> pageOfBlock, validPageCount |-> 0,
                        invalidPageCount |-> 0, startWrite |-> 0]]
  BY DEF erase_block
<1>4. pageInfos' \in [Locations -> [state : SUBSET SubPages, lpn : LPNs]]
  BY <1>2 DEF TablesOK
<1>5. counts' \in [Units -> Count]
  BY Sizes DEF erase_block, Shift, Count, TablesOK
<1>6. \A loc \in Locations : <<loc[1], loc[2]>> = block => loc[1] = plane /\ loc[2] = n
  OBVIOUS
<1> HIDE DEF block
<1>7. blockInfos' \in [Blocks -> BlockInfo]
  BY <1>1, <1>3, Sizes DEF TablesOK, BlockInfo
<1>8. BlocksInOrder'
  BY <1>1, <1>3, Sizes DEF BlocksInOrder, TablesOK
<1>9. FreeIsUnwritten'
  BY <1>1, <1>3, Sizes DEF FreeIsUnwritten, TablesOK
<1>10. ASSUME NEW loc \in Locations, pageInfos'[loc].state # {}
       PROVE  /\ pageInfos[loc].state # {}
              /\ blockInfos'[<<loc[1], loc[2]>>] = blockInfos[<<loc[1], loc[2]>>]
  <2>1. ~(loc[1] = plane /\ loc[2] = n) /\ pageInfos'[loc] = pageInfos[loc]
    BY <1>2, <1>10 DEF TablesOK
  <2>2. <<loc[1], loc[2]>> # block
    BY <1>6, <2>1
  <2>3. <<loc[1], loc[2]>> \in Blocks
    BY DEF Locations, Blocks
  <2> QED BY <1>3, <1>10, <2>1, <2>2, <2>3 DEF TablesOK
<1> QED BY <1>4, <1>5, <1>7, <1>8, <1>9, <1>10

-----------------------------------------------------------------------------
(* The steps.                                                              *)

QueuesOK ==
  /\ eraseUsed \in [Planes -> BOOLEAN]
  /\ eraseBlock \in [Planes -> BlockNos]
  /\ eraseCommands \in [Chips -> Seq(Planes)]
  /\ EPage \in [Planes -> 0..pageOfBlock]
  /\ commands \in [Chips -> Seq(CommandIDs)]
  /\ incompletedR \in [Chips -> Seq(CommandIDs)]
  /\ chipState \in [Chips -> {"IDLE", "PROGRAM", "READ_ADDR", "READ_DATA", "ERASE"}]
  /\ inflight \in [Chips -> CommandIDs]
  /\ cmd \in [CommandIDs -> CommandOf]
  /\ toCheck \in [Chips -> SUBSET Planes]

LEMMA TypeParts ==
  /\ TypeOK <=> TablesOK /\ QueuesOK
  /\ TypeOK' <=> TablesOK' /\ QueuesOK'
<1>1. TypeOK <=> TablesOK /\ QueuesOK
  BY DEF TypeOK, TablesOK, QueuesOK, BlockInfo, Count
<1>2. TypeOK' <=> TablesOK' /\ QueuesOK'
  BY DEF TypeOK, TablesOK, QueuesOK, BlockInfo, Count
<1> QED BY <1>1, <1>2

-----------------------------------------------------------------------------
\* A step of one chip that leaves the others alone.
LEMMA OneChipSteps ==
  ASSUME IInv, NEW c \in Chips, ChipQueues(c)', OwnChip(c)',
         \A d \in Chips : d # c =>
           /\ chipState'[d] = chipState[d] /\ inflight'[d] = inflight[d]
           /\ commands'[d] = commands[d] /\ incompletedR'[d] = incompletedR[d]
           /\ eraseCommands'[d] = eraseCommands[d] /\ toCheck'[d] = toCheck[d],
         \A y \in CommandIDs : y \notin {c} \cup PlanesOf(c) => cmd'[y] = cmd[y],
         \A p \in PlanesOf(c) : cmd'[p].operation # "NONE" => cmd'[p].location[1] = p
  PROVE  /\ QueuesMatchChip' /\ OnOwnChip' /\ CopyInPlace'
         /\ \A d \in Chips : d # c => Programmed(d)' = Programmed(d)
<1>1. ASSUME NEW d \in Chips, d # c
      PROVE  cmd'[inflight'[d]] = cmd[inflight[d]] /\ inflight[d] \in CommandIDs
  <2>1. inflight[d] \in {d} \cup PlanesOf(d) /\ inflight[d] \in CommandIDs
    BY TypeParts DEF IInv, OnOwnChip, OwnChip, QueuesOK
  <2>2. inflight[d] \notin {c} \cup PlanesOf(c)
    BY <1>1, <2>1, ChipsAndPlanes DEF PlanesOf
  <2> QED BY <1>1, <2>1, <2>2
<1>2. QueuesMatchChip'
  BY DEF IInv, QueuesMatchChip, ChipQueues
<1>3. OnOwnChip'
  <2> SUFFICES ASSUME NEW d \in Chips PROVE OwnChip(d)'
    BY DEF OnOwnChip, OwnChip
  <2>1. CASE d = c
    BY <2>1
  <2>2. CASE d # c
    BY <1>1, <2>2 DEF IInv, OnOwnChip, OwnChip
  <2> QED BY <2>1, <2>2
<1>4. CopyInPlace'
  <2> SUFFICES ASSUME NEW p \in Planes, cmd'[p].operation # "NONE"
               PROVE  cmd'[p].location[1] = p
    BY DEF CopyInPlace
  <2>1. CASE p \in PlanesOf(c)
    BY <2>1
  <2>2. CASE p \notin PlanesOf(c)
    <3>1. p # c /\ p \in CommandIDs
      BY ChipsAndPlanes DEF CommandIDs
    <3> QED BY <2>2, <3>1 DEF IInv, CopyInPlace
  <2> QED BY <2>1, <2>2
<1>5. ASSUME NEW d \in Chips, d # c PROVE Programmed(d)' = Programmed(d)
  BY <1>1, <1>5 DEF Programmed
<1> QED BY <1>2, <1>3, <1>4, <1>5

\* A step that leaves the tables alone and programs no new page.
LEMMA TablesKept ==
  ASSUME IInv, UNCHANGED <<tables, spinning>>,
         \A d \in Chips : Programmed(d)' \subseteq Programmed(d)
  PROVE  TablesOK' /\ WriteFrontier' /\ FreeIsUnwritten'
<1>1. TablesOK /\ BlocksInOrder /\ PagesBelow /\ FreeIsUnwritten
  BY TypeParts, WriteFrontierParts DEF IInv
<1>2. TablesOK'
  BY <1>1 DEF TablesOK, tables
<1>3. BlocksInOrder' /\ FreeIsUnwritten'
  BY <1>1 DEF BlocksInOrder, FreeIsUnwritten, tables
<1>4. PagesBelow'
  BY <1>1, ChipsAndPlanes DEF PagesBelow, tables, Locations
<1> QED BY <1>2, <1>3, <1>4, WriteFrontierParts

\* Sending the command that has just been queued.
LEMMA EnqueueKeepsIInv ==
  ASSUME IInv, ~spinning, NEW c \in Chips, chipState[c] = "IDLE", incompletedR[c] = <<>>,
         NEW x \in {c} \cup PlanesOf(c), NEW table \in [CommandIDs -> CommandOf],
         \A y \in CommandIDs : y # x => table[y] = cmd[y],
         ChipOf(table[x].location[1]) = c,
         x \in Planes => table[x].location[1] = x,
         Enqueue(c, table, x),
         EPage' \in [Planes -> 0..pageOfBlock],
         UNCHANGED <<eraseUsed, eraseBlock, eraseCommands, incompletedR, toCheck>>
  PROVE  IInv'
<1>1. /\ commands[c] = <<>> /\ x \in CommandIDs /\ TablesOK /\ QueuesOK
      /\ BlocksInOrder /\ PagesBelow /\ FreeIsUnwritten
  BY TypeParts, WriteFrontierParts DEF IInv, QueuesMatchChip, CommandIDs, PlanesOf
<1>2. Append(commands[c], x) = <<x>> /\ Head(<<x>>) = x
  BY <1>1
<1>3. commands' = [commands EXCEPT ![c] = <<x>>] /\ Send(c, table, x)
  BY <1>2 DEF Enqueue
<1>4. table[x] \in CommandOf /\ table[x].location[1] \in Planes
  BY <1>1 DEF CommandOf, Locations
<1>5. \/ /\ Busy(c, "READ_ADDR", x) /\ cmd' = table
         /\ UNCHANGED <<tables, spinning>>
      \/ /\ Busy(c, "PROGRAM", x)
         /\ cmd' = [table EXCEPT ![x].location = Frontier(@[1])]
         /\ allocate_location_in_plane(table[x].location[1])
         /\ UNCHANGED <<map, pageInfos>>
  BY <1>3 DEF Send
<1>6. commands' \in [Chips -> Seq(CommandIDs)] /\ commands'[c] = <<x>>
  BY <1>1, <1>3 DEF QueuesOK
<1>7. ASSUME NEW state \in {"READ_ADDR", "PROGRAM"}, Busy(c, state, x),
             cmd' \in [CommandIDs -> CommandOf],
             ChipOf(cmd'[x].location[1]) = c,
             x \in Planes => cmd'[x].location[1] = x,
             \A y \in CommandIDs : y # x => cmd'[y] = cmd[y]
      PROVE  /\ QueuesOK' /\ QueuesMatchChip' /\ OnOwnChip' /\ CopyInPlace'
             /\ chipState'[c] = state /\ inflight'[c] = x
             /\ \A d \in Chips : d # c => Programmed(d)' = Programmed(d)
  <2>1. /\ chipState' \in [Chips -> {"IDLE", "PROGRAM", "READ_ADDR", "READ_DATA", "ERASE"}]
        /\ inflight' \in [Chips -> CommandIDs]
        /\ chipState'[c] = state /\ inflight'[c] = x
        /\ \A d \in Chips : d # c =>
             chipState'[d] = chipState[d] /\ inflight'[d] = inflight[d]
    BY <1>1, <1>7 DEF Busy, QueuesOK
  <2>2. \A d \in Chips : d # c => commands'[d] = commands[d]
    BY <1>1, <1>3 DEF QueuesOK
  <2>3. QueuesOK'
    BY <1>1, <1>6, <1>7, <2>1 DEF QueuesOK
  <2>4. ChipQueues(c)' /\ OwnChip(c)'
    BY <1>6, <1>7, <2>1 DEF ChipQueues, IInv, OnOwnChip, OwnChip
  <2>5. \A p \in PlanesOf(c) : cmd'[p].operation # "NONE" => cmd'[p].location[1] = p
    BY <1>7 DEF IInv, CopyInPlace, PlanesOf, CommandIDs
  <2>6. /\ QueuesMatchChip' /\ OnOwnChip' /\ CopyInPlace'
        /\ \A d \in Chips : d # c => Programmed(d)' = Programmed(d)
    BY <1>7, <2>1, <2>2, <2>4, <2>5, OneChipSteps
  <2> QED BY <2>1, <2>3, <2>6
<1>8. CASE /\ Busy(c, "READ_ADDR", x) /\ cmd' = table
           /\ UNCHANGED <<tables, spinning>>
  <2>1. /\ QueuesOK' /\ QueuesMatchChip' /\ OnOwnChip' /\ CopyInPlace'
        /\ chipState'[c] = "READ_ADDR"
        /\ \A d \in Chips : d # c => Programmed(d)' = Programmed(d)
    BY <1>7, <1>8
  <2>2. Programmed(c)' = {}
    BY <2>1 DEF Programmed
  <2>3. TablesOK' /\ WriteFrontier' /\ FreeIsUnwritten'
    BY <1>8, <2>1, <2>2, TablesKept
  <2> QED BY <2>1, <2>3, TypeParts DEF IInv
<1>9. CASE /\ Busy(c, "PROGRAM", x)
           /\ cmd' = [table EXCEPT ![x].location = Frontier(@[1])]
           /\ allocate_location_in_plane(table[x].location[1])
           /\ UNCHANGED <<map, pageInfos>>
  <2> DEFINE plane == table[x].location[1]
  <2>1. /\ Frontier(plane) \in Locations
        /\ blockInfos' \in [Blocks -> BlockInfo] /\ counts' \in [Units -> Count]
        /\ activeBlock' \in [Planes -> BlockNos] /\ spinning' \in BOOLEAN
        /\ BlocksInOrder' /\ FreeIsUnwritten'
        /\ \A b \in Blocks : blockInfos'[b].startWrite =
             IF b = <<plane, activeBlock[plane]>>
             THEN blockInfos[b].startWrite + 1 ELSE blockInfos[b].startWrite
    BY <1>1, <1>4, <1>9, AllocateKeepsOrder
  <2>2. /\ cmd' \in [CommandIDs -> CommandOf] /\ cmd'[x].location = Frontier(plane)
        /\ \A y \in CommandIDs : y # x => cmd'[y] = cmd[y]
    BY <1>1, <1>4, <1>9, <2>1 DEF CommandOf
  <2>3. Frontier(plane)[1] = plane
    BY DEF Frontier
  <2>4. /\ QueuesOK' /\ QueuesMatchChip' /\ OnOwnChip' /\ CopyInPlace'
        /\ chipState'[c] = "PROGRAM" /\ inflight'[c] = x
        /\ \A d \in Chips : d # c => Programmed(d)' = Programmed(d)
    BY <1>7, <1>9, <2>2, <2>3
  <2>5. Programmed(c)' = {Frontier(plane)}
    BY <2>2, <2>4 DEF Programmed
  <2>6. TablesOK'
    BY <1>1, <1>9, <2>1 DEF TablesOK
  <2>7. PagesBelow'
    <3> SUFFICES ASSUME NEW loc \in Locations,
                        pageInfos[loc].state # {} \/ loc \in Programmed(ChipOf(loc[1]))'
                 PROVE  loc[3] < blockInfos'[<<loc[1], loc[2]>>].startWrite
      BY <1>9 DEF PagesBelow
    <3> DEFINE b == <<loc[1], loc[2]>>
    <3>1. b \in Blocks /\ loc[3] \in Int
      BY DEF Locations, Blocks, PageNos
    <3>2. /\ blockInfos[b].startWrite <= blockInfos'[b].startWrite
          /\ blockInfos[b].startWrite \in Int /\ blockInfos'[b].startWrite \in Int
      BY <1>1, <2>1, <3>1, Sizes DEF BlocksInOrder
    <3>3. CASE loc = Frontier(plane)
      <4>1. b = <<plane, activeBlock[plane]>> /\ loc[3] = blockInfos[b].startWrite
        BY <3>3 DEF Frontier
      <4> QED BY <2>1, <3>1, <3>2, <4>1
    <3>4. CASE pageInfos[loc].state # {} \/ loc \in Programmed(ChipOf(loc[1]))
      <4>1. loc[3] < blockInfos[b].startWrite
        BY <1>1, <3>4 DEF PagesBelow
      <4> QED BY <3>1, <3>2, <4>1
    <3>5. ChipOf(loc[1]) \in Chips
      BY ChipsAndPlanes DEF Locations
    <3> QED BY <2>4, <2>5, <3>3, <3>4, <3>5
  <2> QED BY <2>1, <2>4, <2>6, <2>7, TypeParts, WriteFrontierParts DEF IInv
<1> QED BY <1>5, <1>8, <1>9

LEMMA DispatchReadDataKeepsIInv ==
  ASSUME IInv, NEW c \in Chips, chipState[c] = "IDLE", DispatchReadData(c)
  PROVE  IInv'
<1>1. QueuesOK
  BY TypeParts DEF IInv
<1>2. commands[c] = <<>> /\ incompletedR[c] = <<inflight[c]>>
  BY DEF IInv, QueuesMatchChip, DispatchReadData
<1>3. /\ chipState' = [chipState EXCEPT ![c] = "READ_DATA"] /\ inflight' = inflight
      /\ UNCHANGED <<tables, erasing, queues, cmd, toCheck, spinning>>
  BY <1>1, <1>2 DEF DispatchReadData, Busy, QueuesOK
<1>4. QueuesOK'
  BY <1>1, <1>3 DEF QueuesOK, erasing, queues
<1>5. ChipQueues(c)' /\ OwnChip(c)'
  BY <1>1, <1>2, <1>3 DEF ChipQueues, QueuesOK, IInv, OnOwnChip, OwnChip, erasing, queues
<1>6. \A p \in PlanesOf(c) : cmd'[p].operation # "NONE" => cmd'[p].location[1] = p
  BY <1>3 DEF IInv, CopyInPlace, PlanesOf
<1>7. /\ QueuesMatchChip' /\ OnOwnChip' /\ CopyInPlace'
      /\ \A d \in Chips : d # c => Programmed(d)' = Programmed(d)
  BY <1>1, <1>3, <1>5, <1>6, OneChipSteps DEF QueuesOK, erasing, queues
<1>8. Programmed(c)' = {}
  BY <1>1, <1>3 DEF Programmed, QueuesOK
<1>9. TablesOK' /\ WriteFrontier' /\ FreeIsUnwritten'
  BY <1>3, <1>7, <1>8, TablesKept
<1> QED BY <1>4, <1>7, <1>9, TypeParts DEF IInv

\* The erase at the head of a chip's list is of one of its planes.
LEMMA CollectedOnChip ==
  ASSUME IInv, NEW c \in Chips, EraseIsNext(c)
  PROVE  Collected(c) \in PlanesOf(c) /\ Collected(c) \in CommandIDs
<1>1. eraseCommands[c] \in Seq(PlanesOf(c)) /\ eraseCommands[c] # <<>>
  BY DEF IInv, OnOwnChip, OwnChip, EraseIsNext
<1>2. Head(eraseCommands[c]) \in PlanesOf(c)
  BY <1>1
<1> QED BY <1>2 DEF Collected, PlanesOf, CommandIDs

LEMMA DispatchEraseKeepsIInv ==
  ASSUME IInv, NEW c \in Chips, chipState[c] = "IDLE", DispatchErase(c)
  PROVE  IInv'
<1> DEFINE p == Collected(c)
<1>1. QueuesOK /\ p \in PlanesOf(c) /\ p \in CommandIDs /\ p \in Planes
  BY TypeParts, CollectedOnChip DEF IInv, DispatchErase, PlanesOf
<1>2. commands[c] = <<>> /\ incompletedR[c] = <<>>
      /\ eraseCommands[c] # <<>> /\ Head(eraseCommands[c]) = p
  BY DEF IInv, QueuesMatchChip, DispatchErase, EraseIsNext, Collected
<1>3. /\ chipState' = [chipState EXCEPT ![c] = "ERASE"]
      /\ inflight' = [inflight EXCEPT ![c] = p]
      /\ cmd' = [cmd EXCEPT ![p] = NoCommand]
      /\ UNCHANGED <<tables, queues, eraseUsed, eraseBlock, eraseCommands, toCheck, spinning>>
  BY DEF DispatchErase, Busy
<1>4. EPage' \in [Planes -> 0..pageOfBlock]
  <2>1. EPage' = [EPage EXCEPT ![p] = pageOfBlock] \/ EPage' = EPage
    BY DEF DispatchErase
  <2>2. pageOfBlock \in 0..pageOfBlock
    BY Sizes
  <2> HIDE DEF p
  <2> QED BY <1>1, <2>1, <2>2 DEF QueuesOK
<1> HIDE DEF p
<1>5. NoCommand \in CommandOf /\ NoCommand.operation = "NONE"
  BY FirstValues
<1>6. QueuesOK'
  BY <1>1, <1>3, <1>4, <1>5 DEF QueuesOK, queues
<1>7. ChipQueues(c)' /\ OwnChip(c)'
  BY <1>1, <1>2, <1>3 DEF ChipQueues, QueuesOK, IInv, OnOwnChip, OwnChip, queues
<1>8. \A q \in PlanesOf(c) : cmd'[q].operation # "NONE" => cmd'[q].location[1] = q
  BY <1>1, <1>3, <1>5 DEF IInv, CopyInPlace, PlanesOf, QueuesOK, CommandIDs
<1>9. /\ QueuesMatchChip' /\ OnOwnChip' /\ CopyInPlace'
      /\ \A d \in Chips : d # c => Programmed(d)' = Programmed(d)
  BY <1>1, <1>3, <1>7, <1>8, OneChipSteps DEF QueuesOK, queues
<1>10. Programmed(c)' = {}
  BY <1>1, <1>3 DEF Programmed, QueuesOK
<1>11. TablesOK' /\ WriteFrontier' /\ FreeIsUnwritten'
  BY <1>3, <1>9, <1>10, TablesKept
<1> QED BY <1>6, <1>9, <1>11, TypeParts DEF IInv

LEMMA DispatchCopyWriteKeepsIInv ==
  ASSUME IInv, ~spinning, NEW c \in Chips, chipState[c] = "IDLE", DispatchCopyWrite(c)
  PROVE  IInv'
<1> DEFINE p == Collected(c)
           table == [cmd EXCEPT ![p].operation = "WRITE", ![p].completed = FALSE]
<1>1. QueuesOK /\ p \in PlanesOf(c) /\ p \in CommandIDs /\ p \in Planes
  BY TypeParts, CollectedOnChip DEF IInv, DispatchCopyWrite, PlanesOf
<1>2. incompletedR[c] = <<>> /\ cmd[p].operation = "READ" /\ Enqueue(c, table, p)
  BY DEF DispatchCopyWrite, EraseIsNext, CopyRead
<1>3. UNCHANGED <<eraseUsed, eraseBlock, eraseCommands, incompletedR, toCheck, EPage>>
  BY DEF DispatchCopyWrite, erasing
<1> HIDE DEF p
<1>4. cmd[p] \in CommandOf
  BY <1>1 DEF QueuesOK
<1>5. table \in [CommandIDs -> CommandOf]
  BY <1>1, <1>4 DEF QueuesOK, CommandOf
<1>6. /\ \A y \in CommandIDs : y # p => table[y] = cmd[y]
      /\ table[p].location = cmd[p].location
  BY <1>1, <1>4 DEF QueuesOK, CommandOf
<1>7. cmd[p].location[1] = p /\ ChipOf(p) = c
  BY <1>1, <1>2 DEF IInv, CopyInPlace, PlanesOf
<1> HIDE DEF table
<1>8. EPage' \in [Planes -> 0..pageOfBlock]
  BY <1>1, <1>3 DEF QueuesOK
<1> QED BY <1>1, <1>2, <1>3, <1>5, <1>6, <1>7, <1>8, EnqueueKeepsIInv

LEMMA DispatchCopyReadKeepsIInv ==
  ASSUME IInv, ~spinning, NEW c \in Chips, chipState[c] = "IDLE", DispatchCopyRead(c)
  PROVE  IInv'
<1> DEFINE p == Collected(c)
           loc(e) == <<p, eraseBlock[p], e>>
           copy(e) == [operation |-> "READ", completed |-> FALSE,
                       lpn |-> pageInfos[loc(e)].lpn, bitMap |-> pageInfos[loc(e)].state,
                       location |-> loc(e)]
           table(e) == [cmd EXCEPT ![p] = copy(e)]
<1>1. QueuesOK /\ TablesOK /\ p \in PlanesOf(c) /\ p \in CommandIDs /\ p \in Planes
  BY TypeParts, CollectedOnChip DEF IInv, DispatchCopyRead, PlanesOf
<1>2. PICK e \in LivePages(p) : /\ EPage' = [EPage EXCEPT ![p] = e]
                                /\ Enqueue(c, table(e), p)
  BY DEF DispatchCopyRead
<1>3. /\ incompletedR[c] = <<>>
      /\ UNCHANGED <<eraseUsed, eraseBlock, eraseCommands, incompletedR, toCheck>>
  BY DEF DispatchCopyRead, EraseIsNext
<1> HIDE DEF p
<1>4. e \in PageNos /\ loc(e) \in Locations
  BY <1>1, <1>2 DEF LivePages, QueuesOK, Locations
<1>5. copy(e) \in CommandOf /\ copy(e).location[1] = p
  BY <1>1, <1>4 DEF TablesOK, CommandOf
<1>6. EPage' \in [Planes -> 0..pageOfBlock]
  BY <1>1, <1>2, <1>4, Sizes DEF QueuesOK, PageNos
<1> HIDE DEF copy
<1>7. table(e) \in [CommandIDs -> CommandOf]
  BY <1>1, <1>5 DEF QueuesOK
<1>8. table(e)[p] = copy(e) /\ \A y \in CommandIDs : y # p => table(e)[y] = cmd[y]
  BY <1>1 DEF QueuesOK
<1>9. ChipOf(p) = c
  BY <1>1 DEF PlanesOf
<1> HIDE DEF table
<1> QED BY <1>1, <1>2, <1>3, <1>5, <1>6, <1>7, <1>8, <1>9, EnqueueKeepsIInv

LEMMA DispatchHostWriteKeepsIInv ==
  ASSUME IInv, ~spinning, NEW c \in Chips, chipState[c] = "IDLE", DispatchHostWrite(c)
  PROVE  IInv'
<1> DEFINE plane(lpn) == allocate_location_for_plane(lpn)
           write(lpn, bitMap) ==
             [operation |-> "WRITE", completed |-> FALSE, lpn |-> lpn,
              bitMap |-> bitMap, location |-> <<plane(lpn), 0, 0>>]
           table(lpn, bitMap) == [cmd EXCEPT ![c] = write(lpn, bitMap)]
<1>1. PICK lpn \in HostLPNs, bitMap \in SUBSET SubPages :
        ChipOf(plane(lpn)) = c /\ Enqueue(c, table(lpn, bitMap), c)
  BY DEF DispatchHostWrite, SendHostWrite
<1>2. /\ incompletedR[c] = <<>>
      /\ UNCHANGED <<eraseUsed, eraseBlock, eraseCommands, incompletedR, toCheck, EPage>>
  BY DEF DispatchHostWrite, SendHostWrite, NoEraseStep, erasing
<1>3. QueuesOK /\ c \in CommandIDs /\ c \notin Planes
  BY TypeParts, ChipsAndPlanes DEF IInv, CommandIDs
<1>4. lpn \in LPNs /\ plane(lpn) \in Planes
  BY FlashAssumption, PageNumbers, PlaneOfLPN
<1> HIDE DEF plane
<1>5. write(lpn, bitMap) \in CommandOf /\ write(lpn, bitMap).location[1] = plane(lpn)
  <2>1. <<plane(lpn), 0, 0>> \in Locations
    BY <1>4, Sizes DEF Locations, BlockNos, PageNos
  <2> QED BY <1>4, <2>1 DEF CommandOf
<1>6. EPage' \in [Planes -> 0..pageOfBlock]
  BY <1>2, <1>3 DEF QueuesOK
<1> HIDE DEF write
<1>7. table(lpn, bitMap) \in [CommandIDs -> CommandOf]
  BY <1>3, <1>5 DEF QueuesOK
<1>8. /\ table(lpn, bitMap)[c] = write(lpn, bitMap)
      /\ \A y \in CommandIDs : y # c => table(lpn, bitMap)[y] = cmd[y]
  BY <1>3 DEF QueuesOK
<1> HIDE DEF table
<1> QED BY <1>1, <1>2, <1>3, <1>5, <1>6, <1>7, <1>8, EnqueueKeepsIInv

-----------------------------------------------------------------------------
\* The command that ends is the only one in its queue.
LEMMA EndLeavesNothing ==
  ASSUME NEW S, NEW x \in S, NEW queue, queue = <<x>>
  PROVE  get_end_CMD(queue, x) = <<>> /\ Tail(queue) = <<>>
  BY DEF get_end_CMD

LEMMA CompleteReadAddrKeepsIInv ==
  ASSUME IInv, NEW c \in Chips, CompleteReadAddr(c)
  PROVE  IInv'
<1> DEFINE x == inflight[c]
<1>1. QueuesOK /\ x \in CommandIDs
  BY TypeParts DEF IInv, QueuesOK
<1>2. commands[c] = <<x>> /\ incompletedR[c] = <<>> /\ chipState[c] = "READ_ADDR"
  BY DEF IInv, QueuesMatchChip, CompleteReadAddr
<1>3. get_end_CMD(commands[c], x) = <<>> /\ Append(incompletedR[c], x) = <<x>>
  BY <1>1, <1>2, EndLeavesNothing
<1>4. /\ commands' = [commands EXCEPT ![c] = <<>>]
      /\ incompletedR' = [incompletedR EXCEPT ![c] = <<x>>]
      /\ chipState' = [chipState EXCEPT ![c] = "IDLE"]
      /\ UNCHANGED <<inflight, tables, erasing, cmd, toCheck, spinning>>
  BY <1>3 DEF CompleteReadAddr, Idle
<1>5. QueuesOK'
  BY <1>1, <1>4 DEF QueuesOK, erasing
<1>6. ChipQueues(c)' /\ OwnChip(c)'
  BY <1>1, <1>4 DEF ChipQueues, QueuesOK, IInv, OnOwnChip, OwnChip, erasing
<1>7. \A p \in PlanesOf(c) : cmd'[p].operation # "NONE" => cmd'[p].location[1] = p
  BY <1>4 DEF IInv, CopyInPlace, PlanesOf
<1>8. /\ QueuesMatchChip' /\ OnOwnChip' /\ CopyInPlace'
      /\ \A d \in Chips : d # c => Programmed(d)' = Programmed(d)
  BY <1>1, <1>4, <1>6, <1>7, OneChipSteps DEF QueuesOK, erasing
<1>9. Programmed(c)' = {}
  BY <1>1, <1>4 DEF Programmed, QueuesOK
<1>10. TablesOK' /\ WriteFrontier' /\ FreeIsUnwritten'
  BY <1>4, <1>8, <1>9, TablesKept
<1> QED BY <1>5, <1>8, <1>10, TypeParts DEF IInv

LEMMA CompleteReadDataKeepsIInv ==
  ASSUME IInv, NEW c \in Chips, CompleteReadData(c)
  PROVE  IInv'
<1> DEFINE x == inflight[c]
<1>1. QueuesOK /\ x \in CommandIDs /\ x \in {c} \cup PlanesOf(c)
  BY TypeParts DEF IInv, QueuesOK, OnOwnChip, OwnChip
<1>2. commands[c] = <<>> /\ incompletedR[c] = <<x>> /\ chipState[c] = "READ_DATA"
  BY DEF IInv, QueuesMatchChip, CompleteReadData
<1>3. get_end_CMD(incompletedR[c], x) = <<>>
  BY <1>1, <1>2, EndLeavesNothing
<1>4. /\ incompletedR' = [incompletedR EXCEPT ![c] = <<>>]
      /\ cmd' = [cmd EXCEPT ![x].completed = TRUE]
      /\ chipState' = [chipState EXCEPT ![c] = "IDLE"]
      /\ UNCHANGED <<inflight, tables, erasing, commands, toCheck, spinning>>
  BY <1>3 DEF CompleteReadData, Idle
<1> HIDE DEF x
<1>5. /\ cmd' \in [CommandIDs -> CommandOf]
      /\ \A y \in CommandIDs : y # x => cmd'[y] = cmd[y]
      /\ cmd'[x].operation = cmd[x].operation /\ cmd'[x].location = cmd[x].location
  BY <1>1, <1>4 DEF QueuesOK, CommandOf
<1>6. QueuesOK'
  BY <1>1, <1>4, <1>5 DEF QueuesOK, erasing
<1>7. ChipQueues(c)' /\ OwnChip(c)'
  BY <1>1, <1>2, <1>4 DEF ChipQueues, QueuesOK, IInv, OnOwnChip, OwnChip, erasing
<1>8. \A p \in PlanesOf(c) : cmd'[p].operation # "NONE" => cmd'[p].location[1] = p
  <2> TAKE p \in PlanesOf(c)
  <2>1. p \in Planes /\ p \in CommandIDs
    BY DEF PlanesOf, CommandIDs
  <2>2. cmd'[p].operation = cmd[p].operation /\ cmd'[p].location = cmd[p].location
    BY <1>5, <2>1
  <2> QED BY <2>1, <2>2 DEF IInv, CopyInPlace
<1>9. /\ QueuesMatchChip' /\ OnOwnChip' /\ CopyInPlace'
      /\ \A d \in Chips : d # c => Programmed(d)' = Programmed(d)
  BY <1>1, <1>4, <1>5, <1>7, <1>8, OneChipSteps DEF QueuesOK, erasing
<1>10. Programmed(c)' = {}
  BY <1>1, <1>4 DEF Programmed, QueuesOK
<1>11. TablesOK' /\ WriteFrontier' /\ FreeIsUnwritten'
  BY <1>4, <1>9, <1>10, TablesKept
<1> QED BY <1>6, <1>9, <1>11, TypeParts DEF IInv

LEMMA CompleteEraseKeepsIInv ==
  ASSUME IInv, NEW c \in Chips, CompleteErase(c)
  PROVE  IInv'
<1> DEFINE p == inflight[c]
<1>1. QueuesOK /\ TablesOK /\ p \in CommandIDs
      /\ BlocksInOrder /\ PagesBelow /\ FreeIsUnwritten
  BY TypeParts, WriteFrontierParts DEF IInv, QueuesOK
<1>2. /\ chipState[c] = "ERASE" /\ commands[c] = <<>> /\ incompletedR[c] = <<>>
      /\ eraseCommands[c] # <<>> /\ Head(eraseCommands[c]) = p
  BY DEF IInv, QueuesMatchChip, CompleteErase
<1>3. eraseCommands[c] \in Seq(PlanesOf(c))
  BY DEF IInv, OnOwnChip, OwnChip
<1>4. p \in PlanesOf(c) /\ p \in Planes
  BY <1>2, <1>3 DEF PlanesOf
<1>5. /\ eraseCommands' = [eraseCommands EXCEPT ![c] = Tail(eraseCommands[c])]
      /\ eraseUsed' = [eraseUsed EXCEPT ![p] = FALSE]
      /\ chipState' = [chipState EXCEPT ![c] = "IDLE"]
      /\ erase_block(p, eraseBlock[p])
      /\ UNCHANGED <<inflight, map, activeBlock, eraseBlock, EPage, queues, cmd,
                     toCheck, spinning>>
  BY <1>2 DEF CompleteErase, Idle, get_end_CMD
<1> HIDE DEF p
<1>6. Tail(eraseCommands[c]) \in Seq(PlanesOf(c)) /\ Tail(eraseCommands[c]) \in Seq(Planes)
  BY <1>2, <1>3, <1>1 DEF QueuesOK
<1>7. QueuesOK'
  BY <1>1, <1>5, <1>6 DEF QueuesOK, queues
<1>8. ChipQueues(c)' /\ OwnChip(c)'
  BY <1>1, <1>2, <1>5, <1>6 DEF ChipQueues, QueuesOK, IInv, OnOwnChip, OwnChip, queues
<1>9. \A q \in PlanesOf(c) : cmd'[q].operation # "NONE" => cmd'[q].location[1] = q
  BY <1>5 DEF IInv, CopyInPlace, PlanesOf
<1>10. /\ QueuesMatchChip' /\ OnOwnChip' /\ CopyInPlace'
       /\ \A d \in Chips : d # c => Programmed(d)' = Programmed(d)
  BY <1>1, <1>5, <1>8, <1>9, OneChipSteps DEF QueuesOK, queues
<1>11. Programmed(c)' = {}
  BY <1>1, <1>5 DEF Programmed, QueuesOK
<1>12. eraseBlock[p] \in BlockNos
  BY <1>1, <1>4 DEF QueuesOK
<1>13. /\ pageInfos' \in [Locations -> [state : SUBSET SubPages, lpn : LPNs]]
       /\ blockInfos' \in [Blocks -> BlockInfo] /\ counts' \in [Units -> Count]
       /\ BlocksInOrder' /\ FreeIsUnwritten'
       /\ \A loc \in Locations : pageInfos'[loc].state # {} =>
            /\ pageInfos[loc].state # {}
            /\ blockInfos'[<<loc[1], loc[2]>>] = blockInfos[<<loc[1], loc[2]>>]
  BY <1>1, <1>4, <1>5, <1>12, EraseKeepsOrder
<1>14. TablesOK'
  BY <1>1, <1>5, <1>13 DEF TablesOK
<1>15. PagesBelow'
  <2> SUFFICES ASSUME NEW loc \in Locations,
                      pageInfos'[loc].state # {} \/ loc \in Programmed(ChipOf(loc[1]))'
               PROVE  loc[3] < blockInfos'[<<loc[1], loc[2]>>].startWrite
    BY DEF PagesBelow
  <2>1. CASE pageInfos'[loc].state # {}
    BY <1>1, <1>13, <2>1 DEF PagesBelow
  <2>2. CASE loc \in Programmed(ChipOf(loc[1]))'
    <3>1. ChipOf(loc[1]) # c /\ loc[1] \in Planes /\ ChipOf(loc[1]) \in Chips
      BY <1>11, <2>2, ChipsAndPlanes DEF Locations
    <3>2. loc \in Programmed(ChipOf(loc[1]))
      BY <1>10, <2>2, <3>1
    <3>3. <<loc[1], loc[2]>> # <<p, eraseBlock[p]>> /\ <<loc[1], loc[2]>> \in Blocks
      BY <1>4, <3>1 DEF PlanesOf, Blocks, Locations
    <3>4. blockInfos'[<<loc[1], loc[2]>>] = blockInfos[<<loc[1], loc[2]>>]
      BY <1>1, <1>5, <3>3 DEF erase_block, TablesOK
    <3> QED BY <1>1, <3>2, <3>4 DEF PagesBelow
  <2> QED BY <2>1, <2>2
<1> QED BY <1>7, <1>10, <1>13, <1>14, <1>15, TypeParts, WriteFrontierParts DEF IInv

LEMMA CompleteProgramKeepsIInv ==
  ASSUME IInv, NEW c \in Chips, CompleteProgram(c)
  PROVE  IInv'
<1> DEFINE x == inflight[c]
<1>1. /\ QueuesOK /\ TablesOK /\ x \in CommandIDs /\ x \in {c} \cup PlanesOf(c)
      /\ BlocksInOrder /\ PagesBelow /\ FreeIsUnwritten
  BY TypeParts, WriteFrontierParts DEF IInv, QueuesOK, OnOwnChip, OwnChip
<1>2. commands[c] = <<x>> /\ incompletedR[c] = <<>> /\ chipState[c] = "PROGRAM"
  BY DEF IInv, QueuesMatchChip, CompleteProgram
<1>3. get_end_CMD(commands[c], x) = <<>>
  BY <1>1, <1>2, EndLeavesNothing
<1>4. /\ cmd[x] \in CommandOf /\ cmd[x].location \in Locations
      /\ cmd[x].location[1] \in PlanesOf(c)
  BY <1>1, <1>2 DEF QueuesOK, CommandOf, Locations, IInv, OnOwnChip, OwnChip, PlanesOf
<1>5. /\ commands' = [commands EXCEPT ![c] = <<>>]
      /\ chipState' = [chipState EXCEPT ![c] = "IDLE"]
      /\ update_Map_and_invilate_page(cmd[x])
      /\ \/ /\ x = c
            /\ cmd' = [cmd EXCEPT ![c] = NoCommand]
            /\ toCheck' = [toCheck EXCEPT ![c] = {cmd[x].location[1]}]
         \/ /\ x # c
            /\ cmd' = [cmd EXCEPT ![x].completed = TRUE]
            /\ UNCHANGED toCheck
      /\ UNCHANGED <<inflight, activeBlock, erasing, incompletedR, spinning>>
  BY <1>3 DEF CompleteProgram, Idle
<1> HIDE DEF x
<1>6. NoCommand \in CommandOf /\ NoCommand.operation = "NONE"
  BY FirstValues
<1>7. /\ cmd' \in [CommandIDs -> CommandOf]
      /\ \A y \in CommandIDs : y # x => cmd'[y] = cmd[y]
      /\ x # c => /\ cmd'[x].operation = cmd[x].operation
                  /\ cmd'[x].location = cmd[x].location
  <2>1. CASE x = c /\ cmd' = [cmd EXCEPT ![c] = NoCommand]
    BY <1>1, <1>6, <2>1 DEF QueuesOK
  <2>2. CASE x # c /\ cmd' = [cmd EXCEPT ![x].completed = TRUE]
    BY <1>1, <1>4, <2>2 DEF QueuesOK, CommandOf
  <2> QED BY <1>5, <2>1, <2>2
<1>8. /\ toCheck' \in [Chips -> SUBSET Planes] /\ toCheck'[c] \subseteq PlanesOf(c)
      /\ \A d \in Chips : d # c => toCheck'[d] = toCheck[d]
  <2>1. toCheck[c] \subseteq PlanesOf(c)
    BY DEF IInv, OnOwnChip, OwnChip
  <2>2. CASE toCheck' = [toCheck EXCEPT ![c] = {cmd[x].location[1]}]
    BY <1>1, <1>4, <2>2 DEF QueuesOK, PlanesOf
  <2>3. CASE UNCHANGED toCheck
    BY <1>1, <2>1, <2>3 DEF QueuesOK
  <2> QED BY <1>5, <2>2, <2>3
<1>9. QueuesOK'
  <2>1. commands' \in [Chips -> Seq(CommandIDs)]
    BY <1>1, <1>5 DEF QueuesOK
  <2>2. chipState' \in [Chips -> {"IDLE", "PROGRAM", "READ_ADDR", "READ_DATA", "ERASE"}]
    BY <1>1, <1>5 DEF QueuesOK
  <2>3. UNCHANGED <<inflight, eraseUsed, eraseBlock, eraseCommands, EPage, incompletedR>>
    BY <1>5 DEF erasing
  <2> QED BY <1>1, <1>7, <1>8, <2>1, <2>2, <2>3 DEF QueuesOK
<1>10. ChipQueues(c)' /\ OwnChip(c)'
  BY <1>1, <1>2, <1>5, <1>8 DEF ChipQueues, QueuesOK, IInv, OnOwnChip, OwnChip, erasing
<1>11. \A p \in PlanesOf(c) : cmd'[p].operation # "NONE" => cmd'[p].location[1] = p
  <2> TAKE p \in PlanesOf(c)
  <2>1. p \in Planes /\ p \in CommandIDs /\ p # c
    BY ChipsAndPlanes DEF PlanesOf, CommandIDs
  <2>2. cmd'[p].operation = cmd[p].operation /\ cmd'[p].location = cmd[p].location
    BY <1>7, <2>1
  <2> QED BY <2>1, <2>2 DEF IInv, CopyInPlace
<1>12. /\ QueuesMatchChip' /\ OnOwnChip' /\ CopyInPlace'
       /\ \A d \in Chips : d # c => Programmed(d)' = Programmed(d)
  BY <1>1, <1>5, <1>7, <1>8, <1>10, <1>11, OneChipSteps DEF QueuesOK, erasing
<1>13. Programmed(c)' = {} /\ Programmed(c) = {cmd[x].location}
  BY <1>1, <1>2, <1>5 DEF Programmed, QueuesOK, x
<1>14. /\ map' \in [HostLPNs -> [subPage : SUBSET SubPages, ppn : PPNs]]
       /\ pageInfos' \in [Locations -> [state : SUBSET SubPages, lpn : LPNs]]
       /\ blockInfos' \in [Blocks -> BlockInfo] /\ counts' \in [Units -> Count]
       /\ \A b \in Blocks :
            /\ blockInfos'[b].startWrite = blockInfos[b].startWrite
            /\ blockInfos'[b].freePageCount = blockInfos[b].freePageCount
       /\ \A loc \in Locations : pageInfos'[loc].state # {} =>
            loc = cmd[x].location \/ pageInfos[loc].state # {}
  BY <1>1, <1>4, <1>5, UpdateKeepsOrder
<1>15. TablesOK' /\ BlocksInOrder' /\ FreeIsUnwritten'
  BY <1>1, <1>5, <1>14 DEF TablesOK, BlocksInOrder, FreeIsUnwritten
<1>16. PagesBelow'
  <2> SUFFICES ASSUME NEW loc \in Locations,
                      pageInfos'[loc].state # {} \/ loc \in Programmed(ChipOf(loc[1]))'
               PROVE  loc[3] < blockInfos'[<<loc[1], loc[2]>>].startWrite
    BY DEF PagesBelow
  <2>1. <<loc[1], loc[2]>> \in Blocks /\ ChipOf(loc[1]) \in Chips
    BY ChipsAndPlanes DEF Locations, Blocks
  <2>2. pageInfos[loc].state # {} \/ loc \in Programmed(ChipOf(loc[1]))
    BY <1>4, <1>12, <1>13, <1>14, <2>1 DEF PlanesOf
  <2> QED BY <1>1, <1>14, <2>1, <2>2 DEF PagesBelow
<1> QED BY <1>9, <1>12, <1>15, <1>16, TypeParts, WriteFrontierParts DEF IInv

LEMMA CheckAndCreateGCKeepsIInv ==
  ASSUME IInv, NEW c \in Chips, check_and_create_gc(c)
  PROVE  IInv'
<1>1. QueuesOK /\ toCheck[c] \subseteq PlanesOf(c) /\ eraseCommands[c] \in Seq(PlanesOf(c))
  BY TypeParts DEF IInv, OnOwnChip, OwnChip
<1>2. PICK plane \in toCheck[c] :
        /\ toCheck' = [toCheck EXCEPT ![c] = {}]
        /\ \/ UNCHANGED erasing
           \/ /\ \E b \in BlockNos : eraseBlock' = [eraseBlock EXCEPT ![plane] = b]
              /\ eraseUsed' = [eraseUsed EXCEPT ![plane] = TRUE]
              /\ eraseCommands' = [eraseCommands EXCEPT ![c] = Append(@, plane)]
              /\ EPage' = [EPage EXCEPT ![plane] = 0]
        /\ UNCHANGED <<tables, queues, chipState, inflight, cmd, spinning>>
  BY DEF check_and_create_gc
<1>3. plane \in PlanesOf(c) /\ plane \in Planes
  BY <1>1, <1>2 DEF PlanesOf
<1>4. /\ eraseUsed' \in [Planes -> BOOLEAN] /\ eraseBlock' \in [Planes -> BlockNos]
      /\ eraseCommands' \in [Chips -> Seq(Planes)] /\ EPage' \in [Planes -> 0..pageOfBlock]
      /\ eraseCommands'[c] \in Seq(PlanesOf(c))
      /\ eraseCommands[c] # <<>> =>
           eraseCommands'[c] # <<>> /\ Head(eraseCommands'[c]) = Head(eraseCommands[c])
      /\ \A d \in Chips : d # c => eraseCommands'[d] = eraseCommands[d]
  <2>1. CASE UNCHANGED erasing
    BY <1>1, <2>1 DEF QueuesOK, erasing
  <2>2. CASE /\ \E b \in BlockNos : eraseBlock' = [eraseBlock EXCEPT ![plane] = b]
             /\ eraseUsed' = [eraseUsed EXCEPT ![plane] = TRUE]
             /\ eraseCommands' = [eraseCommands EXCEPT ![c] = Append(@, plane)]
             /\ EPage' = [EPage EXCEPT ![plane] = 0]
    <3>1. /\ eraseUsed' \in [Planes -> BOOLEAN] /\ eraseBlock' \in [Planes -> BlockNos]
          /\ EPage' \in [Planes -> 0..pageOfBlock]
      BY <1>1, <1>3, <2>2, Sizes DEF QueuesOK
    <3>2. /\ Append(eraseCommands[c], plane) \in Seq(PlanesOf(c))
          /\ Append(eraseCommands[c], plane) \in Seq(Planes)
          /\ Append(eraseCommands[c], plane) # <<>>
          /\ eraseCommands[c] # <<>> =>
               Head(Append(eraseCommands[c], plane)) = Head(eraseCommands[c])
      <4>1. eraseCommands[c] \in Seq(Planes)
        BY <1>1 DEF QueuesOK
      <4>2. /\ Append(eraseCommands[c], plane) \in Seq(PlanesOf(c))
            /\ Append(eraseCommands[c], plane) \in Seq(Planes)
        BY <1>1, <1>3, <4>1
      <4>3. Len(Append(eraseCommands[c], plane)) = Len(eraseCommands[c]) + 1
        BY <4>1, <1>3
      <4>4. Append(eraseCommands[c], plane) # <<>>
        <5>1. Len(eraseCommands[c]) \in Nat /\ Len(<<>>) = 0
          BY <4>1
        <5> QED BY <4>3, <5>1
      <4>5. eraseCommands[c] # <<>> =>
              Append(eraseCommands[c], plane)[1] = eraseCommands[c][1]
        BY <4>1, <1>3
      <4>6. eraseCommands[c] # <<>> =>
              Head(Append(eraseCommands[c], plane)) = Head(eraseCommands[c])
        BY <4>1, <4>2, <4>4, <4>5
      <4> QED BY <4>2, <4>4, <4>6
    <3> QED BY <1>1, <2>2, <3>1, <3>2 DEF QueuesOK
  <2> QED BY <1>2, <2>1, <2>2
<1>5. /\ toCheck' \in [Chips -> SUBSET Planes] /\ toCheck'[c] = {}
      /\ \A d \in Chips : d # c => toCheck'[d] = toCheck[d]
  BY <1>1, <1>2 DEF QueuesOK
<1>6. QueuesOK'
  BY <1>1, <1>2, <1>4, <1>5 DEF QueuesOK, queues
<1>7. ChipQueues(c)' /\ OwnChip(c)'
  BY <1>2, <1>4, <1>5 DEF ChipQueues, IInv, OnOwnChip, OwnChip, QueuesMatchChip, queues
<1>8. \A p \in PlanesOf(c) : cmd'[p].operation # "NONE" => cmd'[p].location[1] = p
  BY <1>2 DEF IInv, CopyInPlace, PlanesOf
<1>9. QueuesMatchChip' /\ OnOwnChip' /\ CopyInPlace'
  BY <1>2, <1>4, <1>5, <1>7, <1>8, OneChipSteps DEF queues
<1>10. \A d \in Chips : Programmed(d)' = Programmed(d)
  BY <1>2 DEF Programmed
<1>11. TablesOK' /\ WriteFrontier' /\ FreeIsUnwritten'
  BY <1>2, <1>10, TablesKept
<1> QED BY <1>6, <1>9, <1>11, TypeParts DEF IInv

-----------------------------------------------------------------------------
LEMMA InitIInv == Init => IInv
<1> SUFFICES ASSUME Init PROVE IInv
  OBVIOUS
<1> USE DEF Init
<1>1. counts \in [Units -> Count]
  <2>1. ASSUME NEW u \in Units
        PROVE  Cardinality({p \in Planes : u \in Ancestors(p)}) * page_no_per_plane \in Int
    <3>1. Cardinality({p \in Planes : u \in Ancestors(p)}) \in Nat
      BY PlanesFinite, FS_Subset, FS_CardinalityType
    <3> QED BY <3>1, Sizes
  <2> QED BY <2>1 DEF Count
<1>2. TablesOK
  <2>1. map \in [HostLPNs -> [subPage : SUBSET SubPages, ppn : PPNs]]
    BY PageNumbers
  <2>2. pageInfos \in [Locations -> [state : SUBSET SubPages, lpn : LPNs]]
    BY PageNumbers
  <2>3. blockInfos \in [Blocks -> BlockInfo]
    BY FirstValues DEF BlockInfo
  <2>4. activeBlock \in [Planes -> BlockNos] /\ spinning \in BOOLEAN
    BY FirstValues
  <2> QED BY <1>1, <2>1, <2>2, <2>3, <2>4 DEF TablesOK
<1>3. QueuesOK
  BY FirstValues DEF QueuesOK, CommandIDs
<1>4. QueuesMatchChip
  BY DEF QueuesMatchChip
<1>5. OnOwnChip /\ CopyInPlace
  BY FirstValues DEF OnOwnChip, OwnChip, CopyInPlace, CommandIDs
<1>6. BlocksInOrder /\ FreeIsUnwritten
  BY FirstValues, Sizes DEF BlocksInOrder, FreeIsUnwritten
<1>7. PagesBelow
  BY ChipsAndPlanes DEF PagesBelow, Programmed, Locations
<1> QED BY <1>2, <1>3, <1>4, <1>5, <1>6, <1>7, TypeParts, WriteFrontierParts DEF IInv

LEMMA StutterKeepsIInv ==
  ASSUME IInv, UNCHANGED vars
  PROVE  IInv'
<1>1. UNCHANGED <<map, pageInfos, blockInfos, counts, activeBlock, eraseUsed, eraseBlock,
                  eraseCommands, EPage, commands, incompletedR, chipState, inflight, cmd,
                  toCheck, spinning>>
  BY DEF vars, tables, erasing, queues
<1>2. TypeOK' /\ QueuesMatchChip'
  BY <1>1 DEF IInv, TypeOK, QueuesMatchChip
<1>3. OnOwnChip' /\ CopyInPlace' /\ FreeIsUnwritten'
  BY <1>1 DEF IInv, OnOwnChip, OwnChip, CopyInPlace, FreeIsUnwritten
<1>4. WriteFrontier'
  BY <1>1 DEF IInv, WriteFrontier, Programmed
<1> QED BY <1>2, <1>3, <1>4 DEF IInv

LEMMA NextKeepsIInv == IInv /\ [Next]_vars => IInv'
<1> SUFFICES ASSUME IInv, [Next]_vars PROVE IInv'
  OBVIOUS
<1>1. CASE UNCHANGED vars
  BY <1>1, StutterKeepsIInv
<1>2. ASSUME ~spinning, NEW c \in Chips, Dispatch(c)
      PROVE  IInv'
  <2>1. chipState[c] = "IDLE" /\ (DispatchPending(c) \/ DispatchHostWrite(c))
    BY <1>2 DEF Dispatch
  <2>2. CASE DispatchReadData(c)
    BY <2>1, <2>2, DispatchReadDataKeepsIInv
  <2>3. CASE DispatchCopyWrite(c)
    BY <1>2, <2>1, <2>3, DispatchCopyWriteKeepsIInv
  <2>4. CASE DispatchCopyRead(c)
    BY <1>2, <2>1, <2>4, DispatchCopyReadKeepsIInv
  <2>5. CASE DispatchErase(c)
    BY <2>1, <2>5, DispatchEraseKeepsIInv
  <2>6. CASE DispatchHostWrite(c)
    BY <1>2, <2>1, <2>6, DispatchHostWriteKeepsIInv
  <2> QED BY <2>1, <2>2, <2>3, <2>4, <2>5, <2>6 DEF DispatchPending
<1>3. ASSUME NEW c \in Chips, Complete(c)
      PROVE  IInv'
  <2>1. CASE CompleteProgram(c)
    BY <2>1, CompleteProgramKeepsIInv
  <2>2. CASE CompleteReadAddr(c)
    BY <2>2, CompleteReadAddrKeepsIInv
  <2>3. CASE CompleteReadData(c)
    BY <2>3, CompleteReadDataKeepsIInv
  <2>4. CASE CompleteErase(c)
    BY <2>4, CompleteEraseKeepsIInv
  <2> QED BY <1>3, <2>1, <2>2, <2>3, <2>4 DEF Complete
<1>4. ASSUME NEW c \in Chips, check_and_create_gc(c)
      PROVE  IInv'
  BY <1>4, CheckAndCreateGCKeepsIInv
<1> QED BY <1>1, <1>2, <1>3, <1>4 DEF Next

LEMMA Invariance == Spec => []IInv
  BY InitIInv, NextKeepsIInv, PTL DEF Spec

(* The tables and queues of command.c keep their shape, for every geometry: *)
(* no table is indexed outside, no page number leaves the device.           *)
THEOREM TypeCorrect == Spec => []TypeOK
<1>1. IInv => TypeOK
  BY DEF IInv
<1> QED BY <1>1, Invariance, PTL

(* When a chip signals, get_end_CMD finds the command at the head of the    *)
(* queue recv_signal_back looks in; it never dereferences NULL there.       *)
THEOREM EndsWhatItFinds == Spec => []QueuesMatchChip
<1>1. IInv => QueuesMatchChip
  BY DEF IInv
<1> QED BY <1>1, Invariance, PTL

(* allocate_location_in_plane hands out the pages of a plane in order, one  *)
(* block at a time, and no page with data lies beyond startWrite, whatever  *)
(* garbage collection does in between: no page is programmed twice between  *)
(* two erasures of its block.                                               *)
THEOREM ProgramsInOrder == Spec => []WriteFrontier
<1>1. IInv => WriteFrontier
  BY DEF IInv
<1> QED BY <1>1, Invariance, PTL

(***************************************************************************)
(* Garbage collection.                                                     *)
(*                                                                         *)
(* The search for a free block hangs only in a full plane: that needs only *)
(* the invariant above. The others hold as long as no map entry names a    *)
(* page number that get_PPN_Detail_USBSSD refuses (NoneRefused); after     *)
(* that, invilate_page works on an uninitialized struct, and what it       *)
(* invalidates is arbitrary. Under that hypothesis the map and the page    *)
(* table stay inverse to each other, the counters of a block are the       *)
(* census of its pages, a copy is current when it is programmed, and an    *)
(* erase hits a full block without data.                                   *)
(*                                                                         *)
(* CInv is the inductive invariant.  Its parts need one another: an erase  *)
(* is safe because the pages before EPage are blank (VictimOK) and those   *)
(* after it were looked at; they stay blank because nothing is programmed  *)
(* while a collection is under way but its own copies, into another block  *)
(* (WriteOK, PhaseOK); a copy is current because no other command of the   *)
(* chip runs between its read and its write (PhaseOK); and a write         *)
(* invalidates the one page that held its sectors because the map names    *)
(* that page and no other (DataOK).                                        *)
(***************************************************************************)

\* No logical page with data is mapped to a number at or above mapSize.
NoneRefused ==
  \A lpn \in HostLPNs : map[lpn].subPage # {} => map[lpn].ppn \in LPNs

\* A page with data is on the plane of its logical page, which is mapped to it.
LiveIsMapped ==
  \A loc \in Locations : pageInfos[loc].state # {} =>
    /\ pageInfos[loc].lpn \in HostLPNs
    /\ allocate_location_for_plane(pageInfos[loc].lpn) = loc[1]
    /\ map[pageInfos[loc].lpn] = [subPage |-> pageInfos[loc].state,
                                  ppn     |-> get_PPN_From_Detail(loc)]

DataOK == MapNamesPage /\ LiveIsMapped /\ BlocksAgree

\* What is programmed is a write with sectors, to the plane of its logical
\* page and to a blank page; a user's write began before any collection the
\* chip has pending, and a copy leaves the block it came from.
WriteOK(c) ==
  chipState[c] = "PROGRAM" =>
    LET sub == cmd[inflight[c]]
    IN /\ sub.operation = "WRITE" /\ ~sub.completed
       /\ sub.lpn \in HostLPNs /\ sub.bitMap # {}
       /\ sub.location[1] = allocate_location_for_plane(sub.lpn)
       /\ pageInfos[sub.location].state = {}
       /\ inflight[c] = c => \A p \in PlanesOf(c) : eraseUsed[p] => EPage[p] = 0
       /\ inflight[c] # c => sub.location[2] # eraseBlock[inflight[c]]

\* What is read is the copy of an erase.
ReadOK(c) ==
  (\/ chipState[c] \in {"READ_ADDR", "READ_DATA"}
   \/ chipState[c] = "IDLE" /\ incompletedR[c] # <<>>)
  => /\ inflight[c] \in PlanesOf(c)
     /\ cmd[inflight[c]].operation = "READ" /\ ~cmd[inflight[c]].completed

\* The planes whose eraseLocation is taken have one erase command each.
QueueOK(c) ==
  /\ \A i, j \in 1..Len(eraseCommands[c]) :
       eraseCommands[c][i] = eraseCommands[c][j] => i = j
  /\ \A p \in PlanesOf(c) :
       eraseUsed[p] <=> \E i \in 1..Len(eraseCommands[c]) : eraseCommands[c][i] = p

EraseOK(c) ==
  chipState[c] = "ERASE" =>
    LET p == inflight[c]
    IN /\ cmd[p].operation = "NONE" /\ AllInvalid(p)
       /\ \A loc \in PagesOf(p, eraseBlock[p]) : pageInfos[loc].state = {}

\* A block that is to be erased is full, and blank up to EPage.
VictimOK(p) ==
  eraseUsed[p] =>
    /\ blockInfos[<<p, eraseBlock[p]>>].freePageCount = 0
    /\ activeBlock[p] # eraseBlock[p]
    /\ \A loc \in PagesOf(p, eraseBlock[p]) :
         loc[3] < EPage[p] => pageInfos[loc].state = {}

\* While an erase has a copy, the chip does nothing else.
PhaseOK(c, p) ==
  cmd[p].operation # "NONE" =>
    /\ eraseCommands[c] # <<>> /\ Head(eraseCommands[c]) = p
    /\ chipState[c] # "ERASE"
    /\ cmd[p].operation = "READ" /\ ~cmd[p].completed =>
         \/ chipState[c] \in {"READ_ADDR", "READ_DATA"} /\ inflight[c] = p
         \/ chipState[c] = "IDLE" /\ incompletedR[c] = <<p>>
    /\ cmd[p].operation = "WRITE" /\ ~cmd[p].completed =>
         chipState[c] = "PROGRAM" /\ inflight[c] = p
    /\ cmd[p].completed => chipState[c] = "IDLE" /\ incompletedR[c] = <<>>

\* Until it has been programmed, the copy is what its page holds.
CopyOK(p) ==
  CopyUnderWay(p) \/ CopyRead(p) =>
    /\ EPage[p] \in PageNos /\ cmd[p].bitMap # {}
    /\ pageInfos[<<p, eraseBlock[p], EPage[p]>>] =
         [state |-> cmd[p].bitMap, lpn |-> cmd[p].lpn]

ChipOK(c) ==
  /\ WriteOK(c) /\ ReadOK(c) /\ QueueOK(c) /\ EraseOK(c)
  /\ \A p \in PlanesOf(c) : VictimOK(p) /\ PhaseOK(c, p) /\ CopyOK(p)

CInv == DataOK /\ \A c \in Chips : ChipOK(c)

-----------------------------------------------------------------------------
(* The search for the next active block.                                   *)

\* The circular search finds a free block if the plane has one.
LEMMA SearchFinds ==
  ASSUME TablesOK, NEW plane \in Planes, NEW infos, NEW m \in BlockNos,
         infos[<<plane, m>>].freePageCount = pageOfBlock
  PROVE  \E n \in BlockNos : NextFree(plane, infos, n)
<1> DEFINE from == activeBlock[plane]
           isFree(b) == infos[<<plane, b>>].freePageCount = pageOfBlock
           free == {b \in BlockNos : isFree(b)}
           ahead(b) == (b - from) % blockOfPlane
           T == {ahead(b) : b \in free}
<1>1. \A b \in BlockNos : ahead(b) \in Nat
  <2>1. from \in BlockNos
    BY DEF TablesOK
  <2> QED BY <2>1, Sizes DEF BlockNos
<1>2. T \subseteq Nat /\ ahead(m) \in T
  BY <1>1
<1> HIDE DEF ahead
<1>3. PICK x \in T : \A y \in T : x <= y
  BY <1>2, LeastNumber
<1>4. PICK n \in free : x = ahead(n)
  BY <1>3
<1>5. \A b \in BlockNos : isFree(b) => ahead(n) <= ahead(b)
  BY <1>3, <1>4
<1> QED BY <1>4, <1>5 DEF NextFree, ahead

\* A thread hangs only in a plane without a free page.
LEMMA SpinsInFullPlane ==
  ASSUME TablesOK, BlocksInOrder, FreeIsUnwritten, ~spinning,
         NEW plane \in Planes, allocate_location_in_plane(plane), spinning'
  PROVE  \A b \in BlockNos : blockInfos'[<<plane, b>>].freePageCount = 0
<1> DEFINE block == <<plane, activeBlock[plane]>>
           infos == [blockInfos EXCEPT
                       ![block].freePageCount  = @ - 1,
                       ![block].validPageCount = @ + 1,
                       ![block].startWrite     = @ + 1]
<1>1. /\ blockInfos' = infos /\ infos[block].freePageCount = 0
      /\ ~ \E n \in BlockNos : NextFree(plane, infos, n)
      /\ activeBlock' = activeBlock
  BY DEF allocate_location_in_plane
<1>2. blockInfos' \in [Blocks -> BlockInfo] /\ BlocksInOrder' /\ FreeIsUnwritten'
  BY AllocateKeepsOrder
<1> HIDE DEF infos
<1>3. ASSUME NEW b \in BlockNos, b # activeBlock[plane]
      PROVE  blockInfos'[<<plane, b>>].freePageCount = 0
  <2>1. <<plane, b>> \in Blocks
    BY DEF Blocks
  <2>2. blockInfos'[<<plane, b>>].freePageCount # pageOfBlock
    BY <1>1, SearchFinds
  <2>3. blockInfos'[<<plane, b>>].startWrite \in {0, pageOfBlock}
    BY <1>1, <1>2, <1>3, <2>1 DEF BlocksInOrder
  <2> QED BY <1>2, <2>1, <2>2, <2>3, Sizes DEF FreeIsUnwritten
<1> QED BY <1>1, <1>3

-----------------------------------------------------------------------------
(* What the dispatching actions send.                                      *)

\* The queue of an idle chip is empty: what is queued is sent at once.
LEMMA EnqueueSends ==
  ASSUME IInv, NEW c \in Chips, chipState[c] = "IDLE",
         NEW x, NEW table, Enqueue(c, table, x)
  PROVE  Send(c, table, x)
<1>1. commands[c] = <<>>
  BY DEF IInv, QueuesMatchChip
<1>2. Head(Append(commands[c], x)) = x
  BY <1>1
<1> QED BY <1>2 DEF Enqueue

\* A command that has become a write, and one that has been given its page.
LEMMA ChangedCommands ==
  ASSUME NEW r \in CommandOf, NEW l \in Locations
  PROVE  /\ LET w == [r EXCEPT !.operation = "WRITE", !.completed = FALSE]
            IN /\ w \in CommandOf /\ w.operation = "WRITE" /\ ~w.completed
               /\ w.lpn = r.lpn /\ w.bitMap = r.bitMap /\ w.location = r.location
         /\ LET s == [r EXCEPT !.location = l]
            IN /\ s.operation = r.operation /\ s.completed = r.completed
               /\ s.lpn = r.lpn /\ s.bitMap = r.bitMap /\ s.location = l
  BY DEF CommandOf

\* Command x of chip c, a write to the plane, has just been sent.
StartsProgram(c, x, plane) ==
  /\ Busy(c, "PROGRAM", x) /\ allocate_location_in_plane(plane)
  /\ UNCHANGED <<map, pageInfos, incompletedR, eraseUsed, eraseBlock, eraseCommands,
                 EPage, toCheck>>
  /\ cmd'[x].operation = "WRITE" /\ ~cmd'[x].completed
  /\ cmd'[x].location = Frontier(plane)
  /\ \A y \in CommandIDs : y # x => cmd'[y] = cmd[y]

\* The active block has room.
LEMMA FrontierExists ==
  ASSUME IInv, ~spinning, NEW plane \in Planes, allocate_location_in_plane(plane)
  PROVE  Frontier(plane) \in Locations /\ Frontier(plane)[1] = plane
<1>1. TablesOK /\ BlocksInOrder /\ FreeIsUnwritten
  BY TypeParts, WriteFrontierParts DEF IInv
<1>2. Frontier(plane)[1] = plane
  BY DEF Frontier
<1> QED BY <1>1, <1>2, AllocateKeepsOrder

LEMMA CopyWriteStarts ==
  ASSUME IInv, ~spinning, NEW c \in Chips, chipState[c] = "IDLE", DispatchCopyWrite(c)
  PROVE  LET p == Collected(c)
         IN /\ p \in PlanesOf(c) /\ EraseIsNext(c) /\ CopyRead(p)
            /\ StartsProgram(c, p, p)
            /\ cmd'[p].lpn = cmd[p].lpn /\ cmd'[p].bitMap = cmd[p].bitMap
<1> DEFINE p == Collected(c)
           table == [cmd EXCEPT ![p].operation = "WRITE", ![p].completed = FALSE]
<1>1. /\ QueuesOK /\ p \in PlanesOf(c) /\ p \in CommandIDs /\ p \in Planes
      /\ EraseIsNext(c) /\ CopyRead(p)
  BY TypeParts, CollectedOnChip DEF IInv, DispatchCopyWrite, PlanesOf
<1>2. Enqueue(c, table, p) /\ UNCHANGED <<erasing, incompletedR, toCheck>>
  BY DEF DispatchCopyWrite
<1>3. Send(c, table, p)
  BY <1>2, EnqueueSends
<1> HIDE DEF p
<1>4. /\ cmd[p] \in CommandOf /\ cmd \in [CommandIDs -> CommandOf]
      /\ cmd[p].location[1] = p
  BY <1>1 DEF QueuesOK, IInv, CopyInPlace, CopyRead
<1>5. /\ table[p] = [cmd[p] EXCEPT !.operation = "WRITE", !.completed = FALSE]
      /\ \A y \in CommandIDs : y # p => table[y] = cmd[y]
      /\ DOMAIN table = CommandIDs
  BY <1>1, <1>4
<1>6. /\ table[p].operation = "WRITE" /\ ~table[p].completed
      /\ table[p].lpn = cmd[p].lpn /\ table[p].bitMap = cmd[p].bitMap
      /\ table[p].location = cmd[p].location
      /\ table[p] \in CommandOf
  <2> DEFINE w == [cmd[p] EXCEPT !.operation = "WRITE", !.completed = FALSE]
  <2>1. /\ w \in CommandOf /\ w.operation = "WRITE" /\ ~w.completed
        /\ w.lpn = cmd[p].lpn /\ w.bitMap = cmd[p].bitMap /\ w.location = cmd[p].location
    BY <1>4, ChangedCommands DEF CommandOf
  <2> HIDE DEF w
  <2> QED BY <1>5, <2>1 DEF w
<1> HIDE DEF table
<1>7. /\ Busy(c, "PROGRAM", p) /\ allocate_location_in_plane(p)
      /\ cmd' = [table EXCEPT ![p].location = Frontier(p)]
      /\ UNCHANGED <<map, pageInfos>>
  BY <1>3, <1>4, <1>6 DEF Send
<1>8. /\ cmd'[p].operation = "WRITE" /\ ~cmd'[p].completed
      /\ cmd'[p].location = Frontier(p)
      /\ cmd'[p].lpn = cmd[p].lpn /\ cmd'[p].bitMap = cmd[p].bitMap
      /\ \A y \in CommandIDs : y # p => cmd'[y] = cmd[y]
  <2> DEFINE s == [table[p] EXCEPT !.location = Frontier(p)]
  <2>1. Frontier(p) \in Locations
    BY <1>1, <1>7, FrontierExists
  <2>2. /\ s.operation = table[p].operation /\ s.completed = table[p].completed
        /\ s.lpn = table[p].lpn /\ s.bitMap = table[p].bitMap /\ s.location = Frontier(p)
    BY <1>6, <2>1, ChangedCommands
  <2>3. cmd'[p] = s /\ \A y \in CommandIDs : y # p => cmd'[y] = cmd[y]
    BY <1>1, <1>5, <1>7
  <2> HIDE DEF s
  <2> QED BY <1>6, <2>2, <2>3
<1> QED BY <1>1, <1>2, <1>7, <1>8 DEF StartsProgram, erasing, p

LEMMA SendHostWriteStarts ==
  ASSUME IInv, ~spinning, NEW c \in Chips, chipState[c] = "IDLE",
         NEW lpn \in HostLPNs, NEW bitMap \in SUBSET SubPages,
         SendHostWrite(c, lpn, bitMap)
  PROVE  /\ NoEraseStep(c)
         /\ cmd'[c].lpn = lpn /\ cmd'[c].bitMap = bitMap
         /\ allocate_location_for_plane(lpn) \in PlanesOf(c)
         /\ StartsProgram(c, c, allocate_location_for_plane(lpn))
<1> DEFINE plane == allocate_location_for_plane(lpn)
           write == [operation |-> "WRITE", completed |-> FALSE, lpn |-> lpn,
                     bitMap |-> bitMap, location |-> <<plane, 0, 0>>]
           table == [cmd EXCEPT ![c] = write]
<1>1. /\ ChipOf(plane) = c /\ NoEraseStep(c)
      /\ Enqueue(c, table, c)
      /\ UNCHANGED <<erasing, incompletedR, toCheck>>
  BY DEF SendHostWrite
<1>2. QueuesOK /\ c \in CommandIDs
  BY TypeParts DEF IInv, CommandIDs
<1>3. Send(c, table, c)
  BY <1>1, EnqueueSends
<1>4. plane \in Planes
  BY FlashAssumption, PageNumbers, PlaneOfLPN
<1> HIDE DEF plane
<1>5. /\ write.operation = "WRITE" /\ ~write.completed
      /\ write.lpn = lpn /\ write.bitMap = bitMap
      /\ write.location = <<plane, 0, 0>>
      /\ write.location[1] = plane
  OBVIOUS
<1>6. write \in CommandOf
  <2>1. <<plane, 0, 0>> \in Locations /\ lpn \in LPNs
    BY <1>4, Sizes, FlashAssumption DEF Locations, BlockNos, PageNos
  <2> QED BY <2>1 DEF CommandOf
<1> HIDE DEF write
<1>7. /\ table[c] = write
      /\ \A y \in CommandIDs : y # c => table[y] = cmd[y]
      /\ DOMAIN table = CommandIDs
  BY <1>2 DEF QueuesOK
<1> HIDE DEF table
<1>8. /\ Busy(c, "PROGRAM", c) /\ allocate_location_in_plane(plane)
      /\ cmd' = [table EXCEPT ![c].location = Frontier(plane)]
      /\ UNCHANGED <<map, pageInfos>>
  BY <1>3, <1>5, <1>7 DEF Send
<1>9. /\ cmd'[c] = [write EXCEPT !.location = Frontier(plane)]
      /\ \A y \in CommandIDs : y # c => cmd'[y] = cmd[y]
  BY <1>2, <1>7, <1>8
<1>10. /\ cmd'[c].operation = "WRITE" /\ ~cmd'[c].completed
       /\ cmd'[c].lpn = lpn /\ cmd'[c].bitMap = bitMap
       /\ cmd'[c].location = Frontier(plane)
  <2> DEFINE s == [write EXCEPT !.location = Frontier(plane)]
  <2>1. Frontier(plane) \in Locations
    BY <1>4, <1>8, FrontierExists
  <2>2. /\ s.operation = write.operation
        /\ s.completed = write.completed
        /\ s.lpn = write.lpn /\ s.bitMap = write.bitMap
        /\ s.location = Frontier(plane)
    BY <1>6, <2>1, ChangedCommands
  <2>3. cmd'[c] = s
    BY <1>9
  <2> HIDE DEF s
  <2> QED BY <1>5, <2>2, <2>3
<1>11. plane \in PlanesOf(c)
  BY <1>1, <1>4 DEF PlanesOf
<1>12. /\ Busy(c, "PROGRAM", c) /\ allocate_location_in_plane(plane)
       /\ UNCHANGED <<map, pageInfos, incompletedR, eraseUsed, eraseBlock, eraseCommands,
                      EPage, toCheck>>
  BY <1>1, <1>8 DEF erasing
<1>13. StartsProgram(c, c, plane)
  BY <1>9, <1>10, <1>12 DEF StartsProgram
<1> QED BY <1>1, <1>10, <1>11, <1>13 DEF plane

LEMMA HostWriteStarts ==
  ASSUME IInv, ~spinning, NEW c \in Chips, chipState[c] = "IDLE", DispatchHostWrite(c)
  PROVE  /\ NoEraseStep(c)
         /\ cmd'[c].lpn \in HostLPNs /\ cmd'[c].bitMap # {}
         /\ allocate_location_for_plane(cmd'[c].lpn) \in PlanesOf(c)
         /\ StartsProgram(c, c, allocate_location_for_plane(cmd'[c].lpn))
<1>1. PICK lpn \in HostLPNs, bitMap \in SUBSET SubPages :
        bitMap # {} /\ SendHostWrite(c, lpn, bitMap)
  BY DEF DispatchHostWrite
<1> QED BY <1>1, SendHostWriteStarts

LEMMA CopyReadStarts ==
  ASSUME IInv, NEW c \in Chips, chipState[c] = "IDLE", DispatchCopyRead(c)
  PROVE  LET p == Collected(c)
             from == <<p, eraseBlock[p], EPage'[p]>>
         IN /\ p \in PlanesOf(c) /\ EraseIsNext(c) /\ LooksForPage(p)
            /\ Busy(c, "READ_ADDR", p)
            /\ EPage'[p] \in LivePages(p) /\ \A e \in LivePages(p) : EPage'[p] <= e
            /\ \A q \in Planes : q # p => EPage'[q] = EPage[q]
            /\ cmd'[p] = [operation |-> "READ", completed |-> FALSE,
                          lpn |-> pageInfos[from].lpn, bitMap |-> pageInfos[from].state,
                          location |-> from]
            /\ \A y \in CommandIDs : y # p => cmd'[y] = cmd[y]
            /\ UNCHANGED <<tables, spinning, incompletedR, eraseUsed, eraseBlock,
                           eraseCommands, toCheck>>
<1> DEFINE p == Collected(c)
           loc(e) == <<p, eraseBlock[p], e>>
           copy(e) == [operation |-> "READ", completed |-> FALSE,
                       lpn |-> pageInfos[loc(e)].lpn, bitMap |-> pageInfos[loc(e)].state,
                       location |-> loc(e)]
           table(e) == [cmd EXCEPT ![p] = copy(e)]
<1>1. /\ QueuesOK /\ p \in PlanesOf(c) /\ p \in CommandIDs /\ p \in Planes
      /\ EraseIsNext(c) /\ LooksForPage(p)
      /\ UNCHANGED <<eraseUsed, eraseBlock, eraseCommands, incompletedR, toCheck>>
  BY TypeParts, CollectedOnChip DEF IInv, DispatchCopyRead, PlanesOf
<1>2. PICK e \in LivePages(p) : /\ \A o \in LivePages(p) : e <= o
                                /\ EPage' = [EPage EXCEPT ![p] = e]
                                /\ Enqueue(c, table(e), p)
  BY DEF DispatchCopyRead
<1>3. Send(c, table(e), p)
  BY <1>2, EnqueueSends
<1> HIDE DEF p
<1>4. EPage'[p] = e /\ \A q \in Planes : q # p => EPage'[q] = EPage[q]
  BY <1>1, <1>2 DEF QueuesOK
<1>5. copy(e).operation = "READ"
  OBVIOUS
<1> HIDE DEF copy
<1>6. table(e)[p] = copy(e) /\ \A y \in CommandIDs : y # p => table(e)[y] = cmd[y]
  BY <1>1 DEF QueuesOK
<1> HIDE DEF table
<1>7. Busy(c, "READ_ADDR", p) /\ cmd' = table(e) /\ UNCHANGED <<tables, spinning>>
  BY <1>3, <1>5, <1>6 DEF Send
<1>8. cmd'[p] = copy(e) /\ \A y \in CommandIDs : y # p => cmd'[y] = cmd[y]
  BY <1>6, <1>7
<1>9. cmd'[p] = [operation |-> "READ", completed |-> FALSE,
                 lpn |-> pageInfos[loc(EPage'[p])].lpn,
                 bitMap |-> pageInfos[loc(EPage'[p])].state,
                 location |-> loc(EPage'[p])]
  BY <1>4, <1>8 DEF copy
<1> QED BY <1>1, <1>2, <1>4, <1>7, <1>8, <1>9 DEF p

\* One write is started at a time, and a thread hangs only in doing so.
LEMMA SpinningStarts ==
  ASSUME IInv, ~spinning, Next, spinning'
  PROVE  \E plane \in Planes : allocate_location_in_plane(plane)
<1>1. PICK c \in Chips : Dispatch(c) \/ Complete(c) \/ check_and_create_gc(c)
  BY DEF Next
<1>2. chipState[c] = "IDLE" /\ (DispatchCopyWrite(c) \/ DispatchHostWrite(c))
  <2>1. ~Complete(c) /\ ~check_and_create_gc(c)
    BY DEF Complete, CompleteProgram, CompleteReadAddr, CompleteReadData, CompleteErase,
           check_and_create_gc
  <2>2. ~DispatchReadData(c) /\ ~DispatchErase(c)
    BY DEF DispatchReadData, DispatchErase
  <2>3. chipState[c] = "IDLE" => ~DispatchCopyRead(c)
    BY CopyReadStarts
  <2> QED BY <1>1, <2>1, <2>2, <2>3 DEF Dispatch, DispatchPending
<1>3. CASE DispatchCopyWrite(c)
  BY <1>2, <1>3, CopyWriteStarts DEF StartsProgram, PlanesOf
<1>4. CASE DispatchHostWrite(c)
  BY <1>2, <1>4, HostWriteStarts DEF StartsProgram, PlanesOf
<1> QED BY <1>2, <1>3, <1>4

(* The only way the search of allocate_location_in_plane can run for ever   *)
(* is that its plane is full to the last page: nothing is hidden from it.   *)
THEOREM SpinsOnlyWithoutRoom == Spec => []SpinsOnlyWhenFull
<1>1. Init => SpinsOnlyWhenFull
  BY DEF Init, SpinsOnlyWhenFull
<1>2. ASSUME IInv, SpinsOnlyWhenFull, [Next]_vars
      PROVE  SpinsOnlyWhenFull'
  <2>1. CASE UNCHANGED vars
    BY <1>2, <2>1 DEF vars, tables, SpinsOnlyWhenFull
  <2>2. CASE Next /\ spinning'
    <3>1. ~spinning
      BY <2>2 DEF Next
    <3>2. PICK plane \in Planes : allocate_location_in_plane(plane)
      BY <1>2, <2>2, <3>1, SpinningStarts
    <3>3. TablesOK /\ BlocksInOrder /\ FreeIsUnwritten
      BY <1>2, TypeParts, WriteFrontierParts DEF IInv
    <3>4. \A b \in BlockNos : blockInfos'[<<plane, b>>].freePageCount = 0
      BY <2>2, <3>1, <3>2, <3>3, SpinsInFullPlane
    <3> QED BY <3>4 DEF SpinsOnlyWhenFull
  <2> QED BY <1>2, <2>1, <2>2 DEF SpinsOnlyWhenFull
<1> QED BY <1>1, <1>2, Invariance, PTL DEF Spec

-----------------------------------------------------------------------------
(* The census of the blocks.                                               *)

\* There are finitely many pages: they have different numbers.
LEMMA CensusFinite ==
  ASSUME NEW b \in Blocks
  PROVE  IsFiniteSet(Census(b)) /\ IsFiniteSet(Census(b)')
<1> DEFINE number == [loc \in Locations |-> get_PPN_From_Detail(loc)]
<1>1. number \in [Locations -> PPNs]
  BY LocationRoundTrip
<1>2. ASSUME NEW l \in Locations, NEW m \in Locations, number[l] = number[m]
      PROVE  l = m
  BY <1>2, LocationRoundTrip
<1>3. number \in Injection(Locations, PPNs)
  BY <1>1, <1>2 DEF Injection, IsInjective
<1>4. IsFiniteSet(PPNs)
  BY FS_Interval, Sizes DEF PPNs
<1>5. IsFiniteSet(Locations)
  BY <1>3, <1>4, FS_Injection
<1>6. Census(b) \subseteq Locations /\ Census(b)' \subseteq Locations
  BY DEF Census, PagesOf
<1> QED BY <1>5, <1>6, FS_Subset

\* What a chip does not touch of another: its page being programmed.
LEMMA OthersProgram ==
  ASSUME IInv, NEW c \in Chips, NEW x \in {c} \cup PlanesOf(c),
         \A d \in Chips : d # c => chipState'[d] = chipState[d] /\ inflight'[d] = inflight[d],
         \A y \in CommandIDs : y # x => cmd'[y] = cmd[y],
         NEW d \in Chips, d # c
  PROVE  Programmed(d)' = Programmed(d)
<1>1. inflight[d] \in {d} \cup PlanesOf(d) /\ inflight[d] \in CommandIDs
  BY TypeParts DEF IInv, OnOwnChip, OwnChip, QueuesOK
<1>2. inflight[d] # x
  BY <1>1, ChipsAndPlanes DEF PlanesOf
<1> QED BY <1>1, <1>2 DEF Programmed

\* A page is counted valid from the moment its program is sent.
LEMMA AllocateCounts ==
  ASSUME TablesOK, NEW plane \in Planes, allocate_location_in_plane(plane)
  PROVE  LET block == <<plane, activeBlock[plane]>>
         IN /\ block \in Blocks
            /\ blockInfos'[block] =
                 [freePageCount    |-> blockInfos[block].freePageCount - 1,
                  validPageCount   |-> blockInfos[block].validPageCount + 1,
                  invalidPageCount |-> blockInfos[block].invalidPageCount,
                  startWrite       |-> blockInfos[block].startWrite + 1]
            /\ \A b \in Blocks : b # block => blockInfos'[b] = blockInfos[b]
            /\ \A q \in Planes : q # plane => activeBlock'[q] = activeBlock[q]
            /\ \/ activeBlock'[plane] = activeBlock[plane]
               \/ blockInfos'[<<plane, activeBlock'[plane]>>].freePageCount = pageOfBlock
<1> DEFINE block == <<plane, activeBlock[plane]>>
           infos == [blockInfos EXCEPT
                       ![block].freePageCount  = @ - 1,
                       ![block].validPageCount = @ + 1,
                       ![block].startWrite     = @ + 1]
<1>1. block \in Blocks
  BY DEF TablesOK, Blocks
<1>2. blockInfos' = infos
  BY DEF allocate_location_in_plane
<1>3. /\ infos[block] = [freePageCount    |-> blockInfos[block].freePageCount - 1,
                         validPageCount   |-> blockInfos[block].validPageCount + 1,
                         invalidPageCount |-> blockInfos[block].invalidPageCount,
                         startWrite       |-> blockInfos[block].startWrite + 1]
      /\ \A b \in Blocks : b # block => infos[b] = blockInfos[b]
  <2> HIDE DEF block
  <2>1. blockInfos[block] \in BlockInfo
    BY <1>1 DEF TablesOK
  <2> QED BY <1>1, <2>1 DEF TablesOK, BlockInfo
<1>4. /\ \A q \in Planes : q # plane => activeBlock'[q] = activeBlock[q]
      /\ \/ activeBlock'[plane] = activeBlock[plane]
         \/ infos[<<plane, activeBlock'[plane]>>].freePageCount = pageOfBlock
  <2> HIDE DEF infos
  <2>1. \/ activeBlock' = activeBlock
        \/ \E n \in BlockNos : /\ NextFree(plane, infos, n)
                               /\ activeBlock' = [activeBlock EXCEPT ![plane] = n]
    BY DEF allocate_location_in_plane, infos
  <2>2. ASSUME NEW n \in BlockNos, NextFree(plane, infos, n),
               activeBlock' = [activeBlock EXCEPT ![plane] = n]
        PROVE  /\ \A q \in Planes : q # plane => activeBlock'[q] = activeBlock[q]
               /\ infos[<<plane, activeBlock'[plane]>>].freePageCount = pageOfBlock
    <3>1. infos[<<plane, n>>].freePageCount = pageOfBlock
      BY <2>2 DEF NextFree
    <3> QED BY <2>2, <3>1 DEF TablesOK
  <2> QED BY <2>1, <2>2
<1> QED BY <1>1, <1>2, <1>3, <1>4

LEMMA ProgramKeepsData ==
  ASSUME IInv, DataOK, ~spinning, NEW c \in Chips, chipState[c] = "IDLE",
         NEW x \in {c} \cup PlanesOf(c), NEW plane \in PlanesOf(c),
         StartsProgram(c, x, plane)
  PROVE  /\ DataOK' /\ pageInfos[Frontier(plane)].state = {}
         /\ chipState'[c] = "PROGRAM" /\ inflight'[c] = x
<1> DEFINE block == <<plane, activeBlock[plane]>>
           loc == Frontier(plane)
<1>1. /\ TablesOK /\ QueuesOK /\ PagesBelow /\ plane \in Planes /\ ChipOf(plane) = c
      /\ allocate_location_in_plane(plane)
  BY TypeParts, WriteFrontierParts DEF IInv, StartsProgram, PlanesOf
<1>2. loc \in Locations /\ loc[1] = plane
  BY <1>1, FrontierExists
<1>3. /\ block \in Blocks
      /\ blockInfos'[block] =
           [freePageCount    |-> blockInfos[block].freePageCount - 1,
            validPageCount   |-> blockInfos[block].validPageCount + 1,
            invalidPageCount |-> blockInfos[block].invalidPageCount,
            startWrite       |-> blockInfos[block].startWrite + 1]
      /\ \A b \in Blocks : b # block => blockInfos'[b] = blockInfos[b]
  BY <1>1, AllocateCounts
<1>4. /\ chipState'[c] = "PROGRAM" /\ inflight'[c] = x /\ cmd'[x].location = loc
      /\ \A d \in Chips : d # c => chipState'[d] = chipState[d] /\ inflight'[d] = inflight[d]
      /\ map' = map /\ pageInfos' = pageInfos
      /\ \A y \in CommandIDs : y # x => cmd'[y] = cmd[y]
  BY <1>1 DEF StartsProgram, Busy, QueuesOK
<1>5. /\ \A d \in Chips : d # c => Programmed(d)' = Programmed(d)
      /\ Programmed(c)' = {loc} /\ Programmed(c) = {}
  <2>1. \A d \in Chips : d # c => Programmed(d)' = Programmed(d)
    BY <1>4, OthersProgram
  <2> QED BY <1>4, <2>1 DEF Programmed
<1>6. /\ loc[2] = block[2] /\ loc[3] = blockInfos[block].startWrite
      /\ blockInfos[block].startWrite \in Int
  BY <1>1, <1>3 DEF Frontier, TablesOK, BlockInfo
<1>7. loc[1] = block[1] /\ <<loc[1], loc[2]>> = block
  BY <1>2, <1>6
<1>8. pageInfos[loc].state = {}
  <2>1. ~(loc[3] < blockInfos[block].startWrite)
    BY <1>6
  <2> QED BY <1>1, <1>2, <1>7, <2>1 DEF PagesBelow
<1> HIDE DEF loc, block
<1>9. MapNamesPage' /\ LiveIsMapped'
  BY <1>4 DEF DataOK, MapNamesPage, LiveIsMapped
<1>. PICK B \in Blocks : B = block
  BY <1>3
<1>10. ASSUME NEW b \in Blocks, b # B PROVE Census(b)' = Census(b)
  <2>1. ChipOf(b[1]) \in Chips /\ b = <<b[1], b[2]>>
    BY ChipsAndPlanes DEF Blocks
  <2>2. loc \notin PagesOf(b[1], b[2])
    BY <1>7, <1>10, <2>1 DEF PagesOf
  <2>3. \A m \in PagesOf(b[1], b[2]) :
          m \in Programmed(ChipOf(b[1]))' <=> m \in Programmed(ChipOf(b[1]))
    BY <1>5, <2>1, <2>2
  <2> QED BY <1>4, <2>3 DEF Census
<1>11. Census(B)' = Census(B) \cup {loc} /\ loc \notin Census(B)
  <2>1. ChipOf(B[1]) = c /\ loc \in PagesOf(B[1], B[2])
    BY <1>1, <1>2, <1>7 DEF PagesOf
  <2> QED BY <1>4, <1>5, <1>8, <2>1 DEF Census
<1>12. Cardinality(Census(B)') = Cardinality(Census(B)) + 1
  BY <1>11, CensusFinite, FS_AddElement
<1>13. BlocksAgree'
  <2> SUFFICES ASSUME NEW b \in Blocks
               PROVE  /\ blockInfos'[b].freePageCount = pageOfBlock - blockInfos'[b].startWrite
                      /\ blockInfos'[b].invalidPageCount =
                           blockInfos'[b].startWrite - blockInfos'[b].validPageCount
                      /\ blockInfos'[b].validPageCount = Cardinality(Census(b)')
    BY DEF BlocksAgree
  <2>1. /\ blockInfos[b].freePageCount = pageOfBlock - blockInfos[b].startWrite
        /\ blockInfos[b].invalidPageCount =
             blockInfos[b].startWrite - blockInfos[b].validPageCount
        /\ blockInfos[b].validPageCount = Cardinality(Census(b))
    BY DEF DataOK, BlocksAgree
  <2>2. CASE b # B
    BY <1>3, <1>10, <2>1, <2>2
  <2>3. CASE b = B
    <3>1. blockInfos[block] \in BlockInfo /\ pageOfBlock \in Int
      BY <1>1, <1>3, Sizes DEF TablesOK
    <3> QED BY <1>3, <1>12, <2>1, <2>3, <3>1 DEF BlockInfo
  <2> QED BY <2>2, <2>3
<1> QED BY <1>4, <1>8, <1>9, <1>13 DEF DataOK, loc

-----------------------------------------------------------------------------
(* The end of a program.                                                   *)

\* The page a map entry names is found again from its number.
LEMMA NamedPage ==
  ASSUME NoneRefused, MapNamesPage, NEW lpn \in HostLPNs, map[lpn].subPage # {},
         NEW old \in get_PPN_Detail(map[lpn].ppn)
  PROVE  /\ old \in Locations /\ map[lpn].ppn = get_PPN_From_Detail(old)
         /\ pageInfos[old] = [state |-> map[lpn].subPage, lpn |-> lpn]
<1>1. PICK loc \in Locations :
        /\ map[lpn].ppn = get_PPN_From_Detail(loc)
        /\ pageInfos[loc] = [state |-> map[lpn].subPage, lpn |-> lpn]
  BY DEF MapNamesPage
<1>2. old = Coordinates(map[lpn].ppn)
  BY DEF NoneRefused, get_PPN_Detail
<1>3. old = loc
  BY <1>1, <1>2, LocationRoundTrip
<1> QED BY <1>1, <1>3

\* The write that ends is noted in the map and at its page; the page that
\* held the logical page before, if there is one, is invalidated.
Invalidates(sub, old) ==
  /\ old # sub.location /\ pageInfos[old].state # {} /\ pageInfos[old].lpn = sub.lpn
  /\ pageInfos'[old].state = {}
  /\ blockInfos'[<<old[1], old[2]>>] =
       [blockInfos[<<old[1], old[2]>>] EXCEPT !.validPageCount   = @ - 1,
                                              !.invalidPageCount = @ + 1]
  /\ \A b \in Blocks : b # <<old[1], old[2]>> => blockInfos'[b] = blockInfos[b]
  /\ \A loc \in Locations \ {sub.location, old} : pageInfos'[loc] = pageInfos[loc]

LEMMA UpdateNotes ==
  ASSUME TablesOK, NoneRefused, DataOK, NEW sub \in CommandOf, sub.lpn \in HostLPNs,
         pageInfos[sub.location].state = {}, update_Map_and_invilate_page(sub)
  PROVE  /\ map'[sub.lpn] = [subPage |-> sub.bitMap,
                             ppn     |-> get_PPN_From_Detail(sub.location)]
         /\ \A lpn \in HostLPNs : lpn # sub.lpn => map'[lpn] = map[lpn]
         /\ pageInfos'[sub.location] = [state |-> sub.bitMap, lpn |-> sub.lpn]
         /\ \/ /\ map[sub.lpn].subPage = {}
               /\ blockInfos' = blockInfos
               /\ \A loc \in Locations \ {sub.location} : pageInfos'[loc] = pageInfos[loc]
            \/ \E old \in Locations : Invalidates(sub, old)
<1> DEFINE pages == [pageInfos EXCEPT
                       ![sub.location] = [state |-> sub.bitMap, lpn |-> sub.lpn]]
<1>1. sub.location \in Locations
  BY DEF CommandOf
<1>2. /\ map'[sub.lpn] = [subPage |-> sub.bitMap,
                          ppn     |-> get_PPN_From_Detail(sub.location)]
      /\ \A lpn \in HostLPNs : lpn # sub.lpn => map'[lpn] = map[lpn]
  BY DEF update_Map_and_invilate_page, TablesOK
<1>3. /\ pages[sub.location] = [state |-> sub.bitMap, lpn |-> sub.lpn]
      /\ \A loc \in Locations \ {sub.location} : pages[loc] = pageInfos[loc]
      /\ DOMAIN pages = Locations
  BY <1>1 DEF TablesOK
<1>4. \/ /\ map[sub.lpn].subPage = {} /\ pageInfos' = pages /\ blockInfos' = blockInfos
      \/ /\ map[sub.lpn].subPage # {}
         /\ \E old \in get_PPN_Detail(map[sub.lpn].ppn) : invilate_page(old, pages)
  <2>1. CASE map[sub.lpn].subPage = {}
    BY <2>1 DEF update_Map_and_invilate_page
  <2>2. CASE map[sub.lpn].subPage # {}
    <3>1. map[sub.lpn].ppn \in LPNs
      BY <2>2 DEF NoneRefused
    <3> QED BY <2>2, <3>1 DEF update_Map_and_invilate_page
  <2> QED BY <2>1, <2>2
<1> HIDE DEF pages
<1>5. CASE map[sub.lpn].subPage = {} /\ pageInfos' = pages /\ blockInfos' = blockInfos
  BY <1>2, <1>3, <1>5
<1>6. ASSUME map[sub.lpn].subPage # {},
             NEW old \in get_PPN_Detail(map[sub.lpn].ppn), invilate_page(old, pages)
      PROVE  /\ pageInfos'[sub.location] = [state |-> sub.bitMap, lpn |-> sub.lpn]
             /\ old \in Locations /\ Invalidates(sub, old)
  <2>1. /\ old \in Locations
        /\ pageInfos[old] = [state |-> map[sub.lpn].subPage, lpn |-> sub.lpn]
    BY <1>6, NamedPage DEF DataOK
  <2>2. old # sub.location /\ pageInfos[old].state # {} /\ pageInfos[old].lpn = sub.lpn
    BY <1>6, <2>1
  <2>3. pageInfos' = [pages EXCEPT ![old].state = {}]
    BY <1>6 DEF invilate_page
  <2>4. pages[old] = pageInfos[old] /\ pageInfos[old] \in [state : SUBSET SubPages, lpn : LPNs]
    BY <1>3, <2>1, <2>2 DEF TablesOK
  <2>5. /\ pageInfos'[old].state = {}
        /\ \A loc \in Locations : loc # old => pageInfos'[loc] = pages[loc]
    BY <1>3, <2>1, <2>3, <2>4
  <2>6. /\ pageInfos'[sub.location] = [state |-> sub.bitMap, lpn |-> sub.lpn]
        /\ \A loc \in Locations \ {sub.location, old} : pageInfos'[loc] = pageInfos[loc]
    BY <1>1, <1>3, <2>2, <2>5
  <2> DEFINE B == <<old[1], old[2]>>
  <2>7. B \in Blocks
    BY <2>1 DEF Locations, Blocks
  <2>8. blockInfos' = [blockInfos EXCEPT ![B].validPageCount   = @ - 1,
                                         ![B].invalidPageCount = @ + 1]
    BY <1>6 DEF invilate_page
  <2>9. /\ blockInfos'[B] = [blockInfos[B] EXCEPT !.validPageCount   = @ - 1,
                                                  !.invalidPageCount = @ + 1]
        /\ \A b \in Blocks : b # B => blockInfos'[b] = blockInfos[b]
    <3> HIDE DEF B
    <3> QED BY <2>7, <2>8 DEF TablesOK
  <2> QED BY <2>1, <2>2, <2>5, <2>6, <2>9 DEF Invalidates
<1> QED BY <1>2, <1>4, <1>5, <1>6

LEMMA UpdateKeepsData ==
  ASSUME TablesOK, TablesOK', NoneRefused, DataOK, NEW c \in Chips,
         NEW sub \in CommandOf, sub.lpn \in HostLPNs, sub.bitMap # {},
         sub.location[1] \in PlanesOf(c),
         sub.location[1] = allocate_location_for_plane(sub.lpn),
         pageInfos[sub.location].state = {}, update_Map_and_invilate_page(sub),
         Programmed(c) = {sub.location}, Programmed(c)' = {},
         \A d \in Chips : d # c => Programmed(d)' = Programmed(d)
  PROVE  DataOK'
<1> DEFINE new == sub.location
<1>1. new \in Locations /\ <<new[1], new[2]>> \in Blocks
  BY DEF CommandOf, Locations, Blocks
<1>2. /\ map'[sub.lpn] = [subPage |-> sub.bitMap, ppn |-> get_PPN_From_Detail(new)]
      /\ \A lpn \in HostLPNs : lpn # sub.lpn => map'[lpn] = map[lpn]
      /\ pageInfos'[new] = [state |-> sub.bitMap, lpn |-> sub.lpn]
      /\ \/ /\ map[sub.lpn].subPage = {}
            /\ blockInfos' = blockInfos
            /\ \A loc \in Locations \ {new} : pageInfos'[loc] = pageInfos[loc]
         \/ \E old \in Locations : Invalidates(sub, old)
  BY UpdateNotes
<1>3. \* The page that stays as it was is one of another logical page.
      ASSUME NEW loc \in Locations \ {new}
      PROVE  \/ pageInfos'[loc].state = {}
             \/ pageInfos'[loc] = pageInfos[loc] /\ pageInfos[loc].lpn # sub.lpn
  <2>1. SUFFICES ASSUME pageInfos'[loc].state # {}
                 PROVE  pageInfos'[loc] = pageInfos[loc] /\ pageInfos[loc].lpn # sub.lpn
    OBVIOUS
  <2>2. pageInfos'[loc] = pageInfos[loc]
    BY <1>2, <2>1 DEF Invalidates
  <2>3. ASSUME pageInfos[loc].lpn = sub.lpn PROVE FALSE
    <3>1. map[sub.lpn] = [subPage |-> pageInfos[loc].state,
                          ppn     |-> get_PPN_From_Detail(loc)]
      BY <2>1, <2>2, <2>3 DEF DataOK, LiveIsMapped
    <3>2. map[sub.lpn].subPage # {}
      BY <2>1, <2>2, <3>1
    <3>3. PICK old \in Locations : Invalidates(sub, old)
      BY <1>2, <3>2
    <3>4. map[sub.lpn] = [subPage |-> pageInfos[old].state,
                          ppn     |-> get_PPN_From_Detail(old)]
      BY <3>3 DEF Invalidates, DataOK, LiveIsMapped
    <3>5. old = loc
      <4>1. get_PPN_From_Detail(old) = get_PPN_From_Detail(loc)
        BY <3>1, <3>4
      <4> QED BY <4>1, LocationRoundTrip
    <3> QED BY <2>1, <3>3, <3>5 DEF Invalidates
  <2> QED BY <2>2, <2>3
<1>4. MapNamesPage'
  <2> SUFFICES ASSUME NEW lpn \in HostLPNs, map'[lpn].subPage # {}
               PROVE  \E loc \in Locations :
                        /\ map'[lpn].ppn = get_PPN_From_Detail(loc)
                        /\ pageInfos'[loc] = [state |-> map'[lpn].subPage, lpn |-> lpn]
    BY DEF MapNamesPage
  <2>1. CASE lpn = sub.lpn
    BY <1>1, <1>2, <2>1
  <2>2. CASE lpn # sub.lpn
    <3>1. map'[lpn] = map[lpn]
      BY <1>2, <2>2
    <3>2. PICK loc \in Locations :
            /\ map[lpn].ppn = get_PPN_From_Detail(loc)
            /\ pageInfos[loc] = [state |-> map[lpn].subPage, lpn |-> lpn]
      BY <3>1 DEF DataOK, MapNamesPage
    <3>3. pageInfos[loc].state # {} /\ pageInfos[loc].lpn = lpn
      BY <3>1, <3>2
    <3>4. pageInfos'[loc] = pageInfos[loc]
      BY <1>2, <2>2, <3>3 DEF Invalidates
    <3> QED BY <3>1, <3>2, <3>4
  <2> QED BY <2>1, <2>2
<1>5. LiveIsMapped'
  <2> SUFFICES ASSUME NEW loc \in Locations, pageInfos'[loc].state # {}
               PROVE  /\ pageInfos'[loc].lpn \in HostLPNs
                      /\ allocate_location_for_plane(pageInfos'[loc].lpn) = loc[1]
                      /\ map'[pageInfos'[loc].lpn] =
                           [subPage |-> pageInfos'[loc].state,
                            ppn     |-> get_PPN_From_Detail(loc)]
    BY DEF LiveIsMapped
  <2>1. CASE loc = new
    BY <1>2, <2>1
  <2>2. CASE loc # new
    <3>1. pageInfos'[loc] = pageInfos[loc] /\ pageInfos[loc].lpn # sub.lpn
      BY <1>3, <2>2
    <3> QED BY <1>2, <3>1 DEF DataOK, LiveIsMapped
  <2> QED BY <2>1, <2>2
<1>6. ASSUME NEW b \in Blocks, NEW loc \in PagesOf(b[1], b[2])
      PROVE  /\ loc \in Census(b)' <=>
                  \/ pageInfos'[loc].state # {}
                  \/ ChipOf(b[1]) # c /\ loc \in Programmed(ChipOf(b[1]))
             /\ loc \in Census(b) <=>
                  \/ pageInfos[loc].state # {} \/ loc = new
                  \/ ChipOf(b[1]) # c /\ loc \in Programmed(ChipOf(b[1]))
  <2>1. ChipOf(b[1]) \in Chips /\ loc[1] = b[1]
    BY ChipsAndPlanes DEF PagesOf, Blocks
  <2>2. ChipOf(b[1]) # c => loc # new
    BY <2>1 DEF PlanesOf
  <2>3. /\ loc \in Census(b)' <=>
             pageInfos'[loc].state # {} \/ loc \in Programmed(ChipOf(b[1]))'
        /\ loc \in Census(b) <=>
             pageInfos[loc].state # {} \/ loc \in Programmed(ChipOf(b[1]))
    BY DEF Census, PagesOf
  <2> QED BY <2>1, <2>2, <2>3
<1>7. /\ pageInfos'[new].state # {}
      /\ \A b \in Blocks : /\ Census(b) \subseteq PagesOf(b[1], b[2])
                          /\ Census(b)' \subseteq PagesOf(b[1], b[2])
                          /\ PagesOf(b[1], b[2]) \subseteq Locations
  BY <1>2 DEF Census, PagesOf
<1>8. CASE /\ blockInfos' = blockInfos
           /\ \A loc \in Locations \ {new} : pageInfos'[loc] = pageInfos[loc]
  <2>1. ASSUME NEW b \in Blocks PROVE Census(b)' = Census(b)
    <3>1. \A loc \in PagesOf(b[1], b[2]) : loc \in Census(b)' <=> loc \in Census(b)
      BY <1>6, <1>7, <1>8
    <3> QED BY <1>7, <3>1
  <2>2. BlocksAgree'
    BY <1>8, <2>1 DEF DataOK, BlocksAgree
  <2> QED BY <1>4, <1>5, <2>2 DEF DataOK
<1>9. ASSUME NEW old \in Locations, Invalidates(sub, old)
      PROVE  DataOK'
  <2> DEFINE B == <<old[1], old[2]>>
  <2>1. B \in Blocks /\ old \in PagesOf(B[1], B[2]) /\ ChipOf(B[1]) = c
    <3>1. old[1] = new[1]
      BY <1>9 DEF Invalidates, DataOK, LiveIsMapped
    <3> QED BY <3>1 DEF Locations, Blocks, PagesOf, PlanesOf
  <2>2. /\ blockInfos'[B] = [blockInfos[B] EXCEPT !.validPageCount   = @ - 1,
                                                  !.invalidPageCount = @ + 1]
        /\ \A b \in Blocks : b # B => blockInfos'[b] = blockInfos[b]
    BY <1>9 DEF Invalidates
  <2>3. \A b \in Blocks : b # B => old \notin PagesOf(b[1], b[2])
    BY DEF Blocks, PagesOf
  <2> HIDE DEF B
  <2>4. ASSUME NEW b \in Blocks, b # B PROVE Census(b)' = Census(b)
    <3>1. ASSUME NEW loc \in PagesOf(b[1], b[2])
          PROVE  loc \in Census(b)' <=> loc \in Census(b)
      <4>1. loc \in Locations /\ loc # old
        BY <1>7, <2>3, <2>4
      <4>2. loc # new => pageInfos'[loc] = pageInfos[loc]
        BY <1>9, <4>1 DEF Invalidates
      <4> QED BY <1>6, <1>7, <4>2
    <3> QED BY <1>7, <3>1
  <2>5. Census(B)' = Census(B) \ {old} /\ old \in Census(B)
    <3>1. ASSUME NEW loc \in PagesOf(B[1], B[2])
          PROVE  loc \in Census(B)' <=> loc \in Census(B) /\ loc # old
      <4>1. loc # new /\ loc # old => pageInfos'[loc] = pageInfos[loc]
        BY <1>7, <1>9, <2>1 DEF Invalidates
      <4>2. pageInfos'[old].state = {} /\ old # new
        BY <1>9 DEF Invalidates
      <4> QED BY <1>6, <1>7, <2>1, <4>1, <4>2
    <3>2. old \in Census(B)
      BY <1>6, <1>9, <2>1 DEF Invalidates
    <3> QED BY <1>7, <2>1, <3>1, <3>2
  <2>6. Cardinality(Census(B)') = Cardinality(Census(B)) - 1
    BY <2>1, <2>5, CensusFinite, FS_RemoveElement
  <2>7. BlocksAgree'
    <3> SUFFICES ASSUME NEW b \in Blocks
                 PROVE  /\ blockInfos'[b].freePageCount = pageOfBlock - blockInfos'[b].startWrite
                        /\ blockInfos'[b].invalidPageCount =
                             blockInfos'[b].startWrite - blockInfos'[b].validPageCount
                        /\ blockInfos'[b].validPageCount = Cardinality(Census(b)')
      BY DEF BlocksAgree
    <3>1. /\ blockInfos[b].freePageCount = pageOfBlock - blockInfos[b].startWrite
          /\ blockInfos[b].invalidPageCount =
               blockInfos[b].startWrite - blockInfos[b].validPageCount
          /\ blockInfos[b].validPageCount = Cardinality(Census(b))
      BY DEF DataOK, BlocksAgree
    <3>2. CASE b # B
      BY <2>2, <2>4, <3>1, <3>2
    <3>3. CASE b = B
      <4>1. blockInfos[B] \in BlockInfo /\ pageOfBlock \in Int
        BY <2>1, Sizes DEF TablesOK
      <4>2. /\ blockInfos'[B].freePageCount = blockInfos[B].freePageCount
            /\ blockInfos'[B].startWrite = blockInfos[B].startWrite
            /\ blockInfos'[B].validPageCount = blockInfos[B].validPageCount - 1
            /\ blockInfos'[B].invalidPageCount = blockInfos[B].invalidPageCount + 1
        BY <2>2, <4>1 DEF BlockInfo
      <4> QED BY <2>6, <3>1, <3>3, <4>1, <4>2 DEF BlockInfo
    <3> QED BY <3>2, <3>3
  <2> QED BY <1>4, <1>5, <2>7 DEF DataOK
<1> QED BY <1>2, <1>8, <1>9

-----------------------------------------------------------------------------
(* The other steps and the tables.                                         *)

LEMMA DataKept ==
  ASSUME DataOK, UNCHANGED tables,
         \A d \in Chips : Programmed(d)' = Programmed(d)
  PROVE  DataOK'
<1>1. MapNamesPage' /\ LiveIsMapped'
  BY DEF tables, DataOK, MapNamesPage, LiveIsMapped
<1>2. ASSUME NEW b \in Blocks PROVE Census(b)' = Census(b)
  <2>1. ChipOf(b[1]) \in Chips
    BY ChipsAndPlanes DEF Blocks
  <2>2. Programmed(ChipOf(b[1]))' = Programmed(ChipOf(b[1]))
    BY <2>1
  <2> QED BY <2>2 DEF Census, tables
<1>3. BlocksAgree'
  BY <1>2 DEF tables, DataOK, BlocksAgree
<1> QED BY <1>1, <1>3 DEF DataOK

\* The erasure of a blank block changes its counters, and nothing else.
LEMMA EraseKeepsData ==
  ASSUME TablesOK, DataOK, NEW p \in Planes, NEW n \in BlockNos, erase_block(p, n),
         UNCHANGED map, \A loc \in PagesOf(p, n) : pageInfos[loc].state = {},
         \A d \in Chips : Programmed(d)' = Programmed(d),
         Programmed(ChipOf(p)) = {}
  PROVE  /\ DataOK' /\ pageInfos' = pageInfos
         /\ \A b \in Blocks : b # <<p, n>> => blockInfos'[b] = blockInfos[b]
<1> DEFINE B == <<p, n>>
<1>1. B \in Blocks
  BY DEF Blocks
<1>2. \A b \in Blocks : b # B => blockInfos'[b] = blockInfos[b]
  BY DEF erase_block, TablesOK
<1>3. blockInfos'[B] = [freePageCount |-> pageOfBlock, validPageCount |-> 0,
                        invalidPageCount |-> 0, startWrite |-> 0]
  BY <1>1 DEF erase_block, TablesOK
<1>4. pageInfos' = pageInfos
  <2> DEFINE pages == [loc \in Locations |->
                         IF loc[1] = p /\ loc[2] = n
                         THEN [pageInfos[loc] EXCEPT !.state = {}]
                         ELSE pageInfos[loc]]
  <2>1. pageInfos' = pages
    BY DEF erase_block
  <2>2. ASSUME NEW loc \in Locations PROVE pages[loc] = pageInfos[loc]
    <3>1. loc[1] = p /\ loc[2] = n => pageInfos[loc].state = {}
      BY DEF PagesOf
    <3>2. pageInfos[loc] \in [state : SUBSET SubPages, lpn : LPNs]
      BY DEF TablesOK
    <3> QED BY <3>1, <3>2
  <2>3. DOMAIN pageInfos = Locations /\ pageInfos = [loc \in Locations |-> pageInfos[loc]]
    BY DEF TablesOK
  <2> QED BY <2>1, <2>2, <2>3
<1>5. MapNamesPage' /\ LiveIsMapped'
  BY <1>4 DEF DataOK, MapNamesPage, LiveIsMapped
<1>6. ASSUME NEW b \in Blocks PROVE Census(b)' = Census(b)
  <2>1. ChipOf(b[1]) \in Chips
    BY ChipsAndPlanes DEF Blocks
  <2>2. Programmed(ChipOf(b[1]))' = Programmed(ChipOf(b[1]))
    BY <2>1
  <2> QED BY <1>4, <2>2 DEF Census
<1>7. Cardinality(Census(B)) = 0
  <2>1. Census(B) = {}
    BY DEF Census
  <2> QED BY <2>1, FS_EmptySet
<1>8. BlocksAgree'
  <2> SUFFICES ASSUME NEW b \in Blocks
               PROVE  /\ blockInfos'[b].freePageCount = pageOfBlock - blockInfos'[b].startWrite
                      /\ blockInfos'[b].invalidPageCount =
                           blockInfos'[b].startWrite - blockInfos'[b].validPageCount
                      /\ blockInfos'[b].validPageCount = Cardinality(Census(b)')
    BY DEF BlocksAgree
  <2>1. CASE b = B
    BY <1>3, <1>6, <1>7, <2>1, Sizes
  <2>2. CASE b # B
    BY <1>2, <1>6, <2>2 DEF DataOK, BlocksAgree
  <2> QED BY <2>1, <2>2
<1> QED BY <1>2, <1>4, <1>5, <1>8 DEF DataOK

-----------------------------------------------------------------------------
(* A step of one chip leaves the others as they were.                      *)

OnlyChip(c) ==
  /\ \A d \in Chips : d # c =>
       /\ chipState'[d] = chipState[d] /\ inflight'[d] = inflight[d]
       /\ incompletedR'[d] = incompletedR[d] /\ eraseCommands'[d] = eraseCommands[d]
  /\ \A y \in CommandIDs : y \notin {c} \cup PlanesOf(c) => cmd'[y] = cmd[y]
  /\ \A p \in Planes \ PlanesOf(c) :
       /\ eraseUsed'[p] = eraseUsed[p] /\ eraseBlock'[p] = eraseBlock[p]
       /\ EPage'[p] = EPage[p] /\ activeBlock'[p] = activeBlock[p]
       /\ \A n \in BlockNos : blockInfos'[<<p, n>>] = blockInfos[<<p, n>>]
  /\ \A loc \in Locations : loc[1] \notin PlanesOf(c) => pageInfos'[loc] = pageInfos[loc]

LEMMA OthersKept ==
  ASSUME IInv, NEW c \in Chips, OnlyChip(c), NEW d \in Chips, d # c, ChipOK(d)
  PROVE  ChipOK(d)'
<1>1. /\ QueuesOK /\ inflight[d] \in {d} \cup PlanesOf(d) /\ inflight[d] \in CommandIDs
      /\ d \in CommandIDs
  BY TypeParts DEF IInv, OnOwnChip, OwnChip, QueuesOK, CommandIDs
<1>2. \A p \in PlanesOf(d) : p \in Planes \ PlanesOf(c) /\ p \in CommandIDs
  BY DEF PlanesOf, CommandIDs
<1>3. \A y \in {d} \cup PlanesOf(d) : y \in CommandIDs /\ y \notin {c} \cup PlanesOf(c)
  BY <1>1, <1>2, ChipsAndPlanes DEF PlanesOf
<1>4. /\ chipState'[d] = chipState[d] /\ inflight'[d] = inflight[d]
      /\ incompletedR'[d] = incompletedR[d] /\ eraseCommands'[d] = eraseCommands[d]
      /\ \A y \in {d} \cup PlanesOf(d) : cmd'[y] = cmd[y]
  BY <1>3 DEF OnlyChip
<1>5. \A p \in PlanesOf(d) :
        /\ eraseUsed'[p] = eraseUsed[p] /\ eraseBlock'[p] = eraseBlock[p]
        /\ EPage'[p] = EPage[p] /\ activeBlock'[p] = activeBlock[p]
        /\ blockInfos'[<<p, eraseBlock[p]>>] = blockInfos[<<p, eraseBlock[p]>>]
        /\ eraseBlock[p] \in BlockNos
  BY <1>1, <1>2 DEF OnlyChip, QueuesOK
<1>6. \A loc \in Locations : loc[1] \in PlanesOf(d) => pageInfos'[loc] = pageInfos[loc]
  BY <1>2 DEF OnlyChip
<1>7. WriteOK(d)'
  <2>1. ASSUME chipState[d] = "PROGRAM"
        PROVE  pageInfos'[cmd[inflight[d]].location] = pageInfos[cmd[inflight[d]].location]
    <3>1. cmd[inflight[d]].location \in Locations /\ cmd[inflight[d]].location[1] \in PlanesOf(d)
      BY <1>1, <2>1 DEF QueuesOK, CommandOf, IInv, OnOwnChip, OwnChip, PlanesOf, Locations
    <3> QED BY <1>6, <3>1
  <2>2. ASSUME inflight[d] # d PROVE eraseBlock'[inflight[d]] = eraseBlock[inflight[d]]
    BY <1>1, <1>5, <2>2
  <2>3. \A p \in PlanesOf(d) : eraseUsed'[p] = eraseUsed[p] /\ EPage'[p] = EPage[p]
    BY <1>5
  <2>4. WriteOK(d)
    BY DEF ChipOK
  <2> QED BY <1>1, <1>4, <2>1, <2>2, <2>3, <2>4 DEF WriteOK
<1>8. ReadOK(d)'
  <2>1. cmd'[inflight'[d]] = cmd[inflight[d]]
    BY <1>1, <1>4
  <2>2. ReadOK(d)
    BY DEF ChipOK
  <2> QED BY <1>4, <2>1, <2>2 DEF ReadOK
<1>11. QueueOK(d)'
  <2>1. eraseCommands'[d] = eraseCommands[d]
    BY <1>4
  <2>2. \A p \in PlanesOf(d) : eraseUsed'[p] = eraseUsed[p]
    BY <1>5
  <2>3. QueueOK(d)
    BY DEF ChipOK
  <2> QED BY <2>1, <2>2, <2>3 DEF QueueOK
<1>9. EraseOK(d)'
  <2> SUFFICES ASSUME chipState[d] = "ERASE"
               PROVE  LET p == inflight[d]
                      IN /\ cmd'[p].operation = "NONE" /\ AllInvalid(p)'
                         /\ \A loc \in PagesOf(p, eraseBlock[p]) : pageInfos'[loc].state = {}
    <3>1. inflight[d] \in PlanesOf(d) \/ chipState[d] # "ERASE"
      BY <1>1 DEF IInv, QueuesMatchChip, OnOwnChip, OwnChip
    <3> QED BY <1>4, <1>5, <3>1 DEF EraseOK
  <2> DEFINE p == inflight[d]
  <2>1. p \in PlanesOf(d)
    BY DEF IInv, QueuesMatchChip, OnOwnChip, OwnChip
  <2>2. /\ cmd[p].operation = "NONE" /\ AllInvalid(p)
        /\ \A loc \in PagesOf(p, eraseBlock[p]) : pageInfos[loc].state = {}
    BY DEF ChipOK, EraseOK
  <2>3. AllInvalid(p)'
    BY <1>4, <1>5, <2>1, <2>2 DEF AllInvalid
  <2>4. \A loc \in PagesOf(p, eraseBlock[p]) : pageInfos'[loc].state = {}
    BY <1>6, <2>1, <2>2 DEF PagesOf
  <2> QED BY <1>4, <2>1, <2>2, <2>3, <2>4
<1>10. ASSUME NEW p \in PlanesOf(d)
       PROVE  VictimOK(p)' /\ PhaseOK(d, p)' /\ CopyOK(p)'
  <2>1. VictimOK(p) /\ PhaseOK(d, p) /\ CopyOK(p)
    BY DEF ChipOK
  <2>2. \A loc \in PagesOf(p, eraseBlock[p]) : pageInfos'[loc] = pageInfos[loc]
    BY <1>6 DEF PagesOf
  <2>3. VictimOK(p)'
    BY <1>5, <2>1, <2>2 DEF VictimOK
  <2>4. PhaseOK(d, p)'
    BY <1>4, <2>1 DEF PhaseOK
  <2>5. EPage[p] \in PageNos =>
          pageInfos'[<<p, eraseBlock[p], EPage[p]>>] = pageInfos[<<p, eraseBlock[p], EPage[p]>>]
    BY <1>2, <1>5, <1>6 DEF Locations
  <2>6. CopyOK(p)'
    BY <1>4, <1>5, <2>1, <2>5 DEF CopyOK, CopyUnderWay, CopyRead
  <2> QED BY <2>3, <2>4, <2>6
<1> QED BY <1>7, <1>8, <1>9, <1>10, <1>11 DEF ChipOK

-----------------------------------------------------------------------------
(* The steps.                                                              *)

LEMMA StepKeepsCInv ==
  ASSUME IInv, CInv, NEW c \in Chips, OnlyChip(c), DataOK', ChipOK(c)'
  PROVE  CInv'
<1>1. ASSUME NEW d \in Chips PROVE ChipOK(d)'
  <2>1. CASE d = c
    BY <2>1
  <2>2. CASE d # c
    BY <2>2, OthersKept DEF CInv
  <2> QED BY <2>1, <2>2
<1> QED BY <1>1 DEF CInv

LEMMA DispatchReadDataKeepsCInv ==
  ASSUME IInv, CInv, NEW c \in Chips, chipState[c] = "IDLE", DispatchReadData(c)
  PROVE  CInv'
<1>1. QueuesOK /\ ChipOK(c) /\ DataOK
  BY TypeParts DEF IInv, CInv
<1>2. incompletedR[c] = <<inflight[c]>>
  BY DEF IInv, QueuesMatchChip, DispatchReadData
<1>3. /\ chipState' = [chipState EXCEPT ![c] = "READ_DATA"] /\ inflight' = inflight
      /\ UNCHANGED <<map, pageInfos, blockInfos, counts, activeBlock, eraseUsed, eraseBlock,
                     eraseCommands, EPage, incompletedR, cmd>>
  BY <1>1, <1>2 DEF DispatchReadData, Busy, QueuesOK, tables, erasing, queues
<1>4. /\ chipState'[c] = "READ_DATA"
      /\ \A d \in Chips : d # c => chipState'[d] = chipState[d]
  BY <1>1, <1>3 DEF QueuesOK
<1>5. OnlyChip(c)
  BY <1>3, <1>4 DEF OnlyChip
<1>6. DataOK'
  <2>1. \A d \in Chips : Programmed(d)' = Programmed(d)
    BY <1>3, <1>4 DEF Programmed
  <2> QED BY <1>1, <1>3, <2>1, DataKept DEF tables
<1>7. WriteOK(c)' /\ EraseOK(c)'
  BY <1>4 DEF WriteOK, EraseOK
<1>8. ReadOK(c)'
  BY <1>1, <1>2, <1>3, <1>4 DEF ChipOK, ReadOK
<1>9. QueueOK(c)'
  <2>1. QueueOK(c)
    BY <1>1 DEF ChipOK
  <2> QED BY <1>3, <2>1 DEF QueueOK
<1>10. ASSUME NEW p \in PlanesOf(c) PROVE VictimOK(p)' /\ PhaseOK(c, p)' /\ CopyOK(p)'
  <2>1. VictimOK(p) /\ PhaseOK(c, p) /\ CopyOK(p)
    BY <1>1 DEF ChipOK
  <2>2. VictimOK(p)'
    BY <1>3, <2>1 DEF VictimOK
  <2>3. CopyOK(p)'
    BY <1>3, <2>1 DEF CopyOK, CopyUnderWay, CopyRead
  <2>4. incompletedR[c] # <<>> /\ (incompletedR[c] = <<p>> => inflight[c] = p)
    BY <1>2
  <2>5. PhaseOK(c, p)'
    BY <1>3, <1>4, <2>1, <2>4 DEF PhaseOK
  <2> QED BY <2>2, <2>3, <2>5
<1> QED BY <1>5, <1>6, <1>7, <1>8, <1>9, <1>10, StepKeepsCInv DEF ChipOK

LEMMA CompleteReadAddrKeepsCInv ==
  ASSUME IInv, CInv, NEW c \in Chips, CompleteReadAddr(c)
  PROVE  CInv'
<1> DEFINE x == inflight[c]
<1>1. QueuesOK /\ ChipOK(c) /\ DataOK
  BY TypeParts DEF IInv, CInv
<1>2. chipState[c] = "READ_ADDR" /\ incompletedR[c] = <<>>
  BY DEF IInv, QueuesMatchChip, CompleteReadAddr
<1>3. /\ incompletedR' = [incompletedR EXCEPT ![c] = <<x>>]
      /\ chipState' = [chipState EXCEPT ![c] = "IDLE"]
      /\ UNCHANGED <<map, pageInfos, blockInfos, counts, activeBlock, eraseUsed, eraseBlock,
                     eraseCommands, EPage, inflight, cmd>>
  <2>1. Append(incompletedR[c], x) = <<x>>
    BY <1>2
  <2> QED BY <2>1 DEF CompleteReadAddr, Idle, tables, erasing
<1>4. /\ chipState'[c] = "IDLE" /\ incompletedR'[c] = <<x>>
      /\ \A d \in Chips : d # c =>
           chipState'[d] = chipState[d] /\ incompletedR'[d] = incompletedR[d]
  BY <1>1, <1>3 DEF QueuesOK
<1>5. OnlyChip(c)
  BY <1>3, <1>4 DEF OnlyChip
<1>6. DataOK'
  <2>1. \A d \in Chips : Programmed(d)' = Programmed(d)
    BY <1>2, <1>3, <1>4 DEF Programmed
  <2> QED BY <1>1, <1>3, <2>1, DataKept DEF tables
<1>7. WriteOK(c)' /\ EraseOK(c)'
  BY <1>4 DEF WriteOK, EraseOK
<1>8. ReadOK(c)'
  BY <1>1, <1>2, <1>3 DEF ChipOK, ReadOK
<1>9. QueueOK(c)'
  <2>1. QueueOK(c)
    BY <1>1 DEF ChipOK
  <2> QED BY <1>3, <2>1 DEF QueueOK
<1>10. ASSUME NEW p \in PlanesOf(c) PROVE VictimOK(p)' /\ PhaseOK(c, p)' /\ CopyOK(p)'
  <2>1. VictimOK(p) /\ PhaseOK(c, p) /\ CopyOK(p)
    BY <1>1 DEF ChipOK
  <2>2. VictimOK(p)'
    BY <1>3, <2>1 DEF VictimOK
  <2>3. CopyOK(p)'
    BY <1>3, <2>1 DEF CopyOK, CopyUnderWay, CopyRead
  <2>4. x = p => incompletedR'[c] = <<p>>
    BY <1>4
  <2> HIDE DEF x
  <2>5. PhaseOK(c, p)'
    BY <1>2, <1>3, <1>4, <2>1, <2>4 DEF PhaseOK, x
  <2> QED BY <2>2, <2>3, <2>5
<1> QED BY <1>5, <1>6, <1>7, <1>8, <1>9, <1>10, StepKeepsCInv DEF ChipOK

LEMMA CompleteReadDataKeepsCInv ==
  ASSUME IInv, CInv, NEW c \in Chips, CompleteReadData(c)
  PROVE  CInv'
<1> DEFINE x == inflight[c]
<1>1. QueuesOK /\ ChipOK(c) /\ DataOK
  BY TypeParts DEF IInv, CInv
<1>2. chipState[c] = "READ_DATA" /\ incompletedR[c] = <<x>>
  BY DEF IInv, QueuesMatchChip, CompleteReadData
<1>3. /\ incompletedR' = [incompletedR EXCEPT ![c] = <<>>]
      /\ cmd' = [cmd EXCEPT ![x].completed = TRUE]
      /\ chipState' = [chipState EXCEPT ![c] = "IDLE"]
      /\ UNCHANGED <<map, pageInfos, blockInfos, counts, activeBlock, eraseUsed, eraseBlock,
                     eraseCommands, EPage, inflight>>
  <2>1. get_end_CMD(incompletedR[c], x) = <<>>
    BY <1>2, EndLeavesNothing
  <2> QED BY <2>1 DEF CompleteReadData, Idle, tables, erasing
<1>4. /\ chipState'[c] = "IDLE" /\ incompletedR'[c] = <<>>
      /\ \A d \in Chips : d # c =>
           chipState'[d] = chipState[d] /\ incompletedR'[d] = incompletedR[d]
  BY <1>1, <1>3 DEF QueuesOK
<1>5. x \in PlanesOf(c) /\ cmd[x].operation = "READ" /\ ~cmd[x].completed
      /\ x \in CommandIDs
  BY <1>1, <1>2 DEF ChipOK, ReadOK, QueuesOK
<1>6. /\ cmd'[x].operation = "READ" /\ cmd'[x].completed
      /\ cmd'[x].lpn = cmd[x].lpn /\ cmd'[x].bitMap = cmd[x].bitMap
      /\ \A y \in CommandIDs : y # x => cmd'[y] = cmd[y]
  <2>1. cmd[x] \in CommandOf
    BY <1>1, <1>5 DEF QueuesOK
  <2> HIDE DEF x
  <2> QED BY <1>1, <1>3, <1>5, <2>1 DEF QueuesOK, CommandOf
<1>7. OnlyChip(c)
  BY <1>3, <1>4, <1>5, <1>6 DEF OnlyChip
<1>8. DataOK'
  <2>1. \A d \in Chips : d # c => Programmed(d)' = Programmed(d)
    BY <1>3, <1>4, <1>5, <1>6, OthersProgram
  <2>2. Programmed(c)' = {} /\ Programmed(c) = {}
    BY <1>2, <1>4 DEF Programmed
  <2> QED BY <1>1, <1>3, <2>1, <2>2, DataKept DEF tables
<1>9. WriteOK(c)' /\ EraseOK(c)' /\ ReadOK(c)'
  BY <1>4 DEF WriteOK, EraseOK, ReadOK
<1>10. QueueOK(c)'
  <2>1. QueueOK(c)
    BY <1>1 DEF ChipOK
  <2> QED BY <1>3, <2>1 DEF QueueOK
<1>11. ASSUME NEW p \in PlanesOf(c) PROVE VictimOK(p)' /\ PhaseOK(c, p)' /\ CopyOK(p)'
  <2>1. VictimOK(p) /\ PhaseOK(c, p) /\ CopyOK(p) /\ p \in CommandIDs
    BY <1>1 DEF ChipOK, PlanesOf, CommandIDs
  <2>2. VictimOK(p)'
    BY <1>3, <2>1 DEF VictimOK
  <2>3. CopyUnderWay(p) \/ CopyRead(p) => p = x
    <3>1. cmd[p].operation \in {"NONE", "READ", "WRITE"} /\ cmd[p].completed \in BOOLEAN
      BY <1>1, <2>1 DEF QueuesOK, CommandOf
    <3> QED BY <1>2, <2>1, <3>1 DEF PhaseOK, CopyUnderWay, CopyRead
  <2> HIDE DEF x
  <2>4. CASE p = x
    <3>1. CopyOK(p)'
      BY <1>3, <1>5, <1>6, <2>1, <2>4 DEF CopyOK, CopyUnderWay
    <3>2. PhaseOK(c, p)'
      BY <1>3, <1>4, <1>5, <1>6, <2>1, <2>4 DEF PhaseOK
    <3> QED BY <2>2, <3>1, <3>2
  <2>5. CASE p # x
    <3>1. cmd'[p] = cmd[p]
      BY <1>6, <2>1, <2>5
    <3>2. CopyOK(p)'
      BY <1>3, <2>1, <3>1 DEF CopyOK, CopyUnderWay, CopyRead
    <3>3. cmd[p].operation = "NONE"
      BY <1>2, <2>1, <2>3, <2>5 DEF PhaseOK, CopyUnderWay, CopyRead
    <3>4. PhaseOK(c, p)'
      BY <3>1, <3>3 DEF PhaseOK
    <3> QED BY <2>2, <3>2, <3>4
  <2> QED BY <2>4, <2>5
<1> QED BY <1>7, <1>8, <1>9, <1>10, <1>11, StepKeepsCInv DEF ChipOK

\* On an idle chip with no read pending, only the erase at the head of the
\* list has a copy, and that copy has just been read or written.
LEMMA IdleChip ==
  ASSUME IInv, CInv, NEW c \in Chips, chipState[c] = "IDLE", incompletedR[c] = <<>>,
         NEW p \in PlanesOf(c), cmd[p].operation # "NONE"
  PROVE  cmd[p].completed /\ eraseCommands[c] # <<>> /\ p = Collected(c)
<1>1. p \in CommandIDs /\ QueuesOK
  BY TypeParts DEF PlanesOf, CommandIDs, IInv
<1>2. cmd[p].operation \in {"NONE", "READ", "WRITE"}
  BY <1>1 DEF QueuesOK, CommandOf
<1>3. PhaseOK(c, p)
  BY DEF CInv, ChipOK
<1>4. incompletedR[c] # <<p>>
  OBVIOUS
<1> QED BY <1>2, <1>3, <1>4 DEF PhaseOK, Collected

\* The erase at the head of the list has its plane's eraseLocation.
LEMMA HeadIsUsed ==
  ASSUME IInv, CInv, NEW c \in Chips, eraseCommands[c] # <<>>
  PROVE  /\ Collected(c) \in PlanesOf(c) /\ eraseUsed[Collected(c)]
         /\ Collected(c) = eraseCommands[c][1] /\ Len(eraseCommands[c]) >= 1
<1>1. eraseCommands[c] \in Seq(PlanesOf(c))
  BY DEF IInv, OnOwnChip, OwnChip
<1>2. /\ Collected(c) = eraseCommands[c][1] /\ Collected(c) \in PlanesOf(c)
      /\ 1 \in 1..Len(eraseCommands[c]) /\ Len(eraseCommands[c]) >= 1
  BY <1>1 DEF Collected
<1>3. QueueOK(c)
  BY DEF CInv, ChipOK
<1> QED BY <1>2, <1>3 DEF QueueOK

LEMMA DispatchCopyReadKeepsCInv ==
  ASSUME IInv, CInv, NEW c \in Chips, chipState[c] = "IDLE", DispatchCopyRead(c)
  PROVE  CInv'
<1>a. Collected(c) \in PlanesOf(c)
  BY CopyReadStarts
<1> PICK p \in PlanesOf(c) : p = Collected(c)
  BY <1>a
<1>b. EPage'[p] \in LivePages(p)
  BY CopyReadStarts
<1> PICK e \in LivePages(p) : e = EPage'[p]
  BY <1>b
<1> DEFINE from == <<p, eraseBlock[p], e>>
<1>1. /\ QueuesOK /\ TablesOK /\ ChipOK(c) /\ DataOK
      /\ EraseIsNext(c) /\ incompletedR[c] = <<>> /\ eraseCommands[c] # <<>>
      /\ p \in Planes /\ p \in CommandIDs
  BY TypeParts, CopyReadStarts DEF IInv, CInv, EraseIsNext, PlanesOf, CommandIDs
<1>2. /\ Busy(c, "READ_ADDR", p)
      /\ \A o \in LivePages(p) : e <= o
      /\ \A q \in Planes : q # p => EPage'[q] = EPage[q]
      /\ cmd'[p] = [operation |-> "READ", completed |-> FALSE,
                    lpn |-> pageInfos[from].lpn, bitMap |-> pageInfos[from].state,
                    location |-> from]
      /\ \A y \in CommandIDs : y # p => cmd'[y] = cmd[y]
      /\ UNCHANGED <<map, pageInfos, blockInfos, counts, activeBlock, incompletedR,
                     eraseUsed, eraseBlock, eraseCommands>>
  BY CopyReadStarts DEF tables
<1>3. /\ chipState'[c] = "READ_ADDR" /\ inflight'[c] = p
      /\ \A d \in Chips : d # c => chipState'[d] = chipState[d] /\ inflight'[d] = inflight[d]
  BY <1>1, <1>2 DEF Busy, QueuesOK
<1>4. /\ cmd'[p].operation = "READ" /\ ~cmd'[p].completed
      /\ cmd'[p].lpn = pageInfos[from].lpn /\ cmd'[p].bitMap = pageInfos[from].state
  BY <1>2
<1>5. e \in PageNos /\ e >= EPage[p] /\ pageInfos[from].state # {} /\ from \in Locations
  BY <1>1, <1>2 DEF LivePages, HasData, QueuesOK, Locations
<1>6. OnlyChip(c)
  BY <1>1, <1>2, <1>3 DEF OnlyChip, PlanesOf
<1>7. DataOK'
  <2>1. \A d \in Chips : d # c => Programmed(d)' = Programmed(d)
    BY <1>1, <1>2, <1>3, OthersProgram
  <2>2. Programmed(c)' = {} /\ Programmed(c) = {}
    BY <1>3 DEF Programmed
  <2> QED BY <1>1, <1>2, <2>1, <2>2, DataKept DEF tables
<1>8. WriteOK(c)' /\ EraseOK(c)'
  BY <1>3 DEF WriteOK, EraseOK
<1>9. ReadOK(c)'
  BY <1>1, <1>3, <1>4 DEF ReadOK
<1>10. QueueOK(c)'
  <2>1. QueueOK(c)
    BY <1>1 DEF ChipOK
  <2> QED BY <1>2, <2>1 DEF QueueOK
<1>11. VictimOK(p)' /\ PhaseOK(c, p)' /\ CopyOK(p)'
  <2>1. VictimOK(p)
    BY <1>1 DEF ChipOK
  <2>2. ASSUME eraseUsed[p], NEW loc \in PagesOf(p, eraseBlock[p]), loc[3] < e
        PROVE  pageInfos[loc].state = {}
    <3>1. CASE loc[3] < EPage[p]
      BY <2>1, <2>2, <3>1 DEF VictimOK
    <3>2. CASE ~(loc[3] < EPage[p])
      <4>1. loc[3] \in PageNos /\ loc = <<p, eraseBlock[p], loc[3]>> /\ EPage[p] \in Int
        BY <1>1 DEF PagesOf, Locations, QueuesOK
      <4>2. loc[3] \notin LivePages(p)
        BY <1>2, <1>5, <2>2, <4>1 DEF PageNos
      <4> QED BY <3>2, <4>1, <4>2 DEF LivePages, HasData, PageNos
    <3> QED BY <3>1, <3>2
  <2>3. VictimOK(p)'
    BY <1>2, <2>1, <2>2 DEF VictimOK
  <2>4. PhaseOK(c, p)'
    BY <1>1, <1>2, <1>3, <1>4 DEF PhaseOK, Collected
  <2>5. pageInfos[from] = [state |-> cmd'[p].bitMap, lpn |-> cmd'[p].lpn]
    BY <1>1, <1>4, <1>5 DEF TablesOK
  <2>6. CopyOK(p)'
    BY <1>2, <1>4, <1>5, <2>5 DEF CopyOK
  <2> QED BY <2>3, <2>4, <2>6
<1>12. ASSUME NEW q \in PlanesOf(c), q # p
       PROVE  VictimOK(q)' /\ PhaseOK(c, q)' /\ CopyOK(q)'
  <2>1. VictimOK(q) /\ q \in Planes /\ q \in CommandIDs
    BY <1>1 DEF ChipOK, PlanesOf, CommandIDs
  <2>2. cmd[q].operation = "NONE"
    BY <1>1, <1>12, IdleChip
  <2>3. cmd'[q] = cmd[q] /\ EPage'[q] = EPage[q]
    BY <1>2, <1>12, <2>1
  <2>4. VictimOK(q)'
    BY <1>2, <2>1, <2>3 DEF VictimOK
  <2> QED BY <2>2, <2>3, <2>4 DEF PhaseOK, CopyOK, CopyUnderWay, CopyRead
<1>13. \A q \in PlanesOf(c) : VictimOK(q)' /\ PhaseOK(c, q)' /\ CopyOK(q)'
  BY <1>11, <1>12
<1> QED BY <1>6, <1>7, <1>8, <1>9, <1>10, <1>13, StepKeepsCInv DEF ChipOK

\* A full block without data has only invalid pages, and the other way round.
LEMMA BlankIsInvalid ==
  ASSUME IInv, DataOK, NEW c \in Chips, Programmed(c) = {}, NEW p \in PlanesOf(c),
         blockInfos[<<p, eraseBlock[p]>>].freePageCount = 0
  PROVE  AllInvalid(p) <=> \A loc \in PagesOf(p, eraseBlock[p]) : pageInfos[loc].state = {}
<1> DEFINE B == <<p, eraseBlock[p]>>
<1>1. B \in Blocks /\ TablesOK
  BY TypeParts DEF IInv, QueuesOK, PlanesOf, Blocks
<1>2. blockInfos[B] \in BlockInfo /\ pageOfBlock \in Int
  BY <1>1, Sizes DEF TablesOK
<1>3. /\ blockInfos[B].freePageCount = pageOfBlock - blockInfos[B].startWrite
      /\ blockInfos[B].invalidPageCount =
           blockInfos[B].startWrite - blockInfos[B].validPageCount
      /\ blockInfos[B].validPageCount = Cardinality(Census(B))
  BY <1>1 DEF DataOK, BlocksAgree
<1>4. AllInvalid(p) <=> blockInfos[B].validPageCount = 0
  BY <1>2, <1>3 DEF AllInvalid, BlockInfo
<1>5. Cardinality(Census(B)) = 0 <=> Census(B) = {}
  BY <1>1, CensusFinite, FS_EmptySet
<1>6. Census(B) = {loc \in PagesOf(p, eraseBlock[p]) : pageInfos[loc].state # {}}
  BY DEF Census, PlanesOf
<1> QED BY <1>3, <1>4, <1>5, <1>6

LEMMA DispatchEraseKeepsCInv ==
  ASSUME IInv, CInv, NEW c \in Chips, chipState[c] = "IDLE", DispatchErase(c)
  PROVE  CInv'
<1>a. EraseIsNext(c) /\ Collected(c) \in PlanesOf(c)
  BY CollectedOnChip DEF DispatchErase
<1> PICK p \in PlanesOf(c) : p = Collected(c)
  BY <1>a
<1>1. /\ QueuesOK /\ TablesOK /\ ChipOK(c) /\ DataOK
      /\ incompletedR[c] = <<>> /\ eraseCommands[c] # <<>> /\ eraseUsed[p]
      /\ p \in Planes /\ p \in CommandIDs
  BY <1>a, TypeParts, HeadIsUsed DEF IInv, CInv, EraseIsNext, PlanesOf, CommandIDs
<1>2. /\ \/ LooksForPage(p) /\ LivePages(p) = {} /\ EPage' = [EPage EXCEPT ![p] = pageOfBlock]
         \/ AllInvalid(p) /\ EPage' = EPage
      /\ cmd' = [cmd EXCEPT ![p] = NoCommand]
      /\ Busy(c, "ERASE", p)
      /\ UNCHANGED <<map, pageInfos, blockInfos, counts, activeBlock, incompletedR,
                     eraseUsed, eraseBlock, eraseCommands>>
  BY DEF DispatchErase, tables, queues
<1>3. /\ chipState'[c] = "ERASE" /\ inflight'[c] = p
      /\ \A d \in Chips : d # c => chipState'[d] = chipState[d] /\ inflight'[d] = inflight[d]
  BY <1>1, <1>2 DEF Busy, QueuesOK
<1>4. /\ cmd'[p].operation = "NONE"
      /\ \A y \in CommandIDs : y # p => cmd'[y] = cmd[y]
      /\ \A q \in Planes : q # p => EPage'[q] = EPage[q]
  BY <1>1, <1>2, FirstValues DEF QueuesOK
<1>5. Programmed(c)' = {} /\ Programmed(c) = {}
  BY <1>3 DEF Programmed
<1>6. VictimOK(p)
  BY <1>1 DEF ChipOK
<1>7. AllInvalid(p) /\ \A loc \in PagesOf(p, eraseBlock[p]) : pageInfos[loc].state = {}
  <2>1. ASSUME LivePages(p) = {}, NEW loc \in PagesOf(p, eraseBlock[p])
        PROVE  pageInfos[loc].state = {}
    <3>1. loc[3] \in PageNos /\ loc = <<p, eraseBlock[p], loc[3]>> /\ EPage[p] \in Int
      BY <1>1 DEF PagesOf, Locations, QueuesOK
    <3>2. CASE loc[3] < EPage[p]
      BY <1>1, <1>6, <3>2 DEF VictimOK
    <3>3. CASE ~(loc[3] < EPage[p])
      BY <2>1, <3>1, <3>3 DEF LivePages, HasData, PageNos
    <3> QED BY <3>2, <3>3
  <2>2. AllInvalid(p) <=> \A loc \in PagesOf(p, eraseBlock[p]) : pageInfos[loc].state = {}
    BY <1>1, <1>5, <1>6, BlankIsInvalid DEF VictimOK
  <2> QED BY <1>2, <2>1, <2>2
<1>8. OnlyChip(c)
  BY <1>1, <1>2, <1>3, <1>4 DEF OnlyChip, PlanesOf
<1>9. DataOK'
  <2>1. \A d \in Chips : d # c => Programmed(d)' = Programmed(d)
    BY <1>3, <1>4, OthersProgram
  <2> QED BY <1>1, <1>2, <1>5, <2>1, DataKept DEF tables
<1>10. WriteOK(c)' /\ ReadOK(c)'
  BY <1>3 DEF WriteOK, ReadOK
<1>11. QueueOK(c)'
  <2>1. QueueOK(c)
    BY <1>1 DEF ChipOK
  <2> QED BY <1>2, <2>1 DEF QueueOK
<1>12. EraseOK(c)'
  <2>1. AllInvalid(p)'
    BY <1>2, <1>7 DEF AllInvalid
  <2> QED BY <1>2, <1>3, <1>4, <1>7, <2>1 DEF EraseOK
<1>13. ASSUME NEW q \in PlanesOf(c)
       PROVE  VictimOK(q)' /\ PhaseOK(c, q)' /\ CopyOK(q)'
  <2>1. VictimOK(q) /\ q \in Planes /\ q \in CommandIDs
    BY <1>1 DEF ChipOK, PlanesOf, CommandIDs
  <2>2. cmd'[q].operation = "NONE"
    <3>1. CASE q = p
      BY <1>4, <3>1
    <3>2. CASE q # p
      <4>1. cmd[q].operation = "NONE"
        BY <1>1, <3>2, IdleChip
      <4> QED BY <1>4, <2>1, <3>2, <4>1
    <3> QED BY <3>1, <3>2
  <2>3. VictimOK(q)'
    <3>1. CASE q = p
      BY <1>2, <1>6, <1>7, <3>1 DEF VictimOK
    <3>2. CASE q # p
      BY <1>2, <1>4, <2>1, <3>2 DEF VictimOK
    <3> QED BY <3>1, <3>2
  <2> QED BY <2>2, <2>3 DEF PhaseOK, CopyOK, CopyUnderWay, CopyRead
<1> QED BY <1>8, <1>9, <1>10, <1>11, <1>12, <1>13, StepKeepsCInv DEF ChipOK

LEMMA CompleteEraseKeepsCInv ==
  ASSUME IInv, CInv, NEW c \in Chips, CompleteErase(c)
  PROVE  CInv'
<1>a. /\ chipState[c] = "ERASE" /\ eraseCommands[c] # <<>> /\ Collected(c) = inflight[c]
      /\ Collected(c) \in PlanesOf(c) /\ incompletedR[c] = <<>>
  BY HeadIsUsed DEF IInv, QueuesMatchChip, CompleteErase, Collected
<1> PICK p \in PlanesOf(c) : p = inflight[c]
  BY <1>a
<1>1. /\ QueuesOK /\ TablesOK /\ ChipOK(c) /\ DataOK
      /\ p \in Planes /\ p \in CommandIDs /\ eraseBlock[p] \in BlockNos
      /\ eraseCommands[c] \in Seq(PlanesOf(c))
      /\ p = eraseCommands[c][1] /\ Len(eraseCommands[c]) >= 1
  BY <1>a, TypeParts, HeadIsUsed
  DEF IInv, OnOwnChip, OwnChip, CInv, QueuesOK, PlanesOf, CommandIDs
<1>2. /\ eraseCommands' = [eraseCommands EXCEPT ![c] = Tail(eraseCommands[c])]
      /\ eraseUsed' = [eraseUsed EXCEPT ![p] = FALSE]
      /\ chipState' = [chipState EXCEPT ![c] = "IDLE"]
      /\ erase_block(p, eraseBlock[p])
      /\ UNCHANGED <<inflight, map, activeBlock, eraseBlock, EPage, incompletedR, cmd>>
  BY <1>a DEF CompleteErase, Idle, get_end_CMD, queues, Collected
<1>3. /\ chipState'[c] = "IDLE" /\ eraseCommands'[c] = Tail(eraseCommands[c])
      /\ \A d \in Chips : d # c =>
           chipState'[d] = chipState[d] /\ eraseCommands'[d] = eraseCommands[d]
      /\ eraseUsed'[p] = FALSE
      /\ \A q \in Planes : q # p => eraseUsed'[q] = eraseUsed[q]
  BY <1>1, <1>2 DEF QueuesOK
<1>4. /\ cmd[p].operation = "NONE"
      /\ \A loc \in PagesOf(p, eraseBlock[p]) : pageInfos[loc].state = {}
  BY <1>a, <1>1 DEF ChipOK, EraseOK
<1>5. \A d \in Chips : Programmed(d)' = Programmed(d)
  BY <1>a, <1>2, <1>3 DEF Programmed
<1>6. /\ DataOK' /\ pageInfos' = pageInfos
      /\ \A b \in Blocks : b # <<p, eraseBlock[p]>> => blockInfos'[b] = blockInfos[b]
  <2>1. Programmed(ChipOf(p)) = {}
    BY <1>a DEF Programmed, PlanesOf
  <2> QED BY <1>1, <1>2, <1>4, <1>5, <2>1, EraseKeepsData
<1>7. OnlyChip(c)
  <2>1. \A q \in Planes \ PlanesOf(c), n \in BlockNos :
          blockInfos'[<<q, n>>] = blockInfos[<<q, n>>]
    BY <1>6 DEF Blocks
  <2> QED BY <1>2, <1>3, <1>6, <2>1 DEF OnlyChip
<1>8. WriteOK(c)' /\ ReadOK(c)' /\ EraseOK(c)'
  BY <1>a, <1>2, <1>3 DEF WriteOK, ReadOK, EraseOK
<1>9. QueueOK(c)'
  <2> DEFINE s == eraseCommands[c]
             t == Tail(s)
  <2>1. /\ s \in Seq(PlanesOf(c)) /\ Len(s) >= 1 /\ s[1] = p /\ QueueOK(c)
    BY <1>1 DEF ChipOK
  <2>2. /\ Len(t) = Len(s) - 1 /\ Len(s) \in Nat
        /\ \A i \in 1..Len(t) : i + 1 \in 1..Len(s) /\ t[i] = s[i + 1]
    BY <2>1
  <2>3. \A i, j \in 1..Len(s) : s[i] = s[j] => i = j
    BY <2>1 DEF QueueOK
  <2>4. \A q \in PlanesOf(c) : eraseUsed[q] <=> \E i \in 1..Len(s) : s[i] = q
    BY <2>1 DEF QueueOK
  <2> HIDE DEF s, t
  <2>5. \A i, j \in 1..Len(t) : t[i] = t[j] => i = j
    BY <2>2, <2>3
  <2>6. ASSUME NEW q \in PlanesOf(c)
        PROVE  eraseUsed'[q] <=> \E i \in 1..Len(t) : t[i] = q
    <3>1. CASE q = p
      <4>1. ASSUME NEW i \in 1..Len(t), t[i] = p PROVE FALSE
        <5>1. i + 1 \in 1..Len(s) /\ 1 \in 1..Len(s) /\ s[i + 1] = s[1]
          BY <2>1, <2>2, <4>1
        <5>2. i + 1 = 1
          BY <2>3, <5>1
        <5> QED BY <5>2
      <4> QED BY <1>3, <3>1, <4>1
    <3>2. CASE q # p
      <4>1. q \in Planes /\ eraseUsed'[q] = eraseUsed[q]
        BY <1>3, <3>2 DEF PlanesOf
      <4>2. ASSUME NEW i \in 1..Len(s), s[i] = q
            PROVE  \E j \in 1..Len(t) : t[j] = q
        <5>1. i # 1
          BY <2>1, <3>2, <4>2
        <5>2. i - 1 \in 1..Len(t) /\ t[i - 1] = s[(i - 1) + 1] /\ (i - 1) + 1 = i
          BY <2>2, <5>1
        <5> QED BY <4>2, <5>2
      <4>3. (\E i \in 1..Len(s) : s[i] = q) <=> (\E j \in 1..Len(t) : t[j] = q)
        BY <2>2, <4>2
      <4> QED BY <2>4, <4>1, <4>3
    <3> QED BY <3>1, <3>2
  <2>7. eraseCommands'[c] = t
    BY <1>3 DEF t, s
  <2> QED BY <2>5, <2>6, <2>7 DEF QueueOK
<1>10. ASSUME NEW q \in PlanesOf(c)
       PROVE  VictimOK(q)' /\ PhaseOK(c, q)' /\ CopyOK(q)'
  <2>1. VictimOK(q) /\ PhaseOK(c, q) /\ q \in Planes
    BY <1>1 DEF ChipOK, PlanesOf
  <2>2. cmd'[q].operation = "NONE"
    BY <1>a, <1>2, <2>1 DEF PhaseOK
  <2>3. VictimOK(q)'
    <3>1. CASE q = p
      BY <1>3, <3>1 DEF VictimOK
    <3>2. CASE q # p
      <4>1. /\ <<q, eraseBlock[q]>> \in Blocks /\ <<q, eraseBlock[q]>> # <<p, eraseBlock[p]>>
        BY <1>1, <2>1, <3>2 DEF QueuesOK, Blocks
      <4>2. /\ blockInfos'[<<q, eraseBlock[q]>>] = blockInfos[<<q, eraseBlock[q]>>]
            /\ eraseUsed'[q] = eraseUsed[q]
        BY <1>3, <1>6, <2>1, <3>2, <4>1
      <4> QED BY <1>2, <1>6, <2>1, <4>2 DEF VictimOK
    <3> QED BY <3>1, <3>2
  <2> QED BY <2>2, <2>3 DEF PhaseOK, CopyOK, CopyUnderWay, CopyRead
<1> QED BY <1>6, <1>7, <1>8, <1>9, <1>10, StepKeepsCInv DEF ChipOK

\* A block is taken for erasure: it is full, and so not the active one.
LEMMA CheckAndCreateGCKeepsCInv ==
  ASSUME IInv, CInv, ~spinning, NEW c \in Chips, check_and_create_gc(c)
  PROVE  CInv'
<1>1. /\ QueuesOK /\ TablesOK /\ ChipOK(c) /\ DataOK /\ toCheck[c] \subseteq PlanesOf(c)
      /\ eraseCommands[c] \in Seq(PlanesOf(c)) /\ BlocksInOrder /\ FreeIsUnwritten
  BY TypeParts, WriteFrontierParts DEF IInv, OnOwnChip, OwnChip, CInv
<1>2. UNCHANGED <<map, pageInfos, blockInfos, counts, activeBlock, incompletedR,
                  chipState, inflight, cmd>>
  BY DEF check_and_create_gc, tables, queues
<1>3. DataOK'
  BY <1>1, <1>2, DataKept DEF Programmed, tables
<1>4. CASE UNCHANGED erasing
  <2>1. OnlyChip(c)
    BY <1>2, <1>4 DEF OnlyChip, erasing
  <2>2. ChipOK(c)'
    <3>1. UNCHANGED <<eraseUsed, eraseBlock, eraseCommands, EPage>>
      BY <1>4 DEF erasing
    <3>2. WriteOK(c)' /\ ReadOK(c)' /\ EraseOK(c)'
      BY <1>1, <1>2, <3>1 DEF ChipOK, WriteOK, ReadOK, EraseOK, AllInvalid
    <3>3. QueueOK(c)'
      BY <1>1, <3>1 DEF ChipOK, QueueOK
    <3>4. \A p \in PlanesOf(c) : VictimOK(p)' /\ PhaseOK(c, p)' /\ CopyOK(p)'
      BY <1>1, <1>2, <3>1
      DEF ChipOK, VictimOK, PhaseOK, CopyOK, CopyUnderWay, CopyRead
    <3> QED BY <3>2, <3>3, <3>4 DEF ChipOK
  <2> QED BY <1>3, <2>1, <2>2, StepKeepsCInv
<1>5. ASSUME NEW p \in toCheck[c], NeedsGC(p), NEW b \in BlockNos, IsTarget(p, b),
             eraseBlock' = [eraseBlock EXCEPT ![p] = b],
             eraseUsed' = [eraseUsed EXCEPT ![p] = TRUE],
             eraseCommands' = [eraseCommands EXCEPT ![c] = Append(@, p)],
             EPage' = [EPage EXCEPT ![p] = 0]
      PROVE  CInv'
  <2> DEFINE s == eraseCommands[c]
             t == Append(s, p)
  <2>1. p \in PlanesOf(c) /\ p \in Planes /\ ~eraseUsed[p] /\ p \in CommandIDs
    BY <1>1, <1>5 DEF NeedsGC, PlanesOf, CommandIDs
  <2>2. /\ eraseUsed'[p] = TRUE /\ eraseBlock'[p] = b /\ EPage'[p] = 0
        /\ eraseCommands'[c] = t
        /\ \A q \in Planes : q # p => /\ eraseUsed'[q] = eraseUsed[q]
                                      /\ eraseBlock'[q] = eraseBlock[q]
                                      /\ EPage'[q] = EPage[q]
        /\ \A d \in Chips : d # c => eraseCommands'[d] = eraseCommands[d]
    BY <1>1, <1>5, <2>1 DEF QueuesOK
  <2>3. /\ s \in Seq(PlanesOf(c)) /\ Len(s) \in Nat /\ Len(t) = Len(s) + 1
        /\ t[Len(s) + 1] = p /\ \A i \in 1..Len(s) : t[i] = s[i]
        /\ t \in Seq(PlanesOf(c))
    BY <1>1, <2>1
  <2>4. /\ \A i, j \in 1..Len(s) : s[i] = s[j] => i = j
        /\ \A q \in PlanesOf(c) : eraseUsed[q] <=> \E i \in 1..Len(s) : s[i] = q
    BY <1>1 DEF ChipOK, QueueOK
  <2> HIDE DEF s, t
  <2>5. s # <<>> => t # <<>> /\ Head(t) = Head(s)
    <3>1. s # <<>> => Len(s) >= 1 /\ Head(s) = s[1]
      BY <2>3
    <3>2. t # <<>> /\ Head(t) = t[1]
      <4>1. Len(t) >= 1
        BY <2>3
      <4> QED BY <2>3, <4>1
    <3> QED BY <2>3, <3>1, <3>2
  <2>6. OnlyChip(c)
    BY <1>2, <2>1, <2>2 DEF OnlyChip
  <2>7. QueueOK(c)'
    <3>1. \A i \in 1..Len(s) : s[i] # p
      BY <2>1, <2>4
    <3>2. ASSUME NEW i \in 1..Len(t), NEW j \in 1..Len(t), t[i] = t[j] PROVE i = j
      <4>1. i \in 1..Len(s) \/ i = Len(s) + 1
        BY <2>3
      <4>2. j \in 1..Len(s) \/ j = Len(s) + 1
        BY <2>3
      <4> QED BY <2>3, <2>4, <3>1, <3>2, <4>1, <4>2
    <3>3. ASSUME NEW q \in PlanesOf(c)
          PROVE  eraseUsed'[q] <=> \E i \in 1..Len(t) : t[i] = q
      <4>1. CASE q = p
        <5>1. Len(s) + 1 \in 1..Len(t)
          BY <2>3
        <5> QED BY <2>2, <2>3, <4>1, <5>1
      <4>2. CASE q # p
        <5>1. q \in Planes /\ eraseUsed'[q] = eraseUsed[q]
          BY <2>2, <4>2 DEF PlanesOf
        <5>2. (\E i \in 1..Len(s) : s[i] = q) <=> (\E i \in 1..Len(t) : t[i] = q)
          BY <2>3, <4>2
        <5> QED BY <2>4, <5>1, <5>2
      <4> QED BY <4>1, <4>2
    <3> QED BY <2>2, <3>2, <3>3 DEF QueueOK
  <2>8. WriteOK(c)'
    <3>1. WriteOK(c) /\ inflight[c] \in {c} \cup PlanesOf(c)
      BY <1>1 DEF ChipOK, IInv, OnOwnChip, OwnChip
    <3>2. \A q \in PlanesOf(c) : (eraseUsed[q] => EPage[q] = 0) =>
                                   (eraseUsed'[q] => EPage'[q] = 0)
      BY <2>2 DEF PlanesOf
    <3>3. ASSUME chipState[c] = "PROGRAM", inflight[c] # c
          PROVE  eraseBlock'[inflight[c]] = eraseBlock[inflight[c]]
      <4>1. /\ inflight[c] \in PlanesOf(c) /\ cmd[inflight[c]].operation = "WRITE"
        BY <3>1, <3>3 DEF WriteOK
      <4>2. eraseCommands[c] # <<>> /\ Collected(c) = inflight[c]
        BY <1>1, <4>1 DEF ChipOK, PhaseOK, Collected
      <4>3. eraseUsed[inflight[c]]
        BY <4>2, HeadIsUsed
      <4>4. inflight[c] # p /\ inflight[c] \in Planes
        BY <2>1, <4>1, <4>3 DEF PlanesOf
      <4> QED BY <2>2, <4>4
    <3> QED BY <1>2, <3>1, <3>2, <3>3 DEF WriteOK
  <2>9. ReadOK(c)'
    BY <1>1, <1>2 DEF ChipOK, ReadOK
  <2>10. EraseOK(c)'
    <3>1. ASSUME chipState[c] = "ERASE"
          PROVE  eraseBlock'[inflight[c]] = eraseBlock[inflight[c]]
      <4>1. eraseCommands[c] # <<>> /\ Collected(c) = inflight[c]
        BY <3>1 DEF IInv, QueuesMatchChip, Collected
      <4>2. inflight[c] # p /\ inflight[c] \in Planes
        BY <2>1, <4>1, HeadIsUsed DEF PlanesOf
      <4> QED BY <2>2, <4>2
    <3> QED BY <1>1, <1>2, <3>1 DEF ChipOK, EraseOK, AllInvalid
  <2>11. ASSUME NEW q \in PlanesOf(c)
         PROVE  VictimOK(q)' /\ PhaseOK(c, q)' /\ CopyOK(q)'
    <3>1. VictimOK(q) /\ PhaseOK(c, q) /\ CopyOK(q) /\ q \in Planes
      BY <1>1 DEF ChipOK, PlanesOf
    <3>2. PhaseOK(c, q)'
      BY <1>2, <2>2, <2>5, <3>1 DEF PhaseOK, s
    <3>3. CASE q # p
      <4>1. VictimOK(q)'
        BY <1>2, <2>2, <3>1, <3>3 DEF VictimOK
      <4>2. CopyOK(q)'
        BY <1>2, <2>2, <3>1, <3>3 DEF CopyOK, CopyUnderWay, CopyRead
      <4> QED BY <3>2, <4>1, <4>2
    <3>4. CASE q = p
      <4>1. cmd[p].operation = "NONE"
        <5>1. ASSUME cmd[p].operation # "NONE" PROVE FALSE
          <6>1. eraseCommands[c] # <<>> /\ Collected(c) = p
            BY <3>1, <3>4, <5>1 DEF PhaseOK, Collected
          <6> QED BY <2>1, <6>1, HeadIsUsed
        <5> QED BY <5>1
      <4>2. CopyOK(p)'
        BY <1>2, <4>1 DEF CopyOK, CopyUnderWay, CopyRead
      <4>3. blockInfos[<<p, b>>].freePageCount = 0 /\ <<p, b>> \in Blocks
        BY <1>5, <2>1 DEF IsTarget, Candidates, Blocks
      <4>4. blockInfos[<<p, b>>].startWrite = pageOfBlock
        BY <1>1, <4>3, Sizes DEF FreeIsUnwritten, BlocksInOrder
      <4>5. activeBlock[p] # b
        BY <1>1, <4>3, <4>4 DEF BlocksInOrder
      <4>6. \A loc \in PagesOf(p, b) : ~(loc[3] < 0)
        BY DEF PagesOf, Locations, PageNos
      <4>7. VictimOK(p)'
        BY <1>2, <2>2, <4>3, <4>5, <4>6 DEF VictimOK
      <4> QED BY <3>2, <3>4, <4>2, <4>7
    <3> QED BY <3>3, <3>4
  <2> QED BY <1>3, <2>6, <2>7, <2>8, <2>9, <2>10, <2>11, StepKeepsCInv DEF ChipOK
<1> QED BY <1>4, <1>5 DEF check_and_create_gc, erasing

\* A write is sent to an idle chip.
LEMMA StartKeepsCInv ==
  ASSUME IInv, CInv, ~spinning, NEW c \in Chips, chipState[c] = "IDLE",
         NEW x \in {c} \cup PlanesOf(c), NEW plane \in PlanesOf(c),
         StartsProgram(c, x, plane), incompletedR[c] = <<>>,
         cmd'[x].lpn \in HostLPNs, cmd'[x].bitMap # {},
         plane = allocate_location_for_plane(cmd'[x].lpn),
         x = c => \A p \in PlanesOf(c) : eraseUsed[p] => EPage[p] = 0,
         x # c => plane = x /\ eraseUsed[x] /\ PhaseOK(c, x)' /\ CopyOK(x)',
         \A p \in PlanesOf(c) : p # x => cmd[p].operation = "NONE"
  PROVE  CInv'
<1>1. /\ QueuesOK /\ TablesOK /\ ChipOK(c) /\ DataOK /\ plane \in Planes
      /\ allocate_location_in_plane(plane)
      /\ UNCHANGED <<map, pageInfos, incompletedR, eraseUsed, eraseBlock, eraseCommands,
                     EPage>>
      /\ cmd'[x].operation = "WRITE" /\ ~cmd'[x].completed
      /\ cmd'[x].location = Frontier(plane) /\ x \in CommandIDs
      /\ \A y \in CommandIDs : y # x => cmd'[y] = cmd[y]
      /\ \A p \in PlanesOf(c) : p \in CommandIDs /\ p \in Planes
  BY TypeParts DEF IInv, CInv, StartsProgram, PlanesOf, CommandIDs
<1>2. /\ DataOK' /\ pageInfos[Frontier(plane)].state = {}
      /\ chipState'[c] = "PROGRAM" /\ inflight'[c] = x
  BY <1>1, ProgramKeepsData
<1>3. \A d \in Chips : d # c => chipState'[d] = chipState[d] /\ inflight'[d] = inflight[d]
  BY <1>1 DEF StartsProgram, Busy, QueuesOK
<1> PICK B \in Blocks : B = <<plane, activeBlock[plane]>>
  BY <1>1, AllocateCounts
<1>4. /\ \A b \in Blocks : b # B => blockInfos'[b] = blockInfos[b]
      /\ \A q \in Planes : q # plane => activeBlock'[q] = activeBlock[q]
      /\ \/ activeBlock'[plane] = activeBlock[plane]
         \/ blockInfos'[<<plane, activeBlock'[plane]>>].freePageCount = pageOfBlock
  BY <1>1, AllocateCounts
<1>5. OnlyChip(c)
  <2>1. \A q \in Planes \ PlanesOf(c), n \in BlockNos :
          <<q, n>> \in Blocks /\ <<q, n>> # B
    BY DEF Blocks
  <2>2. \A q \in Planes \ PlanesOf(c) : q # plane
    OBVIOUS
  <2> QED BY <1>1, <1>3, <1>4, <2>1, <2>2 DEF OnlyChip
<1>6. ASSUME NEW p \in PlanesOf(c) PROVE VictimOK(p)'
  <2> SUFFICES ASSUME eraseUsed[p]
               PROVE  /\ blockInfos'[<<p, eraseBlock[p]>>].freePageCount = 0
                      /\ activeBlock'[p] # eraseBlock[p]
                      /\ \A loc \in PagesOf(p, eraseBlock[p]) :
                           loc[3] < EPage[p] => pageInfos[loc].state = {}
    BY <1>1 DEF VictimOK
  <2>1. /\ blockInfos[<<p, eraseBlock[p]>>].freePageCount = 0
        /\ activeBlock[p] # eraseBlock[p]
        /\ \A loc \in PagesOf(p, eraseBlock[p]) :
             loc[3] < EPage[p] => pageInfos[loc].state = {}
    BY <1>1 DEF ChipOK, VictimOK
  <2>2. <<p, eraseBlock[p]>> \in Blocks /\ <<p, eraseBlock[p]>> # B
    BY <1>1, <2>1 DEF QueuesOK, Blocks
  <2>3. blockInfos'[<<p, eraseBlock[p]>>].freePageCount = 0
    BY <1>4, <2>1, <2>2
  <2>4. activeBlock'[p] # eraseBlock[p]
    BY <1>1, <1>4, <2>1, <2>3, Sizes
  <2> QED BY <2>1, <2>3, <2>4
<1>7. WriteOK(c)'
  <2>1. x # c => Frontier(plane)[2] # eraseBlock[x]
    BY <1>1 DEF ChipOK, VictimOK, Frontier
  <2>2. Frontier(plane)[1] = plane
    BY DEF Frontier
  <2> QED BY <1>1, <1>2, <2>1, <2>2 DEF WriteOK
<1>8. ReadOK(c)' /\ EraseOK(c)'
  BY <1>2 DEF ReadOK, EraseOK
<1>9. QueueOK(c)'
  <2>1. QueueOK(c) /\ UNCHANGED <<eraseCommands, eraseUsed>>
    BY <1>1 DEF ChipOK
  <2> QED BY <2>1 DEF QueueOK
<1>10. ASSUME NEW p \in PlanesOf(c) PROVE PhaseOK(c, p)' /\ CopyOK(p)'
  <2>1. CASE p = x
    BY <2>1, ChipsAndPlanes DEF PlanesOf
  <2>2. CASE p # x
    <3>1. cmd'[p].operation = "NONE"
      BY <1>1, <2>2
    <3> QED BY <3>1 DEF PhaseOK, CopyOK, CopyUnderWay, CopyRead
  <2> QED BY <2>1, <2>2
<1> QED BY <1>2, <1>5, <1>6, <1>7, <1>8, <1>9, <1>10, StepKeepsCInv DEF ChipOK

LEMMA DispatchCopyWriteKeepsCInv ==
  ASSUME IInv, CInv, ~spinning, NEW c \in Chips, chipState[c] = "IDLE",
         DispatchCopyWrite(c)
  PROVE  CInv'
<1>a. Collected(c) \in PlanesOf(c)
  BY CopyWriteStarts
<1> PICK p \in PlanesOf(c) : p = Collected(c)
  BY <1>a
<1>1. /\ EraseIsNext(c) /\ CopyRead(p) /\ StartsProgram(c, p, p)
      /\ cmd'[p].lpn = cmd[p].lpn /\ cmd'[p].bitMap = cmd[p].bitMap
  BY CopyWriteStarts
<1>2. /\ incompletedR[c] = <<>> /\ eraseCommands[c] # <<>> /\ eraseUsed[p]
      /\ p \in Planes /\ p # c /\ QueuesOK /\ LiveIsMapped
      /\ EPage[p] \in PageNos /\ cmd[p].bitMap # {}
      /\ pageInfos[<<p, eraseBlock[p], EPage[p]>>] =
           [state |-> cmd[p].bitMap, lpn |-> cmd[p].lpn]
  BY <1>1, HeadIsUsed, ChipsAndPlanes, TypeParts
  DEF EraseIsNext, PlanesOf, IInv, CInv, DataOK, ChipOK, CopyOK
<1> DEFINE from == <<p, eraseBlock[p], EPage[p]>>
<1>3. from \in Locations /\ from[1] = p
  BY <1>2 DEF QueuesOK, Locations
<1>4. cmd[p].lpn \in HostLPNs /\ allocate_location_for_plane(cmd[p].lpn) = p
  <2>1. pageInfos[from].state # {} /\ pageInfos[from].lpn = cmd[p].lpn
    BY <1>2
  <2> HIDE DEF from
  <2> QED BY <1>2, <1>3, <2>1 DEF LiveIsMapped
<1>5. /\ UNCHANGED <<pageInfos, EPage, eraseBlock, eraseCommands>>
      /\ cmd'[p].operation = "WRITE" /\ ~cmd'[p].completed
  BY <1>1 DEF StartsProgram
<1>6. chipState'[c] = "PROGRAM" /\ inflight'[c] = p
  BY <1>1, <1>2 DEF StartsProgram, Busy, QueuesOK
<1>7. PhaseOK(c, p)'
  BY <1>2, <1>5, <1>6 DEF PhaseOK, Collected
<1>8. CopyOK(p)'
  BY <1>1, <1>2, <1>5 DEF CopyOK
<1>9. \A q \in PlanesOf(c) : q # p => cmd[q].operation = "NONE"
  BY <1>2, IdleChip
<1> QED BY <1>1, <1>2, <1>4, <1>7, <1>8, <1>9, StartKeepsCInv

\* The host's write waits until no erase of the chip has anything to do: it
\* finds no collection under way.
LEMMA DispatchHostWriteKeepsCInv ==
  ASSUME IInv, CInv, ~spinning, NEW c \in Chips, chipState[c] = "IDLE",
         DispatchHostWrite(c)
  PROVE  CInv'
<1>1. /\ NoEraseStep(c) /\ incompletedR[c] = <<>>
      /\ cmd'[c].lpn \in HostLPNs /\ cmd'[c].bitMap # {}
      /\ allocate_location_for_plane(cmd'[c].lpn) \in PlanesOf(c)
      /\ StartsProgram(c, c, allocate_location_for_plane(cmd'[c].lpn))
  BY HostWriteStarts DEF NoEraseStep
<1>2. eraseCommands[c] = <<>>
  <2> SUFFICES ASSUME eraseCommands[c] # <<>> PROVE FALSE
    OBVIOUS
  <2>1. CopyUnderWay(Collected(c))
    BY <1>1 DEF NoEraseStep
  <2>2. Collected(c) \in PlanesOf(c)
    BY HeadIsUsed
  <2> QED BY <1>1, <2>1, <2>2, IdleChip DEF CopyUnderWay
<1>3. ASSUME NEW p \in PlanesOf(c) PROVE ~eraseUsed[p] /\ cmd[p].operation = "NONE"
  <2>1. QueueOK(c)
    BY DEF CInv, ChipOK
  <2>2. ~ \E i \in 1..Len(eraseCommands[c]) : eraseCommands[c][i] = p
    BY <1>2
  <2> QED BY <1>1, <1>2, <2>1, <2>2, IdleChip DEF QueueOK
<1> QED BY <1>1, <1>3, StartKeepsCInv

LEMMA CompleteProgramKeepsCInv ==
  ASSUME IInv, IInv', CInv, NoneRefused, NEW c \in Chips, CompleteProgram(c)
  PROVE  CInv'
<1>1. /\ QueuesOK /\ TablesOK /\ TablesOK' /\ ChipOK(c) /\ DataOK
      /\ inflight[c] \in {c} \cup PlanesOf(c) /\ inflight[c] \in CommandIDs
      /\ chipState[c] = "PROGRAM" /\ incompletedR[c] = <<>>
  BY TypeParts
  DEF IInv, CInv, OnOwnChip, OwnChip, QueuesMatchChip, QueuesOK, CompleteProgram
<1> PICK x \in {c} \cup PlanesOf(c) : x = inflight[c]
  BY <1>1
<1> PICK sub \in CommandOf : sub = cmd[x]
  BY <1>1 DEF QueuesOK
<1>2. /\ update_Map_and_invilate_page(sub)
      /\ \/ x = c /\ cmd' = [cmd EXCEPT ![c] = NoCommand]
         \/ x # c /\ cmd' = [cmd EXCEPT ![x].completed = TRUE]
      /\ chipState' = [chipState EXCEPT ![c] = "IDLE"] /\ inflight' = inflight
      /\ UNCHANGED <<activeBlock, eraseUsed, eraseBlock, eraseCommands, EPage, incompletedR>>
  BY DEF CompleteProgram, Idle, erasing
<1>3. /\ sub.operation = "WRITE" /\ ~sub.completed
      /\ sub.lpn \in HostLPNs /\ sub.bitMap # {}
      /\ sub.location[1] = allocate_location_for_plane(sub.lpn)
      /\ pageInfos[sub.location].state = {}
      /\ x = c => \A p \in PlanesOf(c) : eraseUsed[p] => EPage[p] = 0
      /\ x # c => sub.location[2] # eraseBlock[x]
  BY <1>1 DEF ChipOK, WriteOK
<1>4. /\ sub.location \in Locations /\ sub.location[1] \in PlanesOf(c)
      /\ x # c => sub.location[1] = x
  BY <1>1, <1>3 DEF IInv, OnOwnChip, OwnChip, PlanesOf, CommandOf, Locations, CopyInPlace
<1>5. /\ chipState'[c] = "IDLE" /\ \A d \in Chips : d # c => chipState'[d] = chipState[d]
      /\ x \in CommandIDs /\ \A y \in CommandIDs : y # x => cmd'[y] = cmd[y]
      /\ x # c => cmd'[x].operation = "WRITE" /\ cmd'[x].completed
  <2>1. /\ chipState'[c] = "IDLE" /\ x \in CommandIDs
        /\ \A d \in Chips : d # c => chipState'[d] = chipState[d]
    BY <1>1, <1>2 DEF QueuesOK
  <2>2. \A y \in CommandIDs : y # x => cmd'[y] = cmd[y]
    BY <1>1, <1>2 DEF QueuesOK
  <2>3. x # c => cmd'[x] = [sub EXCEPT !.completed = TRUE]
    BY <1>1, <1>2, <2>1 DEF QueuesOK
  <2>4. /\ [sub EXCEPT !.completed = TRUE].operation = sub.operation
        /\ [sub EXCEPT !.completed = TRUE].completed
    BY DEF CommandOf
  <2> QED BY <1>3, <2>1, <2>2, <2>3, <2>4
<1>6. /\ Programmed(c) = {sub.location} /\ Programmed(c)' = {}
      /\ \A d \in Chips : d # c => Programmed(d)' = Programmed(d)
  <2>1. Programmed(c) = {sub.location} /\ Programmed(c)' = {}
    BY <1>1, <1>5 DEF Programmed
  <2>2. \A d \in Chips : d # c => Programmed(d)' = Programmed(d)
    BY <1>2, <1>5, OthersProgram
  <2> QED BY <2>1, <2>2
<1>7. DataOK'
  BY <1>1, <1>2, <1>3, <1>4, <1>6, UpdateKeepsData
<1>8. /\ \A b \in Blocks : blockInfos'[b].freePageCount = blockInfos[b].freePageCount
      /\ \A loc \in Locations : pageInfos'[loc].state # {} =>
           loc = sub.location \/ pageInfos[loc].state # {}
  BY <1>1, <1>2, UpdateKeepsOrder
<1>9. /\ \A loc \in Locations : loc[1] \notin PlanesOf(c) => pageInfos'[loc] = pageInfos[loc]
      /\ \A b \in Blocks : b[1] \notin PlanesOf(c) => blockInfos'[b] = blockInfos[b]
  <2>1. ASSUME NEW old \in Locations, Invalidates(sub, old)
        PROVE  old[1] \in PlanesOf(c)
    <3>1. old[1] = sub.location[1]
      BY <1>1, <1>3, <2>1 DEF Invalidates, DataOK, LiveIsMapped
    <3> QED BY <1>4, <3>1
  <2>2. \/ /\ blockInfos' = blockInfos
           /\ \A loc \in Locations \ {sub.location} : pageInfos'[loc] = pageInfos[loc]
        \/ \E old \in Locations : Invalidates(sub, old)
    BY <1>1, <1>2, <1>3, UpdateNotes
  <2>3. ASSUME NEW old \in Locations, Invalidates(sub, old)
        PROVE  <1>9
    <3>1. ASSUME NEW loc \in Locations, loc[1] \notin PlanesOf(c)
          PROVE  pageInfos'[loc] = pageInfos[loc]
      <4>1. loc # sub.location /\ loc # old
        BY <1>4, <2>1, <2>3, <3>1
      <4> QED BY <2>3, <4>1 DEF Invalidates
    <3>2. ASSUME NEW b \in Blocks, b[1] \notin PlanesOf(c)
          PROVE  blockInfos'[b] = blockInfos[b]
      <4>1. b # <<old[1], old[2]>>
        BY <2>1, <2>3, <3>2
      <4> QED BY <2>3, <4>1 DEF Invalidates
    <3> QED BY <3>1, <3>2
  <2>4. CASE /\ blockInfos' = blockInfos
             /\ \A loc \in Locations \ {sub.location} : pageInfos'[loc] = pageInfos[loc]
    BY <1>4, <2>4
  <2> QED BY <2>2, <2>3, <2>4
<1>10. OnlyChip(c)
  <2>1. \A p \in Planes \ PlanesOf(c), n \in BlockNos :
          blockInfos'[<<p, n>>] = blockInfos[<<p, n>>]
    BY <1>9 DEF Blocks
  <2> QED BY <1>2, <1>5, <1>9, <2>1 DEF OnlyChip
<1>11. ASSUME NEW p \in PlanesOf(c) PROVE VictimOK(p)'
  <2> SUFFICES ASSUME eraseUsed[p]
               PROVE  /\ blockInfos'[<<p, eraseBlock[p]>>].freePageCount = 0
                      /\ activeBlock[p] # eraseBlock[p]
                      /\ \A loc \in PagesOf(p, eraseBlock[p]) :
                           loc[3] < EPage[p] => pageInfos'[loc].state = {}
    BY <1>2 DEF VictimOK
  <2>1. /\ blockInfos[<<p, eraseBlock[p]>>].freePageCount = 0
        /\ activeBlock[p] # eraseBlock[p]
        /\ \A loc \in PagesOf(p, eraseBlock[p]) :
             loc[3] < EPage[p] => pageInfos[loc].state = {}
    BY <1>1 DEF ChipOK, VictimOK
  <2>2. <<p, eraseBlock[p]>> \in Blocks
    BY <1>1 DEF QueuesOK, Blocks, PlanesOf
  <2>3. ASSUME NEW loc \in PagesOf(p, eraseBlock[p]), loc[3] < EPage[p]
        PROVE  pageInfos'[loc].state = {}
    <3>1. loc \in Locations /\ loc[1] = p /\ loc[2] = eraseBlock[p] /\ ~(loc[3] < 0)
      BY DEF PagesOf, Locations, PageNos
    <3>2. loc # sub.location
      BY <1>3, <1>4, <2>3, <3>1
    <3> QED BY <1>8, <2>1, <2>3, <3>1, <3>2
  <2> QED BY <1>8, <2>1, <2>2, <2>3
<1>12. ASSUME NEW p \in PlanesOf(c) PROVE PhaseOK(c, p)' /\ CopyOK(p)'
  <2>1. PhaseOK(c, p) /\ p \in CommandIDs /\ p # c
    BY <1>1, ChipsAndPlanes DEF ChipOK, PlanesOf, CommandIDs
  <2>2. CASE p = x
    <3>1. cmd[p].operation # "NONE"
      BY <1>3, <2>2
    <3>2. eraseCommands[c] # <<>> /\ Head(eraseCommands[c]) = p
      BY <2>1, <3>1 DEF PhaseOK
    <3>3. cmd'[p].operation = "WRITE" /\ cmd'[p].completed
      BY <1>5, <2>1, <2>2
    <3>4. PhaseOK(c, p)'
      BY <1>1, <1>2, <1>5, <3>2, <3>3 DEF PhaseOK
    <3>5. CopyOK(p)'
      BY <3>3 DEF CopyOK, CopyUnderWay, CopyRead
    <3> QED BY <3>4, <3>5
  <2>3. CASE p # x
    <3>1. cmd[p].operation \in {"NONE", "READ", "WRITE"} /\ cmd[p].completed \in BOOLEAN
      BY <1>1, <2>1 DEF QueuesOK, CommandOf
    <3>2. cmd[p].operation = "NONE"
      BY <1>1, <2>1, <2>3, <3>1 DEF PhaseOK
    <3>3. cmd'[p].operation = "NONE"
      BY <1>5, <2>1, <2>3, <3>2
    <3> QED BY <3>3 DEF PhaseOK, CopyOK, CopyUnderWay, CopyRead
  <2> QED BY <2>2, <2>3
<1>13. WriteOK(c)' /\ ReadOK(c)' /\ EraseOK(c)'
  BY <1>1, <1>2, <1>5 DEF WriteOK, ReadOK, EraseOK
<1>14. QueueOK(c)'
  <2>1. QueueOK(c) /\ UNCHANGED <<eraseCommands, eraseUsed>>
    BY <1>1, <1>2 DEF ChipOK
  <2> QED BY <2>1 DEF QueueOK
<1> QED BY <1>7, <1>10, <1>11, <1>12, <1>13, <1>14, StepKeepsCInv DEF ChipOK

-----------------------------------------------------------------------------
(* The invariant, and what follows from it.                                *)

LEMMA InitCInv == Init => CInv
<1> SUFFICES ASSUME Init PROVE CInv
  OBVIOUS
<1>1. /\ \A lpn \in HostLPNs : map[lpn].subPage = {}
      /\ \A loc \in Locations : pageInfos[loc].state = {}
      /\ \A c \in Chips : /\ chipState[c] = "IDLE" /\ incompletedR[c] = <<>>
                          /\ eraseCommands[c] = <<>>
      /\ \A p \in Planes : eraseUsed[p] = FALSE /\ cmd[p].operation = "NONE"
  BY FirstValues DEF Init, CommandIDs
<1>2. MapNamesPage /\ LiveIsMapped
  BY <1>1 DEF MapNamesPage, LiveIsMapped
<1>3. BlocksAgree
  <2> SUFFICES ASSUME NEW b \in Blocks
               PROVE  /\ blockInfos[b].freePageCount = pageOfBlock - blockInfos[b].startWrite
                      /\ blockInfos[b].invalidPageCount =
                           blockInfos[b].startWrite - blockInfos[b].validPageCount
                      /\ blockInfos[b].validPageCount = Cardinality(Census(b))
    BY DEF BlocksAgree
  <2>1. blockInfos[b] = [freePageCount |-> pageOfBlock, validPageCount |-> 0,
                         invalidPageCount |-> 0, startWrite |-> 0]
    BY DEF Init
  <2>2. Census(b) = {}
    <3>1. ChipOf(b[1]) \in Chips
      BY ChipsAndPlanes DEF Blocks
    <3> QED BY <1>1, <3>1 DEF Census, Programmed, PagesOf
  <2> QED BY <2>1, <2>2, FS_EmptySet, Sizes
<1>4. ASSUME NEW c \in Chips PROVE ChipOK(c)
  <2>1. WriteOK(c) /\ ReadOK(c) /\ EraseOK(c)
    BY <1>1 DEF WriteOK, ReadOK, EraseOK
  <2>2. QueueOK(c)
    <3>1. Len(eraseCommands[c]) = 0 /\ 1..0 = {}
      BY <1>1
    <3> QED BY <1>1, <3>1 DEF QueueOK, PlanesOf
  <2>3. \A p \in PlanesOf(c) : VictimOK(p) /\ PhaseOK(c, p) /\ CopyOK(p)
    BY <1>1 DEF VictimOK, PhaseOK, CopyOK, CopyUnderWay, CopyRead, PlanesOf
  <2> QED BY <2>1, <2>2, <2>3 DEF ChipOK
<1> QED BY <1>2, <1>3, <1>4 DEF CInv, DataOK

LEMMA StutterKeepsCInv ==
  ASSUME CInv, UNCHANGED vars
  PROVE  CInv'
<1>1. UNCHANGED <<map, pageInfos, blockInfos, counts, activeBlock, eraseUsed, eraseBlock,
                  eraseCommands, EPage, incompletedR, chipState, inflight, cmd>>
  BY DEF vars, tables, erasing, queues
<1>2. DataOK'
  <2>1. \A d \in Chips : Programmed(d)' = Programmed(d)
    BY <1>1 DEF Programmed
  <2> QED BY <1>1, <2>1, DataKept DEF CInv, tables
<1>3. ASSUME NEW c \in Chips PROVE ChipOK(c)'
  <2>1. /\ WriteOK(c) /\ ReadOK(c) /\ QueueOK(c) /\ EraseOK(c)
        /\ \A p \in PlanesOf(c) : VictimOK(p) /\ PhaseOK(c, p) /\ CopyOK(p)
    BY DEF CInv, ChipOK
  <2>2. WriteOK(c)'
    BY <1>1, <2>1 DEF WriteOK
  <2>3. ReadOK(c)' /\ EraseOK(c)'
    BY <1>1, <2>1 DEF ReadOK, EraseOK, AllInvalid
  <2>4. QueueOK(c)'
    BY <1>1, <2>1 DEF QueueOK
  <2>5. ASSUME NEW p \in PlanesOf(c) PROVE VictimOK(p)' /\ PhaseOK(c, p)' /\ CopyOK(p)'
    <3>1. VictimOK(p)'
      BY <1>1, <2>1 DEF VictimOK
    <3>2. PhaseOK(c, p)'
      BY <1>1, <2>1 DEF PhaseOK
    <3>3. CopyOK(p)'
      BY <1>1, <2>1 DEF CopyOK, CopyUnderWay, CopyRead
    <3> QED BY <3>1, <3>2, <3>3
  <2> QED BY <2>2, <2>3, <2>4, <2>5 DEF ChipOK
<1> QED BY <1>2, <1>3 DEF CInv

LEMMA NextKeepsCInv ==
  ASSUME IInv, IInv', NoneRefused, CInv, [Next]_vars
  PROVE  CInv'
<1>1. CASE UNCHANGED vars
  BY <1>1, StutterKeepsCInv
<1>2. CASE Next
  <2>1. PICK c \in Chips : Dispatch(c) \/ Complete(c) \/ check_and_create_gc(c)
    BY <1>2 DEF Next
  <2>2. ~spinning
    BY <1>2 DEF Next
  <2>3. CASE Dispatch(c)
    BY <2>2, <2>3, DispatchReadDataKeepsCInv, DispatchCopyWriteKeepsCInv,
       DispatchCopyReadKeepsCInv, DispatchEraseKeepsCInv, DispatchHostWriteKeepsCInv
    DEF Dispatch, DispatchPending
  <2>4. CASE Complete(c)
    BY <2>4, CompleteProgramKeepsCInv, CompleteReadAddrKeepsCInv,
       CompleteReadDataKeepsCInv, CompleteEraseKeepsCInv DEF Complete
  <2>5. CASE check_and_create_gc(c)
    BY <2>2, <2>5, CheckAndCreateGCKeepsCInv
  <2> QED BY <2>1, <2>3, <2>4, <2>5
<1> QED BY <1>1, <1>2

LEMMA CollectionInvariance == Spec /\ []NoneRefused => []CInv
<1>1. IInv /\ IInv' /\ NoneRefused /\ CInv /\ [Next]_vars => CInv'
  BY NextKeepsCInv
<1> QED BY <1>1, InitCInv, Invariance, PTL DEF Spec

(* Through overwrites, copies and erasures the map of command.c and its     *)
(* page table stay inverse to each other, as long as no mapped page has a   *)
(* number that get_PPN_Detail_USBSSD refuses.                               *)
THEOREM MapAgrees == Spec /\ []NoneRefused => []MapAndPagesAgree
<1>1. ASSUME CInv PROVE MapAndPagesAgree
  <2>1. MapNamesPage /\ LiveIsMapped
    BY <1>1 DEF CInv, DataOK
  <2>2. ASSUME NEW loc \in Locations, pageInfos[loc].state # {}
        PROVE  /\ pageInfos[loc].lpn \in HostLPNs
               /\ map[pageInfos[loc].lpn].ppn = get_PPN_From_Detail(loc)
    <3> DEFINE ppn == get_PPN_From_Detail(loc)
    <3>1. /\ pageInfos[loc].lpn \in HostLPNs
          /\ map[pageInfos[loc].lpn] = [subPage |-> pageInfos[loc].state, ppn |-> ppn]
      BY <2>1, <2>2 DEF LiveIsMapped
    <3> HIDE DEF ppn
    <3>2. map[pageInfos[loc].lpn].ppn = ppn
      BY <3>1
    <3> QED BY <3>1, <3>2 DEF ppn
  <2> QED BY <2>1, <2>2 DEF MapAndPagesAgree
<1> QED BY <1>1, CollectionInvariance, PTL

(* The counters of a block are the census of its pages: none underflows, and *)
(* check_and_create_gc compares what is really there.                        *)
THEOREM BlocksCounted == Spec /\ []NoneRefused => []BlocksAgree
<1>1. CInv => BlocksAgree
  BY DEF CInv, DataOK
<1> QED BY <1>1, CollectionInvariance, PTL

(* The erase a chip executes hits a full block without data, which is not    *)
(* being written.                                                            *)
THEOREM SafeErase == Spec /\ []NoneRefused => []EraseIsSafe
<1>1. ASSUME IInv, CInv PROVE EraseIsSafe
  <2> SUFFICES ASSUME NEW c \in Chips, chipState[c] = "ERASE"
               PROVE  LET p == inflight[c]
                      IN /\ eraseUsed[p] /\ activeBlock[p] # eraseBlock[p]
                         /\ AllInvalid(p)
                         /\ \A loc \in PagesOf(p, eraseBlock[p]) : pageInfos[loc].state = {}
    BY DEF EraseIsSafe
  <2>1. eraseCommands[c] # <<>> /\ Collected(c) = inflight[c]
    BY <1>1 DEF IInv, QueuesMatchChip, Collected
  <2>2. inflight[c] \in PlanesOf(c) /\ eraseUsed[inflight[c]]
    BY <1>1, <2>1, HeadIsUsed
  <2>3. ChipOK(c)
    BY <1>1 DEF CInv
  <2> QED BY <2>2, <2>3 DEF ChipOK, EraseOK, VictimOK
<1> QED BY <1>1, Invariance, CollectionInvariance, PTL

\* A copy is current until it has been programmed.
LEMMA CopyCurrent ==
  ASSUME IInv, CInv
  PROVE  CopyIsCurrent
<1> SUFFICES ASSUME NEW p \in Planes, CopyUnderWay(p) \/ CopyRead(p)
             PROVE  LET from == <<p, eraseBlock[p], EPage[p]>>
                    IN /\ pageInfos[from] = [state |-> cmd[p].bitMap, lpn |-> cmd[p].lpn]
                       /\ map[cmd[p].lpn] = [subPage |-> cmd[p].bitMap,
                                             ppn     |-> get_PPN_From_Detail(from)]
  BY DEF CopyIsCurrent
<1> DEFINE from == <<p, eraseBlock[p], EPage[p]>>
<1>1. ChipOf(p) \in Chips /\ p \in PlanesOf(ChipOf(p)) /\ QueuesOK
  BY ChipsAndPlanes, TypeParts DEF PlanesOf, IInv
<1>2. EPage[p] \in PageNos /\ cmd[p].bitMap # {}
      /\ pageInfos[from] = [state |-> cmd[p].bitMap, lpn |-> cmd[p].lpn]
  BY <1>1 DEF CInv, ChipOK, CopyOK
<1>3. from \in Locations
  BY <1>1, <1>2 DEF Locations, QueuesOK
<1>4. pageInfos[from].state = cmd[p].bitMap /\ pageInfos[from].lpn = cmd[p].lpn
  BY <1>2
<1> HIDE DEF from
<1>5. map[cmd[p].lpn] = [subPage |-> cmd[p].bitMap, ppn |-> get_PPN_From_Detail(from)]
  BY <1>2, <1>3, <1>4 DEF CInv, DataOK, LiveIsMapped
<1> QED BY <1>2, <1>5 DEF from

(* No write of the host comes between the read and the write of a copy that *)
(* garbage collection makes: the copy never brings old sectors back.        *)
THEOREM CurrentCopy == Spec /\ []NoneRefused => []CopyIsCurrent
  BY Invariance, CollectionInvariance, CopyCurrent, PTL

\* What is stored of a logical page changes when a user's write of it ends, and
\* at no other time.
LEMMA OnlyUsersChange ==
  ASSUME IInv, NoneRefused, CInv, [Next]_vars, NEW lpn \in HostLPNs,
         map'[lpn].subPage # map[lpn].subPage
  PROVE  \E c \in Chips : CompleteProgram(c) /\ inflight[c] = c /\ cmd[c].lpn = lpn
<1>1. PICK c \in Chips : Dispatch(c) \/ Complete(c) \/ check_and_create_gc(c)
  BY DEF Next, vars, tables
<1>2. CompleteProgram(c)
  <2> SUFFICES ASSUME ~CompleteProgram(c) PROVE FALSE
    OBVIOUS
  <2>1. map' # map
    OBVIOUS
  <2>2. ~spinning
    BY <2>1 DEF Next, vars, tables
  <2>3. CASE Dispatch(c)
    <3>1. chipState[c] = "IDLE"
      BY <2>3 DEF Dispatch
    <3>2. DispatchReadData(c) \/ DispatchErase(c) => map' = map
      BY DEF DispatchReadData, DispatchErase, tables
    <3>3. DispatchCopyRead(c) => map' = map
      BY <3>1, CopyReadStarts DEF tables
    <3>4. DispatchCopyWrite(c) => map' = map
      BY <2>2, <3>1, CopyWriteStarts DEF StartsProgram
    <3>5. DispatchHostWrite(c) => map' = map
      BY <2>2, <3>1, HostWriteStarts DEF StartsProgram
    <3> QED BY <2>1, <2>3, <3>2, <3>3, <3>4, <3>5 DEF Dispatch, DispatchPending
  <2>4. CASE Complete(c)
    BY <2>1, <2>4 DEF Complete, CompleteReadAddr, CompleteReadData, CompleteErase, tables
  <2>5. CASE check_and_create_gc(c)
    BY <2>1, <2>5 DEF check_and_create_gc, tables
  <2> QED BY <1>1, <2>3, <2>4, <2>5
<1>3. /\ inflight[c] \in {c} \cup PlanesOf(c) /\ inflight[c] \in CommandIDs
      /\ QueuesOK /\ TablesOK
  BY TypeParts DEF IInv, OnOwnChip, OwnChip, QueuesOK
<1>4. WriteOK(c) /\ chipState[c] = "PROGRAM" /\ update_Map_and_invilate_page(cmd[inflight[c]])
  BY <1>2 DEF CInv, ChipOK, CompleteProgram
<1>5. /\ map'[cmd[inflight[c]].lpn].subPage = cmd[inflight[c]].bitMap
      /\ lpn # cmd[inflight[c]].lpn => map'[lpn] = map[lpn]
  BY <1>3, <1>4 DEF update_Map_and_invilate_page, TablesOK, WriteOK
<1>6. CASE inflight[c] = c
  BY <1>2, <1>5, <1>6
<1>7. CASE inflight[c] \in PlanesOf(c)
  <2> PICK x \in Planes : x = inflight[c]
    BY <1>7 DEF PlanesOf
  <2>1. CopyUnderWay(x) /\ cmd[x].lpn \in HostLPNs
    BY <1>4 DEF WriteOK, CopyUnderWay
  <2>2. map[cmd[x].lpn].subPage = cmd[x].bitMap
    <3> DEFINE ppn == get_PPN_From_Detail(<<x, eraseBlock[x], EPage[x]>>)
    <3>1. CopyIsCurrent
      BY CopyCurrent
    <3>2. map[cmd[x].lpn] = [subPage |-> cmd[x].bitMap, ppn |-> ppn]
      BY <2>1, <3>1 DEF CopyIsCurrent
    <3> HIDE DEF ppn
    <3> QED BY <3>2
  <2> QED BY <1>5, <2>2
<1> QED BY <1>3, <1>6, <1>7

(* The copies and erasures of a chip change what is stored of no logical    *)
(* page of that chip.                                                       *)
THEOREM CollectionIsInvisible == Spec /\ []NoneRefused => CollectionKeepsMap
<1>1. ASSUME IInv, NoneRefused, CInv, [Next]_vars, NEW c \in Chips,
             inflight[c] # c, chipState[c] # chipState'[c], NEW lpn \in HostLPNs,
             map'[lpn].subPage # map[lpn].subPage
      PROVE  FALSE
  <2>1. PICK d \in Chips : CompleteProgram(d) /\ inflight[d] = d
    BY <1>1, OnlyUsersChange
  <2>2. chipState' = [chipState EXCEPT ![d] = "IDLE"]
    BY <2>1 DEF CompleteProgram, Idle
  <2> QED BY <1>1, <2>1, <2>2, TypeParts DEF IInv, QueuesOK
<1>2. IInv /\ NoneRefused /\ CInv /\ [Next]_vars =>
        [\A c \in Chips : inflight[c] # c /\ chipState[c] # chipState'[c]
           => \A lpn \in HostLPNs :
                ChipOf(allocate_location_for_plane(lpn)) = c
                  => map'[lpn].subPage = map[lpn].subPage]_vars
  BY <1>1
<1> QED BY <1>2, Invariance, CollectionInvariance, PTL DEF Spec, CollectionKeepsMap

-----------------------------------------------------------------------------
(* Sums over a finite set, as SumFunctionOnSet computes them: one element   *)
(* after the other, in the order CHOOSE takes them.                         *)

Pick(s) == CHOOSE x \in s : TRUE

\* The sums over all subsets of S, each from that without the element picked.
SumStep(f, S, g) ==
  [T \in SUBSET S |-> IF T = {} THEN 0 ELSE f[Pick(T)] + g[T \ {Pick(T)}]]
PartSums(f, S) == CHOOSE g : g = SumStep(f, S, g)

LEMMA SumIsPartSum ==
  ASSUME NEW f, NEW S
  PROVE  SumFunctionOnSet(f, S) = PartSums(f, S)[S]
BY DEF SumFunctionOnSet, FoldFunctionOnSet, MapThenFoldSet, PartSums, SumStep, Pick

\* What is left of a finite set when an element is picked is smaller by one.
LEMMA PickShrinks ==
  ASSUME NEW S, IsFiniteSet(S), NEW T \in SUBSET S, T # {}
  PROVE  /\ Pick(T) \in T /\ Pick(T) \in S /\ T \ {Pick(T)} \in SUBSET S
         /\ Cardinality(T) \in Nat \ {0}
         /\ Cardinality(T \ {Pick(T)}) = Cardinality(T) - 1
<1>1. Pick(T) \in T
  BY DEF Pick
<1>2. IsFiniteSet(T)
  BY FS_Subset
<1>3. Cardinality(T) \in Nat /\ Cardinality(T) # 0
  BY <1>2, FS_CardinalityType, FS_EmptySet
<1>4. Cardinality(T \ {Pick(T)}) = Cardinality(T) - 1
  BY <1>1, <1>2, FS_RemoveElement
<1> QED BY <1>1, <1>3, <1>4

\* The sums over all subsets exist.
LEMMA PartSumsExist ==
  ASSUME NEW S, IsFiniteSet(S), NEW f
  PROVE  PartSums(f, S) = SumStep(f, S, PartSums(f, S))
<1> DEFINE
      UpTo(g, n) == [T \in SUBSET S |->
                       IF Cardinality(T) > n THEN 0 ELSE SumStep(f, S, g)[T]]
      V == {n \in Nat : ~ \E g : g = UpTo(g, n)}
<1>1. V = {}
  <2>1. SUFFICES ASSUME V # {} PROVE FALSE
    OBVIOUS
  <2>2. V \subseteq Nat
    OBVIOUS
  <2> HIDE DEF V
  <2>3. PICK n \in V : \A m \in V : n <= m
    BY <2>1, <2>2, LeastNumber
  <2>4. n \in Nat
    BY <2>2
  <2>5. CASE n = 0
    <3> DEFINE g == [T \in SUBSET S |-> 0]
    <3>1. ASSUME NEW T \in SUBSET S PROVE g[T] = UpTo(g, 0)[T]
      <4>1. CASE T = {}
        BY <4>1, FS_EmptySet DEF SumStep
      <4>2. CASE T # {}
        <5>1. Cardinality(T) \in Nat \ {0}
          BY <4>2, PickShrinks
        <5>2. Cardinality(T) > 0
          BY <5>1
        <5> QED BY <5>2
      <4> QED BY <4>1, <4>2
    <3>2. g = UpTo(g, 0)
      BY <3>1
    <3> QED BY <2>3, <2>5, <3>2 DEF V
  <2>6. CASE n # 0
    <3>1. n-1 \in Nat /\ n-1 \notin V
      BY <2>3, <2>4, <2>6, <2>2
    <3>2. PICK g : g = UpTo(g, n-1)
      BY <3>1 DEF V
    <3> DEFINE h == UpTo(g, n)
    <3>3. ASSUME NEW T \in SUBSET S, Cardinality(T) <= n-1 PROVE g[T] = h[T]
      <4>1. ~(Cardinality(T) > n-1) /\ ~(Cardinality(T) > n)
        <5>1. Cardinality(T) \in Nat
          BY FS_Subset, FS_CardinalityType
        <5> QED BY <2>4, <3>3, <5>1
      <4>2. UpTo(g, n-1)[T] = SumStep(f, S, g)[T] /\ h[T] = SumStep(f, S, g)[T]
        BY <4>1
      <4> QED BY <3>2, <4>2
    <3>4. DOMAIN h = SUBSET S
      OBVIOUS
    <3>5. ASSUME NEW T \in SUBSET S PROVE h[T] = UpTo(h, n)[T]
      <4>1. CASE Cardinality(T) > n
        BY <4>1
      <4>2. CASE T = {}
        <5>1. SumStep(f, S, g)[T] = 0 /\ SumStep(f, S, h)[T] = 0
          BY <4>2 DEF SumStep
        <5> QED BY <5>1
      <4>3. CASE ~(Cardinality(T) > n) /\ T # {}
        <5> DEFINE U == T \ {Pick(T)}
        <5>1. U \in SUBSET S /\ Cardinality(U) <= n-1
          BY <2>4, <4>3, PickShrinks
        <5>2. g[U] = h[U]
          BY <5>1, <3>3
        <5> HIDE DEF h
        <5>3. SumStep(f, S, g)[T] = SumStep(f, S, h)[T]
          BY <4>3, <5>2 DEF SumStep
        <5>4. UpTo(h, n)[T] = SumStep(f, S, h)[T] /\ UpTo(g, n)[T] = SumStep(f, S, g)[T]
          BY <4>3
        <5> QED BY <5>3, <5>4 DEF h
      <4> QED BY <4>1, <4>2, <4>3
    <3>6. h = UpTo(h, n)
      <4>1. DOMAIN UpTo(h, n) = SUBSET S /\ UpTo(h, n) = [T \in SUBSET S |-> UpTo(h, n)[T]]
        OBVIOUS
      <4>2. h = [T \in SUBSET S |-> h[T]]
        OBVIOUS
      <4> HIDE DEF h, UpTo
      <4> QED BY <3>5, <4>1, <4>2
    <3> HIDE DEF h, UpTo
    <3>7. \E k : k = UpTo(k, n)
      BY <3>6
    <3> QED BY <2>3, <2>4, <3>7 DEF V
  <2> QED BY <2>5, <2>6
<1>2. Cardinality(S) \in Nat
  BY FS_CardinalityType
<1>3. PICK g : g = UpTo(g, Cardinality(S))
  BY <1>1, <1>2
<1>4. ASSUME NEW T \in SUBSET S PROVE ~(Cardinality(T) > Cardinality(S))
  BY FS_Subset, FS_CardinalityType
<1>5. g = SumStep(f, S, g)
  <2>1. SumStep(f, S, g) = [T \in SUBSET S |-> SumStep(f, S, g)[T]]
    BY DEF SumStep
  <2> QED BY <1>3, <1>4, <2>1
<1> QED BY <1>5 DEF PartSums

\* They are what summing one element after the other gives.
LEMMA PartSumsAre ==
  ASSUME NEW S, IsFiniteSet(S), NEW f
  PROVE  /\ PartSums(f, S)[{}] = 0
         /\ \A T \in SUBSET S : T # {} =>
              PartSums(f, S)[T] = f[Pick(T)] + PartSums(f, S)[T \ {Pick(T)}]
<1> PICK g : g = PartSums(f, S)
  OBVIOUS
<1>1. g = SumStep(f, S, g)
  BY PartSumsExist
<1>2. \A T \in SUBSET S : SumStep(f, S, g)[T] =
        IF T = {} THEN 0 ELSE f[Pick(T)] + g[T \ {Pick(T)}]
  BY DEF SumStep
<1>3. {} \in SUBSET S
  OBVIOUS
<1> QED BY <1>1, <1>2, <1>3

(* Two functions that differ by d at one place, if at all, have sums that   *)
(* differ by d if the place is summed over, and equal sums otherwise.       *)
LEMMA SumChanges ==
  ASSUME NEW S, IsFiniteSet(S), NEW f, NEW g, NEW a, NEW d \in Int,
         \A x \in S : f[x] \in Int /\ g[x] = f[x] + (IF x = a THEN d ELSE 0)
  PROVE  /\ SumFunctionOnSet(f, S) \in Int
         /\ SumFunctionOnSet(g, S) = SumFunctionOnSet(f, S) + (IF a \in S THEN d ELSE 0)
<1> PICK F : F = PartSums(f, S)
  OBVIOUS
<1> PICK G : G = PartSums(g, S)
  OBVIOUS
<1> DEFINE Right(T) == F[T] \in Int /\ G[T] = F[T] + (IF a \in T THEN d ELSE 0)
           V == {n \in Nat : \E T \in SUBSET S : Cardinality(T) = n /\ ~Right(T)}
<1>1. V = {}
  <2>1. SUFFICES ASSUME V # {} PROVE FALSE
    OBVIOUS
  <2>2. V \subseteq Nat
    OBVIOUS
  <2> HIDE DEF V
  <2>3. PICK n \in V : \A m \in V : n <= m
    BY <2>1, <2>2, LeastNumber
  <2> HIDE DEF Right
  <2>4. PICK T \in SUBSET S : Cardinality(T) = n /\ ~Right(T)
    BY <2>3 DEF V
  <2>5. T # {}
    <3>1. F[{}] = 0 /\ G[{}] = 0
      BY PartSumsAre
    <3>2. Right({})
      BY <3>1 DEF Right
    <3> QED BY <2>4, <3>2
  <2> DEFINE e == Pick(T)
             U == T \ {e}
  <2>6. e \in T /\ e \in S /\ U \in SUBSET S /\ n \in Nat /\ Cardinality(U) = n - 1 /\ n # 0
    BY <2>4, <2>5, PickShrinks
  <2>7. Right(U)
    <3>1. n-1 \in Nat /\ n-1 \notin V
      BY <2>3, <2>6, <2>2
    <3> QED BY <2>6, <3>1 DEF V
  <2>8. F[T] = f[e] + F[U] /\ G[T] = g[e] + G[U]
    BY <2>5, PartSumsAre
  <2>9. f[e] \in Int /\ g[e] = f[e] + (IF e = a THEN d ELSE 0)
    BY <2>6
  <2>10. a \in T <=> a \in U \/ e = a
    BY <2>6
  <2>11. ~(a \in U /\ e = a)
    OBVIOUS
  <2> HIDE DEF e, U
  <2>12. Right(T)
    <3>1. CASE e = a
      BY <2>7, <2>8, <2>9, <2>10, <2>11, <3>1 DEF Right
    <3>2. CASE e # a
      BY <2>7, <2>8, <2>9, <2>10, <2>11, <3>2 DEF Right
    <3> QED BY <3>1, <3>2
  <2> QED BY <2>4, <2>12
<1>2. Cardinality(S) \in Nat
  BY FS_CardinalityType
<1>3. Right(S)
  BY <1>1, <1>2
<1> QED BY <1>3, SumIsPartSum

\* The sum of a constant.
LEMMA SumOfConstant ==
  ASSUME NEW S, IsFiniteSet(S), NEW f, NEW k \in Int, \A x \in S : f[x] = k
  PROVE  SumFunctionOnSet(f, S) = Cardinality(S) * k
<1> PICK F : F = PartSums(f, S)
  OBVIOUS
<1> DEFINE V == {n \in Nat : \E T \in SUBSET S : Cardinality(T) = n /\ F[T] # n * k}
<1>1. V = {}
  <2>1. SUFFICES ASSUME V # {} PROVE FALSE
    OBVIOUS
  <2>2. V \subseteq Nat
    OBVIOUS
  <2> HIDE DEF V
  <2>3. PICK n \in V : \A m \in V : n <= m
    BY <2>1, <2>2, LeastNumber
  <2>4. PICK T \in SUBSET S : Cardinality(T) = n /\ F[T] # n * k
    BY <2>3 DEF V
  <2>5. T # {}
    <3>1. F[{}] = 0 /\ Cardinality({}) = 0
      BY PartSumsAre, FS_EmptySet
    <3> QED BY <2>4, <3>1
  <2> DEFINE e == Pick(T)
             U == T \ {e}
  <2>6. e \in S /\ U \in SUBSET S /\ n \in Nat /\ Cardinality(U) = n - 1 /\ n # 0
    BY <2>4, <2>5, PickShrinks
  <2>7. F[U] = (n-1) * k
    <3>1. n-1 \in Nat /\ n-1 \notin V
      BY <2>3, <2>6, <2>2
    <3> QED BY <2>6, <3>1 DEF V
  <2>8. F[T] = f[e] + F[U] /\ f[e] = k
    BY <2>5, <2>6, PartSumsAre
  <2>9. k + (n-1) * k = n * k
    BY <2>6
  <2> QED BY <2>4, <2>7, <2>8, <2>9
<1>2. Cardinality(S) \in Nat
  BY FS_CardinalityType
<1>3. F[S] = Cardinality(S) * k
  BY <1>1, <1>2
<1> QED BY <1>3, SumIsPartSum

-----------------------------------------------------------------------------
(* The counters of planes, dies, chips and channels.                       *)

\* The blocks a counter counts.
Below(u) == {b \in Blocks : u \in Ancestors(b[1])}

\* CountersAgree, of the counters above the blocks.
UnitsAgree ==
  \A u \in Units :
    counts[u] = [freePageCount    |-> SumOf("freePageCount", Below(u)),
                 validPageCount   |-> SumOf("validPageCount", Below(u)),
                 invalidPageCount |-> SumOf("invalidPageCount", Below(u))]

LEMMA BelowFinite == \A u : IsFiniteSet(Below(u)) /\ Below(u) \subseteq Blocks
<1>1. IsFiniteSet(BlockNos)
  BY FS_Interval, Sizes DEF BlockNos
<1>2. IsFiniteSet(Blocks)
  BY <1>1, PlanesFinite, FS_Product DEF Blocks
<1>3. \A u : Below(u) \subseteq Blocks
  BY DEF Below
<1> QED BY <1>2, <1>3, FS_Subset

\* A sum over the blocks of a unit follows the one block that changes.
LEMMA SumFollows ==
  ASSUME TablesOK, NEW field \in {"freePageCount", "validPageCount", "invalidPageCount"},
         NEW block \in Blocks, NEW d \in Int, NEW u,
         blockInfos'[block][field] = blockInfos[block][field] + d,
         \A b \in Blocks : b # block => blockInfos'[b] = blockInfos[b]
  PROVE  /\ SumOf(field, Below(u)) \in Int
         /\ SumOf(field, Below(u))' =
              SumOf(field, Below(u)) + (IF u \in Ancestors(block[1]) THEN d ELSE 0)
<1> DEFINE old == [b \in Blocks |-> blockInfos[b][field]]
           new == [b \in Blocks |-> blockInfos'[b][field]]
<1>1. ASSUME NEW b \in Below(u)
      PROVE  old[b] \in Int /\ new[b] = old[b] + (IF b = block THEN d ELSE 0)
  <2>1. b \in Blocks
    BY BelowFinite
  <2>2. blockInfos[b] \in BlockInfo
    BY <2>1 DEF TablesOK
  <2>3. blockInfos[b][field] \in Int
    BY <2>2 DEF BlockInfo
  <2>4. CASE b = block
    BY <2>3, <2>4
  <2>5. CASE b # block
    BY <2>1, <2>3, <2>5
  <2> QED BY <2>4, <2>5
<1>2. SumOf(field, Below(u)) = SumFunctionOnSet(old, Below(u))
  BY DEF SumOf
<1>3. SumOf(field, Below(u))' = SumFunctionOnSet(new, Below(u))
  BY DEF SumOf, Below
<1>4. block \in Below(u) <=> u \in Ancestors(block[1])
  BY DEF Below
<1>5. IsFiniteSet(Below(u))
  BY BelowFinite
<1> HIDE DEF old, new
<1>6. \A b \in Below(u) : old[b] \in Int /\ new[b] = old[b] + (IF b = block THEN d ELSE 0)
  BY <1>1
<1>7. /\ SumFunctionOnSet(old, Below(u)) \in Int
      /\ SumFunctionOnSet(new, Below(u)) =
           SumFunctionOnSet(old, Below(u)) + (IF block \in Below(u) THEN d ELSE 0)
  BY <1>5, <1>6, SumChanges
<1> QED BY <1>2, <1>3, <1>4, <1>7

\* Shift keeps the counters of all units right, if the block changes as it says.
LEMMA ShiftKeepsUnits ==
  ASSUME TablesOK, UnitsAgree, NEW block \in Blocks,
         NEW dFree \in Int, NEW dValid \in Int, NEW dInvalid \in Int,
         Shift(block[1], dFree, dValid, dInvalid),
         blockInfos'[block].freePageCount = blockInfos[block].freePageCount + dFree,
         blockInfos'[block].validPageCount = blockInfos[block].validPageCount + dValid,
         blockInfos'[block].invalidPageCount = blockInfos[block].invalidPageCount + dInvalid,
         \A b \in Blocks : b # block => blockInfos'[b] = blockInfos[b]
  PROVE  UnitsAgree'
<1> SUFFICES ASSUME NEW u \in Units
             PROVE  counts'[u] = [freePageCount    |-> SumOf("freePageCount", Below(u))',
                                  validPageCount   |-> SumOf("validPageCount", Below(u))',
                                  invalidPageCount |-> SumOf("invalidPageCount", Below(u))']
  BY DEF UnitsAgree
<1> PICK above \in BOOLEAN : above <=> u \in Ancestors(block[1])
  OBVIOUS
<1>1. /\ SumOf("freePageCount", Below(u)) \in Int
      /\ SumOf("freePageCount", Below(u))' =
           SumOf("freePageCount", Below(u)) + (IF above THEN dFree ELSE 0)
  BY SumFollows
<1>2. /\ SumOf("validPageCount", Below(u)) \in Int
      /\ SumOf("validPageCount", Below(u))' =
           SumOf("validPageCount", Below(u)) + (IF above THEN dValid ELSE 0)
  BY SumFollows
<1>3. /\ SumOf("invalidPageCount", Below(u)) \in Int
      /\ SumOf("invalidPageCount", Below(u))' =
           SumOf("invalidPageCount", Below(u)) + (IF above THEN dInvalid ELSE 0)
  BY SumFollows
<1>4. counts[u] = [freePageCount    |-> SumOf("freePageCount", Below(u)),
                   validPageCount   |-> SumOf("validPageCount", Below(u)),
                   invalidPageCount |-> SumOf("invalidPageCount", Below(u))]
  BY DEF UnitsAgree
<1>5. counts'[u] = IF above
                   THEN [freePageCount    |-> counts[u].freePageCount + dFree,
                         validPageCount   |-> counts[u].validPageCount + dValid,
                         invalidPageCount |-> counts[u].invalidPageCount + dInvalid]
                   ELSE counts[u]
  BY DEF Shift
<1>6. CASE above
  BY <1>1, <1>2, <1>3, <1>4, <1>5, <1>6
<1>7. CASE ~above
  BY <1>1, <1>2, <1>3, <1>4, <1>5, <1>7
<1> QED BY <1>6, <1>7

\* Nothing moves: the counters stay as they are.
LEMMA UnitsKept ==
  ASSUME UnitsAgree, UNCHANGED <<counts, blockInfos>>
  PROVE  UnitsAgree'
BY DEF UnitsAgree, SumOf, Below

LEMMA ProgramKeepsUnits ==
  ASSUME TablesOK, UnitsAgree, NEW plane \in Planes, allocate_location_in_plane(plane)
  PROVE  UnitsAgree'
<1> PICK block : block = <<plane, activeBlock[plane]>>
  OBVIOUS
<1>1. /\ block \in Blocks /\ block[1] = plane
      /\ blockInfos'[block] =
           [freePageCount    |-> blockInfos[block].freePageCount - 1,
            validPageCount   |-> blockInfos[block].validPageCount + 1,
            invalidPageCount |-> blockInfos[block].invalidPageCount,
            startWrite       |-> blockInfos[block].startWrite + 1]
      /\ \A b \in Blocks : b # block => blockInfos'[b] = blockInfos[b]
  BY AllocateCounts
<1>2. blockInfos[block] \in BlockInfo
  BY <1>1 DEF TablesOK
<1>3. /\ blockInfos'[block].freePageCount = blockInfos[block].freePageCount + (-1)
      /\ blockInfos'[block].validPageCount = blockInfos[block].validPageCount + 1
      /\ blockInfos'[block].invalidPageCount = blockInfos[block].invalidPageCount + 0
  BY <1>1, <1>2 DEF BlockInfo
<1>4. Shift(block[1], -1, 1, 0)
  BY <1>1 DEF allocate_location_in_plane
<1> QED BY <1>1, <1>3, <1>4, ShiftKeepsUnits

LEMMA UpdateKeepsUnits ==
  ASSUME TablesOK, UnitsAgree, NEW sub \in CommandOf, sub.lpn \in HostLPNs,
         update_Map_and_invilate_page(sub)
  PROVE  UnitsAgree'
<1> DEFINE pages == [pageInfos EXCEPT
                       ![sub.location] = [state |-> sub.bitMap, lpn |-> sub.lpn]]
<1>1. \/ UNCHANGED <<blockInfos, counts>>
      \/ \E old \in get_PPN_Detail(map[sub.lpn].ppn) : invilate_page(old, pages)
  BY DEF update_Map_and_invilate_page
<1> HIDE DEF pages
<1>2. ASSUME NEW old \in get_PPN_Detail(map[sub.lpn].ppn), invilate_page(old, pages)
      PROVE  UnitsAgree'
  <2> PICK block : block = <<old[1], old[2]>>
    OBVIOUS
  <2>1. old \in Locations
    BY PageNumbers
  <2>2. block \in Blocks /\ block[1] = old[1]
    BY <2>1 DEF Locations, Blocks
  <2>3. blockInfos' = [blockInfos EXCEPT ![block].validPageCount   = @ - 1,
                                         ![block].invalidPageCount = @ + 1]
    BY <1>2 DEF invilate_page
  <2>4. blockInfos[block] \in BlockInfo
    BY <2>2 DEF TablesOK
  <2>5. /\ blockInfos'[block] = [blockInfos[block] EXCEPT !.validPageCount   = @ - 1,
                                                          !.invalidPageCount = @ + 1]
        /\ \A b \in Blocks : b # block => blockInfos'[b] = blockInfos[b]
    BY <2>2, <2>3 DEF TablesOK
  <2>6. /\ blockInfos'[block].freePageCount = blockInfos[block].freePageCount + 0
        /\ blockInfos'[block].validPageCount = blockInfos[block].validPageCount + (-1)
        /\ blockInfos'[block].invalidPageCount = blockInfos[block].invalidPageCount + 1
    BY <2>4, <2>5 DEF BlockInfo
  <2>7. Shift(block[1], 0, -1, 1)
    BY <1>2, <2>2 DEF invilate_page
  <2>8. \A b \in Blocks : b # block => blockInfos'[b] = blockInfos[b]
    BY <2>5
  <2> QED BY <2>2, <2>6, <2>7, <2>8, ShiftKeepsUnits
<1> QED BY <1>1, <1>2, UnitsKept

\* The erased block was full of invalid pages: they are what becomes free.
LEMMA EraseKeepsUnits ==
  ASSUME TablesOK, UnitsAgree, BlocksAgree, NEW p \in Planes, NEW n \in BlockNos,
         erase_block(p, n), blockInfos[<<p, n>>].freePageCount = 0,
         blockInfos[<<p, n>>].invalidPageCount = pageOfBlock
  PROVE  UnitsAgree'
<1> PICK block : block = <<p, n>>
  OBVIOUS
<1>1. block \in Blocks /\ block[1] = p
  BY DEF Blocks
<1>2. /\ blockInfos'[block] = [freePageCount |-> pageOfBlock, validPageCount |-> 0,
                               invalidPageCount |-> 0, startWrite |-> 0]
      /\ \A b \in Blocks : b # block => blockInfos'[b] = blockInfos[b]
  BY <1>1 DEF erase_block, TablesOK
<1>3. blockInfos[block] \in BlockInfo
  BY <1>1 DEF TablesOK
<1>4. blockInfos[block].validPageCount = 0 /\ pageOfBlock \in Int
  BY <1>1, <1>3, Sizes DEF BlocksAgree, BlockInfo
<1>5. /\ blockInfos'[block].freePageCount = blockInfos[block].freePageCount + pageOfBlock
      /\ blockInfos'[block].validPageCount = blockInfos[block].validPageCount + 0
      /\ blockInfos'[block].invalidPageCount =
           blockInfos[block].invalidPageCount + (-pageOfBlock)
  BY <1>2, <1>3, <1>4 DEF BlockInfo
<1>6. Shift(block[1], pageOfBlock, 0, -pageOfBlock)
  BY <1>1 DEF erase_block
<1> QED BY <1>1, <1>2, <1>4, <1>5, <1>6, ShiftKeepsUnits

LEMMA InitUnits == Init => UnitsAgree
<1> SUFFICES ASSUME Init, NEW u \in Units
             PROVE  counts[u] = [freePageCount    |-> SumOf("freePageCount", Below(u)),
                                 validPageCount   |-> SumOf("validPageCount", Below(u)),
                                 invalidPageCount |-> SumOf("invalidPageCount", Below(u))]
  BY DEF UnitsAgree
<1> PICK planes : planes = {p \in Planes : u \in Ancestors(p)}
  OBVIOUS
<1>1. /\ IsFiniteSet(planes) /\ Cardinality(planes) \in Nat
      /\ IsFiniteSet(BlockNos) /\ Cardinality(BlockNos) = blockOfPlane
  <2>1. IsFiniteSet(planes)
    <3>1. planes \subseteq Planes
      OBVIOUS
    <3> QED BY <3>1, PlanesFinite, FS_Subset
  <2>2. \A m \in Nat : IsFiniteSet(0..m-1) /\ Cardinality(0..m-1) = m
    BY FS_Interval
  <2> QED BY <2>1, <2>2, FS_CardinalityType, Sizes DEF BlockNos
<1>2. Below(u) = planes \X BlockNos
  BY DEF Below, Blocks
<1>3. Cardinality(Below(u)) = Cardinality(planes) * blockOfPlane
  BY <1>1, <1>2, FS_Product
<1>4. /\ IsFiniteSet(Below(u)) /\ Below(u) \subseteq Blocks /\ pageOfBlock \in Int
      /\ Cardinality(Below(u)) \in Nat
  BY BelowFinite, Sizes, FS_CardinalityType
<1>5. \A b \in Below(u) :
        blockInfos[b] = [freePageCount |-> pageOfBlock, validPageCount |-> 0,
                         invalidPageCount |-> 0, startWrite |-> 0]
  BY <1>4 DEF Init
<1>6. /\ SumOf("freePageCount", Below(u)) = Cardinality(Below(u)) * pageOfBlock
      /\ SumOf("validPageCount", Below(u)) = Cardinality(Below(u)) * 0
      /\ SumOf("invalidPageCount", Below(u)) = Cardinality(Below(u)) * 0
  <2>1. SumOf("freePageCount", Below(u)) = Cardinality(Below(u)) * pageOfBlock
    <3> DEFINE f == [b \in Blocks |-> blockInfos[b].freePageCount]
    <3>1. \A b \in Below(u) : f[b] = pageOfBlock
      BY <1>4, <1>5
    <3>2. SumOf("freePageCount", Below(u)) = SumFunctionOnSet(f, Below(u))
      BY DEF SumOf
    <3> HIDE DEF f
    <3> QED BY <1>4, <3>1, <3>2, SumOfConstant
  <2>2. SumOf("validPageCount", Below(u)) = Cardinality(Below(u)) * 0
    <3> DEFINE f == [b \in Blocks |-> blockInfos[b].validPageCount]
    <3>1. \A b \in Below(u) : f[b] = 0
      BY <1>4, <1>5
    <3>2. SumOf("validPageCount", Below(u)) = SumFunctionOnSet(f, Below(u))
      BY DEF SumOf
    <3> HIDE DEF f
    <3> QED BY <1>4, <3>1, <3>2, SumOfConstant
  <2>3. SumOf("invalidPageCount", Below(u)) = Cardinality(Below(u)) * 0
    <3> DEFINE f == [b \in Blocks |-> blockInfos[b].invalidPageCount]
    <3>1. \A b \in Below(u) : f[b] = 0
      BY <1>4, <1>5
    <3>2. SumOf("invalidPageCount", Below(u)) = SumFunctionOnSet(f, Below(u))
      BY DEF SumOf
    <3> HIDE DEF f
    <3> QED BY <1>4, <3>1, <3>2, SumOfConstant
  <2> QED BY <2>1, <2>2, <2>3
<1>7. counts[u] = [freePageCount    |-> Cardinality(planes) * page_no_per_plane,
                   validPageCount   |-> 0, invalidPageCount |-> 0]
  BY DEF Init
<1>8. Cardinality(planes) * page_no_per_plane = Cardinality(Below(u)) * pageOfBlock
  BY <1>1, <1>3, Sizes DEF page_no_per_plane
<1>9. Cardinality(Below(u)) * 0 = 0
  BY <1>4
<1> QED BY <1>6, <1>7, <1>8, <1>9

LEMMA NextKeepsUnits ==
  ASSUME IInv, NoneRefused, CInv, UnitsAgree, [Next]_vars
  PROVE  UnitsAgree'
<1>1. CASE UNCHANGED vars
  BY <1>1, UnitsKept DEF vars, tables
<1>2. CASE Next
  <2>1. PICK c \in Chips : Dispatch(c) \/ Complete(c) \/ check_and_create_gc(c)
    BY <1>2 DEF Next
  <2>2. ~spinning /\ TablesOK /\ QueuesOK
    BY <1>2, TypeParts DEF Next, IInv
  <2>3. CASE Dispatch(c)
    <3>1. chipState[c] = "IDLE"
      BY <2>3 DEF Dispatch
    <3>2. DispatchReadData(c) \/ DispatchErase(c) => UNCHANGED <<counts, blockInfos>>
      BY DEF DispatchReadData, DispatchErase, tables
    <3>3. DispatchCopyRead(c) => UNCHANGED <<counts, blockInfos>>
      BY <3>1, CopyReadStarts DEF tables
    <3>4. DispatchCopyWrite(c) => \E plane \in Planes : allocate_location_in_plane(plane)
      BY <2>2, <3>1, CopyWriteStarts DEF StartsProgram, PlanesOf
    <3>5. DispatchHostWrite(c) => \E plane \in Planes : allocate_location_in_plane(plane)
      BY <2>2, <3>1, HostWriteStarts DEF StartsProgram, PlanesOf
    <3> QED BY <2>2, <2>3, <3>2, <3>3, <3>4, <3>5, UnitsKept, ProgramKeepsUnits
            DEF Dispatch, DispatchPending
  <2>4. CASE CompleteProgram(c)
    <3> PICK sub : sub = cmd[inflight[c]]
      OBVIOUS
    <3>1. sub \in CommandOf /\ update_Map_and_invilate_page(sub)
      BY <2>2, <2>4 DEF QueuesOK, CompleteProgram
    <3>2. sub.lpn \in HostLPNs
      BY <2>4 DEF CInv, ChipOK, WriteOK, CompleteProgram
    <3> QED BY <2>2, <3>1, <3>2, UpdateKeepsUnits
  <2>5. CASE CompleteErase(c)
    <3> PICK p : p = inflight[c]
      OBVIOUS
    <3>1. /\ chipState[c] = "ERASE" /\ eraseCommands[c] # <<>> /\ Collected(c) = p
          /\ erase_block(p, eraseBlock[p])
      BY <2>5 DEF IInv, QueuesMatchChip, CompleteErase, Collected
    <3>2. p \in PlanesOf(c) /\ p \in Planes /\ eraseUsed[p] /\ eraseBlock[p] \in BlockNos
      BY <2>2, <3>1, HeadIsUsed DEF PlanesOf, QueuesOK
    <3>3. /\ blockInfos[<<p, eraseBlock[p]>>].invalidPageCount = pageOfBlock
          /\ blockInfos[<<p, eraseBlock[p]>>].freePageCount = 0 /\ BlocksAgree
      BY <3>1, <3>2 DEF CInv, DataOK, ChipOK, EraseOK, VictimOK, AllInvalid
    <3> QED BY <2>2, <3>1, <3>2, <3>3, EraseKeepsUnits
  <2>6. CompleteReadAddr(c) \/ CompleteReadData(c) \/ check_and_create_gc(c)
          => UNCHANGED <<counts, blockInfos>>
    BY DEF CompleteReadAddr, CompleteReadData, check_and_create_gc, tables
  <2> QED BY <2>1, <2>3, <2>4, <2>5, <2>6, UnitsKept DEF Complete
<1> QED BY <1>1, <1>2

(* Every counter is right, as long as no number is refused: those of a      *)
(* block are the census of its pages, and those of a plane, die, chip and   *)
(* channel, which each step moves by a few pages, are the sums over the     *)
(* blocks below it.                                                         *)
THEOREM AllCounted == Spec /\ []NoneRefused => []CountersAgree
<1>1. UnitsAgree /\ BlocksAgree => CountersAgree
  BY DEF UnitsAgree, CountersAgree, Below
<1>2. IInv /\ NoneRefused /\ CInv /\ UnitsAgree /\ [Next]_vars => UnitsAgree'
  BY NextKeepsUnits
<1> QED BY <1>1, <1>2, InitUnits, Invariance, CollectionInvariance, BlocksCounted, PTL
        DEF Spec

(* On a device whose announced pages are all its pages no number is refused, *)
(* and the hypothesis falls away.                                            *)
THEOREM WithoutRefusals ==
  ASSUME PPNs \subseteq LPNs
  PROVE  Spec => [](MapAndPagesAgree /\ CountersAgree /\ EraseIsSafe /\ CopyIsCurrent)
<1>1. TypeOK => NoneRefused
  BY DEF TypeOK, NoneRefused
<1> QED BY <1>1, TypeCorrect, MapAgrees, AllCounted, SafeErase, CurrentCopy, PTL

-----------------------------------------------------------------------------
(***************************************************************************)
(* There is always room.                                                   *)
(*                                                                         *)
(* A plane needs its free pages for three things: a write of the host that *)
(* check_and_create_gc has not seen yet, the copies of a collection, and   *)
(* the page that keeps the search for the next active block from failing.  *)
(* Whether it has them is a matter of counting.  Suppose a plane has a     *)
(* block's worth of pages free, or less.  They are all in its active       *)
(* block, so every other block is full (PlaneNearlyFull); if each of them  *)
(* had at most one invalid page, the host would have                       *)
(* (blockOfPlane-1)(pageOfBlock-1) logical pages there, which EnoughRoom   *)
(* excludes (VictimExists).  So a collection that begins gives back the    *)
(* page, or two, that the plane is short of.  RoomIn says so in every      *)
(* state: outside a collection more than a block's worth is free, but for  *)
(* the page the host took last; in one, but for the invalid pages of its   *)
(* block, each copy turning one free page into one invalid page.  A page   *)
(* being programmed is in no block's invalid count and holds no data yet:  *)
(* LastAllocated finds it in the active block.  RoomInv, with IInv and CInv,  *)
(* is inductive.                                                           *)
(***************************************************************************)

\* The logical pages the host writes that belong on the plane.
PagesOfHost(p) == {lpn \in HostLPNs : allocate_location_for_plane(lpn) = p}

\* There are fewer of them than fill all blocks but one up to one page each, and
\* collection begins while a block's worth of pages is free.
EnoughRoom ==
  /\ GC_RATE <= blockOfPlane
  /\ \A p \in Planes :
       Cardinality(PagesOfHost(p)) < (blockOfPlane - 1) * (pageOfBlock - 1)

LEMMA HostPagesFinite ==
  \A p : IsFiniteSet(PagesOfHost(p)) /\ Cardinality(PagesOfHost(p)) \in Nat
<1>1. IsFiniteSet(LPNs)
  BY PageNumbers, FS_Interval DEF LPNs
<1>2. \A p : PagesOfHost(p) \in SUBSET LPNs
  BY FlashAssumption DEF PagesOfHost
<1>3. \A p : IsFiniteSet(PagesOfHost(p))
  BY <1>1, <1>2, FS_Subset
<1> QED BY <1>3, FS_CardinalityType

LEMMA RoomNumbers ==
  ASSUME EnoughRoom
  PROVE  /\ pageOfBlock \in Nat /\ blockOfPlane \in Nat
         /\ pageOfBlock >= 2 /\ blockOfPlane >= 2
         /\ page_no_per_plane >= pageOfBlock + 2
         /\ (pageOfBlock * blockOfPlane) \div GC_RATE \in Nat
         /\ (pageOfBlock * blockOfPlane) \div GC_RATE >= pageOfBlock
<1> PICK B \in Nat \ {0} : B = pageOfBlock
  BY Sizes
<1> PICK N \in Nat \ {0} : N = blockOfPlane
  BY Sizes
<1> PICK R \in Nat \ {0} : R = GC_RATE
  BY FlashAssumption
<1>1. <<0, 0, 0, 0>> \in Planes
  BY Sizes DEF Planes
<1>2. PICK L \in Nat : L < (N - 1) * (B - 1)
  BY <1>1, HostPagesFinite DEF EnoughRoom
<1>3. N >= 2 /\ B >= 2
  <2>1. N # 1
    BY <1>2
  <2>2. B # 1
    BY <1>2
  <2> QED BY <2>1, <2>2
<1>4. B * N \in Nat /\ B * N >= B + 2
  <2>1. B * N = B * (N - 1) + B /\ B * (N - 1) \in Nat
    BY <1>3
  <2>2. B * (N - 1) >= B
    <3>1. B * (N - 1) = B * (N - 2) + B /\ B * (N - 2) \in Nat
      BY <1>3
    <3> QED BY <3>1
  <2> QED BY <1>3, <2>1, <2>2
<1>5. (B * N) \div R \in Nat /\ (B * N) \div R >= B
  <2> DEFINE q == (B * N) \div R
             r == (B * N) % R
  <2>1. q \in Nat /\ r \in 0..R-1 /\ B * N = R * q + r
    BY <1>4
  <2>2. B * R <= B * N
    <3>1. R <= N
      BY DEF EnoughRoom
    <3>2. B * N = B * R + B * (N - R) /\ B * (N - R) \in Nat
      BY <3>1
    <3> QED BY <3>2
  <2> HIDE DEF q, r
  <2>3. SUFFICES ASSUME q < B PROVE FALSE
    BY <2>1 DEF q
  <2>4. R * q + R <= B * R
    <3>1. R * B = R * q + R * (B - q)
      BY <2>1
    <3>2. R * (B - q) = R * (B - q - 1) + R /\ R * (B - q - 1) \in Nat
      BY <2>1, <2>3
    <3>3. R * B = B * R
      OBVIOUS
    <3> QED BY <2>1, <3>1, <3>2, <3>3
  <2> QED BY <2>1, <2>2, <2>4
<1>6. page_no_per_plane = B * N
  BY DEF page_no_per_plane
<1> QED BY <1>3, <1>4, <1>5, <1>6

-----------------------------------------------------------------------------
\* The sum of natural numbers is not less than any two of them.
LEMMA SumOfNaturals ==
  ASSUME NEW S, IsFiniteSet(S), NEW f, \A x \in S : f[x] \in Nat
  PROVE  SumFunctionOnSet(f, S) \in Nat
<1> PICK F : F = PartSums(f, S)
  OBVIOUS
<1> DEFINE V == {n \in Nat : \E T \in SUBSET S : Cardinality(T) = n /\ F[T] \notin Nat}
<1>1. V = {}
  <2>1. SUFFICES ASSUME V # {} PROVE FALSE
    OBVIOUS
  <2>2. V \subseteq Nat
    OBVIOUS
  <2> HIDE DEF V
  <2>3. PICK n \in V : \A m \in V : n <= m
    BY <2>1, <2>2, LeastNumber
  <2>4. n \in Nat /\ \E T \in SUBSET S : Cardinality(T) = n /\ F[T] \notin Nat
    BY <2>3 DEF V
  <2>5. PICK T \in SUBSET S : Cardinality(T) = n /\ F[T] \notin Nat
    BY <2>4
  <2>6. T # {}
    <3>1. F[{}] = 0
      BY PartSumsAre
    <3> QED BY <2>5, <3>1
  <2>7. /\ Pick(T) \in S /\ T \ {Pick(T)} \in SUBSET S
        /\ Cardinality(T \ {Pick(T)}) = n - 1 /\ n - 1 \in Nat
    BY <2>5, <2>6, PickShrinks
  <2>8. F[T] = f[Pick(T)] + F[T \ {Pick(T)}]
    BY <2>6, PartSumsAre
  <2>9. F[T \ {Pick(T)}] \in Nat
    <3>1. n - 1 \notin V
      BY <2>3, <2>4
    <3> QED BY <2>7, <3>1 DEF V
  <2>10. f[Pick(T)] \in Nat
    BY <2>7
  <2> QED BY <2>5, <2>8, <2>9, <2>10
<1>2. S \in SUBSET S /\ Cardinality(S) \in Nat
  BY FS_CardinalityType
<1>3. F[S] \in Nat
  BY <1>1, <1>2
<1> QED BY <1>3, SumIsPartSum

LEMMA SumWithout ==
  ASSUME NEW S, IsFiniteSet(S), NEW f, NEW g, NEW a \in S,
         \A x \in S : f[x] \in Int /\ g[x] = IF x = a THEN 0 ELSE f[x]
  PROVE  /\ SumFunctionOnSet(f, S) \in Int
         /\ SumFunctionOnSet(g, S) = SumFunctionOnSet(f, S) - f[a]
<1>1. ASSUME NEW d \in Int, \A x \in S : f[x] \in Int /\ g[x] = f[x] + (IF x = a THEN d ELSE 0)
      PROVE  /\ SumFunctionOnSet(f, S) \in Int
             /\ SumFunctionOnSet(g, S) = SumFunctionOnSet(f, S) + (IF a \in S THEN d ELSE 0)
  BY <1>1, SumChanges
<1>2. -f[a] \in Int
  OBVIOUS
<1>3. \A x \in S : f[x] \in Int /\ g[x] = f[x] + (IF x = a THEN -f[a] ELSE 0)
  OBVIOUS
<1>4. /\ SumFunctionOnSet(f, S) \in Int
      /\ SumFunctionOnSet(g, S) = SumFunctionOnSet(f, S) + (IF a \in S THEN -f[a] ELSE 0)
  BY <1>1, <1>2, <1>3
<1> QED BY <1>4

LEMMA SumOfTwo ==
  ASSUME NEW S, IsFiniteSet(S), NEW f, \A x \in S : f[x] \in Nat, NEW a \in S
  PROVE  /\ \A b \in S : b # a => SumFunctionOnSet(f, S) >= f[a] + f[b]
         /\ (\A x \in S : x # a => f[x] = 0) => SumFunctionOnSet(f, S) = f[a]
<1> PICK g : g = [x \in S |-> IF x = a THEN 0 ELSE f[x]]
  OBVIOUS
<1>1. \A x \in S : f[x] \in Int /\ g[x] \in Nat /\ g[x] = IF x = a THEN 0 ELSE f[x]
  OBVIOUS
<1>2. SumFunctionOnSet(f, S) \in Int /\ SumFunctionOnSet(g, S) = SumFunctionOnSet(f, S) - f[a]
  BY <1>1, SumWithout
<1>3. ASSUME NEW b \in S, b # a
      PROVE  SumFunctionOnSet(f, S) >= f[a] + f[b]
  <2> PICK h : h = [x \in S |-> IF x = b THEN 0 ELSE g[x]]
    OBVIOUS
  <2>1. \A x \in S : g[x] \in Int /\ h[x] \in Nat /\ h[x] = IF x = b THEN 0 ELSE g[x]
    BY <1>1
  <2>2. SumFunctionOnSet(g, S) \in Int /\ SumFunctionOnSet(h, S) = SumFunctionOnSet(g, S) - g[b]
    BY <2>1, SumWithout
  <2>3. SumFunctionOnSet(h, S) \in Nat
    BY <2>1, SumOfNaturals
  <2>4. g[b] = f[b] /\ f[b] \in Nat
    BY <1>1, <1>3
  <2> QED BY <1>2, <2>2, <2>3, <2>4
<1>4. ASSUME \A x \in S : x # a => f[x] = 0
      PROVE  SumFunctionOnSet(f, S) = f[a]
  <2>1. \A x \in S : g[x] = 0
    BY <1>4
  <2>2. SumFunctionOnSet(g, S) = Cardinality(S) * 0
    BY <2>1, SumOfConstant
  <2>3. Cardinality(S) \in Nat
    BY FS_CardinalityType
  <2> QED BY <1>2, <2>2, <2>3
<1> QED BY <1>3, <1>4

\* The blocks of a plane, and their free pages.
LEMMA BlocksOfPlane ==
  ASSUME NEW p \in Planes
  PROVE  /\ p \in Units
         /\ \A b : b \in Below(p) <=> b \in Blocks /\ b[1] = p
         /\ \A q \in Planes : p \in Ancestors(q) <=> q = p
<1>1. \A q \in Planes : DOMAIN q = 1..4
  BY DEF Planes
<1>2. ASSUME NEW q \in Planes, p \in Ancestors(q) PROVE q = p
  <2>1. /\ DOMAIN <<q[1]>> = 1..1 /\ DOMAIN <<q[1], q[2]>> = 1..2
        /\ DOMAIN <<q[1], q[2], q[3]>> = 1..3
    OBVIOUS
  <2>2. 4 \in 1..4 /\ 4 \notin 1..1 /\ 4 \notin 1..2 /\ 4 \notin 1..3
    OBVIOUS
  <2> QED BY <1>1, <1>2, <2>1, <2>2 DEF Ancestors
<1>3. \A q \in Planes : q \in Ancestors(q)
  BY DEF Ancestors
<1>4. p \in Units
  BY <1>3 DEF Units
<1>5. \A b \in Blocks : b[1] \in Planes
  BY DEF Blocks
<1> QED BY <1>2, <1>3, <1>4, <1>5 DEF Below

LEMMA FreePages ==
  ASSUME TablesOK, BlocksInOrder, FreeIsUnwritten, UnitsAgree, NEW p \in Planes, NEW n \in BlockNos
  PROVE  LET free(m) == blockInfos[<<p, m>>].freePageCount
         IN /\ counts[p].freePageCount \in Nat /\ \A m \in BlockNos : free(m) \in Nat
            /\ \A m \in BlockNos : m # n => counts[p].freePageCount >= free(n) + free(m)
            /\ (\A m \in BlockNos : m # n => free(m) = 0) => counts[p].freePageCount = free(n)
<1> DEFINE f == [b \in Blocks |-> blockInfos[b]["freePageCount"]]
           S == Below(p)
<1>1. \A b \in Blocks : f[b] = blockInfos[b].freePageCount
  OBVIOUS
<1>2. \A b \in Blocks : f[b] \in Nat
  <2>1. \A b \in Blocks : blockInfos[b].startWrite \in 0..pageOfBlock
    BY DEF BlocksInOrder
  <2> QED BY <1>1, <2>1, Sizes DEF FreeIsUnwritten
<1>3. counts[p].freePageCount = SumFunctionOnSet(f, S)
  <2>1. SumOf("freePageCount", Below(p)) = SumFunctionOnSet(f, S)
    BY DEF SumOf
  <2>2. counts[p] = [freePageCount    |-> SumOf("freePageCount", Below(p)),
                     validPageCount   |-> SumOf("validPageCount", Below(p)),
                     invalidPageCount |-> SumOf("invalidPageCount", Below(p))]
    BY BlocksOfPlane DEF UnitsAgree
  <2> HIDE DEF f, S
  <2> QED BY <2>1, <2>2
<1>4. /\ \A m \in BlockNos : <<p, m>> \in S /\ <<p, m>> \in Blocks
      /\ \A m \in BlockNos : m # n => <<p, m>> # <<p, n>>
      /\ \A b \in S : b \in Blocks /\ \E m \in BlockNos : b = <<p, m>>
  BY BlocksOfPlane DEF Blocks
<1>5. IsFiniteSet(S)
  BY BelowFinite
<1> HIDE DEF f, S
<1>6. SumFunctionOnSet(f, S) \in Nat
  BY <1>2, <1>4, <1>5, SumOfNaturals
<1>7. \A m \in BlockNos : m # n =>
        SumFunctionOnSet(f, S) >= f[<<p, n>>] + f[<<p, m>>]
  BY <1>2, <1>4, <1>5, SumOfTwo
<1>8. (\A m \in BlockNos : m # n => f[<<p, m>>] = 0) => SumFunctionOnSet(f, S) = f[<<p, n>>]
  <2>1. SUFFICES ASSUME \A m \in BlockNos : m # n => f[<<p, m>>] = 0
                 PROVE  SumFunctionOnSet(f, S) = f[<<p, n>>]
    OBVIOUS
  <2>2. \A b \in S : b # <<p, n>> => f[b] = 0
    BY <1>4, <2>1
  <2> QED BY <1>2, <1>4, <1>5, <2>2, SumOfTwo
<1> QED BY <1>1, <1>2, <1>3, <1>4, <1>6, <1>7, <1>8

\* A plane with no more than a block's worth of free pages has them in its
\* active block.
LEMMA PlaneNearlyFull ==
  ASSUME IInv, UnitsAgree, ~spinning, NEW p \in Planes,
         counts[p].freePageCount <= pageOfBlock
  PROVE  LET a == activeBlock[p]
         IN /\ blockInfos[<<p, a>>].startWrite = pageOfBlock - counts[p].freePageCount
            /\ \A m \in BlockNos : m # a => /\ blockInfos[<<p, m>>].startWrite = pageOfBlock
                                            /\ blockInfos[<<p, m>>].freePageCount = 0
<1> PICK a \in BlockNos : a = activeBlock[p]
  BY TypeParts DEF IInv, TablesOK
<1>1. TablesOK /\ BlocksInOrder /\ FreeIsUnwritten
  BY TypeParts, WriteFrontierParts DEF IInv
<1>2. \A m \in BlockNos :
        /\ <<p, m>> \in Blocks
        /\ blockInfos[<<p, m>>].startWrite \in 0..pageOfBlock
        /\ blockInfos[<<p, m>>].freePageCount = pageOfBlock - blockInfos[<<p, m>>].startWrite
        /\ m = a => blockInfos[<<p, m>>].startWrite # pageOfBlock
        /\ m # a => blockInfos[<<p, m>>].startWrite \in {0, pageOfBlock}
  <2>1. \A m \in BlockNos : <<p, m>> \in Blocks
    BY DEF Blocks
  <2> QED BY <1>1, <2>1 DEF BlocksInOrder, FreeIsUnwritten
<1>3. ASSUME NEW m \in BlockNos, m # a
      PROVE  /\ blockInfos[<<p, m>>].startWrite = pageOfBlock
             /\ blockInfos[<<p, m>>].freePageCount = 0
  <2>1. /\ counts[p].freePageCount \in Nat
        /\ counts[p].freePageCount >=
             blockInfos[<<p, a>>].freePageCount + blockInfos[<<p, m>>].freePageCount
    BY <1>1, <1>3, FreePages
  <2>2. blockInfos[<<p, a>>].freePageCount \in Nat \ {0}
    BY <1>2, Sizes
  <2> QED BY <1>2, <1>3, <2>1, <2>2, Sizes
<1>4. counts[p].freePageCount = blockInfos[<<p, a>>].freePageCount
  BY <1>1, <1>3, FreePages
<1> QED BY <1>2, <1>3, <1>4, Sizes

\* The page that is programmed is the last one allocated in its plane.
LastOf(c) ==
  chipState[c] = "PROGRAM" =>
    LET loc    == cmd[inflight[c]].location
        active == activeBlock[loc[1]]
    IN blockInfos[<<loc[1], active>>].startWrite # 0 => loc[2] = active
LastAllocated == \A c \in Chips : LastOf(c)

\* Disjoint sets of m elements or more have together m times as many.
LEMMA CountOfDisjoint ==
  ASSUME NEW S, IsFiniteSet(S), NEW m \in Nat, NEW C, NEW U, IsFiniteSet(U),
         \A b \in S : C[b] \subseteq U /\ Cardinality(C[b]) >= m,
         \A a \in S, b \in S : a # b => C[a] \cap C[b] = {}
  PROVE  Cardinality(S) * m <= Cardinality(U)
<1>1. ASSUME NEW b \in S PROVE \E e : e \in Injection(1..m, C[b])
  <2>1. IsFiniteSet(C[b]) /\ Cardinality(C[b]) >= m
    BY FS_Subset
  <2>2. PICK f : f \in Bijection(1..Cardinality(C[b]), C[b])
    BY <2>1, FS_CardinalityType DEF ExistsBijection
  <2>3. Cardinality(C[b]) \in Nat
    BY <2>1, FS_CardinalityType
  <2> PICK k \in Nat : k = Cardinality(C[b])
    BY <2>3
  <2>4. 1..m \subseteq 1..k
    BY <2>1
  <2>5. f \in [1..k -> C[b]] /\ \A i \in 1..k, j \in 1..k : f[i] = f[j] => i = j
    BY <2>2 DEF Bijection, Injection, IsInjective
  <2>6. [i \in 1..m |-> f[i]] \in [1..m -> C[b]]
    BY <2>4, <2>5
  <2>7. \A i \in 1..m, j \in 1..m :
          [l \in 1..m |-> f[l]][i] = [l \in 1..m |-> f[l]][j] => i = j
    BY <2>4, <2>5
  <2> QED BY <2>6, <2>7 DEF Injection, IsInjective
<1> DEFINE pickOne(b) == CHOOSE e : e \in Injection(1..m, C[b])
           h == [t \in S \X (1..m) |-> pickOne(t[1])[t[2]]]
<1>2. \A b \in S : pickOne(b) \in Injection(1..m, C[b])
  BY <1>1
<1> HIDE DEF pickOne
<1>3. \A b \in S : /\ \A i \in 1..m : pickOne(b)[i] \in C[b]
                   /\ \A i \in 1..m, j \in 1..m : pickOne(b)[i] = pickOne(b)[j] => i = j
  BY <1>2 DEF Injection, IsInjective
<1>4. h \in [S \X (1..m) -> U]
  BY <1>3
<1>5. ASSUME NEW s \in S \X (1..m), NEW t \in S \X (1..m), h[s] = h[t]
      PROVE  s = t
  <2>1. /\ s[1] \in S /\ t[1] \in S /\ s[2] \in 1..m /\ t[2] \in 1..m
        /\ s = <<s[1], s[2]>> /\ t = <<t[1], t[2]>>
    OBVIOUS
  <2>2. h[s] = pickOne(s[1])[s[2]] /\ h[t] = pickOne(t[1])[t[2]]
    OBVIOUS
  <2>3. h[s] \in C[s[1]] /\ h[t] \in C[t[1]]
    BY <1>3, <2>1, <2>2
  <2>4. s[1] = t[1]
    BY <1>5, <2>1, <2>3
  <2>5. s[2] = t[2]
    BY <1>3, <1>5, <2>1, <2>2, <2>4
  <2> QED BY <2>1, <2>4, <2>5
<1> HIDE DEF h
<1>6. h \in Injection(S \X (1..m), U)
  BY <1>4, <1>5 DEF Injection, IsInjective
<1>7. Cardinality(S \X (1..m)) <= Cardinality(U)
  BY <1>6, FS_Injection
<1>8. IsFiniteSet(1..m) /\ Cardinality(1..m) = m
  <2>1. 1 \in Int /\ m \in Int
    OBVIOUS
  <2>2. IsFiniteSet(1..m) /\ Cardinality(1..m) = IF 1 > m THEN 0 ELSE m - 1 + 1
    BY <2>1, FS_Interval
  <2> QED BY <2>2
<1>9. Cardinality(S \X (1..m)) = Cardinality(S) * m
  BY <1>8, FS_Product
<1> QED BY <1>7, <1>9

\* The pages of a plane that hold data hold different logical pages of it.
Held(p) == {loc \in Locations : loc[1] = p /\ pageInfos[loc].state # {}}

LEMMA HeldPages ==
  ASSUME LiveIsMapped, NEW p \in Planes
  PROVE  IsFiniteSet(Held(p)) /\ Cardinality(Held(p)) <= Cardinality(PagesOfHost(p))
<1> PICK f : f = [loc \in Held(p) |-> pageInfos[loc].lpn]
  OBVIOUS
<1>1. \A loc \in Held(p) : /\ loc \in Locations /\ pageInfos[loc].lpn \in PagesOfHost(p)
                           /\ map[pageInfos[loc].lpn].ppn = get_PPN_From_Detail(loc)
  <2> SUFFICES ASSUME NEW loc \in Held(p)
               PROVE  /\ loc \in Locations /\ pageInfos[loc].lpn \in PagesOfHost(p)
                      /\ map[pageInfos[loc].lpn].ppn = get_PPN_From_Detail(loc)
    OBVIOUS
  <2>1. loc \in Locations /\ loc[1] = p /\ pageInfos[loc].state # {}
    BY DEF Held
  <2>2. /\ pageInfos[loc].lpn \in HostLPNs
        /\ allocate_location_for_plane(pageInfos[loc].lpn) = loc[1]
        /\ map[pageInfos[loc].lpn] = [subPage |-> pageInfos[loc].state,
                                      ppn     |-> get_PPN_From_Detail(loc)]
    BY <2>1 DEF LiveIsMapped
  <2>3. map[pageInfos[loc].lpn].ppn = get_PPN_From_Detail(loc)
    BY <2>2
  <2> QED BY <2>1, <2>2, <2>3 DEF PagesOfHost
<1>2. f \in [Held(p) -> PagesOfHost(p)]
  BY <1>1
<1>3. ASSUME NEW l \in Held(p), NEW m \in Held(p), f[l] = f[m]
      PROVE  l = m
  <2>1. get_PPN_From_Detail(l) = get_PPN_From_Detail(m)
    BY <1>1, <1>3
  <2> QED BY <1>1, <2>1, LocationRoundTrip
<1>4. f \in Injection(Held(p), PagesOfHost(p))
  BY <1>2, <1>3 DEF Injection, IsInjective
<1> QED BY <1>4, HostPagesFinite, FS_Injection

\* If every block of the plane but the active one counts m pages, then the host
\* has as many pages in it, or one less if one is being programmed there.
LEMMA FullBlocks ==
  ASSUME IInv, CInv, NEW p \in Planes, NEW m \in Nat,
         \A n \in BlockNos : n # activeBlock[p] => Cardinality(Census(<<p, n>>)) >= m
  PROVE  /\ (blockOfPlane - 1) * m <= Cardinality(PagesOfHost(p)) + 1
         /\ (\A loc \in Programmed(ChipOf(p)) : loc[1] = p => loc[2] = activeBlock[p])
              => (blockOfPlane - 1) * m <= Cardinality(PagesOfHost(p))
<1> DEFINE a == activeBlock[p]
           S == BlockNos \ {a}
           C == [n \in S |-> Census(<<p, n>>)]
           P == Programmed(ChipOf(p))
<1>1. a \in BlockNos /\ LiveIsMapped
  BY TypeParts DEF IInv, TablesOK, CInv, DataOK
<1>2. IsFiniteSet(S) /\ Cardinality(S) = blockOfPlane - 1
  <2>1. 0 \in Int /\ blockOfPlane - 1 \in Int /\ blockOfPlane \in Nat \ {0}
    BY Sizes
  <2>2. IsFiniteSet(BlockNos) /\ Cardinality(BlockNos) = blockOfPlane
    BY <2>1, FS_Interval DEF BlockNos
  <2> QED BY <1>1, <2>2, FS_RemoveElement
<1>3. \A n \in S : /\ C[n] \subseteq Held(p) \cup (P \cap C[n])
                   /\ \A loc \in C[n] : loc[1] = p /\ loc[2] = n
  BY DEF Census, PagesOf, Held
<1>4. \A n \in S, l \in S : n # l => C[n] \cap C[l] = {}
  BY <1>3
<1>5. \A n \in S : Cardinality(C[n]) >= m
  OBVIOUS
<1>6. /\ IsFiniteSet(Held(p)) /\ Cardinality(Held(p)) \in Nat
      /\ Cardinality(Held(p)) <= Cardinality(PagesOfHost(p))
      /\ Cardinality(PagesOfHost(p)) \in Nat
  BY <1>1, HeldPages, HostPagesFinite, FS_CardinalityType
<1>7. IsFiniteSet(Held(p) \cup P) /\ Cardinality(Held(p) \cup P) <= Cardinality(Held(p)) + 1
  <2>1. P = {} \/ \E loc : P = {loc}
    BY DEF Programmed
  <2> HIDE DEF P
  <2>2. CASE P = {}
    <3>1. Held(p) \cup P = Held(p)
      BY <2>2
    <3>2. Cardinality(Held(p)) <= Cardinality(Held(p)) + 1
      BY <1>6
    <3> QED BY <1>6, <3>1, <3>2
  <2>3. ASSUME NEW loc, P = {loc}
        PROVE  /\ IsFiniteSet(Held(p) \cup P)
               /\ Cardinality(Held(p) \cup P) <= Cardinality(Held(p)) + 1
    <3>1. /\ IsFiniteSet(Held(p) \cup {loc})
          /\ Cardinality(Held(p) \cup {loc}) =
               IF loc \in Held(p) THEN Cardinality(Held(p)) ELSE Cardinality(Held(p)) + 1
      BY <1>6, FS_AddElement
    <3>2. Held(p) \cup P = Held(p) \cup {loc}
      BY <2>3
    <3>3. /\ IsFiniteSet(Held(p) \cup P)
          /\ Cardinality(Held(p) \cup P) = Cardinality(Held(p) \cup {loc})
      BY <3>1, <3>2, Zenon
    <3> QED BY <1>6, <3>1, <3>3
  <2> QED BY <2>1, <2>2, <2>3
<1>8. Cardinality(Held(p) \cup P) \in Nat
  BY <1>7, FS_CardinalityType
<1> HIDE DEF S, C, P
<1>9. Cardinality(S) * m <= Cardinality(Held(p) \cup P)
  <2>1. \A n \in S : C[n] \subseteq Held(p) \cup P
    BY <1>3
  <2> QED BY <1>2, <1>4, <1>5, <1>7, <2>1, CountOfDisjoint
<1>10. ASSUME \A loc \in P : loc[1] = p => loc[2] = a
       PROVE  Cardinality(S) * m <= Cardinality(Held(p))
  <2>1. \A n \in S : C[n] \subseteq Held(p)
    BY <1>3, <1>10 DEF S
  <2> QED BY <1>2, <1>4, <1>5, <1>6, <2>1, CountOfDisjoint
<1>11. (blockOfPlane - 1) * m \in Int
  BY Sizes
<1> QED BY <1>2, <1>6, <1>7, <1>8, <1>9, <1>10, <1>11 DEF P

\* When a block's worth of pages is free or less there is a block to collect, and
\* with fewer one that gives two pages.
LEMMA VictimExists ==
  ASSUME IInv, CInv, UnitsAgree, EnoughRoom, LastAllocated, ~spinning, NEW p \in Planes,
         counts[p].freePageCount <= pageOfBlock
  PROVE  /\ Candidates(p) # {}
         /\ counts[p].freePageCount < pageOfBlock =>
              \E b \in Candidates(p) : Invalid(p, b) >= 2
<1> PICK a \in BlockNos : a = activeBlock[p]
  BY TypeParts DEF IInv, TablesOK
<1>1. /\ blockInfos[<<p, a>>].startWrite = pageOfBlock - counts[p].freePageCount
      /\ \A n \in BlockNos : n # a => /\ blockInfos[<<p, n>>].startWrite = pageOfBlock
                                      /\ blockInfos[<<p, n>>].freePageCount = 0
  BY PlaneNearlyFull
<1>2. \A n \in BlockNos : n # a =>
        Invalid(p, n) = pageOfBlock - Cardinality(Census(<<p, n>>))
          /\ Cardinality(Census(<<p, n>>)) \in Nat
  <2> SUFFICES ASSUME NEW n \in BlockNos, n # a
               PROVE  /\ Invalid(p, n) = pageOfBlock - Cardinality(Census(<<p, n>>))
                      /\ Cardinality(Census(<<p, n>>)) \in Nat
    OBVIOUS
  <2>1. <<p, n>> \in Blocks
    BY DEF Blocks
  <2>2. Cardinality(Census(<<p, n>>)) \in Nat
    BY <2>1, CensusFinite, FS_CardinalityType
  <2>3. /\ blockInfos[<<p, n>>].invalidPageCount =
             blockInfos[<<p, n>>].startWrite - blockInfos[<<p, n>>].validPageCount
        /\ blockInfos[<<p, n>>].validPageCount = Cardinality(Census(<<p, n>>))
    BY <2>1 DEF CInv, DataOK, BlocksAgree
  <2> QED BY <1>1, <2>2, <2>3 DEF Invalid
<1> PICK L \in Nat : L = Cardinality(PagesOfHost(p))
  BY HostPagesFinite
<1> PICK B \in Nat \ {0} : B = pageOfBlock
  BY Sizes
<1> PICK N \in Nat \ {0} : N = blockOfPlane
  BY Sizes
<1>3. L < (N - 1) * (B - 1) /\ B >= 2 /\ N >= 2 /\ B - 1 \in Nat
  BY RoomNumbers DEF EnoughRoom
<1>4. Candidates(p) # {}
  <2> SUFFICES ASSUME Candidates(p) = {} PROVE FALSE
    OBVIOUS
  <2>1. \A n \in BlockNos : n # a => Cardinality(Census(<<p, n>>)) >= B
    BY <1>1, <1>2 DEF Candidates
  <2>2. (N - 1) * B <= L + 1
    BY <2>1, FullBlocks
  <2>3. (N - 1) * B = (N - 1) * (B - 1) + (N - 1)
    BY <1>3
  <2> QED BY <1>3, <2>2, <2>3
<1>5. ASSUME counts[p].freePageCount < pageOfBlock
      PROVE  \E b \in Candidates(p) : Invalid(p, b) >= 2
  <2> SUFFICES ASSUME \A b \in Candidates(p) : ~(Invalid(p, b) >= 2) PROVE FALSE
    OBVIOUS
  <2>1. \A n \in BlockNos : n # a => Cardinality(Census(<<p, n>>)) >= B - 1
    BY <1>1, <1>2 DEF Candidates
  <2>2. counts[p].freePageCount \in Nat
    <3>1. TablesOK /\ BlocksInOrder /\ FreeIsUnwritten
      BY TypeParts, WriteFrontierParts DEF IInv
    <3> QED BY <3>1, FreePages
  <2>3. blockInfos[<<p, a>>].startWrite # 0
    BY <1>1, <1>5, <2>2
  <2>4. ChipOf(p) \in Chips
    BY ChipsAndPlanes
  <2>5. \A loc \in Programmed(ChipOf(p)) : loc[1] = p => loc[2] = a
    BY <2>3, <2>4 DEF LastAllocated, LastOf, Programmed
  <2>6. (N - 1) * (B - 1) <= L
    BY <1>3, <2>1, <2>5, FullBlocks
  <2> QED BY <1>3, <2>6
<1> QED BY <1>4, <1>5

\* A write of the host, and a copy of the plane's collection, being programmed.
HostWritesIn(p) ==
  /\ chipState[ChipOf(p)] = "PROGRAM" /\ inflight[ChipOf(p)] = ChipOf(p)
  /\ cmd[ChipOf(p)].location[1] = p
CopyWritten(p) == chipState[ChipOf(p)] = "PROGRAM" /\ inflight[ChipOf(p)] = p

AsNumber(x) == IF x THEN 1 ELSE 0

\* The pages the host may have taken since check_and_create_gc last looked.
Owed(p) == AsNumber(HostWritesIn(p)) + AsNumber(p \in toCheck[ChipOf(p)])

\* More than a block's worth of pages is free, but for those; and while the plane
\* is collected, but for the pages that the collection is going to give.
RoomIn(p) ==
  /\ ~eraseUsed[p] => counts[p].freePageCount + Owed(p) > pageOfBlock
  /\ eraseUsed[p] =>
       counts[p].freePageCount + AsNumber(CopyWritten(p)) + Invalid(p, eraseBlock[p]) > pageOfBlock

OneToCheck == \A c \in Chips : \A p, q \in toCheck[c] : p = q

RoomInv ==
  /\ ~spinning /\ LastAllocated /\ OneToCheck
  /\ \A p \in Planes : RoomIn(p)

LEMMA RoomTypes ==
  ASSUME IInv, NEW p \in Planes
  PROVE  /\ counts[p].freePageCount \in Int
         /\ \A n \in BlockNos : <<p, n>> \in Blocks /\ Invalid(p, n) \in Int
         /\ Owed(p) \in 0..2 /\ AsNumber(CopyWritten(p)) \in 0..1
         /\ ChipOf(p) \in Chips /\ p \in PlanesOf(ChipOf(p)) /\ eraseBlock[p] \in BlockNos
<1>1. TablesOK /\ QueuesOK
  BY TypeParts DEF IInv
<1>2. counts[p] \in Count
  BY <1>1, BlocksOfPlane DEF TablesOK
<1>3. \A n \in BlockNos : <<p, n>> \in Blocks /\ blockInfos[<<p, n>>] \in BlockInfo
  BY <1>1 DEF TablesOK, Blocks
<1>4. counts[p].freePageCount \in Int
  BY <1>2 DEF Count
<1>5. \A n \in BlockNos : <<p, n>> \in Blocks /\ Invalid(p, n) \in Int
  BY <1>3 DEF BlockInfo, Invalid
<1>6. Owed(p) \in 0..2 /\ AsNumber(CopyWritten(p)) \in 0..1
  BY DEF Owed, AsNumber
<1>7. ChipOf(p) \in Chips /\ p \in PlanesOf(ChipOf(p)) /\ eraseBlock[p] \in BlockNos
  BY <1>1, ChipsAndPlanes DEF PlanesOf, QueuesOK
<1> QED BY <1>4, <1>5, <1>6, <1>7

LEMMA RoomKept ==
  ASSUME NEW p \in Planes, RoomIn(p),
         counts'[p].freePageCount = counts[p].freePageCount,
         eraseUsed'[p] = eraseUsed[p], eraseBlock'[p] = eraseBlock[p],
         HostWritesIn(p)' <=> HostWritesIn(p), CopyWritten(p)' <=> CopyWritten(p),
         p \in toCheck'[ChipOf(p)] <=> p \in toCheck[ChipOf(p)],
         Invalid(p, eraseBlock[p])' = Invalid(p, eraseBlock[p])
  PROVE  RoomIn(p)'
<1>1. /\ AsNumber(HostWritesIn(p))' = AsNumber(HostWritesIn(p))
      /\ AsNumber(CopyWritten(p))' = AsNumber(CopyWritten(p))
  BY DEF AsNumber
<1>2. AsNumber(p \in toCheck[ChipOf(p)])' = AsNumber(p \in toCheck[ChipOf(p)])
  BY DEF AsNumber
<1>3. Owed(p)' = Owed(p)
  BY <1>1, <1>2 DEF Owed
<1>4. Invalid(p, eraseBlock[p])' = Invalid(p, eraseBlock[p])
  OBVIOUS
<1> QED BY <1>1, <1>3, <1>4 DEF RoomIn, Invalid

\* A chip other than c: what it executes stays as it is, in its own planes.
LEMMA OthersExecute ==
  ASSUME IInv, NEW c \in Chips,
         \A d \in Chips : d # c => chipState'[d] = chipState[d] /\ inflight'[d] = inflight[d],
         \A y \in CommandIDs : y \notin {c} \cup PlanesOf(c) => cmd'[y] = cmd[y],
         NEW d \in Chips, d # c
  PROVE  /\ cmd'[inflight'[d]] = cmd[inflight[d]] /\ cmd'[d] = cmd[d]
         /\ chipState[d] = "PROGRAM" =>
              cmd[inflight[d]].location[1] \in PlanesOf(d) \ PlanesOf(c)
         /\ \A p \in PlanesOf(d) : /\ HostWritesIn(p)' <=> HostWritesIn(p)
                                   /\ CopyWritten(p)' <=> CopyWritten(p)
<1>1. /\ QueuesOK /\ inflight[d] \in {d} \cup PlanesOf(d) /\ inflight[d] \in CommandIDs
      /\ d \in CommandIDs
      /\ chipState[d] = "PROGRAM" => ChipOf(cmd[inflight[d]].location[1]) = d
  BY TypeParts DEF IInv, OnOwnChip, OwnChip, QueuesOK, CommandIDs
<1>2. d \notin {c} \cup PlanesOf(c) /\ inflight[d] \notin {c} \cup PlanesOf(c)
  BY <1>1, ChipsAndPlanes DEF PlanesOf
<1>3. cmd'[inflight'[d]] = cmd[inflight[d]] /\ cmd'[d] = cmd[d]
  BY <1>1, <1>2
<1>4. cmd[inflight[d]].location \in Locations
  BY <1>1 DEF QueuesOK, CommandOf
<1>5. cmd[inflight[d]].location[1] \in Planes
  BY <1>4 DEF Locations
<1>6. chipState[d] = "PROGRAM" => cmd[inflight[d]].location[1] \in PlanesOf(d) \ PlanesOf(c)
  BY <1>1, <1>5 DEF PlanesOf
<1>7. \A p \in PlanesOf(d) : /\ HostWritesIn(p)' <=> HostWritesIn(p)
                             /\ CopyWritten(p)' <=> CopyWritten(p)
  BY <1>3 DEF HostWritesIn, CopyWritten, PlanesOf
<1> QED BY <1>3, <1>6, <1>7

\* What another chip programs stays the last page allocated in its plane.
LEMMA LastStays ==
  ASSUME IInv, LastAllocated, NEW c \in Chips,
         \A d \in Chips : d # c => chipState'[d] = chipState[d] /\ inflight'[d] = inflight[d],
         \A y \in CommandIDs : y \notin {c} \cup PlanesOf(c) => cmd'[y] = cmd[y],
         \A p \in Planes \ PlanesOf(c) :
           /\ activeBlock'[p] = activeBlock[p]
           /\ \A n \in BlockNos :
                blockInfos'[<<p, n>>].startWrite = blockInfos[<<p, n>>].startWrite
  PROVE  LastOf(c)' => LastAllocated'
<1>1. ASSUME NEW d \in Chips, d # c, chipState'[d] = "PROGRAM"
      PROVE  LET loc    == cmd'[inflight'[d]].location
                 active == activeBlock'[loc[1]]
             IN blockInfos'[<<loc[1], active>>].startWrite # 0 => loc[2] = active
  <2>1. chipState[d] = "PROGRAM"
    BY <1>1
  <2>2. /\ cmd'[inflight'[d]] = cmd[inflight[d]]
        /\ cmd[inflight[d]].location[1] \in PlanesOf(d) \ PlanesOf(c)
    BY <1>1, <2>1, OthersExecute
  <2> PICK loc : loc = cmd[inflight[d]].location
    OBVIOUS
  <2> PICK p \in Planes \ PlanesOf(c) : p = loc[1]
    BY <2>2 DEF PlanesOf
  <2> PICK n \in BlockNos : n = activeBlock[p]
    <3>1. activeBlock \in [Planes -> BlockNos]
      BY TypeParts, Zenon DEF IInv, TablesOK
    <3>2. activeBlock[p] \in BlockNos
      BY <3>1, Zenon
    <3> QED BY <3>2, Zenon
  <2>3. blockInfos[<<p, n>>].startWrite # 0 => loc[2] = n
    BY <2>1 DEF LastAllocated, LastOf
  <2>4. activeBlock'[p] = n /\ blockInfos'[<<p, n>>].startWrite = blockInfos[<<p, n>>].startWrite
    OBVIOUS
  <2>5. cmd'[inflight'[d]].location = loc
    BY <2>2
  <2> QED BY <2>3, <2>4, <2>5
<1>2. \A d \in Chips : d # c => LastOf(d)'
  BY <1>1, Zenon DEF LastOf
<1> QED BY <1>2, Zenon DEF LastAllocated

\* Reads, and the dispatch of an erase, take no page and give none.
LEMMA QuietSteps ==
  ASSUME IInv, RoomInv, NEW c \in Chips, chipState[c] # "PROGRAM", chipState'[c] # "PROGRAM",
         UNCHANGED <<tables, spinning, eraseUsed, eraseBlock, toCheck>>,
         \A d \in Chips : d # c => chipState'[d] = chipState[d] /\ inflight'[d] = inflight[d],
         \A y \in CommandIDs : y \notin {c} \cup PlanesOf(c) => cmd'[y] = cmd[y]
  PROVE  RoomInv'
<1>1. LastAllocated'
  BY LastStays DEF RoomInv, LastOf, tables
<1>2. ASSUME NEW p \in Planes PROVE RoomIn(p)'
  <2>1. ChipOf(p) \in Chips /\ p \in PlanesOf(ChipOf(p))
    BY RoomTypes
  <2>2. (HostWritesIn(p)' <=> HostWritesIn(p)) /\ (CopyWritten(p)' <=> CopyWritten(p))
    <3>1. CASE ChipOf(p) = c
      BY <3>1 DEF HostWritesIn, CopyWritten
    <3>2. CASE ChipOf(p) # c
      BY <2>1, <3>2, OthersExecute
    <3> QED BY <3>1, <3>2
  <2>3. RoomIn(p) /\ Invalid(p, eraseBlock[p])' = Invalid(p, eraseBlock[p])
    BY DEF RoomInv, Invalid, tables
  <2> QED BY <2>2, <2>3, RoomKept DEF tables
<1>3. ~spinning' /\ OneToCheck'
  BY DEF RoomInv, OneToCheck
<1> QED BY <1>1, <1>2, <1>3 DEF RoomInv

\* A plane of another chip.
LEMMA OthersRoom ==
  ASSUME IInv, RoomInv, NEW c \in Chips,
         \A d \in Chips : d # c => chipState'[d] = chipState[d] /\ inflight'[d] = inflight[d],
         \A y \in CommandIDs : y \notin {c} \cup PlanesOf(c) => cmd'[y] = cmd[y],
         \A d \in Chips : d # c => toCheck'[d] = toCheck[d],
         NEW p \in Planes \ PlanesOf(c), counts'[p].freePageCount = counts[p].freePageCount,
         eraseUsed'[p] = eraseUsed[p], eraseBlock'[p] = eraseBlock[p],
         Invalid(p, eraseBlock[p])' = Invalid(p, eraseBlock[p])
  PROVE  RoomIn(p)'
<1>1. ChipOf(p) \in Chips /\ p \in PlanesOf(ChipOf(p)) /\ ChipOf(p) # c
  BY RoomTypes
<1>2. (HostWritesIn(p)' <=> HostWritesIn(p)) /\ (CopyWritten(p)' <=> CopyWritten(p))
  BY <1>1, OthersExecute
<1>3. RoomIn(p)
  BY DEF RoomInv
<1> QED BY <1>1, <1>2, <1>3, RoomKept

\* An idle chip starts a program: the page comes out of what the plane had to
\* spare, and stays accounted for until the program ends.
LEMMA ProgramKeepsRoom ==
  ASSUME IInv, CInv, UnitsAgree, EnoughRoom, RoomInv, NEW c \in Chips, chipState[c] = "IDLE",
         NEW x \in {c} \cup PlanesOf(c), NEW plane \in PlanesOf(c), StartsProgram(c, x, plane),
         x = c => ~eraseUsed[plane],
         x # c => /\ plane = x /\ eraseUsed[plane]
                  /\ Invalid(plane, eraseBlock[plane]) < pageOfBlock
  PROVE  RoomInv'
<1> DEFINE free == counts[plane].freePageCount
<1>1. /\ plane \in Planes /\ ChipOf(plane) = c /\ x \in CommandIDs /\ c \in CommandIDs
      /\ TablesOK /\ QueuesOK /\ BlocksInOrder /\ FreeIsUnwritten /\ ~spinning
  BY TypeParts, WriteFrontierParts DEF IInv, RoomInv, PlanesOf, CommandIDs
<1>2. allocate_location_in_plane(plane) /\ Busy(c, "PROGRAM", x)
  BY DEF StartsProgram
<1>3. /\ chipState'[c] = "PROGRAM" /\ inflight'[c] = x
      /\ \A d \in Chips : d # c => chipState'[d] = chipState[d] /\ inflight'[d] = inflight[d]
      /\ \A y \in CommandIDs : y \notin {c} \cup PlanesOf(c) => cmd'[y] = cmd[y]
      /\ eraseUsed' = eraseUsed /\ eraseBlock' = eraseBlock /\ toCheck' = toCheck
  BY <1>1, <1>2 DEF StartsProgram, Busy, QueuesOK
<1>4. /\ free \in Int /\ counts'[plane].freePageCount = free - 1
      /\ \A q \in Planes : q # plane => counts'[q] = counts[q]
  <2>1. \A q \in Planes : q \in Units /\ (q \in Ancestors(plane) <=> q = plane)
    BY <1>1, BlocksOfPlane
  <2>2. Shift(plane, -1, 1, 0)
    BY <1>2 DEF allocate_location_in_plane
  <2>3. free \in Int
    BY <1>1, RoomTypes
  <2>4. counts'[plane].freePageCount = counts[plane].freePageCount + -1
    BY <1>1, <2>1, <2>2 DEF Shift
  <2>5. \A q \in Planes : q # plane => counts'[q] = counts[q]
    BY <2>1, <2>2 DEF Shift
  <2> QED BY <2>3, <2>4, <2>5
<1>5. \A q \in PlanesOf(c) : ~HostWritesIn(q) /\ ~CopyWritten(q)
  BY DEF HostWritesIn, CopyWritten, PlanesOf
<1>6. pageOfBlock \in Nat /\ pageOfBlock >= 2
  BY RoomNumbers
<1>7. free >= 2
  <2>1. RoomIn(plane)
    BY <1>1 DEF RoomInv
  <2>2. CASE x = c
    <3>1. Owed(plane) \in 0..1
      BY <1>5 DEF Owed, AsNumber
    <3> QED BY <1>4, <1>6, <2>1, <2>2, <3>1 DEF RoomIn
  <2>3. CASE x # c
    <3>1. AsNumber(CopyWritten(plane)) = 0
      BY <1>5 DEF AsNumber
    <3>2. Invalid(plane, eraseBlock[plane]) \in Int
      BY <1>1, RoomTypes
    <3> QED BY <1>4, <1>6, <2>1, <2>3, <3>1, <3>2 DEF RoomIn
  <2> QED BY <2>2, <2>3
<1> PICK a \in BlockNos : a = activeBlock[plane]
  BY <1>1 DEF TablesOK
<1>8. /\ blockInfos'[<<plane, a>>] =
           [freePageCount    |-> blockInfos[<<plane, a>>].freePageCount - 1,
            validPageCount   |-> blockInfos[<<plane, a>>].validPageCount + 1,
            invalidPageCount |-> blockInfos[<<plane, a>>].invalidPageCount,
            startWrite       |-> blockInfos[<<plane, a>>].startWrite + 1]
      /\ \A b \in Blocks : b # <<plane, a>> => blockInfos'[b] = blockInfos[b]
      /\ \A q \in Planes : q # plane => activeBlock'[q] = activeBlock[q]
      /\ \/ activeBlock'[plane] = a
         \/ blockInfos'[<<plane, activeBlock'[plane]>>].freePageCount = pageOfBlock
  BY <1>1, <1>2, AllocateCounts
<1>9. ~spinning'
  <2> SUFFICES ASSUME spinning' PROVE FALSE
    OBVIOUS
  <2>1. \A m \in BlockNos : blockInfos'[<<plane, m>>].freePageCount = 0
    BY <1>1, <1>2, SpinsInFullPlane
  <2>2. \A m \in BlockNos : m # a => blockInfos[<<plane, m>>].freePageCount = 0
    BY <1>1, <1>8, <2>1 DEF Blocks
  <2>3. blockInfos[<<plane, a>>].freePageCount - 1 = 0
    <3>1. blockInfos'[<<plane, a>>].freePageCount = blockInfos[<<plane, a>>].freePageCount - 1
      BY <1>8
    <3>2. blockInfos'[<<plane, a>>].freePageCount = 0
      BY <2>1
    <3> QED BY <3>1, <3>2
  <2>4. blockInfos[<<plane, a>>].freePageCount \in Nat
    BY <1>1, FreePages
  <2>5. free = blockInfos[<<plane, a>>].freePageCount
    BY <1>1, <2>2, FreePages
  <2> QED BY <1>7, <2>3, <2>4, <2>5
<1>10. \A q \in Planes, n \in BlockNos : Invalid(q, n)' = Invalid(q, n)
  <2>1. \A b \in Blocks : blockInfos'[b].invalidPageCount = blockInfos[b].invalidPageCount
    BY <1>8
  <2> QED BY <2>1 DEF Invalid, Blocks
<1>11. \A q \in Planes : eraseBlock[q] \in BlockNos
  BY <1>1 DEF QueuesOK
<1>12. LastAllocated'
  <2>1. activeBlock' \in [Planes -> BlockNos] /\ FreeIsUnwritten' /\ BlocksInOrder'
    BY <1>1, <1>2, AllocateKeepsOrder
  <2>2. LastOf(c)'
    <3>1. cmd'[x].location = <<plane, a, blockInfos[<<plane, a>>].startWrite>>
      BY DEF StartsProgram, Frontier
    <3>2. activeBlock'[plane] = a \/ blockInfos'[<<plane, activeBlock'[plane]>>].startWrite = 0
      <4>1. <<plane, activeBlock'[plane]>> \in Blocks
        BY <1>1, <2>1 DEF Blocks
      <4>2. /\ blockInfos'[<<plane, activeBlock'[plane]>>].freePageCount =
                 pageOfBlock - blockInfos'[<<plane, activeBlock'[plane]>>].startWrite
            /\ blockInfos'[<<plane, activeBlock'[plane]>>].startWrite \in 0..pageOfBlock
        BY <2>1, <4>1 DEF FreeIsUnwritten, BlocksInOrder
      <4> QED BY <1>6, <1>8, <4>2
    <3> QED BY <1>3, <3>1, <3>2 DEF LastOf
  <2>3. \A q \in Planes \ PlanesOf(c) :
          /\ activeBlock'[q] = activeBlock[q]
          /\ \A n \in BlockNos : blockInfos'[<<q, n>>].startWrite = blockInfos[<<q, n>>].startWrite
    BY <1>8 DEF Blocks
  <2> QED BY <1>3, <2>2, <2>3, LastStays DEF RoomInv
<1>13. ASSUME NEW q \in Planes
       PROVE  RoomIn(q)'
  <2>1. RoomIn(q) /\ Invalid(q, eraseBlock[q])' = Invalid(q, eraseBlock[q])
    <3>1. eraseBlock'[q] = eraseBlock[q] /\ Invalid(q, eraseBlock[q])' = Invalid(q, eraseBlock[q])
      BY <1>3, <1>10, <1>11 DEF Invalid
    <3> QED BY <3>1 DEF RoomInv
  <2>2. CASE q \notin PlanesOf(c)
    BY <1>1, <1>3, <1>4, <2>1, <2>2, OthersRoom
  <2>3. CASE q \in PlanesOf(c) /\ q # plane
    <3>1. ~HostWritesIn(q)' /\ ~CopyWritten(q)'
      <4>1. ChipOf(q) = c /\ c # q
        BY <2>3, ChipsAndPlanes DEF PlanesOf
      <4>2. x = c => cmd'[x].location[1] = plane
        BY DEF StartsProgram, Frontier
      <4> QED BY <1>3, <2>3, <4>1, <4>2 DEF HostWritesIn, CopyWritten
    <3> QED BY <1>3, <1>4, <1>5, <2>1, <2>3, <3>1, RoomKept
  <2>4. CASE q = plane
    <3>1. /\ HostWritesIn(plane)' <=> x = c
          /\ CopyWritten(plane)' <=> x # c
      <4>1. cmd'[x].location[1] = plane /\ plane # c
        BY <1>1, ChipsAndPlanes DEF StartsProgram, Frontier
      <4> QED BY <1>1, <1>3, <4>1 DEF HostWritesIn, CopyWritten
    <3>2. AsNumber(plane \in toCheck[ChipOf(plane)])' = AsNumber(plane \in toCheck[ChipOf(plane)])
      BY <1>3 DEF AsNumber
    <3>3. AsNumber(plane \in toCheck[ChipOf(plane)]) \in 0..1
      BY DEF AsNumber
    <3>4. CASE x = c
      <4>1. Owed(plane)' = 1 + AsNumber(plane \in toCheck[ChipOf(plane)])
        BY <3>1, <3>2, <3>4 DEF Owed, AsNumber
      <4>2. Owed(plane) = 0 + AsNumber(plane \in toCheck[ChipOf(plane)])
        BY <1>5 DEF Owed, AsNumber
      <4> QED BY <1>3, <1>4, <1>6, <2>1, <2>4, <3>3, <3>4, <4>1, <4>2 DEF RoomIn
    <3>5. CASE x # c
      <4>1. AsNumber(CopyWritten(plane)) = 0 /\ AsNumber(CopyWritten(plane))' = 1
        BY <1>5, <3>1, <3>5 DEF AsNumber
      <4>2. Invalid(plane, eraseBlock[plane]) \in Int
        BY <1>1, RoomTypes
      <4> QED BY <1>3, <1>4, <1>6, <2>1, <2>4, <3>5, <4>1, <4>2 DEF RoomIn
    <3> QED BY <3>4, <3>5
  <2> QED BY <2>2, <2>3, <2>4
<1>14. OneToCheck'
  BY <1>3 DEF RoomInv, OneToCheck
<1> QED BY <1>9, <1>12, <1>13, <1>14 DEF RoomInv

\* Each way to dispatch a command keeps the room.
LEMMA DispatchKeepsRoom ==
  ASSUME IInv, CInv, UnitsAgree, EnoughRoom, RoomInv, NEW c \in Chips, Dispatch(c)
  PROVE  RoomInv'
<1>1. /\ chipState[c] = "IDLE" /\ QueuesOK /\ ~spinning /\ ChipOK(c)
      /\ \A p \in PlanesOf(c) : p \in Planes /\ p # c /\ p \in CommandIDs
  BY TypeParts, ChipsAndPlanes DEF Dispatch, IInv, CInv, RoomInv, PlanesOf, CommandIDs
<1>2. CASE DispatchReadData(c)
  <2>1. Busy(c, "READ_DATA", Head(incompletedR[c])) /\ UNCHANGED cmd
    BY <1>2 DEF DispatchReadData
  <2>2. /\ chipState'[c] = "READ_DATA"
        /\ \A d \in Chips : d # c => chipState'[d] = chipState[d] /\ inflight'[d] = inflight[d]
    BY <1>1, <2>1 DEF Busy, QueuesOK
  <2>3. UNCHANGED <<tables, spinning, eraseUsed, eraseBlock, toCheck>>
    BY <1>2 DEF DispatchReadData, erasing
  <2> QED BY <1>1, <2>1, <2>2, <2>3, QuietSteps
<1>3. CASE DispatchErase(c)
  <2>a. EraseIsNext(c) /\ Collected(c) \in PlanesOf(c)
    BY <1>3, CollectedOnChip DEF DispatchErase
  <2> PICK p \in PlanesOf(c) : p = Collected(c)
    BY <2>a
  <2>1. Busy(c, "ERASE", p) /\ cmd' = [cmd EXCEPT ![p] = NoCommand]
    BY <1>3 DEF DispatchErase
  <2>2. /\ chipState'[c] = "ERASE"
        /\ \A d \in Chips : d # c => chipState'[d] = chipState[d] /\ inflight'[d] = inflight[d]
        /\ \A y \in CommandIDs : y \notin {c} \cup PlanesOf(c) => cmd'[y] = cmd[y]
    BY <1>1, <2>1 DEF Busy, QueuesOK
  <2>3. UNCHANGED <<tables, spinning, eraseUsed, eraseBlock, toCheck>>
    BY <1>3 DEF DispatchErase
  <2> QED BY <1>1, <2>2, <2>3, QuietSteps
<1>4. CASE DispatchCopyRead(c)
  <2>a. Collected(c) \in PlanesOf(c)
    BY <1>1, <1>4, CopyReadStarts
  <2> PICK p \in PlanesOf(c) : p = Collected(c)
    BY <2>a
  <2>1. /\ Busy(c, "READ_ADDR", p) /\ \A y \in CommandIDs : y # p => cmd'[y] = cmd[y]
        /\ UNCHANGED <<tables, spinning, incompletedR, eraseUsed, eraseBlock,
                       eraseCommands, toCheck>>
    BY <1>1, <1>4, CopyReadStarts
  <2>2. /\ chipState'[c] = "READ_ADDR"
        /\ \A d \in Chips : d # c => chipState'[d] = chipState[d] /\ inflight'[d] = inflight[d]
        /\ \A y \in CommandIDs : y \notin {c} \cup PlanesOf(c) => cmd'[y] = cmd[y]
    BY <1>1, <2>1 DEF Busy, QueuesOK
  <2>3. UNCHANGED <<tables, spinning, eraseUsed, eraseBlock, toCheck>>
    BY <2>1
  <2> QED BY <1>1, <2>2, <2>3, QuietSteps
<1>5. CASE DispatchCopyWrite(c)
  <2>a. Collected(c) \in PlanesOf(c)
    BY <1>1, <1>5, CopyWriteStarts
  <2> PICK p \in PlanesOf(c) : p = Collected(c)
    BY <2>a
  <2>1. EraseIsNext(c) /\ CopyRead(p) /\ StartsProgram(c, p, p)
    BY <1>1, <1>5, CopyWriteStarts
  <2>2. /\ eraseUsed[p] /\ p \in Planes /\ p # c /\ eraseBlock[p] \in BlockNos
        /\ EPage[p] \in PageNos /\ cmd[p].bitMap # {}
        /\ pageInfos[<<p, eraseBlock[p], EPage[p]>>] =
             [state |-> cmd[p].bitMap, lpn |-> cmd[p].lpn]
        /\ blockInfos[<<p, eraseBlock[p]>>].freePageCount = 0
    BY <1>1, <2>1, HeadIsUsed DEF EraseIsNext, ChipOK, CopyOK, VictimOK, QueuesOK
  <2> DEFINE victim == <<p, eraseBlock[p]>>
             from   == <<p, eraseBlock[p], EPage[p]>>
  <2>3. victim \in Blocks /\ from \in Locations
    BY <2>2 DEF Blocks, Locations
  <2>4. from \in Census(victim)
    <3>1. pageInfos[from].state # {}
      BY <2>2
    <3>2. from \in PagesOf(victim[1], victim[2])
      BY <2>3 DEF PagesOf
    <3> QED BY <3>1, <3>2 DEF Census
  <2>5. Cardinality(Census(victim)) \in Nat /\ Cardinality(Census(victim)) # 0
    BY <2>3, <2>4, CensusFinite, FS_CardinalityType, FS_EmptySet
  <2>6. Invalid(p, eraseBlock[p]) < pageOfBlock
    <3>1. /\ blockInfos[victim].freePageCount = pageOfBlock - blockInfos[victim].startWrite
          /\ blockInfos[victim].startWrite \in 0..pageOfBlock
      BY <2>3, WriteFrontierParts DEF IInv, FreeIsUnwritten, BlocksInOrder
    <3>2. /\ blockInfos[victim].invalidPageCount =
               blockInfos[victim].startWrite - blockInfos[victim].validPageCount
          /\ blockInfos[victim].validPageCount = Cardinality(Census(victim))
      BY <2>3 DEF CInv, DataOK, BlocksAgree
    <3>3. blockInfos[victim].freePageCount = 0
      BY <2>2
    <3>4. Invalid(p, eraseBlock[p]) = blockInfos[victim].invalidPageCount
      BY DEF Invalid
    <3> HIDE DEF victim
    <3> QED BY <2>5, <3>1, <3>2, <3>3, <3>4, Sizes
  <2> QED BY <1>1, <2>1, <2>2, <2>6, ProgramKeepsRoom
<1>6. CASE DispatchHostWrite(c)
  <2>a. allocate_location_for_plane(cmd'[c].lpn) \in PlanesOf(c)
    BY <1>1, <1>6, HostWriteStarts
  <2> PICK plane \in PlanesOf(c) : plane = allocate_location_for_plane(cmd'[c].lpn)
    BY <2>a
  <2>1. NoEraseStep(c) /\ incompletedR[c] = <<>> /\ StartsProgram(c, c, plane)
    BY <1>1, <1>6, HostWriteStarts DEF NoEraseStep
  <2>2. eraseCommands[c] = <<>>
    <3> SUFFICES ASSUME eraseCommands[c] # <<>> PROVE FALSE
      OBVIOUS
    <3>1. CopyUnderWay(Collected(c))
      BY <2>1 DEF NoEraseStep
    <3>2. Collected(c) \in PlanesOf(c)
      BY HeadIsUsed
    <3> QED BY <1>1, <2>1, <3>1, <3>2, IdleChip DEF CopyUnderWay
  <2>3. ~eraseUsed[plane]
    <3>1. ~ \E i \in 1..Len(eraseCommands[c]) : eraseCommands[c][i] = plane
      BY <2>2
    <3> QED BY <1>1, <3>1 DEF ChipOK, QueueOK
  <2> QED BY <1>1, <2>1, <2>3, ProgramKeepsRoom
<1> QED BY <1>2, <1>3, <1>4, <1>5, <1>6 DEF Dispatch, DispatchPending

\* The end of a read takes no page and gives none.
LEMMA EndOfReadKeepsRoom ==
  ASSUME IInv, RoomInv, NEW c \in Chips, CompleteReadAddr(c) \/ CompleteReadData(c)
  PROVE  RoomInv'
<1>1. QueuesOK /\ inflight[c] \in {c} \cup PlanesOf(c)
  BY TypeParts DEF IInv, OnOwnChip, OwnChip
<1>2. /\ chipState[c] # "PROGRAM" /\ Idle(c)
      /\ cmd' = cmd \/ cmd' = [cmd EXCEPT ![inflight[c]].completed = TRUE]
      /\ UNCHANGED <<tables, spinning, eraseUsed, eraseBlock, toCheck>>
  BY DEF CompleteReadAddr, CompleteReadData, erasing
<1>3. /\ chipState'[c] = "IDLE"
      /\ \A d \in Chips : d # c => chipState'[d] = chipState[d] /\ inflight'[d] = inflight[d]
  BY <1>1, <1>2 DEF Idle, QueuesOK
<1>4. \A y \in CommandIDs : y \notin {c} \cup PlanesOf(c) => cmd'[y] = cmd[y]
  BY <1>1, <1>2 DEF QueuesOK
<1> QED BY <1>2, <1>3, <1>4, QuietSteps

\* The end of a program: a write of the host is now to be looked at by
\* check_and_create_gc, and a copy leaves its old page invalid.
LEMMA EndOfProgramKeepsRoom ==
  ASSUME IInv, CInv, NoneRefused, RoomInv, NEW c \in Chips, CompleteProgram(c), toCheck[c] = {}
  PROVE  RoomInv'
<1>1. /\ QueuesOK /\ TablesOK /\ ChipOK(c) /\ DataOK /\ LiveIsMapped
      /\ inflight[c] \in {c} \cup PlanesOf(c) /\ inflight[c] \in CommandIDs
      /\ chipState[c] = "PROGRAM"
  BY TypeParts DEF IInv, CInv, DataOK, OnOwnChip, OwnChip, QueuesOK, CompleteProgram
<1> PICK x \in {c} \cup PlanesOf(c) : x = inflight[c]
  BY <1>1
<1> PICK sub \in CommandOf : sub = cmd[x]
  BY <1>1 DEF QueuesOK
<1>2. /\ update_Map_and_invilate_page(sub)
      /\ \/ x = c /\ cmd' = [cmd EXCEPT ![c] = NoCommand]
                  /\ toCheck' = [toCheck EXCEPT ![c] = {sub.location[1]}]
         \/ x # c /\ cmd' = [cmd EXCEPT ![x].completed = TRUE] /\ toCheck' = toCheck
      /\ chipState' = [chipState EXCEPT ![c] = "IDLE"] /\ inflight' = inflight
      /\ UNCHANGED <<activeBlock, eraseUsed, eraseBlock, spinning>>
  BY DEF CompleteProgram, Idle, erasing
<1>3. /\ sub.operation = "WRITE" /\ ~sub.completed
      /\ sub.lpn \in HostLPNs /\ sub.bitMap # {}
      /\ sub.location[1] = allocate_location_for_plane(sub.lpn)
      /\ pageInfos[sub.location].state = {}
  BY <1>1 DEF ChipOK, WriteOK
<1>4. /\ sub.location \in Locations /\ sub.location[1] \in PlanesOf(c)
      /\ x # c => sub.location[1] = x
  BY <1>1, <1>3 DEF IInv, OnOwnChip, OwnChip, PlanesOf, CommandOf, Locations, CopyInPlace
<1>5. /\ chipState'[c] = "IDLE"
      /\ \A d \in Chips : d # c => /\ chipState'[d] = chipState[d] /\ inflight'[d] = inflight[d]
                                   /\ toCheck'[d] = toCheck[d]
      /\ \A y \in CommandIDs : y \notin {c} \cup PlanesOf(c) => cmd'[y] = cmd[y]
      /\ x = c => toCheck'[c] = {sub.location[1]}
      /\ x # c => toCheck' = toCheck
  BY <1>1, <1>2 DEF QueuesOK
<1>6. \A p \in Planes : counts[p].freePageCount \in Int
                        /\ counts'[p].freePageCount = counts[p].freePageCount
  <2> SUFFICES ASSUME NEW p \in Planes
               PROVE  /\ counts[p].freePageCount \in Int
                      /\ counts'[p].freePageCount = counts[p].freePageCount
    OBVIOUS
  <2>1. counts[p].freePageCount \in Int /\ p \in Units
    <3>1. counts[p].freePageCount \in Int
      BY RoomTypes
    <3>2. p \in Units
      BY BlocksOfPlane
    <3> QED BY <3>1, <3>2
  <2>2. counts' = counts \/ \E old : Shift(old[1], 0, -1, 1)
    <3>1. \/ UNCHANGED <<blockInfos, counts>>
          \/ \E old \in get_PPN_Detail(map[sub.lpn].ppn) :
               invilate_page(old, [pageInfos EXCEPT
                 ![sub.location] = [state |-> sub.bitMap, lpn |-> sub.lpn]])
      BY <1>2, Zenon DEF update_Map_and_invilate_page
    <3>2. \A old, pages : invilate_page(old, pages) => Shift(old[1], 0, -1, 1)
      BY Zenon DEF invilate_page
    <3> QED BY <3>1, <3>2
  <2>3. ASSUME NEW old, Shift(old[1], 0, -1, 1)
        PROVE  counts'[p].freePageCount = counts[p].freePageCount
    <3>1. \/ counts'[p].freePageCount = counts[p].freePageCount + 0
          \/ counts'[p] = counts[p]
      BY <2>1, <2>3 DEF Shift
    <3> QED BY <2>1, <3>1
  <2> QED BY <2>1, <2>2, <2>3
<1>7. \/ map[sub.lpn].subPage = {} /\ blockInfos' = blockInfos
      \/ \E old \in Locations : Invalidates(sub, old)
  BY <1>1, <1>2, <1>3, UpdateNotes
<1>8. ASSUME NEW old \in Locations, Invalidates(sub, old)
      PROVE  /\ map[sub.lpn].ppn = get_PPN_From_Detail(old)
             /\ old[1] = sub.location[1] /\ <<old[1], old[2]>> \in Blocks
             /\ blockInfos'[<<old[1], old[2]>>].invalidPageCount =
                  blockInfos[<<old[1], old[2]>>].invalidPageCount + 1
             /\ \A b \in Blocks : b # <<old[1], old[2]>> => blockInfos'[b] = blockInfos[b]
  <2>1. /\ pageInfos[old].state # {} /\ pageInfos[old].lpn = sub.lpn
        /\ blockInfos'[<<old[1], old[2]>>] =
             [blockInfos[<<old[1], old[2]>>] EXCEPT !.validPageCount   = @ - 1,
                                                    !.invalidPageCount = @ + 1]
        /\ \A b \in Blocks : b # <<old[1], old[2]>> => blockInfos'[b] = blockInfos[b]
    BY <1>8 DEF Invalidates
  <2>2. /\ allocate_location_for_plane(pageInfos[old].lpn) = old[1]
        /\ map[pageInfos[old].lpn] = [subPage |-> pageInfos[old].state,
                                      ppn     |-> get_PPN_From_Detail(old)]
    BY <1>1, <2>1 DEF LiveIsMapped
  <2>3. map[sub.lpn].ppn = get_PPN_From_Detail(old) /\ old[1] = sub.location[1]
    BY <1>3, <2>1, <2>2
  <2>4. <<old[1], old[2]>> \in Blocks
    BY DEF Locations, Blocks
  <2>5. blockInfos[<<old[1], old[2]>>] \in BlockInfo
    BY <1>1, <2>4 DEF TablesOK
  <2>6. blockInfos'[<<old[1], old[2]>>].invalidPageCount =
          blockInfos[<<old[1], old[2]>>].invalidPageCount + 1
    BY <2>1, <2>5 DEF BlockInfo
  <2> QED BY <2>1, <2>3, <2>4, <2>6
<1>9. \A p \in Planes, n \in BlockNos :
        /\ Invalid(p, n) \in Int /\ Invalid(p, n)' \in Int /\ Invalid(p, n)' >= Invalid(p, n)
        /\ p \notin PlanesOf(c) => Invalid(p, n)' = Invalid(p, n)
  <2> SUFFICES ASSUME NEW p \in Planes, NEW n \in BlockNos
               PROVE  /\ Invalid(p, n) \in Int
                      /\ Invalid(p, n)' \in Int /\ Invalid(p, n)' >= Invalid(p, n)
                      /\ p \notin PlanesOf(c) => Invalid(p, n)' = Invalid(p, n)
    OBVIOUS
  <2>1. Invalid(p, n) \in Int /\ <<p, n>> \in Blocks
    BY RoomTypes
  <2>2. CASE blockInfos' = blockInfos
    <3>1. Invalid(p, n)' = Invalid(p, n)
      BY <2>2 DEF Invalid
    <3> QED BY <2>1, <3>1
  <2>3. ASSUME NEW old \in Locations, Invalidates(sub, old)
        PROVE  /\ Invalid(p, n)' = Invalid(p, n) \/ Invalid(p, n)' = Invalid(p, n) + 1
               /\ p \notin PlanesOf(c) => Invalid(p, n)' = Invalid(p, n)
    BY <1>4, <1>8, <2>1, <2>3 DEF Invalid
  <2> QED BY <1>7, <2>1, <2>2, <2>3
<1>10. x # c => Invalid(x, eraseBlock[x])' = Invalid(x, eraseBlock[x]) + 1
  <2> SUFFICES ASSUME x # c
               PROVE  Invalid(x, eraseBlock[x])' = Invalid(x, eraseBlock[x]) + 1
    OBVIOUS
  <2>1. x \in Planes /\ eraseBlock[x] \in BlockNos /\ EPage[x] \in PageNos
    BY <1>1, <1>3 DEF PlanesOf, QueuesOK, ChipOK, CopyOK, CopyUnderWay
  <2>2. map[sub.lpn] = [subPage |-> sub.bitMap,
                        ppn     |-> get_PPN_From_Detail(<<x, eraseBlock[x], EPage[x]>>)]
    BY <1>3, <2>1, CopyCurrent DEF CopyIsCurrent, CopyUnderWay
  <2>3. PICK old \in Locations : Invalidates(sub, old)
    BY <1>3, <1>7, <2>2
  <2>4. old = <<x, eraseBlock[x], EPage[x]>>
    <3> PICK from \in Locations : from = <<x, eraseBlock[x], EPage[x]>>
      BY <2>1 DEF Locations
    <3>1. map[sub.lpn].ppn = get_PPN_From_Detail(from)
      BY <2>2
    <3>2. map[sub.lpn].ppn = get_PPN_From_Detail(old)
      BY <1>8, <2>3
    <3>3. \A l \in Locations : Coordinates(get_PPN_From_Detail(l)) = l
      BY LocationRoundTrip
    <3>4. old = from
      BY <3>1, <3>2, <3>3
    <3> QED BY <3>4
  <2>5. /\ blockInfos'[<<x, eraseBlock[x]>>].invalidPageCount =
             blockInfos[<<x, eraseBlock[x]>>].invalidPageCount + 1
        /\ eraseBlock'[x] = eraseBlock[x]
    BY <1>2, <1>8, <2>3, <2>4
  <2> QED BY <2>5 DEF Invalid
<1>11. LastAllocated'
  <2>1. \A b \in Blocks : blockInfos'[b].startWrite = blockInfos[b].startWrite
    BY <1>1, <1>2, UpdateKeepsOrder
  <2> QED BY <1>2, <1>5, <2>1, LastStays DEF RoomInv, LastOf, Blocks
<1>12. ASSUME NEW p \in Planes
       PROVE  RoomIn(p)'
  <2> DEFINE eb == eraseBlock[p]
  <2>1. /\ eb \in BlockNos /\ eraseBlock'[p] = eb /\ eraseUsed'[p] = eraseUsed[p]
        /\ counts[p].freePageCount \in Int /\ counts'[p].freePageCount = counts[p].freePageCount
        /\ Invalid(p, eb) \in Int /\ RoomIn(p) /\ Owed(p) \in 0..2
        /\ AsNumber(CopyWritten(p)) \in 0..1 /\ pageOfBlock \in Nat
    BY <1>2, <1>6, RoomTypes, Sizes DEF RoomInv
  <2>2. blockInfos'[<<p, eb>>].invalidPageCount \in Int
        /\ blockInfos'[<<p, eb>>].invalidPageCount >= Invalid(p, eb)
        /\ (p \notin PlanesOf(c) => blockInfos'[<<p, eb>>].invalidPageCount = Invalid(p, eb))
        /\ (p = x /\ x # c => blockInfos'[<<p, eb>>].invalidPageCount = Invalid(p, eb) + 1)
    <3>1. \A n \in BlockNos : Invalid(p, n)' = blockInfos'[<<p, n>>].invalidPageCount
      BY DEF Invalid
    <3>2. p = x => Invalid(x, eraseBlock[x])' = blockInfos'[<<p, eb>>].invalidPageCount
      BY <2>1 DEF Invalid
    <3> QED BY <1>9, <1>10, <2>1, <3>1, <3>2
  <2>3. Invalid(p, eraseBlock[p])' = blockInfos'[<<p, eb>>].invalidPageCount
    BY <2>1 DEF Invalid
  <2>4. CASE p \notin PlanesOf(c)
    BY <1>5, <2>1, <2>2, <2>3, <2>4, OthersRoom
  <2>5. CASE p \in PlanesOf(c)
    <3>1. ChipOf(p) = c /\ p # c
      BY <2>5, ChipsAndPlanes DEF PlanesOf
    <3>2. /\ HostWritesIn(p) <=> x = c /\ sub.location[1] = p
          /\ CopyWritten(p) <=> x = p
          /\ ~HostWritesIn(p)' /\ ~CopyWritten(p)'
      BY <1>1, <1>5, <3>1 DEF HostWritesIn, CopyWritten
    <3>3. Owed(p)' = Owed(p)
      <4>1. CASE x = c
        <5>1. /\ AsNumber(HostWritesIn(p)) = AsNumber(sub.location[1] = p)
              /\ AsNumber(HostWritesIn(p))' = 0
              /\ AsNumber(p \in toCheck[ChipOf(p)]) = 0
              /\ AsNumber(p \in toCheck[ChipOf(p)])' = AsNumber(sub.location[1] = p)
          BY <1>5, <3>1, <3>2, <4>1 DEF AsNumber
        <5>2. AsNumber(sub.location[1] = p) \in 0..1
          BY DEF AsNumber
        <5> QED BY <5>1, <5>2 DEF Owed
      <4>2. CASE x # c
        <5>1. /\ AsNumber(HostWritesIn(p)) = 0 /\ AsNumber(HostWritesIn(p))' = 0
              /\ AsNumber(p \in toCheck[ChipOf(p)])' = AsNumber(p \in toCheck[ChipOf(p)])
          BY <1>5, <3>2, <4>2 DEF AsNumber
        <5> QED BY <5>1 DEF Owed
      <4> QED BY <4>1, <4>2
    <3>4. /\ AsNumber(CopyWritten(p))' = 0
          /\ p # x => AsNumber(CopyWritten(p)) = 0
      BY <3>2 DEF AsNumber
    <3> HIDE DEF eb
    <3>5. AsNumber(CopyWritten(p))' + blockInfos'[<<p, eb>>].invalidPageCount
            >= AsNumber(CopyWritten(p)) + Invalid(p, eb)
      BY <2>1, <2>2, <3>1, <3>4
    <3> QED BY <2>1, <2>2, <2>3, <3>3, <3>4, <3>5 DEF RoomIn, eb
  <2> QED BY <2>4, <2>5
<1>13. OneToCheck'
  BY <1>5 DEF RoomInv, OneToCheck
<1> QED BY <1>2, <1>11, <1>12, <1>13 DEF RoomInv

\* An erase gives a block's worth of pages.
LEMMA EndOfEraseKeepsRoom ==
  ASSUME IInv, CInv, RoomInv, NEW c \in Chips, CompleteErase(c)
  PROVE  RoomInv'
<1>a. /\ chipState[c] = "ERASE" /\ eraseCommands[c] # <<>> /\ Collected(c) = inflight[c]
      /\ Collected(c) \in PlanesOf(c)
  BY HeadIsUsed DEF IInv, QueuesMatchChip, CompleteErase, Collected
<1> PICK p \in PlanesOf(c) : p = inflight[c]
  BY <1>a
<1> DEFINE free == counts[p].freePageCount
           victim == <<p, eraseBlock[p]>>
<1>1. /\ QueuesOK /\ TablesOK /\ ChipOK(c) /\ DataOK /\ eraseUsed[p]
      /\ p \in Planes /\ eraseBlock[p] \in BlockNos
  BY <1>a, TypeParts, HeadIsUsed DEF IInv, CInv, QueuesOK, PlanesOf
<1>2. /\ eraseUsed' = [eraseUsed EXCEPT ![p] = FALSE]
      /\ chipState' = [chipState EXCEPT ![c] = "IDLE"]
      /\ erase_block(p, eraseBlock[p]) /\ Shift(p, pageOfBlock, 0, -pageOfBlock)
      /\ UNCHANGED <<inflight, map, activeBlock, eraseBlock, cmd, toCheck, spinning>>
  BY DEF CompleteErase, Idle, erase_block
<1>3. /\ chipState'[c] = "IDLE"
      /\ \A d \in Chips : d # c => chipState'[d] = chipState[d] /\ inflight'[d] = inflight[d]
      /\ eraseUsed'[p] = FALSE
      /\ \A q \in Planes : q # p => eraseUsed'[q] = eraseUsed[q]
  BY <1>1, <1>2 DEF QueuesOK
<1>4. /\ AllInvalid(p)
      /\ \A loc \in PagesOf(p, eraseBlock[p]) : pageInfos[loc].state = {}
  BY <1>a, <1>1 DEF ChipOK, EraseOK
<1>5. \A b \in Blocks : b # victim => blockInfos'[b] = blockInfos[b]
  <2>1. Programmed(ChipOf(p)) = {} /\ \A d \in Chips : Programmed(d)' = Programmed(d)
    BY <1>a, <1>2, <1>3 DEF Programmed, PlanesOf
  <2> QED BY <1>1, <1>2, <1>4, <2>1, EraseKeepsData
<1>6. /\ counts'[p].freePageCount = free + pageOfBlock
      /\ \A q \in Planes : q # p => counts'[q] = counts[q]
  <2>1. \A q \in Planes : q \in Units /\ (q \in Ancestors(p) <=> q = p)
    BY <1>1, BlocksOfPlane
  <2>2. counts'[p].freePageCount = counts[p].freePageCount + pageOfBlock
    BY <1>1, <1>2, <2>1 DEF Shift
  <2>3. \A q \in Planes : q # p => counts'[q] = counts[q]
    BY <1>2, <2>1 DEF Shift
  <2> QED BY <2>2, <2>3
<1>7. LastAllocated'
  <2>1. \A q \in Planes \ PlanesOf(c), n \in BlockNos :
          blockInfos'[<<q, n>>].startWrite = blockInfos[<<q, n>>].startWrite
    BY <1>5 DEF Blocks
  <2> QED BY <1>2, <1>3, <2>1, LastStays DEF RoomInv, LastOf
<1>8. ASSUME NEW q \in Planes PROVE RoomIn(q)'
  <2>1. RoomIn(q) /\ eraseBlock[q] \in BlockNos
    BY RoomTypes DEF RoomInv
  <2>2. q # p => Invalid(q, eraseBlock[q])' = Invalid(q, eraseBlock[q])
    BY <1>2, <1>5, <2>1 DEF Invalid, Blocks
  <2>3. CASE q \notin PlanesOf(c)
    BY <1>2, <1>3, <1>6, <2>1, <2>2, <2>3, OthersRoom
  <2>4. CASE q \in PlanesOf(c) /\ q # p
    <3>1. /\ ~HostWritesIn(q) /\ ~CopyWritten(q) /\ ~HostWritesIn(q)' /\ ~CopyWritten(q)'
      BY <1>a, <1>3, <2>4 DEF HostWritesIn, CopyWritten, PlanesOf
    <3> QED BY <1>2, <1>3, <1>6, <2>1, <2>2, <2>4, <3>1, RoomKept
  <2>5. CASE q = p
    <3>1. AsNumber(CopyWritten(p)) = 0
      BY <1>a DEF CopyWritten, PlanesOf, AsNumber
    <3>2. Invalid(p, eraseBlock[p]) = pageOfBlock
      BY <1>4 DEF AllInvalid, Invalid
    <3>3. free \in Int /\ pageOfBlock \in Nat
      BY <1>1, RoomTypes, Sizes
    <3>4. free > 0
      BY <1>1, <2>1, <2>5, <3>1, <3>2, <3>3 DEF RoomIn
    <3>5. Owed(p)' \in 0..2
      BY DEF Owed, AsNumber
    <3> QED BY <1>3, <1>6, <2>5, <3>3, <3>4, <3>5 DEF RoomIn
  <2> QED BY <2>3, <2>4, <2>5
<1>9. ~spinning' /\ OneToCheck'
  BY <1>2 DEF RoomInv, OneToCheck
<1> QED BY <1>7, <1>8, <1>9 DEF RoomInv

\* A block has no more pages than its size.
LEMMA CensusFits ==
  ASSUME NEW b \in Blocks
  PROVE  Cardinality(Census(b)) \in Nat /\ Cardinality(Census(b)) <= pageOfBlock
<1>1. IsFiniteSet(PageNos) /\ Cardinality(PageNos) = pageOfBlock
  <2>1. 0 \in Int /\ pageOfBlock - 1 \in Int /\ pageOfBlock \in Nat \ {0}
    BY Sizes
  <2> QED BY <2>1, FS_Interval DEF PageNos
<1> PICK f : f = [loc \in Census(b) |-> loc[3]]
  OBVIOUS
<1>2. \A loc \in Census(b) : /\ loc[1] = b[1] /\ loc[2] = b[2] /\ loc[3] \in PageNos
                             /\ loc = <<loc[1], loc[2], loc[3]>>
  BY DEF Census, PagesOf, Locations
<1>3. f \in Injection(Census(b), PageNos)
  <2>1. f \in [Census(b) -> PageNos]
    BY <1>2
  <2>2. \A l \in Census(b), m \in Census(b) : f[l] = f[m] => l = m
    BY <1>2
  <2> QED BY <2>1, <2>2 DEF Injection, IsInjective
<1>4. Cardinality(Census(b)) <= Cardinality(PageNos)
  BY <1>1, <1>3, FS_Injection
<1> QED BY <1>1, <1>4, CensusFinite, FS_CardinalityType

\* check_and_create_gc either finds that there is room without the page the host
\* took last, or finds a block that gives it back.
LEMMA CheckKeepsRoom ==
  ASSUME IInv, CInv, UnitsAgree, EnoughRoom, RoomInv, NEW c \in Chips, check_and_create_gc(c)
  PROVE  RoomInv'
<1>1. /\ QueuesOK /\ toCheck[c] \subseteq PlanesOf(c)
      /\ ~spinning /\ LastAllocated /\ OneToCheck
  BY TypeParts DEF IInv, OnOwnChip, OwnChip, RoomInv
<1>2. PICK plane \in toCheck[c] :
        /\ toCheck' = [toCheck EXCEPT ![c] = {}]
        /\ \/ ~NeedsGC(plane) /\ UNCHANGED erasing
           \/ /\ NeedsGC(plane)
              /\ \E b \in BlockNos :
                   IsTarget(plane, b) /\ eraseBlock' = [eraseBlock EXCEPT ![plane] = b]
              /\ eraseUsed' = [eraseUsed EXCEPT ![plane] = TRUE]
        /\ UNCHANGED <<tables, chipState, inflight, cmd, spinning>>
  BY DEF check_and_create_gc
<1>3. plane \in Planes /\ ChipOf(plane) = c
  BY <1>1 DEF PlanesOf
<1>4. /\ \A q \in Planes : /\ HostWritesIn(q)' <=> HostWritesIn(q)
                           /\ CopyWritten(q)' <=> CopyWritten(q)
                           /\ counts'[q].freePageCount = counts[q].freePageCount
      /\ toCheck'[c] = {} /\ \A d \in Chips : d # c => toCheck'[d] = toCheck[d]
      /\ blockInfos' = blockInfos
  BY <1>1, <1>2 DEF HostWritesIn, CopyWritten, QueuesOK, tables
<1>5. ASSUME NEW q \in Planes, q # plane PROVE RoomIn(q)'
  <2>1. eraseUsed'[q] = eraseUsed[q] /\ eraseBlock'[q] = eraseBlock[q]
    BY <1>1, <1>2, <1>5 DEF QueuesOK, erasing
  <2>2. q \in toCheck'[ChipOf(q)] <=> q \in toCheck[ChipOf(q)]
    BY <1>1, <1>4, <1>5, ChipsAndPlanes DEF OneToCheck
  <2>3. Invalid(q, eraseBlock[q])' = Invalid(q, eraseBlock[q])
    BY <1>4, <2>1 DEF Invalid
  <2> QED BY <1>4, <2>1, <2>2, <2>3, RoomKept DEF RoomInv
<1>6. RoomIn(plane)'
  <2> DEFINE free == counts[plane].freePageCount
  <2>1. /\ free \in Int /\ pageOfBlock \in Nat /\ Owed(plane) \in 0..2 /\ RoomIn(plane)
        /\ (pageOfBlock * blockOfPlane) \div GC_RATE \in Nat
        /\ (pageOfBlock * blockOfPlane) \div GC_RATE >= pageOfBlock
        /\ \A n \in BlockNos : <<plane, n>> \in Blocks /\ Invalid(plane, n) \in Int
        /\ eraseBlock[plane] \in BlockNos
    BY <1>3, RoomTypes, RoomNumbers DEF RoomInv
  <2>2. /\ AsNumber(CopyWritten(plane))' = AsNumber(CopyWritten(plane))
        /\ AsNumber(CopyWritten(plane)) \in 0..1
    BY <1>3, <1>4 DEF AsNumber
  <2>3. Owed(plane)' \in 0..2
    BY DEF Owed, AsNumber
  <2>4. CASE ~NeedsGC(plane) /\ UNCHANGED erasing
    <3>1. eraseUsed' = eraseUsed /\ eraseBlock' = eraseBlock
      BY <2>4 DEF erasing
    <3>2. CASE eraseUsed[plane]
      <4>1. Invalid(plane, eraseBlock[plane])' = Invalid(plane, eraseBlock[plane])
        BY <1>4, <3>1 DEF Invalid
      <4> QED BY <1>3, <1>4, <2>1, <2>2, <3>1, <3>2, <4>1 DEF RoomIn
    <3>3. CASE ~eraseUsed[plane]
      <4>1. free > pageOfBlock
        <5>1. CASE Candidates(plane) = {}
          BY <1>1, <1>3, <2>1, <5>1, VictimExists
        <5>2. CASE Candidates(plane) # {}
          BY <2>1, <2>4, <3>3, <5>2 DEF NeedsGC
        <5> QED BY <5>1, <5>2
      <4> QED BY <1>3, <1>4, <2>1, <2>3, <3>1, <3>3, <4>1 DEF RoomIn
    <3> QED BY <3>2, <3>3
  <2>5. ASSUME NeedsGC(plane), NEW b \in BlockNos, IsTarget(plane, b),
               eraseBlock' = [eraseBlock EXCEPT ![plane] = b],
               eraseUsed' = [eraseUsed EXCEPT ![plane] = TRUE]
        PROVE  RoomIn(plane)'
    <3>1. ~eraseUsed[plane] /\ b \in Candidates(plane)
      BY <2>5 DEF NeedsGC, IsTarget
    <3>2. eraseUsed'[plane] /\ eraseBlock'[plane] = b
      BY <1>1, <1>3, <2>5 DEF QueuesOK
    <3>3. free >= pageOfBlock - 1
      BY <2>1, <3>1 DEF RoomIn
    <3>4. Invalid(plane, b) >= 1
      <4>1. /\ blockInfos[<<plane, b>>].freePageCount = 0 /\ Invalid(plane, b) # 0
            /\ blockInfos[<<plane, b>>].freePageCount =
                 pageOfBlock - blockInfos[<<plane, b>>].startWrite
            /\ blockInfos[<<plane, b>>].startWrite \in 0..pageOfBlock
        BY <2>1, <3>1, WriteFrontierParts
        DEF Candidates, IInv, FreeIsUnwritten, BlocksInOrder
      <4>2. /\ Invalid(plane, b) =
                 blockInfos[<<plane, b>>].startWrite - blockInfos[<<plane, b>>].validPageCount
            /\ blockInfos[<<plane, b>>].validPageCount = Cardinality(Census(<<plane, b>>))
        BY <2>1 DEF CInv, DataOK, BlocksAgree, Invalid
      <4>3. /\ Cardinality(Census(<<plane, b>>)) \in Nat
            /\ Cardinality(Census(<<plane, b>>)) <= pageOfBlock
        BY <2>1, CensusFits
      <4> QED BY <2>1, <4>1, <4>2, <4>3
    <3>5. free < pageOfBlock => Invalid(plane, b) >= 2
      <4> SUFFICES ASSUME free < pageOfBlock PROVE Invalid(plane, b) >= 2
        OBVIOUS
      <4>1. PICK o \in Candidates(plane) : Invalid(plane, o) >= 2
        BY <1>1, <1>3, <2>1, VictimExists
      <4>2. Invalid(plane, o) < Invalid(plane, b) \/ Invalid(plane, o) = Invalid(plane, b)
        BY <2>5 DEF IsTarget
      <4>3. Invalid(plane, o) \in Int /\ Invalid(plane, b) \in Int
        BY <2>1 DEF Candidates
      <4> QED BY <4>1, <4>2, <4>3
    <3>6. Invalid(plane, eraseBlock[plane])' = Invalid(plane, b)
      BY <1>4, <3>2 DEF Invalid
    <3>7. free + AsNumber(CopyWritten(plane)) + Invalid(plane, b) > pageOfBlock
      <4>1. Invalid(plane, b) \in Int
        BY <2>1
      <4> HIDE DEF free
      <4> QED BY <2>1, <2>2, <3>3, <3>4, <3>5, <4>1
    <3> QED BY <1>3, <1>4, <2>2, <3>2, <3>6, <3>7 DEF RoomIn
  <2> QED BY <1>2, <2>4, <2>5
<1>7. LastAllocated'
  BY <1>1, <1>2 DEF LastAllocated, LastOf, tables
<1>8. ~spinning' /\ OneToCheck'
  BY <1>1, <1>2, <1>4 DEF OneToCheck
<1> QED BY <1>5, <1>6, <1>7, <1>8 DEF RoomInv

LEMMA InitRoom ==
  ASSUME EnoughRoom, Init
  PROVE  RoomInv
<1>1. /\ chipState = [c \in Chips |-> "IDLE"] /\ toCheck = [c \in Chips |-> {}]
      /\ eraseUsed = [p \in Planes |-> FALSE] /\ spinning = FALSE
      /\ counts = [u \in Units |->
           [freePageCount    |-> Cardinality({p \in Planes : u \in Ancestors(p)})
                                   * page_no_per_plane,
            validPageCount   |-> 0, invalidPageCount |-> 0]]
  BY DEF Init
<1>2. ASSUME NEW p \in Planes PROVE RoomIn(p)
  <2>1. ChipOf(p) \in Chips /\ p \in Units
    BY ChipsAndPlanes, BlocksOfPlane
  <2>2. {q \in Planes : p \in Ancestors(q)} = {p}
    BY BlocksOfPlane
  <2>3. Cardinality({p}) = 1
    BY FS_Singleton
  <2>4. counts[p].freePageCount = 1 * page_no_per_plane
    BY <1>1, <2>1, <2>2, <2>3
  <2>5. page_no_per_plane >= pageOfBlock + 2 /\ pageOfBlock \in Nat
    BY RoomNumbers
  <2>6. page_no_per_plane \in Nat
    BY Sizes
  <2>7. Owed(p) = 0
    BY <1>1, <2>1 DEF Owed, HostWritesIn, AsNumber
  <2>8. counts[p].freePageCount > pageOfBlock
    BY <2>4, <2>5, <2>6
  <2> QED BY <1>1, <2>4, <2>6, <2>7, <2>8 DEF RoomIn
<1>3. LastAllocated /\ OneToCheck /\ ~spinning
  BY <1>1 DEF LastAllocated, LastOf, OneToCheck
<1> QED BY <1>2, <1>3 DEF RoomInv

LEMMA NextKeepsRoom ==
  ASSUME IInv, CInv, NoneRefused, UnitsAgree, EnoughRoom, RoomInv, [Next]_vars
  PROVE  RoomInv'
<1>1. CASE UNCHANGED vars
  <2>1. UNCHANGED <<tables, spinning, eraseUsed, eraseBlock, toCheck, chipState, inflight, cmd>>
    BY <1>1 DEF vars, erasing
  <2>2. \A p \in Planes : RoomIn(p)'
    <3>1. \A p \in Planes : RoomIn(p)' <=> RoomIn(p)
      BY <2>1
      DEF RoomIn, Owed, AsNumber, HostWritesIn, CopyWritten, Invalid, tables
    <3> QED BY <3>1 DEF RoomInv
  <2>3. LastAllocated' /\ OneToCheck' /\ ~spinning'
    BY <2>1 DEF RoomInv, LastAllocated, LastOf, OneToCheck, tables
  <2> QED BY <2>2, <2>3 DEF RoomInv
<1>2. CASE Next
  <2>1. PICK c \in Chips : Dispatch(c) \/ Complete(c) \/ check_and_create_gc(c)
    BY <1>2 DEF Next
  <2>2. Complete(c) => RoomInv'
    BY EndOfProgramKeepsRoom, EndOfReadKeepsRoom, EndOfEraseKeepsRoom DEF Complete
  <2> QED BY <2>1, <2>2, DispatchKeepsRoom, CheckKeepsRoom
<1> QED BY <1>1, <1>2

(* The search for the next active block always ends, as long as no number   *)
(* is refused, if the host writes fewer logical pages to each plane than    *)
(* (blockOfPlane-1)(pageOfBlock-1) and GC_RATE is at most blockOfPlane, as   *)
(* both are in the code.                                                     *)
THEOREM SearchAlwaysEnds ==
  ASSUME EnoughRoom
  PROVE  Spec /\ []NoneRefused => []NeverSpins
<1>1. Init => RoomInv
  BY InitRoom
<1>2. IInv /\ CInv /\ NoneRefused /\ UnitsAgree /\ RoomInv /\ [Next]_vars => RoomInv'
  BY NextKeepsRoom
<1>3. IInv /\ NoneRefused /\ CInv /\ UnitsAgree /\ [Next]_vars => UnitsAgree'
  BY NextKeepsUnits
<1>4. RoomInv => NeverSpins
  BY DEF RoomInv, NeverSpins
<1> QED BY <1>1, <1>2, <1>3, <1>4, InitUnits, Invariance, CollectionInvariance, PTL DEF Spec

\* A plane gets no more logical pages of the host than there are.
LEMMA HostPagesBelowMap ==
  \A p : Cardinality(PagesOfHost(p)) <= mapSize
<1>1. ASSUME NEW n \in Nat
      PROVE  IsFiniteSet(0..n-1) /\ Cardinality(0..n-1) = n
  <2>1. 0 \in Int /\ n - 1 \in Int
    OBVIOUS
  <2>2. /\ IsFiniteSet(0..n-1)
        /\ Cardinality(0..n-1) = IF 0 > n - 1 THEN 0 ELSE (n - 1) - 0 + 1
    BY <2>1, FS_Interval
  <2> QED BY <2>2
<1>2. IsFiniteSet(LPNs) /\ Cardinality(LPNs) = mapSize
  <2>1. mapSize \in Nat
    BY PageNumbers
  <2> QED BY <1>1, <2>1 DEF LPNs
<1>3. \A p : PagesOfHost(p) \subseteq LPNs
  BY FlashAssumption DEF PagesOfHost
<1>4. \A p : Cardinality(PagesOfHost(p)) <= Cardinality(LPNs)
  BY <1>2, <1>3, FS_Subset
<1> QED BY <1>2, <1>4, Zenon

\* setup_USBSSD and command.h meet the condition, whatever the host writes: all
\* logical pages of the one plane are 14746, and 255 * 63 is 16065.
LEMMA ShippedHasRoom ==
  ASSUME channelCount = 1, chipOfChannel = 1, dieOfChip = 1, planeOfDie = 1,
         blockOfPlane = 256, pageOfBlock = 64, RESERVE_RATE = 10, GC_RATE = 10
  PROVE  EnoughRoom
<1>1. PageCount = 16384
  BY DEF PageCount, page_no_per_channel, page_no_per_chip, page_no_per_die, page_no_per_plane
<1>2. mapSize = 14746
  <2>1. all_capacity = 33554432
    BY <1>1 DEF all_capacity, PAGE_SIZE_USBSSD
  <2>2. usable_capacity = 30198989
    BY <2>1 DEF usable_capacity
  <2> QED BY <2>2 DEF mapSize, PAGE_SIZE_USBSSD
<1>3. mapSize < (blockOfPlane - 1) * (pageOfBlock - 1)
  BY <1>2, SMT
<1>4. (blockOfPlane - 1) * (pageOfBlock - 1) \in Int /\ mapSize \in Int
  BY PageNumbers, Sizes
<1>5. \A p \in Planes : Cardinality(PagesOfHost(p)) < (blockOfPlane - 1) * (pageOfBlock - 1)
  <2> SUFFICES ASSUME NEW p \in Planes
               PROVE  Cardinality(PagesOfHost(p)) < (blockOfPlane - 1) * (pageOfBlock - 1)
    OBVIOUS
  <2>1. Cardinality(PagesOfHost(p)) \in Int /\ Cardinality(PagesOfHost(p)) <= mapSize
    BY HostPagesBelowMap, HostPagesFinite
  <2> QED BY <1>3, <1>4, <2>1
<1>6. GC_RATE <= blockOfPlane
  OBVIOUS
<1> QED BY <1>5, <1>6 DEF EnoughRoom
=============================================================================
