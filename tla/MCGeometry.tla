----------------------------- MODULE MCGeometry -----------------------------
(* The address arithmetic of Geometry, tried on every page number in turn. *)
EXTENDS Geometry, FiniteSets

VARIABLE page \* a page number, physical or logical

Init == page = 0
Next == page + 1 \in PPNs /\ page' = page + 1
Spec == Init /\ [][Next]_page

(* Splitting a physical page number and putting it together again gives the  *)
(* same page (get_PPN_Detail_USBSSD, get_PPN_From_Detail_USBSSD), and the    *)
(* numbers in between are coordinates of a page the device has.              *)
PPNRoundTrip ==
  /\ Coordinates(page) \in Locations
  /\ get_PPN_From_Detail(Coordinates(page)) = page

SECTORS_PER_PAGE == PAGE_SIZE_USBSSD \div 512

(* The map has an entry for every sector of the capacity the disk announces, *)
(* the last and partial page of it included.                                 *)
AnnouncedIsMapped ==
  page * SECTORS_PER_PAGE < usable_capacity \div 512 => page \in LPNs

(* No plane is given so many logical pages (allocate_location_for_plane)     *)
(* that it has no page left to collect garbage with.                         *)
PlanesKeepRoom ==
  LET plane == Coordinates(page)[1]
  IN Cardinality({lpn \in LPNs : allocate_location_for_plane(lpn) = plane})
       < page_no_per_plane
=============================================================================
