----------------------------- MODULE SetupProofs -----------------------------
(***************************************************************************)
(* What setup_USBSSD fixes and what the loading and unloading of the       *)
(* module allocate: the theorems about MCGeometry's machine of page        *)
(* numbers, for every geometry, and those about Lifecycle, for every tree  *)
(* and every way its allocations and registrations can fail.               *)
(*                                                                         *)
(* The argument about Lifecycle is a table: for every stage of             *)
(* USBSSD_init and USBSSD_exit, what is certainly allocated when it is     *)
(* reached (so nothing is freed twice), what is certainly freed (so        *)
(* nothing is left at the end), what is still registered, and in which     *)
(* stages a chip may still work.                                           *)
(***************************************************************************)
EXTENDS Lifecycle, MCGeometry, GeometryProofs, FiniteSetTheorems

-----------------------------------------------------------------------------
(* The theorems about MCGeometry.                                          *)

(* Every page number the machine of MCGeometry visits is one of the        *)
(* device's, so get_PPN_Detail_USBSSD and get_PPN_From_Detail_USBSSD are   *)
(* inverse to each other on it.                                            *)
THEOREM RoundTripTheorem == Spec => []PPNRoundTrip
<1>1. Init => page \in PPNs
  BY Sizes DEF Init, PPNs
<1>2. page \in PPNs /\ [Next]_page => (page \in PPNs)'
  BY DEF Next, PPNs, PageCount, page_no_per_channel, page_no_per_chip,
         page_no_per_die, page_no_per_plane
<1>3. page \in PPNs => PPNRoundTrip
  BY NumberRoundTrip DEF PPNRoundTrip
<1> QED BY <1>1, <1>2, <1>3, PTL DEF Spec

(* The map built by setup_USBSSD covers the whole capacity init_Module     *)
(* announces to the block layer, whatever the geometry and the reserve.    *)
THEOREM AnnouncedTheorem == Spec => []AnnouncedIsMapped
<1>1. Init => page \in Nat
  BY DEF Init
<1>2. page \in Nat /\ [Next]_page => (page \in Nat)'
  BY DEF Next
<1>3. page \in Nat => AnnouncedIsMapped
  <2> SUFFICES ASSUME page \in Nat, page * 4 < usable_capacity \div 512
               PROVE  page \in LPNs
    BY DEF AnnouncedIsMapped, SECTORS_PER_PAGE, PAGE_SIZE_USBSSD
  <2>1. usable_capacity \in Int
    <3>1. all_capacity \in Int
      BY Sizes DEF all_capacity, PAGE_SIZE_USBSSD
    <3>2. all_capacity \div RESERVE_RATE \in Int
      BY <3>1, GeometryAssumption
    <3> QED BY <3>1, <3>2 DEF usable_capacity
  <2>2. page * 2048 < usable_capacity
    BY <2>1
  <2>3. page <= mapSize - 1
    BY <2>1, <2>2 DEF mapSize, PAGE_SIZE_USBSSD
  <2>4. mapSize \in Int
    BY <2>1 DEF mapSize, PAGE_SIZE_USBSSD
  <2> QED BY <2>3, <2>4 DEF LPNs
<1> QED BY <1>1, <1>2, <1>3, PTL DEF Spec

(* Dividing twice is dividing by the product.                              *)
LEMMA DivDiv ==
  ASSUME NEW x \in Nat, NEW m \in Nat \ {0}, NEW n \in Nat \ {0}
  PROVE  (x \div m) \div n = x \div (m * n)
<1> DEFINE y == x \div m
           q == y \div n
<1>1. y \in Nat /\ x % m \in 0..m-1 /\ x = m * y + (x % m)
  OBVIOUS
<1>2. q \in Nat /\ y % n \in 0..n-1 /\ y = n * q + (y % n)
  <2>1. y \in Nat
    BY <1>1
  <2> HIDE DEF y
  <2> QED BY <2>1
<1> HIDE DEF y, q
<1>3. PICK r \in 0..n-1 : r = y % n
  BY <1>2
<1>4. PICK s \in 0..m-1 : s = x % m
  BY <1>1
<1>5. m * r + s \in 0..(m * n)-1
  BY Compose
<1>6. m * n \in Nat \ {0}
  OBVIOUS
<1>7. x = (m * n) * q + (m * r + s)
  <2>1. x = m * (n * q + r) + s
    BY <1>1, <1>2, <1>3, <1>4
  <2>2. m * (n * q + r) = (m * n) * q + m * r
    BY <1>2
  <2>3. (m * n) * q \in Nat /\ m * r \in Nat
    BY <1>2
  <2> QED BY <2>1, <2>2, <2>3
<1>8. ((m * n) * q + (m * r + s)) \div (m * n) = q
  BY <1>2, <1>5, <1>6, DivMod
<1> QED BY <1>7, <1>8 DEF q, y

(* A number is known by its quotient and its remainder.                    *)
LEMMA Digits ==
  ASSUME NEW x \in Nat, NEW y \in Nat, NEW n \in Nat \ {0},
         x \div n = y \div n, x % n = y % n
  PROVE  x = y
<1>1. x = n * (x \div n) + (x % n) /\ y = n * (y \div n) + (y % n)
  OBVIOUS
<1> QED BY <1>1

\* The planes of the device.
planeCount == channelCount * chipOfChannel * dieOfChip * planeOfDie

(* The map is short of the pages by at least one page in every plane, when *)
(* a plane has as many pages as RESERVE_RATE says (16384 and 10).          *)
LEMMA ReserveIsKept ==
  ASSUME page_no_per_plane >= RESERVE_RATE
  PROVE  /\ planeCount \in Nat \ {0}
         /\ \A lpn \in LPNs : (lpn \div planeCount) \in 0..page_no_per_plane-2
<1>1. \A m, n \in Nat \ {0} : m * n \in Nat \ {0}
  OBVIOUS
<1>2. planeCount \in Nat \ {0}
  BY <1>1, Sizes DEF planeCount
<1>3. PageCount = page_no_per_plane * planeCount
  <2>1. ASSUME NEW a \in Nat, NEW b \in Nat, NEW c \in Nat, NEW d \in Nat, NEW e \in Nat
        PROVE  (((a * b) * c) * d) * e = a * (((e * d) * c) * b)
    OBVIOUS
  <2>2. PageCount = (((page_no_per_plane * planeOfDie) * dieOfChip) * chipOfChannel) * channelCount
    BY DEF PageCount, page_no_per_channel, page_no_per_chip, page_no_per_die
  <2> QED BY <2>1, <2>2, Sizes DEF planeCount
<1> DEFINE room == all_capacity \div RESERVE_RATE
<1>4. PICK N \in Nat \ {0}, P \in Nat \ {0}, R \in Nat \ {0} :
        N = planeCount /\ P = page_no_per_plane /\ R = RESERVE_RATE
  BY <1>2, Sizes, GeometryAssumption
<1>5. P >= R
  BY <1>4
<1>6. all_capacity = P * N * 2048
  BY <1>3, <1>4 DEF all_capacity, PAGE_SIZE_USBSSD
<1>7. room >= N * 2048 /\ room \in Nat
  <2>1. P * (N * 2048) >= R * (N * 2048)
    BY <1>5
  <2>2. P * N * 2048 = P * (N * 2048)
    OBVIOUS
  <2>3. ASSUME NEW x \in Nat, NEW k \in Nat, x >= R * k
        PROVE  x \div R >= k /\ x \div R \in Nat
    <3>1. x \div R \in Nat /\ x % R \in 0..R-1 /\ x = R * (x \div R) + (x % R)
      OBVIOUS
    <3>2. SUFFICES ASSUME x \div R <= k - 1 PROVE FALSE
      BY <3>1
    <3>3. R * (x \div R) <= R * (k - 1)
      BY <3>1, <3>2
    <3>4. R * (k - 1) = R * k - R
      OBVIOUS
    <3> QED BY <2>3, <3>1, <3>3, <3>4
  <2>4. P * (N * 2048) \in Nat /\ N * 2048 \in Nat
    OBVIOUS
  <2> QED BY <1>4, <1>6, <2>1, <2>2, <2>3, <2>4
<1>8. usable_capacity = P * N * 2048 - room
  BY <1>6 DEF usable_capacity
<1> HIDE DEF room
<1>9. PICK Q \in Nat \ {0} : Q = P * N
  BY <1>1
<1>10. usable_capacity \in Int /\ usable_capacity <= (Q - N) * 2048
  BY <1>7, <1>8, <1>9
<1>11. mapSize \in Int /\ mapSize <= Q - N
  BY <1>10 DEF mapSize, PAGE_SIZE_USBSSD
<1>12. ASSUME NEW lpn \in LPNs PROVE (lpn \div planeCount) \in 0..page_no_per_plane-2
  <2>1. lpn \in Nat /\ lpn < Q - N
    BY <1>11 DEF LPNs
  <2>2. lpn \div N \in Nat /\ lpn >= N * (lpn \div N)
    BY <2>1
  <2>3. lpn \div N <= P - 2
    <3>1. SUFFICES ASSUME lpn \div N >= P - 1 PROVE FALSE
      BY <2>2
    <3>2. N * (lpn \div N) >= N * (P - 1)
      BY <2>2, <3>1
    <3>3. N * (P - 1) = P * N - N
      OBVIOUS
    <3> QED BY <1>9, <2>1, <2>2, <3>2, <3>3
  <2> QED BY <1>4, <2>2, <2>3
<1> QED BY <1>2, <1>12

(* The placement deals the logical pages out to the planes in turn: two of *)
(* them that share a plane are in different rounds.                        *)
LEMMA PlacementIsFair ==
  ASSUME NEW a \in Nat, NEW b \in Nat,
         allocate_location_for_plane(a) = allocate_location_for_plane(b),
         a \div planeCount = b \div planeCount
  PROVE  a = b
<1> DEFINE c2 == channelCount * chipOfChannel
           c3 == c2 * dieOfChip
<1>1. \A m, n \in Nat \ {0} : m * n \in Nat \ {0}
  OBVIOUS
<1>2. c2 \in Nat \ {0} /\ c3 \in Nat \ {0} /\ planeCount = c3 * planeOfDie
  BY <1>1, Sizes DEF planeCount
<1>3. /\ a % channelCount = b % channelCount
      /\ (a \div channelCount) % chipOfChannel = (b \div channelCount) % chipOfChannel
      /\ (a \div c2) % dieOfChip = (b \div c2) % dieOfChip
      /\ (a \div c3) % planeOfDie = (b \div c3) % planeOfDie
  BY DEF allocate_location_for_plane
<1> HIDE DEF c2, c3
<1>4. \A x \in Nat, n \in Nat \ {0} : x \div n \in Nat
  OBVIOUS
<1>5. a \div c3 = b \div c3
  <2>1. (a \div c3) \div planeOfDie = (b \div c3) \div planeOfDie
    BY <1>2, Sizes, DivDiv
  <2> QED BY <1>2, <1>3, <1>4, <2>1, Sizes, Digits
<1>6. a \div c2 = b \div c2
  <2>1. (a \div c2) \div dieOfChip = (b \div c2) \div dieOfChip
    BY <1>2, <1>5, Sizes, DivDiv DEF c3
  <2> QED BY <1>2, <1>3, <1>4, <2>1, Sizes, Digits
<1>7. a \div channelCount = b \div channelCount
  <2>1. (a \div channelCount) \div chipOfChannel = (b \div channelCount) \div chipOfChannel
    BY <1>6, Sizes, DivDiv DEF c2
  <2> QED BY <1>3, <1>4, <2>1, Sizes, Digits
<1> QED BY <1>3, <1>7, Sizes, Digits

(* No plane is given so many logical pages that it has no page left to     *)
(* collect garbage with, if it has as many pages as RESERVE_RATE says.     *)
(* (Otherwise a reserve below one page can be rounded away.)               *)
THEOREM PlanesKeepRoomTheorem ==
  ASSUME page_no_per_plane >= RESERVE_RATE
  PROVE  Spec => []PlanesKeepRoom
<1>1. PlanesKeepRoom
  <2> DEFINE plane == Coordinates(page)[1]
             S == {lpn \in LPNs : allocate_location_for_plane(lpn) = plane}
             T == 0..page_no_per_plane-2
             f == [lpn \in S |-> lpn \div planeCount]
  <2>1. page_no_per_plane \in Nat \ {0} /\ planeCount \in Nat \ {0}
    BY Sizes, ReserveIsKept
  <2>2. f \in Injection(S, T)
    <3>1. f \in [S -> T]
      BY ReserveIsKept
    <3>2. ASSUME NEW a \in S, NEW b \in S, f[a] = f[b] PROVE a = b
      <4>1. /\ a \in Nat /\ b \in Nat
            /\ allocate_location_for_plane(a) = allocate_location_for_plane(b)
        BY DEF LPNs
      <4>2. a \div planeCount = b \div planeCount
        BY <3>2
      <4> QED BY <4>1, <4>2, PlacementIsFair
    <3> HIDE DEF f, S, T
    <3> QED BY <3>1, <3>2 DEF Injection, IsInjective
  <2>3. IsFiniteSet(T) /\ Cardinality(T) = page_no_per_plane - 1
    <3>1. ASSUME NEW n \in Nat \ {0}
          PROVE  IsFiniteSet(0..n-2) /\ Cardinality(0..n-2) = n - 1
      <4>1. 0 \in Int /\ n - 2 \in Int
        OBVIOUS
      <4>2. /\ IsFiniteSet(0..n-2)
            /\ Cardinality(0..n-2) = IF 0 > n - 2 THEN 0 ELSE (n - 2) - 0 + 1
        BY <4>1, FS_Interval
      <4> QED BY <4>2
    <3> QED BY <2>1, <3>1
  <2>4. Cardinality(S) <= Cardinality(T)
    <3> HIDE DEF f, S, T
    <3> QED BY <2>2, <2>3, FS_Injection
  <2>5. Cardinality(S) \in Nat
    <3> HIDE DEF f, S, T
    <3> QED BY <2>2, <2>3, FS_Injection, FS_CardinalityType
  <2>6. Cardinality(S) < page_no_per_plane
    <3> HIDE DEF f, S, T
    <3> QED BY <2>1, <2>3, <2>4, <2>5
  <2> QED BY <2>6 DEF PlanesKeepRoom
<1> QED BY <1>1, PTL

-----------------------------------------------------------------------------
(* The stages, by what has been set up and not yet undone when one of them *)
(* comes next.                                                             *)

Exits == {"running", "del_gendisk", "free_tag_set", "destory_Simulate"}

HasHardware == {"register_blkdev", "alloc_tag_set", "register_disk"} \cup Exits
HasCommand  == {"init_Simulate", "err2", "err1", "err6", "destory_Command"} \cup HasHardware
HasSubRequest ==
  {"init_Command", "err5", "destory_SubRequest"} \cup HasCommand
HasRequest == {"init_SubRequest", "err4", "destory_Request"} \cup HasSubRequest
Stages == {"init_Request", "err3", "failed", "out"} \cup HasRequest

Registrations == {"blkdev", "tag_set", "disk"}

Faults == {"none", "destory_USBSSD", "init_Simulate", "del_gendisk", "allocate_USBSSD",
           "send_cmd_2_NAND", "use after free", "double free"}

LifeTypeOK ==
  /\ stage \in Stages /\ alive \subseteq Memory /\ v \in Int
  /\ registered \subseteq Registrations /\ failures \in Nat
  /\ pending \in BOOLEAN /\ working \in BOOLEAN /\ fault \in Faults

\* What is certainly there.
Owned ==
  /\ stage \in HasRequest => Allocator("request") \in alive
  /\ stage \in HasSubRequest => Allocator("subrequest") \in alive
  /\ stage \in HasCommand => Tree \cup {Map, Allocator("command")} \subseteq alive
  /\ stage \in HasHardware => HW(1) \in alive

\* What is certainly not there: not yet, or not any more.
Gone ==
  /\ stage \in {"init_Request", "out"} => alive = {}
  /\ stage = "init_SubRequest" => alive \subseteq {Allocator("request")}
  /\ stage = "init_Command" => alive \subseteq {Allocator("request"), Allocator("subrequest")}
  /\ stage \in {"init_Simulate", "destory_Command"} => alive \cap Hardware = {}
  /\ stage = "destory_SubRequest" =>
       alive \subseteq PoolBlocks("request") \cup PoolBlocks("subrequest")
  /\ stage = "destory_Request" => alive \subseteq PoolBlocks("request")

\* The exit, once the disk is gone.
AfterDisk == {"free_tag_set", "destory_Simulate", "destory_Command", "destory_SubRequest",
              "destory_Request", "out"}

\* What the block layer still has at the exit.
Registered ==
  /\ stage = "del_gendisk" => registered \subseteq {"tag_set", "disk"}
  /\ stage = "free_tag_set" => registered \subseteq {"tag_set"}
  /\ stage \in AfterDisk \ {"free_tag_set"} => registered = {}

\* Who may still use memory, as long as nothing has gone wrong.
Busy ==
  fault = "none" =>
    /\ pending => working
    /\ working => stage \in {"running", "del_gendisk"} \cup AfterDisk
    /\ working /\ stage \in {"running", "del_gendisk"} => Hardware \subseteq alive

\* What memCheck's counter is worth.
Counted ==
  /\ v >= Cardinality(alive)
  /\ failures = 0 => v = Cardinality(alive)

LifeInv ==
  /\ LifeTypeOK /\ Owned /\ Gone /\ Registered /\ Busy /\ Counted
  /\ FreedOnce /\ SafeWhileDisk

-----------------------------------------------------------------------------
(* Memory.                                                                 *)

\* The nodes under those of L, the parts of depth k.
Children(L, k) == {Append(p, i) : p \in L, i \in 1..Fanout[k]}

(* The recursive definition of the levels of the tree has a solution: the  *)
(* seven levels, each built from the one above it.                         *)
LEMMA Levels ==
  /\ Level[0] = {<<>>}
  /\ \A k \in 1..6 : Level[k] = Children(Level[k-1], k)
<1> DEFINE grow(f) == [k \in 0..6 |-> IF k = 0 THEN {<<>>} ELSE Children(f[k-1], k)]
           L1 == Children({<<>>}, 1)
           L2 == Children(L1, 2)
           L3 == Children(L2, 3)
           L4 == Children(L3, 4)
           L5 == Children(L4, 5)
           L6 == Children(L5, 6)
           found == [k \in 0..6 |->
                       IF k = 0 THEN {<<>>} ELSE IF k = 1 THEN L1 ELSE IF k = 2 THEN L2
                       ELSE IF k = 3 THEN L3 ELSE IF k = 4 THEN L4 ELSE IF k = 5 THEN L5 ELSE L6]
<1>1. found = grow(found)
  <2> SUFFICES ASSUME NEW k \in 0..6 PROVE found[k] = grow(found)[k]
    OBVIOUS
  <2>1. k \in {0, 1, 2, 3, 4, 5, 6}
    OBVIOUS
  <2> QED BY <2>1
<1>2. Level = CHOOSE f : f = grow(f)
  BY DEF Level, Children
<1> HIDE DEF found, grow
<1>3. Level = grow(Level)
  BY <1>1, <1>2
<1>4. Level[0] = {<<>>}
  BY <1>3 DEF grow
<1>5. ASSUME NEW k \in 1..6 PROVE Level[k] = Children(Level[k-1], k)
  <2>1. k \in 0..6 /\ k # 0
    OBVIOUS
  <2> QED BY <1>3, <2>1 DEF grow
<1>6. \A k \in 1..6 : Level[k] = Children(Level[k-1], k)
  BY <1>5
<1> QED BY <1>4, <1>6

(* A level below finitely many nodes has finitely many nodes.              *)
LEMMA ChildrenAreFinite ==
  ASSUME NEW L, IsFiniteSet(L), NEW k \in 1..6
  PROVE  IsFiniteSet(Children(L, k))
<1>1. Fanout[k] \in Nat
  <2>1. \A s \in Seq(Nat \ {0}) : \A i \in 1..Len(s) : s[i] \in Nat \ {0}
    OBVIOUS
  <2>2. Fanout \in Seq(Nat \ {0}) /\ k \in 1..Len(Fanout)
    BY LifecycleAssumption
  <2> QED BY <2>1, <2>2
<1> DEFINE D == L \X (1..Fanout[k])
           T == Children(L, k)
           f == [x \in D |-> Append(x[1], x[2])]
<1>2. IsFiniteSet(D)
  <2>1. IsFiniteSet(1..Fanout[k])
    BY <1>1, FS_Interval
  <2> QED BY <2>1, FS_Product
<1>3. f \in [D -> T]
  BY DEF Children
<1>4. ASSUME NEW t \in T PROVE \E x \in D : f[x] = t
  <2>1. PICK p \in L, i \in 1..Fanout[k] : t = Append(p, i)
    BY DEF Children
  <2>2. <<p, i>> \in D /\ f[<<p, i>>] = t
    BY <2>1
  <2> QED BY <2>2
<1> HIDE DEF D, T, f
<1>5. f \in Surjection(D, T)
  BY <1>3, <1>4 DEF Surjection
<1>6. IsFiniteSet(T)
  BY <1>2, <1>5, FS_Surjection
<1> QED BY <1>6 DEF T

(* The nodes and the arrays of finitely many nodes are finitely many.      *)
LEMMA BlocksOfNodesAreFinite ==
  ASSUME NEW L, IsFiniteSet(L)
  PROVE  IsFiniteSet({Node(p) : p \in L}) /\ IsFiniteSet({Array(p) : p \in L})
<1>1. [p \in L |-> Node(p)] \in Surjection(L, {Node(p) : p \in L})
  BY DEF Surjection
<1>2. [p \in L |-> Array(p)] \in Surjection(L, {Array(p) : p \in L})
  BY DEF Surjection
<1> QED BY <1>1, <1>2, FS_Surjection

(* Everything the module can ever allocate is finite.                      *)
LEMMA MemoryIsFinite == IsFiniteSet(Memory)
<1>1. \A k \in 0..6 : IsFiniteSet(Level[k])
  <2>1. IsFiniteSet(Level[0])
    <3>1. Level[0] = {<<>>}
      BY Levels
    <3> QED BY <3>1, FS_Singleton
  <2>2. ASSUME NEW k \in 1..6, IsFiniteSet(Level[k-1]) PROVE IsFiniteSet(Level[k])
    <3>1. IsFiniteSet(Children(Level[k-1], k))
      BY <2>2, ChildrenAreFinite
    <3> QED BY <3>1, Levels
  <2>3. IsFiniteSet(Level[1])
    BY <2>1, <2>2
  <2>4. IsFiniteSet(Level[2])
    BY <2>3, <2>2
  <2>5. IsFiniteSet(Level[3])
    BY <2>4, <2>2
  <2>6. IsFiniteSet(Level[4])
    BY <2>5, <2>2
  <2>7. IsFiniteSet(Level[5])
    BY <2>6, <2>2
  <2>8. IsFiniteSet(Level[6])
    BY <2>7, <2>2
  <2>9. \A k \in 0..6 : k \in {0, 1, 2, 3, 4, 5, 6}
    OBVIOUS
  <2> QED BY <2>1, <2>3, <2>4, <2>5, <2>6, <2>7, <2>8, <2>9
<1>2. IsFiniteSet(Nodes) /\ IsFiniteSet(Inner)
  <2>1. ASSUME NEW n \in 0..6 PROVE IsFiniteSet(UNION {Level[k] : k \in 0..n})
    <3>1. [k \in 0..n |-> Level[k]] \in Surjection(0..n, {Level[k] : k \in 0..n})
      BY DEF Surjection
    <3>2. IsFiniteSet({Level[k] : k \in 0..n})
      BY <3>1, FS_Surjection, FS_Interval
    <3>3. \A T \in {Level[k] : k \in 0..n} : IsFiniteSet(T)
      BY <1>1
    <3> QED BY <3>2, <3>3, FS_UNION
  <2> QED BY <2>1 DEF Nodes, Inner
<1>3. IsFiniteSet(Tree)
  BY <1>2, BlocksOfNodesAreFinite, FS_Union DEF Tree
<1>4. IsFiniteSet(Hardware)
  <2>1. [i \in 1..6 |-> HW(i)] \in Surjection(1..6, Hardware)
    BY DEF Surjection, Hardware
  <2>2. IsFiniteSet(1..6)
    <3>1. \A n \in Nat : IsFiniteSet(1..n)
      BY FS_Interval
    <3> QED BY <3>1
  <2> QED BY <2>1, <2>2, FS_Surjection
<1>5. ASSUME NEW p PROVE IsFiniteSet(PoolBlocks(p))
  <2>1. MaxObjects \in Int
    BY LifecycleAssumption
  <2>2. [i \in 1..MaxObjects |-> Object(p, i)]
          \in Surjection(1..MaxObjects, {Object(p, i) : i \in 1..MaxObjects})
    BY DEF Surjection
  <2>3. IsFiniteSet({Object(p, i) : i \in 1..MaxObjects})
    BY <2>1, <2>2, FS_Surjection, FS_Interval
  <2> QED BY <2>3, FS_Singleton, FS_Union DEF PoolBlocks
<1>6. IsFiniteSet(UNION {PoolBlocks(p) : p \in Pools})
  <2>1. UNION {PoolBlocks(p) : p \in Pools}
          = (PoolBlocks("request") \cup PoolBlocks("subrequest")) \cup PoolBlocks("command")
    BY DEF Pools
  <2> HIDE DEF PoolBlocks
  <2>2. /\ IsFiniteSet(PoolBlocks("request")) /\ IsFiniteSet(PoolBlocks("subrequest"))
        /\ IsFiniteSet(PoolBlocks("command"))
    BY <1>5
  <2>3. IsFiniteSet(PoolBlocks("request") \cup PoolBlocks("subrequest"))
    BY <2>2, FS_Union
  <2>4. IsFiniteSet((PoolBlocks("request") \cup PoolBlocks("subrequest"))
                      \cup PoolBlocks("command"))
    BY <2>2, <2>3, FS_Union
  <2> QED BY <2>1, <2>4
<1>7. IsFiniteSet({Map})
  BY FS_Singleton
<1>8. IsFiniteSet(Tree \cup {Map})
  BY <1>3, <1>7, FS_Union
<1>9. IsFiniteSet((Tree \cup {Map}) \cup Hardware)
  BY <1>4, <1>8, FS_Union
<1> QED BY <1>6, <1>9, FS_Union DEF Memory

(* The kinds of blocks are apart from each other, and each pool has its    *)
(* own.                                                                    *)
LEMMA KindsAreApart ==
  /\ \A p \in Pools : /\ Allocator(p) \notin Tree /\ Allocator(p) # Map
                      /\ Allocator(p) \notin Hardware
                      /\ Allocator(p) \in PoolBlocks(p)
  /\ Allocator("request") # Allocator("subrequest")
  /\ Allocator("request") # Allocator("command")
  /\ Allocator("subrequest") # Allocator("command")
  /\ Map \notin Tree /\ Map \notin Hardware /\ Tree \cap Hardware = {}
<1>1. \A b \in Tree : b[1] = "node" \/ b[1] = "array"
  BY DEF Tree, Node, Array
<1>2. \A b \in Hardware : b[1] = "hardware"
  BY DEF Hardware, HW
<1>3. Map[1] = "map"
  BY DEF Map
<1>4. \A p : Allocator(p)[1] = "allocator" /\ Allocator(p)[2] = p
  BY DEF Allocator
<1>5. \A p : Allocator(p) \in PoolBlocks(p)
  BY DEF PoolBlocks
<1> QED BY <1>1, <1>2, <1>3, <1>4, <1>5

(* What memory is made of.                                                 *)
LEMMA MemoryIs ==
  /\ Memory = Tree \cup {Map} \cup Hardware \cup PoolBlocks("request")
                \cup PoolBlocks("subrequest") \cup PoolBlocks("command")
  /\ "request" \in Pools /\ "subrequest" \in Pools /\ "command" \in Pools
  BY DEF Memory, Pools

-----------------------------------------------------------------------------
(* Allocating and freeing.                                                 *)

(* What kmalloc_wrap does to the counter: it never falls behind, and stays *)
(* exact while nothing fails and nothing is allocated twice.               *)
LEMMA KmallocCounts ==
  ASSUME LifeTypeOK, Counted, NEW tried \in SUBSET Memory, NEW failed \in SUBSET tried,
         failed = {} => tried \cap alive = {}, Kmalloc(tried, failed)
  PROVE  /\ alive' = alive \cup (tried \ failed) /\ alive' \subseteq Memory
         /\ v' \in Int /\ failures' \in Nat /\ Counted'
<1> DEFINE new == tried \ failed
<1>1. alive \in SUBSET Memory /\ new \in SUBSET Memory /\ failed \in SUBSET Memory
  BY DEF LifeTypeOK
<1>2. IsFiniteSet(alive) /\ IsFiniteSet(tried) /\ IsFiniteSet(failed) /\ IsFiniteSet(new)
  BY <1>1, MemoryIsFinite, FS_Subset
<1>3. Cardinality(new) <= Cardinality(tried)
  BY <1>2, FS_Subset
<1>4. /\ Cardinality(alive) \in Nat /\ Cardinality(tried) \in Nat /\ Cardinality(failed) \in Nat
      /\ Cardinality(new) \in Nat /\ Cardinality(alive \cap new) \in Nat
  <2>1. IsFiniteSet(alive \cap new)
    BY <1>2, FS_Intersection
  <2> QED BY <1>2, <2>1, FS_CardinalityType
<1>5. Cardinality(alive \cup new)
        = Cardinality(alive) + Cardinality(new) - Cardinality(alive \cap new)
  BY <1>2, FS_Union
<1>6. /\ alive' = alive \cup new /\ v' = v + Cardinality(tried)
      /\ failures' = failures + Cardinality(failed)
  BY DEF Kmalloc
<1>7. v \in Int /\ failures \in Nat /\ v >= Cardinality(alive)
      /\ (failures = 0 => v = Cardinality(alive))
  BY DEF LifeTypeOK, Counted
<1>8. failures' = 0 => v' = Cardinality(alive')
  <2> SUFFICES ASSUME failures' = 0 PROVE v' = Cardinality(alive')
    OBVIOUS
  <2>1. failures = 0 /\ Cardinality(failed) = 0
    BY <1>4, <1>6, <1>7
  <2>2. failed = {}
    BY <2>1, <1>2, FS_EmptySet
  <2>3. new = tried /\ alive \cap new = {}
    BY <2>2
  <2>4. Cardinality(alive \cap new) = 0
    BY <2>3, FS_EmptySet
  <2>5. Cardinality(new) = Cardinality(tried)
    BY <2>3
  <2> HIDE DEF new
  <2> QED BY <1>4, <1>5, <1>6, <1>7, <2>1, <2>4, <2>5
<1>9. v' >= Cardinality(alive')
  <2> HIDE DEF new
  <2> QED BY <1>3, <1>4, <1>5, <1>6, <1>7
<1>10. v' \in Int /\ failures' \in Nat
  BY <1>4, <1>6, <1>7
<1>11. alive' \subseteq Memory
  BY <1>1, <1>6
<1> QED BY <1>6, <1>8, <1>9, <1>10, <1>11 DEF Counted

(* What kfree_wrap does to the counter when everything it is given is      *)
(* there: it stays as far ahead as it was.                                 *)
LEMMA KfreeCounts ==
  ASSUME LifeTypeOK, Counted, NEW S, S \subseteq alive, Kfree(S, 0), UNCHANGED failures
  PROVE  /\ alive' = alive \ S /\ alive' \subseteq Memory
         /\ v' \in Int /\ failures' \in Nat /\ fault' = fault /\ Counted'
<1>1. alive' = alive \ S /\ v' = v - Cardinality(S) - 0 /\ fault' = fault
  BY DEF Kfree
<1>2. alive \in SUBSET Memory /\ v \in Int /\ failures \in Nat
  BY DEF LifeTypeOK
<1>3. IsFiniteSet(alive)
  BY <1>2, MemoryIsFinite, FS_Subset
<1>4. IsFiniteSet(S) /\ IsFiniteSet(alive \ S)
  BY <1>3, FS_Subset
<1>5. /\ Cardinality(alive) \in Nat /\ Cardinality(S) \in Nat /\ Cardinality(alive \ S) \in Nat
  BY <1>3, <1>4, FS_CardinalityType
<1>6. Cardinality(alive \ S) = Cardinality(alive) - Cardinality(S)
  <2>1. alive \cap S = S
    OBVIOUS
  <2> QED BY <2>1, <1>3, FS_Difference
<1>7. v' \in Int /\ v' >= Cardinality(alive') /\ (failures' = 0 => v' = Cardinality(alive'))
  BY <1>1, <1>2, <1>5, <1>6 DEF Counted
<1>8. alive' \subseteq Memory
  BY <1>1, <1>2
<1> QED BY <1>1, <1>2, <1>7, <1>8 DEF Counted

(* Something fails and memory stays as it is.                              *)
LEMMA NothingCounts ==
  ASSUME LifeTypeOK, Counted, UNCHANGED <<alive, v>>, failures' \in Nat, failures' >= failures
  PROVE  alive' \subseteq Memory /\ v' \in Int /\ Counted'
  BY DEF LifeTypeOK, Counted

(* What fails was tried.                                                   *)
LEMMA FailingIs ==
  ASSUME NEW S, NEW F \in Failing(S)
  PROVE  F \subseteq S
  BY DEF Failing, kSubset

-----------------------------------------------------------------------------
(* USBSSD_init.                                                            *)

(* init_Request_USBSSD and init_SubRequest_USBSSD.                         *)
LEMMA PoolsAreSetUp ==
  ASSUME LifeInv, fault = "none", InitRequest \/ InitSubRequest
  PROVE  LifeInv'
<1> USE DEF LifeInv
<1>1. CASE InitRequest
  <2>1. PICK F \in Failing({Allocator("request")}) :
          /\ Kmalloc({Allocator("request")}, F)
          /\ stage' = IF F = {} THEN "init_SubRequest" ELSE "err3"
    BY <1>1 DEF InitRequest, InitPool, Go
  <2>2. stage = "init_Request" /\ UNCHANGED <<fault, registered, pending, working>>
    BY <1>1 DEF InitRequest, InitPool, Outside
  <2>3. F \subseteq {Allocator("request")}
    BY FailingIs
  <2>4. alive = {}
    BY <2>2 DEF Gone
  <2>5. {Allocator("request")} \subseteq Memory
    BY KindsAreApart, MemoryIs
  <2>6. /\ alive' = alive \cup ({Allocator("request")} \ F) /\ alive' \subseteq Memory
        /\ v' \in Int /\ failures' \in Nat /\ Counted'
    BY <2>1, <2>3, <2>4, <2>5, KmallocCounts
  <2>7. stage' = "err3" \/ (stage' = "init_SubRequest" /\ alive' = {Allocator("request")})
    BY <2>1, <2>4, <2>6
  <2>8. LifeTypeOK'
    BY <2>2, <2>6, <2>7 DEF LifeTypeOK, Stages, HasRequest
  <2>9. Owned'
    BY <2>7 DEF Owned, HasRequest, HasSubRequest, HasCommand, HasHardware, Exits
  <2>10. Gone'
    BY <2>7 DEF Gone
  <2>11. Registered' /\ Busy'
    <3>1. ~ working
      BY <2>2 DEF Busy, AfterDisk
    <3> QED BY <2>2, <2>7, <3>1 DEF Registered, Busy, AfterDisk
  <2> QED BY <2>2, <2>6, <2>8, <2>9, <2>10, <2>11 DEF FreedOnce, SafeWhileDisk
<1>2. CASE InitSubRequest
  <2>1. PICK F \in Failing({Allocator("subrequest")}) :
          /\ Kmalloc({Allocator("subrequest")}, F)
          /\ stage' = IF F = {} THEN "init_Command" ELSE "err4"
    BY <1>2 DEF InitSubRequest, InitPool, Go
  <2>2. stage = "init_SubRequest" /\ UNCHANGED <<fault, registered, pending, working>>
    BY <1>2 DEF InitSubRequest, InitPool, Outside
  <2>3. F \subseteq {Allocator("subrequest")}
    BY FailingIs
  <2>4. alive = {Allocator("request")}
    BY <2>2 DEF Gone, Owned, HasRequest
  <2>5. /\ {Allocator("subrequest")} \subseteq Memory
        /\ {Allocator("subrequest")} \cap alive = {}
    BY <2>4, KindsAreApart, MemoryIs
  <2>6. /\ alive' = alive \cup ({Allocator("subrequest")} \ F) /\ alive' \subseteq Memory
        /\ v' \in Int /\ failures' \in Nat /\ Counted'
    BY <2>1, <2>3, <2>5, KmallocCounts
  <2>7. \/ stage' = "err4" /\ Allocator("request") \in alive'
        \/ /\ stage' = "init_Command"
           /\ alive' = {Allocator("request"), Allocator("subrequest")}
    BY <2>1, <2>4, <2>6
  <2>8. LifeTypeOK'
    BY <2>2, <2>6, <2>7 DEF LifeTypeOK, Stages, HasRequest, HasSubRequest
  <2>9. Owned'
    BY <2>7 DEF Owned, HasRequest, HasSubRequest, HasCommand, HasHardware, Exits
  <2>10. Gone'
    BY <2>7 DEF Gone
  <2>11. Registered' /\ Busy'
    <3>1. ~ working
      BY <2>2 DEF Busy, AfterDisk
    <3> QED BY <2>2, <2>7, <3>1 DEF Registered, Busy, AfterDisk
  <2> QED BY <2>2, <2>6, <2>8, <2>9, <2>10, <2>11 DEF FreedOnce, SafeWhileDisk
<1> QED BY <1>1, <1>2

(* What destory_USBSSD leaves behind when a set-up undoes itself: a node   *)
(* of which the array failed.  So for each of them an allocation failed.   *)
LEMMA OrphansFail ==
  ASSUME NEW F \in SUBSET (Tree \cup {Map})
  PROVE  /\ Orphans(Setup(F) \ F) \subseteq Setup(F) \ F
         /\ Cardinality(Orphans(Setup(F) \ F)) <= Cardinality(F)
<1> DEFINE got == Setup(F) \ F
           Q == {q \in UNION {Level[k] : k \in 2..5} : Node(q) \in got /\ Array(q) \notin got}
           O == Orphans(got)
           f == [b \in O |-> Array(b[2])]
<1>1. O = {Node(p) : p \in Q}
  BY DEF Orphans
<1>2. O \subseteq got
  BY <1>1
<1>3. ASSUME NEW q \in Q PROVE Array(q) \in F
  <2>1. Node(q) \in Setup(F) /\ Node(q) \notin F
    OBVIOUS
  <2>2. Node(q) # Map /\ Array(q) # Map
    BY DEF Node, Array, Map
  <2>3. Above(Node(q)) \cap F = {}
    BY <2>1, <2>2 DEF Setup
  <2>4. Above(Array(q)) = Above(Node(q)) \cup {Node(q)}
    BY DEF Above, Node, Array
  <2>5. Above(Array(q)) \cap F = {}
    BY <2>1, <2>3, <2>4
  <2>6. Array(q) \in Tree
    <3>1. q \in Inner
      BY DEF Inner
    <3> QED BY <3>1 DEF Tree
  <2>7. Array(q) \in Setup(F)
    BY <2>2, <2>5, <2>6 DEF Setup
  <2> QED BY <2>7
<1>4. ASSUME NEW b \in O PROVE b[2] \in Q /\ b = Node(b[2])
  <2> HIDE DEF Q, O
  <2>1. PICK p \in Q : b = Node(p)
    BY <1>1
  <2>2. b[2] = p
    BY <2>1 DEF Node
  <2> QED BY <2>1, <2>2
<1>5. f \in Injection(O, F)
  <2> HIDE DEF O, Q
  <2>1. \A b \in O : f[b] = Array(b[2]) /\ f[b] \in F
    BY <1>3, <1>4
  <2>2. f \in [O -> F]
    BY <2>1
  <2>3. ASSUME NEW a \in O, NEW b \in O, f[a] = f[b] PROVE a = b
    <3>1. Array(a[2]) = Array(b[2])
      BY <2>1, <2>3
    <3>2. a[2] = b[2]
      BY <3>1 DEF Array
    <3>3. a = Node(a[2]) /\ b = Node(b[2])
      BY <1>4
    <3> QED BY <3>2, <3>3
  <2> HIDE DEF f
  <2> QED BY <2>2, <2>3 DEF Injection, IsInjective
<1>6. IsFiniteSet(F)
  <2>1. F \in SUBSET Memory
    BY MemoryIs
  <2> QED BY <2>1, MemoryIsFinite, FS_Subset
<1>7. Cardinality(O) <= Cardinality(F)
  <2> HIDE DEF O, f
  <2> QED BY <1>5, <1>6, FS_Injection
<1> QED BY <1>2, <1>7

(* The counter after a set-up that undid itself: what it freed and left    *)
(* makes up for what it had, and what failed for what it left.             *)
LEMMA UndoCounts ==
  ASSUME LifeTypeOK, Counted, NEW tried \in SUBSET Memory, NEW F \in SUBSET tried,
         NEW left \in SUBSET (tried \ F), NEW pool \in Memory, pool \notin tried,
         F # {}, Cardinality(left) <= Cardinality(F),
         alive' = alive \cup left,
         v' = v + Cardinality(tried \cup {pool})
                - Cardinality(((tried \ F) \ left) \cup {pool}) - Cardinality(left),
         failures' = failures + Cardinality(F)
  PROVE  alive' \subseteq Memory /\ v' \in Int /\ failures' \in Nat /\ Counted'
<1> DEFINE got == tried \ F
           rest == got \ left
<1>1. /\ alive \in SUBSET Memory /\ F \in SUBSET Memory /\ left \in SUBSET Memory
      /\ got \in SUBSET Memory /\ rest \in SUBSET Memory /\ pool \notin rest
  BY DEF LifeTypeOK
<1>2. /\ IsFiniteSet(alive) /\ IsFiniteSet(F) /\ IsFiniteSet(left) /\ IsFiniteSet(tried)
      /\ IsFiniteSet(got) /\ IsFiniteSet(rest)
  BY <1>1, MemoryIsFinite, FS_Subset
<1>3. /\ Cardinality(alive) \in Nat /\ Cardinality(F) \in Nat /\ Cardinality(left) \in Nat
      /\ Cardinality(tried) \in Nat /\ Cardinality(got) \in Nat /\ Cardinality(rest) \in Nat
  BY <1>2, FS_CardinalityType
<1>4. Cardinality(got) = Cardinality(tried) - Cardinality(F)
  <2>1. tried \cap F = F
    OBVIOUS
  <2> QED BY <2>1, <1>2, FS_Difference
<1>5. Cardinality(rest) = Cardinality(got) - Cardinality(left)
  <2>1. got \cap left = left
    OBVIOUS
  <2> QED BY <2>1, <1>2, FS_Difference
<1>6. /\ Cardinality(tried \cup {pool}) = Cardinality(tried) + 1
      /\ Cardinality(rest \cup {pool}) = Cardinality(rest) + 1
  BY <1>1, <1>2, FS_AddElement
<1>7. /\ Cardinality(alive \cup left) <= Cardinality(alive) + Cardinality(left)
      /\ Cardinality(alive \cup left) \in Nat
  <2>1. IsFiniteSet(alive \cup left) /\ IsFiniteSet(alive \cap left)
    BY <1>2, FS_Union, FS_Intersection
  <2>2. Cardinality(alive \cup left) \in Nat /\ Cardinality(alive \cap left) \in Nat
    BY <2>1, FS_CardinalityType
  <2>3. Cardinality(alive \cup left)
          = Cardinality(alive) + Cardinality(left) - Cardinality(alive \cap left)
    BY <1>2, FS_Union
  <2> QED BY <2>2, <2>3, <1>3
<1>8. Cardinality(F) # 0
  BY <1>2, FS_EmptySet
<1>9. v \in Int /\ failures \in Nat /\ v >= Cardinality(alive)
  BY DEF LifeTypeOK, Counted
<1> HIDE DEF rest, got
<1>10. v' = v + Cardinality(tried \cup {pool}) - Cardinality(rest \cup {pool}) - Cardinality(left)
  BY DEF rest, got
<1>11. v' = v + Cardinality(F)
  BY <1>3, <1>4, <1>5, <1>6, <1>9, <1>10
<1>12. /\ v' \in Int /\ failures' \in Nat /\ failures' # 0
       /\ v' >= Cardinality(alive \cup left)
  BY <1>3, <1>7, <1>8, <1>9, <1>11
<1>13. alive' \subseteq Memory
  BY <1>1
<1> QED BY <1>12, <1>13 DEF Counted

(* init_Command_USBSSD: all of the tree, or nothing but orphans.           *)
LEMMA CommandIsSetUp ==
  ASSUME LifeInv, fault = "none", InitCommand
  PROVE  LifeInv'
<1> USE DEF LifeInv
<1> DEFINE pool == Allocator("command")
           tried(F) == IF pool \in F THEN {} ELSE Setup(F)
           got(F) == tried(F) \ F
           left(F) == IF Node(<<>>) \in F THEN {} ELSE Orphans(got(F))
           freed(F) == (got(F) \ left(F)) \cup {pool}
<1>1. PICK F \in Failing(Tree \cup {Map, pool}) :
        /\ F \subseteq tried(F) \cup {pool}
        /\ \/ /\ F = {} \/ pool \in F
              /\ Kmalloc(tried(F) \cup {pool}, F)
              /\ stage' = IF F = {} THEN "init_Simulate" ELSE "err5"
              /\ UNCHANGED fault
           \/ /\ F # {} /\ pool \notin F
              /\ alive' = alive \cup left(F)
              /\ v' = v + Cardinality(tried(F) \cup {pool}) - Cardinality(freed(F))
                        - Cardinality(left(F))
              /\ failures' = failures + Cardinality(F)
              /\ stage' = "err5" /\ UNCHANGED fault
           \/ /\ failures' = failures + Cardinality(F)
              /\ fault' = "destory_USBSSD" /\ UNCHANGED <<stage, alive, v>>
  BY DEF InitCommand, Go, Fails, Fault
<1>2. stage = "init_Command" /\ UNCHANGED <<registered, pending, working>>
  BY DEF InitCommand, Outside
<1>3. F \subseteq Tree \cup {Map, pool}
  BY FailingIs
<1>4. pool \in Memory /\ Tree \cup {Map} \subseteq Memory
  BY KindsAreApart, MemoryIs
<1>5. alive = {Allocator("request"), Allocator("subrequest")}
  BY <1>2 DEF Gone, Owned, HasRequest, HasSubRequest
<1>6. Setup(F) \subseteq Tree \cup {Map} /\ (F = {} => Setup(F) = Tree \cup {Map})
  BY DEF Setup
<1>7. pool \notin Tree \cup {Map} /\ alive \cap (Tree \cup {Map, pool}) = {}
  BY <1>5, KindsAreApart, MemoryIs
<1>8. ~ working
  BY <1>2 DEF Busy, AfterDisk
<1>9. CASE /\ F = {} \/ pool \in F
           /\ Kmalloc(tried(F) \cup {pool}, F)
           /\ stage' = IF F = {} THEN "init_Simulate" ELSE "err5"
           /\ UNCHANGED fault
  <2>1. /\ tried(F) \cup {pool} \in SUBSET Memory
        /\ F \in SUBSET (tried(F) \cup {pool})
        /\ F = {} => (tried(F) \cup {pool}) \cap alive = {}
    BY <1>1, <1>4, <1>6, <1>7
  <2>2. /\ alive' = alive \cup ((tried(F) \cup {pool}) \ F) /\ alive' \subseteq Memory
        /\ v' \in Int /\ failures' \in Nat /\ Counted'
    <3> HIDE DEF tried
    <3> QED BY <1>9, <2>1, KmallocCounts
  <2>3. \/ stage' = "err5" /\ alive' = alive
        \/ stage' = "init_Simulate" /\ alive' = alive \cup Tree \cup {Map, pool}
    BY <1>1, <1>6, <1>9, <2>2
  <2>4. LifeTypeOK'
    BY <1>2, <1>9, <2>2, <2>3
    DEF LifeTypeOK, Stages, HasRequest, HasSubRequest, HasCommand
  <2>5. Owned'
    BY <1>5, <2>3 DEF Owned, HasRequest, HasSubRequest, HasCommand, HasHardware, Exits
  <2>6. Gone'
    <3>1. alive \cap Hardware = {} /\ (alive \cup Tree \cup {Map, pool}) \cap Hardware = {}
      BY <1>5, KindsAreApart, MemoryIs
    <3> QED BY <2>3, <3>1 DEF Gone
  <2>7. Registered' /\ Busy'
    BY <1>2, <1>8, <1>9, <2>3 DEF Registered, Busy, AfterDisk
  <2> QED BY <1>9, <2>2, <2>4, <2>5, <2>6, <2>7 DEF FreedOnce, SafeWhileDisk
<1>10. CASE /\ F # {} /\ pool \notin F
            /\ alive' = alive \cup left(F)
            /\ v' = v + Cardinality(tried(F) \cup {pool}) - Cardinality(freed(F))
                      - Cardinality(left(F))
            /\ failures' = failures + Cardinality(F)
            /\ stage' = "err5" /\ UNCHANGED fault
  <2>1. tried(F) = Setup(F) /\ F \in SUBSET (Tree \cup {Map}) /\ F \subseteq Setup(F)
    BY <1>1, <1>3, <1>10
  <2>2. /\ left(F) \subseteq tried(F) \ F
        /\ Cardinality(left(F)) <= Cardinality(F)
    <3>1. /\ Orphans(Setup(F) \ F) \subseteq Setup(F) \ F
          /\ Cardinality(Orphans(Setup(F) \ F)) <= Cardinality(F)
      BY <2>1, OrphansFail
    <3>2. 0 <= Cardinality(F) /\ Cardinality({}) = 0
      <4>1. F \in SUBSET Memory
        BY <1>4, <2>1
      <4>2. Cardinality(F) \in Nat
        BY <4>1, MemoryIsFinite, FS_Subset, FS_CardinalityType
      <4> QED BY <4>2, FS_EmptySet
    <3> QED BY <2>1, <3>1, <3>2
  <2>3. tried(F) \in SUBSET Memory /\ pool \notin tried(F)
    BY <1>4, <1>6, <1>7, <2>1
  <2>4. alive' \subseteq Memory /\ v' \in Int /\ failures' \in Nat /\ Counted'
    <3>1. v' = v + Cardinality(tried(F) \cup {pool})
                 - Cardinality(((tried(F) \ F) \ left(F)) \cup {pool}) - Cardinality(left(F))
      BY <1>10
    <3>2. F \in SUBSET tried(F) /\ left(F) \in SUBSET (tried(F) \ F)
      BY <2>1, <2>2
    <3> HIDE DEF tried, left, pool, freed
    <3> QED BY <1>4, <1>10, <2>2, <2>3, <3>1, <3>2, UndoCounts
  <2> HIDE DEF left, freed, tried
  <2>5. alive \subseteq alive'
    BY <1>10
  <2>6. LifeTypeOK'
    BY <1>2, <1>10, <2>4 DEF LifeTypeOK, Stages, HasRequest, HasSubRequest, HasCommand
  <2>7. Owned'
    BY <1>5, <1>10, <2>5 DEF Owned, HasRequest, HasSubRequest, HasCommand, HasHardware, Exits
  <2>8. Gone' /\ Registered' /\ Busy'
    BY <1>2, <1>8, <1>10 DEF Gone, Registered, Busy, AfterDisk
  <2> QED BY <1>10, <2>4, <2>6, <2>7, <2>8 DEF FreedOnce, SafeWhileDisk
<1>11. CASE /\ failures' = failures + Cardinality(F)
            /\ fault' = "destory_USBSSD" /\ UNCHANGED <<stage, alive, v>>
  <2>1. failures' \in Nat /\ failures' >= failures
    <3>1. F \in SUBSET Memory
      BY <1>3, <1>4
    <3>2. Cardinality(F) \in Nat
      BY <3>1, MemoryIsFinite, FS_Subset, FS_CardinalityType
    <3> QED BY <1>11, <3>2 DEF LifeTypeOK
  <2>2. alive' \subseteq Memory /\ v' \in Int /\ Counted'
    BY <1>11, <2>1, NothingCounts
  <2>3. LifeTypeOK'
    BY <1>2, <1>11, <2>1, <2>2 DEF LifeTypeOK, Faults
  <2>4. Owned' /\ Gone' /\ Registered' /\ Busy'
    BY <1>2, <1>11 DEF Owned, Gone, Registered, Busy, AfterDisk
  <2> QED BY <1>11, <2>2, <2>3, <2>4 DEF FreedOnce, SafeWhileDisk
<1> QED BY <1>1, <1>9, <1>10, <1>11

(* init_Simulate_USBSSD: the first part of the hardware at least, or the   *)
(* label that undoes the command.                                          *)
LEMMA HardwareIsSetUp ==
  ASSUME LifeInv, fault = "none", InitSimulate
  PROVE  LifeInv'
<1> USE DEF LifeInv
<1> DEFINE tried(f) == {HW(i) : i \in 1..Min({f, 6})}
           failed(f) == IF f = 7 THEN {} ELSE {HW(f)}
<1>1. PICK f \in 1..7 :
        \/ /\ f \in {1, 2, 7} /\ Kmalloc(tried(f), failed(f))
           /\ stage' = IF f = 1 THEN "err6" ELSE "register_blkdev"
           /\ UNCHANGED fault
        \/ /\ v' = v + 1 /\ failures' = failures + 1 /\ stage' = "err6"
           /\ UNCHANGED <<alive, fault>>
        \/ /\ failures' = failures + 1 /\ fault' = "init_Simulate"
           /\ UNCHANGED <<stage, alive, v>>
  BY DEF InitSimulate, Go, Fault
<1>2. stage = "init_Simulate" /\ UNCHANGED <<registered, pending, working>>
  BY DEF InitSimulate, Outside
<1>3. stage \in HasCommand /\ stage \in HasSubRequest /\ stage \in HasRequest
  BY <1>2 DEF HasCommand, HasSubRequest, HasRequest
<1>4. ~ working
  BY <1>2 DEF Busy, AfterDisk
<1>5. v \in Int /\ failures \in Nat
  BY DEF LifeTypeOK
<1>6. CASE /\ f \in {1, 2, 7} /\ Kmalloc(tried(f), failed(f))
           /\ stage' = IF f = 1 THEN "err6" ELSE "register_blkdev"
           /\ UNCHANGED fault
  <2>1. Min({f, 6}) = IF f = 7 THEN 6 ELSE f
    <3>1. PICK m \in {f, 6} : m = Min({f, 6}) /\ \A y \in {f, 6} : m <= y
      <4>1. \E x \in {f, 6} : \A y \in {f, 6} : x <= y
        OBVIOUS
      <4> QED BY <4>1 DEF Min
    <3> QED BY <3>1, <1>6
  <2>2. /\ f = 1 => tried(f) = {HW(1)}
        /\ f = 2 => tried(f) = {HW(1), HW(2)}
        /\ f = 7 => tried(f) = Hardware
    <3>1. 1..1 = {1} /\ 1..2 = {1, 2}
      OBVIOUS
    <3> QED BY <2>1, <3>1 DEF Hardware
  <2>3. HW(1) # HW(2) /\ HW(1) \in Hardware /\ HW(2) \in Hardware
    BY DEF HW, HWPart, Hardware
  <2>4. tried(f) \subseteq Hardware /\ failed(f) \subseteq tried(f)
    BY <1>6, <2>2, <2>3
  <2>5. /\ tried(f) \in SUBSET Memory /\ failed(f) \in SUBSET tried(f)
        /\ failed(f) = {} => tried(f) \cap alive = {}
    BY <1>2, <2>4, MemoryIs DEF Gone
  <2>6. f # 1 => HW(1) \in tried(f) \ failed(f)
    BY <1>6, <2>2, <2>3
  <2> HIDE DEF tried, failed
  <2>7. /\ alive' = alive \cup (tried(f) \ failed(f)) /\ alive' \subseteq Memory
        /\ v' \in Int /\ failures' \in Nat /\ Counted'
    BY <1>6, <2>5, KmallocCounts
  <2>8. \/ stage' = "err6"
        \/ stage' = "register_blkdev" /\ HW(1) \in alive'
    BY <1>6, <2>6, <2>7
  <2>9. LifeTypeOK'
    BY <1>2, <1>6, <2>7, <2>8
    DEF LifeTypeOK, Stages, HasRequest, HasSubRequest, HasCommand, HasHardware
  <2>10. Owned'
    <3>1. alive \subseteq alive'
      BY <2>7
    <3> QED BY <1>3, <2>8, <3>1
        DEF Owned, HasRequest, HasSubRequest, HasCommand, HasHardware, Exits
  <2>11. Gone' /\ Registered' /\ Busy'
    BY <1>2, <1>4, <1>6, <2>8 DEF Gone, Registered, Busy, AfterDisk
  <2> QED BY <1>6, <2>7, <2>9, <2>10, <2>11 DEF FreedOnce, SafeWhileDisk
<1>7. CASE /\ v' = v + 1 /\ failures' = failures + 1 /\ stage' = "err6"
           /\ UNCHANGED <<alive, fault>>
  <2>1. LifeTypeOK'
    BY <1>2, <1>5, <1>7 DEF LifeTypeOK, Stages, HasRequest, HasSubRequest, HasCommand
  <2>2. Counted'
    <3>1. IsFiniteSet(alive)
      BY MemoryIsFinite, FS_Subset DEF LifeTypeOK
    <3>2. Cardinality(alive) \in Nat
      BY <3>1, FS_CardinalityType
    <3> QED BY <1>5, <1>7, <3>2 DEF Counted
  <2>3. Owned'
    BY <1>3, <1>7 DEF Owned, HasRequest, HasSubRequest, HasCommand, HasHardware, Exits
  <2>4. Gone' /\ Registered' /\ Busy'
    BY <1>2, <1>4, <1>7 DEF Gone, Registered, Busy, AfterDisk
  <2> QED BY <1>7, <2>1, <2>2, <2>3, <2>4 DEF FreedOnce, SafeWhileDisk
<1>8. CASE /\ failures' = failures + 1 /\ fault' = "init_Simulate"
           /\ UNCHANGED <<stage, alive, v>>
  <2>1. failures' \in Nat /\ failures' >= failures
    BY <1>5, <1>8
  <2>2. alive' \subseteq Memory /\ v' \in Int /\ Counted'
    BY <1>8, <2>1, NothingCounts
  <2>3. LifeTypeOK'
    BY <1>2, <1>8, <2>1, <2>2 DEF LifeTypeOK, Faults
  <2>4. Owned' /\ Gone' /\ Registered' /\ Busy'
    BY <1>2, <1>8 DEF Owned, Gone, Registered, Busy, AfterDisk
  <2> QED BY <1>8, <2>2, <2>3, <2>4 DEF FreedOnce, SafeWhileDisk
<1> QED BY <1>1, <1>6, <1>7, <1>8

(* register_blkdev, blk_mq_alloc_tag_set, USBSSD_register_disk, and the    *)
(* labels and steps of the exit that undo them, leave memory alone.        *)
LEMMA RegistrationsKeep ==
  ASSUME LifeInv, fault = "none",
         RegisterBlkdev \/ AllocTagSet \/ RegisterDisk \/ Err2 \/ Err1
           \/ Unload \/ DelGendisk \/ FreeTagSet
  PROVE  LifeInv'
<1> USE DEF LifeInv
<1>1. UNCHANGED <<alive, v, pending, working, fault>>
  BY DEF RegisterBlkdev, AllocTagSet, RegisterDisk, Register, Err2, Err1, Unload, DelGendisk,
         FreeTagSet, Unregister
<1>2. failures \in Nat /\ registered \subseteq Registrations
  BY DEF LifeTypeOK
<1>3. /\ failures' \in Nat /\ failures' >= failures /\ registered' \subseteq Registrations
      /\ \/ /\ stage \in {"register_blkdev", "alloc_tag_set", "register_disk"}
            /\ stage' \in {"alloc_tag_set", "register_disk", "running", "failed", "err1", "err2"}
         \/ stage \in {"err1", "err2"} /\ stage' \in {"err1", "err6"}
         \/ /\ stage = "running" /\ stage' = "del_gendisk"
            /\ registered' = registered \ {"blkdev"}
         \/ /\ stage = "del_gendisk" /\ stage' = "free_tag_set"
            /\ registered' = registered \ {"disk"}
         \/ /\ stage = "free_tag_set" /\ stage' = "destory_Simulate"
            /\ registered' = registered \ {"tag_set"}
  <2>1. CASE RegisterBlkdev
    <3>1. \/ registered' = registered \cup {"blkdev"} /\ failures' = failures
          \/ registered' = registered /\ failures' = failures + 1
      BY <2>1 DEF RegisterBlkdev, Register
    <3>2. /\ stage \in {"register_blkdev", "alloc_tag_set", "register_disk"}
          /\ stage' \in {"alloc_tag_set", "register_disk", "running", "failed", "err1", "err2"}
      BY <2>1 DEF RegisterBlkdev, Register, Go
    <3>3. failures' \in Nat /\ failures' >= failures
      BY <1>2, <3>1
    <3>4. registered' \subseteq Registrations
      BY <1>2, <3>1 DEF Registrations
    <3> QED BY <3>2, <3>3, <3>4
  <2>2. CASE AllocTagSet
    <3>1. \/ registered' = registered \cup {"tag_set"} /\ failures' = failures
          \/ registered' = registered /\ failures' = failures + 1
      BY <2>2 DEF AllocTagSet, Register
    <3>2. /\ stage \in {"register_blkdev", "alloc_tag_set", "register_disk"}
          /\ stage' \in {"alloc_tag_set", "register_disk", "running", "failed", "err1", "err2"}
      BY <2>2 DEF AllocTagSet, Register, Go
    <3>3. failures' \in Nat /\ failures' >= failures
      BY <1>2, <3>1
    <3>4. registered' \subseteq Registrations
      BY <1>2, <3>1 DEF Registrations
    <3> QED BY <3>2, <3>3, <3>4
  <2>3. CASE RegisterDisk
    <3>1. \/ registered' = registered \cup {"disk"} /\ failures' = failures
          \/ registered' = registered /\ failures' = failures + 1
      BY <2>3 DEF RegisterDisk, Register
    <3>2. /\ stage \in {"register_blkdev", "alloc_tag_set", "register_disk"}
          /\ stage' \in {"alloc_tag_set", "register_disk", "running", "failed", "err1", "err2"}
      BY <2>3 DEF RegisterDisk, Register, Go
    <3>3. failures' \in Nat /\ failures' >= failures
      BY <1>2, <3>1
    <3>4. registered' \subseteq Registrations
      BY <1>2, <3>1 DEF Registrations
    <3> QED BY <3>2, <3>3, <3>4
  <2>4. CASE Err2
    BY <1>2, <2>4 DEF Err2, Unregister, Go
  <2>5. CASE Err1
    BY <1>2, <2>5 DEF Err1, Unregister, Go
  <2>6. CASE Unload
    BY <1>2, <2>6 DEF Unload, Unregister, Go
  <2>7. CASE DelGendisk
    BY <1>2, <2>7 DEF DelGendisk, Unregister, Go
  <2>8. CASE FreeTagSet
    BY <1>2, <2>8 DEF FreeTagSet, Unregister, Go
  <2> QED BY <2>1, <2>2, <2>3, <2>4, <2>5, <2>6, <2>7, <2>8
<1>4. Counted' /\ alive' \subseteq Memory /\ v' \in Int
  BY <1>1, <1>3, NothingCounts
<1>5. LifeTypeOK'
  BY <1>1, <1>3, <1>4
  DEF LifeTypeOK, Stages, HasRequest, HasSubRequest, HasCommand, HasHardware, Exits
<1>6. Owned'
  <2>1. stage \in HasRequest /\ stage \in HasSubRequest /\ stage \in HasCommand
    BY <1>3 DEF HasRequest, HasSubRequest, HasCommand, HasHardware, Exits
  <2>2. stage' \in HasHardware => stage \in HasHardware
    BY <1>3 DEF HasHardware, Exits
  <2> QED BY <1>1, <2>1, <2>2 DEF Owned
<1>7. Gone'
  BY <1>3 DEF Gone
<1>8. Registered'
  BY <1>3 DEF Registered, Registrations, AfterDisk
<1>9. Busy'
  <2>1. working => stage \in {"running", "del_gendisk"} \cup AfterDisk
    BY DEF Busy
  <2> QED BY <1>1, <1>3, <2>1 DEF Busy, AfterDisk
<1> QED BY <1>1, <1>4, <1>5, <1>6, <1>7, <1>8, <1>9 DEF FreedOnce, SafeWhileDisk

-----------------------------------------------------------------------------
(* The destory functions.                                                  *)

(* A destory function that is given only what is there.                    *)
LEMMA DestroyFrees ==
  ASSUME LifeTypeOK, Counted, NEW at, NEW S, NEW next \in Stages, S \subseteq alive,
         Destroy(at, S, next)
  PROVE  /\ stage = at /\ stage' = next /\ alive' = alive \ S
         /\ UNCHANGED <<registered, pending, working, fault>>
         /\ LifeTypeOK' /\ Counted'
<1>1. /\ stage = at /\ stage' = next /\ Kfree(S, 0) /\ UNCHANGED failures
      /\ UNCHANGED <<registered, pending, working>>
  BY DEF Destroy, Go, Outside
<1>2. /\ alive' = alive \ S /\ alive' \subseteq Memory
      /\ v' \in Int /\ failures' \in Nat /\ fault' = fault /\ Counted'
  BY <1>1, KfreeCounts
<1>3. LifeTypeOK'
  BY <1>1, <1>2 DEF LifeTypeOK
<1> QED BY <1>1, <1>2, <1>3

(* Every stage that frees comes when what it frees is there, and leaves    *)
(* what the ones after it free.                                            *)
LEMMA DestroysKeep ==
  ASSUME LifeInv, fault = "none",
         Err6 \/ Err5 \/ Err4 \/ DestorySimulate \/ DestoryCommand \/ DestorySubRequest
           \/ DestoryRequest
  PROVE  LifeInv'
<1> USE DEF LifeInv
<1>1. /\ PoolOf("request") = {Allocator("request")} \cup (PoolBlocks("request") \cap alive)
      /\ PoolOf("subrequest")
           = {Allocator("subrequest")} \cup (PoolBlocks("subrequest") \cap alive)
      /\ PoolOf("command") = {Allocator("command")} \cup (PoolBlocks("command") \cap alive)
  BY DEF PoolOf
<1>2. alive \subseteq Tree \cup {Map} \cup Hardware \cup PoolBlocks("request")
                        \cup PoolBlocks("subrequest") \cup PoolBlocks("command")
  BY MemoryIs DEF LifeTypeOK
\* The pools are apart.
<1>3. /\ Allocator("request") \notin Tree \cup {Map} \cup Hardware \cup PoolOf("subrequest")
                                       \cup PoolOf("command")
      /\ Allocator("subrequest") \notin Tree \cup {Map} \cup Hardware \cup PoolOf("command")
  <2>1. /\ Allocator("request") \notin PoolBlocks("subrequest") \cup PoolBlocks("command")
        /\ Allocator("subrequest") \notin PoolBlocks("command")
    BY DEF PoolBlocks, Allocator, Object
  <2> QED BY <1>1, <2>1, KindsAreApart, MemoryIs
<1>4. (Tree \cup {Map, Allocator("command")}) \cap Hardware = {}
  BY KindsAreApart, MemoryIs
<1> USE DEF Exits
<1>5. CASE Err6
  <2>1. stage = "err6"
    BY <1>5 DEF Err6, Destroy
  <2>2. DestroyCommand \subseteq alive /\ ~ working
    BY <1>1, <2>1 DEF Owned, HasCommand, DestroyCommand, Busy, AfterDisk
  <2>3. "err5" \in Stages
    BY DEF Stages, HasRequest, HasSubRequest
  <2>4. /\ stage' = "err5" /\ alive' = alive \ DestroyCommand /\ LifeTypeOK' /\ Counted'
        /\ UNCHANGED <<registered, pending, working, fault>>
    BY <1>5, <2>2, <2>3, DestroyFrees DEF Err6
  <2>5. Owned'
    <3>1. Allocator("request") \in alive' /\ Allocator("subrequest") \in alive'
      BY <1>3, <2>1, <2>4 DEF Owned, HasRequest, HasSubRequest, HasCommand, DestroyCommand
    <3> QED BY <2>4, <3>1 DEF Owned, HasCommand, HasHardware
  <2>6. Gone' /\ Registered' /\ Busy'
    BY <2>2, <2>4 DEF Gone, Registered, Busy, AfterDisk
  <2> QED BY <2>4, <2>5, <2>6 DEF FreedOnce, SafeWhileDisk
<1>6. CASE Err5
  <2>1. stage = "err5"
    BY <1>6 DEF Err5, Destroy
  <2>2. PoolOf("subrequest") \subseteq alive /\ ~ working
    BY <1>1, <2>1 DEF Owned, HasSubRequest, Busy, AfterDisk
  <2>3. "err4" \in Stages
    BY DEF Stages, HasRequest
  <2>4. /\ stage' = "err4" /\ alive' = alive \ PoolOf("subrequest") /\ LifeTypeOK' /\ Counted'
        /\ UNCHANGED <<registered, pending, working, fault>>
    BY <1>6, <2>2, <2>3, DestroyFrees DEF Err5
  <2>5. Owned'
    <3>1. Allocator("request") \in alive'
      BY <1>3, <2>1, <2>4 DEF Owned, HasRequest, HasSubRequest
    <3> QED BY <2>4, <3>1 DEF Owned, HasSubRequest, HasCommand, HasHardware
  <2>6. Gone' /\ Registered' /\ Busy'
    BY <2>2, <2>4 DEF Gone, Registered, Busy, AfterDisk
  <2> QED BY <2>4, <2>5, <2>6 DEF FreedOnce, SafeWhileDisk
<1>7. CASE Err4
  <2>1. stage = "err4"
    BY <1>7 DEF Err4, Destroy
  <2>2. PoolOf("request") \subseteq alive /\ ~ working
    BY <1>1, <2>1 DEF Owned, HasRequest, Busy, AfterDisk
  <2>3. "err3" \in Stages
    BY DEF Stages
  <2>4. /\ stage' = "err3" /\ alive' = alive \ PoolOf("request") /\ LifeTypeOK' /\ Counted'
        /\ UNCHANGED <<registered, pending, working, fault>>
    BY <1>7, <2>2, <2>3, DestroyFrees DEF Err4
  <2>5. Owned'
    BY <2>4 DEF Owned, HasRequest, HasSubRequest, HasCommand, HasHardware
  <2>6. Gone' /\ Registered' /\ Busy'
    BY <2>2, <2>4 DEF Gone, Registered, Busy, AfterDisk
  <2> QED BY <2>4, <2>5, <2>6 DEF FreedOnce, SafeWhileDisk
<1>8. CASE DestorySimulate
  <2>1. stage = "destory_Simulate"
    BY <1>8 DEF DestorySimulate, Destroy
  <2>2. DestroySimulate \subseteq alive
    BY <2>1 DEF Owned, HasHardware, DestroySimulate
  <2>3. "destory_Command" \in Stages
    BY DEF Stages, HasRequest, HasSubRequest, HasCommand
  <2>4. /\ stage' = "destory_Command" /\ alive' = alive \ DestroySimulate
        /\ LifeTypeOK' /\ Counted' /\ UNCHANGED <<registered, pending, working, fault>>
    BY <1>8, <2>2, <2>3, DestroyFrees DEF DestorySimulate
  <2>5. DestroySimulate \subseteq Hardware
    BY DEF DestroySimulate, Hardware
  <2>6. /\ Allocator("request") \in alive /\ Allocator("subrequest") \in alive
        /\ Tree \cup {Map, Allocator("command")} \subseteq alive
    BY <2>1 DEF Owned, HasRequest, HasSubRequest, HasCommand, HasHardware
  <2>7. Owned'
    <3>1. /\ Allocator("request") \in alive' /\ Allocator("subrequest") \in alive'
          /\ Tree \cup {Map, Allocator("command")} \subseteq alive'
      BY <1>3, <1>4, <2>4, <2>5, <2>6
    <3> QED BY <2>4, <3>1 DEF Owned, HasHardware
  <2>8. Gone'
    <3>1. alive' \cap Hardware = {}
      BY <2>4 DEF DestroySimulate
    <3> QED BY <2>4, <3>1 DEF Gone
  <2>9. Registered' /\ Busy'
    BY <2>1, <2>4 DEF Registered, Busy, AfterDisk
  <2> QED BY <2>4, <2>7, <2>8, <2>9 DEF FreedOnce, SafeWhileDisk
<1>9. CASE DestoryCommand
  <2>1. stage = "destory_Command"
    BY <1>9 DEF DestoryCommand, Destroy
  <2>2. DestroyCommand \subseteq alive
    BY <1>1, <2>1 DEF Owned, HasCommand, DestroyCommand
  <2>3. "destory_SubRequest" \in Stages
    BY DEF Stages, HasRequest, HasSubRequest
  <2>4. /\ stage' = "destory_SubRequest" /\ alive' = alive \ DestroyCommand
        /\ LifeTypeOK' /\ Counted' /\ UNCHANGED <<registered, pending, working, fault>>
    BY <1>9, <2>2, <2>3, DestroyFrees DEF DestoryCommand
  <2>5. Owned'
    <3>1. Allocator("request") \in alive' /\ Allocator("subrequest") \in alive'
      BY <1>3, <2>1, <2>4 DEF Owned, HasRequest, HasSubRequest, HasCommand, DestroyCommand
    <3> QED BY <2>4, <3>1 DEF Owned, HasCommand, HasHardware
  <2>6. Gone'
    <3>1. alive \cap Hardware = {}
      BY <2>1 DEF Gone
    <3>2. alive' \subseteq PoolBlocks("request") \cup PoolBlocks("subrequest")
      BY <1>1, <1>2, <2>4, <3>1 DEF DestroyCommand
    <3> QED BY <2>4, <3>2 DEF Gone
  <2>7. Registered' /\ Busy'
    BY <2>1, <2>4 DEF Registered, Busy, AfterDisk
  <2> QED BY <2>4, <2>5, <2>6, <2>7 DEF FreedOnce, SafeWhileDisk
<1>10. CASE DestorySubRequest
  <2>1. stage = "destory_SubRequest"
    BY <1>10 DEF DestorySubRequest, Destroy
  <2>2. PoolOf("subrequest") \subseteq alive
    BY <1>1, <2>1 DEF Owned, HasSubRequest
  <2>3. "destory_Request" \in Stages
    BY DEF Stages, HasRequest
  <2>4. /\ stage' = "destory_Request" /\ alive' = alive \ PoolOf("subrequest")
        /\ LifeTypeOK' /\ Counted' /\ UNCHANGED <<registered, pending, working, fault>>
    BY <1>10, <2>2, <2>3, DestroyFrees DEF DestorySubRequest
  <2>5. Owned'
    <3>1. Allocator("request") \in alive'
      BY <1>3, <2>1, <2>4 DEF Owned, HasRequest, HasSubRequest
    <3> QED BY <2>4, <3>1 DEF Owned, HasSubRequest, HasCommand, HasHardware
  <2>6. Gone'
    <3>1. alive \subseteq PoolBlocks("request") \cup PoolBlocks("subrequest")
      BY <2>1 DEF Gone
    <3>2. alive' \subseteq PoolBlocks("request")
      BY <1>1, <2>4, <3>1
    <3> QED BY <2>4, <3>2 DEF Gone
  <2>7. Registered' /\ Busy'
    BY <2>1, <2>4 DEF Registered, Busy, AfterDisk
  <2> QED BY <2>4, <2>5, <2>6, <2>7 DEF FreedOnce, SafeWhileDisk
<1>11. CASE DestoryRequest
  <2>1. stage = "destory_Request"
    BY <1>11 DEF DestoryRequest, Destroy
  <2>2. PoolOf("request") \subseteq alive
    BY <1>1, <2>1 DEF Owned, HasRequest
  <2>3. "out" \in Stages
    BY DEF Stages
  <2>4. /\ stage' = "out" /\ alive' = alive \ PoolOf("request")
        /\ LifeTypeOK' /\ Counted' /\ UNCHANGED <<registered, pending, working, fault>>
    BY <1>11, <2>2, <2>3, DestroyFrees DEF DestoryRequest
  <2>5. Owned'
    BY <2>4 DEF Owned, HasRequest, HasSubRequest, HasCommand, HasHardware
  <2>6. Gone'
    <3>1. alive \subseteq PoolBlocks("request")
      BY <2>1 DEF Gone
    <3>2. alive' = {}
      BY <1>1, <2>4, <3>1
    <3> QED BY <2>4, <3>2 DEF Gone
  <2>7. Registered' /\ Busy'
    BY <2>1, <2>4 DEF Registered, Busy, AfterDisk
  <2> QED BY <2>4, <2>5, <2>6, <2>7 DEF FreedOnce, SafeWhileDisk
<1> QED BY <1>5, <1>6, <1>7, <1>8, <1>9, <1>10, <1>11

-----------------------------------------------------------------------------
(* Running.                                                                *)

(* Taking objects only adds them.                                          *)
LEMMA TakeAdds ==
  ASSUME LifeTypeOK, Counted, NEW needed \in SUBSET Memory, Take(needed)
  PROVE  /\ alive \subseteq alive' /\ alive' \subseteq alive \cup needed
         /\ alive' \subseteq Memory /\ v' \in Int /\ failures' \in Nat /\ Counted'
         /\ stage' = stage /\ (fault' = fault \/ fault' = "allocate_USBSSD")
<1> DEFINE new == needed \ alive
<1>1. CASE Kmalloc(new, {}) /\ UNCHANGED <<fault, stage>>
  <2>1. new \in SUBSET Memory /\ {} \in SUBSET new /\ ({} = {} => new \cap alive = {})
    OBVIOUS
  <2>2. /\ alive' = alive \cup (new \ {}) /\ alive' \subseteq Memory
        /\ v' \in Int /\ failures' \in Nat /\ Counted'
    <3> HIDE DEF new
    <3> QED BY <1>1, <2>1, KmallocCounts
  <2> QED BY <1>1, <2>2
<1>2. CASE failures' = failures + 1 /\ Fault("allocate_USBSSD")
  <2>1. /\ failures' \in Nat /\ failures' >= failures
        /\ fault' = "allocate_USBSSD" /\ UNCHANGED <<stage, alive, v>>
    BY <1>2 DEF Fault, LifeTypeOK
  <2>2. alive' \subseteq Memory /\ v' \in Int /\ Counted'
    BY <2>1, NothingCounts
  <2> QED BY <2>1, <2>2
<1> QED BY <1>1, <1>2 DEF Take

(* What a pool can grow to is memory of that pool.                         *)
LEMMA ObjectsAreMemory ==
  \A i \in 1..MaxObjects :
    Object("request", i) \in Memory /\ Object("subrequest", i) \in Memory
      /\ Object("command", i) \in Memory
  BY MemoryIs DEF PoolBlocks

(* A step that stops the model at a fault other than a double free leaves  *)
(* memory, and what is registered, as they were.                           *)
LEMMA FaultKeeps ==
  ASSUME LifeInv, UNCHANGED <<stage, alive, v, registered>>, failures' \in Nat,
         failures' >= failures, pending' \in BOOLEAN, working' \in BOOLEAN,
         fault' \in Faults, fault' # "none", fault' # "double free",
         stage \in {"running", "del_gendisk"} => fault' # "use after free"
  PROVE  LifeInv'
<1> USE DEF LifeInv
<1>1. alive' \subseteq Memory /\ v' \in Int /\ Counted'
  BY NothingCounts
<1>2. LifeTypeOK'
  BY <1>1 DEF LifeTypeOK
<1>3. Owned' /\ Gone' /\ Registered' /\ Busy'
  BY DEF Owned, Gone, Registered, Busy
<1> QED BY <1>1, <1>2, <1>3 DEF FreedOnce, SafeWhileDisk

(* The stages while the disk is there, and the first two after it.         *)
Serving == {"running", "del_gendisk", "free_tag_set", "destory_Simulate"}

(* Objects are taken, or there are none, while the module is loaded.       *)
LEMMA TakeKeeps ==
  ASSUME LifeInv, NEW needed \in SUBSET Memory, Take(needed), UNCHANGED registered,
         pending' \in BOOLEAN, working' = TRUE, Hardware \subseteq alive, stage \in Serving
  PROVE  LifeInv'
<1> USE DEF LifeInv
<1>1. /\ alive \subseteq alive' /\ alive' \subseteq Memory /\ v' \in Int /\ failures' \in Nat
      /\ Counted' /\ stage' = stage /\ (fault' = fault \/ fault' = "allocate_USBSSD")
  BY TakeAdds
<1>2. LifeTypeOK'
  BY <1>1 DEF LifeTypeOK, Faults
<1>3. Owned'
  BY <1>1 DEF Owned
<1>4. Gone' /\ Registered'
  BY <1>1 DEF Gone, Registered, Serving
<1>5. Busy'
  <2>1. Hardware \subseteq alive'
    BY <1>1
  <2> QED BY <1>1, <2>1 DEF Busy, Serving, AfterDisk
<1> QED BY <1>1, <1>2, <1>3, <1>4, <1>5 DEF FreedOnce, SafeWhileDisk

(* err3, the block layer's requests and the work of the chips.             *)
LEMMA RunningKeeps ==
  ASSUME LifeInv, fault = "none", Err3 \/ Submit \/ RequestEnds \/ ChipWorks
  PROVE  LifeInv'
<1> USE DEF LifeInv
<1>1. LifeTypeOK /\ failures \in Nat /\ pending \in BOOLEAN /\ working \in BOOLEAN
  BY DEF LifeTypeOK
<1>2. CASE Err3
  <2>1. /\ UNCHANGED <<stage, alive, v, registered, failures, pending, working>>
        /\ fault' = "del_gendisk"
    BY <1>2 DEF Err3, Outside, Fault
  <2>2. "del_gendisk" \in Faults
    BY DEF Faults
  <2> QED BY <1>1, <2>1, <2>2, FaultKeeps
<1>3. CASE Submit
  <2>1. PICK subs \in 1..MaxObjects : \E commands \in 1..subs :
          LET needed == {Object("request", 1)} \cup {Object("subrequest", i) : i \in 1..subs}
                          \cup {Object("command", i) : i \in 1..commands}
          IN  IF Hardware \subseteq alive THEN Take(needed)
              ELSE Fault("send_cmd_2_NAND") /\ UNCHANGED failures
    BY <1>3 DEF Submit
  <2>2. PICK commands \in 1..subs :
          LET needed == {Object("request", 1)} \cup {Object("subrequest", i) : i \in 1..subs}
                          \cup {Object("command", i) : i \in 1..commands}
          IN  IF Hardware \subseteq alive THEN Take(needed)
              ELSE Fault("send_cmd_2_NAND") /\ UNCHANGED failures
    BY <2>1
  <2> DEFINE needed == {Object("request", 1)} \cup {Object("subrequest", i) : i \in 1..subs}
                         \cup {Object("command", i) : i \in 1..commands}
  <2>3. /\ stage \in {"running", "del_gendisk"} /\ pending' = TRUE /\ working' = TRUE
        /\ UNCHANGED registered
    BY <1>3 DEF Submit
  <2>4. needed \in SUBSET Memory
    <3>1. 1 \in 1..MaxObjects /\ 1..subs \subseteq 1..MaxObjects
          /\ 1..commands \subseteq 1..MaxObjects
      BY LifecycleAssumption
    <3> QED BY <3>1, ObjectsAreMemory
  <2>5. IF Hardware \subseteq alive THEN Take(needed)
        ELSE Fault("send_cmd_2_NAND") /\ UNCHANGED failures
    BY <2>2
  <2> HIDE DEF needed
  <2>6. CASE Hardware \subseteq alive
    <3>1. stage \in Serving
      BY <2>3 DEF Serving
    <3> QED BY <2>3, <2>4, <2>5, <2>6, <3>1, TakeKeeps
  <2>7. CASE ~ (Hardware \subseteq alive)
    <3>1. /\ UNCHANGED <<stage, alive, v, registered, failures>>
          /\ fault' = "send_cmd_2_NAND"
      BY <2>3, <2>5, <2>7 DEF Fault
    <3>2. "send_cmd_2_NAND" \in Faults
      BY DEF Faults
    <3> QED BY <1>1, <2>3, <3>1, <3>2, FaultKeeps
  <2> QED BY <2>6, <2>7
<1>4. CASE RequestEnds
  <2>1. /\ pending' = FALSE
        /\ UNCHANGED <<stage, alive, v, registered, failures, working, fault>>
    BY <1>4 DEF RequestEnds
  <2>2. LifeTypeOK'
    BY <2>1 DEF LifeTypeOK
  <2> QED BY <2>1, <2>2
      DEF Owned, Gone, Registered, Busy, Counted, FreedOnce, SafeWhileDisk
<1>5. CASE ChipWorks
  <2>1. working /\ UNCHANGED <<registered, pending>>
    BY <1>5 DEF ChipWorks
  <2>2. /\ stage \in {"running", "del_gendisk"} \cup AfterDisk
        /\ stage \in {"running", "del_gendisk"} => Hardware \subseteq alive
    BY <2>1 DEF Busy
  <2>3. Map \notin PoolBlocks("request") \cup PoolBlocks("subrequest")
    BY DEF Map, PoolBlocks, Allocator, Object
  <2>4. CASE InUse \subseteq alive
    <3>1. Hardware \subseteq alive /\ Map \in alive
      BY <2>4 DEF InUse
    <3>2. HW(1) \in Hardware
      BY DEF Hardware
    <3>3. stage \in Serving
      BY <2>2, <2>3, <3>1, <3>2 DEF Gone, AfterDisk, Serving
    <3>4. CASE /\ ~ pending /\ working' = FALSE
               /\ UNCHANGED <<stage, alive, v, failures, fault>>
      <4>1. LifeTypeOK'
        BY <2>1, <3>4 DEF LifeTypeOK
      <4> QED BY <2>1, <3>4, <4>1
          DEF Owned, Gone, Registered, Busy, Counted, FreedOnce, SafeWhileDisk
    <3>5. ASSUME NEW n \in 1..MaxObjects, UNCHANGED working,
                 Take({Object("command", i) : i \in 1..n} \cup {Object("subrequest", 1)})
          PROVE  LifeInv'
      <4> DEFINE needed == {Object("command", i) : i \in 1..n} \cup {Object("subrequest", 1)}
      <4>1. needed \in SUBSET Memory
        <5>1. 1 \in 1..MaxObjects /\ 1..n \subseteq 1..MaxObjects
          BY LifecycleAssumption
        <5> QED BY <5>1, ObjectsAreMemory
      <4>2. Take(needed)
        BY <3>5
      <4>3. pending' \in BOOLEAN /\ working' = TRUE
        BY <1>1, <2>1, <3>5
      <4> HIDE DEF needed
      <4> QED BY <2>1, <2>2, <3>1, <3>3, <4>1, <4>2, <4>3, TakeKeeps
    <3> QED BY <1>5, <2>4, <3>4, <3>5 DEF ChipWorks
  <2>5. CASE ~ (InUse \subseteq alive)
    <3>1. UNCHANGED <<stage, alive, v, failures, working>> /\ fault' = "use after free"
      BY <1>5, <2>5 DEF ChipWorks, Fault
    <3>2. stage \notin {"running", "del_gendisk"}
      <4> SUFFICES ASSUME stage \in {"running", "del_gendisk"} PROVE FALSE
        OBVIOUS
      <4>1. stage \in HasCommand /\ stage \in HasSubRequest /\ stage \in HasRequest
        BY <2>2 DEF HasCommand, HasSubRequest, HasRequest, HasHardware, Exits
      <4>2. /\ Hardware \subseteq alive /\ Tree \cup {Map, Allocator("command")} \subseteq alive
            /\ Allocator("request") \in alive /\ Allocator("subrequest") \in alive
        BY <2>2, <4>1 DEF Owned
      <4>3. InUse \subseteq alive
        BY <4>2 DEF InUse, Pools
      <4> QED BY <4>3, <2>5
    <3>3. "use after free" \in Faults
      BY DEF Faults
    <3>4. /\ pending' \in BOOLEAN /\ working' \in BOOLEAN
          /\ UNCHANGED <<stage, alive, v, registered>>
      BY <1>1, <2>1, <3>1
    <3>5. failures' \in Nat /\ failures' >= failures
      <4>1. failures' = failures /\ failures \in Nat
        BY <1>1, <3>1
      <4> QED BY <4>1
    <3>6. /\ fault' \in Faults /\ fault' # "none" /\ fault' # "double free"
          /\ stage \in {"running", "del_gendisk"} => fault' # "use after free"
      BY <3>1, <3>2, <3>3
    <3> QED BY <3>4, <3>5, <3>6, FaultKeeps
  <2> QED BY <2>4, <2>5
<1> QED BY <1>2, <1>3, <1>4, <1>5

-----------------------------------------------------------------------------
(* The theorems about Lifecycle.                                           *)

(* The table holds in every state of a loading or an unloading.            *)
THEOREM LifeInvTheorem == LifeSpec => []LifeInv
<1>1. LifeInit => LifeInv
  <2> SUFFICES ASSUME LifeInit PROVE LifeInv
    OBVIOUS
  <2> USE DEF LifeInit
  <2>1. LifeTypeOK
    <3>1. stage \in Stages /\ fault \in Faults
      BY DEF Stages, Faults
    <3>2. pending \in BOOLEAN /\ working \in BOOLEAN
      OBVIOUS
    <3>3. v \in Int /\ failures \in Nat
      OBVIOUS
    <3>4. alive \subseteq Memory /\ registered \subseteq Registrations
      OBVIOUS
    <3> QED BY <3>1, <3>2, <3>3, <3>4, Zenon DEF LifeTypeOK
  <2>2. Owned /\ Gone /\ Registered /\ Busy
    BY DEF Owned, Gone, Registered, Busy, HasRequest, HasSubRequest, HasCommand, HasHardware,
           Exits, AfterDisk
  <2>3. Counted
    BY FS_EmptySet DEF Counted
  <2> QED BY <2>1, <2>2, <2>3 DEF LifeInv, FreedOnce, SafeWhileDisk
<1>2. LifeInv /\ [LifeNext]_lifeVars => LifeInv'
  <2> SUFFICES ASSUME LifeInv, [LifeNext]_lifeVars PROVE LifeInv'
    OBVIOUS
  <2>1. CASE LifeNext
    <3>1. fault = "none"
      BY <2>1 DEF LifeNext
    <3>2. CASE InitRequest \/ InitSubRequest
      BY <3>1, <3>2, PoolsAreSetUp
    <3>3. CASE InitCommand
      BY <3>1, <3>3, CommandIsSetUp
    <3>4. CASE InitSimulate
      BY <3>1, <3>4, HardwareIsSetUp
    <3>5. CASE RegisterBlkdev \/ AllocTagSet \/ RegisterDisk \/ Err2 \/ Err1
                 \/ Unload \/ DelGendisk \/ FreeTagSet
      BY <3>1, <3>5, RegistrationsKeep
    <3>6. CASE Err6 \/ Err5 \/ Err4 \/ DestorySimulate \/ DestoryCommand
                 \/ DestorySubRequest \/ DestoryRequest
      BY <3>1, <3>6, DestroysKeep
    <3>7. CASE Err3 \/ Submit \/ RequestEnds \/ ChipWorks
      BY <3>1, <3>7, RunningKeeps
    <3> QED BY <2>1, <3>2, <3>3, <3>4, <3>5, <3>6, <3>7 DEF LifeNext
  <2>2. CASE UNCHANGED lifeVars
    <3> USE <2>2 DEF lifeVars, LifeInv
    <3>1. LifeTypeOK' /\ Counted'
      BY DEF LifeTypeOK, Counted
    <3>2. Owned' /\ Gone' /\ Registered' /\ Busy'
      BY DEF Owned, Gone, Registered, Busy
    <3> QED BY <3>1, <3>2 DEF FreedOnce, SafeWhileDisk
  <2> QED BY <2>1, <2>2
<1> QED BY <1>1, <1>2, PTL DEF LifeSpec

(* USBSSD_exit gives back all the memory and all the registrations,        *)
(* whatever the shape of the tree and however far the pools have grown     *)
(* (main.c:172).                                                           *)
THEOREM EndsCleanTheorem == LifeSpec => []EndsClean
<1>1. LifeInv => EndsClean
  BY DEF LifeInv, EndsClean, Gone, Registered, AfterDisk
<1> QED BY <1>1, LifeInvTheorem, PTL

(* Whatever fails, and wherever, nothing is freed twice: not by a label of *)
(* USBSSD_init, not by a set-up that undoes itself, not by USBSSD_exit     *)
(* (main.c:154-167).                                                       *)
THEOREM FreedOnceTheorem == LifeSpec => []FreedOnce
<1>1. LifeInv => FreedOnce
  BY DEF LifeInv
<1> QED BY <1>1, LifeInvTheorem, PTL

(* If init_Command_USBSSD reports success, the tree is whole to the last   *)
(* page and stays so until it is freed (command.c:911-1059).               *)
THEOREM TreeIsWholeTheorem == LifeSpec => []TreeIsWhole
<1>1. LifeInv => TreeIsWhole
  BY DEF LifeInv, TreeIsWhole, Owned, HasCommand, HasHardware, Exits
<1> QED BY <1>1, LifeInvTheorem, PTL

(* memCheck's counter never says less than is allocated, whatever fails,   *)
(* and says exactly that when nothing does (memCheck.c).                   *)
THEOREM MemcheckTellsTheorem == LifeSpec => []MemcheckTells
<1>1. LifeInv => MemcheckTells
  BY DEF LifeInv, Counted, MemcheckTells
<1> QED BY <1>1, LifeInvTheorem, PTL

(* Until del_gendisk has returned, the work of a chip finds all the memory *)
(* it uses (main.c:172-182).                                               *)
THEOREM SafeWhileDiskTheorem == LifeSpec => []SafeWhileDisk
<1>1. LifeInv => SafeWhileDisk
  BY DEF LifeInv
<1> QED BY <1>1, LifeInvTheorem, PTL
=============================================================================
