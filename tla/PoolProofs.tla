----------------------------- MODULE PoolProofs -----------------------------
(***************************************************************************)
(* Theorems about Pool: OneHolder and LinksAreInverse for any number of     *)
(* threads and objects.  The search that free_USBSSD makes plays no part in *)
(* them: wherever it ends, what is unlinked is the object itself.           *)
(***************************************************************************)
EXTENDS Pool, ListProofs, FiniteSetTheorems

\* A list of m objects, s[1] to s[m], and NULL on either side of it.
ItemAt(s, m, i) == IF i \in 1..m THEN s[i] ELSE NULL
Member(s, m, o) == \E i \in 1..m : s[i] = o

\* From head on, nx leads through s; and pr leads back.
Linked(s, m, head, nx) ==
  /\ m \in Nat /\ s \in [1..m -> Objects]
  /\ \A i, j \in 1..m : s[i] = s[j] => i = j
  /\ head = ItemAt(s, m, 1)
  /\ \A i \in 1..m : nx[s[i]] = ItemAt(s, m, i+1)
LinkedBack(s, m, pr) == \A i \in 1..m : pr[s[i]] = ItemAt(s, m, i-1)

\* Where an object is.
Places == {"fresh", "free", "held", "leaving", "link", "push"}
ThreadAt(o, labels) == \E t \in Threads : pc[t] \in labels /\ ptr[t] = o
PlacedIn(where, f, m, u, n) ==
  /\ where \in [Objects -> Places]
  /\ \A o \in Objects :
       /\ o \in fresh <=> where[o] = "fresh"
       /\ Member(f, m, o) <=> where[o] = "free"
       /\ o \in held <=> where[o] = "held"
       /\ Member(u, n, o) <=> where[o] \in {"held", "leaving"}
       /\ ThreadAt(o, {"free", "search"}) <=> where[o] = "leaving"
       /\ ThreadAt(o, {"link"}) <=> where[o] = "link"
       /\ ThreadAt(o, {"push"}) <=> where[o] = "push"

Labels == {"idle", "kmalloc", "link", "free", "search", "push"}
Busy == {"link", "free", "search", "push"}
PoolTypeOK ==
  /\ freeHead \in Entries /\ usedHead \in Entries
  /\ next \in [Objects -> Entries] /\ pre \in [Objects -> Entries]
  /\ pc \in [Threads -> Labels]
  /\ ptr \in [Threads -> Entries] /\ iter \in [Threads -> Entries]
  /\ fresh \in SUBSET Objects /\ held \in SUBSET Objects

\* No two threads are about one object, and only kmalloc leaves a thread
\* without one.
OwnObjects ==
  \A t \in Threads : pc[t] \in Busy =>
    /\ ptr[t] = NULL => pc[t] = "link"
    /\ \A u \in Threads : u # t /\ pc[u] \in Busy /\ ptr[u] = ptr[t] => ptr[t] = NULL

InLists ==
  \E f, m, u, n, where :
    /\ Linked(f, m, freeHead, next)
    /\ Linked(u, n, usedHead, next) /\ LinkedBack(u, n, pre)
    /\ PlacedIn(where, f, m, u, n)

PInv == PoolTypeOK /\ OwnObjects /\ InLists

-----------------------------------------------------------------------------
(* Lists.                                                                  *)

\* A list is as it was if its members' links are.
LEMMA LinksKept ==
  ASSUME NEW s, NEW m, NEW head, NEW nx, NEW nx2, Linked(s, m, head, nx),
         \A o \in Objects : Member(s, m, o) => nx2[o] = nx[o]
  PROVE  Linked(s, m, head, nx2)
  BY DEF Linked, Member

LEMMA BackLinksKept ==
  ASSUME NEW s, NEW m, NEW pr, NEW pr2, s \in [1..m -> Objects], LinkedBack(s, m, pr),
         \A o \in Objects : Member(s, m, o) => pr2[o] = pr[o]
  PROVE  LinkedBack(s, m, pr2)
  BY DEF LinkedBack, Member

\* What follows p is e from now on.
Redirects(p, e, nx, nx2) ==
  nx \in [Objects -> Entries] /\ nx2 = [nx EXCEPT ![p] = e]
\* p becomes what precedes head, and nothing precedes p.
FirstBack(head, p, pr, pr2) ==
  pr2 = [o \in Objects |-> IF o = head THEN p ELSE IF o = p THEN NULL ELSE pr[o]]

\* The list s2 is s with p in front of it.
WithFirst(s2, s, m, p) ==
  \A o : Member(s2, m+1, o) <=> o = p \/ Member(s, m, o)

LEMMA PutFirst ==
  ASSUME NEW s, NEW m, NEW head, NEW nx, Linked(s, m, head, nx),
         NEW p \in Objects, ~Member(s, m, p), NEW nx2, Redirects(p, head, nx, nx2)
  PROVE  \E s2 :
           /\ Linked(s2, m+1, p, nx2)
           /\ WithFirst(s2, s, m, p)
           /\ \A pr, pr2 : LinkedBack(s, m, pr) /\ FirstBack(head, p, pr, pr2)
                => LinkedBack(s2, m+1, pr2)
<1> DEFINE s2 == [i \in 1..m+1 |-> IF i = 1 THEN p ELSE s[i-1]]
<1>1. /\ m \in Nat /\ s \in [1..m -> Objects] /\ head = ItemAt(s, m, 1)
      /\ \A i, j \in 1..m : s[i] = s[j] => i = j
      /\ \A i \in 1..m : nx[s[i]] = ItemAt(s, m, i+1)
  BY DEF Linked
<1>2. \A i \in 1..m : s[i] # p
  BY DEF Member
<1>3. /\ s2 \in [1..m+1 -> Objects] /\ s2[1] = p
      /\ \A i \in 2..m+1 : i # 1 /\ i-1 \in 1..m /\ s2[i] = s[i-1]
  <2>1. /\ 1 \in 1..m+1
        /\ \A i \in 1..m+1 : i = 1 \/ i-1 \in 1..m
        /\ \A i \in 2..m+1 : i \in 1..m+1 /\ i # 1 /\ i-1 \in 1..m
    BY <1>1
  <2>2. \A i \in 1..m+1 : (IF i = 1 THEN p ELSE s[i-1]) \in Objects
    BY <1>1, <2>1
  <2> QED BY <2>1, <2>2
<1> HIDE DEF s2
<1>4. \A i, j \in 1..m+1 : s2[i] = s2[j] => i = j
  <2> TAKE i, j \in 1..m+1
  <2>1. CASE i = 1 /\ j = 1
    BY <2>1
  <2>2. CASE i = 1 /\ j \in 2..m+1
    BY <1>2, <1>3, <2>2
  <2>3. CASE i \in 2..m+1 /\ j = 1
    BY <1>2, <1>3, <2>3
  <2>4. CASE i \in 2..m+1 /\ j \in 2..m+1
    <3>1. i-1 \in 1..m /\ j-1 \in 1..m /\ s2[i] = s[i-1] /\ s2[j] = s[j-1]
      BY <1>3, <2>4
    <3>2. s[i-1] = s[j-1] => i-1 = j-1
      BY <1>1, <3>1
    <3> QED BY <1>1, <2>4, <3>1, <3>2
  <2> QED BY <1>1, <2>1, <2>2, <2>3, <2>4
<1>5. nx2[p] = head /\ \A o \in Objects : o # p => nx2[o] = nx[o]
  BY DEF Redirects
<1>6. \A i \in 1..m+1 : ItemAt(s2, m+1, i+1) = ItemAt(s, m, i)
  <2> TAKE i \in 1..m+1
  <2>1. CASE i = m+1
    BY <1>1, <2>1 DEF ItemAt
  <2>2. CASE i \in 1..m
    <3>1. i+1 \in 2..m+1 /\ i+1 \in 1..m+1 /\ (i+1)-1 = i
      BY <1>1, <2>2
    <3> QED BY <1>3, <2>2, <3>1 DEF ItemAt
  <2> QED BY <1>1, <2>1, <2>2
<1>7. \A i \in 1..m+1 : nx2[s2[i]] = ItemAt(s2, m+1, i+1)
  <2> TAKE i \in 1..m+1
  <2>1. CASE i = 1
    BY <1>1, <1>3, <1>5, <1>6, <2>1
  <2>2. CASE i \in 2..m+1
    <3>1. i-1 \in 1..m /\ s2[i] = s[i-1] /\ (i-1)+1 = i /\ s[i-1] \in Objects
      BY <1>1, <1>3, <2>2
    <3> QED BY <1>1, <1>2, <1>5, <1>6, <3>1
  <2> QED BY <1>1, <2>1, <2>2
<1>8. Linked(s2, m+1, p, nx2)
  <2>1. 1 \in 1..m+1 /\ m+1 \in Nat
    BY <1>1
  <2>2. p = ItemAt(s2, m+1, 1)
    BY <1>3, <2>1 DEF ItemAt
  <2> QED BY <1>3, <1>4, <1>7, <2>1, <2>2 DEF Linked
<1>9. ASSUME NEW o PROVE Member(s2, m+1, o) <=> o = p \/ Member(s, m, o)
  <2>1. ASSUME NEW i \in 1..m+1, s2[i] = o PROVE o = p \/ Member(s, m, o)
    <3>1. i = 1 \/ i \in 2..m+1
      BY <1>1
    <3> QED BY <1>3, <2>1, <3>1 DEF Member
  <2>2. o = p => Member(s2, m+1, o)
    <3>1. 1 \in 1..m+1
      BY <1>1
    <3> QED BY <1>3, <3>1 DEF Member
  <2>3. ASSUME NEW i \in 1..m, s[i] = o PROVE Member(s2, m+1, o)
    <3>1. i+1 \in 2..m+1 /\ i+1 \in 1..m+1 /\ (i+1)-1 = i
      BY <1>1
    <3> QED BY <1>3, <2>3, <3>1 DEF Member
  <2> QED BY <2>1, <2>2, <2>3 DEF Member
<1>10. ASSUME NEW pr, NEW pr2, LinkedBack(s, m, pr), FirstBack(head, p, pr, pr2)
       PROVE  LinkedBack(s2, m+1, pr2)
  <2>0. \A o \in Objects : pr2[o] = IF o = head THEN p ELSE IF o = p THEN NULL ELSE pr[o]
    BY <1>10 DEF FirstBack
  <2>1. ASSUME NEW i \in 1..m+1 PROVE pr2[s2[i]] = ItemAt(s2, m+1, i-1)
    <3>1. CASE i = 1
      <4>1. p # head
        BY <1>1, <1>2, PoolAssumption DEF ItemAt
      <4> QED BY <1>1, <1>3, <2>0, <3>1, <4>1 DEF ItemAt
    <3>2. CASE i = 2
      <4>1. i-1 \in 1..m /\ s2[i] = s[1] /\ s[1] \in Objects /\ 1 \in 1..m /\ 1 \in 1..m+1
        BY <1>1, <1>3, <3>2
      <4>2. s[1] = head
        BY <1>1, <4>1 DEF ItemAt
      <4> QED BY <1>3, <2>0, <3>2, <4>1, <4>2 DEF ItemAt
    <3>3. CASE i \in 3..m+1
      <4>1. /\ i-1 \in 1..m /\ i-1 \in 2..m+1 /\ i-1 \in 1..m+1 /\ i \in 2..m+1
            /\ i-2 \in 1..m /\ 1 \in 1..m
            /\ (i-1)-1 = i-2 /\ i-1 # 1
        BY <1>1, <3>3
      <4>2. s2[i] = s[i-1] /\ s2[i-1] = s[i-2] /\ s[i-1] \in Objects
        BY <1>1, <1>3, <4>1
      <4>3. s[i-1] # head /\ s[i-1] # p
        BY <1>1, <1>2, <4>1 DEF ItemAt
      <4>4. pr[s[i-1]] = s[i-2]
        BY <1>10, <4>1 DEF LinkedBack, ItemAt
      <4> QED BY <2>0, <4>1, <4>2, <4>3, <4>4 DEF ItemAt
    <3> QED BY <1>1, <3>1, <3>2, <3>3
  <2> QED BY <2>1 DEF LinkedBack
<1> QED BY <1>8, <1>9, <1>10 DEF WithFirst

\* A list without its k-th object.
LEMMA CutOut ==
  ASSUME NEW s, NEW m, NEW head, NEW nx, Linked(s, m, head, nx), NEW k \in 1..m
  PROVE  \E s2 \in [1..m-1 -> Objects] :
           /\ \A i, j \in 1..m-1 : s2[i] = s2[j] => i = j
           /\ \A o : Member(s2, m-1, o) <=> Member(s, m, o) /\ o # s[k]
           /\ \A i \in 1..m-1 : i < k => s2[i] = s[i]
           /\ \A i \in 1..m-1 : i >= k => s2[i] = s[i+1]
           /\ \A i \in Nat : i < k => ItemAt(s2, m-1, i) = ItemAt(s, m, i)
           /\ \A i \in Nat : i >= k => ItemAt(s2, m-1, i) = ItemAt(s, m, i+1)
<1> DEFINE at(i) == IF i < k THEN i ELSE i+1
           s2 == [i \in 1..m-1 |-> s[at(i)]]
<1>1. /\ m \in Nat /\ s \in [1..m -> Objects] /\ k \in Nat
      /\ \A i, j \in 1..m : s[i] = s[j] => i = j
  BY DEF Linked
<1>2. \A i \in 1..m-1 : at(i) \in 1..m /\ at(i) # k
  BY <1>1
<1>3. /\ s2 \in [1..m-1 -> Objects]
      /\ \A i \in 1..m-1 : s2[i] = s[at(i)]
  BY <1>1, <1>2
<1> HIDE DEF s2
<1>4. \A i, j \in 1..m-1 : at(i) = at(j) => i = j
  BY <1>1
<1>5. \A i, j \in 1..m-1 : s2[i] = s2[j] => i = j
  <2> HIDE DEF at
  <2> QED BY <1>1, <1>2, <1>3, <1>4
<1>6. ASSUME NEW o PROVE Member(s2, m-1, o) <=> Member(s, m, o) /\ o # s[k]
  <2>1. ASSUME NEW i \in 1..m-1, s2[i] = o PROVE Member(s, m, o) /\ o # s[k]
    <3> HIDE DEF at
    <3> QED BY <1>1, <1>2, <1>3, <2>1 DEF Member
  <2>2. ASSUME NEW j \in 1..m, s[j] = o, o # s[k] PROVE Member(s2, m-1, o)
    <3>1. j # k
      BY <2>2
    <3>2. CASE j < k
      <4>1. j \in 1..m-1 /\ at(j) = j
        BY <1>1, <3>2
      <4> QED BY <1>3, <2>2, <4>1 DEF Member
    <3>3. CASE j > k
      <4>1. j-1 \in 1..m-1 /\ at(j-1) = j
        BY <1>1, <3>3
      <4> QED BY <1>3, <2>2, <4>1 DEF Member
    <3> QED BY <1>1, <3>1, <3>2, <3>3
  <2> QED BY <2>1, <2>2 DEF Member
<1>7. \A i \in 1..m-1 : /\ i < k => s2[i] = s[i]
                        /\ i >= k => s2[i] = s[i+1]
  BY <1>1, <1>3
<1>8. ASSUME NEW i \in Nat, i < k PROVE ItemAt(s2, m-1, i) = ItemAt(s, m, i)
  <2>1. i \in 1..m-1 <=> i \in 1..m
    BY <1>1, <1>8
  <2> QED BY <1>7, <1>8, <2>1 DEF ItemAt
<1>9. ASSUME NEW i \in Nat, i >= k PROVE ItemAt(s2, m-1, i) = ItemAt(s, m, i+1)
  <2>1. i \in 1..m-1 <=> i+1 \in 1..m
    BY <1>1, <1>9
  <2> QED BY <1>7, <1>9, <2>1 DEF ItemAt
<1> QED BY <1>3, <1>5, <1>6, <1>7, <1>8, <1>9

\* The list s2 is s without p.
Without(s2, s, m, p) == \A o : Member(s2, m-1, o) <=> Member(s, m, o) /\ o # p
\* The links back without the head, and without another object p.
HeadGone(head, nx, pr, pr2) ==
  pr2 = [o \in Objects |-> IF o \in {nx[head], head} THEN NULL ELSE pr[o]]
InnerGone(p, nx, pr, pr2) ==
  pr2 = [o \in Objects |-> IF o = p THEN NULL ELSE IF o = nx[p] THEN pr[p] ELSE pr[o]]

\* Taking the head, with or without links back.
LEMMA TakeFirst ==
  ASSUME NEW s, NEW m, NEW head, NEW nx, Linked(s, m, head, nx), head # NULL
  PROVE  /\ head \in Objects /\ Member(s, m, head) /\ head # nx[head]
         /\ \E s2 :
              /\ Linked(s2, m-1, nx[head], nx)
              /\ Without(s2, s, m, head)
              /\ \A pr, pr2 : LinkedBack(s, m, pr) /\ HeadGone(head, nx, pr, pr2)
                   => LinkedBack(s2, m-1, pr2)
<1>1. /\ m \in Nat /\ s \in [1..m -> Objects] /\ head = ItemAt(s, m, 1)
      /\ \A i, j \in 1..m : s[i] = s[j] => i = j
      /\ \A i \in 1..m : nx[s[i]] = ItemAt(s, m, i+1)
  BY DEF Linked
<1>2. 1 \in 1..m /\ head = s[1]
  BY <1>1 DEF ItemAt
<1>3. nx[head] = ItemAt(s, m, 2)
  BY <1>1, <1>2
<1>4. head \in Objects /\ Member(s, m, head)
  BY <1>1, <1>2 DEF Member
<1>5. head # nx[head]
  BY <1>1, <1>2, <1>3 DEF ItemAt
<1>6. PICK s2 \in [1..m-1 -> Objects] :
           /\ \A i, j \in 1..m-1 : s2[i] = s2[j] => i = j
           /\ \A o : Member(s2, m-1, o) <=> Member(s, m, o) /\ o # s[1]
           /\ \A i \in 1..m-1 : i >= 1 => s2[i] = s[i+1]
           /\ \A i \in Nat : i < 1 => ItemAt(s2, m-1, i) = ItemAt(s, m, i)
           /\ \A i \in Nat : i >= 1 => ItemAt(s2, m-1, i) = ItemAt(s, m, i+1)
  <2>1. \E s2 \in [1..m-1 -> Objects] :
           /\ \A i, j \in 1..m-1 : s2[i] = s2[j] => i = j
           /\ \A o : Member(s2, m-1, o) <=> Member(s, m, o) /\ o # s[1]
           /\ \A i \in 1..m-1 : i < 1 => s2[i] = s[i]
           /\ \A i \in 1..m-1 : i >= 1 => s2[i] = s[i+1]
           /\ \A i \in Nat : i < 1 => ItemAt(s2, m-1, i) = ItemAt(s, m, i)
           /\ \A i \in Nat : i >= 1 => ItemAt(s2, m-1, i) = ItemAt(s, m, i+1)
    BY <1>2, CutOut
  <2> QED BY <2>1
<1>7. Linked(s2, m-1, nx[head], nx)
  <2>1. m-1 \in Nat
    BY <1>1, <1>2
  <2>2. nx[head] = ItemAt(s2, m-1, 1)
    BY <1>3, <1>6
  <2>3. ASSUME NEW i \in 1..m-1 PROVE nx[s2[i]] = ItemAt(s2, m-1, i+1)
    <3>1. i+1 \in 1..m /\ i+1 \in Nat /\ i+1 >= 1 /\ i >= 1 /\ (i+1)+1 \in Nat
      BY <1>1
    <3> QED BY <1>1, <1>6, <3>1
  <2> QED BY <1>6, <2>1, <2>2, <2>3 DEF Linked
<1>8. ASSUME NEW pr, NEW pr2, LinkedBack(s, m, pr), HeadGone(head, nx, pr, pr2)
      PROVE  LinkedBack(s2, m-1, pr2)
  <2>0. \A o \in Objects : pr2[o] = IF o \in {nx[head], head} THEN NULL ELSE pr[o]
    BY <1>8 DEF HeadGone
  <2>1. ASSUME NEW i \in 1..m-1 PROVE pr2[s2[i]] = ItemAt(s2, m-1, i-1)
    <3>1. i+1 \in 1..m /\ s2[i] = s[i+1] /\ s[i+1] \in Objects /\ s2[i] \in Objects
      BY <1>1, <1>6
    <3>2. CASE i = 1
      <4>1. s2[i] = nx[head]
        BY <1>3, <3>1, <3>2 DEF ItemAt
      <4> QED BY <2>0, <3>1, <3>2, <4>1 DEF ItemAt
    <3>3. CASE i > 1
      <4>1. i+1 # 1 /\ i+1 # 2 /\ (i+1)-1 = i /\ i \in 1..m
            /\ i-1 \in Nat /\ i-1 >= 1 /\ (i-1)+1 = i
        BY <1>1, <3>3
      <4>2. s[i+1] # head /\ s[i+1] # nx[head]
        <5>1. s[i+1] # s[1]
          BY <1>1, <1>2, <3>1, <4>1
        <5>2. nx[head] = NULL \/ (2 \in 1..m /\ nx[head] = s[2])
          BY <1>3 DEF ItemAt
        <5>3. s[i+1] # NULL
          BY <3>1, PoolAssumption
        <5> QED BY <1>1, <1>2, <3>1, <4>1, <5>1, <5>2, <5>3
      <4>3. pr[s[i+1]] = ItemAt(s, m, i)
        BY <1>8, <3>1, <4>1 DEF LinkedBack
      <4>4. ItemAt(s2, m-1, i-1) = ItemAt(s, m, i)
        BY <1>6, <4>1
      <4> QED BY <2>0, <3>1, <4>2, <4>3, <4>4
    <3> QED BY <3>2, <3>3
  <2> QED BY <2>1 DEF LinkedBack
<1>9. Without(s2, s, m, head)
  BY <1>2, <1>6 DEF Without
<1> QED BY <1>4, <1>5, <1>7, <1>8, <1>9

\* Taking another object than the head, by its own links.
LEMMA TakeInner ==
  ASSUME NEW s, NEW m, NEW head, NEW nx, NEW pr,
         Linked(s, m, head, nx), LinkedBack(s, m, pr),
         NEW p, Member(s, m, p), p # head,
         NEW nx2, NEW pr2, Redirects(pr[p], nx[p], nx, nx2), InnerGone(p, nx, pr, pr2)
  PROVE  /\ p \in Objects /\ pr[p] \in Objects /\ Member(s, m, pr[p])
         /\ nx[p] \in Entries
         /\ \E s2 : /\ Linked(s2, m-1, head, nx2) /\ LinkedBack(s2, m-1, pr2)
                    /\ Without(s2, s, m, p)
<1>1. /\ m \in Nat /\ s \in [1..m -> Objects] /\ head = ItemAt(s, m, 1)
      /\ \A i, j \in 1..m : s[i] = s[j] => i = j
      /\ \A i \in 1..m : nx[s[i]] = ItemAt(s, m, i+1)
      /\ \A i \in 1..m : pr[s[i]] = ItemAt(s, m, i-1)
      /\ \A i \in 1..m : s[i] \in Objects /\ s[i] # NULL
  BY PoolAssumption DEF Linked, LinkedBack
<1>2. PICK k \in 1..m : s[k] = p
  BY DEF Member
<1>3. k # 1 /\ k \in Nat
  BY <1>1, <1>2 DEF ItemAt
<1>4. k-1 \in 1..m /\ k > 1
  BY <1>1, <1>3
<1>5. pr[p] = s[k-1] /\ nx[p] = ItemAt(s, m, k+1)
  BY <1>1, <1>2, <1>4 DEF ItemAt
<1>6. p \in Objects /\ pr[p] \in Objects /\ Member(s, m, pr[p]) /\ nx[p] \in Entries
  BY <1>1, <1>2, <1>4, <1>5 DEF Member, ItemAt, Entries
<1>7. PICK s2 \in [1..m-1 -> Objects] :
           /\ \A i, j \in 1..m-1 : s2[i] = s2[j] => i = j
           /\ \A o : Member(s2, m-1, o) <=> Member(s, m, o) /\ o # s[k]
           /\ \A i \in 1..m-1 : i < k => s2[i] = s[i]
           /\ \A i \in 1..m-1 : i >= k => s2[i] = s[i+1]
           /\ \A i \in Nat : i < k => ItemAt(s2, m-1, i) = ItemAt(s, m, i)
           /\ \A i \in Nat : i >= k => ItemAt(s2, m-1, i) = ItemAt(s, m, i+1)
  BY CutOut
<1>8. nx2[pr[p]] = nx[p] /\ \A o \in Objects : o # pr[p] => nx2[o] = nx[o]
  BY <1>6 DEF Redirects
<1>9. \A o \in Objects : /\ o = p => pr2[o] = NULL
                         /\ o # p /\ o = nx[p] => pr2[o] = pr[p]
                         /\ o # p /\ o # nx[p] => pr2[o] = pr[o]
  BY DEF InnerGone
<1>10. Linked(s2, m-1, head, nx2)
  <2>1. m-1 \in Nat
    BY <1>1, <1>4
  <2>2. head = ItemAt(s2, m-1, 1)
    BY <1>1, <1>4, <1>7
  <2>3. ASSUME NEW i \in 1..m-1 PROVE nx2[s2[i]] = ItemAt(s2, m-1, i+1)
    <3>1. CASE i < k-1
      <4>1. i < k /\ i+1 < k /\ i+1 \in Nat /\ i \in 1..m /\ i # k-1
        BY <1>1, <1>3, <3>1
      <4>2. s2[i] = s[i] /\ s[i] # pr[p] /\ ItemAt(s2, m-1, i+1) = ItemAt(s, m, i+1)
        BY <1>1, <1>4, <1>5, <1>7, <4>1
      <4> QED BY <1>1, <1>8, <4>1, <4>2
    <3>2. CASE i = k-1
      <4>1. i < k /\ i+1 = k /\ k >= k /\ i \in 1..m
        BY <1>3, <1>4, <3>2
      <4>2. s2[i] = s[i] /\ s[i] = pr[p] /\ ItemAt(s2, m-1, i+1) = ItemAt(s, m, k+1)
        BY <1>3, <1>5, <1>7, <3>2, <4>1
      <4> QED BY <1>5, <1>8, <4>2
    <3>3. CASE i >= k
      <4>1. i+1 \in 1..m /\ i+1 # k-1 /\ i+1 >= k /\ i+1 \in Nat
        BY <1>1, <1>3, <3>3
      <4>2. s2[i] = s[i+1] /\ s[i+1] # pr[p]
            /\ ItemAt(s2, m-1, i+1) = ItemAt(s, m, (i+1)+1)
        BY <1>1, <1>4, <1>5, <1>7, <3>3, <4>1
      <4> QED BY <1>1, <1>8, <4>1, <4>2
    <3> QED BY <1>3, <3>1, <3>2, <3>3
  <2> QED BY <1>7, <2>1, <2>2, <2>3 DEF Linked
<1>11. LinkedBack(s2, m-1, pr2)
  <2>1. ASSUME NEW i \in 1..m-1 PROVE pr2[s2[i]] = ItemAt(s2, m-1, i-1)
    <3>1. nx[p] = NULL \/ (k+1 \in 1..m /\ nx[p] = s[k+1])
      BY <1>5 DEF ItemAt
    <3>2. CASE i < k
      <4>1. i \in 1..m /\ i # k /\ i # k+1 /\ i-1 < k /\ i-1 \in Nat
        BY <1>1, <1>3, <3>2
      <4>2. s2[i] = s[i] /\ ItemAt(s2, m-1, i-1) = ItemAt(s, m, i-1)
        BY <1>7, <3>2, <4>1
      <4>3. s[i] # p /\ s[i] # nx[p]
        BY <1>1, <1>2, <3>1, <4>1
      <4> QED BY <1>1, <1>9, <4>1, <4>2, <4>3
    <3>3. CASE i = k
      <4>1. k+1 \in 1..m /\ k >= k /\ k-1 < k /\ k-1 \in Nat /\ k+1 # k
        BY <1>1, <1>3, <1>4, <3>3
      <4>2. s2[i] = s[k+1] /\ s[k+1] = nx[p] /\ s[k+1] # p
        BY <1>1, <1>2, <1>5, <1>7, <3>3, <4>1 DEF ItemAt
      <4>3. ItemAt(s2, m-1, i-1) = s[k-1]
        BY <1>4, <1>7, <3>3, <4>1 DEF ItemAt
      <4> QED BY <1>1, <1>5, <1>9, <4>1, <4>2, <4>3
    <3>4. CASE i > k
      <4>1. /\ i+1 \in 1..m /\ i+1 # k /\ i+1 # k+1 /\ (i+1)-1 = i
            /\ i >= k /\ i-1 >= k /\ i-1 \in Nat /\ (i-1)+1 = i
        BY <1>1, <1>3, <3>4
      <4>2. s2[i] = s[i+1] /\ ItemAt(s2, m-1, i-1) = ItemAt(s, m, i)
        BY <1>7, <4>1
      <4>3. s[i+1] # p /\ s[i+1] # nx[p]
        BY <1>1, <1>2, <3>1, <4>1
      <4> QED BY <1>1, <1>9, <4>1, <4>2, <4>3
    <3> QED BY <1>3, <3>2, <3>3, <3>4
  <2> QED BY <2>1 DEF LinkedBack
<1>12. Without(s2, s, m, p)
  BY <1>2, <1>7 DEF Without
<1> QED BY <1>6, <1>10, <1>11, <1>12

-----------------------------------------------------------------------------
(* Threads and places.                                                     *)

\* An object that is in no thread's hands.
LEMMA NobodyHas ==
  ASSUME NEW where, NEW f, NEW m, NEW u, NEW n, PlacedIn(where, f, m, u, n),
         NEW p \in Objects, where[p] \in {"fresh", "free", "held"},
         NEW v \in Threads, pc[v] \in Busy
  PROVE  ptr[v] # p
  BY DEF PlacedIn, ThreadAt, Busy

\* Thread t, which was about p or about nothing, is about p now, which goes to
\* the place k.
TurnsTo(t, p, label, k) ==
  /\ pc' = [pc EXCEPT ![t] = label] /\ ptr' = [ptr EXCEPT ![t] = p]
  /\ ptr[t] = p \/ pc[t] \notin Busy
  /\ \A v \in Threads : v # t /\ pc[v] \in Busy => ptr[v] # p
  /\ label = "link" <=> k = "link"
  /\ label \in {"free", "search"} <=> k = "leaving"
  /\ label = "push" <=> k = "push"
ListsMove(p, k, f, m, u, n, f2, m2, u2, n2) ==
  /\ \A o \in Objects : o # p =>
       /\ Member(f2, m2, o) <=> Member(f, m, o)
       /\ Member(u2, n2, o) <=> Member(u, n, o)
       /\ o \in fresh' <=> o \in fresh
       /\ o \in held' <=> o \in held
  /\ Member(f2, m2, p) <=> k = "free"
  /\ Member(u2, n2, p) <=> k \in {"held", "leaving"}
  /\ p \in fresh' <=> k = "fresh"
  /\ p \in held' <=> k = "held"

LEMMA ObjectMoves ==
  ASSUME PoolTypeOK, OwnObjects,
         NEW where, NEW f, NEW m, NEW u, NEW n, PlacedIn(where, f, m, u, n),
         NEW t \in Threads, NEW p \in Objects, NEW label \in Labels, NEW k \in Places,
         NEW f2, NEW m2, NEW u2, NEW n2,
         TurnsTo(t, p, label, k), ListsMove(p, k, f, m, u, n, f2, m2, u2, n2)
  PROVE  /\ OwnObjects'
         /\ PlacedIn([where EXCEPT ![p] = k], f2, m2, u2, n2)'
<1> DEFINE w == [where EXCEPT ![p] = k]
<1>1. /\ where \in [Objects -> Places] /\ w \in [Objects -> Places] /\ w[p] = k
      /\ \A o \in Objects : o # p => w[o] = where[o]
  BY DEF PlacedIn
<1> HIDE DEF w
<1>2. /\ pc'[t] = label /\ ptr'[t] = p /\ p # NULL
      /\ \A v \in Threads : v # t => pc'[v] = pc[v] /\ ptr'[v] = ptr[v]
  BY PoolAssumption DEF PoolTypeOK, TurnsTo
<1>3. \A labels : ThreadAt(p, labels)' <=> label \in labels \/ \E v \in Threads : v # t /\ pc[v] \in labels /\ ptr[v] = p
  BY <1>2 DEF ThreadAt
<1>4. \A labels : labels \subseteq Busy => (ThreadAt(p, labels)' <=> label \in labels)
  BY <1>3 DEF TurnsTo
<1>5. ASSUME NEW o \in Objects, o # p, NEW labels, labels \subseteq Busy
      PROVE  ThreadAt(o, labels)' <=> ThreadAt(o, labels)
  BY <1>2, <1>5 DEF ThreadAt, TurnsTo
<1>6. {"free", "search"} \subseteq Busy /\ {"link"} \subseteq Busy /\ {"push"} \subseteq Busy
  BY DEF Busy
<1>7. OwnObjects'
  <2>1. ASSUME NEW v \in Threads, pc'[v] \in Busy
        PROVE  /\ ptr'[v] = NULL => pc'[v] = "link"
               /\ \A x \in Threads : x # v /\ pc'[x] \in Busy /\ ptr'[x] = ptr'[v] => ptr'[v] = NULL
    <3>1. CASE v = t
      BY <1>2, <3>1 DEF TurnsTo
    <3>2. CASE v # t
      BY <1>2, <2>1, <3>2 DEF OwnObjects, TurnsTo
    <3> QED BY <3>1, <3>2
  <2> QED BY <2>1 DEF OwnObjects
<1>8. ASSUME NEW o \in Objects
      PROVE  /\ o \in fresh' <=> w[o] = "fresh"
             /\ Member(f2, m2, o) <=> w[o] = "free"
             /\ o \in held' <=> w[o] = "held"
             /\ Member(u2, n2, o) <=> w[o] \in {"held", "leaving"}
             /\ ThreadAt(o, {"free", "search"})' <=> w[o] = "leaving"
             /\ ThreadAt(o, {"link"})' <=> w[o] = "link"
             /\ ThreadAt(o, {"push"})' <=> w[o] = "push"
  <2>1. CASE o = p
    BY <1>1, <1>4, <1>6, <2>1 DEF TurnsTo, ListsMove
  <2>2. CASE o # p
    <3>1. /\ ThreadAt(o, {"free", "search"})' <=> ThreadAt(o, {"free", "search"})
          /\ ThreadAt(o, {"link"})' <=> ThreadAt(o, {"link"})
          /\ ThreadAt(o, {"push"})' <=> ThreadAt(o, {"push"})
      BY <1>5, <1>6, <2>2
    <3> QED BY <1>1, <2>2, <3>1 DEF PlacedIn, ListsMove
  <2> QED BY <2>1, <2>2
<1>9. PlacedIn(w, f2, m2, u2, n2)'
  BY <1>1, <1>8 DEF PlacedIn
<1> QED BY <1>7, <1>9 DEF w

\* Thread t is about no object, before or after.
LEMMA NoObjectMoves ==
  ASSUME PoolTypeOK, OwnObjects,
         NEW where, NEW f, NEW m, NEW u, NEW n, PlacedIn(where, f, m, u, n),
         NEW t \in Threads, NEW label, NEW e \in Entries,
         pc' = [pc EXCEPT ![t] = label], ptr' = [ptr EXCEPT ![t] = e],
         pc[t] \notin Busy, label \notin Busy \/ (label = "link" /\ e = NULL),
         UNCHANGED <<fresh, held>>
  PROVE  OwnObjects' /\ PlacedIn(where, f, m, u, n)'
<1>1. /\ pc'[t] = label /\ ptr'[t] = e
      /\ \A v \in Threads : v # t => pc'[v] = pc[v] /\ ptr'[v] = ptr[v]
  BY DEF PoolTypeOK
<1>2. ASSUME NEW o \in Objects, NEW labels, labels \subseteq Busy
      PROVE  ThreadAt(o, labels)' <=> ThreadAt(o, labels)
  BY <1>1, <1>2, PoolAssumption DEF ThreadAt
<1>3. {"free", "search"} \subseteq Busy /\ {"link"} \subseteq Busy /\ {"push"} \subseteq Busy
  BY DEF Busy
<1>4. OwnObjects'
  <2>1. ASSUME NEW v \in Threads, pc'[v] \in Busy
        PROVE  /\ ptr'[v] = NULL => pc'[v] = "link"
               /\ \A x \in Threads : x # v /\ pc'[x] \in Busy /\ ptr'[x] = ptr'[v] => ptr'[v] = NULL
    <3>1. CASE v = t
      BY <1>1, <2>1, <3>1
    <3>2. CASE v # t
      BY <1>1, <2>1, <3>2 DEF OwnObjects
    <3> QED BY <3>1, <3>2
  <2> QED BY <2>1 DEF OwnObjects
<1>5. ASSUME NEW o \in Objects
      PROVE  /\ ThreadAt(o, {"free", "search"})' <=> ThreadAt(o, {"free", "search"})
             /\ ThreadAt(o, {"link"})' <=> ThreadAt(o, {"link"})
             /\ ThreadAt(o, {"push"})' <=> ThreadAt(o, {"push"})
  BY <1>2, <1>3
<1>6. PlacedIn(where, f, m, u, n)'
  BY <1>5 DEF PlacedIn
<1> QED BY <1>4, <1>6

-----------------------------------------------------------------------------
(* The actions.                                                            *)

LEMMA PoolInit == Init => PInv
<1> SUFFICES ASSUME Init PROVE PInv
  OBVIOUS
<1> DEFINE none == [i \in 1..0 |-> NULL]
           where == [o \in Objects |-> "fresh"]
<1>1. PoolTypeOK
  BY DEF Init, PoolTypeOK, Entries, Labels
<1>2. OwnObjects
  BY DEF Init, OwnObjects, Busy
<1>3. \A o : ~Member(none, 0, o)
  BY DEF Member
<1>4. Linked(none, 0, NULL, next) /\ LinkedBack(none, 0, pre)
  BY DEF Linked, LinkedBack, ItemAt
<1>5. \A o \in Objects : where[o] = "fresh"
  OBVIOUS
<1>6. where \in [Objects -> Places]
  BY DEF Places
<1> HIDE DEF none, where
<1>7. PlacedIn(where, none, 0, none, 0)
  BY <1>3, <1>5, <1>6 DEF Init, PlacedIn, ThreadAt
<1>8. InLists
  BY <1>4, <1>7 DEF Init, InLists
<1> QED BY <1>1, <1>2, <1>8 DEF PInv

LEMMA PopKeeps ==
  ASSUME PInv, NEW t \in Threads, Pop(t)
  PROVE  PInv'
<1>1. PoolTypeOK /\ OwnObjects
  BY DEF PInv
<1>2. PICK f, m, u, n, where :
        /\ Linked(f, m, freeHead, next)
        /\ Linked(u, n, usedHead, next) /\ LinkedBack(u, n, pre)
        /\ PlacedIn(where, f, m, u, n)
  BY DEF PInv, InLists
<1>3. PICK p : p = freeHead
  OBVIOUS
<1>4. /\ p # NULL /\ pc[t] = "idle" /\ pc' = [pc EXCEPT ![t] = "link"]
      /\ ptr' = [ptr EXCEPT ![t] = p] /\ freeHead' = next[p]
      /\ pre' = [o \in Objects |-> IF o = next[p] THEN NULL ELSE pre[o]]
      /\ UNCHANGED <<usedHead, next, usedMutex, iter, fresh, held>>
  BY <1>3 DEF Pop, Goto
<1>5. /\ p \in Objects /\ Member(f, m, p) /\ p # next[p]
      /\ \E f2 : Linked(f2, m-1, next[p], next) /\ Without(f2, f, m, p)
  BY <1>2, <1>3, <1>4, TakeFirst
<1>6. PICK f2 : Linked(f2, m-1, next[p], next) /\ Without(f2, f, m, p)
  BY <1>5
<1>7. where \in [Objects -> Places] /\ where[p] = "free"
  BY <1>2, <1>5 DEF PlacedIn
<1>8. LinkedBack(u, n, pre')
  <2>1. next[p] \in Objects => Member(f, m, next[p])
    <3>1. PICK i \in 1..m : f[i] = p
      BY <1>5 DEF Member
    <3>2. next[p] = ItemAt(f, m, i+1)
      BY <1>2, <3>1 DEF Linked
    <3> QED BY <3>2, PoolAssumption DEF ItemAt, Member
  <2>2. \A o \in Objects : Member(u, n, o) => pre'[o] = pre[o]
    BY <1>2, <1>4, <2>1 DEF PlacedIn
  <2>3. u \in [1..n -> Objects]
    BY <1>2 DEF Linked
  <2> QED BY <1>2, <2>2, <2>3, BackLinksKept
<1>9. /\ OwnObjects'
      /\ PlacedIn([where EXCEPT ![p] = "link"], f2, m-1, u, n)'
  <2>1. PICK label \in Labels, k \in Places : label = "link" /\ k = "link"
    BY DEF Labels, Places
  <2>2. \A v \in Threads : v # t /\ pc[v] \in Busy => ptr[v] # p
    BY <1>2, <1>5, <1>7, NobodyHas
  <2>3. TurnsTo(t, p, label, k)
    BY <1>4, <2>1, <2>2 DEF Busy, TurnsTo
  <2>4. ListsMove(p, k, f, m, u, n, f2, m-1, u, n)
    BY <1>2, <1>4, <1>5, <1>6, <1>7, <2>1 DEF PlacedIn, ListsMove, Without
  <2>5. /\ OwnObjects'
        /\ PlacedIn([where EXCEPT ![p] = k], f2, m-1, u, n)'
    BY <1>1, <1>2, <1>5, <2>3, <2>4, ObjectMoves
  <2> QED BY <2>1, <2>5
<1>10. PoolTypeOK'
  BY <1>1, <1>4, <1>5 DEF PoolTypeOK, Entries, Labels
<1>11. InLists'
  BY <1>2, <1>4, <1>6, <1>8, <1>9 DEF InLists
<1> QED BY <1>9, <1>10, <1>11 DEF PInv

LEMMA KmallocKeeps ==
  ASSUME PInv, NEW t \in Threads, Kmalloc(t)
  PROVE  PInv'
<1>1. PoolTypeOK /\ OwnObjects
  BY DEF PInv
<1>2. PICK f, m, u, n, where :
        /\ Linked(f, m, freeHead, next)
        /\ Linked(u, n, usedHead, next) /\ LinkedBack(u, n, pre)
        /\ PlacedIn(where, f, m, u, n)
  BY DEF PInv, InLists
<1>3. PICK p \in fresh :
        /\ pc[t] = "kmalloc" /\ pc' = [pc EXCEPT ![t] = "link"]
        /\ ptr' = [ptr EXCEPT ![t] = p] /\ fresh' = fresh \ {p}
        /\ UNCHANGED <<freeHead, usedHead, next, pre, usedMutex, iter, held>>
  BY DEF Kmalloc, Goto
<1>4. p \in Objects /\ where \in [Objects -> Places] /\ where[p] = "fresh"
  BY <1>1, <1>2 DEF PlacedIn, PoolTypeOK
<1>5. /\ OwnObjects'
      /\ PlacedIn([where EXCEPT ![p] = "link"], f, m, u, n)'
  <2>1. PICK label \in Labels, k \in Places : label = "link" /\ k = "link"
    BY DEF Labels, Places
  <2>2. \A v \in Threads : v # t /\ pc[v] \in Busy => ptr[v] # p
    BY <1>2, <1>4, NobodyHas
  <2>3. TurnsTo(t, p, label, k)
    BY <1>3, <2>1, <2>2 DEF Busy, TurnsTo
  <2>4. ListsMove(p, k, f, m, u, n, f, m, u, n)
    BY <1>2, <1>3, <1>4, <2>1 DEF PlacedIn, ListsMove
  <2>5. /\ OwnObjects'
        /\ PlacedIn([where EXCEPT ![p] = k], f, m, u, n)'
    BY <1>1, <1>2, <1>4, <2>3, <2>4, ObjectMoves
  <2> QED BY <2>1, <2>5
<1>6. PoolTypeOK'
  BY <1>1, <1>3, <1>4 DEF PoolTypeOK, Entries, Labels
<1>7. InLists'
  BY <1>2, <1>3, <1>5 DEF InLists
<1> QED BY <1>5, <1>6, <1>7 DEF PInv

LEMMA LinkKeeps ==
  ASSUME PInv, NEW t \in Threads, Link(t)
  PROVE  PInv'
<1>1. PoolTypeOK /\ OwnObjects
  BY DEF PInv
<1>2. PICK f, m, u, n, where :
        /\ Linked(f, m, freeHead, next)
        /\ Linked(u, n, usedHead, next) /\ LinkedBack(u, n, pre)
        /\ PlacedIn(where, f, m, u, n)
  BY DEF PInv, InLists
<1>3. PICK p, head : p = ptr[t] /\ head = usedHead
  OBVIOUS
<1>4. /\ p # NULL /\ pc[t] = "link" /\ pc' = [pc EXCEPT ![t] = "idle"]
      /\ next' = [next EXCEPT ![p] = head]
      /\ pre' = [o \in Objects |-> IF o = head THEN p ELSE IF o = p THEN NULL ELSE pre[o]]
      /\ usedHead' = p /\ held' = held \cup {p}
      /\ UNCHANGED <<freeHead, usedMutex, ptr, iter, fresh>>
  BY <1>3 DEF Link, Goto
<1>5. p \in Objects /\ head \in Entries /\ next \in [Objects -> Entries] /\ pre \in [Objects -> Entries]
  BY <1>1, <1>3, <1>4 DEF PoolTypeOK, Entries
<1>6. where \in [Objects -> Places] /\ where[p] = "link"
  BY <1>2, <1>3, <1>4, <1>5 DEF PlacedIn, ThreadAt
<1>7. ~Member(u, n, p) /\ ~Member(f, m, p)
  BY <1>2, <1>5, <1>6 DEF PlacedIn
<1>8. PICK nx2, pr2 : nx2 = next' /\ pr2 = pre'
  OBVIOUS
<1>9. PICK u2 : /\ Linked(u2, n+1, p, nx2) /\ LinkedBack(u2, n+1, pr2)
                /\ \A o : Member(u2, n+1, o) <=> o = p \/ Member(u, n, o)
  <2>1. Redirects(p, head, next, nx2) /\ FirstBack(head, p, pre, pr2)
    BY <1>4, <1>5, <1>8 DEF FirstBack, Redirects
  <2>2. Linked(u, n, head, next)
    BY <1>2, <1>3
  <2>3. \E u2 :
           /\ Linked(u2, n+1, p, nx2)
           /\ WithFirst(u2, u, n, p)
           /\ \A pr, pr3 : LinkedBack(u, n, pr) /\ FirstBack(head, p, pr, pr3)
                => LinkedBack(u2, n+1, pr3)
    BY <1>5, <1>7, <2>1, <2>2, PutFirst
  <2> QED BY <1>2, <2>1, <2>3 DEF WithFirst
<1>10. Linked(f, m, freeHead, next')
  <2>1. \A o \in Objects : Member(f, m, o) => next'[o] = next[o]
    BY <1>4, <1>5, <1>7
  <2> QED BY <1>2, <2>1, LinksKept
<1>11. /\ OwnObjects'
       /\ PlacedIn([where EXCEPT ![p] = "held"], f, m, u2, n+1)'
  <2>1. PICK label \in Labels, k \in Places : label = "idle" /\ k = "held"
    BY DEF Labels, Places
  <2>2. \A v \in Threads : v # t /\ pc[v] \in Busy => ptr[v] # p
    BY <1>1, <1>3, <1>4 DEF OwnObjects, Busy
  <2>3. TurnsTo(t, p, label, k)
    BY <1>1, <1>3, <1>4, <2>1, <2>2 DEF TurnsTo, PoolTypeOK
  <2>4. ListsMove(p, k, f, m, u, n, f, m, u2, n+1)
    BY <1>2, <1>4, <1>5, <1>6, <1>7, <1>9, <2>1 DEF PlacedIn, ListsMove
  <2>5. /\ OwnObjects'
        /\ PlacedIn([where EXCEPT ![p] = k], f, m, u2, n+1)'
    BY <1>1, <1>2, <1>5, <2>3, <2>4, ObjectMoves
  <2> QED BY <2>1, <2>5
<1>12. PoolTypeOK'
  BY <1>1, <1>4, <1>5, PoolAssumption DEF PoolTypeOK, Entries, Labels
<1>13. InLists'
  BY <1>4, <1>8, <1>9, <1>10, <1>11 DEF InLists
<1> QED BY <1>11, <1>12, <1>13 DEF PInv

LEMMA FreeKeeps ==
  ASSUME PInv, NEW t \in Threads, Free(t)
  PROVE  PInv'
<1>1. PoolTypeOK /\ OwnObjects
  BY DEF PInv
<1>2. PICK f, m, u, n, where :
        /\ Linked(f, m, freeHead, next)
        /\ Linked(u, n, usedHead, next) /\ LinkedBack(u, n, pre)
        /\ PlacedIn(where, f, m, u, n)
  BY DEF PInv, InLists
<1>3. PICK p \in held :
        /\ pc[t] = "idle" /\ pc' = [pc EXCEPT ![t] = "free"]
        /\ ptr' = [ptr EXCEPT ![t] = p] /\ held' = held \ {p}
        /\ iter' = [iter EXCEPT ![t] = usedHead]
        /\ UNCHANGED <<freeHead, usedHead, next, pre, usedMutex, fresh>>
  BY DEF Free, Goto
<1>4. p \in Objects /\ where \in [Objects -> Places] /\ where[p] = "held"
  BY <1>1, <1>2, <1>3 DEF PlacedIn, PoolTypeOK
<1>5. /\ OwnObjects'
      /\ PlacedIn([where EXCEPT ![p] = "leaving"], f, m, u, n)'
  <2>1. PICK label \in Labels, k \in Places : label = "free" /\ k = "leaving"
    BY DEF Labels, Places
  <2>2. \A v \in Threads : v # t /\ pc[v] \in Busy => ptr[v] # p
    BY <1>2, <1>4, NobodyHas
  <2>3. TurnsTo(t, p, label, k)
    BY <1>3, <2>1, <2>2 DEF Busy, TurnsTo
  <2>4. ListsMove(p, k, f, m, u, n, f, m, u, n)
    BY <1>2, <1>3, <1>4, <2>1 DEF PlacedIn, ListsMove
  <2>5. /\ OwnObjects'
        /\ PlacedIn([where EXCEPT ![p] = k], f, m, u, n)'
    BY <1>1, <1>2, <1>4, <2>3, <2>4, ObjectMoves
  <2> QED BY <2>1, <2>5
<1>6. PoolTypeOK'
  BY <1>1, <1>3, <1>4 DEF PoolTypeOK, Entries, Labels
<1>7. InLists'
  BY <1>2, <1>3, <1>5 DEF InLists
<1> QED BY <1>5, <1>6, <1>7 DEF PInv

LEMMA LockUsedKeeps ==
  ASSUME PInv, NEW t \in Threads, LockUsed(t)
  PROVE  PInv'
<1>1. PoolTypeOK /\ OwnObjects
  BY DEF PInv
<1>2. PICK f, m, u, n, where :
        /\ Linked(f, m, freeHead, next)
        /\ Linked(u, n, usedHead, next) /\ LinkedBack(u, n, pre)
        /\ PlacedIn(where, f, m, u, n)
  BY DEF PInv, InLists
<1>3. PICK p : p = ptr[t]
  OBVIOUS
<1>4. /\ pc[t] = "free" /\ pc' = [pc EXCEPT ![t] = "search"]
      /\ UNCHANGED <<freeHead, usedHead, next, pre, ptr, iter, fresh, held>>
  BY DEF LockUsed, Goto
<1>5. p \in Objects
  BY <1>1, <1>3, <1>4 DEF OwnObjects, PoolTypeOK, Entries, Busy
<1>6. where \in [Objects -> Places] /\ where[p] = "leaving"
  BY <1>2, <1>3, <1>4, <1>5 DEF PlacedIn, ThreadAt
<1>7. /\ OwnObjects'
      /\ PlacedIn([where EXCEPT ![p] = "leaving"], f, m, u, n)'
  <2>1. PICK label \in Labels, k \in Places : label = "search" /\ k = "leaving"
    BY DEF Labels, Places
  <2>2. \A v \in Threads : v # t /\ pc[v] \in Busy => ptr[v] # p
    BY <1>1, <1>3, <1>4, <1>5, PoolAssumption DEF OwnObjects, Busy
  <2>3. TurnsTo(t, p, label, k)
    BY <1>1, <1>3, <1>4, <2>1, <2>2 DEF TurnsTo, PoolTypeOK
  <2>4. ListsMove(p, k, f, m, u, n, f, m, u, n)
    BY <1>2, <1>4, <1>5, <1>6, <2>1 DEF PlacedIn, ListsMove
  <2>5. /\ OwnObjects'
        /\ PlacedIn([where EXCEPT ![p] = k], f, m, u, n)'
    BY <1>1, <1>2, <1>5, <2>3, <2>4, ObjectMoves
  <2> QED BY <2>1, <2>5
<1>8. PoolTypeOK'
  BY <1>1, <1>4 DEF PoolTypeOK, Labels
<1>9. InLists'
  BY <1>2, <1>4, <1>7 DEF InLists
<1> QED BY <1>7, <1>8, <1>9 DEF PInv

LEMMA UnlinkKeeps ==
  ASSUME PInv, NEW t \in Threads, Unlink(t)
  PROVE  PInv'
<1>1. PoolTypeOK /\ OwnObjects
  BY DEF PInv
<1>2. PICK f, m, u, n, where :
        /\ Linked(f, m, freeHead, next)
        /\ Linked(u, n, usedHead, next) /\ LinkedBack(u, n, pre)
        /\ PlacedIn(where, f, m, u, n)
  BY DEF PInv, InLists
<1>3. PICK p, head, nx, pr, nx2, pr2 :
        /\ p = ptr[t] /\ head = usedHead /\ nx = next /\ pr = pre
        /\ nx2 = next' /\ pr2 = pre'
  OBVIOUS
<1>4. /\ pc[t] = "search" /\ pc' = [pc EXCEPT ![t] = "push"]
      /\ UNCHANGED <<freeHead, ptr, iter, fresh, held>>
  BY DEF Unlink, Goto
<1>5. \/ /\ p = head /\ usedHead' = nx[p] /\ nx2 = nx
         /\ pr2 = [o \in Objects |-> IF o \in {nx[p], p} THEN NULL ELSE pr[o]]
      \/ /\ p # head /\ usedHead' = head
         /\ nx2 = [nx EXCEPT ![pr[p]] = nx[p]]
         /\ pr2 = [o \in Objects |-> IF o = p THEN NULL
                                     ELSE IF o = nx[p] THEN pr[p] ELSE pr[o]]
  BY <1>3 DEF Unlink
<1>6. p \in Objects
  BY <1>1, <1>3, <1>4 DEF OwnObjects, PoolTypeOK, Entries, Busy
<1>7. where \in [Objects -> Places] /\ where[p] = "leaving"
  BY <1>2, <1>3, <1>4, <1>6 DEF PlacedIn, ThreadAt
<1>8. Member(u, n, p) /\ ~Member(f, m, p)
  BY <1>2, <1>6, <1>7 DEF PlacedIn
<1>9. /\ nx \in [Objects -> Entries] /\ pr \in [Objects -> Entries]
      /\ Linked(f, m, freeHead, nx) /\ Linked(u, n, head, nx) /\ LinkedBack(u, n, pr)
      /\ freeHead' = freeHead /\ p # NULL
  BY <1>1, <1>2, <1>3, <1>4, <1>6, PoolAssumption DEF PoolTypeOK
<1>10. PICK u2 :
         /\ Linked(u2, n-1, usedHead', nx2) /\ LinkedBack(u2, n-1, pr2) /\ Without(u2, u, n, p)
         /\ \A o \in Objects : Member(f, m, o) => nx2[o] = nx[o]
         /\ usedHead' \in Entries /\ nx2 \in [Objects -> Entries] /\ pr2 \in [Objects -> Entries]
  <2>1. CASE p = head
    <3>1. usedHead' = nx[p] /\ nx2 = nx /\ HeadGone(p, nx, pr, pr2)
      BY <1>5, <2>1 DEF HeadGone
    <3>2. \E u2 :
              /\ Linked(u2, n-1, nx[p], nx)
              /\ Without(u2, u, n, p)
              /\ \A q, q2 : LinkedBack(u, n, q) /\ HeadGone(p, nx, q, q2)
                   => LinkedBack(u2, n-1, q2)
      BY <1>9, <2>1, TakeFirst
    <3>3. pr2 \in [Objects -> Entries] /\ nx[p] \in Entries
      BY <1>6, <1>9, <3>1 DEF HeadGone, Entries
    <3> QED BY <1>9, <3>1, <3>2, <3>3
  <2>2. CASE p # head
    <3>1. /\ usedHead' = head /\ nx2 = [nx EXCEPT ![pr[p]] = nx[p]]
          /\ Redirects(pr[p], nx[p], nx, nx2) /\ InnerGone(p, nx, pr, pr2)
      BY <1>5, <1>9, <2>2 DEF Redirects, InnerGone
    <3>2. /\ p \in Objects /\ pr[p] \in Objects /\ Member(u, n, pr[p])
          /\ nx[p] \in Entries
          /\ \E u2 : /\ Linked(u2, n-1, head, nx2) /\ LinkedBack(u2, n-1, pr2)
                     /\ Without(u2, u, n, p)
      BY <1>8, <1>9, <2>2, <3>1, TakeInner
    <3>3. ~Member(f, m, pr[p])
      BY <1>2, <3>2 DEF PlacedIn
    <3>4. \A o \in Objects : Member(f, m, o) => nx2[o] = nx[o]
      BY <1>9, <3>1, <3>2, <3>3
    <3>5. nx2 \in [Objects -> Entries] /\ head \in Entries
      BY <1>1, <1>3, <1>9, <3>1, <3>2 DEF PoolTypeOK
    <3>6. pr2 \in [Objects -> Entries]
      BY <1>9, <3>1, <3>2 DEF InnerGone, Entries
    <3> QED BY <3>1, <3>2, <3>4, <3>5, <3>6
  <2> QED BY <2>1, <2>2
<1>11. Linked(f, m, freeHead', nx2)
  BY <1>9, <1>10, LinksKept
<1>12. /\ OwnObjects'
       /\ PlacedIn([where EXCEPT ![p] = "push"], f, m, u2, n-1)'
  <2>1. PICK label \in Labels, k \in Places : label = "push" /\ k = "push"
    BY DEF Labels, Places
  <2>2. \A v \in Threads : v # t /\ pc[v] \in Busy => ptr[v] # p
    BY <1>1, <1>3, <1>4, <1>9 DEF OwnObjects, Busy
  <2>3. TurnsTo(t, p, label, k)
    BY <1>1, <1>3, <1>4, <2>1, <2>2 DEF TurnsTo, PoolTypeOK
  <2>4. ListsMove(p, k, f, m, u, n, f, m, u2, n-1)
    BY <1>2, <1>4, <1>6, <1>7, <1>8, <1>10, <2>1 DEF PlacedIn, ListsMove, Without
  <2>5. /\ OwnObjects'
        /\ PlacedIn([where EXCEPT ![p] = k], f, m, u2, n-1)'
    BY <1>1, <1>2, <1>6, <2>3, <2>4, ObjectMoves
  <2> QED BY <2>1, <2>5
<1>13. PoolTypeOK'
  BY <1>1, <1>3, <1>4, <1>10 DEF PoolTypeOK, Labels
<1>14. InLists'
  BY <1>3, <1>10, <1>11, <1>12 DEF InLists
<1> QED BY <1>12, <1>13, <1>14 DEF PInv

LEMMA PushKeeps ==
  ASSUME PInv, NEW t \in Threads, Push(t)
  PROVE  PInv'
<1>1. PoolTypeOK /\ OwnObjects
  BY DEF PInv
<1>2. PICK f, m, u, n, where :
        /\ Linked(f, m, freeHead, next)
        /\ Linked(u, n, usedHead, next) /\ LinkedBack(u, n, pre)
        /\ PlacedIn(where, f, m, u, n)
  BY DEF PInv, InLists
<1>3. PICK p, head : p = ptr[t] /\ head = freeHead
  OBVIOUS
<1>4. /\ pc[t] = "push" /\ pc' = [pc EXCEPT ![t] = "idle"]
      /\ next' = [next EXCEPT ![p] = head]
      /\ pre' = [o \in Objects |-> IF o = head THEN p ELSE pre[o]]
      /\ freeHead' = p
      /\ UNCHANGED <<usedHead, usedMutex, ptr, iter, fresh, held>>
  BY <1>3 DEF Push, Goto
<1>5. p \in Objects /\ head \in Entries /\ next \in [Objects -> Entries] /\ pre \in [Objects -> Entries]
  BY <1>1, <1>3, <1>4 DEF PoolTypeOK, OwnObjects, Entries, Busy
<1>6. where \in [Objects -> Places] /\ where[p] = "push"
  BY <1>2, <1>3, <1>4, <1>5 DEF PlacedIn, ThreadAt
<1>7. ~Member(u, n, p) /\ ~Member(f, m, p)
  BY <1>2, <1>5, <1>6 DEF PlacedIn
<1>8. PICK nx2 : nx2 = next'
  OBVIOUS
<1>9. PICK f2 : Linked(f2, m+1, p, nx2) /\ WithFirst(f2, f, m, p)
  <2>1. Redirects(p, head, next, nx2)
    BY <1>4, <1>5, <1>8 DEF Redirects
  <2>2. Linked(f, m, head, next)
    BY <1>2, <1>3
  <2>3. \E f2 :
           /\ Linked(f2, m+1, p, nx2)
           /\ WithFirst(f2, f, m, p)
           /\ \A pr, pr2 : LinkedBack(f, m, pr) /\ FirstBack(head, p, pr, pr2)
                => LinkedBack(f2, m+1, pr2)
    BY <1>5, <1>7, <2>1, <2>2, PutFirst
  <2> QED BY <2>3
<1>10. Linked(u, n, usedHead', next') /\ LinkedBack(u, n, pre')
  <2>1. \A o \in Objects : Member(u, n, o) => next'[o] = next[o]
    BY <1>4, <1>5, <1>7
  <2>2. head \in Objects => Member(f, m, head)
    BY <1>2, <1>3, PoolAssumption DEF Linked, ItemAt, Member
  <2>3. \A o \in Objects : Member(u, n, o) => pre'[o] = pre[o]
    BY <1>2, <1>4, <2>2 DEF PlacedIn
  <2>4. u \in [1..n -> Objects]
    BY <1>2 DEF Linked
  <2>5. Linked(u, n, usedHead, next')
    BY <1>2, <2>1, LinksKept
  <2>6. LinkedBack(u, n, pre')
    BY <1>2, <2>3, <2>4, BackLinksKept
  <2> QED BY <1>4, <2>5, <2>6
<1>11. /\ OwnObjects'
       /\ PlacedIn([where EXCEPT ![p] = "free"], f2, m+1, u, n)'
  <2>1. PICK label \in Labels, k \in Places : label = "idle" /\ k = "free"
    BY DEF Labels, Places
  <2>2. \A v \in Threads : v # t /\ pc[v] \in Busy => ptr[v] # p
    BY <1>1, <1>3, <1>4, <1>5, PoolAssumption DEF OwnObjects, Busy
  <2>3. TurnsTo(t, p, label, k)
    BY <1>1, <1>3, <1>4, <2>1, <2>2 DEF TurnsTo, PoolTypeOK
  <2>4. ListsMove(p, k, f, m, u, n, f2, m+1, u, n)
    BY <1>2, <1>4, <1>5, <1>6, <1>7, <1>9, <2>1 DEF PlacedIn, ListsMove, WithFirst
  <2>5. /\ OwnObjects'
        /\ PlacedIn([where EXCEPT ![p] = k], f2, m+1, u, n)'
    BY <1>1, <1>2, <1>5, <2>3, <2>4, ObjectMoves
  <2> QED BY <2>1, <2>5
<1>12. PoolTypeOK'
  BY <1>1, <1>4, <1>5, PoolAssumption DEF PoolTypeOK, Entries, Labels
<1>13. InLists'
  BY <1>4, <1>8, <1>9, <1>10, <1>11 DEF InLists
<1> QED BY <1>11, <1>12, <1>13 DEF PInv

\* Steps in which no thread comes to an object or leaves one.
LEMMA EmptyHandsKeep ==
  ASSUME PInv, NEW t \in Threads, FindEmpty(t) \/ KmallocFails(t)
  PROVE  PInv'
<1>1. PoolTypeOK /\ OwnObjects
  BY DEF PInv
<1>2. PICK f, m, u, n, where :
        /\ Linked(f, m, freeHead, next)
        /\ Linked(u, n, usedHead, next) /\ LinkedBack(u, n, pre)
        /\ PlacedIn(where, f, m, u, n)
  BY DEF PInv, InLists
<1>3. UNCHANGED <<freeHead, usedHead, next, pre, iter, fresh, held>>
  BY DEF FindEmpty, KmallocFails
<1>4. PICK label \in Labels, e \in Entries :
        /\ pc' = [pc EXCEPT ![t] = label] /\ ptr' = [ptr EXCEPT ![t] = e]
        /\ pc[t] \notin Busy /\ (label \notin Busy \/ (label = "link" /\ e = NULL))
  <2>1. CASE FindEmpty(t)
    <3>1. /\ pc' = [pc EXCEPT ![t] = "kmalloc"] /\ ptr' = [ptr EXCEPT ![t] = ptr[t]]
          /\ pc[t] = "idle" /\ ptr[t] \in Entries
      BY <1>1, <2>1 DEF FindEmpty, Goto, PoolTypeOK
    <3> QED BY <3>1 DEF Labels, Busy
  <2>2. CASE KmallocFails(t)
    <3>1. /\ pc' = [pc EXCEPT ![t] = "link"] /\ ptr' = [ptr EXCEPT ![t] = NULL]
          /\ pc[t] = "kmalloc"
      BY <2>2 DEF KmallocFails, Goto
    <3> QED BY <3>1 DEF Labels, Busy, Entries
  <2> QED BY <2>1, <2>2
<1>5. OwnObjects' /\ PlacedIn(where, f, m, u, n)'
  <2>1. UNCHANGED <<fresh, held>>
    BY <1>3
  <2> QED BY <1>1, <1>2, <1>4, <2>1, NoObjectMoves
<1>6. PoolTypeOK'
  BY <1>1, <1>3, <1>4 DEF PoolTypeOK
<1>7. InLists'
  BY <1>2, <1>3, <1>5 DEF InLists
<1> QED BY <1>5, <1>6, <1>7 DEF PInv

LEMMA SearchKeeps ==
  ASSUME PInv, NEW t \in Threads, Search(t)
  PROVE  PInv'
<1>1. UNCHANGED <<freeHead, usedHead, next, pre, pc, ptr, fresh, held>>
  BY DEF Search
<1>2. iter' \in [Threads -> Entries]
  BY DEF Search, Searching, PInv, PoolTypeOK, Entries
<1>3. PoolTypeOK'
  BY <1>1, <1>2 DEF PInv, PoolTypeOK
<1>4. OwnObjects'
  BY <1>1 DEF PInv, OwnObjects
<1>5. InLists'
  BY <1>1 DEF PInv, InLists, PlacedIn, ThreadAt
<1> QED BY <1>3, <1>4, <1>5 DEF PInv

LEMMA PoolInvariance == Spec => []PInv
<1>1. ASSUME PInv, [Next]_poolVars PROVE PInv'
  <2>1. CASE UNCHANGED poolVars
    BY <1>1, <2>1 DEF poolVars, PInv, PoolTypeOK, OwnObjects, InLists, PlacedIn, ThreadAt
  <2>2. ASSUME NEW t \in Threads, Pop(t) \/ FindEmpty(t) \/ Free(t) \/ Step(t) PROVE PInv'
    BY <1>1, <2>2, PopKeeps, EmptyHandsKeep, FreeKeeps, KmallocKeeps, LinkKeeps,
       LockUsedKeeps, SearchKeeps, UnlinkKeeps, PushKeeps DEF Step
  <2> QED BY <1>1, <2>1, <2>2 DEF Next
<1> QED BY <1>1, PoolInit, PTL DEF Spec

-----------------------------------------------------------------------------
(* The properties.                                                         *)

\* Following next from a head goes through the list and comes to its end.
LEMMA ChainOfList ==
  ASSUME NEW s, NEW m, NEW head, Linked(s, m, head, next)
  PROVE  /\ Ends(head)
         /\ \A o : o \in Chain(head) <=> Member(s, m, o)
<1> DEFINE size == Cardinality(Objects)
           step(g, n) == IF n = 0 THEN head ELSE IF g[n-1] = NULL THEN NULL ELSE next[g[n-1]]
           Follows(g) == g = [n \in 0..size |-> step(g, n)]
           nth == CHOOSE g : Follows(g)
<1>1. /\ m \in Nat /\ s \in [1..m -> Objects] /\ head = ItemAt(s, m, 1)
      /\ \A i, j \in 1..m : s[i] = s[j] => i = j
      /\ \A i \in 1..m : next[s[i]] = ItemAt(s, m, i+1)
      /\ \A i \in 1..m : s[i] # NULL
  BY PoolAssumption DEF Linked
<1>2. size \in Nat /\ m <= size
  <2>1. IsFiniteSet(Objects)
    BY PoolAssumption
  <2>2. s \in Injection(1..m, Objects)
    BY <1>1 DEF Injection, IsInjective
  <2>3. Cardinality(1..m) <= size
    BY <2>1, <2>2, FS_Injection
  <2>4. Cardinality(1..m) = m
    BY <1>1, FS_Interval
  <2> QED BY <2>1, <2>3, <2>4, FS_CardinalityType
<1> HIDE DEF size
<1>3. ASSUME NEW n \in 0..size, n # 0
      PROVE  ItemAt(s, m, n+1) =
               IF ItemAt(s, m, n) = NULL THEN NULL ELSE next[ItemAt(s, m, n)]
  <2>1. CASE n \in 1..m
    BY <1>1, <2>1 DEF ItemAt
  <2>2. CASE n \notin 1..m
    <3>1. n+1 \notin 1..m
      BY <1>1, <1>2, <1>3, <2>2
    <3> QED BY <2>2, <3>1 DEF ItemAt
  <2> QED BY <2>1, <2>2
<1>4. \E g : Follows(g)
  <2> DEFINE g == [n \in 0..size |-> ItemAt(s, m, n+1)]
  <2>1. ASSUME NEW n \in 0..size PROVE g[n] = step(g, n)
    <3>1. CASE n = 0
      BY <1>1, <3>1
    <3>2. CASE n # 0
      <4>1. n-1 \in 0..size /\ (n-1)+1 = n
        BY <1>2, <3>2
      <4>2. g[n-1] = ItemAt(s, m, n)
        BY <4>1
      <4> QED BY <1>3, <3>2, <4>2
    <3> QED BY <3>1, <3>2
  <2>2. Follows(g)
    BY <2>1
  <2> QED BY <2>2
<1>5. Nth(head) = nth
  BY DEF Nth, size
<1>6. Follows(nth)
  BY <1>4
<1> HIDE DEF nth
<1>7. \A n \in 0..size : nth[n] = step(nth, n)
  BY <1>6
<1>8. \A n \in 0..size : nth[n] = ItemAt(s, m, n+1)
  <2> DEFINE V == {n \in 0..size : nth[n] # ItemAt(s, m, n+1)}
  <2>1. SUFFICES ASSUME V # {} PROVE FALSE
    OBVIOUS
  <2>0. V \subseteq Nat
    OBVIOUS
  <2> HIDE DEF V
  <2>2. PICK x \in V : \A y \in V : x <= y
    BY <2>0, <2>1, LeastNumber
  <2> USE DEF V
  <2>3. CASE x = 0
    BY <1>1, <1>7, <2>2, <2>3
  <2>4. CASE x # 0
    <3>1. x-1 \in 0..size /\ x-1 < x /\ (x-1)+1 = x /\ x \in 0..size
      BY <1>2, <2>2, <2>4
    <3>2. nth[x-1] = ItemAt(s, m, x)
      <4>1. x-1 \notin V
        BY <1>2, <2>2, <3>1
      <4> QED BY <3>1, <4>1
    <3>3. nth[x] = ItemAt(s, m, x+1)
      BY <1>3, <1>7, <2>4, <3>1, <3>2
    <3> QED BY <2>2, <3>3
  <2> QED BY <2>3, <2>4
<1>9. Ends(head)
  <2>1. size \in 0..size /\ size+1 \notin 1..m
    BY <1>1, <1>2
  <2> QED BY <1>5, <1>8, <2>1 DEF Ends, ItemAt, size
<1>10. ASSUME NEW o PROVE o \in Chain(head) <=> Member(s, m, o)
  <2>1. o \in Chain(head) <=> o # NULL /\ \E n \in 0..size : o = ItemAt(s, m, n+1)
    <3>1. o \in Chain(head) <=> o # NULL /\ \E n \in 0..size : o = nth[n]
      BY <1>5 DEF Chain, size
    <3> QED BY <1>8, <3>1
  <2>2. ASSUME NEW i \in 1..m, s[i] = o PROVE o \in Chain(head)
    <3>1. i-1 \in 0..size /\ (i-1)+1 = i
      BY <1>1, <1>2
    <3> QED BY <1>1, <2>1, <2>2, <3>1 DEF ItemAt
  <2> QED BY <2>1, <2>2 DEF Member, ItemAt
<1> QED BY <1>9, <1>10

\* What the threads at some labels are about.
LEMMA AtIs ==
  ASSUME NEW o \in Objects, NEW labels
  PROVE  o \in At(labels) <=> ThreadAt(o, labels)
  BY PoolAssumption DEF At, ThreadAt

LEMMA HoldersApart == PInv => OneHolder
<1> SUFFICES ASSUME PInv PROVE OneHolder
  OBVIOUS
<1>1. PoolTypeOK /\ OwnObjects
  BY DEF PInv
<1>2. PICK f, m, u, n, where :
        /\ Linked(f, m, freeHead, next)
        /\ Linked(u, n, usedHead, next) /\ LinkedBack(u, n, pre)
        /\ PlacedIn(where, f, m, u, n)
  BY DEF PInv, InLists
<1>3. /\ Ends(freeHead) /\ \A o : o \in Chain(freeHead) <=> Member(f, m, o)
      /\ Ends(usedHead) /\ \A o : o \in Chain(usedHead) <=> Member(u, n, o)
  BY <1>2, ChainOfList
<1>4. /\ where \in [Objects -> Places]
      /\ \A o \in Objects :
           /\ o \in fresh <=> where[o] = "fresh"
           /\ o \in Chain(freeHead) <=> where[o] = "free"
           /\ o \in held <=> where[o] = "held"
           /\ o \in Chain(usedHead) <=> where[o] \in {"held", "leaving"}
           /\ o \in At({"free", "search"}) <=> where[o] = "leaving"
           /\ o \in At({"link"}) <=> where[o] = "link"
           /\ o \in At({"push"}) <=> where[o] = "push"
  BY <1>2, <1>3, AtIs DEF PlacedIn
<1>5. /\ \A labels : At(labels) \subseteq Objects
      /\ Chain(usedHead) \subseteq Objects /\ held \subseteq Objects
  <2>1. \A labels : At(labels) \subseteq Objects
    BY <1>1 DEF At, PoolTypeOK, Entries
  <2>2. \A o : Member(u, n, o) => o \in Objects
    BY <1>2 DEF Linked, Member
  <2> QED BY <1>1, <1>3, <2>1, <2>2 DEF PoolTypeOK
<1>6. /\ Chain(usedHead) = held \cup At({"free", "search"})
      /\ held \cap At({"free", "search"}) = {}
  BY <1>4, <1>5
<1>7. ASSUME NEW o \in Objects
      PROVE  LET places == <<Chain(freeHead), Chain(usedHead), At({"link"}), At({"push"}), fresh>>
             IN Cardinality({i \in DOMAIN places : o \in places[i]}) = 1
  <2> DEFINE places == <<Chain(freeHead), Chain(usedHead), At({"link"}), At({"push"}), fresh>>
             found == {i \in DOMAIN places : o \in places[i]}
  <2>1. \E i : found = {i}
    <3>1. \A i : i \in found <=> \/ i = 1 /\ o \in Chain(freeHead)
                                 \/ i = 2 /\ o \in Chain(usedHead)
                                 \/ i = 3 /\ o \in At({"link"})
                                 \/ i = 4 /\ o \in At({"push"})
                                 \/ i = 5 /\ o \in fresh
      OBVIOUS
    <3>2. \A i : i \in found <=> \/ i = 1 /\ where[o] = "free"
                                 \/ i = 2 /\ where[o] \in {"held", "leaving"}
                                 \/ i = 3 /\ where[o] = "link"
                                 \/ i = 4 /\ where[o] = "push"
                                 \/ i = 5 /\ where[o] = "fresh"
      <4> HIDE DEF found, places
      <4> QED BY <1>4, <3>1
    <3> HIDE DEF found, places
    <3>3. where[o] \in Places
      BY <1>4
    <3>4. PICK i \in 1..5 :
            \/ i = 1 /\ where[o] = "free"
            \/ i = 2 /\ where[o] \in {"held", "leaving"}
            \/ i = 3 /\ where[o] = "link"
            \/ i = 4 /\ where[o] = "push"
            \/ i = 5 /\ where[o] = "fresh"
      BY <3>3 DEF Places
    <3>5. found = {i}
      BY <3>2, <3>4
    <3> QED BY <3>5
  <2> HIDE DEF found
  <2>2. Cardinality(found) = 1
    BY <2>1, FS_Singleton
  <2> QED BY <2>2 DEF found
<1>8. ASSUME NEW t \in Threads, NEW v \in Threads, t # v, ptr[t] = ptr[v], ptr[t] # NULL
      PROVE  pc[t] \in {"idle", "kmalloc"} \/ pc[v] \in {"idle", "kmalloc"}
  BY <1>1, <1>8 DEF OwnObjects, PoolTypeOK, Labels, Busy
<1> QED BY <1>3, <1>6, <1>7, <1>8 DEF OneHolder

(* OneHolder for any number of threads and objects: however allocations and  *)
(* releases interleave, an object is free, used, in one thread's hands, or   *)
(* not made yet; nobody is given what another holds, and nothing is lost.    *)
THEOREM ObjectsHaveOneHolder == Spec => []OneHolder
  BY PoolInvariance, HoldersApart, PTL

LEMMA BackIsInverse == PInv => LinksAreInverse
<1> SUFFICES ASSUME PInv, NEW o \in Chain(usedHead)
             PROVE  /\ o = usedHead <=> pre[o] = NULL
                    /\ next[o] # NULL => pre[next[o]] = o
  BY DEF LinksAreInverse
<1>1. PICK u, n : Linked(u, n, usedHead, next) /\ LinkedBack(u, n, pre)
  BY DEF PInv, InLists
<1>2. PICK i \in 1..n : u[i] = o
  BY <1>1, ChainOfList DEF Member
<1>3. /\ n \in Nat /\ u \in [1..n -> Objects] /\ usedHead = ItemAt(u, n, 1)
      /\ \A k, j \in 1..n : u[k] = u[j] => k = j
      /\ \A k \in 1..n : next[u[k]] = ItemAt(u, n, k+1)
      /\ \A k \in 1..n : pre[u[k]] = ItemAt(u, n, k-1)
      /\ \A k \in 1..n : u[k] # NULL
  BY <1>1, PoolAssumption DEF Linked, LinkedBack
<1>4. usedHead = u[1] /\ 1 \in 1..n
  BY <1>3 DEF ItemAt
<1>5. o = usedHead <=> pre[o] = NULL
  <2>1. CASE i = 1
    BY <1>2, <1>3, <1>4, <2>1 DEF ItemAt
  <2>2. CASE i # 1
    <3>1. i-1 \in 1..n
      BY <1>3, <2>2
    <3> QED BY <1>2, <1>3, <1>4, <2>2, <3>1 DEF ItemAt
  <2> QED BY <2>1, <2>2
<1>6. ASSUME next[o] # NULL PROVE pre[next[o]] = o
  <2>1. i+1 \in 1..n /\ next[o] = u[i+1] /\ (i+1)-1 = i
    BY <1>2, <1>3, <1>6 DEF ItemAt
  <2> QED BY <1>2, <1>3, <2>1 DEF ItemAt
<1> QED BY <1>5, <1>6

(* LinksAreInverse for any number of threads and objects: free_USBSSD can    *)
(* unlink by pre and next, without having found the object.                  *)
THEOREM UsedLinksInverse == Spec => []LinksAreInverse
  BY PoolInvariance, BackIsInverse, PTL

\* The search begins at an object and stays among objects.
SearchAtObject == \A t \in Threads : pc[t] \in {"free", "search"} => iter[t] # NULL

(* free_USBSSD returns at once if its search has come to NULL (allocator.c:  *)
(* 48).  It never does: what is given back is in the used list, so the head  *)
(* that is read before the mutex is taken is an object, stale or not.  The   *)
(* guard iter[t] # NULL of Unlink cuts off nothing.                          *)
THEOREM SearchNeverEmpty == Spec => []SearchAtObject
<1>1. Init => SearchAtObject
  BY DEF Init, SearchAtObject
<1>2. ASSUME PInv, SearchAtObject, [Next]_poolVars PROVE SearchAtObject'
  <2>1. CASE UNCHANGED poolVars
    BY <1>2, <2>1 DEF poolVars, SearchAtObject
  <2>2. PoolTypeOK
    BY <1>2 DEF PInv
  <2>3. ASSUME NEW t \in Threads, Free(t) PROVE SearchAtObject'
    <3>1. PICK p \in held : iter' = [iter EXCEPT ![t] = usedHead]
      BY <2>3 DEF Free
    <3>2. PICK f, m, u, n, where :
            Linked(u, n, usedHead, next) /\ PlacedIn(where, f, m, u, n)
      BY <1>2 DEF PInv, InLists
    <3>3. p \in Objects
      BY <2>2 DEF PoolTypeOK
    <3>4. Member(u, n, p)
      BY <3>2, <3>3 DEF PlacedIn
    <3>5. usedHead # NULL
      BY <3>2, <3>4, PoolAssumption DEF Linked, Member, ItemAt
    <3>6. pc' = [pc EXCEPT ![t] = "free"]
      BY <2>3 DEF Free, Goto
    <3> QED BY <1>2, <2>2, <3>1, <3>5, <3>6 DEF SearchAtObject, PoolTypeOK
  <2>4. ASSUME NEW t \in Threads, Search(t) PROVE SearchAtObject'
    BY <1>2, <2>2, <2>4 DEF Search, Searching, SearchAtObject, PoolTypeOK
  <2>5. ASSUME NEW t \in Threads, LockUsed(t) PROVE SearchAtObject'
    BY <1>2, <2>2, <2>5 DEF LockUsed, Goto, SearchAtObject, PoolTypeOK
  <2>6. ASSUME NEW t \in Threads, NEW label, label \notin {"free", "search"},
               pc' = [pc EXCEPT ![t] = label], UNCHANGED iter
        PROVE  SearchAtObject'
    BY <1>2, <2>2, <2>6 DEF SearchAtObject, PoolTypeOK
  <2>7. ASSUME NEW t \in Threads,
               Pop(t) \/ FindEmpty(t) \/ Kmalloc(t) \/ KmallocFails(t)
                 \/ Link(t) \/ Unlink(t) \/ Push(t)
        PROVE  SearchAtObject'
    <3>1. \/ pc' = [pc EXCEPT ![t] = "link"]
          \/ pc' = [pc EXCEPT ![t] = "kmalloc"]
          \/ pc' = [pc EXCEPT ![t] = "idle"]
          \/ pc' = [pc EXCEPT ![t] = "push"]
      BY <2>7 DEF Pop, FindEmpty, Kmalloc, KmallocFails, Link, Unlink, Push, Goto
    <3>2. UNCHANGED iter
      BY <2>7 DEF Pop, FindEmpty, Kmalloc, KmallocFails, Link, Unlink, Push
    <3> QED BY <2>6, <3>1, <3>2
  <2> QED BY <1>2, <2>1, <2>3, <2>4, <2>5, <2>7 DEF Next, Step
<1> QED BY <1>1, <1>2, PoolInvariance, PTL DEF Spec

=============================================================================
