----------------------------- MODULE ListProofs -----------------------------
(***************************************************************************)
(* Sequences that hold nothing twice, as the lists of sub-requests are:    *)
(* what is in one after its head or a member has been taken, or others     *)
(* have been put behind it, and what add_subReqs_to_chip picks.            *)
(***************************************************************************)
EXTENDS Lists, SequencesExt, SequenceTheorems, WellFoundedInduction, TLAPS

\* A set of natural numbers has a least element.
LEMMA LeastNumber ==
  ASSUME NEW T, T \subseteq Nat, T # {}
  PROVE  \E x \in T : \A y \in T : x <= y
<1> DEFINE R == {ss \in Nat \X Nat : ss[1] < ss[2]}
<1>1. IsWellFoundedOn(R, Nat)
  BY NatLessThanWellFounded DEF OpToRel
<1> HIDE DEF R
<1>2. PICK x \in T : \A y \in T : ~ (<<y, x>> \in R)
  BY <1>1, WFMin
<1>3. ASSUME NEW y \in T PROVE x <= y
  <2>1. x \in Nat /\ y \in Nat /\ <<y, x>> \in Nat \X Nat
    OBVIOUS
  <2>2. ~(y < x)
    BY <1>2, <2>1 DEF R
  <2> QED BY <2>1, <2>2
<1> QED BY <1>3

LEMMA ContainsOne ==
  /\ \A e : ~Contains(<<>>, e)
  /\ \A id, e : Contains(<<id>>, e) <=> e = id
  /\ \A id : Head(<<id>>) = id /\ Tail(<<id>>) = <<>> /\ <<id>> # <<>>
  /\ \A id : Append(<<>>, id) = <<id>>
  BY DEF Contains

LEMMA TailContains ==
  ASSUME NEW S, NEW s \in Seq(S), s # <<>>, IsInjective(s)
  PROVE  /\ Tail(s) \in Seq(S) /\ IsInjective(Tail(s))
         /\ Head(s) \in S /\ Contains(s, Head(s))
         /\ \A e : Contains(Tail(s), e) <=> Contains(s, e) /\ e # Head(s)
<1>1. Tail(s) \in Seq(S) /\ Len(Tail(s)) = Len(s) - 1 /\ Len(s) >= 1 /\ Len(s) \in Nat
  OBVIOUS
<1>2. \A i \in 1..Len(s)-1 : Tail(s)[i] = s[i+1]
  OBVIOUS
<1>3. Head(s) = s[1] /\ Head(s) \in S
  OBVIOUS
<1>4. DOMAIN s = 1..Len(s) /\ DOMAIN Tail(s) = 1..Len(s)-1
  BY <1>1
<1>5. \A i, j \in 1..Len(s) : s[i] = s[j] => i = j
  BY <1>4 DEF IsInjective
<1>6. IsInjective(Tail(s))
  BY <1>1, <1>2, <1>4, <1>5 DEF IsInjective
<1>7. Contains(s, Head(s))
  BY <1>1, <1>3 DEF Contains
<1>8. ASSUME NEW e, Contains(Tail(s), e) PROVE Contains(s, e) /\ e # Head(s)
  <2>1. PICK i \in 1..Len(s)-1 : Tail(s)[i] = e
    BY <1>1, <1>8 DEF Contains
  <2>2. i+1 \in 1..Len(s) /\ s[i+1] = e /\ i+1 # 1
    BY <1>1, <1>2, <2>1
  <2>3. 1 \in 1..Len(s)
    BY <1>1
  <2> QED BY <1>3, <1>5, <2>2, <2>3 DEF Contains
<1>9. ASSUME NEW e, Contains(s, e), e # Head(s) PROVE Contains(Tail(s), e)
  <2>1. PICK i \in 1..Len(s) : s[i] = e
    BY <1>9 DEF Contains
  <2>2. i # 1
    BY <1>3, <1>9, <2>1
  <2>3. i-1 \in 1..Len(s)-1 /\ (i-1)+1 = i
    BY <1>1, <2>2
  <2>4. Tail(s)[i-1] = e
    BY <1>2, <2>1, <2>3
  <2> QED BY <1>1, <2>3, <2>4 DEF Contains
<1> QED BY <1>1, <1>3, <1>6, <1>7, <1>8, <1>9

LEMMA ConcatContains ==
  ASSUME NEW S, NEW s \in Seq(S), NEW t \in Seq(S), IsInjective(s), IsInjective(t),
         \A e : ~(Contains(s, e) /\ Contains(t, e))
  PROVE  /\ s \o t \in Seq(S) /\ IsInjective(s \o t)
         /\ \A e : Contains(s \o t, e) <=> Contains(s, e) \/ Contains(t, e)
<1> DEFINE u == s \o t
<1>1. /\ u \in Seq(S) /\ Len(u) = Len(s) + Len(t)
      /\ \A i \in 1..Len(s) + Len(t) : u[i] = IF i <= Len(s) THEN s[i] ELSE t[i - Len(s)]
  BY ConcatProperties
<1>2. Len(s) \in Nat /\ Len(t) \in Nat
  OBVIOUS
<1>3. DOMAIN s = 1..Len(s) /\ DOMAIN t = 1..Len(t) /\ DOMAIN u = 1..Len(s) + Len(t)
  BY <1>1
<1> HIDE DEF u
<1>4. ASSUME NEW i \in 1..Len(s) + Len(t)
      PROVE  \/ i \in 1..Len(s) /\ u[i] = s[i] /\ Contains(s, u[i])
             \/ i - Len(s) \in 1..Len(t) /\ u[i] = t[i - Len(s)] /\ Contains(t, u[i])
  BY <1>1, <1>2 DEF Contains
<1>5. ASSUME NEW i \in 1..Len(s) + Len(t), NEW j \in 1..Len(s) + Len(t), u[i] = u[j]
      PROVE  i = j
  <2>1. CASE i \in 1..Len(s) /\ j \in 1..Len(s) /\ u[i] = s[i] /\ u[j] = s[j]
    BY <1>3, <1>5, <2>1 DEF IsInjective
  <2>2. CASE /\ i - Len(s) \in 1..Len(t) /\ j - Len(s) \in 1..Len(t)
             /\ u[i] = t[i - Len(s)] /\ u[j] = t[j - Len(s)]
    <3>1. i - Len(s) = j - Len(s)
      BY <1>3, <1>5, <2>2 DEF IsInjective
    <3> QED BY <1>2, <3>1
  <2> QED BY <1>4, <1>5, <2>1, <2>2
<1>6. IsInjective(u)
  BY <1>3, <1>5 DEF IsInjective
<1>7. ASSUME NEW e, Contains(u, e) PROVE Contains(s, e) \/ Contains(t, e)
  <2>1. PICK i \in 1..Len(s) + Len(t) : u[i] = e
    BY <1>1, <1>7 DEF Contains
  <2> QED BY <1>4, <2>1
<1>8. ASSUME NEW e, Contains(s, e) PROVE Contains(u, e)
  <2>1. PICK i \in 1..Len(s) : s[i] = e
    BY <1>8 DEF Contains
  <2>2. i \in 1..Len(s) + Len(t) /\ u[i] = e
    BY <1>1, <1>2, <2>1
  <2> QED BY <1>1, <2>2 DEF Contains
<1>9. ASSUME NEW e, Contains(t, e) PROVE Contains(u, e)
  <2>1. PICK i \in 1..Len(t) : t[i] = e
    BY <1>9 DEF Contains
  <2>2. /\ i + Len(s) \in 1..Len(s) + Len(t) /\ ~(i + Len(s) <= Len(s))
        /\ (i + Len(s)) - Len(s) = i
    BY <1>2, <2>1
  <2>3. u[i + Len(s)] = e
    BY <1>1, <2>1, <2>2
  <2> QED BY <1>1, <2>2, <2>3 DEF Contains
<1> QED BY <1>1, <1>6, <1>7, <1>8, <1>9 DEF u

LEMMA RemoveAtContains ==
  ASSUME NEW S, NEW s \in Seq(S), NEW n \in 1..Len(s), IsInjective(s)
  PROVE  /\ RemoveAt(s, n) \in Seq(S) /\ IsInjective(RemoveAt(s, n))
         /\ s[n] \in S /\ Contains(s, s[n])
         /\ \A e : Contains(RemoveAt(s, n), e) <=> Contains(s, e) /\ e # s[n]
<1> DEFINE a == SubSeq(s, 1, n-1)  b == SubSeq(s, n+1, Len(s))
<1>1. Len(s) \in Nat /\ n \in Nat /\ DOMAIN s = 1..Len(s)
  OBVIOUS
<1>2. /\ a \in Seq(S) /\ Len(a) = n-1
      /\ \A i \in 1..n-1 : a[i] = s[i]
  <2>1. \A i \in 1..n-1 : s[i] \in S
    BY <1>1
  <2>2. 1 \in Int /\ n-1 \in Int
    BY <1>1
  <2>3. /\ a \in Seq(S)
        /\ Len(a) = IF 1 <= n-1 THEN (n-1)-1+1 ELSE 0
        /\ \A i \in 1..(n-1)-1+1 : a[i] = s[1+i-1]
    BY <2>1, <2>2, SubSeqProperties
  <2> QED BY <1>1, <2>3
<1>3. /\ b \in Seq(S) /\ Len(b) = Len(s) - n
      /\ \A i \in 1..Len(s)-n : b[i] = s[n+i]
  <2>1. \A i \in n+1..Len(s) : s[i] \in S
    BY <1>1
  <2>2. n+1 \in Int /\ Len(s) \in Int
    BY <1>1
  <2>3. /\ b \in Seq(S)
        /\ Len(b) = IF n+1 <= Len(s) THEN Len(s)-(n+1)+1 ELSE 0
        /\ \A i \in 1..Len(s)-(n+1)+1 : b[i] = s[(n+1)+i-1]
    BY <2>1, <2>2, SubSeqProperties
  <2> HIDE DEF b
  <2>4. Len(s)-(n+1)+1 = Len(s)-n /\ \A i \in 1..Len(s)-n : (n+1)+i-1 = n+i
    BY <1>1
  <2>5. Len(b) = Len(s)-n
    <3>1. Len(b) = IF n+1 <= Len(s) THEN Len(s)-n ELSE 0
      BY <2>3, <2>4
    <3>2. \A l \in Nat : \A m \in 1..l : ~(m+1 <= l) => l-m = 0
      OBVIOUS
    <3>3. ~(n+1 <= Len(s)) => Len(s)-n = 0
      BY <1>1, <3>2
    <3> QED BY <3>1, <3>3
  <2>6. ASSUME NEW i \in 1..Len(s)-n PROVE b[i] = s[n+i]
    BY <2>3, <2>4
  <2> QED BY <2>3, <2>5, <2>6
<1>4. RemoveAt(s, n) = a \o b
  BY DEF RemoveAt
<1> HIDE DEF a, b
<1>5. \A i, j \in 1..Len(s) : s[i] = s[j] => i = j
  BY <1>1 DEF IsInjective
<1>6. IsInjective(a)
  BY <1>1, <1>2, <1>5 DEF IsInjective
<1>7. IsInjective(b)
  <2>1. SUFFICES ASSUME NEW i \in 1..Len(s)-n, NEW j \in 1..Len(s)-n, b[i] = b[j]
                 PROVE  i = j
    BY <1>3 DEF IsInjective
  <2>2. n+i \in 1..Len(s) /\ n+j \in 1..Len(s) /\ s[n+i] = s[n+j]
    BY <1>1, <1>3, <2>1
  <2> QED BY <1>1, <1>5, <2>2
<1>8. \A e : Contains(a, e) <=> \E i \in 1..Len(s) : i < n /\ s[i] = e
  BY <1>1, <1>2 DEF Contains
<1>9. \A e : Contains(b, e) <=> \E i \in 1..Len(s) : n < i /\ s[i] = e
  <2>1. ASSUME NEW e, Contains(b, e) PROVE \E i \in 1..Len(s) : n < i /\ s[i] = e
    <3>1. PICK i \in 1..Len(s)-n : b[i] = e
      BY <1>3, <2>1 DEF Contains
    <3>2. n+i \in 1..Len(s) /\ n < n+i /\ s[n+i] = e
      BY <1>1, <1>3, <3>1
    <3> QED BY <3>2
  <2>2. ASSUME NEW e, NEW i \in 1..Len(s), n < i, s[i] = e PROVE Contains(b, e)
    <3>1. i-n \in 1..Len(s)-n /\ n+(i-n) = i
      BY <1>1, <2>2
    <3>2. b[i-n] = e
      BY <1>3, <2>2, <3>1
    <3> QED BY <1>3, <3>1, <3>2 DEF Contains
  <2> QED BY <2>1, <2>2
<1>10. \A e : ~(Contains(a, e) /\ Contains(b, e))
  BY <1>1, <1>5, <1>8, <1>9
<1>11. /\ a \o b \in Seq(S) /\ IsInjective(a \o b)
       /\ \A e : Contains(a \o b, e) <=> Contains(a, e) \/ Contains(b, e)
  BY <1>2, <1>3, <1>6, <1>7, <1>10, ConcatContains
<1>12. s[n] \in S /\ Contains(s, s[n])
  BY <1>1 DEF Contains
<1>13. \A e : Contains(a, e) \/ Contains(b, e) <=> Contains(s, e) /\ e # s[n]
  <2>1. ASSUME NEW e, Contains(a, e) \/ Contains(b, e) PROVE Contains(s, e) /\ e # s[n]
    <3>1. PICK i \in 1..Len(s) : i # n /\ s[i] = e
      BY <1>1, <1>8, <1>9, <2>1
    <3> QED BY <1>5, <3>1 DEF Contains
  <2>2. ASSUME NEW e, Contains(s, e), e # s[n] PROVE Contains(a, e) \/ Contains(b, e)
    <3>1. PICK i \in 1..Len(s) : s[i] = e
      BY <2>2 DEF Contains
    <3>2. i # n
      BY <2>2, <3>1
    <3> QED BY <1>1, <1>8, <1>9, <3>1, <3>2
  <2> QED BY <2>1, <2>2
<1> QED BY <1>4, <1>11, <1>12, <1>13

\* The loop of add_subReqs_to_chip picks what it should, each once.
LEMMA PickedContains ==
  ASSUME NEW S, NEW items \in Seq(S), IsInjective(items), NEW T, NEW wanted \in SUBSET T
  PROVE  /\ Picked(items, wanted) \in Seq(T) /\ IsInjective(Picked(items, wanted))
         /\ \A e : Contains(Picked(items, wanted), e) <=> Contains(items, e) /\ e \in wanted
<1> DEFINE len == Len(items)
           step(f, n) == IF n = 0 THEN <<>>
                         ELSE IF items[n] \in wanted THEN Append(f[n-1], items[n])
                         ELSE f[n-1]
           Built(f, m) == f = [n \in 0..m |-> step(f, n)]
           V == {m \in 0..len : ~ \E f : Built(f, m)}
<1>1. V \subseteq Nat /\ len \in Nat
  OBVIOUS
<1> HIDE DEF len
<1>2. V = {}
  <2>1. SUFFICES ASSUME V # {} PROVE FALSE
    OBVIOUS
  <2>2. PICK x \in V : \A y \in V : x <= y
    BY <1>1, <2>1, LeastNumber
  <2>3. x \in 0..len /\ ~ \E f : Built(f, x)
    BY <2>2
  <2> HIDE DEF V
  <2>4. CASE x = 0
    <3> DEFINE g == [n \in 0..0 |-> <<>>]
    <3>1. g = [n \in 0..0 |-> step(g, n)]
      OBVIOUS
    <3> QED BY <2>3, <2>4, <3>1
  <2>5. CASE x # 0
    <3>1. x-1 \in 0..len /\ x-1 < x /\ x \in Nat
      BY <1>1, <2>3, <2>5
    <3>2. x-1 \notin V
      BY <2>2, <3>1
    <3>3. PICK f : Built(f, x-1)
      BY <3>1, <3>2 DEF V
    <3> DEFINE g == [n \in 0..x |-> IF n = x THEN step(f, x) ELSE f[n]]
    <3>4. \A n \in 0..x-1 : f[n] = step(f, n)
      BY <3>3
    <3>5. ASSUME NEW n \in 0..x PROVE g[n] = step(g, n)
      <4>1. CASE n = 0
        <5>1. 0 \in 0..x-1 /\ n # x
          BY <2>5, <3>1, <4>1
        <5>2. g[n] = f[n] /\ f[n] = step(f, n)
          BY <3>4, <4>1, <5>1
        <5> QED BY <4>1, <5>2
      <4>2. CASE n # 0
        <5>1. n-1 \in 0..x /\ n-1 # x
          BY <3>1, <4>2
        <5>2. g[n-1] = f[n-1]
          BY <5>1
        <5>3. step(g, n) = step(f, n)
          BY <5>2
        <5>4. CASE n = x
          BY <5>3, <5>4
        <5>5. CASE n # x
          <6>1. n \in 0..x-1
            BY <3>1, <5>5
          <6>2. g[n] = f[n]
            BY <5>5
          <6> QED BY <3>4, <5>3, <6>1, <6>2
        <5> QED BY <5>4, <5>5
      <4> QED BY <4>1, <4>2
    <3>6. Built(g, x)
      BY <3>5
    <3> QED BY <2>3, <3>6
  <2> QED BY <2>4, <2>5
<1>3. \E f : Built(f, len)
  <2> HIDE DEF V, Built
  <2>1. len \in 0..len /\ len \notin V
    BY <1>1, <1>2
  <2> QED BY <2>1 DEF V
<1> DEFINE upTo == CHOOSE f : Built(f, len)
<1>4. Picked(items, wanted) = upTo[len]
  BY DEF Picked, len
<1>5. Built(upTo, len)
  BY <1>3
<1> HIDE DEF upTo
<1>6. \A n \in 0..len : upTo[n] = step(upTo, n)
  BY <1>5
<1>7. /\ \A i \in 1..len : \A k \in 1..len : items[i] = items[k] => i = k
      /\ \A e : Contains(items, e) <=> \E k \in 1..len : items[k] = e
  BY DEF len, IsInjective, Contains
<1> DEFINE Listed(m) == /\ upTo[m] \in Seq(T) /\ IsInjective(upTo[m])
                        /\ \A e : Contains(upTo[m], e) <=>
                             \E k \in 1..m : items[k] = e /\ e \in wanted
           U == {m \in 0..len : ~ Listed(m)}
<1>8. Listed(0)
  <2>1. upTo[0] = <<>>
    <3>1. 0 \in 0..len
      BY <1>1
    <3>2. upTo[0] = step(upTo, 0)
      BY <1>6, <3>1
    <3> QED BY <3>2
  <2>2. IsInjective(<<>>) /\ <<>> \in Seq(T)
    BY DEF IsInjective
  <2> QED BY <2>1, <2>2, ContainsOne
<1>9. ASSUME NEW x \in 0..len, x # 0, Listed(x-1) PROVE Listed(x)
  <2> DEFINE s == upTo[x-1]  e1 == items[x]
  <2>1. upTo[x] = IF e1 \in wanted THEN Append(s, e1) ELSE s
    BY <1>6, <1>9
  <2>2. /\ \A k : k \in 1..x <=> k \in 1..x-1 \/ k = x
        /\ x \in 1..len /\ \A k \in 1..x-1 : k \in 1..len /\ k # x
    BY <1>1, <1>9
  <2>3. s \in Seq(T) /\ IsInjective(s)
    BY <1>9
  <2>4. \A e : Contains(s, e) <=> \E k \in 1..x-1 : items[k] = e /\ e \in wanted
    BY <1>9
  <2> HIDE DEF s
  <2>5. CASE e1 \notin wanted
    <3>1. upTo[x] = s
      BY <2>1, <2>5
    <3>2. \A e : Contains(s, e) <=> \E k \in 1..x : items[k] = e /\ e \in wanted
      BY <2>2, <2>4, <2>5
    <3> QED BY <2>3, <3>1, <3>2
  <2>6. CASE e1 \in wanted
    <3>1. e1 \in T
      BY <2>6
    <3>2. upTo[x] = s \o <<e1>>
      BY <2>1, <2>3, <2>6, <3>1, AppendIsConcat
    <3>3. ~Contains(s, e1)
      BY <1>7, <2>2, <2>4
    <3>4. <<e1>> \in Seq(T) /\ IsInjective(<<e1>>)
      BY <3>1 DEF IsInjective
    <3>5. /\ s \o <<e1>> \in Seq(T) /\ IsInjective(s \o <<e1>>)
          /\ \A e : Contains(s \o <<e1>>, e) <=> Contains(s, e) \/ Contains(<<e1>>, e)
      <4>1. \A e : ~(Contains(s, e) /\ Contains(<<e1>>, e))
        BY <3>3, ContainsOne
      <4> QED BY <2>3, <3>4, <4>1, ConcatContains
    <3>6. \A e : Contains(upTo[x], e) <=> Contains(s, e) \/ e = e1
      BY <3>2, <3>5, ContainsOne
    <3>7. \A e : Contains(s, e) \/ e = e1 <=>
            \E k \in 1..x : items[k] = e /\ e \in wanted
      BY <2>2, <2>4, <2>6
    <3> QED BY <3>2, <3>5, <3>6, <3>7
  <2> QED BY <2>5, <2>6
<1>10. U = {}
  <2>1. SUFFICES ASSUME U # {} PROVE FALSE
    OBVIOUS
  <2>2. U \subseteq Nat
    BY <1>1
  <2>3. PICK x \in U : \A y \in U : x <= y
    BY <2>1, <2>2, LeastNumber
  <2>4. x \in 0..len /\ ~Listed(x)
    BY <2>3
  <2> HIDE DEF Listed
  <2>5. x # 0
    BY <1>8, <2>4
  <2>6. x-1 \in 0..len /\ x-1 < x
    BY <1>1, <2>4, <2>5
  <2>7. x-1 \notin U
    BY <1>1, <2>3, <2>4, <2>6
  <2> QED BY <1>9, <2>4, <2>5, <2>6, <2>7
<1>11. Listed(len)
  <2> HIDE DEF Listed
  <2>1. len \in 0..len /\ len \notin U
    BY <1>1, <1>10
  <2> QED BY <2>1
<1>12. /\ upTo[len] \in Seq(T) /\ IsInjective(upTo[len])
       /\ \A e : Contains(upTo[len], e) <=>
            \E k \in 1..len : items[k] = e /\ e \in wanted
  BY <1>11
<1> HIDE DEF Listed, U
<1>13. \A e : Contains(upTo[len], e) <=> Contains(items, e) /\ e \in wanted
  BY <1>7, <1>12
<1> QED BY <1>4, <1>12, <1>13
=============================================================================
