--------------------------- MODULE HomeworkProofs ---------------------------
(***************************************************************************)
(* prefix_query finds the longest prefix, for addresses of every width and *)
(* tables of every size; a checksum adapted on the way is the one made     *)
(* anew, for headers of every length; disassemble accepts the legal        *)
(* packets, and assemble restores every packet it accepts.                 *)
(***************************************************************************)
EXTENDS Homework, SequenceTheorems, WellFoundedInduction, TLAPS

\* A set of natural numbers that is not empty has a least one; this carries the
\* inductions over data below: a counterexample would have a least one.
LEMMA Least ==
  ASSUME NEW T \in SUBSET Nat, T # {}
  PROVE  \E x \in T : \A y \in T : x <= y
<1>1. PICK x \in T : \A y \in T : <<y, x>> \notin OpToRel(<, Nat)
  BY WFMin, NatLessThanWellFounded, Zenon
<1>2. \A y \in T : ~(y < x)
  BY <1>1, Zenon DEF OpToRel
<1> QED
  BY <1>2

-----------------------------------------------------------------------------
(* Lookup *)

\* Masking gives an address, and masking it again changes nothing.
LEMMA MaskTwice ==
  ASSUME NEW a \in Address, NEW l \in Length
  PROVE  Mask(a, l) \in Address /\ Mask(Mask(a, l), l) = Mask(a, l)
<1>1. Mask(a, l) \in Address
  BY DEF Mask, Address
<1>2. \A b \in 1 .. Width : Mask(Mask(a, l), l)[b] = Mask(a, l)[b]
  BY DEF Mask
<1> QED
  BY <1>1, <1>2 DEF Mask

\* In a table where no prefix longer than l contains address a, the key that
\* masking a to l bits gives is the longest that contains it, if it is there.
LEMMA LongestFound ==
  ASSUME NEW a \in Address, NEW l \in Length,
         DOMAIN routerTable \subseteq RouterKey,
         \A n \in l + 1 .. Width : <<Mask(a, n), n>> \notin DOMAIN routerTable
  PROVE  /\ \A m \in Matches(a) : m[2] <= l
         /\ <<Mask(a, l), l>> \in DOMAIN routerTable => <<Mask(a, l), l>> \in Matches(a)
         /\ \A m \in Matches(a) : m[2] = l => m = <<Mask(a, l), l>>
<1>1. ASSUME NEW m \in Matches(a)
      PROVE  m \in DOMAIN routerTable /\ m[2] \in Length /\ m = <<Mask(a, m[2]), m[2]>>
  BY <1>1 DEF Matches, LegalPrefix, RouterKey
<1>2. \A m \in Matches(a) : m[2] <= l
  <2> SUFFICES ASSUME NEW m \in Matches(a), m[2] > l PROVE FALSE
    BY <1>1, LookupAssumption DEF Length
  <2>1. m[2] \in l + 1 .. Width
    BY <1>1, LookupAssumption DEF Length
  <2> QED
    BY <1>1, <2>1
<1>3. <<Mask(a, l), l>> \in DOMAIN routerTable => <<Mask(a, l), l>> \in Matches(a)
  BY MaskTwice DEF Matches, LegalPrefix
<1> QED
  BY <1>1, <1>2, <1>3

LEMMA LookupInvInit == Init => LookupInv
<1> SUFFICES ASSUME LookupInit PROVE LookupInv
  BY DEF Init, LookupIdle
<1>1. NoAddress \in Address
  BY DEF NoAddress, Address
<1> QED
  BY <1>1, LookupAssumption DEF LookupInit, LookupInv, TypeOK, NothingLonger, LongestPrefix, Length

\* Every step of the program keeps the invariant; update and the RIP handler only
\* run while prefix_query does not.
LEMMA LookupInvNext == LookupInv /\ [Next]_vars => LookupInv'
<1> SUFFICES ASSUME LookupInv, [LookupNext]_lookupVars PROVE LookupInv'
  BY DEF Next, vars
<1> USE DEF LookupInv
<1>1. ASSUME NEW k \in RouterKey, NEW v \in Value, Insert(k, v) \/ Rip(k, v)
      PROVE  LookupInv'
  BY <1>1 DEF Insert, Rip, Put, TypeOK, NothingLonger, LongestPrefix
<1>2. ASSUME NEW k \in RouterKey, Delete(k)
      PROVE  LookupInv'
  BY <1>2 DEF Delete, Removed, TypeOK, NothingLonger, LongestPrefix
<1>3. ASSUME NEW a \in Address, Query(a)
      PROVE  LookupInv'
  BY <1>3, LookupAssumption DEF Query, TypeOK, NothingLonger, LongestPrefix, Length
<1>4. CASE Loop
  <2> DEFINE k == <<Mask(addr, len), len>>
  <2>1. addr \in Address /\ len \in Length /\ DOMAIN routerTable \subseteq RouterKey
    BY DEF TypeOK
  <2>2. \A n \in len + 1 .. Width : <<Mask(addr, n), n>> \notin DOMAIN routerTable
    BY <1>4 DEF Loop, NothingLonger
  <2>3. /\ \A m \in Matches(addr) : m[2] <= len
        /\ k \in DOMAIN routerTable => k \in Matches(addr)
        /\ \A m \in Matches(addr) : m[2] = len => m = k
    BY <2>1, <2>2, LongestFound
  <2>4. Matches(addr)' = Matches(addr) /\ addr' = addr /\ routerTable' = routerTable
    BY <1>4 DEF Loop, Matches
  <2>5. CASE k \in DOMAIN routerTable
    <3>1. pc' = "done" /\ len' = len /\ answer' = {routerTable[k]}
      BY <1>4, <2>5 DEF Loop
    <3>2. k[2] = len
      OBVIOUS
    <3>3. LongestPrefix'
      BY <2>3, <2>4, <2>5, <3>1, <3>2 DEF LongestPrefix
    <3> QED
      BY <2>4, <2>5, <3>1, <3>3 DEF TypeOK, NothingLonger
  <2>6. CASE k \notin DOMAIN routerTable /\ len = 0
    <3>1. pc' = "done" /\ len' = len /\ answer' = {}
      BY <1>4, <2>6 DEF Loop
    <3>2. Matches(addr) = {}
      <4> SUFFICES ASSUME NEW m \in Matches(addr) PROVE FALSE
        OBVIOUS
      <4>1. m \in DOMAIN routerTable /\ m[2] \in 0 .. Width
        BY <2>1 DEF Matches, RouterKey, Length
      <4>2. m[2] = len
        BY <2>3, <2>6, <4>1, LookupAssumption
      <4> QED
        BY <2>3, <2>6, <4>1, <4>2
    <3> QED
      BY <2>4, <3>1, <3>2 DEF TypeOK, NothingLonger, LongestPrefix
  <2>7. CASE k \notin DOMAIN routerTable /\ len # 0
    <3>1. pc' = pc /\ pc = "loop" /\ len' = len - 1 /\ answer' = answer
      BY <1>4, <2>7 DEF Loop
    <3>2. len' \in Length
      BY <2>1, <2>7, <3>1, LookupAssumption DEF Length
    <3>3. NothingLonger'
      <4> SUFFICES ASSUME NEW l \in len .. Width
                   PROVE  <<Mask(addr, l), l>> \notin DOMAIN routerTable
        BY <2>1, <2>4, <3>1, LookupAssumption DEF NothingLonger, Length, Mask
      <4> QED
        BY <2>1, <2>2, <2>7, LookupAssumption DEF Length
    <3> QED
      BY <2>4, <3>1, <3>2, <3>3 DEF TypeOK, LongestPrefix
  <2> QED
    BY <2>5, <2>6, <2>7
<1>5. CASE Return
  <2>1. NoAddress \in Address /\ Width \in Length
    BY LookupAssumption DEF NoAddress, Address, Length
  <2> QED
    BY <1>5, <2>1 DEF Return, TypeOK, NothingLonger, LongestPrefix
<1>6. CASE UNCHANGED lookupVars
  BY <1>6 DEF lookupVars, TypeOK, NothingLonger, LongestPrefix, Matches
<1> QED
  BY <1>1, <1>2, <1>3, <1>4, <1>5, <1>6 DEF LookupNext

\* Every variable of lookup.cpp keeps its type; the length never runs below 0.
THEOREM LookupTypes == Spec => []TypeOK
<1>1. LookupInv => TypeOK
  BY DEF LookupInv
<1> QED
  BY LookupInvInit, LookupInvNext, <1>1, PTL DEF Spec

\* prefix_query returns the entry of the longest legal prefix that contains the
\* address, and nothing only when there is none, whatever was stored before.
THEOREM LongestPrefixFound == Spec => []LongestPrefix
<1>1. LookupInv => LongestPrefix
  BY DEF LookupInv
<1> QED
  BY LookupInvInit, LookupInvNext, <1>1, PTL DEF Spec

-----------------------------------------------------------------------------
(* Sums that fold back *)

\* r is what is left of n when every overflow of m has been added at the low end.
IsFold(n, m, r) ==
  r \in 0 .. m - 1 /\ (r = 0 <=> n = 0) /\ \E q \in Nat : n = q * (m - 1) + r

LEMMA Products ==
  ASSUME NEW d \in Nat, NEW q \in Nat, NEW p \in Nat, q > p
  PROVE  q * d >= p * d + d
<1>1. PICK c \in Nat : q = p + 1 + c
  <2> WITNESS q - p - 1 \in Nat
  <2> QED
    OBVIOUS
<1>2. q * d = p * d + d + c * d
  BY <1>1
<1>3. c * d \in Nat /\ p * d \in Nat /\ q * d \in Nat
  OBVIOUS
<1> QED
  BY <1>2, <1>3

LEMMA FoldUnique ==
  ASSUME NEW m \in Nat, m >= 2, NEW n \in Nat, NEW r, NEW s, IsFold(n, m, r), IsFold(n, m, s)
  PROVE  r = s
<1> DEFINE d == m - 1
<1>1. PICK q \in Nat : n = q * d + r
  BY DEF IsFold
<1>2. PICK p \in Nat : n = p * d + s
  BY DEF IsFold
<1>3. r \in 0 .. d /\ s \in 0 .. d /\ (r = 0 <=> s = 0) /\ d \in Nat
  BY DEF IsFold
<1> HIDE DEF d
<1>4. CASE q > p
  <2>1. q * d >= p * d + d /\ q * d \in Nat /\ p * d \in Nat
    BY <1>3, <1>4, Products
  <2> QED
    BY <1>1, <1>2, <1>3, <2>1
<1>5. CASE q < p
  <2>1. p * d >= q * d + d /\ q * d \in Nat /\ p * d \in Nat
    BY <1>3, <1>5, Products
  <2> QED
    BY <1>1, <1>2, <1>3, <2>1
<1>6. CASE q = p
  <2>1. q * d \in Nat
    BY <1>3
  <2> QED
    BY <1>1, <1>2, <1>3, <1>6, <2>1
<1> QED
  BY <1>4, <1>5, <1>6

\* Division once more.
LEMMA Divided ==
  ASSUME NEW k \in Nat, NEW m \in Nat \ {0}
  PROVE  k \div m \in Nat /\ k % m \in 0 .. m - 1 /\ k = m * (k \div m) + (k % m)
OBVIOUS

LEMMA FoldExists ==
  ASSUME NEW m \in Nat, m >= 2, NEW n \in Nat
  PROVE  \E r \in Nat : IsFold(n, m, r)
<1>1. CASE n = 0
  <2>1. 0 = 0 * (m - 1) + 0
    OBVIOUS
  <2> QED
    BY <1>1, <2>1 DEF IsFold
<1>2. CASE n # 0
  <2> DEFINE d == m - 1
             q == (n - 1) \div d
             r == (n - 1) % d
  <2>0. n - 1 \in Nat /\ d \in Nat \ {0}
    BY <1>2
  <2> HIDE DEF d
  <2>1. q \in Nat /\ r \in 0 .. d - 1 /\ n - 1 = d * q + r
    BY <2>0, Divided
  <2> USE DEF d
  <2> HIDE DEF q, r
  <2>2. n = q * d + (r + 1)
    BY <2>0, <2>1
  <2>3. r + 1 \in 0 .. m - 1 /\ r + 1 # 0
    BY <2>1
  <2>4. IsFold(n, m, r + 1)
    BY <1>2, <2>1, <2>2, <2>3 DEF IsFold
  <2> QED
    BY <2>1, <2>4
<1> QED
  BY <1>1, <1>2

\* One round of folding: n = q * m + r goes to q + r.
LEMMA FoldStep ==
  ASSUME NEW m \in Nat, m >= 2, NEW k \in Nat, k >= m, NEW r, IsFold((k \div m) + (k % m), m, r)
  PROVE  /\ IsFold(k, m, r)
         /\ (k \div m) + (k % m) \in 0 .. k - 1
<1> DEFINE a == k \div m
           b == k % m
           d == m - 1
<1>0. a \in Nat /\ b \in 0 .. m - 1 /\ k = m * a + b
  <2>1. m \in Nat \ {0}
    OBVIOUS
  <2> QED
    BY <2>1, Divided
<1>1. a \in Nat /\ b \in 0 .. d /\ k = m * a + b /\ d \in Nat /\ m = d + 1
  <2> HIDE DEF a, b
  <2> QED
    BY <1>0
<1>2. PICK q \in Nat : a + b = q * d + r
  BY DEF IsFold
<1>3. r \in 0 .. d /\ (r = 0 <=> a + b = 0)
  BY DEF IsFold
<1> HIDE DEF a, b, d
<1>4. k = d * a + a + b
  BY <1>1
<1>5. k = d * a + q * d + r
  BY <1>1, <1>2, <1>3, <1>4
<1>6. k = (a + q) * d + r
  BY <1>1, <1>3, <1>5
<1>7. a # 0
  <2> SUFFICES ASSUME a = 0 PROVE FALSE
    OBVIOUS
  <2>1. k = b
    BY <1>1
  <2> QED
    BY <2>1, <1>1
<1>8. a + b < k
  <2>1. d * a \in Nat /\ d * a # 0
    BY <1>1, <1>7
  <2> QED
    BY <1>1, <1>4, <2>1
<1>9. a + q \in Nat /\ r \in 0 .. m - 1 /\ (r = 0 <=> k = 0)
  BY <1>1, <1>3, <1>7
<1>10. IsFold(k, m, r)
  BY <1>1, <1>6, <1>9 DEF IsFold, d
<1> QED
  BY <1>1, <1>8, <1>10 DEF a, b

\* What Folded computes.
LEMMA FoldedIs ==
  ASSUME NEW m \in Nat, m >= 2, NEW n \in Nat
  PROVE  IsFold(n, m, Folded(n, m))
<1> DEFINE Is(f) == f = [k \in Nat |-> IF k < m THEN k ELSE f[(k \div m) + (k % m)]]
           f == CHOOSE g : Is(g)
           g == [k \in Nat |-> CHOOSE r \in Nat : IsFold(k, m, r)]
<1>1. ASSUME NEW k \in Nat PROVE IsFold(k, m, g[k])
  BY FoldExists
<1>2. ASSUME NEW k \in Nat, k < m PROVE IsFold(k, m, k)
  <2>1. k = 0 * (m - 1) + k
    OBVIOUS
  <2> QED
    BY <1>2, <2>1 DEF IsFold
<1>3. ASSUME NEW k \in Nat
      PROVE  g[k] = IF k < m THEN k ELSE g[(k \div m) + (k % m)]
  <2>1. CASE k < m
    BY <1>1, <1>2, <2>1, FoldUnique
  <2>2. CASE k >= m
    <3> DEFINE l == (k \div m) + (k % m)
    <3>1. l \in Nat
      BY Divided
    <3>2. IsFold(k, m, g[l])
      BY <1>1, <2>2, <3>1, FoldStep
    <3> HIDE DEF g, l
    <3> QED
      BY <1>1, <2>2, <3>2, FoldUnique DEF l
  <2> QED
    BY <2>1, <2>2
<1>4. Is(g)
  <2>1. g = [k \in Nat |-> g[k]]
    OBVIOUS
  <2> HIDE DEF g
  <2> QED
    BY <2>1, <1>3
<1>5. Is(f)
  <2> HIDE DEF Is, g
  <2> QED
    BY <1>4
<1>6. \A k \in Nat : f[k] = IF k < m THEN k ELSE f[(k \div m) + (k % m)]
  <2> HIDE DEF f
  <2> QED
    BY <1>5
<1> HIDE DEF f, g, Is
<1>7. \A k \in Nat : IsFold(k, m, f[k])
  <2> DEFINE T == {k \in Nat : ~IsFold(k, m, f[k])}
  <2> SUFFICES ASSUME T # {} PROVE FALSE
    OBVIOUS
  <2>1. PICK k \in T : \A j \in T : k <= j
    BY Least
  <2>2. CASE k < m
    BY <1>2, <1>6, <2>2
  <2>3. CASE k >= m
    <3> DEFINE l == (k \div m) + (k % m)
    <3>1. l \in Nat /\ l < k
      <4>1. l \in Nat
        BY Divided
      <4>2. PICK r \in Nat : IsFold(l, m, r)
        BY <4>1, FoldExists
      <4> QED
        BY <2>3, <4>1, <4>2, FoldStep
    <3>2. IsFold(l, m, f[l])
      BY <2>1, <3>1
    <3>3. f[k] = f[l]
      BY <1>6, <2>3
    <3>4. IsFold(k, m, f[l])
      BY <2>3, <3>2, FoldStep
    <3> QED
      BY <3>3, <3>4
  <2> QED
    BY <2>2, <2>3
<1>8. Folded(n, m) = f[n]
  BY DEF Folded, f, Is
<1> QED
  BY <1>7, <1>8

\* Folding sees a number up to multiples of m - 1.
LEMMA FoldCongruent ==
  ASSUME NEW m \in Nat, m >= 2, NEW n \in Nat \ {0}, NEW q \in Nat
  PROVE  Folded(n + q * (m - 1), m) = Folded(n, m)
<1> DEFINE d == m - 1
           r == Folded(n, m)
<1>1. IsFold(n, m, r)
  BY FoldedIs
<1>2. PICK p \in Nat : n = p * d + r
  BY <1>1 DEF IsFold
<1>3. r \in 0 .. m - 1 /\ r # 0 /\ d \in Nat
  BY <1>1 DEF IsFold
<1> HIDE DEF d, r
<1>4. q * d \in Nat
  BY <1>3
<1>5. n + q * d = (p + q) * d + r
  <2>1. (p + q) * d = p * d + q * d /\ p * d \in Nat /\ q * d \in Nat
    BY <1>3
  <2> QED
    BY <1>2, <1>3, <2>1
<1>6. IsFold(n + q * d, m, r)
  <2>1. p + q \in Nat /\ r \in 0 .. m - 1 /\ (r = 0 <=> n + q * d = 0)
    BY <1>3, <1>4
  <2> QED
    BY <1>5, <2>1 DEF IsFold, d
<1>7. IsFold(n + q * d, m, Folded(n + q * d, m))
  BY <1>4, FoldedIs
<1> QED
  BY <1>4, <1>6, <1>7, FoldUnique DEF d, r

\* Folding in between changes nothing.
LEMMA FoldAbsorbs ==
  ASSUME NEW m \in Nat, m >= 2, NEW n \in Nat, NEW k \in Nat
  PROVE  Folded(n, m) \in Nat /\ Folded(Folded(n, m) + k, m) = Folded(n + k, m)
<1> DEFINE r == Folded(n, m)
           d == m - 1
<1>1. IsFold(n, m, r)
  BY FoldedIs
<1>2. PICK q \in Nat : n = q * d + r
  BY <1>1 DEF IsFold
<1>3. r \in Nat /\ (r = 0 <=> n = 0) /\ d \in Nat
  BY <1>1 DEF IsFold
<1> HIDE DEF d, r
<1>4. CASE r + k = 0
  <2>1. r = 0 /\ k = 0 /\ n = 0
    BY <1>3, <1>4
  <2> QED
    BY <1>3, <2>1 DEF r
<1>5. CASE r + k # 0
  <2>1. q * d \in Nat
    BY <1>3
  <2>2. n + k = (r + k) + q * d
    BY <1>2, <1>3, <2>1
  <2>3. r + k \in Nat \ {0}
    BY <1>3, <1>5
  <2>4. Folded((r + k) + q * (m - 1), m) = Folded(r + k, m)
    BY <2>3, FoldCongruent
  <2> QED
    BY <1>3, <2>2, <2>4 DEF d, r
<1> QED
  BY <1>4, <1>5

-----------------------------------------------------------------------------
(* Sums of the words and of the bytes *)

\* s[n] is the sum of the first n numbers of a.
Sums(s, a) == s = [n \in 0 .. NWords |-> IF n = 0 THEN 0 ELSE s[n - 1] + a[n]]

LEMMA SumsAt ==
  ASSUME NEW a, NEW s, Sums(s, a)
  PROVE  s[0] = 0 /\ \A n \in 1 .. NWords : s[n] = s[n - 1] + a[n]
<1> DEFINE rhs == [n \in 0 .. NWords |-> IF n = 0 THEN 0 ELSE s[n - 1] + a[n]]
<1>1. s = rhs
  BY DEF Sums
<1>2. 0 \in 0 .. NWords /\ \A n \in 1 .. NWords : n \in 0 .. NWords /\ n # 0
  BY ChecksumAssumption
<1>3. rhs[0] = 0 /\ \A n \in 1 .. NWords : rhs[n] = s[n - 1] + a[n]
  BY <1>2
<1> HIDE DEF rhs
<1> QED
  BY <1>1, <1>3

LEMMA SumsMade ==
  ASSUME NEW a, NEW s, s = [n \in 0 .. NWords |-> s[n]], s[0] = 0,
         \A n \in 1 .. NWords : s[n] = s[n - 1] + a[n]
  PROVE  Sums(s, a)
<1> DEFINE rhs == [n \in 0 .. NWords |-> IF n = 0 THEN 0 ELSE s[n - 1] + a[n]]
<1>1. ASSUME NEW n \in 0 .. NWords PROVE s[n] = rhs[n]
  <2>1. rhs[n] = IF n = 0 THEN 0 ELSE s[n - 1] + a[n]
    OBVIOUS
  <2>2. n = 0 \/ n \in 1 .. NWords
    BY ChecksumAssumption
  <2> HIDE DEF rhs
  <2> QED
    BY <2>1, <2>2
<1>2. [n \in 0 .. NWords |-> s[n]] = [n \in 0 .. NWords |-> rhs[n]]
  BY <1>1, Zenon
<1> QED
  BY <1>2 DEF Sums

\* There are sums, and only one.
LEMMA SumsUnique ==
  ASSUME NEW a, NEW s, NEW t, Sums(s, a), Sums(t, a)
  PROVE  s = t
<1>1. /\ s[0] = 0 /\ \A n \in 1 .. NWords : s[n] = s[n - 1] + a[n]
      /\ t[0] = 0 /\ \A n \in 1 .. NWords : t[n] = t[n - 1] + a[n]
  BY SumsAt
<1>2. \A n \in 0 .. NWords : s[n] = t[n]
  <2> DEFINE T == {n \in 0 .. NWords : s[n] # t[n]}
  <2> SUFFICES ASSUME T # {} PROVE FALSE
    OBVIOUS
  <2>1. PICK n \in T : \A k \in T : n <= k
    <3>1. T \in SUBSET Nat
      OBVIOUS
    <3> HIDE DEF T
    <3> QED
      BY <3>1, Least
  <2>2. CASE n = 0
    BY <1>1, <2>2
  <2>3. CASE n # 0
    <3>1. n - 1 \in 0 .. NWords /\ n \in 1 .. NWords /\ n - 1 < n
      BY <2>3, ChecksumAssumption
    <3>2. s[n - 1] = t[n - 1]
      BY <2>1, <3>1
    <3> QED
      BY <1>1, <3>1, <3>2
  <2> QED
    BY <2>2, <2>3
<1>3. s = [n \in 0 .. NWords |-> s[n]] /\ t = [n \in 0 .. NWords |-> t[n]]
  <2>1. \A u, v : u = [n \in 0 .. NWords |-> v[n]] => u = [n \in 0 .. NWords |-> u[n]]
    OBVIOUS
  <2>2. DOMAIN s = 0 .. NWords /\ DOMAIN t = 0 .. NWords
    BY DEF Sums
  <2> QED
    BY <2>2 DEF Sums
<1> QED
  BY <1>2, <1>3

LEMMA SumsExist ==
  ASSUME NEW a \in [1 .. NWords -> Nat]
  PROVE  \E s \in [0 .. NWords -> Nat] : Sums(s, a)
<1> DEFINE Upto(s, m) == s[0] = 0 /\ \A n \in 1 .. m : s[n] = s[n - 1] + a[n]
           T == {m \in 0 .. NWords : ~\E s \in [0 .. NWords -> Nat] : Upto(s, m)}
<1>1. T = {}
  <2> SUFFICES ASSUME T # {} PROVE FALSE
    OBVIOUS
  <2>1. PICK m \in T : \A k \in T : m <= k
    <3>1. T \in SUBSET Nat
      OBVIOUS
    <3> HIDE DEF T
    <3> QED
      BY <3>1, Least
  <2>2. CASE m = 0
    <3> DEFINE z == [n \in 0 .. NWords |-> 0]
    <3>1. z \in [0 .. NWords -> Nat] /\ z[0] = 0
      BY ChecksumAssumption
    <3>2. Upto(z, 0)
      BY <3>1
    <3> HIDE DEF z
    <3> QED
      BY <2>2, <3>1, <3>2
  <2>3. CASE m # 0
    <3>1. m - 1 \in 0 .. NWords /\ m - 1 < m /\ m \in 1 .. NWords
      BY <2>3, ChecksumAssumption
    <3>2. PICK s \in [0 .. NWords -> Nat] : Upto(s, m - 1)
      BY <2>1, <3>1
    <3> DEFINE u == [s EXCEPT ![m] = s[m - 1] + a[m]]
    <3>3. u \in [0 .. NWords -> Nat]
      BY <3>1
    <3>4. u[m] = s[m - 1] + a[m] /\ \A n \in 0 .. m - 1 : u[n] = s[n]
      BY <3>1
    <3> HIDE DEF u
    <3>5. Upto(u, m)
      BY <3>1, <3>2, <3>4
    <3> QED
      BY <3>3, <3>5
  <2> QED
    BY <2>2, <2>3
<1>2. NWords \notin T /\ NWords \in 0 .. NWords
  <2> HIDE DEF T
  <2> QED
    BY <1>1, ChecksumAssumption
<1>3. PICK s \in [0 .. NWords -> Nat] : Upto(s, NWords)
  BY <1>2
<1>4. Sums(s, a)
  BY <1>3, SumsMade
<1> QED
  BY <1>4

\* Words is the last sum, whatever way the sums are found.
LEMMA WordsIs ==
  ASSUME NEW a, NEW s, Sums(s, a)
  PROVE  Words(a) = s[NWords]
<1> DEFINE t == CHOOSE u : Sums(u, a)
<1>1. Sums(t, a)
  BY Zenon
<1>2. Words(a) = t[NWords]
  BY DEF Words, Sums
<1> HIDE DEF t
<1> QED
  BY <1>1, <1>2, SumsUnique

-----------------------------------------------------------------------------
(* Headers *)

LEMMA Sizes ==
  LET M == Base * Base
  IN  M \in Nat /\ M >= 2 /\ M >= Base + Base /\ M - 1 = (Base + 1) * (Base - 1)
<1>1. Base \in Nat /\ Base >= 2
  BY ChecksumAssumption
<1>2. Base * Base >= 1 * Base + Base
  BY <1>1, Products
<1>3. Base * Base \in Nat
  BY <1>1
<1>4. (Base + 1) * (Base - 1) = Base * Base - 1
  BY <1>1
<1> QED
  BY <1>1, <1>2, <1>3, <1>4

LEMMA WordBytes ==
  ASSUME NEW w \in Word
  PROVE  /\ High(w) \in Nat /\ Low(w) \in Nat
         /\ w = Base * High(w) + Low(w)
         /\ w = (High(w) + Low(w)) + (Base - 1) * High(w)
<1>1. w \in Nat /\ Base \in Nat \ {0}
  BY ChecksumAssumption, Sizes DEF Word
<1>2. High(w) \in Nat /\ Low(w) \in 0 .. Base - 1 /\ w = Base * High(w) + Low(w)
  BY <1>1, Divided DEF High, Low
<1>3. Base * High(w) = High(w) + (Base - 1) * High(w) /\ (Base - 1) * High(w) \in Nat
  BY <1>1, <1>2
<1> QED
  BY <1>1, <1>2, <1>3

LEMMA WordsType ==
  ASSUME NEW a \in [1 .. NWords -> Nat]
  PROVE  Words(a) \in Nat
<1>1. PICK s \in [0 .. NWords -> Nat] : Sums(s, a)
  BY SumsExist
<1> QED
  BY <1>1, WordsIs, ChecksumAssumption

\* Setting one word changes the sum by as much.
LEMMA WordsChanged ==
  ASSUME NEW a \in [1 .. NWords -> Nat], NEW w \in 1 .. NWords, NEW x \in Nat
  PROVE  Words([a EXCEPT ![w] = x]) = (Words(a) - a[w]) + x
<1> DEFINE b == [a EXCEPT ![w] = x]
<1>1. PICK s \in [0 .. NWords -> Nat] : Sums(s, a)
  BY SumsExist
<1> DEFINE t == [n \in 0 .. NWords |-> IF n >= w THEN (s[n] - a[w]) + x ELSE s[n]]
<1>2. s[0] = 0 /\ \A n \in 1 .. NWords : s[n] = s[n - 1] + a[n]
  BY <1>1, SumsAt
<1>3. t[0] = 0
  BY <1>2, ChecksumAssumption
<1>4. ASSUME NEW n \in 1 .. NWords PROVE t[n] = t[n - 1] + b[n]
  <2>1. n \in 0 .. NWords /\ n - 1 \in 0 .. NWords /\ w \in Nat
    BY ChecksumAssumption
  <2>2. /\ t[n] = IF n >= w THEN (s[n] - a[w]) + x ELSE s[n]
        /\ t[n - 1] = IF n - 1 >= w THEN (s[n - 1] - a[w]) + x ELSE s[n - 1]
    BY <2>1
  <2>3. b[n] = IF n = w THEN x ELSE a[n]
    OBVIOUS
  <2>4. s[n] = s[n - 1] + a[n] /\ s[n - 1] \in Nat /\ a[n] \in Nat /\ a[w] \in Nat
    BY <1>2, <2>1
  <2> HIDE DEF t, b
  <2> QED
    BY <2>1, <2>2, <2>3, <2>4
<1>5. t = [n \in 0 .. NWords |-> t[n]]
  OBVIOUS
<1>6. t[NWords] = (s[NWords] - a[w]) + x
  BY ChecksumAssumption
<1> HIDE DEF t, b
<1>7. Sums(t, b)
  BY <1>3, <1>4, <1>5, SumsMade
<1> QED
  BY <1>1, <1>6, <1>7, WordsIs DEF b

\* No word is more than the sum.
LEMMA WordsBound ==
  ASSUME NEW a \in [1 .. NWords -> Nat], NEW w \in 1 .. NWords
  PROVE  Words(a) >= a[w]
<1> DEFINE b == [a EXCEPT ![w] = 0]
<1>1. b \in [1 .. NWords -> Nat]
  OBVIOUS
<1>2. Words(b) \in Nat
  BY <1>1, WordsType
<1>3. Words(b) = (Words(a) - a[w]) + 0
  BY WordsChanged
<1>4. Words(a) \in Nat /\ a[w] \in Nat
  BY WordsType
<1> HIDE DEF b
<1> QED
  BY <1>2, <1>3, <1>4

\* The bytes of each word added up.
ByteSums(h) == [n \in 1 .. NWords |-> High(h[n]) + Low(h[n])]

\* validateIPChecksum folds the sum of all bytes.
LEMMA ValidateIs ==
  ASSUME NEW h \in Header
  PROVE  validateIPChecksum(h) <=> Folded(Words(ByteSums(h)), Base) = Base - 1
<1> DEFINE a == ByteSums(h)
           V(s) == s = [n \in 0 .. NWords |->
                     IF n = 0 THEN 0
                     ELSE Folded(Folded(s[n - 1] + High(h[n]), Base) + Low(h[n]), Base)]
           v == CHOOSE s : V(s)
<1>1. \A n \in 1 .. NWords : High(h[n]) \in Nat /\ Low(h[n]) \in Nat
  BY WordBytes DEF Header
<1>2. a \in [1 .. NWords -> Nat]
  BY <1>1 DEF ByteSums
<1>3. PICK b \in [0 .. NWords -> Nat] : Sums(b, a)
  BY <1>2, SumsExist
<1>4. b[0] = 0 /\ \A n \in 1 .. NWords : b[n] = b[n - 1] + (High(h[n]) + Low(h[n]))
  <2>1. b[0] = 0 /\ \A n \in 1 .. NWords : b[n] = b[n - 1] + a[n]
    BY <1>3, SumsAt
  <2> QED
    BY <2>1 DEF ByteSums
<1> DEFINE g == [n \in 0 .. NWords |-> Folded(b[n], Base)]
<1>5. Folded(0, Base) = 0
  BY ChecksumAssumption, FoldedIs DEF IsFold
<1>6. ASSUME NEW n \in 1 .. NWords
      PROVE  Folded(Folded(Folded(b[n - 1], Base) + High(h[n]), Base) + Low(h[n]), Base)
               = Folded(b[n], Base)
  <2>1. b[n - 1] \in Nat /\ High(h[n]) \in Nat /\ Low(h[n]) \in Nat
    BY <1>1, ChecksumAssumption
  <2>2. Base \in Nat /\ Base >= 2
    BY ChecksumAssumption
  <2>3. Folded(Folded(b[n - 1], Base) + High(h[n]), Base) = Folded(b[n - 1] + High(h[n]), Base)
    BY <2>1, <2>2, FoldAbsorbs
  <2>4. Folded(Folded(b[n - 1] + High(h[n]), Base) + Low(h[n]), Base)
          = Folded((b[n - 1] + High(h[n])) + Low(h[n]), Base)
    <3>1. b[n - 1] + High(h[n]) \in Nat
      BY <2>1
    <3> QED
      BY <3>1, <2>1, <2>2, FoldAbsorbs
  <2>5. (b[n - 1] + High(h[n])) + Low(h[n]) = b[n]
    BY <1>4, <2>1
  <2> QED
    BY <2>3, <2>4, <2>5
<1>7. V(g)
  <2> DEFINE rhs == [n \in 0 .. NWords |->
                     IF n = 0 THEN 0
                     ELSE Folded(Folded(g[n - 1] + High(h[n]), Base) + Low(h[n]), Base)]
  <2>1. ASSUME NEW n \in 0 .. NWords PROVE g[n] = rhs[n]
    <3>1. CASE n = 0
      BY <1>4, <1>5, <3>1
    <3>2. CASE n # 0
      <4>1. n \in 1 .. NWords /\ n - 1 \in 0 .. NWords
        BY <3>2, ChecksumAssumption
      <4>2. g[n - 1] = Folded(b[n - 1], Base) /\ g[n] = Folded(b[n], Base)
        BY <4>1
      <4>3. rhs[n] = Folded(Folded(g[n - 1] + High(h[n]), Base) + Low(h[n]), Base)
        BY <3>2
      <4> HIDE DEF g, rhs
      <4> QED
        BY <1>6, <4>1, <4>2, <4>3
    <3> QED
      BY <3>1, <3>2
  <2>2. g = [n \in 0 .. NWords |-> g[n]] /\ rhs = [n \in 0 .. NWords |-> rhs[n]]
    OBVIOUS
  <2>3. g = rhs
    <3> HIDE DEF g, rhs
    <3> QED
      BY <2>1, <2>2
  <2> QED
    BY <2>3
<1>8. V(v)
  <2> HIDE DEF V, g
  <2> QED
    BY <1>7
<1>9. \A n \in 0 .. NWords :
        v[n] = IF n = 0 THEN 0
               ELSE Folded(Folded(v[n - 1] + High(h[n]), Base) + Low(h[n]), Base)
  <2> HIDE DEF v
  <2> QED
    BY <1>8
<1> HIDE DEF V, v, g
<1>10. \A n \in 0 .. NWords : v[n] = Folded(b[n], Base)
  <2> DEFINE T == {n \in 0 .. NWords : v[n] # Folded(b[n], Base)}
  <2> SUFFICES ASSUME T # {} PROVE FALSE
    OBVIOUS
  <2>1. PICK n \in T : \A k \in T : n <= k
    <3>1. T \in SUBSET Nat
      OBVIOUS
    <3> HIDE DEF T
    <3> QED
      BY <3>1, Least
  <2>2. CASE n = 0
    BY <1>4, <1>5, <1>9, <2>2
  <2>3. CASE n # 0
    <3>1. n - 1 \in 0 .. NWords /\ n \in 1 .. NWords /\ n - 1 < n
      BY <2>3, ChecksumAssumption
    <3>2. v[n - 1] = Folded(b[n - 1], Base)
      BY <2>1, <3>1
    <3> QED
      BY <1>6, <1>9, <2>3, <3>1, <3>2
  <2> QED
    BY <2>2, <2>3
<1>11. Words(a) = b[NWords] /\ NWords \in 0 .. NWords
  BY <1>3, WordsIs, ChecksumAssumption
<1>12. validateIPChecksum(h) <=> v[NWords] = Base - 1
  BY DEF validateIPChecksum, v, V
<1> QED
  BY <1>10, <1>11, <1>12

\* A word is its two bytes added up and a multiple of Base - 1: the sum of the words
\* and that of the bytes are alike to the one who folds at Base.
LEMMA WordsAndBytes ==
  ASSUME NEW h \in Header
  PROVE  /\ Words(h) \in Nat /\ Words(ByteSums(h)) \in Nat
         /\ \E c \in Nat : /\ Words(h) = Words(ByteSums(h)) + (Base - 1) * c
                           /\ c <= Words(ByteSums(h))
<1> DEFINE a == ByteSums(h)
           hi == [n \in 1 .. NWords |-> High(h[n])]
           lo == [n \in 1 .. NWords |-> Low(h[n])]
<1>1. \A n \in 1 .. NWords :
        /\ High(h[n]) \in Nat /\ Low(h[n]) \in Nat
        /\ h[n] = (High(h[n]) + Low(h[n])) + (Base - 1) * High(h[n])
  BY WordBytes DEF Header
<1>2. hi \in [1 .. NWords -> Nat] /\ lo \in [1 .. NWords -> Nat]
  BY <1>1
<1>3. PICK s \in [0 .. NWords -> Nat] : Sums(s, hi)
  BY <1>2, SumsExist
<1>4. PICK t \in [0 .. NWords -> Nat] : Sums(t, lo)
  BY <1>2, SumsExist
<1>5. /\ s[0] = 0 /\ \A n \in 1 .. NWords : s[n] = s[n - 1] + High(h[n])
      /\ t[0] = 0 /\ \A n \in 1 .. NWords : t[n] = t[n - 1] + Low(h[n])
  <2>1. s[0] = 0 /\ \A n \in 1 .. NWords : s[n] = s[n - 1] + hi[n]
    BY <1>3, SumsAt
  <2>2. t[0] = 0 /\ \A n \in 1 .. NWords : t[n] = t[n - 1] + lo[n]
    BY <1>4, SumsAt
  <2> QED
    BY <2>1, <2>2
<1> HIDE DEF hi, lo
<1>6. \A n \in 0 .. NWords : s[n] \in Nat /\ t[n] \in Nat
  OBVIOUS
<1> DEFINE u == [n \in 0 .. NWords |-> s[n] + t[n]]
           v == [n \in 0 .. NWords |-> (s[n] + t[n]) + (Base - 1) * s[n]]
<1>7. Base \in Nat /\ NWords \in 0 .. NWords /\ 0 \in 0 .. NWords
  BY ChecksumAssumption
<1>8. ASSUME NEW n \in 1 .. NWords
      PROVE  u[n] = u[n - 1] + a[n] /\ v[n] = v[n - 1] + h[n]
  <2>1. n \in 0 .. NWords /\ n - 1 \in 0 .. NWords
    BY ChecksumAssumption
  <2> DEFINE x == High(h[n])
             y == Low(h[n])
             p == s[n - 1]
             q == t[n - 1]
  <2>2. s[n] = p + x /\ t[n] = q + y /\ x \in Nat /\ y \in Nat /\ p \in Nat /\ q \in Nat
    BY <1>1, <1>5, <2>1
  <2>3. u[n] = s[n] + t[n] /\ u[n - 1] = p + q
    BY <2>1
  <2>4. v[n] = (s[n] + t[n]) + (Base - 1) * s[n] /\ v[n - 1] = (p + q) + (Base - 1) * p
    BY <2>1
  <2>5. a[n] = x + y
    BY DEF ByteSums
  <2>6. h[n] = (x + y) + (Base - 1) * x
    BY <1>1
  <2> HIDE DEF u, v, x, y, p, q, a
  <2>7. (Base - 1) * (p + x) = (Base - 1) * p + (Base - 1) * x
        /\ (Base - 1) * p \in Int /\ (Base - 1) * x \in Int
    BY <1>7, <2>2
  <2> QED
    BY <2>2, <2>3, <2>4, <2>5, <2>6, <2>7
<1>9. u[0] = 0 /\ v[0] = 0
  <2>1. (Base - 1) * 0 = 0
    BY <1>7
  <2> QED
    BY <1>5, <1>7, <2>1
<1>10. /\ u = [n \in 0 .. NWords |-> u[n]] /\ v = [n \in 0 .. NWords |-> v[n]]
       /\ u[NWords] = s[NWords] + t[NWords]
       /\ v[NWords] = (s[NWords] + t[NWords]) + (Base - 1) * s[NWords]
  BY <1>7
<1> HIDE DEF a, u, v
<1>11. Sums(u, a) /\ Sums(v, h)
  BY <1>8, <1>9, <1>10, SumsMade
<1>12. Words(a) = s[NWords] + t[NWords] /\ Words(h) = Words(a) + (Base - 1) * s[NWords]
  BY <1>10, <1>11, WordsIs
<1>13. s[NWords] \in Nat /\ t[NWords] \in Nat
  BY <1>6, <1>7
<1>14. (Base - 1) * s[NWords] \in Nat
  BY <1>13, ChecksumAssumption
<1>15. Words(a) \in Nat /\ Words(h) \in Nat /\ s[NWords] <= Words(a)
  BY <1>12, <1>13, <1>14
<1> QED
  BY <1>12, <1>13, <1>15 DEF a

\* A header that is right is accepted.
LEMMA RightValidates ==
  ASSUME NEW h \in Header, Right(h)
  PROVE  validateIPChecksum(h)
<1> DEFINE w == Words(h)
           b == Words(ByteSums(h))
           d == Base - 1
<1>1. PICK c \in Nat : w = b + d * c /\ c <= b
  BY WordsAndBytes
<1>2. w \in Nat /\ b \in Nat /\ d \in Nat \ {0} /\ Base \in Nat /\ Base >= 2
  BY WordsAndBytes, ChecksumAssumption
<1>3. IsFold(w, Base * Base, Base * Base - 1)
  <2>1. IsFold(w, Base * Base, Folded(w, Base * Base))
    BY <1>2, Sizes, FoldedIs
  <2> QED
    BY <2>1 DEF Right
<1>4. PICK q \in Nat : w = q * (Base * Base - 1) + (Base * Base - 1)
  BY <1>3 DEF IsFold
<1>5. Base * Base - 1 = (Base + 1) * d /\ Base * Base \in Nat /\ Base * Base >= 2
  BY Sizes
<1>6. w # 0
  BY <1>3, <1>5 DEF IsFold
<1> HIDE DEF w, b, d
<1> DEFINE k == (q + 1) * (Base + 1)
<1>7. k \in Nat /\ w = k * d
  <2>1. w = q * ((Base + 1) * d) + (Base + 1) * d
    BY <1>4, <1>5
  <2>2. q * ((Base + 1) * d) + (Base + 1) * d = ((q + 1) * (Base + 1)) * d
    BY <1>2
  <2>3. (q + 1) * (Base + 1) \in Nat
    BY <1>2
  <2> QED
    BY <2>1, <2>2, <2>3
<1> HIDE DEF k
<1>8. b = (k - c) * d
  <2>1. d * c = c * d /\ c * d \in Nat /\ k * d \in Nat /\ (k - c) * d = k * d - c * d
    BY <1>2, <1>7
  <2> QED
    BY <1>1, <1>2, <1>7, <2>1
<1>9. b # 0
  <2> SUFFICES ASSUME b = 0 PROVE FALSE
    OBVIOUS
  <2>1. c = 0
    BY <1>1
  <2>2. d * 0 = 0
    BY <1>2
  <2> QED
    BY <1>1, <1>6, <2>1, <2>2
<1>10. k > c
  <2> SUFFICES ASSUME k <= c PROVE FALSE
    BY <1>7
  <2>1. CASE k = c
    <3>1. (k - c) * d = 0
      BY <1>2, <2>1
    <3> QED
      BY <1>8, <1>9, <3>1
  <2>2. CASE k < c
    <3>1. c * d >= k * d + d
      BY <1>2, <1>7, <2>2, Products
    <3>2. d * c = c * d /\ c * d \in Nat /\ k * d \in Nat
      BY <1>2, <1>7
    <3> QED
      BY <1>1, <1>2, <1>7, <3>1, <3>2
  <2> QED
    BY <1>7, <2>1, <2>2
<1>11. k - c - 1 \in Nat
  BY <1>7, <1>10
<1>12. b = (k - c - 1) * d + d
  <2>1. (k - c) * d = (k - c - 1) * d + d
    BY <1>2, <1>7
  <2> QED
    BY <1>8, <2>1
<1>13. IsFold(b, Base, d)
  <2>1. d \in 0 .. Base - 1 /\ (d = 0 <=> b = 0)
    BY <1>2, <1>9 DEF d
  <2> QED
    BY <1>11, <1>12, <2>1 DEF IsFold, d
<1>14. Folded(b, Base) = d
  BY <1>2, <1>13, FoldedIs, FoldUnique
<1> QED
  BY <1>14, ValidateIs DEF b, d

\* With a TTL above 1 the TTL word stays a number when the TTL is lowered.
LEMMA TtlBound ==
  ASSUME NEW h \in Header, Ttl(h) > 1
  PROVE  h[TtlWord] \in Word /\ h[TtlWord] >= Base + Base
<1> DEFINE t == h[TtlWord]
<1>1. t \in Word /\ t \in Nat /\ Base \in Nat /\ Base >= 2 /\ Base \in Nat \ {0}
  BY Sizes, ChecksumAssumption DEF Header, Word
<1>2. High(t) > 1
  BY DEF Ttl
<1> HIDE DEF t
<1>3. t = Base * High(t) + Low(t) /\ High(t) \in Nat /\ Low(t) \in Nat
  BY <1>1, WordBytes
<1>4. High(t) * Base >= 1 * Base + Base
  BY <1>1, <1>2, <1>3, Products
<1>5. High(t) * Base = Base * High(t) /\ Base * High(t) \in Nat
  BY <1>1, <1>3
<1>6. t >= Base + Base
  BY <1>1, <1>3, <1>4, <1>5
<1> QED
  BY <1>1, <1>6 DEF t

LEMMA LoweredType ==
  ASSUME NEW h \in Header, Ttl(h) > 1
  PROVE  Lowered(h) \in Header
<1> DEFINE M == Base * Base
           t == h[TtlWord]
           new == t - Base
           old == h[SumWord]
           n == Not(old) + Not(t) + new
           c == Not(Folded(n, M))
<1>1. Base \in Nat /\ Base >= 2 /\ M \in Nat /\ M >= 2 /\ M >= Base + Base
  BY Sizes, ChecksumAssumption
<1>2. t \in 0 .. M - 1 /\ old \in 0 .. M - 1 /\ t >= Base + Base
  BY TtlBound, ChecksumAssumption DEF Header, Word
<1>3. Lowered(h) = [h EXCEPT ![TtlWord] = new, ![SumWord] = c]
  BY DEF Lowered, Adapted
<1> HIDE DEF M, t, old
<1>4. new \in 0 .. M - 1
  BY <1>1, <1>2
<1>5. n \in Nat
  BY <1>1, <1>2 DEF Not, M
<1> HIDE DEF n, new
<1>6. Folded(n, M) \in 0 .. M - 1
  BY <1>1, <1>5, FoldedIs DEF IsFold
<1>7. c \in 0 .. M - 1
  BY <1>1, <1>6 DEF Not, M
<1> HIDE DEF c
<1> QED
  BY <1>3, <1>4, <1>7 DEF Header, Word, M

\* Adapting the checksum is as good as adding up again.
LEMMA AdaptedExact ==
  ASSUME NEW h \in Header, h = calIpChksum(h), Ttl(h) > 1
  PROVE  Lowered(h) \in Header /\ Lowered(h) = calIpChksum(Lowered(h))
<1> DEFINE M == Base * Base
           t == h[TtlWord]
           new == t - Base
           z == [h EXCEPT ![SumWord] = 0]
           n == Words(z)
           l == Lowered(h)
           y == [l EXCEPT ![SumWord] = 0]
<1>1. /\ Base \in Nat /\ Base >= 2 /\ M \in Nat /\ M >= 2
      /\ TtlWord \in 1 .. NWords /\ SumWord \in 1 .. NWords /\ TtlWord # SumWord
  BY Sizes, ChecksumAssumption
<1>2. t \in 0 .. M - 1 /\ \A i \in 1 .. NWords : h[i] \in 0 .. M - 1
  BY <1>1 DEF Header, Word
<1>3. t >= Base + Base
  BY TtlBound
<1>4. z \in [1 .. NWords -> Nat] /\ z[TtlWord] = t
  <2>1. h \in [1 .. NWords -> Nat]
    BY <1>2 DEF Header
  <2> QED
    BY <1>1, <2>1
<1>5. n \in Nat /\ n >= t
  BY <1>1, <1>4, WordsType, WordsBound
<1>6. Folded(n, M) \in 0 .. M - 1
  BY <1>1, <1>5, FoldedIs DEF IsFold
<1>7. h[SumWord] = Not(Folded(n, M))
  <2>1. calIpChksum(h)[SumWord] = calChecksum(z)
    BY <1>1 DEF calIpChksum, Header
  <2> QED
    BY <2>1 DEF calChecksum
<1> HIDE DEF t, z, n, M
<1>8. Not(h[SumWord]) = Folded(n, M)
  BY <1>1, <1>6, <1>7 DEF Not, M
<1>9. Adapted(h[SumWord], t, new) = Not(Folded(n - Base, M))
  <2> DEFINE k == (M - 1) - Base
  <2>1. Not(t) + new = k
    BY <1>1, <1>2 DEF Not, M
  <2>2. k \in Nat
    BY <1>1, <1>2, <1>3
  <2>3. Not(h[SumWord]) + Not(t) + new = Folded(n, M) + k
    BY <1>1, <1>2, <1>6, <1>8, <2>1, <2>2 DEF Not, M
  <2>4. Folded(Folded(n, M) + k, M) = Folded(n + k, M)
    BY <1>1, <1>5, <2>2, FoldAbsorbs
  <2>5. n + k = (n - Base) + 1 * (M - 1) /\ n - Base \in Nat \ {0}
    BY <1>1, <1>2, <1>3, <1>5
  <2>6. Folded((n - Base) + 1 * (M - 1), M) = Folded(n - Base, M)
    BY <1>1, <2>5, FoldCongruent
  <2> HIDE DEF k
  <2> QED
    BY <2>3, <2>4, <2>5, <2>6 DEF Adapted, M
<1>10. n - Base \in Nat /\ Not(Folded(n - Base, M)) \in 0 .. M - 1
  <2>1. n - Base \in Nat
    BY <1>1, <1>2, <1>3, <1>5
  <2>2. Folded(n - Base, M) \in 0 .. M - 1
    BY <1>1, <2>1, FoldedIs DEF IsFold
  <2> QED
    BY <1>1, <2>1, <2>2 DEF Not, M
<1>11. l = [h EXCEPT ![TtlWord] = new, ![SumWord] = Not(Folded(n - Base, M))]
  BY <1>9 DEF Lowered, t
<1>12. new \in 0 .. M - 1
  BY <1>1, <1>2, <1>3
<1>13. l \in Header
  BY <1>10, <1>11, <1>12 DEF Header, Word, M
<1>14. y = [z EXCEPT ![TtlWord] = new]
  <2> DEFINE c == Not(Folded(n - Base, M))
  <2>1. h = [i \in 1 .. NWords |-> h[i]]
    BY DEF Header
  <2>2. l = [i \in 1 .. NWords |-> IF i = SumWord THEN c ELSE IF i = TtlWord THEN new ELSE h[i]]
    BY <1>1, <1>11, <2>1
  <2>3. z = [i \in 1 .. NWords |-> IF i = SumWord THEN 0 ELSE h[i]]
    BY <1>1, <2>1 DEF z
  <2> HIDE DEF l, c, new
  <2>4. y = [i \in 1 .. NWords |->
              IF i = SumWord THEN 0 ELSE IF i = TtlWord THEN new ELSE h[i]]
    BY <1>1, <2>2
  <2>5. [z EXCEPT ![TtlWord] = new]
          = [i \in 1 .. NWords |->
              IF i = SumWord THEN 0 ELSE IF i = TtlWord THEN new ELSE h[i]]
    BY <1>1, <2>3
  <2> QED
    BY <2>4, <2>5
<1>15. Words(y) = n - Base
  <2>1. new \in Nat
    BY <1>1, <1>12
  <2>2. new = t - Base
    OBVIOUS
  <2> HIDE DEF y, new
  <2>3. Words(y) = (Words(z) - z[TtlWord]) + new
    BY <1>1, <1>4, <1>14, <2>1, WordsChanged
  <2>4. Words(y) = (n - t) + new
    BY <1>4, <2>3 DEF n
  <2> QED
    BY <1>1, <1>2, <1>5, <2>2, <2>4
<1>16. calIpChksum(l) = [l EXCEPT ![SumWord] = Not(Folded(n - Base, M))]
  BY <1>15 DEF calIpChksum, calChecksum, M
<1>17. l[SumWord] = Not(Folded(n - Base, M))
  BY <1>1, <1>11 DEF Header
<1>18. [l EXCEPT ![SumWord] = l[SumWord]] = l
  BY <1>13 DEF Header
<1> QED
  BY <1>13, <1>16, <1>17, <1>18

-----------------------------------------------------------------------------
(* The checksum on its way *)

\* A header no damage was done to has the checksum that adding it up gives, and the
\* verdict is on the header as it is.
ChecksumInv ==
  /\ header \in Header
  /\ made \in {"calIpChksum", "forward"} =>
       header = calIpChksum(header)
  /\ \/ made \in {"calIpChksum", "forward", "damage"} /\ accepted = validateIPChecksum(header)
     \/ made = "nothing" /\ accepted = FALSE /\ Words(header) = 0

LEMMA ChecksumMade ==
  ASSUME NEW h \in Header
  PROVE  calIpChksum(h) \in Header /\ calIpChksum(calIpChksum(h)) = calIpChksum(h)
<1> DEFINE z == [h EXCEPT ![SumWord] = 0]
           c == calChecksum(z)
           g == [h EXCEPT ![SumWord] = c]
<1>1. SumWord \in 1 .. NWords /\ Base * Base \in Nat /\ Base * Base >= 2
  BY ChecksumAssumption, Sizes
<1>2. z \in [1 .. NWords -> Nat]
  BY <1>1 DEF Header, Word
<1>3. Words(z) \in Nat
  BY <1>2, WordsType
<1>4. Folded(Words(z), Base * Base) \in 0 .. Base * Base - 1
  BY <1>1, <1>3, FoldedIs DEF IsFold
<1>5. c \in Word
  BY <1>1, <1>4 DEF calChecksum, Not, Word
<1>6. calIpChksum(h) = g
  BY DEF calIpChksum
<1> HIDE DEF c
<1>7. g \in Header
  BY <1>5 DEF Header
<1>8. [g EXCEPT ![SumWord] = 0] = z /\ [g EXCEPT ![SumWord] = c] = g
  BY <1>1 DEF Header
<1> HIDE DEF g, z
<1>9. calIpChksum(g) = g
  BY <1>8 DEF calIpChksum, c
<1> QED
  BY <1>6, <1>7, <1>9

LEMMA ChecksumInvInit == Init => ChecksumInv
<1> SUFFICES ASSUME Init PROVE ChecksumInv
  OBVIOUS
<1>1. CASE ChecksumInit
  <2>1. PICK h \in Header : header = calIpChksum(h)
    BY <1>1 DEF ChecksumInit
  <2>2. header \in Header /\ header = calIpChksum(header)
    BY <2>1, ChecksumMade
  <2> QED
    BY <1>1, <2>2 DEF ChecksumInit, ChecksumInv
<1>2. CASE ChecksumIdle
  <2> DEFINE s == [n \in 0 .. NWords |-> 0]
  <2>1. header \in [1 .. NWords -> Nat] /\ \A n \in 1 .. NWords : header[n] = 0
    BY <1>2 DEF ChecksumIdle
  <2>2. header \in Header
    BY <1>2, Sizes DEF ChecksumIdle, Header, Word
  <2>3. /\ s[0] = 0 /\ s[NWords] = 0
        /\ \A n \in 1 .. NWords : s[n] = 0 /\ s[n - 1] = 0
        /\ s = [n \in 0 .. NWords |-> s[n]]
    BY ChecksumAssumption
  <2> HIDE DEF s
  <2>4. \A n \in 1 .. NWords : s[n] = s[n - 1] + header[n]
    BY <2>1, <2>3
  <2>6. Sums(s, header)
    BY <2>3, <2>4, SumsMade
  <2>5. Words(header) = 0
    BY <2>3, <2>6, WordsIs
  <2> QED
    BY <1>2, <2>2, <2>5 DEF ChecksumIdle, ChecksumInv
<1> QED
  BY <1>1, <1>2 DEF Init

LEMMA ChecksumInvNext == ChecksumInv /\ [Next]_vars => ChecksumInv'
<1> SUFFICES ASSUME ChecksumInv, [ChecksumNext]_checksumVars PROVE ChecksumInv'
  BY DEF Next, vars
<1>1. CASE Forward
  <2>1. /\ Ttl(header) > 1 /\ header' = Lowered(header)
        /\ made' = IF made = "damage" THEN "damage" ELSE "forward"
        /\ accepted' = validateIPChecksum(header')
    BY <1>1 DEF Forward
  <2>2. header' \in Header
    BY <2>1, LoweredType DEF ChecksumInv
  <2>5. made \in {"calIpChksum", "forward", "damage"}
    BY <1>1 DEF Forward, ChecksumInv
  <2>3. CASE made \in {"calIpChksum", "forward"}
    BY <2>1, <2>2, <2>3, AdaptedExact DEF ChecksumInv
  <2>4. CASE made = "damage"
    BY <2>1, <2>2, <2>4 DEF ChecksumInv
  <2> QED
    BY <2>3, <2>4, <2>5
<1>2. CASE Damage
  <2>1. made' = "damage" /\ accepted' = validateIPChecksum(header')
    BY <1>2 DEF Damage
  <2>2. header' \in Header
    BY <1>2 DEF Damage, ChecksumInv, Header
  <2> QED
    BY <2>1, <2>2 DEF ChecksumInv
<1>3. CASE UNCHANGED checksumVars
  BY <1>3 DEF checksumVars, ChecksumInv
<1> QED
  BY <1>1, <1>2, <1>3 DEF ChecksumNext

\* However many routers have adapted the checksum to a lower TTL, it is the one that
\* adding up the header gives, for headers of every length.
THEOREM IncrementExact == Spec => []ForwardExact
<1>1. ChecksumInv => ForwardExact
  BY DEF ChecksumInv, ForwardExact
<1> QED
  BY ChecksumInvInit, ChecksumInvNext, <1>1, PTL DEF Spec

\* A header whose words add up to all ones is never refused, although
\* validateIPChecksum folds single bytes.
THEOREM RightNeverRefused == Spec => []RightAccepted
<1>1. ChecksumInv => RightAccepted
  <2> SUFFICES ASSUME ChecksumInv, Right(header) PROVE accepted
    BY DEF RightAccepted
  <2>1. header \in Header
    BY DEF ChecksumInv
  <2>2. validateIPChecksum(header)
    BY <2>1, RightValidates
  <2>3. Words(header) # 0
    <3>1. Folded(0, Base * Base) = 0
      BY Sizes, FoldedIs DEF IsFold
    <3> QED
      BY <3>1, Sizes DEF Right
  <2> QED
    BY <2>2, <2>3, Zenon DEF ChecksumInv
<1> QED
  BY ChecksumInvInit, ChecksumInvNext, <1>1, PTL DEF Spec

-----------------------------------------------------------------------------
(* The wire format *)

\* Power holds the powers of 2.
LEMMA PowerIs ==
  /\ Power[0] = 1
  /\ \A n \in 1 .. MaskBits : Power[n] = 2 * Power[n - 1]
  /\ \A n \in 0 .. MaskBits : Power[n] \in Nat \ {0}
<1> DEFINE Is(f) == f = [n \in 0 .. MaskBits |-> IF n = 0 THEN 1 ELSE 2 * f[n - 1]]
           Upto(s, m) == s[0] = 1 /\ \A n \in 1 .. m : s[n] = 2 * s[n - 1]
           Made(m) == \E s \in [0 .. MaskBits -> Nat \ {0}] : Upto(s, m)
           T == {m \in 0 .. MaskBits : ~Made(m)}
<1>0. MaskBits \in Nat \ {0} /\ MaskBits \in 0 .. MaskBits
  BY WireAssumption
<1>1. T = {}
  <2> SUFFICES ASSUME T # {} PROVE FALSE
    OBVIOUS
  <2>1. PICK m \in T : \A k \in T : m <= k
    <3>1. T \in SUBSET Nat
      OBVIOUS
    <3> HIDE DEF T
    <3> QED
      BY <3>1, Least
  <2>2. CASE m = 0
    <3> DEFINE z == [n \in 0 .. MaskBits |-> 1]
    <3>1. z \in [0 .. MaskBits -> Nat \ {0}] /\ z[0] = 1
      BY <1>0
    <3>2. Upto(z, 0)
      BY <3>1
    <3> HIDE DEF z
    <3> QED
      BY <2>2, <3>1, <3>2
  <2>3. CASE m # 0
    <3>1. m - 1 \in 0 .. MaskBits /\ m - 1 < m /\ m \in 1 .. MaskBits
      BY <2>3, <1>0
    <3>2. PICK s \in [0 .. MaskBits -> Nat \ {0}] : Upto(s, m - 1)
      BY <2>1, <3>1
    <3> DEFINE u == [s EXCEPT ![m] = 2 * s[m - 1]]
    <3>3. s[m - 1] \in Nat \ {0}
      BY <3>1
    <3>4. 2 * s[m - 1] \in Nat \ {0}
      BY <3>3
    <3>5. u \in [0 .. MaskBits -> Nat \ {0}]
      BY <3>4
    <3>6. u[m] = 2 * s[m - 1] /\ \A n \in 0 .. m - 1 : u[n] = s[n]
      BY <3>1
    <3> HIDE DEF u
    <3>7. Upto(u, m)
      <4>1. m \in Nat /\ u[0] = 1
        BY <1>0, <3>1, <3>2, <3>6
      <4>2. ASSUME NEW n \in 1 .. m PROVE u[n] = 2 * u[n - 1]
        <5>1. CASE n = m
          BY <4>1, <5>1, <3>1, <3>6
        <5>2. CASE n # m
          <6>1. n \in 1 .. m - 1 /\ n \in 0 .. m - 1 /\ n - 1 \in 0 .. m - 1
            BY <4>1, <5>2
          <6> QED
            BY <3>2, <3>6, <6>1
        <5> QED
          BY <5>1, <5>2
      <4> QED
        BY <4>1, <4>2
    <3> QED
      BY <3>5, <3>7
  <2> QED
    BY <2>2, <2>3
<1>2. PICK s \in [0 .. MaskBits -> Nat \ {0}] : Upto(s, MaskBits)
  <2>1. MaskBits \notin T
    <3> HIDE DEF T
    <3> QED
      BY <1>1
  <2> QED
    BY <1>0, <2>1
<1>3. Is(s)
  <2> DEFINE rhs == [n \in 0 .. MaskBits |-> IF n = 0 THEN 1 ELSE 2 * s[n - 1]]
  <2>1. ASSUME NEW n \in 0 .. MaskBits PROVE s[n] = rhs[n]
    <3>1. rhs[n] = IF n = 0 THEN 1 ELSE 2 * s[n - 1]
      OBVIOUS
    <3>2. n = 0 \/ n \in 1 .. MaskBits
      BY <1>0
    <3> HIDE DEF rhs
    <3> QED
      BY <1>2, <3>1, <3>2
  <2>2. s = [n \in 0 .. MaskBits |-> s[n]] /\ rhs = [n \in 0 .. MaskBits |-> rhs[n]]
    OBVIOUS
  <2>3. s = rhs
    <3> HIDE DEF rhs
    <3> QED
      BY <2>1, <2>2
  <2> QED
    BY <2>3
<1>4. Is(Power)
  <2> DEFINE f == CHOOSE f : Is(f)
  <2>1. Is(f)
    <3> HIDE DEF Is
    <3> QED
      BY <1>3
  <2>2. Power = f
    BY DEF Power
  <2> HIDE DEF Is, f
  <2> QED
    BY <2>1, <2>2
<1>5. Power[0] = 1 /\ \A n \in 1 .. MaskBits : Power[n] = 2 * Power[n - 1]
  <2> DEFINE rhs == [n \in 0 .. MaskBits |-> IF n = 0 THEN 1 ELSE 2 * Power[n - 1]]
  <2>1. rhs[0] = 1 /\ \A n \in 1 .. MaskBits : rhs[n] = 2 * Power[n - 1]
    BY <1>0
  <2>2. Power = rhs
    BY <1>4
  <2> HIDE DEF rhs
  <2> QED
    BY <2>1, <2>2
<1> HIDE DEF Is
<1>6. \A n \in 0 .. MaskBits : Power[n] \in Nat \ {0}
  <2> DEFINE W == {n \in 0 .. MaskBits : Power[n] \notin Nat \ {0}}
  <2> SUFFICES ASSUME W # {} PROVE FALSE
    OBVIOUS
  <2>1. PICK n \in W : \A k \in W : n <= k
    <3>1. W \in SUBSET Nat
      OBVIOUS
    <3> HIDE DEF W
    <3> QED
      BY <3>1, Least
  <2>2. CASE n = 0
    BY <1>5, <2>2
  <2>3. CASE n # 0
    <3>1. n - 1 \in 0 .. MaskBits /\ n \in 1 .. MaskBits /\ n - 1 < n
      BY <2>3, <1>0
    <3>2. Power[n - 1] \in Nat \ {0}
      BY <2>1, <3>1
    <3> QED
      BY <1>5, <3>1, <3>2
  <2> QED
    BY <2>2, <2>3
<1> QED
  BY <1>5, <1>6

\* The power of MaskBits - 1 is the largest but one.
LEMMA PowerBound ==
  /\ Power[MaskBits] = 2 * Power[MaskBits - 1]
  /\ \A n \in 0 .. MaskBits - 1 : Power[n] <= Power[MaskBits - 1]
<1> DEFINE b == MaskBits - 1
           T == {k \in 0 .. b : Power[b - k] > Power[b]}
<1>1. b \in Nat /\ MaskBits \in 1 .. MaskBits /\ b \in 0 .. MaskBits
  BY WireAssumption
<1>2. Power[MaskBits] = 2 * Power[b]
  BY <1>1, PowerIs
<1>3. T = {}
  <2> SUFFICES ASSUME T # {} PROVE FALSE
    OBVIOUS
  <2>1. PICK k \in T : \A j \in T : k <= j
    <3>1. T \in SUBSET Nat
      OBVIOUS
    <3> HIDE DEF T
    <3> QED
      BY <3>1, Least
  <2>2. k \in 0 .. b /\ Power[b - k] > Power[b] /\ Power[b] \in Nat
    BY <1>1, PowerIs
  <2>3. k # 0
    <3>1. b - 0 = b
      BY <1>1
    <3> QED
      BY <2>2, <3>1
  <2> DEFINE n == (b - k) + 1
  <2>4. n \in 1 .. MaskBits /\ n - 1 = b - k /\ n = b - (k - 1) /\ k - 1 \in 0 .. b
        /\ b - k \in 0 .. MaskBits /\ n \in 0 .. MaskBits
    BY <1>1, <2>2, <2>3
  <2>5. Power[n] = 2 * Power[b - k] /\ Power[b - k] \in Nat
    BY <2>4, PowerIs
  <2>6. Power[b - (k - 1)] > Power[b]
    BY <2>2, <2>4, <2>5
  <2>7. k - 1 \in T
    BY <2>4, <2>6
  <2> QED
    BY <2>1, <2>2, <2>7
<1>4. ASSUME NEW n \in 0 .. b PROVE Power[n] <= Power[b]
  <2>1. b - n \in 0 .. b /\ b - (b - n) = n
    BY <1>1
  <2>2. b - n \notin T
    <3> HIDE DEF T
    <3> QED
      BY <1>3
  <2>3. ~(Power[n] > Power[b])
    BY <2>1, <2>2
  <2>4. Power[n] \in Nat /\ Power[b] \in Nat
    BY <1>1, PowerIs
  <2> QED
    BY <2>3, <2>4
<1> QED
  BY <1>2, <1>4

LEMMA Doubled ==
  ASSUME NEW k \in Int, NEW p \in Int, NEW x \in Int
  PROVE  /\ k = p - x => 2 * k - p = p - 2 * x
         /\ 2 * k - p = p - x => 2 * k = 2 * p - x
         /\ 2 * k = 2 * p - 2 * x => k = p - x
OBVIOUS

\* What is left of a mask is 0 when it is ones followed by zeros.
LEMMA ShiftedIs ==
  ASSUME NEW m \in MaskNumber
  PROVE  Shifted(m) = 0 <=> m \in Masks
<1> DEFINE P == Power[MaskBits]
           H == Power[MaskBits - 1]
           Rest(f, k) == IF k >= H THEN f[(2 * k) % P] ELSE k
           Is(f) == f = [k \in MaskNumber |-> Rest(f, k)]
           Upto(f, n) == \A k \in MaskNumber : k < n => f[k] = Rest(f, k)
<1>1. /\ P \in Nat \ {0} /\ H \in Nat \ {0} /\ P = 2 * H /\ MaskNumber = 0 .. P - 1
      /\ MaskBits - 1 \in 0 .. MaskBits /\ MaskBits \in 0 .. MaskBits
  BY PowerIs, PowerBound, WireAssumption DEF MaskNumber
<1> HIDE DEF P, H
\* A bit shifted out makes the mask smaller.
<1>2. ASSUME NEW k \in MaskNumber, k >= H
      PROVE  (2 * k) % P = 2 * k - P /\ 2 * k - P \in MaskNumber /\ 2 * k - P < k
  <2>1. 2 * k \in Nat /\ P <= 2 * k /\ 2 * k < P + P
    BY <1>1, <1>2
  <2>2. (2 * k) % P = 2 * k - P
    BY <1>1, <2>1
  <2> QED
    BY <1>1, <1>2, <2>2
<1> DEFINE T == {n \in 0 .. P : ~\E f \in [MaskNumber -> Int] : Upto(f, n)}
<1>3. T = {}
  <2> SUFFICES ASSUME T # {} PROVE FALSE
    OBVIOUS
  <2>1. PICK n \in T : \A j \in T : n <= j
    <3>1. T \in SUBSET Nat
      BY <1>1
    <3> HIDE DEF T
    <3> QED
      BY <3>1, Least
  <2>2. CASE n = 0
    <3> DEFINE z == [k \in MaskNumber |-> 0]
    <3>1. z \in [MaskNumber -> Int]
      OBVIOUS
    <3>2. Upto(z, 0)
      BY <1>1
    <3> HIDE DEF z, Upto
    <3> QED
      BY <2>2, <3>1, <3>2
  <2>3. CASE n # 0
    <3> DEFINE i == n - 1
    <3>1. i \in 0 .. P /\ i < n /\ i \in MaskNumber /\ n \in Nat /\ n = i + 1
      BY <1>1, <2>3
    <3> HIDE DEF i
    <3>2. PICK f \in [MaskNumber -> Int] : Upto(f, i)
      BY <2>1, <3>1
    <3> DEFINE g == [f EXCEPT ![i] = Rest(f, i)]
    <3>3. Rest(f, i) \in Int
      BY <1>1, <1>2, <3>1
    <3>4. g \in [MaskNumber -> Int]
      BY <3>3
    <3>5. g[i] = Rest(f, i) /\ \A k \in MaskNumber : k < i => g[k] = f[k]
      BY <1>1, <3>1
    <3> HIDE DEF g
    <3>6. ASSUME NEW k \in MaskNumber, k < n PROVE g[k] = Rest(g, k)
      <4>1. k \in Nat /\ i \in Nat /\ (k < i \/ k = i)
        BY <1>1, <3>1, <3>6
      <4>2. g[k] = Rest(f, k)
        BY <3>2, <3>5, <4>1
      <4>3. CASE k >= H
        <5>1. (2 * k) % P \in MaskNumber /\ (2 * k) % P < i
          BY <1>1, <1>2, <4>1, <4>3
        <5> QED
          BY <3>5, <4>2, <4>3, <5>1
      <4>4. CASE k < H
        BY <1>1, <4>1, <4>2, <4>4
      <4> QED
        BY <1>1, <4>1, <4>3, <4>4
    <3>7. Upto(g, n)
      BY <3>6
    <3> HIDE DEF Upto
    <3> QED
      BY <3>4, <3>7
  <2> QED
    BY <2>2, <2>3
<1>4. PICK f \in [MaskNumber -> Int] : Upto(f, P)
  <2>1. P \notin T /\ P \in 0 .. P
    <3> HIDE DEF T
    <3> QED
      BY <1>1, <1>3
  <2> QED
    BY <2>1
<1>5. Is(f)
  <2>1. \A k \in MaskNumber : f[k] = Rest(f, k)
    BY <1>1, <1>4
  <2>2. f = [k \in MaskNumber |-> f[k]]
    OBVIOUS
  <2> HIDE DEF Rest
  <2> QED
    BY <2>1, <2>2
<1> DEFINE s == CHOOSE g : Is(g)
<1>6. Is(s)
  <2> HIDE DEF Is
  <2> QED
    BY <1>5
<1>7. \A k \in MaskNumber : s[k] = Rest(s, k)
  <2> HIDE DEF s, Rest
  <2> QED
    BY <1>6
<1>8. Shifted(m) = s[m]
  BY DEF Shifted, P, H
<1> HIDE DEF s, Is, Upto, T
\* Legal masks, and what shifting makes of them.
<1>9. \A n \in 0 .. MaskBits : Power[n] \in Nat \ {0}
  BY PowerIs
<1>10. ASSUME NEW k \in MaskNumber, k < H
       PROVE  k = 0 <=> k \in Masks
  <2>1. 0 \in Masks
    BY <1>1 DEF Masks, P
  <2>2. ASSUME NEW n \in 0 .. MaskBits, k = P - Power[n] PROVE k = 0
    <3>1. CASE n = MaskBits
      BY <1>1, <2>2, <3>1 DEF P
    <3>2. CASE n # MaskBits
      <4>1. n \in 0 .. MaskBits - 1
        BY <3>2, WireAssumption
      <4>2. Power[n] <= H /\ Power[n] \in Nat
        BY <1>9, <4>1, PowerBound DEF H
      <4> QED
        BY <1>1, <1>10, <2>2, <4>2
    <3> QED
      BY <3>1, <3>2
  <2> QED
    BY <2>1, <2>2 DEF Masks, P
<1>11. ASSUME NEW k \in MaskNumber, k >= H
       PROVE  k \in Masks <=> 2 * k - P \in Masks
  <2>0. k \in Nat /\ k < P /\ k # 0
    BY <1>1, <1>11
  <2>1. ASSUME NEW n \in 0 .. MaskBits, k = P - Power[n] PROVE 2 * k - P \in Masks
    <3>1. n + 1 \in 1 .. MaskBits /\ n + 1 \in 0 .. MaskBits
      <4>1. n # MaskBits
        BY <1>1, <2>0, <2>1 DEF P
      <4> QED
        BY <4>1, WireAssumption
    <3>2. Power[n + 1] = 2 * Power[n] /\ Power[n] \in Nat
      <4>1. (n + 1) - 1 = n
        OBVIOUS
      <4> QED
        BY <1>9, <3>1, <4>1, PowerIs
    <3>3. 2 * k - P = P - Power[n + 1]
      <4>1. k \in Int /\ P \in Int /\ Power[n] \in Int
        BY <1>1, <2>0, <3>2
      <4> QED
        BY <2>1, <3>2, <4>1, Doubled
    <3> QED
      BY <3>1, <3>3 DEF Masks, P
  <2>2. ASSUME NEW n \in 0 .. MaskBits, 2 * k - P = P - Power[n] PROVE k \in Masks
    <3>1. 2 * k = 2 * P - Power[n] /\ Power[n] \in Nat
      <4>1. k \in Int /\ P \in Int /\ Power[n] \in Nat /\ Power[n] \in Int
        BY <1>1, <1>9, <2>0
      <4> QED
        BY <2>2, <4>1, Doubled
    <3>2. n # 0
      <4> SUFFICES ASSUME n = 0 PROVE FALSE
        OBVIOUS
      <4>1. 2 * k = 2 * P - 1
        BY <3>1, PowerIs
      <4> QED
        BY <1>1, <2>0, <4>1
    <3>3. n \in 1 .. MaskBits /\ n - 1 \in 0 .. MaskBits
      BY <3>2, WireAssumption
    <3>4. Power[n] = 2 * Power[n - 1] /\ Power[n - 1] \in Nat
      BY <1>9, <3>3, PowerIs
    <3>5. k = P - Power[n - 1]
      <4>1. k \in Int /\ P \in Int /\ Power[n - 1] \in Int
        BY <1>1, <2>0, <3>4
      <4> QED
        BY <3>1, <3>4, <4>1, Doubled
    <3> QED
      BY <3>3, <3>5 DEF Masks, P
  <2> QED
    BY <2>1, <2>2 DEF Masks, P
<1>12. \A k \in MaskNumber : s[k] = 0 <=> k \in Masks
  <2> DEFINE W == {k \in MaskNumber : ~(s[k] = 0 <=> k \in Masks)}
  <2> SUFFICES ASSUME W # {} PROVE FALSE
    OBVIOUS
  <2>1. PICK k \in W : \A j \in W : k <= j
    <3>1. W \in SUBSET Nat
      BY <1>1
    <3> HIDE DEF W
    <3> QED
      BY <3>1, Least
  <2>2. CASE k < H
    BY <1>1, <1>7, <1>10, <2>2
  <2>3. CASE k >= H
    <3> DEFINE j == 2 * k - P
    <3>1. j \in MaskNumber /\ j < k /\ s[k] = s[j]
      BY <1>2, <1>7, <2>3
    <3>2. s[j] = 0 <=> j \in Masks
      BY <1>1, <2>1, <3>1
    <3> QED
      BY <1>11, <2>3, <3>1, <3>2
  <2> QED
    BY <1>1, <2>2, <2>3
<1> QED
  BY <1>8, <1>12

\* What disassemble has read so far it has checked, and kept in entries.
WireInv ==
  /\ packet \in IncomingPacket
  /\ reading \in {"entries", "accepted"} =>
       /\ HeaderOK(packet)
       /\ packet.fits = TRUE /\ packet.version = 2 /\ packet.zero = 0 /\ packet.whole = TRUE
       /\ entries \in Seq({RipEntry(e) : e \in IncomingEntry})
       /\ Len(entries) <= Len(packet.entries)
       /\ \A n \in 1 .. Len(entries) :
            LET e == packet.entries[n]
            IN  /\ EntryOK(e, packet.command) /\ e.family = Family(packet.command)
                /\ e.tag = 0 /\ entries[n] = RipEntry(e)
  /\ reading = "refused" =>
       \/ ~HeaderOK(packet)
       \/ \E n \in 1 .. Len(packet.entries) : ~EntryOK(packet.entries[n], packet.command)
  /\ reading = "accepted" => Len(entries) = Len(packet.entries)
  /\ reading = "header" => entries = <<>>

\* A packet whose entries were all read and found good is what assemble makes of them.
LEMMA AssembleRestores ==
  ASSUME WireInv, reading = "accepted"
  PROVE  assemble(packet.command, entries) = packet
<1> DEFINE es == packet.entries
           written == [n \in DOMAIN entries |->
                      WireEntry(Family(packet.command), 0, entries[n].addr, entries[n].mask,
                                entries[n].nexthop, entries[n].metric)]
<1>1. /\ packet \in IncomingPacket /\ es \in Seq(IncomingEntry) /\ Len(es) \in Nat
      /\ DOMAIN es = 1 .. Len(es) /\ DOMAIN entries = 1 .. Len(es)
  BY DEF WireInv, IncomingPacket
<1>2. ASSUME NEW n \in 1 .. Len(es) PROVE written[n] = es[n]
  <2>1. es[n] \in IncomingEntry
    BY <1>1
  <2>2. es[n].family = Family(packet.command) /\ es[n].tag = 0 /\ entries[n] = RipEntry(es[n])
    BY <1>1 DEF WireInv
  <2>3. written[n] = WireEntry(es[n].family, es[n].tag, es[n].addr, es[n].mask,
                            es[n].nexthop, es[n].metric)
    BY <1>1, <2>2 DEF RipEntry
  <2> HIDE DEF es, written
  <2> QED
    BY <2>1, <2>3 DEF IncomingEntry, WireEntry
<1>3. written = es
  <2>1. DOMAIN written = DOMAIN es /\ written = [n \in DOMAIN written |-> written[n]]
        /\ es = [n \in DOMAIN es |-> es[n]]
    BY <1>1
  <2> HIDE DEF es, written
  <2> QED
    BY <1>1, <1>2, <2>1
<1>4. assemble(packet.command, entries) = WirePacket(TRUE, packet.command, 2, 0, TRUE, written)
  BY DEF assemble
<1>5. packet.fits = TRUE /\ packet.version = 2 /\ packet.zero = 0 /\ packet.whole = TRUE
  BY DEF WireInv
<1> HIDE DEF written
<1> QED
  BY <1>1, <1>3, <1>4, <1>5 DEF WirePacket, IncomingPacket

LEMMA WireInvInit == Init => WireInv
<1> SUFFICES ASSUME Init PROVE WireInv
  OBVIOUS
<1>1. CASE WireInit
  BY <1>1, WireAssumption DEF WireInit, WireInv
<1>2. CASE WireIdle
  <2>1. packet \in IncomingPacket
    BY <1>2 DEF WireIdle, WirePacket, IncomingPacket
  <2> QED
    BY <1>2, <2>1 DEF WireIdle, WireInv
<1> QED
  BY <1>1, <1>2 DEF Init

LEMMA WireInvNext == WireInv /\ [Next]_vars => WireInv'
<1> SUFFICES ASSUME WireInv, [WireNext]_wireVars PROVE WireInv'
  BY DEF Next, vars
<1> DEFINE E == {RipEntry(e) : e \in IncomingEntry}
<1>1. packet \in IncomingPacket /\ packet.entries \in Seq(IncomingEntry) /\ Len(packet.entries) \in Nat
  BY DEF WireInv, IncomingPacket
<1>2. CASE ReadHeader
  <2>1. entries' = <<>> /\ packet' = packet
    BY <1>2 DEF ReadHeader, WireInv
  <2>2. <<>> \in Seq(E) /\ Len(<<>>) = 0
    OBVIOUS
  <2>3. reading' = "entries" => HeaderOK(packet)
    BY <1>2 DEF ReadHeader
  <2>4. reading' \in {"entries", "refused"} /\ (reading' = "refused" => ~HeaderOK(packet))
    BY <1>2 DEF ReadHeader
  <2>5. HeaderOK(packet) => packet.fits = TRUE /\ packet.version = 2 /\ packet.zero = 0 /\ packet.whole = TRUE
    BY <1>1 DEF HeaderOK, IncomingPacket
  <2> HIDE DEF E
  <2> QED
    BY <1>1, <2>1, <2>2, <2>3, <2>4, <2>5 DEF WireInv, E
<1>3. CASE ReadEntry
  <2> DEFINE n == Len(entries) + 1
  <2>1. /\ reading = "entries" /\ packet' = packet /\ entries \in Seq(E)
        /\ Len(entries) \in Nat /\ Len(entries) <= Len(packet.entries)
    BY <1>3 DEF ReadEntry, WireInv
  <2>2. CASE n > Len(packet.entries)
    BY <1>1, <1>3, <2>1, <2>2 DEF ReadEntry, WireInv
  <2>3. CASE n <= Len(packet.entries) /\ EntryOK(packet.entries[n], packet.command)
    <3> DEFINE e == packet.entries[n]
    <3>1. e \in IncomingEntry /\ e.family = Family(packet.command) /\ e.tag = 0
      BY <1>1, <2>1, <2>3 DEF EntryOK
    <3>2. entries' = Append(entries, RipEntry(e)) /\ reading' = "entries"
      BY <1>1, <1>3, <2>1, <2>3 DEF ReadEntry
    <3>3. RipEntry(e) \in E
      BY <3>1
    <3> HIDE DEF E
    <3>4. /\ entries' \in Seq(E) /\ Len(entries') = n /\ entries'[n] = RipEntry(e)
          /\ \A k \in 1 .. Len(entries) : entries'[k] = entries[k]
      BY <2>1, <3>2, <3>3, AppendProperties
    <3>5. \A k \in 1 .. Len(entries') :
             LET x == packet.entries[k]
             IN  /\ EntryOK(x, packet.command) /\ x.family = Family(packet.command)
                 /\ x.tag = 0 /\ entries'[k] = RipEntry(x)
      BY <2>1, <2>3, <3>1, <3>4 DEF WireInv
    <3> QED
      BY <1>1, <2>1, <2>3, <3>2, <3>4, <3>5 DEF WireInv, E
  <2>4. CASE n <= Len(packet.entries) /\ ~EntryOK(packet.entries[n], packet.command)
    BY <1>1, <1>3, <2>1, <2>4 DEF ReadEntry, WireInv
  <2> QED
    BY <1>1, <2>1, <2>2, <2>3, <2>4
<1>4. CASE Again
  <2>1. reading = "accepted" /\ packet' = packet /\ reading' = "header" /\ entries' = <<>>
    BY <1>4, AssembleRestores DEF Again
  <2> QED
    BY <1>1, <2>1 DEF WireInv
<1>5. CASE UNCHANGED wireVars
  BY <1>5 DEF wireVars, WireInv
<1> QED
  BY <1>2, <1>3, <1>4, <1>5 DEF WireNext

\* What disassemble accepts, assemble writes out again as it was: a RipPacket keeps
\* all of a legal packet, whatever packets come in.
THEOREM PacketsRestored == Spec => Restored
<1>1. WireInv /\ [Next]_vars => [reading = "accepted" => packet' = packet]_wireVars
  <2> SUFFICES ASSUME WireInv, [WireNext]_wireVars, reading = "accepted", wireVars' # wireVars
               PROVE  packet' = packet
    BY DEF Next, vars
  <2>1. Again
    BY DEF WireNext, ReadHeader, ReadEntry
  <2> QED
    BY <2>1, AssembleRestores DEF Again
<1> QED
  BY WireInvInit, WireInvNext, <1>1, PTL DEF Spec, Restored

\* The checks of disassemble are those its comment lists.
LEMMA LegalIs ==
  ASSUME NEW p \in IncomingPacket
  PROVE  Legal(p) <=> /\ HeaderOK(p)
                      /\ \A n \in 1 .. Len(p.entries) : EntryOK(p.entries[n], p.command)
<1>1. p.entries \in Seq(IncomingEntry) /\ p.command \in Nat
  BY DEF IncomingPacket
<1>2. DOMAIN p.entries = 1 .. Len(p.entries)
  BY <1>1
<1>3. ASSUME NEW n \in 1 .. Len(p.entries), p.command \in {1, 2}
      PROVE  LET e == p.entries[n]
             IN  (/\ (p.command = 1 /\ e.family = 0) \/ (p.command = 2 /\ e.family = 2)
                  /\ e.tag = 0 /\ e.metric \in 1 .. Infinity /\ e.mask \in Masks)
                   <=> EntryOK(e, p.command)
  <2> DEFINE e == p.entries[n]
  <2>1. e \in IncomingEntry
    BY <1>1, <1>2
  <2>2. e.mask \in MaskNumber /\ e.metric \in Nat
    BY <2>1 DEF IncomingEntry
  <2>3. Shifted(e.mask) = 0 <=> e.mask \in Masks
    BY <2>2, ShiftedIs
  <2>4. e.family = Family(p.command)
          <=> (p.command = 1 /\ e.family = 0) \/ (p.command = 2 /\ e.family = 2)
    BY <1>3 DEF Family
  <2>5. e.metric \in 1 .. Infinity <=> e.metric >= 1 /\ e.metric <= Infinity
    BY <2>2, WireAssumption
  <2> HIDE DEF e
  <2> QED
    BY <2>3, <2>4, <2>5 DEF EntryOK, e
<1> QED
  BY <1>2, <1>3 DEF Legal, HeaderOK

\* disassemble accepts exactly the legal packets, with entries in any number and masks
\* of any width, and keeps of those every entry: the loop that shifts the ones out of
\* a mask leaves nothing of the legal masks alone.
THEOREM LegalAccepted == Spec => []AcceptsLegal
<1>1. WireInv => AcceptsLegal
  <2> SUFFICES ASSUME WireInv PROVE AcceptsLegal
    OBVIOUS
  <2>1. packet \in IncomingPacket /\ packet.entries \in Seq(IncomingEntry)
    BY DEF WireInv, IncomingPacket
  <2>2. DOMAIN packet.entries = 1 .. Len(packet.entries) /\ Len(packet.entries) \in Nat
    BY <2>1
  <2>3. ASSUME reading = "accepted"
        PROVE  /\ Legal(packet)
               /\ entries = [n \in DOMAIN packet.entries |-> RipEntry(packet.entries[n])]
    <3>1. /\ HeaderOK(packet) /\ Len(entries) = Len(packet.entries)
          /\ entries \in Seq({RipEntry(e) : e \in IncomingEntry})
          /\ \A n \in 1 .. Len(entries) :
               /\ EntryOK(packet.entries[n], packet.command)
               /\ entries[n] = RipEntry(packet.entries[n])
      BY <2>3 DEF WireInv
    <3>2. Legal(packet)
      BY <2>1, <3>1, LegalIs
    <3>3. entries = [n \in 1 .. Len(entries) |-> entries[n]]
      BY <3>1
    <3> QED
      BY <2>2, <3>1, <3>2, <3>3
  <2>4. ASSUME reading = "refused" PROVE ~Legal(packet)
    BY <2>1, <2>4, LegalIs DEF WireInv
  <2> QED
    BY <2>3, <2>4 DEF AcceptsLegal
<1> QED
  BY WireInvInit, WireInvNext, <1>1, PTL DEF Spec

=============================================================================
