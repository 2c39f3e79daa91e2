-------------------------- MODULE RipNetworkProofs --------------------------
(***************************************************************************)
(* Safety of RipNetwork for every topology, every capacity of the buffers  *)
(* and every number of crashes and losses.                                 *)
(*                                                                         *)
(* What a response can do to a table and what a table puts into responses  *)
(* comes first: every route is in one packet of an update, and no packet   *)
(* is empty or too long.  IInv, the type and what no packet ever claims,   *)
(* is inductive; TypeOK, DirectRoutesKept, NeverTooNear and CompleteUpdate *)
(* follow, and the refinement of RouteService step by step.  The last two  *)
(* parts are about where routes lead: on any network until the first crash *)
(* (Orderly), and on a network without a circle (TreeInv).                 *)
(***************************************************************************)
EXTENDS RipNetwork, FiniteSetTheorems, FunctionTheorems, SequenceTheorems, TLAPS

(* Responses and tables *)

\* A table stays a table: no key of its own making, no dead route.
LEMMA LearnType ==
  ASSUME NEW t, IsRoutingTable(t), NEW es, IsRipEntries(es),
         NEW i \in Iface, NEW nexthop \in Addr
  PROVE  IsRoutingTable(Learn(t, i, nexthop, es))
<1> DEFINE u == Learn(t, i, nexthop, es)
<1>1. DOMAIN u \subseteq Prefix
  BY DEF Learn, IsRoutingTable, IsRipEntries, Inserted
<1>2. ASSUME NEW p \in DOMAIN u
      PROVE  u[p] \in RoutingTableEntry
  <2>1. CASE p \notin DOMAIN t
    <3>1. p \in DOMAIN es /\ Through(es[p]) # Infinity
      BY <2>1 DEF Learn, Inserted
    <3>2. Through(es[p]) \in 1 .. Infinity - 1
      BY <3>1, TableAssumption DEF IsRipEntries, Through
    <3> QED BY <2>1, <3>2 DEF Learn, RoutingTableEntry
  <2>2. CASE p \in DOMAIN t /\ p \in Changed(t, es, nexthop)
    <3>1. p \in DOMAIN es /\ Through(es[p]) # Infinity
      BY <2>2 DEF Changed
    <3>2. Through(es[p]) \in 1 .. Infinity - 1
      BY <3>1, TableAssumption DEF IsRipEntries, Through
    <3>3. t[p] \in RoutingTableEntry
      BY <2>2 DEF IsRoutingTable
    <3>4. u[p] = [t[p] EXCEPT !.nexthop = nexthop, !.metric = Through(es[p])]
      BY <2>2 DEF Learn
    <3> QED BY <3>2, <3>3, <3>4 DEF RoutingTableEntry
  <2>3. CASE p \in DOMAIN t /\ p \notin Changed(t, es, nexthop)
    BY <2>3 DEF Learn, IsRoutingTable
  <2> QED BY <2>1, <2>2, <2>3
<1>3. u = [p \in DOMAIN u |-> u[p]]
  BY DEF Learn
<1> QED
  BY <1>1, <1>2, <1>3 DEF IsRoutingTable

\* Every route after a response was there before, unchanged, or it leads to the
\* sender of the response, one hop further than the sender says.
LEMMA LearnOrigin ==
  ASSUME NEW t, IsRoutingTable(t), NEW es, IsRipEntries(es),
         NEW i \in Iface, NEW nexthop \in Addr,
         NEW p \in DOMAIN Learn(t, i, nexthop, es)
  PROVE  LET e == Learn(t, i, nexthop, es)[p] IN
           \/ p \in DOMAIN t /\ e = t[p]
           \/ /\ p \in DOMAIN es /\ e.nexthop = nexthop
              /\ e.metric = es[p] + 1 /\ es[p] + 1 < Infinity
<1> DEFINE e == Learn(t, i, nexthop, es)[p]
<1>1. CASE p \notin DOMAIN t
  <2>1. p \in DOMAIN es /\ Through(es[p]) # Infinity
    BY <1>1 DEF Learn, Inserted
  <2>2. e = [if_index |-> i, nexthop |-> nexthop, metric |-> Through(es[p])]
    BY <1>1 DEF Learn
  <2>3. Through(es[p]) = es[p] + 1 /\ es[p] + 1 < Infinity
    BY <2>1, TableAssumption DEF IsRipEntries, Through
  <2> QED BY <2>1, <2>2, <2>3
<1>2. CASE p \in DOMAIN t /\ p \in Changed(t, es, nexthop)
  <2>1. p \in DOMAIN es /\ Through(es[p]) # Infinity
    BY <1>2 DEF Changed
  <2>2. e = [t[p] EXCEPT !.nexthop = nexthop, !.metric = Through(es[p])]
    BY <1>2 DEF Learn
  <2>3. Through(es[p]) = es[p] + 1 /\ es[p] + 1 < Infinity
    BY <2>1, TableAssumption DEF IsRipEntries, Through
  <2>4. t[p] \in RoutingTableEntry
    BY <1>2 DEF IsRoutingTable
  <2> QED BY <2>1, <2>2, <2>3, <2>4 DEF RoutingTableEntry
<1>3. CASE p \in DOMAIN t /\ p \notin Changed(t, es, nexthop)
  BY <1>3 DEF Learn
<1> QED
  BY <1>1, <1>2, <1>3

\* No response touches a direct route.
LEMMA LearnKeepsDirect ==
  ASSUME NEW t, IsRoutingTable(t), NEW es, IsRipEntries(es),
         NEW i \in Iface, NEW nexthop \in Addr,
         NEW p \in DOMAIN t, t[p].nexthop = Direct, t[p].metric = 1
  PROVE  /\ p \in DOMAIN Learn(t, i, nexthop, es)
         /\ Learn(t, i, nexthop, es)[p] = t[p]
<1>1. ASSUME p \in DOMAIN es PROVE ~Supersedes(Through(es[p]), nexthop, t[p])
  <2>1. Through(es[p]) \in Nat /\ Through(es[p]) >= 2
    BY <1>1, TableAssumption DEF IsRipEntries, Through
  <2> QED BY <2>1, TableAssumption DEF Supersedes
<1>2. p \notin Erased(t, es, nexthop) /\ p \notin Changed(t, es, nexthop)
  BY <1>1 DEF Erased, Changed
<1> QED BY <1>2 DEF Learn

\* A response lists routes of the table, each with its metric or as unreachable.
LEMMA ResponsesType ==
  ASSUME NEW t, IsRoutingTable(t), NEW i \in Iface
  PROVE  /\ \E k \in Nat : DOMAIN Responses(t, i) = 1 .. k
         /\ \A n \in DOMAIN Responses(t, i) :
              LET es == Responses(t, i)[n] IN
                /\ IsRipEntries(es)
                /\ \A p \in DOMAIN es : p \in DOMAIN t /\ es[p] \in {Infinity, t[p].metric}
<1>1. \E k \in Nat : DOMAIN Responses(t, i) = 1 .. k
  <2>1. IsFiniteSet(DOMAIN t)
    BY FS_Subset, TableAssumption DEF IsRoutingTable
  <2>2. Cardinality(DOMAIN t) \in Nat
    BY <2>1, FS_CardinalityType
  <2> DEFINE d == (Cardinality(DOMAIN t) + MaxEntry - 1) \div MaxEntry
  <2>3. d \in Nat
    BY <2>2, TableAssumption, SMTT(30)
  <2>4. DOMAIN Responses(t, i) = 1 .. d
    BY DEF Responses
  <2> QED BY <2>3, <2>4
<1>2. ASSUME NEW n \in DOMAIN Responses(t, i)
      PROVE  LET es == Responses(t, i)[n] IN
                /\ IsRipEntries(es)
                /\ \A p \in DOMAIN es : p \in DOMAIN t /\ es[p] \in {Infinity, t[p].metric}
  <2> DEFINE es == Responses(t, i)[n]
  <2>1. es = [p \in Batch(t, n) |-> Advertised(t[p], i)]
    BY DEF Responses
  <2>2. Batch(t, n) \subseteq DOMAIN t
    BY DEF Batch
  <2>3. ASSUME NEW p \in Batch(t, n)
        PROVE  Advertised(t[p], i) \in 1 .. Infinity /\ Advertised(t[p], i) \in {Infinity, t[p].metric}
    <3>1. t[p] \in RoutingTableEntry
      BY <2>2 DEF IsRoutingTable
    <3> QED BY <3>1, TableAssumption DEF Advertised, RoutingTableEntry
  <2> QED BY <2>1, <2>2, <2>3 DEF IsRipEntries, IsRoutingTable
<1> QED BY <1>1, <1>2

(* The packets of an update *)

LEMMA DivIs ==
  ASSUME NEW x \in Nat, NEW d \in Nat \ {0}, NEW k \in Nat
  PROVE x \div d = k <=> k * d <= x /\ x < k * d + d
BY SMTT(30)

\* Position of p among the keys of t.
Rank(t, p) == Cardinality({q \in DOMAIN t : q < p})

LEMMA RankType ==
  ASSUME NEW t, IsRoutingTable(t)
  PROVE  LET N == Cardinality(DOMAIN t) IN
         /\ IsFiniteSet(DOMAIN t) /\ N \in Nat
         /\ \A p \in DOMAIN t : Rank(t, p) \in 0 .. N - 1
         /\ \A p, q \in DOMAIN t : Rank(t, p) = Rank(t, q) => p = q
         /\ \A k \in 0 .. N - 1 : \E p \in DOMAIN t : Rank(t, p) = k
<1> DEFINE S == DOMAIN t
           N == Cardinality(S)
           below(p) == {q \in S : q < p}
<1>1. S \subseteq Nat /\ IsFiniteSet(S) /\ N \in Nat
  BY FS_Subset, FS_CardinalityType, TableAssumption DEF IsRoutingTable
<1> HIDE DEF S
<1>2. ASSUME NEW p \in S
      PROVE  IsFiniteSet(below(p)) /\ Cardinality(below(p)) \in 0 .. N - 1
  <2>1. below(p) \in SUBSET S /\ p \notin below(p)
    BY <1>1
  <2> HIDE DEF below
  <2>2. IsFiniteSet(below(p)) /\ Cardinality(below(p)) <= N /\ Cardinality(below(p)) # N
    BY <1>1, <2>1, FS_Subset
  <2>3. Cardinality(below(p)) \in Nat
    BY <2>2, FS_CardinalityType
  <2> HIDE DEF N
  <2> QED BY <1>1, <2>2, <2>3
<1>3. ASSUME NEW p \in S, NEW q \in S, p < q
      PROVE  Cardinality(below(p)) # Cardinality(below(q))
  <2>1. p \in below(q) /\ p \notin below(p)
    BY <1>1, <1>3
  <2>2. \A x \in below(p) : x \in below(q)
    BY <1>1, <1>3
  <2>3. IsFiniteSet(below(q))
    BY <1>2
  <2> HIDE DEF below
  <2> QED BY <2>1, <2>2, <2>3, FS_Subset
<1> DEFINE f == [p \in S |-> Cardinality(below(p))]
<1>4. f \in Injection(S, 0 .. N - 1)
  <2>1. f \in [S -> 0 .. N - 1]
    BY <1>2
  <2>2. \A p, q \in S : f[p] = f[q] => p = q
    BY <1>1, <1>3
  <2> HIDE DEF f
  <2> QED BY <2>1, <2>2 DEF Injection, IsInjective
<1>5. IsFiniteSet(0 .. N - 1) /\ Cardinality(0 .. N - 1) = N
  <2> HIDE DEF N
  <2> QED BY <1>1, FS_Interval
<1>6. f \in Surjection(S, 0 .. N - 1)
  <2> HIDE DEF f
  <2>1. Cardinality(S) = Cardinality(0 .. N - 1)
    BY <1>5 DEF N
  <2> HIDE DEF N
  <2> QED BY <1>4, <1>5, <2>1, FS_Injection
<1>7. \A k \in 0 .. N - 1 : \E p \in S : f[p] = k
  <2> HIDE DEF f, N
  <2> QED BY <1>6 DEF Surjection
<1>8. \A p \in S : Rank(t, p) = f[p]
  BY DEF Rank, S
<1>9. \A p, q \in S : f[p] = f[q] => p = q
  <2> HIDE DEF f, N
  <2> QED BY <1>4 DEF Injection, IsInjective
<1>10. \A p \in S : f[p] \in 0 .. N - 1
  BY <1>2
<1> HIDE DEF f, N
<1> QED BY <1>1, <1>7, <1>8, <1>9, <1>10 DEF S, N

\* The n-th packet takes the keys with the ranks (n - 1) * MaxEntry up to
\* n * MaxEntry - 1: never none, and never more than MaxEntry.
LEMMA BatchSize ==
  ASSUME NEW t, IsRoutingTable(t), NEW i, NEW n \in DOMAIN Responses(t, i)
  PROVE  /\ DOMAIN Responses(t, i)[n] = Batch(t, n)
         /\ Cardinality(Batch(t, n)) \in 1 .. MaxEntry
<1> DEFINE N == Cardinality(DOMAIN t)
           B == Batch(t, n)
           lo == (n - 1) * MaxEntry
           T == {k \in 0 .. N - 1 : lo <= k /\ k < lo + MaxEntry}
<1>1. N \in Nat /\ IsFiniteSet(DOMAIN t) /\ MaxEntry \in Nat \ {0}
  BY RankType, TableAssumption
<1> HIDE DEF N
<1>2. DOMAIN Responses(t, i)[n] = B
  BY DEF Responses
<1>3. n \in 1 .. (N + MaxEntry - 1) \div MaxEntry
  BY DEF Responses, N
<1>4. n \in Nat /\ n >= 1 /\ lo \in Nat /\ lo < N
  <2> DEFINE c == (N + MaxEntry - 1) \div MaxEntry
  <2>1. c \in Nat
    BY <1>1, SMTT(30)
  <2>2. c * MaxEntry <= N + MaxEntry - 1
    BY <1>1, <2>1, DivIs
  <2> HIDE DEF c
  <2>3. n \in Nat /\ n >= 1 /\ n <= c
    BY <1>3, <2>1 DEF c
  <2>4. n * MaxEntry <= c * MaxEntry
    BY <1>1, <2>1, <2>3, SMTT(30)
  <2>5. lo = n * MaxEntry - MaxEntry /\ n * MaxEntry \in Nat /\ lo \in Nat
    BY <1>1, <2>3, SMTT(30)
  <2> HIDE DEF lo
  <2> QED BY <1>1, <2>1, <2>2, <2>3, <2>4, <2>5
<1>5. ASSUME NEW p \in DOMAIN t
      PROVE  p \in B <=> Rank(t, p) \in T
  <2>1. Rank(t, p) \in 0 .. N - 1
    BY RankType DEF N
  <2>2. p \in B <=> Rank(t, p) \div MaxEntry = n - 1
    BY DEF Batch, Rank
  <2>3. Rank(t, p) \in Nat /\ n - 1 \in Nat
    BY <1>1, <1>4, <2>1
  <2>4. Rank(t, p) \div MaxEntry = n - 1 <=> lo <= Rank(t, p) /\ Rank(t, p) < lo + MaxEntry
    BY <1>1, <2>3, DivIs
  <2> HIDE DEF B, lo
  <2> QED BY <2>1, <2>2, <2>4
<1>6. B \subseteq DOMAIN t
  BY DEF Batch
<1>7. lo \in T
  <2> HIDE DEF lo
  <2> QED BY <1>1, <1>4
<1>8. T \in SUBSET (lo .. lo + MaxEntry - 1)
  <2> HIDE DEF lo
  <2> QED BY <1>1, <1>4
<1> HIDE DEF B, T, lo
<1>9. IsFiniteSet(T) /\ Cardinality(T) \in Nat /\ Cardinality(T) >= 1 /\ Cardinality(T) <= MaxEntry
  <2>1. IsFiniteSet(lo .. lo + MaxEntry - 1) /\ Cardinality(lo .. lo + MaxEntry - 1) = MaxEntry
    BY <1>1, <1>4, FS_Interval
  <2>2. IsFiniteSet(T) /\ Cardinality(T) <= MaxEntry
    BY <1>8, <2>1, FS_Subset
  <2>3. Cardinality(T) \in Nat /\ Cardinality(T) # 0
    BY <1>7, <2>2, FS_CardinalityType, FS_EmptySet
  <2> QED BY <2>2, <2>3
<1>10. ExistsBijection(T, B)
  <2> DEFINE g == [p \in B |-> Rank(t, p)]
  <2>1. g \in [B -> T]
    BY <1>5, <1>6
  <2>2. \A p, q \in B : g[p] = g[q] => p = q
    BY <1>6, RankType
  <2>3. \A k \in T : \E p \in B : g[p] = k
    <3> SUFFICES ASSUME NEW k \in T PROVE \E p \in B : g[p] = k
      OBVIOUS
    <3>1. PICK p \in DOMAIN t : Rank(t, p) = k
      BY RankType DEF T, N
    <3> QED BY <1>5, <3>1
  <2> HIDE DEF g
  <2>4. g \in Bijection(B, T)
    BY <2>1, <2>2, <2>3 DEF Bijection, Injection, IsInjective, Surjection
  <2>5. ExistsBijection(B, T)
    BY <2>4 DEF ExistsBijection
  <2> QED BY <2>5, Fun_ExistsBijSymmetric
<1>11. Cardinality(B) = Cardinality(T)
  BY <1>9, <1>10, FS_Bijection
<1> QED BY <1>1, <1>2, <1>9, <1>11 DEF B

\* Every key is in one packet.
LEMMA BatchOnce ==
  ASSUME NEW t, IsRoutingTable(t), NEW i, NEW p \in DOMAIN t
  PROVE  Cardinality({n \in DOMAIN Responses(t, i) : p \in DOMAIN Responses(t, i)[n]}) = 1
<1> DEFINE N == Cardinality(DOMAIN t)
           out == Responses(t, i)
           k == Rank(t, p)
           c == (N + MaxEntry - 1) \div MaxEntry
           d == k \div MaxEntry
<1>1. N \in Nat /\ MaxEntry \in Nat \ {0} /\ k \in 0 .. N - 1
  BY RankType, TableAssumption
<1>2. DOMAIN out = 1 .. c
  BY DEF Responses
<1>3. \A n \in 1 .. c : p \in DOMAIN out[n] <=> d = n - 1
  BY DEF Responses, Batch, Rank
<1> HIDE DEF N, k, out
<1>4. c \in Nat /\ d \in Nat
  BY <1>1, SMTT(30)
<1>5. d * MaxEntry <= k /\ N + MaxEntry - 1 < c * MaxEntry + MaxEntry
  BY <1>1, <1>4, DivIs
<1> HIDE DEF c, d
<1>6. d < c
  <2>1. SUFFICES ASSUME c <= d PROVE FALSE
    BY <1>4
  <2>2. c * MaxEntry <= d * MaxEntry /\ c * MaxEntry \in Nat /\ d * MaxEntry \in Nat
    BY <1>1, <1>4, <2>1, SMTT(30)
  <2> QED BY <1>1, <1>5, <2>2
<1>7. {n \in DOMAIN out : p \in DOMAIN out[n]} = {d + 1}
  BY <1>2, <1>3, <1>4, <1>6
<1> QED BY <1>7, FS_Singleton DEF out

-----------------------------------------------------------------------------
LEMMA Constants ==
  /\ BoundAssumption /\ DistanceAssumption
  /\ Infinity \in Nat /\ Infinity >= 2 /\ Direct \notin Addr /\ QueueCap \in Nat \ {0}
BY NetAssumption, TableAssumption DEF BoundAssumption

-----------------------------------------------------------------------------
(* The wire *)

IsOut(ms) ==
  /\ ms \in Seq({ms[n] : n \in DOMAIN ms})
  /\ \A n \in DOMAIN ms : IsMessage(ms[n])

\* Enqueueing invents no packet.
LEMMA EnqueueType ==
  ASSUME NEW q, IsBuffer(q), NEW ms, IsOut(ms)
  PROVE  /\ IsBuffer(Enqueue(q, ms))
         /\ \A n \in DOMAIN Enqueue(q, ms) :
              \/ \E k \in DOMAIN q : Enqueue(q, ms)[n] = q[k]
              \/ \E k \in DOMAIN ms : Enqueue(q, ms)[n] = ms[k]
<1> DEFINE S == {q[n] : n \in DOMAIN q} \cup {ms[n] : n \in DOMAIN ms}
           e == Enqueue(q, ms)
<1>1. q \in Seq(S) /\ ms \in Seq(S) /\ Len(q) \in Nat /\ Len(ms) \in Nat
  BY DEF IsBuffer, IsOut
<1>2. /\ q \o ms \in Seq(S) /\ Len(q \o ms) = Len(q) + Len(ms)
      /\ \A n \in 1 .. Len(q) + Len(ms) :
           (q \o ms)[n] = IF n <= Len(q) THEN q[n] ELSE ms[n - Len(q)]
  BY <1>1, ConcatProperties
<1>3. /\ e \in Seq(S) /\ Len(e) <= QueueCap /\ Len(e) <= Len(q) + Len(ms)
      /\ \A n \in 1 .. Len(e) : e[n] = (q \o ms)[n]
  <2>1. CASE Len(q) + Len(ms) <= QueueCap
    BY <1>1, <1>2, <2>1 DEF Enqueue
  <2>2. CASE ~(Len(q) + Len(ms) <= QueueCap)
    <3>1. e = SubSeq(q \o ms, 1, QueueCap)
      BY <2>2 DEF Enqueue
    <3>2. QueueCap \in 1 .. Len(q \o ms)
      BY <1>1, <1>2, <2>2, Constants
    <3>3. /\ e \in Seq(S) /\ Len(e) = QueueCap
          /\ \A n \in 1 .. QueueCap : e[n] = (q \o ms)[n]
      BY <1>2, <3>1, <3>2, Constants
    <3> QED BY <1>1, <1>2, <2>2, <3>3, Constants
  <2> QED BY <2>1, <2>2
<1>4. DOMAIN e = 1 .. Len(e) /\ DOMAIN q = 1 .. Len(q) /\ DOMAIN ms = 1 .. Len(ms)
  BY <1>1, <1>3
<1>5. ASSUME NEW n \in DOMAIN e
      PROVE  \/ \E k \in DOMAIN q : e[n] = q[k]
             \/ \E k \in DOMAIN ms : e[n] = ms[k]
  <2>1. n \in 1 .. Len(q) + Len(ms) /\ e[n] = (q \o ms)[n]
    BY <1>1, <1>3, <1>4
  <2>2. CASE n <= Len(q)
    BY <1>1, <1>2, <1>4, <2>1, <2>2
  <2>3. CASE ~(n <= Len(q))
    <3>1. n - Len(q) \in DOMAIN ms /\ e[n] = ms[n - Len(q)]
      BY <1>1, <1>2, <1>4, <2>1, <2>3
    <3> QED BY <3>1
  <2> QED BY <2>2, <2>3
<1>6. \A n \in DOMAIN e : IsMessage(e[n])
  BY <1>5 DEF IsBuffer, IsOut
<1>7. e \in Seq({e[n] : n \in DOMAIN e})
  BY <1>3, <1>4
<1> HIDE DEF e
<1>8. IsBuffer(e)
  BY <1>3, <1>6, <1>7 DEF IsBuffer
<1> QED BY <1>5, <1>8 DEF e

\* Taking a packet out of a buffer leaves the others.
LEMMA RemoveType ==
  ASSUME NEW q, IsBuffer(q), NEW k \in DOMAIN q
  PROVE  /\ IsBuffer(Remove(q, k))
         /\ \A n \in DOMAIN Remove(q, k) : \E l \in DOMAIN q : Remove(q, k)[n] = q[l]
<1> DEFINE S == {q[n] : n \in DOMAIN q}
           e == Remove(q, k)
<1>1. q \in Seq(S) /\ Len(q) \in Nat /\ k \in 1 .. Len(q) /\ DOMAIN q = 1 .. Len(q)
  BY DEF IsBuffer
<1>2. /\ SubSeq(q, 1, k - 1) \in Seq(S) /\ Len(SubSeq(q, 1, k - 1)) = k - 1
      /\ \A n \in 1 .. k - 1 : SubSeq(q, 1, k - 1)[n] = q[n]
  BY <1>1
<1>3. /\ SubSeq(q, k + 1, Len(q)) \in Seq(S)
      /\ Len(SubSeq(q, k + 1, Len(q))) = Len(q) - k
      /\ \A n \in 1 .. Len(q) - k : SubSeq(q, k + 1, Len(q))[n] = q[k + n]
  <2> DEFINE m == k + 1
             l == Len(q)
  <2>1. m \in Int /\ l \in Int /\ \A n \in m .. l : q[n] \in S
    BY <1>1
  <2> HIDE DEF m, l, S
  <2>2. /\ SubSeq(q, m, l) \in Seq(S)
        /\ Len(SubSeq(q, m, l)) = IF m <= l THEN l - m + 1 ELSE 0
        /\ \A n \in 1 .. l - m + 1 : SubSeq(q, m, l)[n] = q[m + n - 1]
    BY <2>1, SubSeqProperties
  <2> QED BY <1>1, <2>2 DEF m, l
<1>4. /\ e \in Seq(S) /\ Len(e) = Len(q) - 1
      /\ \A n \in 1 .. Len(e) : \E l \in DOMAIN q : e[n] = q[l]
  <2> DEFINE left == SubSeq(q, 1, k - 1)
             right == SubSeq(q, k + 1, Len(q))
  <2>1. e = left \o right
    BY DEF Remove
  <2>2. left \in Seq(S) /\ right \in Seq(S) /\ Len(left) = k - 1 /\ Len(right) = Len(q) - k
    BY <1>2, <1>3
  <2>3. /\ \A n \in 1 .. k - 1 : left[n] = q[n]
        /\ \A n \in 1 .. Len(q) - k : right[n] = q[k + n]
    BY <1>2, <1>3
  <2> HIDE DEF left, right, S, e
  <2>4. /\ e \in Seq(S) /\ Len(e) = Len(left) + Len(right)
        /\ \A n \in 1 .. Len(left) + Len(right) :
             e[n] = IF n <= Len(left) THEN left[n] ELSE right[n - Len(left)]
    BY <2>1, <2>2, ConcatProperties
  <2>5. Len(e) = Len(q) - 1
    BY <1>1, <2>2, <2>4
  <2>6. ASSUME NEW n \in 1 .. Len(e) PROVE \E l \in DOMAIN q : e[n] = q[l]
    <3>1. CASE n <= k - 1
      <4>1. e[n] = q[n] /\ n \in DOMAIN q
        BY <1>1, <2>2, <2>3, <2>4, <2>5, <3>1
      <4> QED BY <4>1
    <3>2. CASE ~(n <= k - 1)
      <4>1. n - (k - 1) \in 1 .. Len(q) - k /\ k + (n - (k - 1)) = n + 1
        BY <1>1, <2>5, <3>2
      <4>2. e[n] = right[n - (k - 1)]
        BY <1>1, <2>2, <2>4, <2>5, <3>2
      <4>3. e[n] = q[n + 1] /\ n + 1 \in DOMAIN q
        BY <1>1, <2>3, <2>5, <4>1, <4>2
      <4> QED BY <4>3
    <3> QED BY <3>1, <3>2
  <2> QED BY <2>4, <2>5, <2>6
<1>5. DOMAIN e = 1 .. Len(e)
  BY <1>4
<1>6. \A n \in DOMAIN e : IsMessage(e[n])
  BY <1>4, <1>5 DEF IsBuffer
<1>7. e \in Seq({e[n] : n \in DOMAIN e}) /\ Len(e) <= QueueCap
  <2>1. Len(e) <= QueueCap
    BY <1>1, <1>4, Constants DEF IsBuffer
  <2> HIDE DEF e
  <2>2. e \in Seq({e[n] : n \in DOMAIN e})
    BY <1>4, <1>5
  <2> QED BY <2>1, <2>2
<1> HIDE DEF e
<1>8. IsBuffer(e)
  BY <1>6, <1>7 DEF IsBuffer
<1> QED BY <1>4, <1>5, <1>8 DEF e

-----------------------------------------------------------------------------
(* The inductive invariant, split into what it says of the buffers and of  *)
(* the tables                                                              *)

\* What packet m may say in a buffer of interface j of router s.
Trustworthy(m, s, j) ==
  m.type = "response" =>
    /\ Hears(s, j, m.from[1], m.from[2])
    /\ \A p \in DOMAIN m.entries :
         m.entries[p] < Infinity => m.entries[p] >= Distance[m.from[1]][p]

GoodBuffer(q, s, j) ==
  IsBuffer(q) /\ \A n \in DOMAIN q : Trustworthy(q[n], s, j)

GoodBuffers(bufs) ==
  /\ DOMAIN bufs = Router
  /\ \A s \in Router : DOMAIN bufs[s] = Iface /\ \A j \in Iface : GoodBuffer(bufs[s][j], s, j)

\* Table t suits router r, which runs if `running`.
GoodTable(t, r, running) ==
  /\ IsRoutingTable(t)
  /\ ~running => t = <<>>
  /\ running =>
       /\ \A p \in DOMAIN DirectRoutes(r) : p \in DOMAIN t /\ t[p] = DirectRoutes(r)[p]
       /\ \A p \in DOMAIN t \ DOMAIN DirectRoutes(r) : t[p].nexthop # Direct
  /\ \A p \in DOMAIN t : t[p].metric >= Distance[r][p]

GoodTables ==
  DOMAIN table = Router /\ \A r \in Router : GoodTable(table[r], r, up[r])

Counters ==
  up \in [Router -> BOOLEAN] /\ crashes \in 0 .. MaxCrash /\ losses \in 0 .. MaxLoss

LEMMA IInvParts == IInv <=> Counters /\ GoodTables /\ GoodBuffers(rx)
<1>1. IInv => Counters /\ GoodTables
  BY DEF IInv, TypeOK, DownEmpty, DirectRoutesKept, NeverTooNear, Counters, GoodTables, GoodTable
<1>2. IInv => GoodBuffers(rx)
  BY DEF IInv, TypeOK, FromNeighbour, NeverTooNear, GoodBuffers, GoodBuffer, Trustworthy
<1>3. Counters /\ GoodTables /\ GoodBuffers(rx) => TypeOK
  BY DEF TypeOK, Counters, GoodTables, GoodTable, GoodBuffers, GoodBuffer
<1>4. GoodTables => DownEmpty /\ DirectRoutesKept
  BY DEF DownEmpty, DirectRoutesKept, GoodTables, GoodTable
<1>5. GoodTables /\ GoodBuffers(rx) => FromNeighbour /\ NeverTooNear
  BY DEF FromNeighbour, NeverTooNear, GoodTables, GoodTable, GoodBuffers, GoodBuffer, Trustworthy
<1> QED BY <1>1, <1>2, <1>3, <1>4, <1>5 DEF IInv

\* Sending packets that every listener may believe keeps the buffers good.
LEMMA TransmitGood ==
  ASSUME NEW bufs, GoodBuffers(bufs), NEW r \in Router, NEW out,
         \A i \in Iface : IsOut(out[i]),
         \A i \in Iface, s \in Router, j \in Iface : Hears(s, j, r, i) =>
            \A n \in DOMAIN out[i] : Trustworthy(out[i][n], s, j)
  PROVE  GoodBuffers(Transmit(bufs, r, out))
<1> DEFINE after == Transmit(bufs, r, out)
<1>1. ASSUME NEW s \in Router, NEW j \in Iface PROVE GoodBuffer(after[s][j], s, j)
  <2>1. CASE up[s] /\ \E i \in Iface : Hears(s, j, r, i)
    <3> DEFINE i == CHOOSE i \in Iface : Hears(s, j, r, i)
    <3>1. i \in Iface /\ Hears(s, j, r, i)
      BY <2>1
    <3>2. after[s][j] = Enqueue(bufs[s][j], out[i])
      BY <2>1 DEF Transmit
    <3> HIDE DEF i, after
    <3>3. IsBuffer(bufs[s][j]) /\ IsOut(out[i])
      BY <3>1 DEF GoodBuffers, GoodBuffer
    <3>4. /\ IsBuffer(after[s][j])
          /\ \A n \in DOMAIN after[s][j] :
               \/ \E k \in DOMAIN bufs[s][j] : after[s][j][n] = bufs[s][j][k]
               \/ \E k \in DOMAIN out[i] : after[s][j][n] = out[i][k]
      BY <3>2, <3>3, EnqueueType
    <3>5. \A n \in DOMAIN after[s][j] : Trustworthy(after[s][j][n], s, j)
      BY <3>1, <3>4 DEF GoodBuffers, GoodBuffer
    <3> QED BY <3>4, <3>5 DEF GoodBuffer
  <2>2. CASE ~(up[s] /\ \E i \in Iface : Hears(s, j, r, i))
    BY <2>2 DEF Transmit, GoodBuffers
  <2> QED BY <2>1, <2>2
<1>2. DOMAIN after = Router /\ \A s \in Router : DOMAIN after[s] = Iface
  BY DEF Transmit
<1> QED BY <1>1, <1>2 DEF GoodBuffers

\* So does taking a packet out.
LEMMA WithoutGood ==
  ASSUME NEW bufs, GoodBuffers(bufs), NEW r \in Router, NEW i \in Iface,
         NEW n \in DOMAIN bufs[r][i]
  PROVE  GoodBuffers(Without(bufs, r, i, n))
<1> DEFINE after == Without(bufs, r, i, n)
<1>1. /\ DOMAIN after = Router /\ \A s \in Router : DOMAIN after[s] = Iface
      /\ after[r][i] = Remove(bufs[r][i], n)
      /\ \A s \in Router, j \in Iface : <<s, j>> # <<r, i>> => after[s][j] = bufs[s][j]
  BY DEF Without, GoodBuffers
<1> HIDE DEF after
<1>2. /\ IsBuffer(after[r][i])
      /\ \A k \in DOMAIN after[r][i] : \E l \in DOMAIN bufs[r][i] : after[r][i][k] = bufs[r][i][l]
  BY <1>1, RemoveType DEF GoodBuffers, GoodBuffer
<1>3. GoodBuffer(after[r][i], r, i)
  BY <1>2 DEF GoodBuffers, GoodBuffer
<1>4. \A s \in Router, j \in Iface : GoodBuffer(after[s][j], s, j)
  BY <1>1, <1>3 DEF GoodBuffers
<1> QED BY <1>1, <1>4 DEF GoodBuffers, after

\* What sendRipResp makes of a good table may be believed by every listener.
LEMMA RipResponsesGood ==
  ASSUME NEW r \in Router, GoodTable(table[r], r, up[r]), NEW ports, NEW i \in Iface
  PROVE  /\ IsOut(RipResponses(r, ports)[i])
         /\ \A s \in Router, j \in Iface : Hears(s, j, r, i) =>
              \A n \in DOMAIN RipResponses(r, ports)[i] :
                Trustworthy(RipResponses(r, ports)[i][n], s, j)
<1> DEFINE ms == RipResponses(r, ports)[i]
           rs == Responses(table[r], i)
<1>1. CASE i \notin ports
  <2>1. ms = <<>>
    BY <1>1 DEF RipResponses
  <2> QED BY <2>1 DEF IsOut
<1>2. CASE i \in ports
  <2>1. DOMAIN ms = DOMAIN rs /\ \A n \in DOMAIN rs : ms[n] = Response(<<r, i>>, rs[n])
    BY <1>2 DEF RipResponses
  <2>2. IsRoutingTable(table[r])
    BY DEF GoodTable
  <2>3. PICK k \in Nat : DOMAIN rs = 1 .. k
    BY <2>2, ResponsesType
  <2>4. \A n \in DOMAIN rs : /\ IsRipEntries(rs[n])
                             /\ \A p \in DOMAIN rs[n] : /\ p \in DOMAIN table[r]
                                                       /\ rs[n][p] \in {Infinity, table[r][p].metric}
    BY <2>2, ResponsesType
  <2>5. ms = [n \in 1 .. k |-> ms[n]]
    BY <1>2, <2>3 DEF RipResponses
  <2> HIDE DEF ms, rs
  <2>6. ms \in Seq({ms[n] : n \in DOMAIN ms})
    BY <2>1, <2>3, <2>5
  <2>7. ASSUME NEW n \in DOMAIN ms
        PROVE  /\ IsMessage(ms[n])
               /\ \A s \in Router, j \in Iface : Hears(s, j, r, i) => Trustworthy(ms[n], s, j)
    <3>1. /\ ms[n].type = "response" /\ ms[n].from = <<r, i>> /\ ms[n].entries = rs[n]
          /\ ms[n] = Response(<<r, i>>, ms[n].entries)
      BY <2>1 DEF Response
    <3>2. <<r, i>> \in Addr
      BY DEF Addr
    <3>3. IsMessage(ms[n])
      BY <2>1, <2>4, <3>1, <3>2 DEF IsMessage
    <3>4. \A p \in DOMAIN rs[n] : rs[n][p] < Infinity => rs[n][p] >= Distance[r][p]
      BY <2>1, <2>4, Constants DEF GoodTable
    <3>5. ms[n].from[1] = r /\ ms[n].from[2] = i
      BY <3>1
    <3> QED BY <3>1, <3>3, <3>4, <3>5 DEF Trustworthy
  <2> QED BY <2>6, <2>7 DEF IsOut, ms
<1> QED BY <1>1, <1>2

-----------------------------------------------------------------------------
(* Every action preserves the invariant *)

LEMMA DirectRoutesType ==
  ASSUME NEW r \in Router
  PROVE  /\ IsRoutingTable(DirectRoutes(r))
         /\ \A p \in DOMAIN DirectRoutes(r) :
              /\ DirectRoutes(r)[p].nexthop = Direct /\ DirectRoutes(r)[p].metric = 1
              /\ p \in Prefix /\ Distance[r][p] = 1
         /\ \A p \in Prefix : Distance[r][p] = 1 => p \in DOMAIN DirectRoutes(r)
<1> DEFINE d == DirectRoutes(r)
<1>1. DOMAIN d = {Attach[r][i] : i \in Iface} \cap Prefix
  BY DEF DirectRoutes
<1>2. \A p \in Prefix : Distance[r][p] = 1 <=> \E i \in Iface : Attach[r][i] = p
  BY Constants DEF DistanceAssumption
<1>3. ASSUME NEW p \in DOMAIN d
      PROVE  d[p] \in RoutingTableEntry /\ d[p].nexthop = Direct /\ d[p].metric = 1
  <2> DEFINE i == CHOOSE i \in Iface : Attach[r][i] = p
  <2>1. i \in Iface
    BY <1>1
  <2>2. d[p] = [if_index |-> i, nexthop |-> Direct, metric |-> 1]
    BY <1>1 DEF DirectRoutes
  <2> HIDE DEF i, d
  <2> QED BY <2>1, <2>2, Constants DEF RoutingTableEntry
<1>4. d = [p \in DOMAIN d |-> d[p]]
  BY DEF DirectRoutes
<1> QED BY <1>1, <1>2, <1>3, <1>4 DEF IsRoutingTable

LEMMA InitIInv == Init => IInv
<1> SUFFICES ASSUME Init PROVE Counters /\ GoodTables /\ GoodBuffers(rx)
  BY IInvParts
<1>1. Counters
  BY Constants DEF Init, Counters, BoundAssumption
<1>2. GoodTables
  <2>1. IsRoutingTable(<<>>)
    BY DEF IsRoutingTable
  <2> QED BY <2>1 DEF Init, GoodTables, GoodTable
<1>3. GoodBuffers(rx)
  <2>1. IsBuffer(<<>>)
    BY Constants DEF IsBuffer
  <2> QED BY <2>1 DEF Init, GoodBuffers, GoodBuffer
<1> QED BY <1>1, <1>2, <1>3

\* IInvParts in the next state.
LEMMA IInvPartsNext == (Counters /\ GoodTables /\ GoodBuffers(rx))' => IInv'
BY IInvParts, PTL

\* A good table stays good with everything but the routers it is about.
LEMMA OtherTables ==
  ASSUME IInv, NEW r \in Router, NEW t, NEW running \in BOOLEAN,
         table' = [table EXCEPT ![r] = t], up' = [up EXCEPT ![r] = running],
         GoodTable(t, r, running)
  PROVE  GoodTables'
<1>1. GoodTables /\ Counters
  BY IInvParts
<1>2. DOMAIN table' = Router /\ table'[r] = t /\ up'[r] = running
  BY <1>1 DEF GoodTables, Counters
<1>3. \A s \in Router : s # r => table'[s] = table[s] /\ up'[s] = up[s]
  BY <1>1 DEF GoodTables, Counters
<1>4. \A s \in Router : GoodTable(table'[s], s, up'[s])
  BY <1>1, <1>2, <1>3 DEF GoodTables
<1> QED BY <1>2, <1>4 DEF GoodTables

LEMMA BootIInv == ASSUME IInv, NEW r \in Router, Boot(r) PROVE IInv'
<1>1. Counters /\ GoodTables /\ GoodBuffers(rx)
  BY IInvParts
<1>2. Counters'
  BY <1>1 DEF Boot, Counters
<1>3. GoodTables'
  <2>1. GoodTable(DirectRoutes(r), r, TRUE)
    BY DirectRoutesType DEF GoodTable
  <2> QED BY <2>1, OtherTables DEF Boot
<1>4. GoodBuffers(rx')
  <2> DEFINE out == [i \in Iface |-> <<Request>>]
  <2>1. IsOut(<<Request>>)
    BY DEF IsOut, IsMessage
  <2>2. \A s \in Router, j \in Iface : Trustworthy(Request, s, j)
    BY DEF Trustworthy, Request
  <2>3. GoodBuffers(Transmit(rx, r, out))
    BY <1>1, <2>1, <2>2, TransmitGood
  <2>4. rx' = Transmit(rx, r, out)
    BY DEF Boot
  <2> QED BY <2>3, <2>4
<1> QED BY <1>2, <1>3, <1>4, IInvPartsNext

\* The packet a handler takes is the first of its buffer.
LEMMA HeadInBuffer ==
  ASSUME NEW bufs, GoodBuffers(bufs), NEW r \in Router, NEW i \in Iface, bufs[r][i] # <<>>
  PROVE  1 \in DOMAIN bufs[r][i] /\ Head(bufs[r][i]) = bufs[r][i][1]
BY DEF GoodBuffers, GoodBuffer, IsBuffer

\* sendRipResp does no harm, whatever the ports.
LEMMA SendGood ==
  ASSUME IInv, NEW r \in Router, NEW ports, NEW bufs, GoodBuffers(bufs)
  PROVE  GoodBuffers(Transmit(bufs, r, RipResponses(r, ports)))
<1>1. GoodTable(table[r], r, up[r])
  BY IInvParts DEF GoodTables
<1> DEFINE out == RipResponses(r, ports)
<1>2. \A i \in Iface :
        /\ IsOut(out[i])
        /\ \A s \in Router, j \in Iface : Hears(s, j, r, i) =>
             \A n \in DOMAIN out[i] : Trustworthy(out[i][n], s, j)
  BY <1>1, RipResponsesGood
<1> HIDE DEF out
<1>3. GoodBuffers(Transmit(bufs, r, out))
  BY <1>2, TransmitGood
<1> QED BY <1>3 DEF out

LEMMA TimerIInv == ASSUME IInv, NEW r \in Router, Timer(r) PROVE IInv'
<1>1. Counters /\ GoodTables /\ GoodBuffers(rx)
  BY IInvParts
<1>2. Counters' /\ GoodTables'
  BY <1>1 DEF Timer, Counters, GoodTables
<1>3. rx' = Transmit(rx, r, RipResponses(r, Iface))
  BY DEF Timer
<1>4. GoodBuffers(rx')
  BY <1>1, <1>3, SendGood
<1> QED BY <1>2, <1>4, IInvPartsNext

LEMMA HandleRequestIInv ==
  ASSUME IInv, NEW r \in Router, NEW i \in Iface, HandleRequest(r, i) PROVE IInv'
<1>1. Counters /\ GoodTables /\ GoodBuffers(rx)
  BY IInvParts
<1>2. Counters' /\ GoodTables'
  BY <1>1 DEF HandleRequest, Counters, GoodTables
<1>3. GoodBuffers(Without(rx, r, i, 1))
  BY <1>1, HeadInBuffer, WithoutGood DEF HandleRequest
<1>4. GoodBuffers(Transmit(Without(rx, r, i, 1), r, RipResponses(r, {i})))
  BY <1>3, SendGood
<1>5. rx' = Transmit(Without(rx, r, i, 1), r, RipResponses(r, {i}))
  BY DEF HandleRequest
<1>6. GoodBuffers(rx')
  BY <1>4, <1>5
<1> QED BY <1>2, <1>6, IInvPartsNext

\* A route that is learned from a trustworthy packet is not too short: the
\* sender is one hop away.
LEMMA LearnGood ==
  ASSUME NEW r \in Router, NEW i \in Iface, NEW t, GoodTable(t, r, TRUE),
         NEW m, IsMessage(m), m.type = "response", Trustworthy(m, r, i)
  PROVE  GoodTable(Learn(t, i, m.from, m.entries), r, TRUE)
<1> DEFINE es == m.entries
           u == Learn(t, i, m.from, es)
<1>1. m.from \in Addr /\ IsRipEntries(es) /\ IsRoutingTable(t)
  BY DEF IsMessage, Request, Response, GoodTable
<1>2. PICK s \in Router, j \in Iface : m.from = <<s, j>>
  BY <1>1 DEF Addr
<1>3. Hears(r, i, s, j)
  BY <1>2 DEF Trustworthy
<1>4. \A p \in Prefix : Distance[r][p] <= Distance[s][p] + 1
  <2>1. Neighbours(r, s)
    BY <1>3 DEF Neighbours, Hears
  <2> QED BY <2>1, Constants DEF DistanceAssumption
<1>5. IsRoutingTable(u)
  BY <1>1, LearnType
<1>6. ASSUME NEW p \in DOMAIN DirectRoutes(r)
      PROVE  p \in DOMAIN u /\ u[p] = DirectRoutes(r)[p]
  <2>1. p \in DOMAIN t /\ t[p] = DirectRoutes(r)[p]
    BY DEF GoodTable
  <2>2. t[p].nexthop = Direct /\ t[p].metric = 1
    BY <2>1, DirectRoutesType
  <2> QED BY <1>1, <2>1, <2>2, LearnKeepsDirect
<1>7. ASSUME NEW p \in DOMAIN u
      PROVE  /\ p \notin DOMAIN DirectRoutes(r) => u[p].nexthop # Direct
             /\ u[p].metric >= Distance[r][p]
  <2>1. \/ p \in DOMAIN t /\ u[p] = t[p]
        \/ /\ p \in DOMAIN es /\ u[p].nexthop = m.from
           /\ u[p].metric = es[p] + 1 /\ es[p] + 1 < Infinity
    BY <1>1, LearnOrigin
  <2>2. CASE p \in DOMAIN t /\ u[p] = t[p]
    BY <2>2 DEF GoodTable
  <2>3. CASE /\ p \in DOMAIN es /\ u[p].nexthop = m.from
             /\ u[p].metric = es[p] + 1 /\ es[p] + 1 < Infinity
    <3>1. p \in Prefix /\ es[p] \in Nat
      BY <1>1, <2>3, Constants DEF IsRipEntries
    <3>2. Distance[r][p] \in Nat /\ Distance[s][p] \in Nat
      BY <3>1, Constants DEF DistanceAssumption
    <3>3. es[p] >= Distance[s][p]
      BY <1>2, <2>3, <3>1, Constants DEF Trustworthy
    <3>4. u[p].metric >= Distance[r][p]
      BY <1>4, <2>3, <3>1, <3>2, <3>3
    <3> QED BY <1>1, <2>3, <3>4, Constants
  <2> QED BY <2>1, <2>2, <2>3
<1> HIDE DEF u
<1>8. GoodTable(u, r, TRUE)
  BY <1>5, <1>6, <1>7 DEF GoodTable
<1> QED BY <1>8 DEF u

LEMMA HandleResponseIInv ==
  ASSUME IInv, NEW r \in Router, NEW i \in Iface, HandleResponse(r, i) PROVE IInv'
<1>1. Counters /\ GoodTables /\ GoodBuffers(rx)
  BY IInvParts
<1>2. Counters'
  BY <1>1 DEF HandleResponse, Counters
<1> DEFINE m == Head(rx[r][i])
           t == Learn(table[r], i, m.from, m.entries)
<1>3. m.type = "response" /\ up[r] = TRUE
  BY <1>1 DEF HandleResponse, Counters
<1>4. 1 \in DOMAIN rx[r][i] /\ m = rx[r][i][1]
  BY HeadInBuffer, <1>1 DEF HandleResponse
<1>5. IsMessage(m) /\ Trustworthy(m, r, i)
  BY <1>1, <1>4 DEF GoodBuffers, GoodBuffer, IsBuffer
<1>6. GoodTable(table[r], r, TRUE)
  BY <1>1, <1>3 DEF GoodTables
<1>7. table' = [table EXCEPT ![r] = t] /\ up' = [up EXCEPT ![r] = TRUE]
  BY <1>1, <1>3 DEF HandleResponse, Counters, GoodTables
<1>8. rx' = Without(rx, r, i, 1)
  BY DEF HandleResponse
<1> HIDE DEF m
<1>9. GoodTable(t, r, TRUE)
  BY <1>3, <1>5, <1>6, LearnGood
<1> HIDE DEF t
<1>10. GoodTables'
  BY <1>7, <1>9, OtherTables
<1>11. GoodBuffers(rx')
  BY <1>1, <1>4, <1>8, WithoutGood
<1> QED BY <1>2, <1>10, <1>11, IInvPartsNext

LEMMA CrashIInv == ASSUME IInv, NEW r \in Router, Crash(r) PROVE IInv'
<1>1. Counters /\ GoodTables /\ GoodBuffers(rx)
  BY IInvParts
<1>2. Counters'
  BY <1>1, Constants DEF Crash, Counters, BoundAssumption
<1>3. GoodTables'
  <2>1. GoodTable(<<>>, r, FALSE)
    BY DEF GoodTable, IsRoutingTable
  <2> QED BY <2>1, OtherTables DEF Crash
<1>4. GoodBuffers(rx')
  <2>1. \A i \in Iface : GoodBuffer(<<>>, r, i)
    BY Constants DEF GoodBuffer, IsBuffer
  <2> QED BY <1>1, <2>1 DEF Crash, GoodBuffers
<1> QED BY <1>2, <1>3, <1>4, IInvPartsNext

LEMMA LoseIInv == ASSUME IInv, NEW r \in Router, NEW i \in Iface, Lose(r, i) PROVE IInv'
<1>1. Counters /\ GoodTables /\ GoodBuffers(rx)
  BY IInvParts
<1>2. Counters'
  BY <1>1, Constants DEF Lose, Counters, BoundAssumption
<1>3. GoodTables'
  BY <1>1 DEF Lose, GoodTables
<1>4. GoodBuffers(rx')
  <2>1. PICK n \in DOMAIN rx[r][i] : rx' = Without(rx, r, i, n)
    BY DEF Lose
  <2> QED BY <1>1, <2>1, WithoutGood
<1> QED BY <1>2, <1>3, <1>4, IInvPartsNext

LEMMA NextIInv == IInv /\ [Next]_vars => IInv'
<1> SUFFICES ASSUME IInv, [Next]_vars PROVE IInv'
  OBVIOUS
<1>1. CASE UNCHANGED vars
  <2>1. Counters /\ GoodTables /\ GoodBuffers(rx)
    BY IInvParts
  <2>2. Counters' /\ GoodTables' /\ GoodBuffers(rx')
    BY <1>1, <2>1 DEF vars, Counters, GoodTables
  <2> QED BY <2>2, IInvPartsNext
<1>2. ASSUME NEW r \in Router, Boot(r) PROVE IInv'
  BY <1>2, BootIInv
<1>3. ASSUME NEW r \in Router, Timer(r) PROVE IInv'
  BY <1>3, TimerIInv
<1>4. ASSUME NEW r \in Router, Crash(r) PROVE IInv'
  BY <1>4, CrashIInv
<1>5. ASSUME NEW r \in Router, NEW i \in Iface, HandleRequest(r, i) PROVE IInv'
  BY <1>5, HandleRequestIInv
<1>6. ASSUME NEW r \in Router, NEW i \in Iface, HandleResponse(r, i) PROVE IInv'
  BY <1>6, HandleResponseIInv
<1>7. ASSUME NEW r \in Router, NEW i \in Iface, Lose(r, i) PROVE IInv'
  BY <1>7, LoseIInv
<1> QED BY <1>1, <1>2, <1>3, <1>4, <1>5, <1>6, <1>7 DEF Next, Receive

\* IInv holds in every reachable state of every network.
THEOREM Safety == Spec => []IInv
BY InitIInv, NextIInv, PTL DEF Spec

\* Every table and buffer keeps its type: only live metrics in tables.
THEOREM TypeCorrect == Spec => []TypeOK
<1>1. IInv => TypeOK
  BY DEF IInv
<1> QED BY <1>1, Safety, PTL

\* No response ever displaces a direct route of a running router.
THEOREM DirectRoutesStay == Spec => []DirectRoutesKept
<1>1. IInv => DirectRoutesKept
  BY DEF IInv
<1> QED BY <1>1, Safety, PTL

\* No router believes, and no packet claims, a subnet to be nearer than it is.
THEOREM NoShortcut == Spec => []NeverTooNear
<1>1. IInv => NeverTooNear
  BY DEF IInv
<1> QED BY <1>1, Safety, PTL

\* The periodic update tells every route of a table, once.
THEOREM UpdateComplete == Spec => []CompleteUpdate
<1>1. ASSUME IInv PROVE CompleteUpdate
  <2> SUFFICES ASSUME NEW r \in Router, NEW i \in Iface
               PROVE  LET out == Responses(table[r], i) IN
                        /\ \A n \in DOMAIN out : Cardinality(DOMAIN out[n]) \in 1 .. MaxEntry
                        /\ \A p \in DOMAIN table[r] :
                             Cardinality({n \in DOMAIN out : p \in DOMAIN out[n]}) = 1
    BY DEF CompleteUpdate
  <2>1. IsRoutingTable(table[r])
    BY <1>1, IInvParts DEF GoodTables, GoodTable
  <2> QED BY <2>1, BatchSize, BatchOnce
<1> QED BY <1>1, Safety, PTL

-----------------------------------------------------------------------------
(***************************************************************************)
(* RipNetwork implements RouteService: what the routers believe changes    *)
(* only as the abstract specification allows.  Boot is Start, a response   *)
(* that is worked in is Revise, Crash is Stop, and nothing else changes a  *)
(* belief.                                                                 *)
(***************************************************************************)

\* The belief router r gets from table t.
Belief(t) == [p \in Prefix |-> IF p \in DOMAIN t THEN t[p].metric ELSE Infinity]

\* One table at a time: beliefs of the other routers stay.
LEMMA BelievedExcept ==
  ASSUME DOMAIN table = Router, NEW r \in Router, NEW t,
         table' = [table EXCEPT ![r] = t]
  PROVE  Believed' = [Believed EXCEPT ![r] = Belief(t)]
<1>1. DOMAIN table' = Router /\ table'[r] = t
      /\ \A s \in Router : s # r => table'[s] = table[s]
  OBVIOUS
<1>2. Believed' = [s \in Router |-> Belief(table'[s])]
  BY DEF Believed, Belief
<1>3. Believed = [s \in Router |-> Belief(table[s])]
  BY DEF Believed, Belief
<1>4. [Believed EXCEPT ![r] = Belief(t)] =
        [s \in Router |-> IF s = r THEN Belief(t) ELSE Belief(table[s])]
  BY <1>3
<1>5. \A s \in Router : Belief(table'[s]) = IF s = r THEN Belief(t) ELSE Belief(table[s])
  BY <1>1
<1> HIDE DEF Belief, Believed
<1> QED BY <1>2, <1>4, <1>5

\* A good table of a running router gives a belief that Revise allows.
LEMMA BeliefSound ==
  ASSUME NEW r \in Router, NEW t, GoodTable(t, r, TRUE), NEW p \in Prefix
  PROVE  Belief(t)[p] \in IF Distance[r][p] = 1 THEN {1} ELSE Service!Sound(r, p)
<1>1. Distance[r][p] \in Nat \ {0} /\ Infinity \in Nat /\ Infinity >= 2
  BY Constants DEF DistanceAssumption
<1>2. CASE Distance[r][p] = 1
  <2>1. p \in DOMAIN DirectRoutes(r) /\ DirectRoutes(r)[p].metric = 1
    BY <1>2, DirectRoutesType
  <2> QED BY <1>2, <2>1 DEF GoodTable, Belief
<1>3. CASE Distance[r][p] # 1 /\ p \in DOMAIN t
  <2>1. t[p].metric \in 1 .. Infinity - 1
    BY <1>3 DEF GoodTable, IsRoutingTable, RoutingTableEntry
  <2>2. t[p].metric >= Distance[r][p]
    BY <1>3 DEF GoodTable
  <2>3. Belief(t)[p] = t[p].metric
    BY <1>3 DEF Belief
  <2>4. Belief(t)[p] \in Service!Sound(r, p)
    BY <1>1, <2>1, <2>2, <2>3 DEF Service!Sound
  <2> QED BY <1>3, <2>4
<1>4. CASE Distance[r][p] # 1 /\ p \notin DOMAIN t
  <2>1. Belief(t)[p] = Infinity
    BY <1>4 DEF Belief
  <2> QED BY <1>1, <1>4, <2>1 DEF Service!Sound
<1> QED BY <1>2, <1>3, <1>4

LEMMA ServiceInit == Init => Service!Init
BY DEF Init, Service!Init, Service!Nothing, Believed

LEMMA BootIsStart ==
  ASSUME IInv, NEW r \in Router, Boot(r) PROVE Service!Start(r)
<1>1. GoodTables
  BY IInvParts
<1>2. Believed[r] = Service!Nothing
  BY <1>1 DEF Boot, GoodTables, GoodTable, Believed, Service!Nothing
<1>3. Believed' = [Believed EXCEPT ![r] = Belief(DirectRoutes(r))]
  BY <1>1, BelievedExcept DEF Boot, GoodTables
<1>4. Belief(DirectRoutes(r)) = Service!OwnSubnets(r)
  BY DirectRoutesType DEF Belief, Service!OwnSubnets
<1> QED BY <1>2, <1>3, <1>4 DEF Service!Start

LEMMA HandleResponseIsRevise ==
  ASSUME IInv, IInv', NEW r \in Router, NEW i \in Iface, HandleResponse(r, i)
  PROVE  Service!Revise(r)
<1>1. GoodTables /\ Counters /\ GoodTables' /\ Counters'
  BY IInvParts, PTL
<1>2. up[r] = TRUE /\ up'[r] = TRUE
  BY <1>1 DEF HandleResponse, Counters
<1>3. GoodTable(table[r], r, TRUE) /\ GoodTable(table'[r], r, TRUE)
  BY <1>1, <1>2 DEF GoodTables
<1>4. Believed[r] = Belief(table[r])
  BY DEF Believed, Belief
<1>5. PICK t : table' = [table EXCEPT ![r] = t]
  BY DEF HandleResponse
<1>6. table'[r] = t
  BY <1>1, <1>5 DEF GoodTables
<1>7. Believed' = [Believed EXCEPT ![r] = Belief(t)]
  BY <1>1, <1>5, BelievedExcept DEF GoodTables
<1>8. Believed'[r] = Belief(t)
  BY <1>7 DEF Believed
<1>9. Belief(t) = [p \in Prefix |-> Belief(t)[p]]
  BY DEF Belief
<1>10. \A p \in Prefix : Distance[r][p] = 1 => Believed[r][p] = 1
  BY <1>3, <1>4, BeliefSound
<1>11. \A p \in Prefix : Believed'[r][p] \in IF Distance[r][p] = 1 THEN {1} ELSE Service!Sound(r, p)
  BY <1>3, <1>6, <1>8, BeliefSound
<1> HIDE DEF Belief
<1>12. Believed' = [Believed EXCEPT ![r] = [p \in Prefix |-> Believed'[r][p]]]
  BY <1>7, <1>8, <1>9
<1> QED BY <1>10, <1>11, <1>12 DEF Service!Revise

LEMMA CrashIsStop ==
  ASSUME IInv, NEW r \in Router, Crash(r) PROVE Service!Stop(r)
<1>1. GoodTables
  BY IInvParts
<1>2. Believed' = [Believed EXCEPT ![r] = Belief(<<>>)]
  BY <1>1, BelievedExcept DEF Crash, GoodTables
<1>3. Belief(<<>>) = Service!Nothing
  BY DEF Belief, Service!Nothing
<1> QED BY <1>2, <1>3 DEF Service!Stop

LEMMA ServiceStep == IInv /\ IInv' /\ [Next]_vars => [Service!Next]_Believed
<1> SUFFICES ASSUME IInv, IInv', [Next]_vars PROVE [Service!Next]_Believed
  OBVIOUS
<1>1. ASSUME table' = table PROVE Believed' = Believed
  BY <1>1 DEF Believed
<1>2. CASE UNCHANGED vars
  BY <1>1, <1>2 DEF vars
<1>3. ASSUME NEW r \in Router, Boot(r) PROVE Service!Next
  BY <1>3, BootIsStart DEF Service!Next
<1>4. ASSUME NEW r \in Router, Crash(r) PROVE Service!Next
  BY <1>4, CrashIsStop DEF Service!Next
<1>5. ASSUME NEW r \in Router, NEW i \in Iface, HandleResponse(r, i) PROVE Service!Next
  BY <1>5, HandleResponseIsRevise DEF Service!Next
<1>6. ASSUME NEW r \in Router, Timer(r) PROVE Believed' = Believed
  BY <1>1, <1>6 DEF Timer
<1>7. ASSUME NEW r \in Router, NEW i \in Iface, HandleRequest(r, i) PROVE Believed' = Believed
  BY <1>1, <1>7 DEF HandleRequest
<1>8. ASSUME NEW r \in Router, NEW i \in Iface, Lose(r, i) PROVE Believed' = Believed
  BY <1>1, <1>8 DEF Lose
<1> QED BY <1>2, <1>3, <1>4, <1>5, <1>6, <1>7, <1>8 DEF Next, Receive

\* Every behaviour of the routers is, seen through what they believe, one that
\* RouteService allows.
THEOREM Implementation == Spec => ImplementsRouteService
BY ServiceInit, ServiceStep, Safety, PTL DEF Spec, ImplementsRouteService, Service!Spec

-----------------------------------------------------------------------------
(***************************************************************************)
(* Where routes lead, on any network until the first crash: the metric of  *)
(* a route is greater than what its next hop believes and than all that    *)
(* its next hop's packets still say (Orderly), so that routes only improve *)
(* and next hops form no circle.                                           *)
(***************************************************************************)

\* Taking a packet out of a buffer leaves the others in their order.
LEMMA RemoveOrder ==
  ASSUME NEW q, IsBuffer(q), NEW k \in DOMAIN q
  PROVE  /\ \A n, m \in DOMAIN Remove(q, k) : n < m =>
              \E a, b \in DOMAIN q : a < b /\ Remove(q, k)[n] = q[a] /\ Remove(q, k)[m] = q[b]
         /\ \A n \in DOMAIN Remove(q, k) : \E a \in DOMAIN q : a # k /\ Remove(q, k)[n] = q[a]
<1> DEFINE S == {q[n] : n \in DOMAIN q}
           e == Remove(q, k)
           left == SubSeq(q, 1, k - 1)
           right == SubSeq(q, k + 1, Len(q))
<1>1. q \in Seq(S) /\ Len(q) \in Nat /\ k \in 1 .. Len(q) /\ DOMAIN q = 1 .. Len(q)
  BY DEF IsBuffer
<1>2. /\ left \in Seq(S) /\ Len(left) = k - 1
      /\ \A n \in 1 .. k - 1 : left[n] = q[n]
  BY <1>1
<1>3. /\ right \in Seq(S) /\ Len(right) = Len(q) - k
      /\ \A n \in 1 .. Len(q) - k : right[n] = q[k + n]
  <2> DEFINE m == k + 1
             l == Len(q)
  <2>1. m \in Int /\ l \in Int /\ \A n \in m .. l : q[n] \in S
    BY <1>1
  <2> HIDE DEF m, l, S
  <2>2. /\ SubSeq(q, m, l) \in Seq(S)
        /\ Len(SubSeq(q, m, l)) = IF m <= l THEN l - m + 1 ELSE 0
        /\ \A n \in 1 .. l - m + 1 : SubSeq(q, m, l)[n] = q[m + n - 1]
    BY <2>1, SubSeqProperties
  <2> QED BY <1>1, <2>2 DEF m, l
<1>4. e = left \o right
  BY DEF Remove
<1> HIDE DEF left, right, S, e
<1>5. /\ e \in Seq(S) /\ Len(e) = Len(left) + Len(right)
      /\ \A n \in 1 .. Len(left) + Len(right) :
           e[n] = IF n <= Len(left) THEN left[n] ELSE right[n - Len(left)]
  BY <1>2, <1>3, <1>4, ConcatProperties
<1>6. DOMAIN e = 1 .. Len(q) - 1
  BY <1>1, <1>2, <1>3, <1>5
<1> DEFINE at(n) == IF n < k THEN n ELSE n + 1
<1>7. ASSUME NEW n \in DOMAIN e
      PROVE  at(n) \in DOMAIN q /\ at(n) # k /\ e[n] = q[at(n)]
  <2>1. CASE n < k
    BY <1>1, <1>2, <1>3, <1>5, <1>6, <2>1
  <2>2. CASE ~(n < k)
    <3>1. n - (k - 1) \in 1 .. Len(q) - k /\ k + (n - (k - 1)) = n + 1
      BY <1>1, <1>6, <2>2
    <3>2. e[n] = right[n - (k - 1)]
      BY <1>1, <1>2, <1>3, <1>5, <1>6, <2>2
    <3> QED BY <1>1, <1>3, <1>6, <2>2, <3>1, <3>2
  <2> QED BY <2>1, <2>2
<1>8. \A n, m \in DOMAIN e : n < m => at(n) < at(m)
  BY <1>1, <1>6
<1> HIDE DEF at
<1> QED BY <1>7, <1>8 DEF e

\* What is enqueued stays behind what was there before.
LEMMA EnqueueAt ==
  ASSUME NEW q, IsBuffer(q), NEW ms, IsOut(ms), NEW n \in DOMAIN Enqueue(q, ms)
  PROVE  /\ n \in Nat /\ Len(q) \in Nat
         /\ n <= Len(q) => n \in DOMAIN q /\ Enqueue(q, ms)[n] = q[n]
         /\ n > Len(q) => n - Len(q) \in DOMAIN ms /\ Enqueue(q, ms)[n] = ms[n - Len(q)]
<1> DEFINE S == {q[k] : k \in DOMAIN q} \cup {ms[k] : k \in DOMAIN ms}
           e == Enqueue(q, ms)
<1>1. q \in Seq(S) /\ ms \in Seq(S) /\ Len(q) \in Nat /\ Len(ms) \in Nat
  BY DEF IsBuffer, IsOut
<1>2. /\ q \o ms \in Seq(S) /\ Len(q \o ms) = Len(q) + Len(ms)
      /\ \A k \in 1 .. Len(q) + Len(ms) :
           (q \o ms)[k] = IF k <= Len(q) THEN q[k] ELSE ms[k - Len(q)]
  BY <1>1, ConcatProperties
<1>3. n \in 1 .. Len(q) + Len(ms) /\ e[n] = (q \o ms)[n]
  <2>1. CASE Len(q) + Len(ms) <= QueueCap
    BY <1>1, <1>2, <2>1 DEF Enqueue
  <2>2. CASE ~(Len(q) + Len(ms) <= QueueCap)
    <3>1. e = SubSeq(q \o ms, 1, QueueCap)
      BY <2>2 DEF Enqueue
    <3>2. QueueCap \in 1 .. Len(q \o ms)
      BY <1>1, <1>2, <2>2, Constants
    <3>3. /\ e \in Seq(S) /\ Len(e) = QueueCap
          /\ \A k \in 1 .. QueueCap : e[k] = (q \o ms)[k]
      BY <1>2, <3>1, <3>2, Constants
    <3> QED BY <1>1, <1>2, <2>2, <3>3, Constants
  <2> QED BY <2>1, <2>2
<1>4. DOMAIN q = 1 .. Len(q) /\ DOMAIN ms = 1 .. Len(ms)
  BY <1>1
<1> HIDE DEF S, e
<1> QED BY <1>1, <1>2, <1>3, <1>4 DEF e

\* Every set of numbers but the empty one has a least member.
LEMMA Least ==
  ASSUME NEW S \in SUBSET Nat, S # {}
  PROVE \E n \in S : \A m \in S : n <= m
<1> DEFINE F == {0 .. n : n \in S}
<1>1. F \subseteq FiniteSubsetsOf(Nat) /\ F # {}
  <2>1. \A n \in S : IsFiniteSet(0 .. n)
    BY FS_Interval
  <2>2. \A n \in S : 0 .. n \in SUBSET Nat
    OBVIOUS
  <2>3. \A n \in S : 0 .. n \in FiniteSubsetsOf(Nat)
    BY <2>1, <2>2 DEF FiniteSubsetsOf
  <2> HIDE DEF FiniteSubsetsOf
  <2> QED BY <2>3
<1>2. PICK x \in F : \A y \in F : ~ (<<y, x>> \in StrictSubsetOrdering(Nat))
  <2> HIDE DEF F
  <2> QED BY <1>1, FS_StrictSubsetOrderingWellFounded, WFMin
<1>3. PICK n \in S : x = 0 .. n
  OBVIOUS
<1>4. ASSUME NEW m \in S, m < n PROVE FALSE
  <2> DEFINE y == 0 .. m
  <2>1. y \in F /\ y \in SUBSET Nat /\ x \in SUBSET Nat
    BY <1>3
  <2>2. y \subseteq x /\ n \in x /\ n \notin y
    BY <1>3, <1>4
  <2> HIDE DEF F, y
  <2>3. <<y, x>> \in StrictSubsetOrdering(Nat)
    BY <2>1, <2>2 DEF StrictSubsetOrdering
  <2> QED BY <1>2, <2>1, <2>3
<1> QED BY <1>4
-----------------------------------------------------------------------------
\* Packets that get lost or are taken out disturb nothing.
LEMMA WithoutOrderly ==
  ASSUME NEW bufs, GoodBuffers(bufs), NEW r \in Router, NEW i \in Iface,
         NEW n \in DOMAIN bufs[r][i], NEW tab, Orderly(bufs, tab)
  PROVE  Orderly(Without(bufs, r, i, n), tab)
<1> DEFINE after == Without(bufs, r, i, n)
<1>1. /\ after[r][i] = Remove(bufs[r][i], n)
      /\ \A s \in Router, j \in Iface : <<s, j>> # <<r, i>> => after[s][j] = bufs[s][j]
  BY DEF Without, GoodBuffers
<1> HIDE DEF after
<1>2. \A s \in Router, j \in Iface : \A k \in DOMAIN after[s][j] :
        \E a \in DOMAIN bufs[s][j] : after[s][j][k] = bufs[s][j][a]
  BY <1>1, RemoveOrder DEF GoodBuffers, GoodBuffer
<1>3. \A s \in Router, j \in Iface : \A k, l \in DOMAIN after[s][j] : k < l =>
        \E a, b \in DOMAIN bufs[s][j] :
          a < b /\ after[s][j][k] = bufs[s][j][a] /\ after[s][j][l] = bufs[s][j][b]
  BY <1>1, RemoveOrder DEF GoodBuffers, GoodBuffer
<1>4. Held(after, tab) /\ Nearing(after, tab)
  BY SMTT(30), <1>2 DEF Orderly, Held, Nearing
<1>5. Improving(after)
  BY <1>3 DEF Orderly, Improving
<1> QED BY <1>4, <1>5 DEF Orderly, after

\* What router r says of its table on interface i.
Says(m, r, i, tab) ==
  m.type = "response" =>
    /\ m.from = <<r, i>>
    /\ \A p \in DOMAIN m.entries : p \in DOMAIN tab[r] /\ m.entries[p] = Advertised(tab[r][p], i)

\* Sending what the table says disturbs no claim.
LEMMA TransmitOrderly ==
  ASSUME NEW bufs, GoodBuffers(bufs), NEW r \in Router, NEW out, NEW tab,
         Orderly(bufs, tab), IsRoutingTable(tab[r]),
         \A i \in Iface : IsOut(out[i]) /\ \A n \in DOMAIN out[i] : Says(out[i][n], r, i, tab)
  PROVE  Orderly(Transmit(bufs, r, out), tab)
<1> DEFINE after == Transmit(bufs, r, out)
<1>1. ASSUME NEW s \in Router, NEW j \in Iface
      PROVE  \/ after[s][j] = bufs[s][j]
             \/ \E i \in Iface : after[s][j] = Enqueue(bufs[s][j], out[i])
  BY DEF Transmit
<1>2. ASSUME NEW s \in Router, NEW j \in Iface PROVE IsBuffer(bufs[s][j])
  BY DEF GoodBuffers, GoodBuffer
<1> HIDE DEF after
\* An entry of a new packet is no worse than r's route and as r's interface wants it.
<1>3. ASSUME NEW i \in Iface, NEW k \in DOMAIN out[i], out[i][k].type = "response",
             NEW p \in DOMAIN out[i][k].entries
      PROVE  /\ p \in DOMAIN tab[r] /\ out[i][k].from[1] = r /\ out[i][k].from[2] = i
             /\ IF tab[r][p].if_index = i THEN out[i][k].entries[p] = Infinity
                                         ELSE /\ out[i][k].entries[p] = tab[r][p].metric
                                              /\ tab[r][p].metric \in 1 .. Infinity - 1
  <2>1. /\ p \in DOMAIN tab[r] /\ out[i][k].from = <<r, i>>
        /\ out[i][k].entries[p] = Advertised(tab[r][p], i)
    BY <1>3 DEF Says
  <2>2. tab[r][p] \in RoutingTableEntry
    BY <2>1 DEF IsRoutingTable
  <2> QED BY <2>1, <2>2 DEF Advertised, RoutingTableEntry
<1>4. ASSUME NEW s \in Router, NEW j \in Iface, NEW n \in DOMAIN after[s][j]
      PROVE  \/ \E a \in DOMAIN bufs[s][j] : after[s][j][n] = bufs[s][j][a]
             \/ \E i \in Iface : \E k \in DOMAIN out[i] : after[s][j][n] = out[i][k]
  <2>1. CASE after[s][j] = bufs[s][j]
    BY <2>1
  <2>2. ASSUME NEW i \in Iface, after[s][j] = Enqueue(bufs[s][j], out[i])
        PROVE  \/ \E a \in DOMAIN bufs[s][j] : after[s][j][n] = bufs[s][j][a]
               \/ \E k \in DOMAIN out[i] : after[s][j][n] = out[i][k]
    BY <1>2, <2>2, EnqueueType
  <2> QED BY <1>1, <2>1, <2>2
<1>5. Held(after, tab)
  <2> SUFFICES ASSUME NEW s \in Router, NEW j \in Iface, NEW n \in DOMAIN after[s][j],
                      after[s][j][n].type = "response", NEW p \in DOMAIN after[s][j][n].entries
               PROVE  LET m == after[s][j][n]
                          sent == tab[m.from[1]]
                      IN /\ p \in DOMAIN sent
                         /\ IF sent[p].if_index = m.from[2]
                              THEN m.entries[p] = Infinity
                              ELSE m.entries[p] \in sent[p].metric .. Infinity - 1
    BY DEF Held
  <2>1. CASE \E a \in DOMAIN bufs[s][j] : after[s][j][n] = bufs[s][j][a]
    BY <2>1 DEF Orderly, Held
  <2>2. ASSUME NEW i \in Iface, NEW k \in DOMAIN out[i], after[s][j][n] = out[i][k]
        PROVE  LET m == after[s][j][n]
                   sent == tab[m.from[1]]
               IN /\ p \in DOMAIN sent
                  /\ IF sent[p].if_index = m.from[2]
                       THEN m.entries[p] = Infinity
                       ELSE m.entries[p] \in sent[p].metric .. Infinity - 1
    BY <1>3, <2>2, Constants
  <2>3. CASE \E i \in Iface : \E k \in DOMAIN out[i] : after[s][j][n] = out[i][k]
    <3>1. PICK i \in Iface : \E k \in DOMAIN out[i] : after[s][j][n] = out[i][k]  BY <2>3
    <3>2. PICK k \in DOMAIN out[i] : after[s][j][n] = out[i][k]  BY <3>1
    <3> QED BY <2>2, <3>2
  <2>4. \/ \E a \in DOMAIN bufs[s][j] : after[s][j][n] = bufs[s][j][a]
        \/ \E i \in Iface : \E k \in DOMAIN out[i] : after[s][j][n] = out[i][k]
    BY <1>4
  <2> QED BY <2>1, <2>3, <2>4
<1>6. Nearing(after, tab)
  <2> SUFFICES ASSUME NEW s \in Router, NEW j \in Iface, NEW n \in DOMAIN after[s][j],
                      after[s][j][n].type = "response",
                      NEW p \in DOMAIN after[s][j][n].entries \cap DOMAIN tab[s],
                      tab[s][p].nexthop = after[s][j][n].from
               PROVE  after[s][j][n].entries[p] < tab[s][p].metric
    BY DEF Nearing
  <2>1. CASE \E a \in DOMAIN bufs[s][j] : after[s][j][n] = bufs[s][j][a]
    BY <2>1 DEF Orderly, Nearing
  <2>2. ASSUME NEW i \in Iface, NEW k \in DOMAIN out[i], after[s][j][n] = out[i][k]
        PROVE  after[s][j][n].entries[p] < tab[s][p].metric
    <3>1. tab[s][p].nexthop = <<r, i>>
      BY <2>2 DEF Says
    <3>2. tab[s][p].nexthop # Direct
      BY <3>1, Constants DEF Addr
    <3>3. tab[s][p].nexthop[1] = r /\ tab[s][p].nexthop[2] = i
      BY <3>1
    <3> HIDE <3>1
    <3>4. tab[r][p].if_index # i /\ tab[r][p].metric < tab[s][p].metric
      BY <3>2, <3>3 DEF Orderly, Chained
    <3>5. out[i][k].type = "response" /\ p \in DOMAIN out[i][k].entries
      BY <2>2
    <3>6. out[i][k].entries[p] = tab[r][p].metric
      BY <1>3, <3>4, <3>5
    <3> QED BY <2>2, <3>4, <3>6
  <2> QED BY <1>4, <2>1, <2>2
<1>7. Improving(after)
  <2> SUFFICES ASSUME NEW s \in Router, NEW j \in Iface,
                      NEW n \in DOMAIN after[s][j], NEW k \in DOMAIN after[s][j], n < k,
                      after[s][j][n].type = "response", after[s][j][k].type = "response",
                      after[s][j][k].from = after[s][j][n].from,
                      NEW p \in DOMAIN after[s][j][n].entries \cap DOMAIN after[s][j][k].entries
               PROVE  after[s][j][k].entries[p] <= after[s][j][n].entries[p]
    BY DEF Improving
  <2>1. CASE after[s][j] = bufs[s][j]
    BY <2>1 DEF Orderly, Improving
  <2>2. ASSUME NEW i \in Iface, after[s][j] = Enqueue(bufs[s][j], out[i])
        PROVE  after[s][j][k].entries[p] <= after[s][j][n].entries[p]
    <3> DEFINE q == bufs[s][j]
    <3>1. /\ n \in Nat /\ k \in Nat /\ Len(q) \in Nat
          /\ n <= Len(q) => n \in DOMAIN q /\ after[s][j][n] = q[n]
          /\ n > Len(q) => n - Len(q) \in DOMAIN out[i] /\ after[s][j][n] = out[i][n - Len(q)]
          /\ k <= Len(q) => k \in DOMAIN q /\ after[s][j][k] = q[k]
          /\ k > Len(q) => k - Len(q) \in DOMAIN out[i] /\ after[s][j][k] = out[i][k - Len(q)]
      BY <1>2, <2>2, EnqueueAt
    <3>2. CASE k <= Len(q)
      BY <3>1, <3>2 DEF Orderly, Improving
    <3>3. CASE k > Len(q) /\ n > Len(q)
      <4> DEFINE a == n - Len(q)
                 b == k - Len(q)
      <4>1. /\ a \in DOMAIN out[i] /\ after[s][j][n] = out[i][a]
            /\ b \in DOMAIN out[i] /\ after[s][j][k] = out[i][b]
        BY <3>1, <3>3
      <4> HIDE DEF a, b, after, q
      <4>2. /\ out[i][a].type = "response" /\ p \in DOMAIN out[i][a].entries
            /\ out[i][b].type = "response" /\ p \in DOMAIN out[i][b].entries
        BY <4>1
      <4>3. out[i][a].entries[p] = out[i][b].entries[p] /\ out[i][a].entries[p] \in Nat
        BY <1>3, <4>1, <4>2, Constants
      <4> QED BY <4>1, <4>3
    <3>4. CASE k > Len(q) /\ n <= Len(q)
      <4> DEFINE b == k - Len(q)
      <4>1. /\ n \in DOMAIN q /\ after[s][j][n] = q[n]
            /\ b \in DOMAIN out[i] /\ after[s][j][k] = out[i][b]
        BY <3>1, <3>4
      <4> HIDE DEF b, after
      <4>2. /\ out[i][b].type = "response" /\ p \in DOMAIN out[i][b].entries
            /\ q[n].type = "response" /\ p \in DOMAIN q[n].entries /\ out[i][b].from = q[n].from
        BY <4>1
      <4>3. /\ q[n].from[1] = r /\ q[n].from[2] = i
            /\ IF tab[r][p].if_index = i THEN out[i][b].entries[p] = Infinity
                                         ELSE /\ out[i][b].entries[p] = tab[r][p].metric
                                              /\ tab[r][p].metric \in 1 .. Infinity - 1
        BY <1>3, <4>1, <4>2
      <4>4. IF tab[r][p].if_index = i THEN q[n].entries[p] = Infinity
              ELSE q[n].entries[p] \in tab[r][p].metric .. Infinity - 1
        BY <4>1, <4>2, <4>3 DEF Orderly, Held
      <4> QED BY <4>1, <4>3, <4>4, Constants
    <3> QED BY <3>1, <3>2, <3>3, <3>4
  <2> QED BY <1>1, <2>1, <2>2
<1> QED BY <1>5, <1>6, <1>7 DEF Orderly, after

\* A response lists the routes of the table as the interface is to see them.
LEMMA RipResponsesSay ==
  ASSUME NEW r \in Router, NEW ports, NEW i \in Iface, NEW n \in DOMAIN RipResponses(r, ports)[i]
  PROVE  Says(RipResponses(r, ports)[i][n], r, i, table)
<1> DEFINE m == RipResponses(r, ports)[i][n]
           es == Responses(table[r], i)[n]
<1>1. i \in ports /\ n \in DOMAIN Responses(table[r], i) /\ m = Response(<<r, i>>, es)
  BY DEF RipResponses
<1>2. es = [p \in Batch(table[r], n) |-> Advertised(table[r][p], i)]
  BY <1>1 DEF Responses
<1>3. Batch(table[r], n) \subseteq DOMAIN table[r]
  BY DEF Batch
<1>4. \A p \in DOMAIN es : p \in DOMAIN table[r] /\ es[p] = Advertised(table[r][p], i)
  BY <1>2, <1>3
<1>5. m.from = <<r, i>> /\ m.entries = es
  BY <1>1 DEF Response
<1> HIDE DEF m, es
<1> QED BY <1>4, <1>5 DEF Says, m

\* A table that knows at least what it knew, at the same interfaces, no worse.
Improves(t, u) ==
  \A p \in DOMAIN t : /\ p \in DOMAIN u
                      /\ u[p].if_index = t[p].if_index /\ u[p].metric <= t[p].metric

\* No route is dropped or made longer by a response that its next hop is not to
\* withdraw it with.
LEMMA LearnImproves ==
  ASSUME NEW t, IsRoutingTable(t), NEW es, IsRipEntries(es),
         NEW i \in Iface, NEW nexthop \in Addr,
         \A p \in DOMAIN t \cap DOMAIN es : t[p].nexthop = nexthop => es[p] < t[p].metric
  PROVE  Improves(t, Learn(t, i, nexthop, es))
<1> DEFINE u == Learn(t, i, nexthop, es)
<1> SUFFICES ASSUME NEW p \in DOMAIN t
             PROVE  /\ p \in DOMAIN u
                    /\ u[p].if_index = t[p].if_index /\ u[p].metric <= t[p].metric
  BY DEF Improves
<1>1. t[p] \in RoutingTableEntry
  BY DEF IsRoutingTable
<1>2. t[p].metric \in 1 .. Infinity - 1 /\ Infinity \in Nat
  BY <1>1, TableAssumption DEF RoutingTableEntry
<1>3. ASSUME p \in DOMAIN es, Supersedes(Through(es[p]), nexthop, t[p])
      PROVE  Through(es[p]) <= t[p].metric
  <2>1. es[p] \in 1 .. Infinity
    BY <1>3 DEF IsRipEntries
  <2>2. CASE nexthop = t[p].nexthop
    BY <1>2, <1>3, <2>1, <2>2 DEF Through
  <2>3. CASE Through(es[p]) < t[p].metric
    BY <1>2, <2>1, <2>3 DEF Through
  <2> QED BY <1>3, <2>2, <2>3 DEF Supersedes
<1>4. p \notin Erased(t, es, nexthop)
  BY <1>2, <1>3 DEF Erased
<1>5. p \in DOMAIN u
  BY <1>4 DEF Learn
<1>6. CASE p \in Changed(t, es, nexthop)
  <2>1. p \in DOMAIN es /\ Supersedes(Through(es[p]), nexthop, t[p])
    BY <1>6 DEF Changed
  <2>2. u[p] = [t[p] EXCEPT !.nexthop = nexthop, !.metric = Through(es[p])]
    BY <1>5, <1>6 DEF Learn
  <2> HIDE DEF u
  <2>3. u[p].metric = Through(es[p]) /\ u[p].if_index = t[p].if_index
    BY <1>1, <2>2 DEF RoutingTableEntry
  <2> QED BY <1>3, <1>5, <2>1, <2>3
<1>7. CASE p \notin Changed(t, es, nexthop)
  <2>1. u[p] = t[p]
    BY <1>5, <1>7 DEF Learn
  <2> QED BY <1>2, <1>5, <2>1
<1> QED BY <1>6, <1>7

\* A response in a buffer says where it comes from.
LEMMA ResponseFrom ==
  ASSUME NEW bufs, GoodBuffers(bufs), NEW r \in Router, NEW i \in Iface,
         NEW n \in DOMAIN bufs[r][i], bufs[r][i][n].type = "response"
  PROVE  LET m == bufs[r][i][n] IN
           /\ m.from \in Addr /\ m.from = <<m.from[1], m.from[2]>>
           /\ m.from[1] \in Router /\ m.from[2] \in Iface
           /\ Hears(r, i, m.from[1], m.from[2]) /\ IsRipEntries(m.entries)
<1> DEFINE m == bufs[r][i][n]
<1>1. IsMessage(m) /\ Trustworthy(m, r, i) /\ m.type = "response"
  BY DEF GoodBuffers, GoodBuffer, IsBuffer
<1> HIDE DEF m
<1>2. m.from \in Addr /\ IsRipEntries(m.entries)
  BY <1>1 DEF IsMessage, Request, Response
<1>3. Hears(r, i, m.from[1], m.from[2])
  BY <1>1 DEF Trustworthy
<1>4. m.from = <<m.from[1], m.from[2]>> /\ m.from[1] \in Router /\ m.from[2] \in Iface
  BY <1>2 DEF Addr
<1> QED BY <1>2, <1>3, <1>4 DEF m

\* Claims about tables that have improved hold on.
LEMMA HeldOn ==
  ASSUME NEW bufs, GoodBuffers(bufs), NEW tab, Held(bufs, tab), NEW tab2,
         \A s \in Router : /\ IsRoutingTable(tab[s]) /\ IsRoutingTable(tab2[s])
                           /\ Improves(tab[s], tab2[s])
  PROVE  Held(bufs, tab2)
<1> SUFFICES ASSUME NEW r \in Router, NEW i \in Iface, NEW n \in DOMAIN bufs[r][i],
                    bufs[r][i][n].type = "response", NEW p \in DOMAIN bufs[r][i][n].entries
             PROVE  LET m == bufs[r][i][n]
                        sent == tab2[m.from[1]]
                    IN /\ p \in DOMAIN sent
                       /\ IF sent[p].if_index = m.from[2]
                            THEN m.entries[p] = Infinity
                            ELSE m.entries[p] \in sent[p].metric .. Infinity - 1
  BY DEF Held
<1> DEFINE m == bufs[r][i][n]
           s == m.from[1]
<1>1. s \in Router
  BY ResponseFrom
<1>2. /\ p \in DOMAIN tab[s]
      /\ IF tab[s][p].if_index = m.from[2]
           THEN m.entries[p] = Infinity
           ELSE m.entries[p] \in tab[s][p].metric .. Infinity - 1
  BY DEF Held
<1> HIDE DEF s
<1>3. /\ p \in DOMAIN tab2[s]
      /\ tab2[s][p].if_index = tab[s][p].if_index /\ tab2[s][p].metric <= tab[s][p].metric
  BY <1>1, <1>2 DEF Improves
<1>4. tab[s][p] \in RoutingTableEntry /\ tab2[s][p] \in RoutingTableEntry
  BY <1>1, <1>2, <1>3 DEF IsRoutingTable
<1>5. tab[s][p].metric \in Nat /\ tab2[s][p].metric \in Nat
  BY <1>4, Constants DEF RoutingTableEntry
<1>6. /\ p \in DOMAIN tab2[s]
      /\ IF tab2[s][p].if_index = m.from[2]
            THEN m.entries[p] = Infinity
            ELSE m.entries[p] \in tab2[s][p].metric .. Infinity - 1
  BY <1>2, <1>3, <1>5, Constants
<1> QED BY <1>6 DEF s

\* A table that stays is no worse.
LEMMA ImprovesSelf == ASSUME NEW t, IsRoutingTable(t) PROVE Improves(t, t)
<1>1. \A p \in DOMAIN t : t[p].metric \in 1 .. Infinity - 1
  BY DEF IsRoutingTable, RoutingTableEntry
<1> QED BY <1>1, Constants DEF Improves

\* A router that starts knows its own subnets only, and asks for more.
LEMMA BootOrderly ==
  ASSUME IInv, Orderly(rx, table), NEW r \in Router, Boot(r)
  PROVE  Orderly(rx', table')
<1>1. GoodTables /\ GoodBuffers(rx) /\ Counters
  BY IInvParts
<1>2. table[r] = <<>>
  BY <1>1 DEF Boot, GoodTables, GoodTable
<1>3. /\ table'[r] = DirectRoutes(r) /\ \A s \in Router : s # r => table'[s] = table[s]
  BY <1>1 DEF Boot, GoodTables
<1>4. \A s \in Router : IsRoutingTable(table[s]) /\ IsRoutingTable(table'[s])
  BY <1>1, <1>3, DirectRoutesType DEF GoodTables, GoodTable
<1>5. \A s \in Router : Improves(table[s], table'[s])
  <2>1. Improves(table[r], table'[r])
    BY <1>2 DEF Improves
  <2> QED BY <2>1, <1>3, <1>4, ImprovesSelf
<1>6. Held(rx, table')
  BY <1>1, <1>4, <1>5, HeldOn DEF Orderly
<1>7. Chained(table')
  <2> SUFFICES ASSUME NEW s \in Router, NEW p \in DOMAIN table'[s],
                      table'[s][p].nexthop # Direct
               PROVE  LET e == table'[s][p]
                          next == table'[e.nexthop[1]]
                      IN /\ p \in DOMAIN next
                         /\ next[p].if_index # e.nexthop[2] /\ next[p].metric < e.metric
    BY DEF Chained
  <2>1. s # r
    BY <1>3, DirectRoutesType
  <2>2. table'[s] = table[s]
    BY <1>3, <2>1
  <2> DEFINE e == table[s][p]
             h == e.nexthop[1]
  <2>3. /\ p \in DOMAIN table[h]
        /\ table[h][p].if_index # e.nexthop[2] /\ table[h][p].metric < e.metric
    BY <2>2 DEF Orderly, Chained
  <2>4. h # r
    BY <1>2, <2>3
  <2>5. h \in Router
    BY <1>4, <2>2 DEF IsRoutingTable, RoutingTableEntry, Addr
  <2>6. table'[h] = table[h]
    BY <1>3, <2>4, <2>5
  <2> QED BY <2>2, <2>3, <2>6
<1>8. Nearing(rx, table')
  <2> SUFFICES ASSUME NEW s \in Router, NEW i \in Iface, NEW n \in DOMAIN rx[s][i],
                      rx[s][i][n].type = "response",
                      NEW p \in DOMAIN rx[s][i][n].entries \cap DOMAIN table'[s],
                      table'[s][p].nexthop = rx[s][i][n].from
               PROVE  rx[s][i][n].entries[p] < table'[s][p].metric
    BY DEF Nearing
  <2>1. rx[s][i][n].from \in Addr
    BY <1>1, ResponseFrom
  <2>2. s # r
    BY <1>3, <2>1, DirectRoutesType, Constants
  <2> QED BY <1>3, <2>2 DEF Orderly, Nearing
<1>9. Orderly(rx, table')
  BY <1>6, <1>7, <1>8 DEF Orderly
<1> DEFINE out == [i \in Iface |-> <<Request>>]
<1>10. ASSUME NEW i \in Iface
       PROVE  IsOut(out[i]) /\ \A n \in DOMAIN out[i] : Says(out[i][n], r, i, table')
  <2>1. IsOut(<<Request>>)
    BY DEF IsOut, IsMessage
  <2> QED BY <2>1 DEF Says, Request
<1>11. rx' = Transmit(rx, r, out)
  BY DEF Boot
<1> HIDE DEF out
<1> QED BY <1>1, <1>4, <1>9, <1>10, <1>11, TransmitOrderly

\* sendRipResp keeps order.
LEMMA SendOrderly ==
  ASSUME IInv, NEW bufs, GoodBuffers(bufs), Orderly(bufs, table), NEW r \in Router, NEW ports
  PROVE  Orderly(Transmit(bufs, r, RipResponses(r, ports)), table)
<1> DEFINE out == RipResponses(r, ports)
<1>1. GoodTable(table[r], r, up[r])
  BY IInvParts DEF GoodTables
<1>2. \A i \in Iface : IsOut(out[i]) /\ \A n \in DOMAIN out[i] : Says(out[i][n], r, i, table)
  BY <1>1, RipResponsesGood, RipResponsesSay
<1>3. IsRoutingTable(table[r])
  BY <1>1 DEF GoodTable
<1> HIDE DEF out
<1>4. Orderly(Transmit(bufs, r, out), table)
  BY <1>2, <1>3, TransmitOrderly
<1> QED BY <1>4 DEF out

\* A response that is worked in improves the table.
LEMMA HandleResponseOrderly ==
  ASSUME IInv, Orderly(rx, table), NEW r \in Router, NEW i \in Iface, HandleResponse(r, i)
  PROVE  /\ Orderly(rx', table')
         /\ \A s \in Router : Improves(table[s], table'[s])
<1>1. GoodTables /\ GoodBuffers(rx)
  BY IInvParts
<1> DEFINE m == rx[r][i][1]
           t == table[r]
           u == Learn(t, i, m.from, m.entries)
<1>2. /\ 1 \in DOMAIN rx[r][i] /\ m.type = "response" /\ rx' = Without(rx, r, i, 1)
      /\ table'[r] = u /\ \A s \in Router : s # r => table'[s] = table[s]
  BY <1>1, HeadInBuffer DEF HandleResponse, GoodTables
<1>3. /\ m.from \in Addr /\ m.from = <<m.from[1], m.from[2]>>
      /\ m.from[1] \in Router /\ m.from[2] \in Iface
      /\ Hears(r, i, m.from[1], m.from[2]) /\ IsRipEntries(m.entries)
  BY <1>1, <1>2, ResponseFrom
<1>4. \A s \in Router : IsRoutingTable(table[s])
  BY <1>1 DEF GoodTables, GoodTable
<1> HIDE DEF m
<1>5. IsRoutingTable(u)
  BY <1>3, <1>4, LearnType
<1>6. Improves(t, u)
  <2>1. \A p \in DOMAIN t \cap DOMAIN m.entries : t[p].nexthop = m.from => m.entries[p] < t[p].metric
    BY <1>2 DEF Orderly, Nearing, m
  <2> QED BY <1>3, <1>4, <2>1, LearnImproves
<1>7. ASSUME NEW p \in DOMAIN u
      PROVE  \/ p \in DOMAIN t /\ u[p] = t[p]
             \/ /\ p \in DOMAIN m.entries /\ u[p].nexthop = m.from
                /\ u[p].metric = m.entries[p] + 1 /\ m.entries[p] + 1 < Infinity
  BY <1>3, <1>4, LearnOrigin
<1> HIDE DEF u
<1>8. \A s \in Router : IsRoutingTable(table'[s])
  BY <1>2, <1>4, <1>5
<1>9. \A s \in Router : Improves(table[s], table'[s])
  BY <1>2, <1>4, <1>6, ImprovesSelf
<1>10. Orderly(rx', table)
  BY <1>1, <1>2, WithoutOrderly
<1>11. GoodBuffers(rx')
  BY <1>1, <1>2, WithoutGood
<1>12. Held(rx', table')
  BY <1>4, <1>8, <1>9, <1>10, <1>11, HeldOn DEF Orderly
<1>13. Chained(table')
  <2> SUFFICES ASSUME NEW s \in Router, NEW p \in DOMAIN table'[s],
                      table'[s][p].nexthop # Direct
               PROVE  LET e == table'[s][p]
                          next == table'[e.nexthop[1]]
                      IN /\ p \in DOMAIN next
                         /\ next[p].if_index # e.nexthop[2] /\ next[p].metric < e.metric
    BY DEF Chained
  <2> DEFINE e == table'[s][p]
             h == e.nexthop[1]
  <2>1. h \in Router /\ e.metric \in 1 .. Infinity - 1
    BY <1>8 DEF IsRoutingTable, RoutingTableEntry, Addr
  <2>2. /\ p \in DOMAIN table[h]
        /\ table[h][p].if_index # e.nexthop[2] /\ table[h][p].metric < e.metric
    <3>1. CASE p \in DOMAIN table[s] /\ e = table[s][p]
      BY <3>1 DEF Orderly, Chained
    <3>2. CASE ~(p \in DOMAIN table[s] /\ e = table[s][p])
      <4>1. s = r /\ table'[s] = u
        BY <1>2, <3>2
      <4>2. /\ p \in DOMAIN m.entries /\ e.nexthop = m.from
            /\ e.metric = m.entries[p] + 1 /\ m.entries[p] + 1 < Infinity
        BY <1>7, <3>2, <4>1
      <4>3. /\ p \in DOMAIN table[h]
            /\ IF table[h][p].if_index = m.from[2]
                 THEN m.entries[p] = Infinity
                 ELSE m.entries[p] \in table[h][p].metric .. Infinity - 1
        BY ZenonT(60), <1>2, <4>2 DEF Orderly, Held, m
      <4>4. table[h][p].metric \in 1 .. Infinity - 1
        BY <1>4, <2>1, <4>3 DEF IsRoutingTable, RoutingTableEntry
      <4> HIDE DEF h, e
      <4> QED BY <4>2, <4>3, <4>4, Constants
    <3> QED BY <3>1, <3>2
  <2>3. /\ p \in DOMAIN table'[h] /\ table'[h][p].if_index = table[h][p].if_index
        /\ table'[h][p].metric <= table[h][p].metric
    BY <1>9, <2>1, <2>2 DEF Improves
  <2>4. table[h][p].metric \in 1 .. Infinity - 1 /\ table'[h][p].metric \in 1 .. Infinity - 1
    BY <1>4, <1>8, <2>1, <2>2, <2>3 DEF IsRoutingTable, RoutingTableEntry
  <2>5. /\ p \in DOMAIN table'[h]
        /\ table'[h][p].if_index # e.nexthop[2] /\ table'[h][p].metric < e.metric
    <3> HIDE DEF h, e
    <3> QED BY <2>1, <2>2, <2>3, <2>4, Constants
  <2> QED BY <2>5
<1>14. Nearing(rx', table')
  <2> SUFFICES ASSUME NEW s \in Router, NEW j \in Iface, NEW n \in DOMAIN rx'[s][j],
                      rx'[s][j][n].type = "response",
                      NEW p \in DOMAIN rx'[s][j][n].entries \cap DOMAIN table'[s],
                      table'[s][p].nexthop = rx'[s][j][n].from
               PROVE  rx'[s][j][n].entries[p] < table'[s][p].metric
    BY DEF Nearing
  <2>1. CASE p \in DOMAIN table[s] /\ table'[s][p] = table[s][p]
    BY <1>10, <2>1 DEF Orderly, Nearing
  <2>2. CASE ~(p \in DOMAIN table[s] /\ table'[s][p] = table[s][p])
    <3>1. s = r /\ table'[s] = u
      BY <1>2, <2>2
    <3>2. /\ p \in DOMAIN m.entries /\ u[p].nexthop = m.from
          /\ u[p].metric = m.entries[p] + 1
      BY <1>7, <2>2, <3>1
    <3> DEFINE l == rx'[s][j][n]
    <3>3. l.from = m.from
      BY <3>1, <3>2
    <3>4. Hears(r, j, m.from[1], m.from[2])
      BY <1>11, <3>1, <3>3, ResponseFrom
    <3>5. j = i
      BY <1>3, <3>4, TopologyAssumption DEF Hears
    <3>6. rx'[r][i] = Remove(rx[r][i], 1)
      BY <1>1, <1>2 DEF Without, GoodBuffers
    <3>7. IsBuffer(rx[r][i])
      BY <1>1 DEF GoodBuffers, GoodBuffer
    <3>8. PICK a \in DOMAIN rx[r][i] : a # 1 /\ l = rx[r][i][a]
      BY <1>2, <3>1, <3>5, <3>6, <3>7, RemoveOrder
    <3>9. 1 < a
      BY <3>7, <3>8 DEF IsBuffer
    <3> HIDE DEF l
    <3>10. l.type = "response" /\ p \in DOMAIN l.entries
      BY DEF l
    <3>11. l.entries[p] <= m.entries[p]
      BY <1>2, <3>2, <3>3, <3>8, <3>9, <3>10 DEF Orderly, Improving, m
    <3>12. IsRipEntries(l.entries)
      BY <1>11, ResponseFrom DEF l
    <3>13. l.entries[p] \in 1 .. Infinity /\ m.entries[p] \in 1 .. Infinity
      BY <1>3, <3>2, <3>10, <3>12 DEF IsRipEntries
    <3>14. l.entries[p] < table'[s][p].metric
      BY <3>1, <3>2, <3>11, <3>13, Constants
    <3> QED BY <3>14 DEF l
  <2> QED BY <2>1, <2>2
<1>15. Improving(rx')
  BY <1>10 DEF Orderly
<1> QED BY <1>9, <1>12, <1>13, <1>14, <1>15 DEF Orderly

LEMMA InitOrderly == Init => Orderly(rx, table)
<1> SUFFICES ASSUME Init PROVE Orderly(rx, table)
  OBVIOUS
<1>1. \A r \in Router, i \in Iface : DOMAIN rx[r][i] = {}
  BY DEF Init
<1>2. \A r \in Router : DOMAIN table[r] = {}
  BY DEF Init
<1> QED BY <1>1, <1>2 DEF Orderly, Held, Improving, Chained, Nearing

\* Until the first crash, tables only improve and stay in order.
LEMMA NextOrderly ==
  ASSUME IInv, Orderly(rx, table), [Next]_vars, crashes' = 0
  PROVE  Orderly(rx', table') /\ \A r \in Router : Improves(table[r], table'[r])
<1>1. GoodTables /\ GoodBuffers(rx) /\ Counters
  BY IInvParts
<1>2. \A r \in Router : Improves(table[r], table[r])
  BY <1>1, ImprovesSelf DEF GoodTables, GoodTable
<1>3. CASE UNCHANGED vars
  BY <1>2, <1>3 DEF vars
<1>4. ASSUME NEW r \in Router, Boot(r)
      PROVE  Orderly(rx', table') /\ \A s \in Router : Improves(table[s], table'[s])
  <2>1. table[r] = <<>> /\ \A s \in Router : s # r => table'[s] = table[s]
    BY <1>1, <1>4 DEF Boot, GoodTables, GoodTable
  <2>2. Improves(table[r], table'[r])
    BY <2>1 DEF Improves
  <2>3. \A s \in Router : Improves(table[s], table'[s])
    BY <1>2, <2>1, <2>2
  <2> QED BY <1>4, <2>3, BootOrderly
<1>5. ASSUME NEW r \in Router, Timer(r) PROVE Orderly(rx', table') /\ table' = table
  BY <1>1, <1>5, SendOrderly DEF Timer
<1>6. ASSUME NEW r \in Router, Crash(r) PROVE FALSE
  BY <1>1, <1>6 DEF Crash, Counters
<1>7. ASSUME NEW r \in Router, NEW i \in Iface, HandleRequest(r, i)
      PROVE  Orderly(rx', table') /\ table' = table
  <2>1. GoodBuffers(Without(rx, r, i, 1)) /\ Orderly(Without(rx, r, i, 1), table)
    BY <1>1, <1>7, HeadInBuffer, WithoutGood, WithoutOrderly DEF HandleRequest
  <2>2. /\ rx' = Transmit(Without(rx, r, i, 1), r, RipResponses(r, {i}))
        /\ table' = table
    BY <1>7 DEF HandleRequest
  <2> QED BY <2>1, <2>2, SendOrderly
<1>8. ASSUME NEW r \in Router, NEW i \in Iface, HandleResponse(r, i)
      PROVE  Orderly(rx', table') /\ \A s \in Router : Improves(table[s], table'[s])
  BY <1>8, HandleResponseOrderly
<1>9. ASSUME NEW r \in Router, NEW i \in Iface, Lose(r, i)
      PROVE  Orderly(rx', table') /\ table' = table
  BY <1>1, <1>9, WithoutOrderly DEF Lose
<1> QED BY <1>2, <1>3, <1>4, <1>5, <1>6, <1>7, <1>8, <1>9 DEF Next, Receive

\* Crashes are not forgotten.
LEMMA NoCrashBack == ASSUME IInv, [Next]_vars, crashes' = 0 PROVE crashes = 0
<1>1. crashes \in Nat
  BY IInvParts DEF Counters
<1>2. crashes' = crashes \/ crashes' = crashes + 1
  BY DEF Next, Receive, vars, Boot, Timer, HandleRequest, HandleResponse, Crash, Lose
<1> QED BY <1>1, <1>2

\* Before a crash there was none.
LEMMA NextNearer == IInv /\ NearerInv /\ [Next]_vars => NearerInv'
<1> SUFFICES ASSUME IInv, NearerInv, [Next]_vars, crashes' = 0 PROVE Orderly(rx', table')
  BY DEF NearerInv
<1> QED BY NoCrashBack, NextOrderly DEF NearerInv

\* Until the first crash the metric of a route is above all that its next hop
\* believes or says in packets still on the way.
THEOREM NearerSafety == Spec => []NearerInv
<1>1. Init => NearerInv
  BY InitOrderly DEF NearerInv
<1> QED BY <1>1, NextNearer, Safety, PTL DEF Spec

\* Among routers whose next hops are nearer than they are, one with the least
\* metric hands the packet to none of the others.
LEMMA ChainedLoopFree ==
  ASSUME IInv, Chained(table) PROVE LoopFree
<1> SUFFICES ASSUME NEW p \in Prefix, NEW S \in (SUBSET Router) \ {{}}
             PROVE  \E r \in S : NextRouter(r, p) \cap S = {}
  BY DEF LoopFree
<1>1. \A r \in Router : IsRoutingTable(table[r])
  BY IInvParts DEF GoodTables, GoodTable
<1>2. CASE \E r \in S : p \notin DOMAIN table[r]
  BY <1>2 DEF NextRouter
<1>3. CASE \A r \in S : p \in DOMAIN table[r]
  <2> DEFINE M == {table[r][p].metric : r \in S}
  <2>1. \A r \in S : table[r][p] \in RoutingTableEntry
    BY <1>1, <1>3 DEF IsRoutingTable
  <2>2. \A r \in S : table[r][p].metric \in Nat
    BY <2>1, Constants DEF RoutingTableEntry
  <2>3. M \in SUBSET Nat /\ M # {}
    BY <2>2
  <2>4. PICK n \in M : \A m \in M : n <= m
    <3> HIDE DEF M
    <3> QED BY <2>3, Least
  <2>5. PICK r \in S : n = table[r][p].metric
    BY <2>4
  <2>6. ASSUME NEW s \in NextRouter(r, p) \cap S PROVE FALSE
    <3>1. PICK i \in Iface : table[r][p].nexthop = <<s, i>>
      BY <2>6 DEF NextRouter
    <3>2. table[r][p].nexthop # Direct
      BY <3>1, Constants DEF Addr
    <3>3. table[r][p].nexthop[1] = s
      BY <3>1
    <3>4. table[s][p].metric < table[r][p].metric
      BY <1>3, <3>2, <3>3 DEF Chained
    <3>5. table[s][p].metric \in M
      OBVIOUS
    <3> HIDE DEF M
    <3> QED BY <2>2, <2>4, <2>5, <3>4, <3>5
  <2> QED BY <2>6
<1> QED BY <1>2, <1>3

\* On any topology, whatever the order and loss of the packets, next hops form
\* no circle before the first crash.
THEOREM NoLoopBeforeCrash == Spec => []LoopFreeAtFirst
<1>1. ASSUME IInv, NearerInv PROVE LoopFreeAtFirst
  <2>1. crashes = 0 => Chained(table)
    BY <1>1 DEF NearerInv, Orderly
  <2> QED BY <1>1, <2>1, ChainedLoopFree DEF LoopFreeAtFirst
<1> QED BY <1>1, NearerSafety, Safety, PTL

\* Until the first crash no route is given up or made longer.
THEOREM RoutesImprove == Spec => RoutesOnlyImprove
<1> DEFINE A == crashes' = 0 => \A r \in Router : \A p \in DOMAIN table[r] :
                  p \in DOMAIN table'[r] /\ table'[r][p].metric <= table[r][p].metric
<1>1. IInv /\ NearerInv /\ [Next]_vars => [A]_vars
  <2> SUFFICES ASSUME IInv, NearerInv, [Next]_vars, crashes' = 0 PROVE A
    OBVIOUS
  <2>1. crashes = 0
    BY NoCrashBack
  <2>2. \A r \in Router : Improves(table[r], table'[r])
    BY <2>1, NextOrderly DEF NearerInv
  <2> QED BY <2>2 DEF Improves
<1> QED BY <1>1, NearerSafety, Safety, PTL DEF Spec, RoutesOnlyImprove

-----------------------------------------------------------------------------
(***************************************************************************)
(* Where routes lead on a network without a circle, crashes and losses     *)
(* included: every route leads out of the interface towards its subnet,    *)
(* and every packet on the wire claims a route that leads on (TreeInv).    *)
(***************************************************************************)

\* A response leaves the interfaces of the routes as they were.
LEMMA LearnIface ==
  ASSUME NEW t, IsRoutingTable(t), NEW es, NEW i, NEW nexthop,
         NEW p \in DOMAIN Learn(t, i, nexthop, es)
  PROVE  Learn(t, i, nexthop, es)[p].if_index = IF p \in DOMAIN t THEN t[p].if_index ELSE i
<1>1. CASE p \notin DOMAIN t
  BY <1>1 DEF Learn
<1>2. CASE p \in DOMAIN t /\ p \in Changed(t, es, nexthop)
  <2>1. t[p] \in RoutingTableEntry
    BY <1>2 DEF IsRoutingTable
  <2>2. Learn(t, i, nexthop, es)[p] = [t[p] EXCEPT !.nexthop = nexthop, !.metric = Through(es[p])]
    BY <1>2 DEF Learn
  <2> QED BY <1>2, <2>1, <2>2 DEF RoutingTableEntry
<1>3. CASE p \in DOMAIN t /\ p \notin Changed(t, es, nexthop)
  BY <1>3 DEF Learn
<1> QED BY <1>1, <1>2, <1>3

\* On the way every next hop is nearer: else there were a nearest router with a
\* next hop that is not, and the neighbour that is nearer to p is such a one.
LEMMA WayShortens ==
  ASSUME NEW toward, LeadsTo(toward), NEW p \in Prefix,
         NEW r \in Router, NEW s \in Router, NEW i \in Iface, NEW j \in Iface,
         Hears(s, j, r, i), toward[r][p] = i, toward[s][p] # j
  PROVE  Distance[s][p] < Distance[r][p]
<1> DEFINE Astray(a) ==
      \E b \in Router, k, l \in Iface :
        /\ Hears(b, l, a, k) /\ toward[a][p] = k /\ toward[b][p] # l
        /\ Distance[b][p] >= Distance[a][p]
      D == {Distance[a][p] : a \in {b \in Router : Astray(b)}}
<1>1. \A a \in Router : Distance[a][p] \in Nat \ {0}
  BY Constants DEF DistanceAssumption
<1>2. SUFFICES D = {}
  <2>1. ~Astray(r)
    BY <1>2
  <2> QED BY <1>1, <2>1
<1>3. SUFFICES ASSUME D # {} PROVE FALSE
  OBVIOUS
<1>4. PICK n \in D : \A m \in D : n <= m
  <2>1. D \in SUBSET Nat
    BY <1>1
  <2> HIDE DEF D
  <2> QED BY <1>3, <2>1, Least
<1>5. PICK a \in Router : Astray(a) /\ n = Distance[a][p]
  BY <1>4
<1>6. PICK b \in Router, k, l \in Iface :
        /\ Hears(b, l, a, k) /\ toward[a][p] = k /\ toward[b][p] # l
        /\ Distance[b][p] >= Distance[a][p]
  BY <1>5
<1>7. ASSUME NEW c \in Router, Astray(c), Distance[c][p] < Distance[a][p] PROVE FALSE
  <2>1. Distance[c][p] \in D
    BY <1>7
  <2> HIDE DEF D, Astray
  <2> QED BY <1>1, <1>4, <1>5, <1>7, <2>1
<1>8. CASE Distance[a][p] = 1
  <2>1. PICK x \in Iface : Attach[a][x] = p
    BY <1>8, Constants DEF DistanceAssumption
  <2>2. x = k
    BY <1>6, <2>1 DEF LeadsTo
  <2>3. Attach[b][l] = p
    BY <1>6, <2>1, <2>2 DEF Hears
  <2> QED BY <1>6, <2>3 DEF LeadsTo
<1>9. CASE Distance[a][p] # 1
  <2>1. PICK c \in Router : Neighbours(a, c) /\ Distance[a][p] = Distance[c][p] + 1
    <3>1. Distance[a][p] > 1
      BY <1>1, <1>9
    <3> QED BY <3>1, Constants DEF DistanceAssumption
  <2>2. PICK x \in Iface, y \in Iface : Hears(c, y, a, x)
    BY <2>1 DEF Neighbours
  <2>3. Distance[c][p] < Distance[a][p]
    BY <1>1, <2>1
  <2>4. CASE x = k
    <3>1. c # b
      BY <1>1, <1>6, <2>3
    <3>2. Hears(c, y, b, l) /\ Hears(b, l, c, y)
      BY <1>6, <2>2, <2>4, <3>1 DEF Hears
    <3>3. toward[c][p] = y
      BY <1>6, <3>2 DEF LeadsTo
    <3>4. Distance[b][p] >= Distance[c][p]
      BY <1>1, <1>6, <2>3
    <3>5. Astray(c)
      BY <1>6, <3>2, <3>3, <3>4
    <3> QED BY <1>7, <2>3, <3>5
  <2>5. CASE x # k
    <3>1. toward[a][p] # x
      BY <1>6, <2>5
    <3>2. toward[c][p] = y
      BY <2>2, <3>1 DEF LeadsTo
    <3>3. Hears(a, x, c, y)
      BY <2>2 DEF Hears
    <3>4. Distance[a][p] >= Distance[c][p]
      BY <1>1, <2>3
    <3>5. Astray(c)
      BY <3>1, <3>2, <3>3, <3>4
    <3> QED BY <1>7, <2>3, <3>5
  <2> QED BY <2>4, <2>5
<1> QED BY <1>8, <1>9

TreeInv(toward) == OnTheWay(toward, table) /\ ClaimedOnTheWay(toward, rx)

\* A response of router r claims no subnet on the way to it.
LEMMA SayOnTheWay ==
  ASSUME IInv, NEW toward, OnTheWay(toward, table), NEW r \in Router, NEW ports, NEW i \in Iface,
         NEW n \in DOMAIN RipResponses(r, ports)[i],
         RipResponses(r, ports)[i][n].type = "response"
  PROVE  LET m == RipResponses(r, ports)[i][n] IN
         \A p \in DOMAIN m.entries :
           m.entries[p] < Infinity => toward[m.from[1]][p] # m.from[2]
<1> DEFINE m == RipResponses(r, ports)[i][n]
<1>1. Says(m, r, i, table)
  BY RipResponsesSay
<1>2. m.type = "response"
  OBVIOUS
<1> HIDE DEF m
<1>3. m.from[1] = r /\ m.from[2] = i
  BY <1>1, <1>2 DEF Says
<1>4. ASSUME NEW p \in DOMAIN m.entries, m.entries[p] < Infinity
      PROVE  toward[r][p] # i
  <2>1. p \in DOMAIN table[r] /\ m.entries[p] = Advertised(table[r][p], i)
    BY <1>1, <1>2 DEF Says
  <2>2. table[r][p].if_index # i
    BY <1>4, <2>1, Constants DEF Advertised
  <2> QED BY <2>1, <2>2 DEF OnTheWay
<1> QED BY <1>3, <1>4 DEF m

\* Sent packets are like the ones in the buffers.
LEMMA TransmitOnTheWay ==
  ASSUME NEW bufs, GoodBuffers(bufs), NEW toward, ClaimedOnTheWay(toward, bufs),
         NEW r \in Router, NEW out,
         \A i \in Iface : IsOut(out[i]) /\ \A n \in DOMAIN out[i] :
           LET m == out[i][n] IN
             m.type = "response" => \A p \in DOMAIN m.entries :
               m.entries[p] < Infinity => toward[m.from[1]][p] # m.from[2]
  PROVE  ClaimedOnTheWay(toward, Transmit(bufs, r, out))
<1> DEFINE after == Transmit(bufs, r, out)
<1>1. ASSUME NEW s \in Router, NEW j \in Iface, NEW n \in DOMAIN after[s][j]
      PROVE  \/ \E a \in DOMAIN bufs[s][j] : after[s][j][n] = bufs[s][j][a]
             \/ \E i \in Iface : \E k \in DOMAIN out[i] : after[s][j][n] = out[i][k]
  <2>1. \/ after[s][j] = bufs[s][j]
        \/ \E i \in Iface : after[s][j] = Enqueue(bufs[s][j], out[i])
    BY DEF Transmit
  <2>2. IsBuffer(bufs[s][j])
    BY DEF GoodBuffers, GoodBuffer
  <2> HIDE DEF after
  <2> QED BY <2>1, <2>2, EnqueueType
<1> HIDE DEF after
<1>2. ClaimedOnTheWay(toward, after)
  BY <1>1 DEF ClaimedOnTheWay
<1> QED BY <1>2 DEF after

\* Nor do packets that get lost disturb the way.
LEMMA WithoutOnTheWay ==
  ASSUME NEW bufs, GoodBuffers(bufs), NEW toward, ClaimedOnTheWay(toward, bufs),
         NEW r \in Router, NEW i \in Iface, NEW n \in DOMAIN bufs[r][i]
  PROVE  ClaimedOnTheWay(toward, Without(bufs, r, i, n))
<1> DEFINE after == Without(bufs, r, i, n)
<1>1. /\ after[r][i] = Remove(bufs[r][i], n)
      /\ \A s \in Router, j \in Iface : <<s, j>> # <<r, i>> => after[s][j] = bufs[s][j]
  BY DEF Without, GoodBuffers
<1> HIDE DEF after
<1>2. \A s \in Router, j \in Iface : \A k \in DOMAIN after[s][j] :
        \E a \in DOMAIN bufs[s][j] : after[s][j][k] = bufs[s][j][a]
  BY <1>1, RemoveType DEF GoodBuffers, GoodBuffer
<1>3. ClaimedOnTheWay(toward, after)
  BY <1>2 DEF ClaimedOnTheWay
<1> QED BY <1>3 DEF after

\* sendRipResp claims what leads on.
LEMMA SendOnTheWay ==
  ASSUME IInv, NEW toward, OnTheWay(toward, table), NEW bufs, GoodBuffers(bufs),
         ClaimedOnTheWay(toward, bufs), NEW r \in Router, NEW ports
  PROVE  ClaimedOnTheWay(toward, Transmit(bufs, r, RipResponses(r, ports)))
<1> DEFINE out == RipResponses(r, ports)
<1>1. GoodTable(table[r], r, up[r])
  BY IInvParts DEF GoodTables
<1>2. \A i \in Iface : IsOut(out[i])
  BY <1>1, RipResponsesGood
<1>3. \A i \in Iface : \A n \in DOMAIN out[i] :
        LET m == out[i][n] IN
          m.type = "response" => \A p \in DOMAIN m.entries :
            m.entries[p] < Infinity => toward[m.from[1]][p] # m.from[2]
  BY SayOnTheWay
<1> HIDE DEF out
<1>4. ClaimedOnTheWay(toward, Transmit(bufs, r, out))
  BY <1>2, <1>3, TransmitOnTheWay
<1> QED BY <1>4 DEF out

LEMMA TreeInit == ASSUME Init, NEW toward PROVE TreeInv(toward)
<1>1. \A r \in Router, i \in Iface : DOMAIN rx[r][i] = {}
  BY DEF Init
<1>2. \A r \in Router : DOMAIN table[r] = {}
  BY DEF Init
<1> QED BY <1>1, <1>2 DEF TreeInv, OnTheWay, ClaimedOnTheWay

\* Boot: direct routes are on the way.
LEMMA BootTree ==
  ASSUME IInv, NEW toward, LeadsTo(toward), TreeInv(toward), NEW r \in Router, Boot(r)
  PROVE  TreeInv(toward)'
<1>1. GoodTables /\ GoodBuffers(rx)
  BY IInvParts
<1>2. /\ table'[r] = DirectRoutes(r) /\ \A s \in Router : s # r => table'[s] = table[s]
  BY <1>1 DEF Boot, GoodTables
<1>3. ASSUME NEW p \in DOMAIN DirectRoutes(r)
      PROVE  DirectRoutes(r)[p].if_index = toward[r][p] /\ DirectRoutes(r)[p].nexthop = Direct
  <2> DEFINE i == CHOOSE i \in Iface : Attach[r][i] = p
  <2>1. i \in Iface /\ Attach[r][i] = p /\ p \in Prefix
    BY DEF DirectRoutes
  <2>2. DirectRoutes(r)[p] = [if_index |-> i, nexthop |-> Direct, metric |-> 1]
    BY DEF DirectRoutes
  <2> HIDE DEF i
  <2> QED BY <2>1, <2>2 DEF LeadsTo
<1>4. OnTheWay(toward, table')
  BY <1>2, <1>3 DEF TreeInv, OnTheWay
<1> DEFINE out == [i \in Iface |-> <<Request>>]
<1>5. \A i \in Iface : IsOut(out[i]) /\ \A n \in DOMAIN out[i] : out[i][n].type # "response"
  <2>1. IsOut(<<Request>>)
    BY DEF IsOut, IsMessage
  <2> QED BY <2>1 DEF Request
<1>6. rx' = Transmit(rx, r, out)
  BY DEF Boot
<1> HIDE DEF out
<1>7. ClaimedOnTheWay(toward, rx')
  BY <1>1, <1>5, <1>6, TransmitOnTheWay DEF TreeInv
<1> QED BY <1>4, <1>7 DEF TreeInv

LEMMA HandleResponseTree ==
  ASSUME IInv, NEW toward, LeadsTo(toward), TreeInv(toward),
         NEW r \in Router, NEW i \in Iface, HandleResponse(r, i)
  PROVE  TreeInv(toward)'
<1>1. GoodTables /\ GoodBuffers(rx)
  BY IInvParts
<1> DEFINE m == rx[r][i][1]
           t == table[r]
           u == Learn(t, i, m.from, m.entries)
<1>2. /\ 1 \in DOMAIN rx[r][i] /\ m.type = "response" /\ rx' = Without(rx, r, i, 1)
      /\ table'[r] = u /\ \A s \in Router : s # r => table'[s] = table[s]
  BY <1>1, HeadInBuffer DEF HandleResponse, GoodTables
<1>3. /\ m.from \in Addr /\ m.from = <<m.from[1], m.from[2]>>
      /\ m.from[1] \in Router /\ m.from[2] \in Iface
      /\ Hears(r, i, m.from[1], m.from[2]) /\ IsRipEntries(m.entries)
  BY <1>1, <1>2, ResponseFrom
<1>4. IsRoutingTable(t)
  BY <1>1 DEF GoodTables, GoodTable
<1>5. \A p \in DOMAIN m.entries :
        m.entries[p] < Infinity => toward[m.from[1]][p] # m.from[2]
  BY <1>2 DEF TreeInv, ClaimedOnTheWay
<1> HIDE DEF m
<1>6. ASSUME NEW p \in DOMAIN u
      PROVE  /\ u[p].if_index = toward[r][p]
             /\ u[p].nexthop # Direct =>
                  /\ Hears(u[p].nexthop[1], u[p].nexthop[2], r, u[p].if_index)
                  /\ toward[u[p].nexthop[1]][p] # u[p].nexthop[2]
  <2>1. \/ p \in DOMAIN t /\ u[p] = t[p]
        \/ /\ p \in DOMAIN m.entries /\ u[p].nexthop = m.from
           /\ u[p].metric = m.entries[p] + 1 /\ m.entries[p] + 1 < Infinity
    BY <1>3, <1>4, LearnOrigin
  <2>2. CASE p \in DOMAIN t /\ u[p] = t[p]
    BY <2>2 DEF TreeInv, OnTheWay
  <2>3. CASE /\ p \in DOMAIN m.entries /\ u[p].nexthop = m.from
             /\ u[p].metric = m.entries[p] + 1 /\ m.entries[p] + 1 < Infinity
    <3>1. p \in Prefix /\ m.entries[p] < Infinity
      BY <1>3, <2>3, Constants DEF IsRipEntries
    <3>2. toward[m.from[1]][p] # m.from[2]
      BY <1>5, <2>3, <3>1
    <3>3. toward[r][p] = i
      BY <1>3, <3>1, <3>2 DEF LeadsTo
    <3>4. u[p].if_index = IF p \in DOMAIN t THEN t[p].if_index ELSE i
      BY <1>4, LearnIface
    <3>5. u[p].if_index = i
      BY <3>3, <3>4 DEF TreeInv, OnTheWay
    <3>6. Hears(m.from[1], m.from[2], r, i)
      BY <1>3 DEF Hears
    <3> HIDE DEF u
    <3> QED BY <2>3, <3>2, <3>3, <3>5, <3>6
  <2> QED BY <2>1, <2>2, <2>3
<1> HIDE DEF u
<1>7. OnTheWay(toward, table')
  <2>1. ASSUME NEW s \in Router, s # r, NEW p \in DOMAIN table'[s]
        PROVE  LET e == table'[s][p] IN
                 /\ e.if_index = toward[s][p]
                 /\ e.nexthop # Direct => /\ Hears(e.nexthop[1], e.nexthop[2], s, e.if_index)
                                          /\ toward[e.nexthop[1]][p] # e.nexthop[2]
    BY <1>2, <2>1 DEF TreeInv, OnTheWay
  <2>2. ASSUME NEW p \in DOMAIN table'[r]
        PROVE  LET e == table'[r][p] IN
                 /\ e.if_index = toward[r][p]
                 /\ e.nexthop # Direct => /\ Hears(e.nexthop[1], e.nexthop[2], r, e.if_index)
                                          /\ toward[e.nexthop[1]][p] # e.nexthop[2]
    BY <1>2, <1>6
  <2> QED BY <2>1, <2>2 DEF OnTheWay
<1>8. ClaimedOnTheWay(toward, rx')
  BY <1>1, <1>2, WithoutOnTheWay DEF TreeInv
<1> QED BY <1>7, <1>8 DEF TreeInv

LEMMA CrashTree ==
  ASSUME IInv, NEW toward, TreeInv(toward), NEW r \in Router, Crash(r)
  PROVE  TreeInv(toward)'
<1>1. GoodTables /\ GoodBuffers(rx)
  BY IInvParts
<1>2. table'[r] = <<>> /\ \A s \in Router : s # r => table'[s] = table[s]
  BY <1>1 DEF Crash, GoodTables
<1>3. /\ \A i \in Iface : rx'[r][i] = <<>>
      /\ \A s \in Router : s # r => rx'[s] = rx[s]
  BY <1>1 DEF Crash, GoodBuffers
<1>4. OnTheWay(toward, table')
  BY <1>2 DEF TreeInv, OnTheWay
<1>5. ClaimedOnTheWay(toward, rx')
  BY <1>3 DEF TreeInv, ClaimedOnTheWay
<1> QED BY <1>4, <1>5 DEF TreeInv

LEMMA NextTree ==
  ASSUME NEW toward, LeadsTo(toward)
  PROVE  IInv /\ TreeInv(toward) /\ [Next]_vars => TreeInv(toward)'
<1> SUFFICES ASSUME IInv, TreeInv(toward), [Next]_vars PROVE TreeInv(toward)'
  OBVIOUS
<1>1. GoodTables /\ GoodBuffers(rx)
  BY IInvParts
<1>2. CASE UNCHANGED vars
  BY <1>2 DEF vars, TreeInv
<1>3. ASSUME NEW r \in Router, Boot(r) PROVE TreeInv(toward)'
  BY <1>3, BootTree
<1>4. ASSUME NEW r \in Router, Timer(r) PROVE TreeInv(toward)'
  <2>1. rx' = Transmit(rx, r, RipResponses(r, Iface)) /\ table' = table
    BY <1>4 DEF Timer
  <2> QED BY <1>1, <2>1, SendOnTheWay DEF TreeInv
<1>5. ASSUME NEW r \in Router, Crash(r) PROVE TreeInv(toward)'
  BY <1>5, CrashTree
<1>6. ASSUME NEW r \in Router, NEW i \in Iface, HandleRequest(r, i) PROVE TreeInv(toward)'
  <2>1. GoodBuffers(Without(rx, r, i, 1)) /\ ClaimedOnTheWay(toward, Without(rx, r, i, 1))
    BY <1>1, <1>6, HeadInBuffer, WithoutGood, WithoutOnTheWay DEF HandleRequest, TreeInv
  <2>2. /\ rx' = Transmit(Without(rx, r, i, 1), r, RipResponses(r, {i}))
        /\ table' = table
    BY <1>6 DEF HandleRequest
  <2> QED BY <2>1, <2>2, SendOnTheWay DEF TreeInv
<1>7. ASSUME NEW r \in Router, NEW i \in Iface, HandleResponse(r, i) PROVE TreeInv(toward)'
  BY <1>7, HandleResponseTree
<1>8. ASSUME NEW r \in Router, NEW i \in Iface, Lose(r, i) PROVE TreeInv(toward)'
  <2>1. PICK n \in DOMAIN rx[r][i] : rx' = Without(rx, r, i, n)
    BY <1>8 DEF Lose
  <2>2. table' = table
    BY <1>8 DEF Lose
  <2> QED BY <1>1, <2>1, <2>2, WithoutOnTheWay DEF TreeInv
<1> QED BY <1>2, <1>3, <1>4, <1>5, <1>6, <1>7, <1>8 DEF Next, Receive

\* What follows from every route being on the way.
LEMMA TreeConsequences ==
  ASSUME IInv, NEW toward, LeadsTo(toward), TreeInv(toward)
  PROVE  NexthopOnInterface /\ PoisonedReverse /\ LoopFree
<1>1. \A r \in Router : IsRoutingTable(table[r])
  BY IInvParts DEF GoodTables, GoodTable
<1>2. ASSUME NEW r \in Router, NEW p \in DOMAIN table[r], table[r][p].nexthop # Direct
      PROVE  LET e == table[r][p] IN
               /\ e.if_index = toward[r][p]
               /\ Hears(e.nexthop[1], e.nexthop[2], r, e.if_index)
               /\ toward[e.nexthop[1]][p] # e.nexthop[2]
               /\ e.nexthop[1] \in Router /\ e.nexthop[2] \in Iface
               /\ e.if_index \in Iface /\ p \in Prefix
  <2>1. table[r][p] \in RoutingTableEntry /\ p \in Prefix
    BY <1>1 DEF IsRoutingTable
  <2>2. table[r][p].nexthop \in Addr /\ table[r][p].if_index \in Iface
    BY <1>2, <2>1 DEF RoutingTableEntry
  <2> QED BY <1>2, <2>1, <2>2 DEF TreeInv, OnTheWay, Addr
<1>3. ASSUME NEW r \in Router, NEW p \in DOMAIN table[r], table[r][p].nexthop # Direct
      PROVE  Distance[table[r][p].nexthop[1]][p] < Distance[r][p]
  BY <1>2, <1>3, WayShortens
<1>4. NexthopOnInterface
  BY <1>2 DEF NexthopOnInterface
<1>5. PoisonedReverse
  <2> SUFFICES ASSUME NEW r \in Router, NEW p \in DOMAIN table[r], NEW i \in Iface, NEW j \in Iface,
                      table[r][p].nexthop # Direct, Hears(table[r][p].nexthop[1], j, r, i)
               PROVE  Advertised(table[r][p], i) = Infinity
    BY DEF PoisonedReverse
  <2> DEFINE e == table[r][p]
             s == e.nexthop[1]
  <2>1. e.if_index = i
    <3>1. SUFFICES ASSUME e.if_index # i PROVE FALSE
      OBVIOUS
    <3>2. toward[r][p] # i /\ s \in Router /\ p \in Prefix
      BY <1>2, <3>1
    <3>3. toward[s][p] = j
      BY <3>2 DEF LeadsTo
    <3>4. Hears(r, i, s, j)
      BY DEF Hears
    <3>5. Distance[r][p] < Distance[s][p]
      BY <3>2, <3>3, <3>4, WayShortens
    <3>6. Distance[s][p] < Distance[r][p]
      BY <1>3
    <3>7. Distance[s][p] \in Nat /\ Distance[r][p] \in Nat
      BY <3>2, Constants DEF DistanceAssumption
    <3> QED BY <3>5, <3>6, <3>7
  <2> QED BY <2>1 DEF Advertised
<1>6. LoopFree
  <2> SUFFICES ASSUME NEW p \in Prefix, NEW S \in (SUBSET Router) \ {{}}
               PROVE  \E r \in S : NextRouter(r, p) \cap S = {}
    BY DEF LoopFree
  <2> DEFINE D == {Distance[r][p] : r \in S}
  <2>1. \A r \in S : Distance[r][p] \in Nat
    BY Constants DEF DistanceAssumption
  <2>2. D \in SUBSET Nat /\ D # {}
    BY <2>1
  <2>3. PICK n \in D : \A m \in D : n <= m
    <3> HIDE DEF D
    <3> QED BY <2>2, Least
  <2>4. PICK r \in S : n = Distance[r][p]
    BY <2>3
  <2>5. ASSUME NEW s \in NextRouter(r, p) \cap S PROVE FALSE
    <3>1. PICK i \in Iface : table[r][p].nexthop = <<s, i>> /\ p \in DOMAIN table[r]
      BY <2>5 DEF NextRouter
    <3>2. table[r][p].nexthop # Direct
      BY <3>1, Constants DEF Addr
    <3>3. table[r][p].nexthop[1] = s
      BY <3>1
    <3>4. Distance[s][p] < Distance[r][p]
      BY <1>3, <3>1, <3>2, <3>3
    <3>5. Distance[s][p] \in D
      OBVIOUS
    <3> HIDE DEF D
    <3> QED BY <2>1, <2>3, <2>4, <3>4, <3>5
  <2> QED BY <2>5
<1> QED BY <1>4, <1>5, <1>6

LEMMA TreeSafety ==
  ASSUME NEW toward, LeadsTo(toward)
  PROVE  Spec => [](NexthopOnInterface /\ PoisonedReverse /\ LoopFree)
<1>1. Init => TreeInv(toward)
  BY TreeInit
<1>2. IInv /\ TreeInv(toward) /\ [Next]_vars => TreeInv(toward)'
  BY NextTree
<1>3. IInv /\ TreeInv(toward) => NexthopOnInterface /\ PoisonedReverse /\ LoopFree
  BY TreeConsequences
<1> QED BY <1>1, <1>2, <1>3, Safety, PTL DEF Spec

\* Without a circle in the network, crashes and losses do no harm to where
\* routes lead: every next hop is on the interface of its route.
THEOREM TreeNexthops == ASSUME NoCircle PROVE Spec => []NexthopOnInterface
<1>1. PICK toward : LeadsTo(toward)
  BY DEF NoCircle
<1> QED BY <1>1, TreeSafety, PTL

\* Nor is a next hop ever told of the route that goes through it.
THEOREM TreePoison == ASSUME NoCircle PROVE Spec => []PoisonedReverse
<1>1. PICK toward : LeadsTo(toward)
  BY DEF NoCircle
<1> QED BY <1>1, TreeSafety, PTL

\* Nor do next hops form a circle.
THEOREM TreeLoopFree == ASSUME NoCircle PROVE Spec => []LoopFree
<1>1. PICK toward : LeadsTo(toward)
  BY DEF NoCircle
<1> QED BY <1>1, TreeSafety, PTL

=============================================================================
