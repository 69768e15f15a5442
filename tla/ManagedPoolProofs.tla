------------------------- MODULE ManagedPoolProofs -------------------------
(***************************************************************************)
(* The pool and its callers, for any number of dialers and recoveries and  *)
(* any pool size and set of endpoints, with or without a heartbeat: what   *)
(* uniqueEntries, Invalidate and PromoteReserve do to a pool, the single   *)
(* flight of Refresh, and the invariant behind the dials.                  *)
(***************************************************************************)
EXTENDS ManagedPool, WellFoundedInduction, SequenceTheorems, TLAPS

NoRepeats(s) == \A i, j \in DOMAIN s : s[i] = s[j] => i = j
Pools == Findings \cup {<<>>}

LEMMA PoolMeaning ==
    ASSUME NEW s
    PROVE  s \in Pools <=>
             s \in Seq(Endpoints) /\ Len(s) <= PoolSize /\ NoRepeats(s)
<1>1. ASSUME s \in Pools PROVE s \in Seq(Endpoints) /\ Len(s) <= PoolSize /\ NoRepeats(s)
  <2>1. CASE s = <<>>
    BY <2>1, SizesAssumption, EmptySeq DEF NoRepeats
  <2>2. CASE s # <<>>
    <3>1. PICK n \in 1..PoolSize : s \in [1..n -> Endpoints]
      BY <1>1, <2>2 DEF Pools, Findings
    <3>2. n \in Nat /\ n <= PoolSize
      BY <3>1, SizesAssumption
    <3>3. s \in Seq(Endpoints)
      BY <3>1, <3>2, SeqDef
    <3>4. Len(s) = n
      BY <3>1, <3>2, <3>3, LenProperties
    <3> QED
      BY <1>1, <2>2, <3>2, <3>3, <3>4 DEF Pools, Findings, NoRepeats
  <2> QED
    BY <2>1, <2>2
<1>2. ASSUME s \in Seq(Endpoints), Len(s) <= PoolSize, NoRepeats(s) PROVE s \in Pools
  <2>1. CASE s = <<>>
    BY <2>1 DEF Pools
  <2>2. CASE s # <<>>
    <3>1. Len(s) \in 1..PoolSize /\ s \in [1..Len(s) -> Endpoints]
      BY <1>2, <2>2, SizesAssumption, LenProperties, EmptySeq
    <3> QED
      BY <1>2, <3>1 DEF Pools, Findings, NoRepeats
  <2> QED
    BY <2>1, <2>2
<1> QED
  BY <1>1, <1>2

\* Induction over the natural numbers, as a fact about sets of them: what
\* fails for some number fails for a least one.
LEMMA LeastNumber ==
    ASSUME NEW T, T \subseteq Nat, T # {}
    PROVE  \E m \in T : \A k \in T : m <= k
<1>1. IsWellFoundedOn(OpToRel(<,Nat), Nat)
  BY NatLessThanWellFounded
<1>2. PICK m \in T : \A k \in T : ~(<<k,m>> \in OpToRel(<,Nat))
  BY <1>1, WFMin
<1>3. \A k \in T : ~(k < m)
  BY <1>2 DEF OpToRel
<1> QED
  BY <1>3

\* Invalidate: the index its loop stops at, and what append leaves.
LEMMA FirstIndex ==
    ASSUME NEW s \in Seq(Endpoints), NEW e, \E i \in DOMAIN s : s[i] = e
    PROVE  \E i \in 1..Len(s) : s[i] = e /\ RemoveFirst(s, e) = RemoveAt(s, i)
<1> DEFINE T == {i \in 1..Len(s) : s[i] = e}
<1>1. DOMAIN s = 1..Len(s) /\ Len(s) \in Nat
  BY LenProperties
<1>2. T \subseteq Nat /\ T # {}
  BY <1>1
<1>3. Min(T) \in T
  <2> HIDE DEF T
  <2>1. \E m \in T : \A k \in T : m <= k
    BY <1>2, LeastNumber
  <2> QED
    BY <2>1 DEF Min
<1>4. RemoveFirst(s, e) = RemoveAt(s, Min(T))
  BY <1>1, <1>2 DEF RemoveFirst, SelectInSeq
<1> HIDE DEF T
<1>5. Min(T) \in 1..Len(s) /\ s[Min(T)] = e
  BY <1>3 DEF T
<1> QED
  BY <1>4, <1>5

LEMMA RemoveAtMeaning ==
    ASSUME NEW s \in Seq(Endpoints), NEW i \in 1..Len(s)
    PROVE  /\ RemoveAt(s, i) \in Seq(Endpoints)
           /\ Len(RemoveAt(s, i)) = Len(s) - 1
           /\ \A k \in 1..(Len(s) - 1) :
                RemoveAt(s, i)[k] = IF k < i THEN s[k] ELSE s[k + 1]
<1> DEFINE a == SubSeq(s, 1, i - 1)
           b == SubSeq(s, i + 1, Len(s))
<1>0. /\ Len(s) \in Nat /\ i \in Int /\ i - 1 \in Int /\ i + 1 \in Int
      /\ \A k \in 1..Len(s) : s[k] \in Endpoints
  BY LenProperties, ElementOfSeq
<1>1. /\ a \in Seq(Endpoints) /\ Len(a) = i - 1
      /\ \A k \in 1..(i - 1) : a[k] = s[k]
  <2>1. \A k \in 1..(i - 1) : s[k] \in Endpoints
    BY <1>0
  <2>2. /\ a \in Seq(Endpoints) /\ Len(a) = IF 1 <= i - 1 THEN (i - 1) - 1 + 1 ELSE 0
        /\ \A k \in 1..((i - 1) - 1 + 1) : a[k] = s[1 + k - 1]
    BY <1>0, <2>1, SubSeqProperties
  <2> HIDE DEF a
  <2> QED
    BY <1>0, <2>2
<1>2. /\ b \in Seq(Endpoints) /\ Len(b) = Len(s) - i
      /\ \A k \in 1..(Len(s) - i) : b[k] = s[i + k]
  <2>1. \A k \in (i + 1)..Len(s) : s[k] \in Endpoints
    BY <1>0
  <2>2. /\ b \in Seq(Endpoints)
        /\ Len(b) = IF i + 1 <= Len(s) THEN Len(s) - (i + 1) + 1 ELSE 0
        /\ \A k \in 1..(Len(s) - (i + 1) + 1) : b[k] = s[(i + 1) + k - 1]
    BY <1>0, <2>1, SubSeqProperties
  <2> HIDE DEF b
  <2> QED
    BY <1>0, <2>2
<1> HIDE DEF a, b
<1>3. /\ a \o b \in Seq(Endpoints)
      /\ Len(a \o b) = Len(a) + Len(b)
      /\ \A k \in 1..(Len(a) + Len(b)) :
            (a \o b)[k] = IF k <= Len(a) THEN a[k] ELSE b[k - Len(a)]
  BY <1>1, <1>2, ConcatProperties
<1>4. RemoveAt(s, i) = a \o b
  BY DEF RemoveAt, a, b
<1>5. ASSUME NEW k \in 1..(Len(s) - 1)
      PROVE  (a \o b)[k] = IF k < i THEN s[k] ELSE s[k + 1]
  <2>1. CASE k < i
    BY <1>0, <1>1, <1>2, <1>3, <2>1
  <2>2. CASE ~(k < i)
    <3>1. (a \o b)[k] = b[k - (i - 1)]
      BY <1>0, <1>1, <1>2, <1>3, <2>2
    <3>2. k - (i - 1) \in 1..(Len(s) - i) /\ i + (k - (i - 1)) = k + 1
      BY <1>0, <2>2
    <3> QED
      BY <1>2, <2>2, <3>1, <3>2
  <2> QED
    BY <2>1, <2>2
<1>6. Len(a) + Len(b) = Len(s) - 1
  BY <1>0, <1>1, <1>2
<1> QED
  BY <1>3, <1>4, <1>5, <1>6

\* Invalidate takes the endpoint, and nothing else, out of the pool.
LEMMA RemovalMeaning ==
    ASSUME NEW e, entries \in Pools
    PROVE  /\ RemoveFirst(entries, e) \in Pools
           /\ {RemoveFirst(entries, e)[i] : i \in DOMAIN RemoveFirst(entries, e)} = Pooled \ {e}
           /\ Len(RemoveFirst(entries, e)) = IF e \in Pooled THEN Len(entries) - 1 ELSE Len(entries)
<1>0. entries \in Seq(Endpoints) /\ Len(entries) <= PoolSize /\ NoRepeats(entries)
  BY PoolMeaning
<1>1. CASE e \notin Pooled
  BY <1>0, <1>1, LenProperties DEF RemoveFirst, Pooled
<1>2. CASE e \in Pooled
  <2>1. PICK i \in 1..Len(entries) :
               entries[i] = e /\ RemoveFirst(entries, e) = RemoveAt(entries, i)
    <3>1. \E j \in DOMAIN entries : entries[j] = e
      BY <1>2 DEF Pooled
    <3> QED
      BY <1>0, <3>1, FirstIndex
  <2> DEFINE r == RemoveAt(entries, i)
  <2>2. RemoveFirst(entries, e) = r
    BY <2>1
  <2>3. /\ r \in Seq(Endpoints) /\ Len(r) = Len(entries) - 1
        /\ \A k \in 1..(Len(entries) - 1) :
               r[k] = IF k < i THEN entries[k] ELSE entries[k + 1]
    BY <1>0, <2>1, RemoveAtMeaning
  <2> HIDE DEF r
  <2>4. /\ Len(entries) \in Nat /\ DOMAIN entries = 1..Len(entries)
        /\ DOMAIN r = 1..(Len(entries) - 1)
    BY <1>0, <2>3, LenProperties
  <2> DEFINE from(k) == IF k < i THEN k ELSE k + 1
  <2>from. \A k \in DOMAIN r : /\ from(k) \in 1..Len(entries) /\ from(k) # i
                            /\ r[k] = entries[from(k)]
    BY <2>1, <2>3, <2>4
  <2>5. NoRepeats(r)
    <3> SUFFICES ASSUME NEW j \in DOMAIN r, NEW k \in DOMAIN r, r[j] = r[k]
                 PROVE  j = k
      BY DEF NoRepeats
    <3>1. from(j) = from(k)
      BY <1>0, <2>4, <2>from DEF NoRepeats
    <3> QED
      BY <2>1, <2>4, <3>1
  <2>6. ASSUME NEW k \in DOMAIN r PROVE r[k] \in Pooled \ {e}
    <3>1. from(k) \in DOMAIN entries /\ i \in DOMAIN entries /\ from(k) # i
      BY <2>1, <2>4, <2>from
    <3>2. entries[from(k)] # entries[i]
      BY <1>0, <3>1 DEF NoRepeats
    <3> HIDE DEF from
    <3> QED
      BY <2>1, <2>from, <3>1, <3>2 DEF Pooled
  <2>7. ASSUME NEW x \in Pooled \ {e} PROVE \E k \in DOMAIN r : r[k] = x
    <3>1. PICK p \in 1..Len(entries) : entries[p] = x
      BY <2>4 DEF Pooled
    <3>2. CASE p < i
      <4>1. p \in DOMAIN r
        BY <2>1, <2>4, <3>2
      <4> QED
        BY <2>3, <2>4, <3>1, <3>2, <4>1
    <3>3. CASE p > i
      <4>1. p - 1 \in DOMAIN r /\ ~(p - 1 < i) /\ (p - 1) + 1 = p
        BY <2>1, <2>4, <3>3
      <4> QED
        BY <2>3, <2>4, <3>1, <3>3, <4>1
    <3>4. p # i
      BY <2>1, <3>1
    <3> QED
      BY <2>1, <3>2, <3>3, <3>4
  <2>8. Len(r) <= PoolSize
    BY <1>0, <2>3, <2>4, SizesAssumption
  <2>9. {r[k] : k \in DOMAIN r} = Pooled \ {e}
    BY <2>6, <2>7
  <2> QED
    BY <1>2, <2>2, <2>3, <2>5, <2>8, <2>9, PoolMeaning
<1> QED
  BY <1>1, <1>2

-----------------------------------------------------------------------------
\* One round of the loop of uniqueEntries.
Round(kept, e, max) ==
    IF Len(kept) = max \/ \E k \in DOMAIN kept : kept[k] = e
    THEN kept ELSE Append(kept, e)

\* f lists what is kept after 0, 1, ..., n rounds.
Rounds(f, s, max, n) ==
    f = [i \in 0..n |-> IF i = 0 THEN <<>> ELSE Round(f[i - 1], s[i], max)]

\* The recursive function is defined by its equation, because one exists.
LEMMA RoundsExist ==
    ASSUME NEW s, NEW max, NEW n \in Nat
    PROVE  \E f : Rounds(f, s, max, n)
<1> DEFINE T == {m \in Nat : ~ \E f : Rounds(f, s, max, m)}
<1>1. ASSUME T # {} PROVE FALSE
  <2>1. T \subseteq Nat
    OBVIOUS
  <2>2. PICK m \in T : \A k \in T : m <= k
    <3> HIDE DEF T
    <3> QED
      BY <1>1, <2>1, LeastNumber
  <2>3. m \in Nat /\ ~ \E f : Rounds(f, s, max, m)
    OBVIOUS
  <2>4. CASE m = 0
    <3> DEFINE f == [i \in 0..0 |-> <<>>]
    <3>1. f = [i \in 0..0 |-> IF i = 0 THEN <<>> ELSE Round(f[i - 1], s[i], max)]
      OBVIOUS
    <3> QED
      BY <2>3, <2>4, <3>1 DEF Rounds
  <2>5. CASE m # 0
    <3>1. m - 1 \in Nat /\ ~(m <= m - 1)
      BY <2>3, <2>5
    <3>2. m - 1 \notin T
      BY <2>2, <3>1
    <3>3. PICK f : Rounds(f, s, max, m - 1)
      BY <3>1, <3>2
    <3> DEFINE g == [i \in 0..m |-> IF i = m THEN Round(f[m - 1], s[m], max) ELSE f[i]]
    <3> HIDE DEF T
    <3>4. \A i \in 0..m : i # m => i \in 0..(m - 1) /\ (i # 0 => i - 1 \in 0..(m - 1))
      BY <2>3
    <3>5. \A i \in 0..(m - 1) :
            f[i] = IF i = 0 THEN <<>> ELSE Round(f[i - 1], s[i], max)
      BY <3>3 DEF Rounds
    <3>6. ASSUME NEW i \in 0..m
          PROVE  g[i] = IF i = 0 THEN <<>> ELSE Round(g[i - 1], s[i], max)
      <4>1. CASE i = m
        <5>1. m - 1 \in 0..m /\ m - 1 # m
          BY <2>3, <3>1
        <5>2. g[m - 1] = f[m - 1]
          BY <5>1
        <5> QED
          BY <2>5, <4>1, <5>2
      <4>2. CASE i # m /\ i # 0
        <5>1. i - 1 \in 0..m /\ i - 1 # m
          BY <2>3, <4>2
        <5>2. g[i - 1] = f[i - 1] /\ g[i] = f[i]
          BY <4>2, <5>1
        <5> QED
          BY <3>4, <3>5, <4>2, <5>2
      <4>3. CASE i # m /\ i = 0
        BY <3>4, <3>5, <4>3
      <4> QED
        BY <4>1, <4>2, <4>3
    <3>7. g = [i \in 0..m |-> g[i]]
      OBVIOUS
    <3> HIDE DEF g
    <3>8. g = [i \in 0..m |-> IF i = 0 THEN <<>> ELSE Round(g[i - 1], s[i], max)]
      BY <3>6, <3>7
    <3> QED
      BY <2>3, <3>8 DEF Rounds
  <2> QED
    BY <2>4, <2>5
<1> QED
  BY <1>1

\* UniqueEntries is the last of those rounds.
LEMMA UniqueEntriesRounds ==
    ASSUME NEW s, NEW max, Len(s) \in Nat
    PROVE  \E f : Rounds(f, s, max, Len(s)) /\ UniqueEntries(s, max) = f[Len(s)]
<1> DEFINE f == CHOOSE keep : keep = [i \in 0..Len(s) |->
                  IF i = 0 THEN <<>>
                  ELSE IF Len(keep[i - 1]) = max
                            \/ \E k \in DOMAIN keep[i - 1] : keep[i - 1][k] = s[i]
                       THEN keep[i - 1] ELSE Append(keep[i - 1], s[i])]
<1>1. UniqueEntries(s, max) = f[Len(s)]
  BY DEF UniqueEntries
<1>2. \E g : g = [i \in 0..Len(s) |->
                  IF i = 0 THEN <<>>
                  ELSE IF Len(g[i - 1]) = max
                            \/ \E k \in DOMAIN g[i - 1] : g[i - 1][k] = s[i]
                       THEN g[i - 1] ELSE Append(g[i - 1], s[i])]
  <2>1. PICK g : Rounds(g, s, max, Len(s))
    BY RoundsExist
  <2> QED
    BY <2>1 DEF Rounds, Round
<1>3. f = [i \in 0..Len(s) |->
                  IF i = 0 THEN <<>>
                  ELSE IF Len(f[i - 1]) = max
                            \/ \E k \in DOMAIN f[i - 1] : f[i - 1][k] = s[i]
                       THEN f[i - 1] ELSE Append(f[i - 1], s[i])]
  BY <1>2
<1> HIDE DEF f
<1>4. Rounds(f, s, max, Len(s))
  BY <1>3 DEF Rounds, Round
<1> QED
  BY <1>1, <1>4

\* What is kept after n rounds: the first occurrences among the first n
\* entries, in their order, all of them unless there are max.
Kept(r, s, max, n) ==
    /\ r \in Seq(Endpoints)
    /\ Len(r) <= max /\ Len(r) <= n
    /\ NoRepeats(r)
    /\ \A k \in DOMAIN r : \E p \in 1..n : s[p] = r[k]
    /\ Len(r) = max \/ \A p \in 1..n : \E k \in DOMAIN r : r[k] = s[p]
    /\ \A a, b \in DOMAIN r :
         a < b => \E p \in 1..n : s[p] = r[a] /\ \A q \in 1..n : s[q] = r[b] => p < q
    /\ \A m \in 0..n :
         m <= max /\ (\A x, y \in 1..m : s[x] = s[y] => x = y) =>
            m <= Len(r) /\ \A k \in 1..m : r[k] = s[k]

\* A round that has kept the right entries keeps the right entries.
LEMMA RoundKeeps ==
    ASSUME NEW s \in Seq(Endpoints), NEW max \in Nat \ {0},
           NEW n \in 1..Len(s), NEW r, Kept(r, s, max, n - 1)
    PROVE  Kept(Round(r, s[n], max), s, max, n)
<1> DEFINE e == s[n]
           t == Append(r, e)
<1>0. /\ n \in Nat /\ n - 1 \in Nat /\ e \in Endpoints
      /\ \A p : p \in 1..n <=> p \in 1..(n - 1) \/ p = n
      /\ r \in Seq(Endpoints) /\ Len(r) \in Nat /\ DOMAIN r = 1..Len(r)
  BY LenProperties, ElementOfSeq DEF Kept
<1>kept. /\ Len(r) <= max /\ Len(r) <= n - 1 /\ NoRepeats(r)
      /\ \A k \in DOMAIN r : \E p \in 1..(n - 1) : s[p] = r[k]
  BY DEF Kept
<1>order. \A a, b \in DOMAIN r : a < b =>
         \E p \in 1..(n - 1) : s[p] = r[a] /\ \A q \in 1..(n - 1) : s[q] = r[b] => p < q
  BY DEF Kept
<1>nat. n \in Nat /\ max \in Nat /\ Len(r) \in Nat
  BY <1>0
<1> HIDE DEF e
<1>1. CASE Len(r) = max \/ \E k \in DOMAIN r : r[k] = e
  <2>1. Round(r, e, max) = r
    BY <1>1 DEF Round
  <2>2. \A k \in DOMAIN r : \E p \in 1..n : s[p] = r[k]
    BY <1>0 DEF Kept
  <2>3. Len(r) = max \/ \A p \in 1..n : \E k \in DOMAIN r : r[k] = s[p]
    BY <1>0, <1>1 DEF Kept, e
  <2>4. ASSUME NEW a \in DOMAIN r, NEW b \in DOMAIN r, a < b
        PROVE  \E p \in 1..n : s[p] = r[a] /\ \A q \in 1..n : s[q] = r[b] => p < q
    <3>1. PICK p \in 1..(n - 1) :
              s[p] = r[a] /\ \A q \in 1..(n - 1) : s[q] = r[b] => p < q
      BY <1>order, <2>4
    <3>2. p \in 1..n /\ p < n
      BY <1>0
    <3> QED
      BY <1>0, <3>1, <3>2
  <2>5. ASSUME NEW m \in 0..n, m <= max, \A x, y \in 1..m : s[x] = s[y] => x = y
        PROVE  m <= Len(r) /\ \A k \in 1..m : r[k] = s[k]
    <3>1. CASE m # n
      <4>1. m \in 0..(n - 1)
        BY <1>0, <3>1
      <4> QED
        BY <2>5, <4>1 DEF Kept
    <3>2. CASE m = n
      <4>1. n - 1 \in 0..(n - 1) /\ n - 1 <= max /\ Len(r) <= n - 1
        BY <1>0, <1>kept, <2>5, <3>2
      <4>2. \A x, y \in 1..(n - 1) : s[x] = s[y] => x = y
        BY <1>0, <2>5, <3>2
      <4>3. n - 1 <= Len(r) /\ \A k \in 1..(n - 1) : r[k] = s[k]
        BY <4>1, <4>2 DEF Kept
      <4>4. Len(r) = n - 1 /\ n <= max
        BY <1>nat, <2>5, <3>2, <4>1, <4>3
      <4>5. PICK k \in 1..(n - 1) : s[k] = s[n]
        BY <1>0, <1>1, <1>nat, <4>3, <4>4 DEF e
      <4> QED
        BY <1>0, <2>5, <3>2, <4>5
    <3> QED
      BY <3>1, <3>2
  <2>6. Len(r) <= n
    BY <1>0, <1>kept
  <2>7. Len(r) <= max /\ NoRepeats(r)
    BY DEF Kept
  <2>8. Kept(r, s, max, n)
    BY <1>0, <2>2, <2>3, <2>4, <2>5, <2>6, <2>7 DEF Kept
  <2> QED
    BY <2>1, <2>8 DEF e
<1>2. CASE ~(Len(r) = max \/ \E k \in DOMAIN r : r[k] = e)
  <2>1. Round(r, e, max) = t
    BY <1>2 DEF Round
  <2>2. /\ t \in Seq(Endpoints) /\ Len(t) = Len(r) + 1 /\ DOMAIN t = 1..(Len(r) + 1)
        /\ \A k \in DOMAIN r : k \in DOMAIN t /\ t[k] = r[k]
        /\ t[Len(r) + 1] = e
        /\ \A k \in DOMAIN t : k \in DOMAIN r \/ k = Len(r) + 1
    <3>1. /\ t \in Seq(Endpoints) /\ Len(t) = Len(r) + 1
          /\ \A k \in 1..Len(r) : t[k] = r[k]
          /\ t[Len(r) + 1] = e
      BY <1>0, AppendProperties
    <3>2. DOMAIN t = 1..(Len(r) + 1)
      BY <3>1, LenProperties
    <3> HIDE DEF t
    <3> QED
      BY <1>0, <3>1, <3>2
  <2> HIDE DEF t
  <2>3. Len(t) <= max /\ Len(t) <= n
    <3>1. Len(r) # max /\ Len(t) = Len(r) + 1 /\ Len(r) <= max /\ Len(r) <= n - 1
      BY <1>2, <1>kept, <2>2
    <3> QED
      BY <1>nat, <3>1
  <2>4. NoRepeats(t)
    <3> SUFFICES ASSUME NEW i \in DOMAIN t, NEW j \in DOMAIN t, t[i] = t[j]
                 PROVE  i = j
      BY DEF NoRepeats
    <3>1. CASE i \in DOMAIN r /\ j \in DOMAIN r
      BY <2>2, <3>1 DEF Kept, NoRepeats
    <3>2. CASE i \in DOMAIN r /\ j = Len(r) + 1
      BY <1>2, <2>2, <3>2
    <3>3. CASE i = Len(r) + 1 /\ j \in DOMAIN r
      BY <1>2, <2>2, <3>3
    <3> QED
      BY <2>2, <3>1, <3>2, <3>3
  <2>5. \A k \in DOMAIN t : \E p \in 1..n : s[p] = t[k]
    BY <1>0, <1>kept, <2>2 DEF e
  <2>6. \A p \in 1..n : \E k \in DOMAIN t : t[k] = s[p]
    <3> SUFFICES ASSUME NEW p \in 1..n PROVE \E k \in DOMAIN t : t[k] = s[p]
      OBVIOUS
    <3>1. CASE p = n
      BY <1>0, <2>2, <3>1 DEF e
    <3>2. CASE p \in 1..(n - 1)
      <4>1. PICK k \in DOMAIN r : r[k] = s[p]
        BY <1>2, <3>2 DEF Kept
      <4> QED
        BY <2>2, <4>1
    <3> QED
      BY <1>0, <3>1, <3>2
  <2>7. ASSUME NEW a \in DOMAIN t, NEW b \in DOMAIN t, a < b
        PROVE  \E p \in 1..n : s[p] = t[a] /\ \A q \in 1..n : s[q] = t[b] => p < q
    <3>1. a \in DOMAIN r
      BY <1>0, <2>2, <2>7
    <3>2. CASE b \in DOMAIN r
      <4>1. PICK p \in 1..(n - 1) :
                s[p] = r[a] /\ \A q \in 1..(n - 1) : s[q] = r[b] => p < q
        BY <1>order, <2>7, <3>1, <3>2
      <4>2. p \in 1..n /\ p < n
        BY <1>0
      <4> QED
        BY <1>0, <2>2, <3>1, <3>2, <4>1, <4>2
    <3>3. CASE b = Len(r) + 1
      <4>1. PICK p \in 1..(n - 1) : s[p] = r[a]
        BY <3>1 DEF Kept
      <4>2. ASSUME NEW q \in 1..n, s[q] = t[b] PROVE p < q
        <5>1. CASE q \in 1..(n - 1)
          <6>1. PICK k \in DOMAIN r : r[k] = s[q]
            BY <1>2, <5>1 DEF Kept
          <6> QED
            BY <1>2, <2>2, <3>3, <4>2, <6>1
        <5>2. CASE q = n
          BY <1>0, <5>2
        <5> QED
          BY <1>0, <5>1, <5>2
      <4> QED
        BY <1>0, <2>2, <3>1, <4>1, <4>2
    <3> QED
      BY <2>2, <3>2, <3>3
  <2>8. ASSUME NEW m \in 0..n, m <= max, \A x, y \in 1..m : s[x] = s[y] => x = y
        PROVE  m <= Len(t) /\ \A k \in 1..m : t[k] = s[k]
    <3>1. CASE m # n
      <4>1. m \in 0..(n - 1)
        BY <1>0, <3>1
      <4>2. m <= Len(r) /\ \A k \in 1..m : r[k] = s[k]
        BY <2>8, <4>1 DEF Kept
      <4>3. m \in Nat /\ \A k \in 1..m : k \in DOMAIN r
        BY <1>0, <4>2
      <4>4. \A k \in 1..m : t[k] = s[k]
        BY <2>2, <4>2, <4>3
      <4>5. m <= Len(t)
        BY <1>nat, <2>2, <4>2, <4>3
      <4> QED
        BY <4>4, <4>5
    <3>2. CASE m = n
      <4>1. n - 1 \in 0..(n - 1) /\ n - 1 <= max /\ Len(r) <= n - 1
        BY <1>0, <1>kept, <2>8, <3>2
      <4>2. \A x, y \in 1..(n - 1) : s[x] = s[y] => x = y
        BY <1>0, <2>8, <3>2
      <4>3. n - 1 <= Len(r) /\ \A k \in 1..(n - 1) : r[k] = s[k]
        BY <4>1, <4>2 DEF Kept
      <4>4. Len(r) = n - 1
        BY <1>0, <4>1, <4>3
      <4> QED
        BY <1>0, <2>2, <3>2, <4>3, <4>4 DEF e
    <3> QED
      BY <3>1, <3>2
  <2>9. Kept(t, s, max, n)
    BY <2>2, <2>3, <2>4, <2>5, <2>6, <2>7, <2>8 DEF Kept
  <2> QED
    BY <2>1, <2>9 DEF e
<1> QED
  BY <1>1, <1>2

\* What uniqueEntries returns for every sequence of endpoints and every
\* maximum: each endpoint once and no others, in the order in which they first
\* occur, the first max of them if there are more, and a beginning without
\* repetitions as it is (pool.go:244-263).
THEOREM UniqueEntriesMeaning ==
    ASSUME NEW s \in Seq(Endpoints), NEW max \in Nat \ {0}
    PROVE  Kept(UniqueEntries(s, max), s, max, Len(s))
<1>0. Len(s) \in Nat
  BY LenProperties
<1>1. PICK f : Rounds(f, s, max, Len(s)) /\ UniqueEntries(s, max) = f[Len(s)]
  BY <1>0, UniqueEntriesRounds
<1>2. /\ f[0] = <<>>
      /\ \A i \in 1..Len(s) : f[i] = Round(f[i - 1], s[i], max)
  BY <1>0, <1>1 DEF Rounds
<1> DEFINE T == {n \in 0..Len(s) : ~Kept(f[n], s, max, n)}
<1>3. ASSUME T # {} PROVE FALSE
  <2>1. T \subseteq Nat
    BY <1>0
  <2>2. PICK m \in T : \A k \in T : m <= k
    <3> HIDE DEF T
    <3> QED
      BY <1>3, <2>1, LeastNumber
  <2>3. m \in 0..Len(s) /\ ~Kept(f[m], s, max, m)
    OBVIOUS
  <2>4. CASE m = 0
    <3>1. Kept(<<>>, s, max, 0)
      BY EmptySeq DEF Kept, NoRepeats
    <3> QED
      BY <1>2, <2>3, <2>4, <3>1
  <2>5. CASE m # 0
    <3>1. m \in 1..Len(s) /\ m - 1 \in 0..Len(s) /\ ~(m <= m - 1)
      BY <1>0, <2>3, <2>5
    <3>2. m - 1 \notin T
      BY <2>2, <3>1
    <3>3. Kept(f[m - 1], s, max, m - 1)
      BY <3>1, <3>2
    <3> HIDE DEF T
    <3>4. Kept(Round(f[m - 1], s[m], max), s, max, m)
      BY <3>1, <3>3, RoundKeeps
    <3> QED
      BY <1>2, <2>3, <3>1, <3>4
  <2> QED
    BY <2>4, <2>5
<1>4. Len(s) \in 0..Len(s)
  BY <1>0
<1> QED
  BY <1>1, <1>3, <1>4

-----------------------------------------------------------------------------
Answers == {"none", "ok", "failed"}
Returns == {"idle", "reported", "found", "topUp"}

\* The part of TypeOK the flight depends on, and the flight's invariant.
FlightInv ==
    /\ pc \in [Threads -> Labels]
    /\ ret \in [Threads -> Returns]
    /\ answer \in [Threads -> Answers]
    /\ flight \in Threads \cup {None}
    /\ OneFlight

\* Labels of a goroutine that neither leads a flight, follows one nor
\* notifies.
Calm == Labels \ {"hunt", "found", "notFound", "joined", "notify", "save"}

LEMMA NoneIsNoThread == None \notin Threads
  BY ThreadsAssumption DEF Threads

LEMMA InitFlightInv == Init => FlightInv
  BY NoneIsNoThread DEF Init, FlightInv, OneFlight, Leads, Labels, Answers,
     Returns

\* A goroutine that goes from a calm label to another leaves the flight alone.
LEMMA CalmMove ==
    ASSUME FlightInv, NEW t \in Threads, pc[t] \in Calm, NEW l \in Calm,
           Goto(t, l), UNCHANGED <<flight, ret>>,
           NEW a \in Answers,
           answer' = answer \/ answer' = [answer EXCEPT ![t] = a]
    PROVE  FlightInv'
  BY NoneIsNoThread DEF FlightInv, OneFlight, Leads, Calm, Labels, Goto

\* So does one that goes on to notify a change of its own.
LEMMA NotifyMove ==
    ASSUME FlightInv, NEW t \in Threads, pc[t] \in Calm, NEW c,
           NEW l \in Calm \cap Returns, NotifyIf(c, t, l),
           UNCHANGED <<flight, answer>>
    PROVE  FlightInv'
<1>1. CASE c
  BY <1>1, NoneIsNoThread DEF FlightInv, OneFlight, Leads, Calm, Labels,
     Returns, Goto, NotifyIf
<1>2. CASE ~c
  BY <1>2, NoneIsNoThread DEF FlightInv, OneFlight, Leads, Calm, Labels,
     Returns, Goto, NotifyIf
<1> QED
  BY <1>1, <1>2

-----------------------------------------------------------------------------
LEMMA DialerStep ==
    ASSUME FlightInv, NEW d \in Dialers,
           DialBegin(d) \/ DialLock(d) \/ DialSteps(d) \/ ContextEnds(d)
    PROVE  FlightInv'
<1> USE DEF Calm, Labels, Answers
<1> d \in Threads
  BY DEF Threads
<1>1. CASE DialBegin(d)
  BY <1>1, CalmMove DEF DialBegin, refreshVars
<1>2. CASE DialLock(d)
  BY <1>2, CalmMove DEF DialLock, refreshVars
<1>3. CASE DialPick(d)
  BY <1>3, CalmMove DEF DialPick, refreshVars
<1>4. CASE DialFails(d)
  BY <1>4, CalmMove DEF DialFails, refreshVars
<1>5. CASE DialGivesUp(d)
  BY <1>5, CalmMove DEF DialGivesUp, refreshVars
<1>6. CASE DialSucceeds(d)
  BY <1>6, CalmMove DEF DialSucceeds, refreshVars
<1>7. CASE Track(d)
  BY <1>7, CalmMove DEF Track, Return, refreshVars
<1>8. CASE ReportDialRemovals(d)
  BY <1>8, CalmMove DEF ReportDialRemovals, refreshVars
<1>9. ASSUME NEW e \in Endpoints, ReportDead(d, e) PROVE FlightInv'
  <2>1. CASE dead[d] = {e}
    BY <1>9, <2>1, NotifyMove DEF ReportDead, refreshVars, Returns
  <2>2. CASE dead[d] # {e}
    BY <1>9, <2>2 DEF ReportDead, refreshVars, FlightInv, OneFlight, Leads
  <2> QED
    BY <2>1, <2>2
<1>10. CASE DialAfterReport(d)
  BY <1>10, CalmMove DEF DialAfterReport, Return, refreshVars
<1>11. CASE DialRefreshed(d)
  BY <1>11, CalmMove DEF DialRefreshed, Return, refreshVars
<1>12. CASE ContextEnds(d)
  BY <1>12 DEF ContextEnds, refreshVars, FlightInv, OneFlight, Leads
<1> QED
  BY <1>1, <1>2, <1>3, <1>4, <1>5, <1>6, <1>7, <1>8, <1>9, <1>10, <1>11,
     <1>12 DEF DialSteps

LEMMA BeatStep ==
    ASSUME FlightInv, NEW h \in Hearts, BeatBegin(h) \/ BeatSteps(h)
    PROVE  FlightInv'
<1> USE DEF Calm, Labels, Answers
<1> h \in Threads
  BY DEF Threads
<1>1. CASE BeatBegin(h)
  BY <1>1, CalmMove DEF BeatBegin, refreshVars
<1>2. ASSUME NEW bad, BeatProbed(h, bad) PROVE FlightInv'
  BY <1>2, CalmMove DEF BeatProbed, refreshVars
<1>3. ASSUME NEW e \in Endpoints, Judge(h, e) PROVE FlightInv'
  <2>1. PICK l \in {"evict", "judge"} : Goto(h, l)
    BY <1>3 DEF Judge
  <2> QED
    BY <1>3, <2>1, CalmMove DEF Judge, refreshVars
<1>4. CASE Evict(h)
  BY <1>4, CalmMove DEF Evict, refreshVars
<1>5. CASE OnDead(h)
  BY <1>5, CalmMove DEF OnDead, refreshVars
<1>6. CASE BeatJudged(h)
  BY <1>6, NotifyMove DEF BeatJudged, refreshVars, Returns
<1>7. CASE TopUp(h)
  <2>1. PICK l \in {"refresh", "idle"} : Goto(h, l)
    BY <1>7 DEF TopUp
  <2> QED
    BY <1>7, <2>1, CalmMove DEF TopUp, refreshVars
<1>8. CASE BeatRefreshed(h)
  BY <1>8, CalmMove DEF BeatRefreshed
<1> QED
  BY <1>1, <1>2, <1>3, <1>4, <1>5, <1>6, <1>7, <1>8 DEF BeatSteps

LEMMA RecoverStep ==
    ASSUME FlightInv, NEW r \in Recoverers, RecoverBegin(r) \/ RecoverSteps(r)
    PROVE  FlightInv'
<1> USE DEF Calm, Labels, Answers
<1> r \in Threads
  BY DEF Threads
<1>1. CASE RecoverBegin(r)
  BY <1>1, CalmMove DEF RecoverBegin, refreshVars
<1>2. CASE RecoverRefreshed(r)
  BY <1>2, CalmMove DEF RecoverRefreshed
<1>3. CASE PromoteReserve(r)
  BY <1>3, NotifyMove DEF PromoteReserve, refreshVars, Returns
<1> QED
  BY <1>1, <1>2, <1>3 DEF RecoverSteps

-----------------------------------------------------------------------------
(* The steps of the flight itself.                                         *)

LEMMA FlightStep ==
    ASSUME FlightInv, NEW t \in Threads, RefreshSteps(t) \/ FollowerTimesOut(t)
    PROVE  FlightInv'
<1> USE NoneIsNoThread
<1>1. CASE RefreshJoins(t)
  BY <1>1 DEF RefreshJoins, refreshVars, FlightInv, OneFlight, Leads, Labels,
     Goto
<1>2. CASE RefreshSkips(t)
  <2>1. PICK a \in Answers : answer' = [answer EXCEPT ![t] = a]
    BY <1>2 DEF RefreshSkips, Answers
  <2> QED
    BY <1>2, <2>1, CalmMove DEF RefreshSkips, Calm, Labels
<1>3. CASE RefreshLeads(t)
  BY <1>3 DEF RefreshLeads, FlightInv, OneFlight, Leads, Labels, Goto
<1>4. ASSUME NEW found \in Findings, HuntFinds(t, found) PROVE FlightInv'
  BY <1>4 DEF HuntFinds, NotifyIf, refreshVars, FlightInv, OneFlight, Leads,
     Labels, Returns, Goto
<1>5. CASE HuntFails(t)
  BY <1>5 DEF HuntFails, refreshVars, FlightInv, OneFlight, Leads, Labels, Goto
<1>6. CASE RefreshLands(t)
  <2>1. PICK a \in {"ok", "failed"} :
            answer' = [u \in Threads |->
                IF u = t \/ (pc[u] = "joined" /\ answer[u] = "none")
                THEN a ELSE answer[u]]
    BY <1>6 DEF RefreshLands
  <2> QED
    BY <1>6, <2>1 DEF RefreshLands, FlightInv, OneFlight, Leads, Labels,
       Answers, Goto
<1>7. CASE FollowerReturns(t)
  BY <1>7 DEF FollowerReturns, refreshVars, FlightInv, OneFlight, Leads, Labels,
     Goto
<1>8. CASE FollowerTimesOut(t)
  BY <1>8 DEF FollowerTimesOut, FlightInv, OneFlight, Leads, Labels, Answers,
     Goto
<1>9. CASE NotifyChange(t)
  BY <1>9 DEF NotifyChange, refreshVars, FlightInv, OneFlight, Leads, Labels,
     Goto
<1>10. CASE SaveState(t)
  BY <1>10 DEF SaveState, refreshVars, FlightInv, OneFlight, Leads, Labels,
     Returns, Goto
<1> QED
  BY <1>1, <1>2, <1>3, <1>4, <1>5, <1>6, <1>7, <1>8, <1>9, <1>10 DEF
     RefreshSteps

LEMMA StepFlightInv == FlightInv /\ [Next]_vars => FlightInv'
<1> SUFFICES ASSUME FlightInv, [Next]_vars PROVE FlightInv'
  OBVIOUS
<1>1. CASE CooldownEnds
  BY <1>1 DEF CooldownEnds, FlightInv, OneFlight, Leads
<1>2. ASSUME NEW e \in Endpoints, TunnelsClose(e) PROVE FlightInv'
  BY <1>2 DEF TunnelsClose, refreshVars, FlightInv, OneFlight, Leads
<1>3. CASE UNCHANGED vars
  BY <1>3 DEF vars, refreshVars, FlightInv, OneFlight, Leads
<1> QED
  BY <1>1, <1>2, <1>3, DialerStep, BeatStep, RecoverStep, FlightStep DEF Next

\* At most one hunt is in the air, and every follower without an answer waits
\* for a hunt that still is: no Refresh is left behind by the one it joined.
THEOREM OneFlightAtATime == Spec => []OneFlight
<1>1. FlightInv => OneFlight
  BY DEF FlightInv
<1> QED
  BY <1>1, InitFlightInv, StepFlightInv, PTL DEF Spec

-----------------------------------------------------------------------------
(* What the changes of the pool keep.                                      *)

\* Merge loses no entry, and a merge that brings nothing new changes nothing.
LEMMA MergeMeaning ==
    ASSUME entries \in Pools, NEW found \in Findings
    PROVE  LET merged == UniqueEntries(entries \o found, PoolSize)
           IN  /\ merged \in Pools /\ merged # <<>>
               /\ Len(entries) <= Len(merged)
               /\ \A k \in 1..Len(entries) : merged[k] = entries[k]
               /\ Pooled \subseteq {merged[i] : i \in DOMAIN merged}
               /\ {merged[i] : i \in DOMAIN merged} \subseteq Pooled =>
                    Len(merged) = Len(entries)
<1> DEFINE s == entries \o found
           r == UniqueEntries(s, PoolSize)
<1>1. /\ entries \in Seq(Endpoints) /\ Len(entries) <= PoolSize
      /\ NoRepeats(entries) /\ found \in Seq(Endpoints)
  BY PoolMeaning DEF Pools
<1>2. /\ s \in Seq(Endpoints) /\ Len(s) = Len(entries) + Len(found)
      /\ \A i \in 1..Len(entries) : s[i] = entries[i]
  BY <1>1, ConcatProperties, LenProperties
<1>3. Len(entries) \in 0..Len(s) /\ DOMAIN entries = 1..Len(entries)
  BY <1>1, <1>2, LenProperties
<1> HIDE DEF s
<1>4. Kept(r, s, PoolSize, Len(s))
  BY <1>2, SizesAssumption, UniqueEntriesMeaning
<1> HIDE DEF r
<1>5. Len(entries) <= Len(r) /\ \A k \in 1..Len(entries) : r[k] = entries[k]
  <2>1. \A x, y \in 1..Len(entries) : s[x] = s[y] => x = y
    BY <1>1, <1>2, <1>3 DEF NoRepeats
  <2>2. Len(entries) <= Len(r) /\ \A k \in 1..Len(entries) : r[k] = s[k]
    BY <1>1, <1>3, <1>4, <2>1 DEF Kept
  <2> QED
    BY <1>2, <2>2
<1>6. r \in Pools
  BY <1>4, PoolMeaning DEF Kept
<1>7. r \in Seq(Endpoints) /\ NoRepeats(r)
  BY <1>4 DEF Kept
<1>8. Len(r) \in Nat /\ DOMAIN r = 1..Len(r) /\ Len(entries) \in Nat
  BY <1>1, <1>7, LenProperties
<1>9. Pooled \subseteq {r[i] : i \in DOMAIN r}
  BY <1>3, <1>5, <1>8 DEF Pooled
<1>10. ASSUME {r[i] : i \in DOMAIN r} \subseteq Pooled, Len(r) # Len(entries)
       PROVE  FALSE
  <2>1. Len(entries) + 1 \in DOMAIN r
    BY <1>5, <1>8, <1>10
  <2>2. PICK k \in 1..Len(entries) : entries[k] = r[Len(entries) + 1]
    BY <1>3, <1>10, <2>1 DEF Pooled
  <2>3. k \in DOMAIN r /\ r[k] = r[Len(entries) + 1] /\ k # Len(entries) + 1
    BY <1>5, <1>8, <2>2
  <2> QED
    BY <1>7, <2>1, <2>3 DEF NoRepeats
<1>11. r # <<>>
  <2>0. PICK n \in 1..PoolSize : found \in [1..n -> Endpoints]
    BY DEF Findings
  <2>1. Len(found) = n /\ n >= 1 /\ n \in Nat
    BY <1>1, <2>0, LenProperties, SizesAssumption
  <2>2. 1 \in 1..Len(s)
    BY <1>1, <1>2, <1>3, <2>1, LenProperties
  <2>3. Len(r) # 0
    <3>1. Len(r) = PoolSize \/ \E k \in DOMAIN r : r[k] = s[1]
      BY <1>4, <2>2 DEF Kept
    <3>2. ASSUME NEW k \in DOMAIN r PROVE Len(r) # 0
      <4>1. k \in 1..Len(r)
        BY <1>8
      <4> QED
        BY <1>8, <4>1
    <3>3. Len(r) = PoolSize => Len(r) # 0
      BY SizesAssumption
    <3> QED
      BY <3>1, <3>2, <3>3
  <2> QED
    BY <2>3, EmptySeq
<1> QED
  BY <1>5, <1>6, <1>9, <1>10, <1>11 DEF r, s

\* PromoteReserve moves an entry and neither adds nor loses one.
LEMMA RotationMeaning ==
    ASSUME entries \in Pools, Len(entries) >= 2
    PROVE  LET r == Append(Tail(entries), Head(entries))
           IN  /\ r \in Pools /\ Len(r) = Len(entries)
               /\ {r[i] : i \in DOMAIN r} = Pooled
<1> DEFINE n == Len(entries)
           t == Tail(entries)
           r == Append(t, Head(entries))
<1>1. /\ entries \in Seq(Endpoints) /\ n <= PoolSize /\ NoRepeats(entries)
      /\ n \in Nat /\ DOMAIN entries = 1..n /\ entries # <<>>
  BY PoolMeaning, LenProperties, EmptySeq
<1>2. /\ Head(entries) \in Endpoints /\ Head(entries) = entries[1]
      /\ t \in Seq(Endpoints) /\ Len(t) = n - 1
      /\ \A i \in 1..Len(t) : t[i] = entries[i + 1]
  BY <1>1, HeadTailProperties
<1> HIDE DEF t
<1>3. /\ r \in Seq(Endpoints) /\ Len(r) = Len(t) + 1
      /\ \A i \in 1..Len(t) : r[i] = t[i]
      /\ r[Len(t) + 1] = entries[1]
  BY <1>2, AppendProperties
<1> HIDE DEF r
<1>4. /\ DOMAIN r = 1..n /\ Len(r) = n /\ r[n] = entries[1]
      /\ \A i \in 1..(n - 1) : r[i] = entries[i + 1]
  BY <1>1, <1>2, <1>3, LenProperties
<1> HIDE DEF n
<1>5. NoRepeats(r)
  <2> SUFFICES ASSUME NEW i \in 1..n, NEW j \in 1..n, r[i] = r[j] PROVE i = j
    BY <1>4 DEF NoRepeats
  <2>1. CASE i = n /\ j # n
    <3>1. j \in 1..(n - 1) /\ j + 1 \in 1..n /\ 1 \in 1..n /\ j + 1 # 1
      BY <1>1, <2>1
    <3> QED
      BY <1>1, <1>4, <2>1, <3>1 DEF NoRepeats
  <2>2. CASE i # n /\ j = n
    <3>1. i \in 1..(n - 1) /\ i + 1 \in 1..n /\ 1 \in 1..n /\ i + 1 # 1
      BY <1>1, <2>2
    <3> QED
      BY <1>1, <1>4, <2>2, <3>1 DEF NoRepeats
  <2>3. CASE i # n /\ j # n
    <3>1. i \in 1..(n - 1) /\ j \in 1..(n - 1) /\ i + 1 \in 1..n /\ j + 1 \in 1..n
      BY <1>1, <2>3
    <3>2. i + 1 = j + 1
      BY <1>1, <1>4, <3>1 DEF NoRepeats
    <3> QED
      BY <1>1, <3>2
  <2> QED
    BY <2>1, <2>2, <2>3
<1>6. \A i \in 1..n : r[i] \in Pooled
  <2> TAKE i \in 1..n
  <2>1. CASE i = n
    BY <1>1, <1>4, <2>1 DEF Pooled
  <2>2. CASE i # n
    <3>1. i \in 1..(n - 1) /\ i + 1 \in 1..n
      BY <1>1, <2>2
    <3> QED
      BY <1>1, <1>4, <3>1 DEF Pooled
  <2> QED
    BY <2>1, <2>2
<1>7. \A i \in 1..n : \E k \in 1..n : r[k] = entries[i]
  <2> TAKE i \in 1..n
  <2>1. CASE i = 1
    <3>1. n \in 1..n
      BY <1>1
    <3> QED
      BY <1>4, <2>1, <3>1
  <2>2. CASE i # 1
    <3>1. i - 1 \in 1..(n - 1) /\ i - 1 \in 1..n /\ (i - 1) + 1 = i
      BY <1>1, <2>2
    <3> QED
      BY <1>4, <3>1
  <2> QED
    BY <2>1, <2>2
<1>8. {r[i] : i \in DOMAIN r} = Pooled
  <2>1. \A i \in DOMAIN r : r[i] \in Pooled
    BY <1>4, <1>6
  <2>2. ASSUME NEW x \in Pooled PROVE \E k \in DOMAIN r : x = r[k]
    <3>1. PICK i \in 1..n : x = entries[i]
      BY <1>1 DEF Pooled
    <3> QED
      BY <1>4, <1>7, <3>1
  <2> QED
    BY <2>1, <2>2
<1>9. r \in Pools
  BY <1>1, <1>3, <1>4, <1>5, PoolMeaning
<1> QED
  BY <1>4, <1>8, <1>9 DEF r, n, t

-----------------------------------------------------------------------------
(* The dials.                                                              *)

Holds(d) == pc[d] \in {"attempt", "dialing"}

\* Entries a dial has still to try, and one more when the one it is trying has
\* left the pool under it.
ToTry(d) == Len(entries)
              + (IF pc[d] = "dialing" /\ picked[d] \notin Pooled THEN 1 ELSE 0)

\* Who holds dialMu, and that the attempts it has left cover the pool as long
\* as no hunt has added to it.
DialInv ==
    \A d \in Dialers :
      /\ Holds(d) <=> dialing = d
      /\ ~Holds(d) => limit[d] = 0 /\ attempts[d] = 0 /\ fresh[d] = {}
      /\ pc[d] \in {"dialing", "dialed"} => picked[d] \in Endpoints
      /\ attempts[d] <= limit[d]
      /\ pc[d] = "dialing" => attempts[d] < limit[d]
      /\ Holds(d) /\ fresh[d] = {} => ToTry(d) <= limit[d] - attempts[d]

\* An endpoint's misses stay below the threshold but while it is evicted.
BeatInv ==
    \A e \in Endpoints :
        misses[e] <= 1 \/ \E h \in Hearts : pc[h] = "evict" /\ victim = e

\* The types FlightInv does not state.
DataTypes ==
    /\ entries \in Pools
    /\ saved \subseteq Threads \cup {"disk"}
    /\ tunnels \subseteq Endpoints
    /\ dialing \in Dialers \cup {None}
    /\ before \in [Dialers -> SUBSET Endpoints]
    /\ limit \in [Dialers -> 0..PoolSize]
    /\ attempts \in [Dialers -> 0..PoolSize]
    /\ picked \in [Dialers -> Endpoints \cup {None}]
    /\ expired \in [Dialers -> BOOLEAN] /\ second \in [Dialers -> BOOLEAN]
    /\ dead \in [Dialers -> SUBSET Endpoints]
    /\ fresh \in [Dialers -> SUBSET Endpoints]
    /\ cooling \in BOOLEAN
    /\ pending \subseteq Endpoints /\ failed \subseteq Endpoints
    /\ victim \in Endpoints \cup {None}
    /\ misses \in [Endpoints -> 0..2]
    /\ changed \in BOOLEAN

PoolInv == FlightInv /\ DataTypes /\ DialInv /\ BeatInv

LEMMA InitPoolInv == Init => PoolInv
<1> SUFFICES ASSUME Init PROVE PoolInv
  OBVIOUS
<1>1. FlightInv
  BY InitFlightInv
<1>2. DataTypes
  <2>1. 0 \in 0..PoolSize /\ 0 \in 0..2
    BY SizesAssumption
  <2> QED
    BY <2>1 DEF Init, DataTypes, Pools
<1>3. DialInv
  BY ThreadsAssumption DEF Init, DialInv, Holds, Threads
<1>4. BeatInv
  BY DEF Init, BeatInv
<1> QED
  BY <1>1, <1>2, <1>3, <1>4 DEF PoolInv

\* A step outside the dials leaves DialInv alone when it takes nothing from a
\* dial: it may add to fresh of the holder of dialMu, and where it does not
\* the entries to try do not grow.
LEMMA DialFrame ==
    ASSUME DataTypes, DialInv, DataTypes',
           \A d \in Dialers :
             \/ pc'[d] = pc[d]
             \/ {pc[d], pc'[d]} \cap {"attempt", "dialing", "dialed"} = {},
           UNCHANGED <<dialing, limit, attempts, picked>>,
           \A d \in Dialers :
             \/ fresh'[d] = fresh[d] /\ (Holds(d) => ToTry(d)' <= ToTry(d))
             \/ dialing = d /\ fresh'[d] # {}
             \/ fresh'[d] = fresh[d] /\ fresh[d] # {}
    PROVE  DialInv'
<1> SUFFICES ASSUME NEW d \in Dialers
             PROVE  /\ (Holds(d) <=> dialing = d)'
                    /\ (~Holds(d) => limit[d] = 0 /\ attempts[d] = 0 /\ fresh[d] = {})'
                    /\ (pc[d] \in {"dialing", "dialed"} => picked[d] \in Endpoints)'
                    /\ (attempts[d] <= limit[d])'
                    /\ (pc[d] = "dialing" => attempts[d] < limit[d])'
                    /\ (Holds(d) /\ fresh[d] = {} => ToTry(d) <= limit[d] - attempts[d])'
  BY DEF DialInv
<1>1. (Holds(d)' <=> Holds(d)) /\ (pc'[d] \in {"dialing", "dialed"} => pc'[d] = pc[d])
  BY DEF Holds
<1>2. (~Holds(d) => limit[d] = 0 /\ attempts[d] = 0 /\ fresh[d] = {})'
  BY <1>1 DEF DialInv
<1>3. ASSUME Holds(d)', fresh'[d] = {} PROVE ToTry(d)' <= limit[d] - attempts[d]
  <2>1. Holds(d) /\ fresh[d] = {} /\ ToTry(d)' <= ToTry(d)
    BY <1>1, <1>3
  <2>2. ToTry(d) <= limit[d] - attempts[d]
    BY <2>1 DEF DialInv
  <2>3. /\ limit[d] \in Nat /\ attempts[d] \in Nat
        /\ Len(entries) \in Nat /\ Len(entries') \in Nat
    BY PoolMeaning, LenProperties DEF DataTypes
  <2> QED
    BY <2>1, <2>2, <2>3 DEF ToTry
<1> QED
  BY <1>1, <1>2, <1>3 DEF DialInv

\* Removing an endpoint does not give a dial more to try.
LEMMA RemovalToTry ==
    ASSUME DataTypes, NEW e, entries' = RemoveFirst(entries, e), NEW d \in Dialers,
           pc'[d] = pc[d], picked'[d] = picked[d]
    PROVE  ToTry(d)' <= ToTry(d)
<1>1. /\ Pooled' = Pooled \ {e}
      /\ Len(entries') = IF e \in Pooled THEN Len(entries) - 1 ELSE Len(entries)
  <2>1. entries \in Pools
    BY DEF DataTypes
  <2>2. Pooled' = {RemoveFirst(entries, e)[i] : i \in DOMAIN RemoveFirst(entries, e)}
    BY DEF Pooled
  <2> QED
    BY <2>1, <2>2, RemovalMeaning
<1>2. Len(entries) \in Nat
  BY PoolMeaning, LenProperties DEF DataTypes
<1>3. picked'[d] \notin Pooled' <=> picked[d] \notin Pooled \/ picked[d] = e
  BY <1>1
<1>4. CASE e \in Pooled
  BY <1>1, <1>2, <1>3, <1>4 DEF ToTry
<1>5. CASE e \notin Pooled
  BY <1>1, <1>2, <1>3, <1>5 DEF ToTry
<1> QED
  BY <1>4, <1>5

\* Nor does moving the first entry to the end.
LEMMA RotationToTry ==
    ASSUME DataTypes, Len(entries) >= 2,
           entries' = Append(Tail(entries), Head(entries)), NEW d \in Dialers,
           pc'[d] = pc[d], picked'[d] = picked[d]
    PROVE  ToTry(d)' <= ToTry(d)
<1>1. Pooled' = Pooled /\ Len(entries') = Len(entries)
  BY RotationMeaning DEF DataTypes, Pooled
<1>2. Len(entries) \in Nat
  BY PoolMeaning, LenProperties DEF DataTypes
<1> QED
  BY <1>1, <1>2 DEF ToTry

\* Facts about the pool the steps below need.
LEMMA PoolFacts ==
    ASSUME DataTypes
    PROVE  /\ Pooled \subseteq Endpoints
           /\ Len(entries) \in 0..PoolSize
           /\ entries # <<>> => Head(entries) \in Pooled
           /\ Len(entries) = 0 => Pooled = {}
<1>1. entries \in Seq(Endpoints) /\ Len(entries) <= PoolSize
  BY PoolMeaning DEF DataTypes
<1>2. Len(entries) \in Nat /\ DOMAIN entries = 1..Len(entries)
  BY <1>1, LenProperties
<1>3. Pooled \subseteq Endpoints
  BY <1>1, <1>2, ElementOfSeq DEF Pooled
<1>4. ASSUME entries # <<>> PROVE Head(entries) \in Pooled
  <2>1. Len(entries) # 0 /\ Head(entries) = entries[1]
    BY <1>1, <1>4, EmptySeq, HeadTailProperties
  <2> QED
    BY <1>2, <2>1 DEF Pooled
<1> QED
  BY <1>1, <1>2, <1>3, <1>4, SizesAssumption DEF Pooled

\* A step that changes neither the pool nor what a dial counts.
CalmFor(t) ==
    /\ {pc[t], pc'[t]} \cap {"attempt", "dialing", "dialed"} = {}
    /\ \A u \in Threads : u # t => pc'[u] = pc[u]

LEMMA CalmDials ==
    ASSUME DataTypes, DialInv, DataTypes', NEW t \in Threads, CalmFor(t),
           UNCHANGED <<entries, dialing, limit, attempts, picked, fresh>>
    PROVE  DialInv'
<1>1. \A d \in Dialers :
         \/ pc'[d] = pc[d]
         \/ {pc[d], pc'[d]} \cap {"attempt", "dialing", "dialed"} = {}
  BY DEF CalmFor, Threads
<1>2. ASSUME NEW d \in Dialers, Holds(d) PROVE ToTry(d)' <= ToTry(d)
  <2>1. pc'[d] = pc[d]
    BY <1>1, <1>2 DEF Holds
  <2>2. Len(entries) \in Nat
    BY PoolFacts, SizesAssumption
  <2> QED
    BY <2>1, <2>2 DEF ToTry, Pooled
<1> QED
  BY <1>1, <1>2, DialFrame

\* So it leaves the misses alone when it is not the heartbeat's.
LEMMA CalmBeat ==
    ASSUME BeatInv, UNCHANGED <<victim, misses>>,
           \A h \in Hearts : pc[h] = "evict" => pc'[h] = "evict"
    PROVE  BeatInv'
  BY DEF BeatInv

-----------------------------------------------------------------------------
LEMMA DialerTypes ==
    ASSUME PoolInv, NEW d \in Dialers,
           DialBegin(d) \/ DialLock(d) \/ DialSteps(d) \/ ContextEnds(d)
    PROVE  DataTypes'
<1> USE PoolFacts, SizesAssumption DEF PoolInv, DataTypes, refreshVars, beatVars
<1>1. CASE DialBegin(d)
  BY <1>1 DEF DialBegin
<1>2. CASE DialLock(d)
  BY <1>2 DEF DialLock
<1>3. CASE DialPick(d)
  BY <1>3 DEF DialPick
<1>4. CASE DialFails(d)
  <2>1. entries' \in Pools
    BY <1>4, RemovalMeaning DEF DialFails, Invalidate, PoolBecomes
  <2>2. attempts[d] \in Nat /\ limit[d] \in 0..PoolSize /\ attempts[d] < limit[d]
    BY <1>4 DEF DialFails, DialInv
  <2>3. attempts[d] + 1 \in 0..PoolSize
    BY <2>2
  <2> QED
    BY <1>4, <2>1, <2>3 DEF DialFails, Invalidate, PoolBecomes
<1>5. CASE DialGivesUp(d)
  BY <1>5 DEF DialGivesUp, Unlock
<1>6. CASE DialSucceeds(d)
  BY <1>6 DEF DialSucceeds, Unlock
<1>7. CASE Track(d)
  BY <1>7 DEF Track, Return, DialInv
<1>8. CASE ReportDialRemovals(d)
  BY <1>8 DEF ReportDialRemovals
<1>9. ASSUME NEW e \in Endpoints, ReportDead(d, e) PROVE DataTypes'
  BY <1>9 DEF ReportDead
<1>10. CASE DialAfterReport(d)
  BY <1>10 DEF DialAfterReport, Return
<1>11. CASE DialRefreshed(d)
  <2>1. CASE answer[d] = "ok"
    <3>1. /\ before' = [before EXCEPT ![d] = Pooled]
          /\ second' = [second EXCEPT ![d] = TRUE]
          /\ UNCHANGED <<entries, saved, tunnels, expired, dialing, limit,
                         attempts, picked, dead, fresh, cooling, beatVars>>
      BY <1>11, <2>1 DEF DialRefreshed
    <3> QED
      BY <3>1
  <2>2. CASE answer[d] # "ok"
    BY <1>11, <2>2 DEF DialRefreshed, Return
  <2> QED
    BY <2>1, <2>2
<1>12. CASE ContextEnds(d)
  BY <1>12 DEF ContextEnds, dialVars
<1> QED
  BY <1>1, <1>2, <1>3, <1>4, <1>5, <1>6, <1>7, <1>8, <1>9, <1>10, <1>11,
     <1>12 DEF DialSteps

\* The steps between DialLock and Track; the others are calm.
LEMMA DialerDials ==
    ASSUME PoolInv, DataTypes', NEW d \in Dialers,
           DialBegin(d) \/ DialLock(d) \/ DialSteps(d) \/ ContextEnds(d)
    PROVE  DialInv'
<1> USE DEF PoolInv, refreshVars, beatVars
<1>0. d \in Threads /\ pc \in [Threads -> Labels] /\ Dialers \subseteq Threads
  BY DEF Threads, FlightInv
<1>nat. \A x \in Dialers : /\ limit[x] \in Nat /\ attempts[x] \in Nat
                         /\ limit[x] \in Nat /\ x # None
  BY ThreadsAssumption DEF DataTypes
<1>1. CASE DialBegin(d)
  BY <1>0, <1>1, CalmDials DEF DialBegin, CalmFor, Goto
<1>2. CASE DialLock(d)
  <2>1. \A x \in Dialers : x # d => ~Holds(x) /\ ~Holds(x)' /\ pc'[x] = pc[x]
    BY <1>0, <1>2, <1>nat DEF DialLock, DialInv, Holds, Goto
  <2>2. pc'[d] = "attempt" /\ ~Holds(d) /\ ToTry(d)' = Len(entries)
    BY <1>0, <1>2, PoolFacts DEF DialLock, Holds, Goto, ToTry
  <2>3. Len(entries) \in Nat
    BY PoolFacts, SizesAssumption
  <2>4. limit'[d] = Len(entries) /\ attempts'[d] = 0 /\ attempts[d] = 0
    BY <1>2, <2>2 DEF DialLock, DialInv, DataTypes
  <2>5. \A x \in Dialers : x # d => limit'[x] = limit[x]
    BY <1>2 DEF DialLock, DataTypes
  <2>6. UNCHANGED <<attempts, fresh, picked>> /\ dialing' = d
    BY <1>2 DEF DialLock
  <2> QED
    BY <1>nat, <2>1, <2>2, <2>3, <2>4, <2>5, <2>6 DEF DialInv, Holds
<1>3. CASE DialPick(d)
  <2>1. \A x \in Dialers : x # d => ~Holds(x) /\ ~Holds(x)' /\ pc'[x] = pc[x]
    BY <1>0, <1>3, <1>nat DEF DialPick, DialInv, Holds, Goto
  <2>2. /\ pc'[d] = "dialing" /\ pc[d] = "attempt"
        /\ picked'[d] = Head(entries) /\ Head(entries) \in Pooled
        /\ Head(entries) \in Endpoints
    BY <1>0, <1>3, PoolFacts DEF DialPick, Goto, DataTypes
  <2>3. Len(entries) \in Nat
    BY PoolFacts, SizesAssumption
  <2>4. ToTry(d)' = Len(entries) /\ ToTry(d) = Len(entries)
    BY <1>3, <2>2, <2>3 DEF DialPick, ToTry, Pooled
  <2> QED
    BY <1>3, <1>nat, <2>1, <2>2, <2>4 DEF DialPick, DialInv, Holds, DataTypes
<1>4. CASE DialFails(d)
  <2>1. \A x \in Dialers : x # d => ~Holds(x) /\ ~Holds(x)' /\ pc'[x] = pc[x]
    BY <1>0, <1>4, <1>nat DEF DialFails, DialInv, Holds, Goto
  <2>2. /\ pc'[d] = "attempt" /\ pc[d] = "dialing"
        /\ entries' = RemoveFirst(entries, picked[d])
        /\ attempts'[d] = attempts[d] + 1
    BY <1>0, <1>4 DEF DialFails, Goto, DataTypes, Invalidate, PoolBecomes
  <2>3. Len(entries) \in Nat
    BY PoolFacts, SizesAssumption
  <2>4. ToTry(d)' + 1 = ToTry(d)
    <3>1. Len(entries') = IF picked[d] \in Pooled THEN Len(entries) - 1
                          ELSE Len(entries)
      BY <2>2, RemovalMeaning DEF DataTypes
    <3>2. ToTry(d)' = Len(entries')
      BY <2>2, <2>3, <3>1 DEF ToTry
    <3> QED
      BY <2>2, <2>3, <3>1, <3>2 DEF ToTry
  <2>5. \A x \in Dialers : x # d => attempts'[x] = attempts[x] /\ picked'[x] = picked[x]
    BY <1>4 DEF DialFails, DataTypes
  <2>6. UNCHANGED <<dialing, limit, fresh>>
    BY <1>4 DEF DialFails
  <2>7. ToTry(d)' \in Nat
    BY <2>2, <2>3, PoolFacts, SizesAssumption, RemovalMeaning DEF ToTry,
       DataTypes
  <2> QED
    BY <1>nat, <2>1, <2>2, <2>4, <2>5, <2>6, <2>7 DEF DialInv, Holds
<1>5. CASE DialGivesUp(d)
  <2>1. \A x \in Dialers : x # d => ~Holds(x) /\ ~Holds(x)' /\ pc'[x] = pc[x]
    BY <1>0, <1>5, <1>nat DEF DialGivesUp, DialInv, Holds, Goto
  <2>2. pc'[d] = "gaveUp"
    BY <1>0, <1>5 DEF DialGivesUp, Goto
  <2> QED
    BY <1>5, <1>nat, <2>1, <2>2 DEF DialGivesUp, Unlock, DialInv, Holds,
       DataTypes
<1>6. CASE DialSucceeds(d)
  <2>1. \A x \in Dialers : x # d => ~Holds(x) /\ ~Holds(x)' /\ pc'[x] = pc[x]
    BY <1>0, <1>6, <1>nat DEF DialSucceeds, DialInv, Holds, Goto
  <2>2. pc'[d] = "dialed" /\ pc[d] = "dialing"
    BY <1>0, <1>6 DEF DialSucceeds, Goto
  <2> QED
    BY <1>6, <1>nat, <2>1, <2>2 DEF DialSucceeds, Unlock, DialInv, Holds,
       DataTypes
<1>7. CASE Track(d)
  <2>1. \A x \in Dialers : x # d => pc'[x] = pc[x] /\ picked'[x] = picked[x]
    BY <1>0, <1>7 DEF Track, Return, Goto, DataTypes
  <2>2. pc'[d] = "idle" /\ pc[d] = "dialed"
    BY <1>0, <1>7 DEF Track, Return, Goto
  <2>3. UNCHANGED <<entries, dialing, limit, attempts, fresh>>
    BY <1>7 DEF Track
  <2>4. \A x \in Dialers : x # d => (Holds(x)' <=> Holds(x)) /\ ToTry(x)' = ToTry(x)
    BY <2>1, <2>3 DEF Holds, ToTry, Pooled
  <2>5. ~Holds(d) /\ ~Holds(d)'
    BY <2>2 DEF Holds
  <2> QED
    BY <2>1, <2>2, <2>3, <2>4, <2>5 DEF DialInv
<1>8. CASE ReportDialRemovals(d)
  BY <1>0, <1>8, CalmDials DEF ReportDialRemovals, CalmFor, Goto
<1>9. ASSUME NEW e \in Endpoints, ReportDead(d, e) PROVE DialInv'
  BY <1>0, <1>9, CalmDials DEF ReportDead, NotifyIf, CalmFor, Goto
<1>10. CASE DialAfterReport(d)
  BY <1>0, <1>10, CalmDials DEF DialAfterReport, Return, CalmFor, Goto
<1>11. CASE DialRefreshed(d)
  BY <1>0, <1>11, CalmDials DEF DialRefreshed, Return, CalmFor, Goto
<1>12. CASE ContextEnds(d)
  BY <1>12 DEF ContextEnds, DialInv, Holds, ToTry, Pooled, dialVars
<1> QED
  BY <1>1, <1>2, <1>3, <1>4, <1>5, <1>6, <1>7, <1>8, <1>9, <1>10, <1>11,
     <1>12 DEF DialSteps

LEMMA DialerBeat ==
    ASSUME PoolInv, NEW d \in Dialers,
           DialBegin(d) \/ DialLock(d) \/ DialSteps(d) \/ ContextEnds(d)
    PROVE  BeatInv'
<1>1. \A h \in Hearts : h \in Threads /\ h # d
  BY ThreadsAssumption DEF Threads
<1>2. pc \in [Threads -> Labels] /\ d \in Threads
  BY DEF PoolInv, FlightInv, Threads
<1>3. UNCHANGED <<victim, misses>>
  BY DEF DialBegin, DialLock, DialSteps, ContextEnds, DialPick, DialFails,
     DialGivesUp, DialSucceeds, Track, ReportDialRemovals, ReportDead,
     DialAfterReport, DialRefreshed, beatVars
<1>4. \A h \in Hearts : pc'[h] = pc[h]
  BY <1>1, <1>2 DEF DialBegin, DialLock, DialSteps, ContextEnds, DialPick,
     DialFails, DialGivesUp, DialSucceeds, Track, ReportDialRemovals,
     ReportDead, DialAfterReport, DialRefreshed, Return, NotifyIf, Goto
<1> QED
  BY <1>3, <1>4, CalmBeat DEF PoolInv

-----------------------------------------------------------------------------
(* The heartbeat, the recoveries and the refresh.                          *)

LEMMA HeartTypes ==
    ASSUME PoolInv, NEW h \in Hearts, BeatBegin(h) \/ BeatSteps(h)
    PROVE  DataTypes'
<1> USE PoolFacts, SizesAssumption DEF PoolInv, DataTypes, refreshVars, dialVars
<1>0. h \in Threads
  BY DEF Threads
<1>1. CASE BeatBegin(h)
  BY <1>1 DEF BeatBegin
<1>2. ASSUME NEW bad \in SUBSET Endpoints, BeatProbed(h, bad) PROVE DataTypes'
  BY <1>2 DEF BeatProbed
<1>3. ASSUME NEW e \in Endpoints, Judge(h, e) PROVE DataTypes'
  <2>0. pc[h] = "judge" /\ \A k \in Hearts : k = h
    BY <1>3, ThreadsAssumption DEF Judge
  <2>1. misses[e] <= 1 /\ misses[e] \in 0..2
    BY <2>0 DEF BeatInv
  <2>2. misses[e] + 1 \in 0..2
    BY <2>1
  <2>3. misses' \in [Endpoints -> 0..2]
    BY <1>3, <2>2 DEF Judge
  <2>4. /\ UNCHANGED <<entries, saved, tunnels, expired, dialVars, cooling, failed, changed>>
        /\ victim' \in {e, None} /\ pending' = pending \ {e}
    BY <1>3 DEF Judge
  <2> QED
    BY <2>3, <2>4
<1>4. CASE Evict(h)
  <2>1. entries' \in Pools
    BY <1>4, RemovalMeaning DEF Evict, Invalidate, PoolBecomes
  <2>2. /\ saved' \in {saved, {}} /\ changed' = TRUE
        /\ misses' = [misses EXCEPT ![victim] = 0]
        /\ UNCHANGED <<tunnels, expired, dialVars, refreshVars, pending,
                       failed, victim>>
    BY <1>4 DEF Evict, Invalidate, PoolBecomes
  <2>3. misses' \in [Endpoints -> 0..2]
    <3>1. \A e \in Endpoints : misses'[e] = IF e = victim THEN 0 ELSE misses[e]
      BY <2>2
    <3>2. misses' = [e \in Endpoints |-> misses'[e]]
      BY <2>2
    <3> QED
      BY <3>1, <3>2
  <2> QED
    BY <2>1, <2>2, <2>3
<1>5. CASE OnDead(h)
  BY <1>5 DEF OnDead
<1>6. CASE BeatJudged(h)
  BY <1>6 DEF BeatJudged
<1>7. CASE TopUp(h)
  BY <1>7 DEF TopUp, beatVars
<1>8. CASE BeatRefreshed(h)
  BY <1>8 DEF BeatRefreshed, beatVars
<1> QED
  BY <1>1, <1>2, <1>3, <1>4, <1>5, <1>6, <1>7, <1>8 DEF BeatSteps

LEMMA HeartDials ==
    ASSUME PoolInv, DataTypes', NEW h \in Hearts, BeatBegin(h) \/ BeatSteps(h)
    PROVE  DialInv'
<1> USE DEF PoolInv, refreshVars, dialVars
<1>0. h \in Threads /\ pc \in [Threads -> Labels] /\ h \notin Dialers
  BY ThreadsAssumption DEF Threads, FlightInv
<1>1. CASE BeatBegin(h)
  BY <1>0, <1>1, CalmDials DEF BeatBegin, CalmFor, Goto
<1>2. ASSUME NEW bad, BeatProbed(h, bad) PROVE DialInv'
  BY <1>0, <1>2, CalmDials DEF BeatProbed, CalmFor, Goto
<1>3. ASSUME NEW e \in Endpoints, Judge(h, e) PROVE DialInv'
  BY <1>0, <1>3, CalmDials DEF Judge, CalmFor, Goto
<1>4. CASE Evict(h)
  <2>1. /\ entries' = RemoveFirst(entries, victim)
        /\ UNCHANGED <<dialing, limit, attempts, picked, fresh>>
    BY <1>4 DEF Evict, Invalidate, PoolBecomes
  <2>2. \A d \in Dialers : pc'[d] = pc[d]
    BY <1>0, <1>4 DEF Evict, Goto, Threads
  <2>3. \A d \in Dialers : ToTry(d)' <= ToTry(d)
    BY <2>1, <2>2, RemovalToTry
  <2> QED
    BY <2>1, <2>2, <2>3, DialFrame
<1>5. CASE OnDead(h)
  BY <1>0, <1>5, CalmDials DEF OnDead, CalmFor, Goto
<1>6. CASE BeatJudged(h)
  BY <1>0, <1>6, CalmDials DEF BeatJudged, NotifyIf, CalmFor, Goto
<1>7. CASE TopUp(h)
  BY <1>0, <1>7, CalmDials DEF TopUp, CalmFor, Goto
<1>8. CASE BeatRefreshed(h)
  BY <1>0, <1>8, CalmDials DEF BeatRefreshed, CalmFor, Goto
<1> QED
  BY <1>1, <1>2, <1>3, <1>4, <1>5, <1>6, <1>7, <1>8 DEF BeatSteps

\* There is one heartbeat, so while it judges nothing is being evicted.
LEMMA HeartBeat ==
    ASSUME PoolInv, NEW h \in Hearts, BeatBegin(h) \/ BeatSteps(h)
    PROVE  BeatInv'
<1> USE DEF PoolInv
<1>0. /\ h \in Threads /\ pc \in [Threads -> Labels]
      /\ \A k \in Hearts : k = h
  BY ThreadsAssumption DEF Threads, FlightInv
<1>1. CASE BeatBegin(h)
  BY <1>0, <1>1, CalmBeat DEF BeatBegin, Goto
<1>2. ASSUME NEW bad, BeatProbed(h, bad) PROVE BeatInv'
  BY <1>0, <1>2, CalmBeat DEF BeatProbed, Goto
<1>3. ASSUME NEW e \in Endpoints, Judge(h, e) PROVE BeatInv'
  <2>1. \A x \in Endpoints : misses[x] <= 1 /\ misses[x] \in Nat
    BY <1>0, <1>3 DEF Judge, BeatInv, DataTypes
  <2>2. \A x \in Endpoints : x # e => misses'[x] = misses[x]
    BY <1>3 DEF Judge, DataTypes
  <2>3. CASE e \in failed /\ misses[e] + 1 >= (IF e \in tunnels THEN 1 ELSE 2)
    <3>1. pc'[h] = "evict" /\ victim' = e
      BY <1>0, <1>3, <2>3 DEF Judge, Goto
    <3> QED
      BY <2>1, <2>2, <3>1 DEF BeatInv
  <2>4. CASE ~(e \in failed /\ misses[e] + 1 >= (IF e \in tunnels THEN 1 ELSE 2))
    <3>1. misses'[e] = IF e \in failed THEN misses[e] + 1 ELSE 0
      BY <1>3 DEF Judge, DataTypes
    <3>2. misses'[e] <= 1
      BY <2>1, <2>4, <3>1
    <3> QED
      BY <2>1, <2>2, <3>2 DEF BeatInv
  <2> QED
    BY <2>3, <2>4
<1>4. CASE Evict(h)
  <2>1. \A x \in Endpoints : misses'[x] = IF x = victim THEN 0 ELSE misses[x]
    BY <1>4 DEF Evict, DataTypes
  <2>2. \A x \in Endpoints : x # victim => misses[x] <= 1
    BY DEF BeatInv
  <2> QED
    BY <2>1, <2>2 DEF BeatInv
<1>5. CASE OnDead(h)
  <2>1. \A x \in Endpoints : misses[x] <= 1
    BY <1>0, <1>5 DEF OnDead, BeatInv
  <2> QED
    BY <1>5, <2>1 DEF OnDead, BeatInv
<1>6. CASE BeatJudged(h)
  BY <1>0, <1>6, CalmBeat DEF BeatJudged, NotifyIf, Goto
<1>7. CASE TopUp(h)
  BY <1>0, <1>7, CalmBeat DEF TopUp, Goto, beatVars
<1>8. CASE BeatRefreshed(h)
  BY <1>0, <1>8, CalmBeat DEF BeatRefreshed, Goto, beatVars
<1> QED
  BY <1>1, <1>2, <1>3, <1>4, <1>5, <1>6, <1>7, <1>8 DEF BeatSteps

LEMMA RecovererPool ==
    ASSUME PoolInv, NEW r \in Recoverers, RecoverBegin(r) \/ RecoverSteps(r)
    PROVE  DataTypes' /\ DialInv' /\ BeatInv'
<1> USE DEF PoolInv
<1>0. /\ r \in Threads /\ pc \in [Threads -> Labels]
      /\ r \notin Dialers /\ r \notin Hearts
      /\ Hearts \subseteq Threads /\ Dialers \subseteq Threads
  BY ThreadsAssumption DEF Threads, FlightInv
<1>1. CASE RecoverBegin(r)
  <2>1. DataTypes'
    BY <1>1 DEF RecoverBegin, DataTypes, refreshVars, dialVars, beatVars
  <2>2. DialInv'
    BY <1>0, <1>1, <2>1, CalmDials DEF RecoverBegin, CalmFor, Goto, dialVars
  <2>3. BeatInv'
    BY <1>0, <1>1, CalmBeat DEF RecoverBegin, Goto, beatVars
  <2> QED
    BY <2>1, <2>2, <2>3
<1>2. CASE RecoverRefreshed(r)
  <2>1. DataTypes'
    BY <1>2 DEF RecoverRefreshed, DataTypes, dialVars, beatVars
  <2>2. DialInv'
    BY <1>0, <1>2, <2>1, CalmDials DEF RecoverRefreshed, CalmFor, Goto, dialVars
  <2>3. BeatInv'
    BY <1>0, <1>2, CalmBeat DEF RecoverRefreshed, Goto, beatVars
  <2> QED
    BY <2>1, <2>2, <2>3
<1>3. CASE PromoteReserve(r)
  <2>1. \A u \in Threads : u # r => pc'[u] = pc[u]
    BY <1>0, <1>3 DEF PromoteReserve, NotifyIf, Goto
  <2>2. /\ UNCHANGED <<tunnels, expired, dialVars, refreshVars, beatVars>>
        /\ saved' \in {saved, {}}
    BY <1>3 DEF PromoteReserve, PoolBecomes
  <2>3. CASE Len(entries) < 2
    <3>1. entries' = entries
      BY <1>3, <2>3 DEF PromoteReserve, PoolBecomes
    <3>2. DataTypes'
      BY <2>2, <3>1 DEF DataTypes, refreshVars, dialVars, beatVars
    <3>3. DialInv'
      BY <1>0, <2>1, <2>2, <3>1 DEF DialInv, Holds, ToTry, Pooled, dialVars
    <3> QED
      BY <1>0, <2>1, <2>2, <3>2, <3>3, CalmBeat DEF beatVars
  <2>4. CASE ~(Len(entries) < 2)
    <3>1. entries' = Append(Tail(entries), Head(entries))
      BY <1>3, <2>4 DEF PromoteReserve, PoolBecomes
    <3>2. Len(entries) >= 2
      BY <2>4, PoolFacts, SizesAssumption
    <3>3. entries' \in Pools
      BY <3>1, <3>2, RotationMeaning DEF DataTypes
    <3>4. DataTypes'
      BY <2>2, <3>3 DEF DataTypes, refreshVars, dialVars, beatVars
    <3>5. \A d \in Dialers : ToTry(d)' <= ToTry(d)
      BY <1>0, <2>1, <2>2, <3>1, <3>2, RotationToTry DEF dialVars
    <3>6. DialInv'
      BY <1>0, <2>1, <2>2, <3>4, <3>5, DialFrame DEF dialVars
    <3> QED
      BY <1>0, <2>1, <2>2, <3>4, <3>6, CalmBeat DEF beatVars
  <2> QED
    BY <2>3, <2>4
<1> QED
  BY <1>1, <1>2, <1>3 DEF RecoverSteps

LEMMA RefreshPool ==
    ASSUME PoolInv, NEW t \in Threads, RefreshSteps(t) \/ FollowerTimesOut(t)
    PROVE  DataTypes' /\ DialInv' /\ BeatInv'
<1> USE DEF PoolInv
<1>0. /\ t \in Threads /\ pc \in [Threads -> Labels]
      /\ Hearts \subseteq Threads /\ Dialers \subseteq Threads
  BY DEF Threads, FlightInv
<1>1. ASSUME NEW found \in Findings, HuntFinds(t, found)
      PROVE  DataTypes' /\ DialInv' /\ BeatInv'
  <2> DEFINE merged == UniqueEntries(entries \o found, PoolSize)
             all == {merged[i] : i \in DOMAIN merged}
  <2>1. /\ merged \in Pools /\ Pooled \subseteq all
        /\ all \subseteq Pooled => Len(merged) = Len(entries)
    BY MergeMeaning DEF DataTypes
  <2>2. entries' = merged /\ saved' \in {saved, {}} /\ Pooled' = all
    BY <1>1 DEF HuntFinds, PoolBecomes, Pooled
  <2>3. /\ fresh' = [d \in Dialers |-> IF d = dialing THEN fresh[d] \cup (all \ Pooled)
                                       ELSE fresh[d]]
        /\ UNCHANGED <<tunnels, expired, dialing, before, limit, attempts,
                       picked, second, dead, refreshVars, beatVars>>
    BY <1>1 DEF HuntFinds, beatVars
  <2>4. /\ pc[t] = "hunt" /\ pc'[t] = "notify"
        /\ \A u \in Threads : u # t => pc'[u] = pc[u]
    BY <1>0, <1>1 DEF HuntFinds, NotifyIf, Goto
  <2> HIDE DEF merged
  <2>5. all \subseteq Endpoints
    BY <2>1, PoolMeaning, ElementOfSeq, LenProperties
  <2> HIDE DEF all
  <2>6. DataTypes'
    BY <2>1, <2>2, <2>3, <2>5 DEF DataTypes, refreshVars, beatVars
  <2>7. \A d \in Dialers :
          \/ pc'[d] = pc[d]
          \/ {pc[d], pc'[d]} \cap {"attempt", "dialing", "dialed"} = {}
    BY <1>0, <2>4
  <2>8. ASSUME NEW d \in Dialers
        PROVE  \/ fresh'[d] = fresh[d] /\ (Holds(d) => ToTry(d)' <= ToTry(d))
               \/ dialing = d /\ fresh'[d] # {}
               \/ fresh'[d] = fresh[d] /\ fresh[d] # {}
    <3>1. CASE dialing # d
      BY <2>3, <3>1 DEF DialInv
    <3>2. CASE dialing = d /\ all \subseteq Pooled
      <4>1. Pooled' = Pooled /\ Len(entries') = Len(entries)
        BY <2>1, <2>2, <3>2
      <4>2. Len(entries) \in Nat
        BY PoolFacts, SizesAssumption
      <4>3. pc'[d] = pc[d]
        BY <2>7, <3>2 DEF DialInv, Holds
      <4>4. fresh'[d] = fresh[d]
        BY <2>3, <3>2
      <4> QED
        BY <2>3, <4>1, <4>2, <4>3, <4>4 DEF ToTry
    <3>3. CASE dialing = d /\ ~(all \subseteq Pooled)
      BY <2>3, <3>3
    <3> QED
      BY <3>1, <3>2, <3>3
  <2>9. DialInv'
    BY <2>3, <2>6, <2>7, <2>8, DialFrame
  <2>10. BeatInv'
    BY <1>0, <2>3, <2>4, CalmBeat DEF beatVars
  <2> QED
    BY <2>6, <2>9, <2>10
<1>2. ASSUME UNCHANGED <<entries, tunnels, expired, dialVars, beatVars>>,
             saved' \subseteq Threads \cup {"disk"}, cooling' \in BOOLEAN,
             CalmFor(t), \A h \in Hearts : pc[h] = "evict" => pc'[h] = "evict"
      PROVE  DataTypes' /\ DialInv' /\ BeatInv'
  <2>1. DataTypes'
    BY <1>2 DEF DataTypes, dialVars, beatVars
  <2>2. DialInv'
    BY <1>2, <2>1, CalmDials DEF dialVars
  <2> QED
    BY <1>2, <2>1, <2>2, CalmBeat DEF beatVars
<1>3. ASSUME ~\E found \in Findings : HuntFinds(t, found)
      PROVE  /\ UNCHANGED <<entries, tunnels, expired, dialVars, beatVars>>
             /\ saved' \subseteq Threads \cup {"disk"} /\ cooling' \in BOOLEAN
             /\ CalmFor(t)
             /\ \A h \in Hearts : pc[h] = "evict" => pc'[h] = "evict"
  <2> USE DEF CalmFor, Goto, refreshVars
  <2>0. saved \subseteq Threads \cup {"disk"} /\ cooling \in BOOLEAN
    BY DEF DataTypes
  <2>1. CASE RefreshJoins(t)
    BY <1>0, <2>0, <2>1 DEF RefreshJoins
  <2>2. CASE RefreshSkips(t)
    BY <1>0, <2>0, <2>2 DEF RefreshSkips
  <2>3. CASE RefreshLeads(t)
    BY <1>0, <2>0, <2>3 DEF RefreshLeads
  <2>4. CASE HuntFails(t)
    BY <1>0, <2>0, <2>4 DEF HuntFails
  <2>5. CASE RefreshLands(t)
    BY <1>0, <2>0, <2>5 DEF RefreshLands
  <2>6. CASE FollowerReturns(t)
    BY <1>0, <2>0, <2>6 DEF FollowerReturns
  <2>7. CASE FollowerTimesOut(t)
    BY <1>0, <2>0, <2>7 DEF FollowerTimesOut
  <2>8. CASE NotifyChange(t)
    BY <1>0, <2>0, <2>8 DEF NotifyChange
  <2>9. CASE SaveState(t)
    <3>1. pc'[t] \in Returns /\ pc[t] = "save"
      BY <1>0, <2>9 DEF SaveState, FlightInv
    <3> QED
      BY <1>0, <2>0, <2>9, <3>1 DEF SaveState, Returns
  <2> QED
    BY <1>3, <2>1, <2>2, <2>3, <2>4, <2>5, <2>6, <2>7, <2>8, <2>9 DEF
       RefreshSteps
<1> QED
  BY <1>1, <1>2, <1>3

LEMMA StepPoolInv == PoolInv /\ [Next]_vars => PoolInv'
<1> SUFFICES ASSUME PoolInv, [Next]_vars PROVE PoolInv'
  OBVIOUS
<1>0. FlightInv'
  BY StepFlightInv DEF PoolInv
<1> SUFFICES DataTypes' /\ DialInv' /\ BeatInv'
  BY <1>0 DEF PoolInv
<1>1. ASSUME NEW d \in Dialers,
             DialBegin(d) \/ DialLock(d) \/ DialSteps(d) \/ ContextEnds(d)
      PROVE  DataTypes' /\ DialInv' /\ BeatInv'
  BY <1>1, DialerTypes, DialerDials, DialerBeat
<1>2. ASSUME NEW h \in Hearts, BeatBegin(h) \/ BeatSteps(h)
      PROVE  DataTypes' /\ DialInv' /\ BeatInv'
  BY <1>2, HeartTypes, HeartDials, HeartBeat
<1>3. ASSUME CooldownEnds \/ (\E e \in Endpoints : TunnelsClose(e)) \/ UNCHANGED vars
      PROVE  DataTypes' /\ DialInv' /\ BeatInv'
  <2>1. UNCHANGED <<entries, saved, pc, expired, dialVars, beatVars>>
    BY <1>3 DEF CooldownEnds, TunnelsClose, vars
  <2>2. tunnels' \subseteq Endpoints /\ cooling' \in BOOLEAN
    BY <1>3 DEF CooldownEnds, TunnelsClose, vars, refreshVars, PoolInv,
       DataTypes
  <2>3. DataTypes'
    BY <2>1, <2>2 DEF PoolInv, DataTypes, dialVars, beatVars
  <2>4. DialInv'
    BY <2>1 DEF PoolInv, DialInv, Holds, ToTry, Pooled, dialVars
  <2>5. BeatInv'
    BY <2>1 DEF PoolInv, BeatInv, beatVars
  <2> QED
    BY <2>3, <2>4, <2>5
<1> QED
  BY <1>1, <1>2, <1>3, RecovererPool, RefreshPool DEF Next

\* The types of the pool, its callers and their goroutines hold for every
\* number of them: no sequence of merges, removals and rotations repeats an
\* endpoint or holds more than PoolSize.
THEOREM TypeCorrect == Spec => []TypeOK
<1>1. PoolInv => TypeOK
  BY DEF PoolInv, FlightInv, DataTypes, Pools, TypeOK, Returns, Answers
<1> QED
  BY <1>1, InitPoolInv, StepPoolInv, PTL DEF Spec

\* A dial that used up its attempts, and during which nothing was added,
\* leaves the pool empty, whatever is rotated and evicted while it runs.
THEOREM AttemptsCover == Spec => []AttemptsCoverPool
<1>1. PoolInv => AttemptsCoverPool
  <2> SUFFICES ASSUME PoolInv, NEW d \in Dialers, pc[d] = "attempt",
                      attempts[d] = limit[d], fresh[d] = {}
               PROVE  Pooled = {}
    BY DEF AttemptsCoverPool
  <2>1. ToTry(d) <= limit[d] - attempts[d] /\ ToTry(d) = Len(entries)
    BY DEF PoolInv, DialInv, Holds, ToTry
  <2>2. limit[d] \in Nat /\ Len(entries) \in Nat
    BY PoolFacts, SizesAssumption DEF PoolInv, DataTypes
  <2> QED
    BY <2>1, <2>2, PoolFacts DEF PoolInv
<1> QED
  BY <1>1, InitPoolInv, StepPoolInv, PTL DEF Spec

\* While a dial is under way, only the heartbeat takes its endpoint away.
PickedStays ==
    \A d \in Dialers :
        pc[d] = "dialing" /\ pc'[d] = "dialing" /\ picked[d] \in Pooled =>
          /\ picked'[d] = picked[d]
          /\ \/ picked[d] \in Pooled'
             \/ \E h \in Hearts : victim = picked[d] /\ Evict(h)

LEMMA StepPickedStays == PoolInv /\ [Next]_vars => PickedStays
<1> SUFFICES ASSUME PoolInv, [Next]_vars, NEW d \in Dialers, pc[d] = "dialing",
                    pc'[d] = "dialing", picked[d] \in Pooled
             PROVE  /\ picked'[d] = picked[d]
                    /\ \/ picked[d] \in Pooled'
                       \/ \E h \in Hearts : victim = picked[d] /\ Evict(h)
  BY DEF PickedStays
<1> USE DEF PoolInv, refreshVars, beatVars, dialVars
<1>0. /\ pc \in [Threads -> Labels] /\ Dialers \subseteq Threads
      /\ picked \in [Dialers -> Endpoints \cup {None}] /\ entries \in Pools
      /\ dialing = d /\ \A x \in Dialers : Holds(x) => x = d
  BY DEF FlightInv, DataTypes, DialInv, Holds, Threads
<1>1. ASSUME NEW x \in Dialers,
             DialBegin(x) \/ DialLock(x) \/ DialSteps(x) \/ ContextEnds(x)
      PROVE  picked'[d] = picked[d] /\ Pooled' = Pooled
  <2> USE DEF Pooled
  <2>1. CASE DialFails(x)
    <3>1. x = d /\ pc'[x] = "attempt"
      BY <1>0, <2>1 DEF DialFails, Holds, Goto
    <3> QED
      BY <3>1
  <2>2. CASE DialBegin(x)
    BY <2>2 DEF DialBegin
  <2>3. CASE DialLock(x)
    BY <2>3 DEF DialLock
  <2>4. CASE DialPick(x)
    <3>1. x # d
      BY <2>4 DEF DialPick
    <3> QED
      BY <1>0, <2>4, <3>1 DEF DialPick
  <2>5. CASE DialGivesUp(x)
    BY <2>5 DEF DialGivesUp
  <2>6. CASE DialSucceeds(x)
    BY <2>6 DEF DialSucceeds
  <2>7. CASE Track(x)
    <3>1. x # d
      BY <2>7 DEF Track
    <3> QED
      BY <1>0, <2>7, <3>1 DEF Track
  <2>8. CASE ReportDialRemovals(x)
    BY <2>8 DEF ReportDialRemovals
  <2>9. ASSUME NEW e \in Endpoints, ReportDead(x, e)
        PROVE  picked'[d] = picked[d] /\ Pooled' = Pooled
    BY <2>9 DEF ReportDead
  <2>10. CASE DialAfterReport(x)
    BY <2>10 DEF DialAfterReport
  <2>11. CASE DialRefreshed(x)
    BY <2>11 DEF DialRefreshed
  <2>12. CASE ContextEnds(x)
    BY <2>12 DEF ContextEnds
  <2> QED
    BY <1>1, <2>1, <2>2, <2>3, <2>4, <2>5, <2>6, <2>7, <2>8, <2>9, <2>10,
       <2>11, <2>12 DEF DialSteps
<1>2. ASSUME NEW h \in Hearts, BeatBegin(h) \/ BeatSteps(h)
      PROVE  /\ picked'[d] = picked[d]
             /\ picked[d] \in Pooled' \/ (victim = picked[d] /\ Evict(h))
  <2>1. CASE Evict(h)
    <3>1. picked' = picked /\ entries' = RemoveFirst(entries, victim)
      BY <2>1 DEF Evict, Invalidate, PoolBecomes
    <3>2. Pooled' = Pooled \ {victim}
      BY <1>0, <3>1, RemovalMeaning DEF Pooled
    <3>3. CASE victim = picked[d]
      BY <2>1, <3>1, <3>3
    <3>4. CASE victim # picked[d]
      BY <3>1, <3>2, <3>4
    <3> QED
      BY <3>3, <3>4
  <2>2. CASE ~Evict(h)
    <3>1. picked' = picked /\ entries' = entries
      BY <1>2, <2>2 DEF BeatBegin, BeatSteps, BeatProbed, Judge, OnDead,
         BeatJudged, TopUp, BeatRefreshed
    <3> QED
      BY <3>1 DEF Pooled
  <2> QED
    BY <2>1, <2>2
<1>3. ASSUME NEW r \in Recoverers, RecoverBegin(r) \/ RecoverSteps(r)
      PROVE  picked'[d] = picked[d] /\ Pooled' = Pooled
  <2>1. picked' = picked
    BY <1>3 DEF RecoverBegin, RecoverSteps, RecoverRefreshed, PromoteReserve
  <2>2. CASE entries' = entries
    BY <2>1, <2>2 DEF Pooled
  <2>3. CASE entries' # entries
    <3>1. Len(entries) >= 2 /\ entries' = Append(Tail(entries), Head(entries))
      BY <1>3, <2>3, PoolFacts, SizesAssumption DEF RecoverBegin, RecoverSteps,
         RecoverRefreshed, PromoteReserve, PoolBecomes
    <3> QED
      BY <1>0, <2>1, <3>1, RotationMeaning DEF Pooled
  <2> QED
    BY <2>2, <2>3
<1>4. ASSUME NEW t \in Threads, RefreshSteps(t) \/ FollowerTimesOut(t)
      PROVE  picked'[d] = picked[d] /\ Pooled \subseteq Pooled'
  <2>1. ASSUME NEW found \in Findings, HuntFinds(t, found)
        PROVE  picked' = picked /\ Pooled \subseteq Pooled'
    BY <1>0, <2>1, MergeMeaning DEF HuntFinds, PoolBecomes, Pooled
  <2>2. ASSUME ~\E found \in Findings : HuntFinds(t, found)
        PROVE  picked' = picked /\ entries' = entries
    BY <1>4, <2>2 DEF RefreshSteps, RefreshJoins, RefreshSkips, RefreshLeads,
       HuntFails, RefreshLands, FollowerReturns, FollowerTimesOut, NotifyChange,
       SaveState
  <2> QED
    BY <2>1, <2>2 DEF Pooled
<1>5. ASSUME CooldownEnds \/ (\E e \in Endpoints : TunnelsClose(e)) \/ UNCHANGED vars
      PROVE  picked'[d] = picked[d] /\ Pooled' = Pooled
  BY <1>5 DEF CooldownEnds, TunnelsClose, vars, Pooled
<1> QED
  BY <1>1, <1>2, <1>3, <1>4, <1>5 DEF Next

\* Whatever dials, hunts and recoveries do at the same time, the endpoint a
\* dial is trying leaves the pool only by that dial's failure or by an
\* eviction of the heartbeat (pool.go:46-87).
THEOREM OnlyHeartbeatTakesPicked == Spec => [][PickedStays]_vars
<1>1. PoolInv /\ [Next]_vars => [PickedStays]_vars
  BY StepPickedStays
<1> QED
  BY <1>1, InitPoolInv, StepPoolInv, PTL DEF Spec

\* An attempt begins with DialPick and nothing else.
LEMMA DialingIsPicked ==
    ASSUME PoolInv, [Next]_vars, NEW d \in Dialers, pc[d] # "dialing",
           pc'[d] = "dialing"
    PROVE  DialPick(d)
<1> USE DEF Goto, vars, dialVars, refreshVars, beatVars
<1>0. pc \in [Threads -> Labels] /\ d \in Threads
  BY DEF PoolInv, FlightInv, Threads
<1>1. ASSUME NEW x \in Dialers,
             DialBegin(x) \/ DialLock(x) \/ DialSteps(x) \/ ContextEnds(x)
      PROVE  DialPick(d)
  BY <1>0, <1>1 DEF DialBegin, DialLock, DialSteps, ContextEnds, DialPick,
     DialFails, DialGivesUp, DialSucceeds, Track, ReportDialRemovals,
     ReportDead, DialAfterReport, DialRefreshed, Return, NotifyIf
<1>2. ASSUME NEW h \in Hearts, BeatBegin(h) \/ BeatSteps(h) PROVE FALSE
  BY <1>0, <1>2 DEF BeatBegin, BeatSteps, BeatProbed, Judge, Evict, OnDead,
     BeatJudged, TopUp, BeatRefreshed, NotifyIf
<1>3. ASSUME NEW r \in Recoverers, RecoverBegin(r) \/ RecoverSteps(r) PROVE FALSE
  BY <1>0, <1>3 DEF RecoverBegin, RecoverSteps, RecoverRefreshed,
     PromoteReserve, NotifyIf
<1>4. ASSUME NEW t \in Threads, RefreshSteps(t) \/ FollowerTimesOut(t) PROVE FALSE
  <2>1. CASE SaveState(t)
    <3>1. ret[t] \in Returns
      BY DEF PoolInv, FlightInv
    <3> QED
      BY <1>0, <2>1, <3>1 DEF SaveState, Returns
  <2>2. CASE ~SaveState(t)
    BY <1>0, <1>4, <2>2 DEF RefreshSteps, RefreshJoins, RefreshSkips,
       RefreshLeads, HuntFinds, HuntFails, RefreshLands, FollowerReturns,
       FollowerTimesOut, NotifyChange, NotifyIf
  <2> QED
    BY <2>1, <2>2
<1>5. ASSUME CooldownEnds \/ (\E e \in Endpoints : TunnelsClose(e)) \/ UNCHANGED vars
      PROVE  FALSE
  BY <1>5 DEF CooldownEnds, TunnelsClose
<1> QED
  BY <1>1, <1>2, <1>3, <1>4, <1>5 DEF Next

\* So without a heartbeat the endpoint being dialled is in the pool.
PickedPooled == \A d \in Dialers : pc[d] = "dialing" => picked[d] \in Pooled

\* Without a heartbeat a dial returns an endpoint nobody has removed, whatever
\* other dials, hunts and recoveries do (pool.go:76-80).
THEOREM ReturnsPooled ==
    ASSUME Hearts = {}
    PROVE  Spec => ReturnedIsPooled
<1>1. Init => PickedPooled
  BY DEF Init, PickedPooled, Threads
<1>2. PoolInv /\ PickedPooled /\ [Next]_vars => PickedPooled'
  <2> SUFFICES ASSUME PoolInv, PickedPooled, [Next]_vars, NEW d \in Dialers,
                      pc'[d] = "dialing"
               PROVE  picked'[d] \in Pooled'
    BY DEF PickedPooled
  <2>1. CASE pc[d] = "dialing"
    BY <2>1, StepPickedStays DEF PickedPooled, PickedStays
  <2>2. CASE pc[d] # "dialing"
    BY <2>2, DialingIsPicked, PoolFacts DEF DialPick, PoolInv, DataTypes, Pooled
  <2> QED
    BY <2>1, <2>2
<1>3. PickedPooled => [\A d \in Dialers : pc[d] = "dialing" /\ pc'[d] = "dialed"
                         => picked[d] \in Pooled]_vars
  BY DEF PickedPooled
<1> QED
  BY <1>1, <1>2, <1>3, InitPoolInv, StepPoolInv, PTL DEF Spec, ReturnedIsPooled

-----------------------------------------------------------------------------
\* The two things a goroutine waits for belong to goroutines that wait for
\* neither: dialMu to one that picks or dials an entry, a flight to one that
\* hunts, notifies or lands.
NoCircularWait ==
    /\ \A d \in Dialers :
         pc[d] = "lock" =>
            dialing = None \/ pc[dialing] \in {"attempt", "dialing"}
    /\ \A t \in Threads :
         pc[t] = "joined" =>
            \/ answer[t] # "none"
            \/ pc[flight] \in {"hunt", "found", "notFound", "notify", "save"}

\* Waits end in work, never in a circle of waiters, whatever the number of
\* dials and recoveries: nobody holds dialMu while it refreshes, or leads a
\* flight while it waits for dialMu (managed.go:93-188).
THEOREM WaitersHaveWorkers == Spec => []NoCircularWait
<1>1. ASSUME PoolInv PROVE NoCircularWait
  <2>1. ASSUME NEW d \in Dialers, pc[d] = "lock", dialing # None
        PROVE  pc[dialing] \in {"attempt", "dialing"}
    <3>1. dialing \in Dialers
      BY <1>1, <2>1 DEF PoolInv, DataTypes
    <3> QED
      BY <1>1, <3>1 DEF PoolInv, DialInv, Holds
  <2>2. ASSUME NEW t \in Threads, pc[t] = "joined", answer[t] = "none"
        PROVE  pc[flight] \in {"hunt", "found", "notFound", "notify", "save"}
    <3>1. flight \in Threads /\ Leads(flight)
      BY <1>1, <2>2 DEF PoolInv, FlightInv, OneFlight
    <3> QED
      BY <3>1 DEF Leads
  <2> QED
    BY <2>1, <2>2 DEF NoCircularWait
<1> QED
  BY <1>1, InitPoolInv, StepPoolInv, PTL DEF Spec

-----------------------------------------------------------------------------
(* Refinement of PoolPromise.                                              *)

LEMMA PromisedPools == ASSUME NEW s \in Pools PROVE s \in Promise!Pools
<1>1. s \in Seq(Endpoints) /\ Len(s) <= PoolSize /\ NoRepeats(s)
  BY PoolMeaning
<1>2. Len(s) \in 0..PoolSize /\ s \in [1..Len(s) -> Endpoints]
  BY <1>1, SizesAssumption, LenProperties
<1>3. s \in UNION {[1..n -> Endpoints] : n \in 0..PoolSize}
  BY <1>2
<1>4. \A i, j \in DOMAIN s : s[i] = s[j] => i = j
  BY <1>1 DEF NoRepeats
<1> QED
  BY <1>3, <1>4 DEF Promise!Pools, Promise!IsInjective

\* The two modules have a RemoveFirst each, of the same definition.
LEMMA SameRemoval ==
    ASSUME NEW e
    PROVE  Promise!RemoveFirst(entries, e) = RemoveFirst(entries, e)
BY DEF Promise!RemoveFirst, RemoveFirst, Promise!RemoveAt, RemoveAt,
   Promise!SelectInSeq, SelectInSeq, Promise!Min, Min

\* What Invalidate does is an endpoint leaving.
LEMMA InvalidateDrops ==
    ASSUME entries \in Pools, NEW e, Invalidate(e)
    PROVE  [Promise!Next]_entries
<1>1. entries' = RemoveFirst(entries, e)
  BY DEF Invalidate, PoolBecomes
<1>2. entries \in Seq(Endpoints)
  BY PoolMeaning
<1>3. CASE e \in Pooled
  <2>1. e \in Endpoints
    BY <1>2, <1>3, ElementOfSeq, LenProperties DEF Pooled
  <2> QED
    BY <1>1, <2>1, SameRemoval DEF Promise!Next, Promise!Drop
<1>4. CASE e \notin Pooled
  BY <1>1, <1>2, <1>4, LenProperties DEF RemoveFirst, Pooled
<1> QED
  BY <1>3, <1>4

\* Merge leaves what was there in front.
LEMMA MergeExtends ==
    ASSUME entries \in Pools, NEW t \in Threads, NEW found \in Findings,
           HuntFinds(t, found)
    PROVE  Promise!Merge
<1> DEFINE r == UniqueEntries(entries \o found, PoolSize)
           n == Len(entries)
<1>1. entries' = r
  BY DEF HuntFinds, PoolBecomes
<1>2. /\ r \in Pools /\ r # <<>> /\ n <= Len(r)
      /\ \A k \in 1..n : r[k] = entries[k]
  BY MergeMeaning
<1> HIDE DEF r
<1>3. /\ entries \in Seq(Endpoints) /\ r \in Seq(Endpoints)
      /\ n \in Int /\ 1 \in Int /\ n >= 0
      /\ \A k \in 1..n : entries[k] \in Endpoints
  BY <1>2, PoolMeaning, LenProperties, ElementOfSeq
<1> HIDE DEF n
<1>4. \A k \in 1..n : r[k] \in Endpoints
  BY <1>2, <1>3
<1> DEFINE a == SubSeq(entries, 1, n)
           b == SubSeq(r, 1, n)
<1>5. /\ a \in Seq(Endpoints) /\ Len(a) = n
      /\ \A k \in 1..n : a[k] = entries[k]
  <2>1. /\ a \in Seq(Endpoints) /\ Len(a) = IF 1 <= n THEN n - 1 + 1 ELSE 0
        /\ \A k \in 1..(n - 1 + 1) : a[k] = entries[1 + k - 1]
    BY <1>3, SubSeqProperties
  <2> HIDE DEF a
  <2> QED
    BY <1>3, <2>1
<1>6. /\ b \in Seq(Endpoints) /\ Len(b) = n
      /\ \A k \in 1..n : b[k] = r[k]
  <2>1. /\ b \in Seq(Endpoints) /\ Len(b) = IF 1 <= n THEN n - 1 + 1 ELSE 0
        /\ \A k \in 1..(n - 1 + 1) : b[k] = r[1 + k - 1]
    BY <1>3, <1>4, SubSeqProperties
  <2> HIDE DEF b
  <2> QED
    BY <1>3, <2>1
<1>7. a = b
  <2> HIDE DEF a, b
  <2>1. Len(a) = Len(b) /\ \A k \in 1..Len(a) : a[k] = b[k]
    BY <1>2, <1>5, <1>6
  <2> QED
    BY <1>5, <1>6, <2>1, SeqEqual
<1>8. Promise!IsPrefix(entries, r)
  BY <1>2, <1>7 DEF Promise!IsPrefix, n
<1> QED
  BY <1>1, <1>2, <1>8, PromisedPools DEF Promise!Merge

LEMMA PromiseStep == PoolInv /\ [Next]_vars => [Promise!Next]_entries
<1> SUFFICES ASSUME PoolInv, [Next]_vars PROVE [Promise!Next]_entries
  OBVIOUS
<1>0. entries \in Pools
  BY DEF PoolInv, DataTypes
<1>1. ASSUME NEW d \in Dialers, DialFails(d) PROVE [Promise!Next]_entries
  BY <1>0, <1>1, InvalidateDrops DEF DialFails
<1>2. ASSUME NEW h \in Hearts, Evict(h) PROVE [Promise!Next]_entries
  BY <1>0, <1>2, InvalidateDrops DEF Evict
<1>3. ASSUME NEW t \in Threads, NEW found \in Findings, HuntFinds(t, found)
      PROVE  [Promise!Next]_entries
  BY <1>0, <1>3, MergeExtends DEF Promise!Next
<1>4. ASSUME NEW r \in Recoverers, PromoteReserve(r)
      PROVE  [Promise!Next]_entries
  <2>1. Len(entries) \in Nat
    BY <1>0, PoolMeaning, LenProperties
  <2> QED
    BY <1>4, <2>1 DEF PromoteReserve, PoolBecomes, Promise!Next, Promise!Promote
<1>5. ASSUME NEW d \in Dialers,
             DialBegin(d) \/ DialLock(d) \/ DialSteps(d) \/ ContextEnds(d)
      PROVE  [Promise!Next]_entries
  BY <1>1, <1>5 DEF DialBegin, DialLock, DialSteps, ContextEnds, DialPick,
     DialGivesUp, DialSucceeds, Track, ReportDialRemovals, ReportDead,
     DialAfterReport, DialRefreshed
<1>6. ASSUME NEW h \in Hearts, BeatBegin(h) \/ BeatSteps(h)
      PROVE  [Promise!Next]_entries
  BY <1>2, <1>6 DEF BeatBegin, BeatSteps, BeatProbed, Judge, OnDead, BeatJudged,
     TopUp, BeatRefreshed
<1>7. ASSUME NEW r \in Recoverers, RecoverBegin(r) \/ RecoverSteps(r)
      PROVE  [Promise!Next]_entries
  BY <1>4, <1>7 DEF RecoverBegin, RecoverSteps, RecoverRefreshed
<1>8. ASSUME NEW t \in Threads, RefreshSteps(t) \/ FollowerTimesOut(t)
      PROVE  [Promise!Next]_entries
  BY <1>3, <1>8 DEF RefreshSteps, RefreshJoins, RefreshSkips, RefreshLeads,
     HuntFails, RefreshLands, FollowerReturns, FollowerTimesOut, NotifyChange,
     SaveState
<1>9. ASSUME CooldownEnds \/ (\E e \in Endpoints : TunnelsClose(e))
             \/ UNCHANGED vars
      PROVE  [Promise!Next]_entries
  BY <1>9 DEF CooldownEnds, TunnelsClose, vars
<1> QED
  BY <1>5, <1>6, <1>7, <1>8, <1>9 DEF Next

\* The pool changes as GatewayRecovery takes it to, however many goroutines
\* dial, hunt, evict and promote: the short pool of that module stands for the
\* one of this.
THEOREM KeepsPromise == Spec => PromiseSpec
<1>1. Init => Promise!Init
  BY PromisedPools DEF Init, Pools, Promise!Init
<1> QED
  BY <1>1, InitPoolInv, StepPoolInv, PromiseStep, PTL DEF Spec, PromiseSpec,
     Promise!Spec
=============================================================================
