--------------------------- MODULE KnowledgeProofs ---------------------------
(***************************************************************************)
(* That the agent is told the right things of its repositories and its     *)
(* skills, for repositories, catalogs and limits of any size.              *)
(*                                                                         *)
(* Induction is over sets: a set of numbers that is not empty has a least  *)
(* element.                                                                *)
(***************************************************************************)
EXTENDS Knowledge, FiniteSetTheorems, SequenceTheorems, WellFoundedInduction,
        TLAPS

LEMMA LeastNumber ==
  ASSUME NEW T, T \subseteq Nat, T # {}
  PROVE  \E n \in T : \A m \in T : n <= m
<1>1. PICK n \in T : \A m \in T : <<m, n>> \notin OpToRel(<, Nat)
  BY NatLessThanWellFounded, WFMin
<1>2. \A m \in T : ~(m < n)
  BY <1>1 DEF OpToRel
<1>3. QED
  BY <1>2

LEMMA AllNumbers ==
  ASSUME NEW S, 0 \in S, \A n \in Nat : n \in S => n + 1 \in S
  PROVE  Nat \subseteq S
<1> SUFFICES ASSUME Nat \ S # {}
             PROVE  FALSE
  OBVIOUS
<1>1. PICK n \in Nat \ S : \A m \in Nat \ S : n <= m
  BY LeastNumber
<1>2. n # 0 /\ n - 1 \in Nat
  BY <1>1
<1>3. n - 1 \in S
  BY <1>1, <1>2
<1>4. (n - 1) + 1 \in S
  BY <1>2, <1>3
<1>5. QED
  BY <1>1, <1>2, <1>4

\* What holds of 0 and passes on to the next number, as far as N.
LEMMA NumbersUpTo ==
  ASSUME NEW N \in Nat, NEW S, 0 \in S,
         \A n \in 0 .. N - 1 : n \in S => n + 1 \in S
  PROVE  0 .. N \subseteq S
<1> DEFINE T == {n \in Nat : n <= N => n \in S}
<1>1. 0 \in T
  OBVIOUS
<1>2. ASSUME NEW n \in Nat, n \in T
      PROVE  n + 1 \in T
  BY <1>2
<1>3. Nat \subseteq T
  <2> HIDE DEF T
  <2> QED
    BY <1>1, <1>2, AllNumbers
<1>4. QED
  BY <1>3

\* The states a loop goes through that begins in a and does h[n] in round n.
IsRun(f, N, a, h) == f[0] = a /\ \A n \in 1 .. N : f[n] = h[n][f[n - 1]]

\* A loop that keeps its state in S has a run.
LEMMA LoopRuns ==
  ASSUME NEW N \in Nat, NEW S, NEW a \in S, NEW h \in [1 .. N -> [S -> S]]
  PROVE  \E f \in [0 .. N -> S] : IsRun(f, N, a, h)
<1> DEFINE Run(f, m) == f[0] = a /\ \A n \in 1 .. m : f[n] = h[n][f[n - 1]]
           Reached == {m \in 0 .. N : \E f \in [0 .. m -> S] : Run(f, m)}
<1>1. 0 \in Reached
  <2> DEFINE g == [n \in 0 .. 0 |-> a]
  <2>1. Run(g, 0) /\ g \in [0 .. 0 -> S]
    OBVIOUS
  <2>2. \E f \in [0 .. 0 -> S] : Run(f, 0)
    <3> HIDE DEF Run, g
    <3> QED
      BY <2>1
  <2>3. QED
    BY <2>2
<1>2. ASSUME NEW m \in 0 .. N - 1, m \in Reached
      PROVE  m + 1 \in Reached
  <2>1. PICK f \in [0 .. m -> S] : Run(f, m)
    BY <1>2
  <2> DEFINE g == [n \in 0 .. m + 1 |-> IF n <= m THEN f[n] ELSE h[n][f[m]]]
  <2>2. m + 1 \in 1 .. N /\ m \in 0 .. m /\ h[m + 1][f[m]] \in S
    <3>1. m + 1 \in 1 .. N /\ m \in 0 .. m
      OBVIOUS
    <3>2. h[m + 1] \in [S -> S] /\ f[m] \in S
      BY <3>1
    <3>3. QED
      BY <3>1, <3>2
  <2>3. g \in [0 .. m + 1 -> S]
    <3>1. ASSUME NEW n \in 0 .. m + 1
          PROVE  (IF n <= m THEN f[n] ELSE h[n][f[m]]) \in S
      <4>1. CASE n <= m
        BY <4>1
      <4>2. CASE n = m + 1
        BY <2>2, <4>2
      <4>3. QED
        BY <4>1, <4>2
    <3>2. QED
      BY <3>1
  <2>4. Run(g, m + 1)
    <3>1. g[0] = a
      BY <2>1
    <3>2. ASSUME NEW n \in 1 .. m + 1
          PROVE  g[n] = h[n][g[n - 1]]
      <4>1. g[n - 1] = f[n - 1]
        OBVIOUS
      <4>2. CASE n <= m
        BY <2>1, <4>1, <4>2
      <4>3. CASE n = m + 1
        BY <4>1, <4>3
      <4>4. QED
        BY <4>2, <4>3
    <3>3. QED
      BY <3>1, <3>2
  <2>5. \E run \in [0 .. m + 1 -> S] : Run(run, m + 1)
    <3> HIDE DEF Run, g
    <3> QED
      BY <2>3, <2>4
  <2>6. QED
    BY <2>2, <2>5
<1>3. N \in Reached
  <2>1. 0 .. N \subseteq Reached
    <3> HIDE DEF Reached
    <3> QED
      BY <1>1, <1>2, NumbersUpTo
  <2>2. QED
    BY <2>1
<1>4. QED
  BY <1>3 DEF IsRun
-----------------------------------------------------------------------------
\* Things that can be ranked.
Rankable(rank, things) ==
  IsFiniteSet(things) /\ things \subseteq Int /\ \A m \in things : rank[m] \in Int

LEMMA AheadIsAnOrder ==
  ASSUME NEW rank, NEW things, Rankable(rank, things)
  PROVE  /\ \A m \in things : ~Ahead(rank, m, m)
         /\ \A l, m, n \in things :
              Ahead(rank, l, m) /\ Ahead(rank, m, n) => Ahead(rank, l, n)
         /\ \A m, n \in things : Ahead(rank, m, n) \/ Ahead(rank, n, m) \/ m = n
BY DEF Rankable, Ahead

\* The place of a thing: one more than there are ahead of it.
LEMMA Placings ==
  ASSUME NEW rank, NEW things, Rankable(rank, things)
  PROVE  \E place \in Surjection(things, 1 .. Cardinality(things)) :
           \A m, n \in things : Ahead(rank, m, n) => place[m] < place[n]
<1> DEFINE Before(m) == {k \in things : Ahead(rank, k, m)}
           N == Cardinality(things)
           place == [m \in things |-> Cardinality(Before(m)) + 1]
<1>1. N \in Nat /\ IsFiniteSet(things)
  BY FS_CardinalityType DEF Rankable
<1>2. \A m \in things : IsFiniteSet(Before(m)) /\ Cardinality(Before(m)) \in Nat
  BY <1>1, FS_Subset, FS_CardinalityType
<1>3. ASSUME NEW m \in things
      PROVE  Cardinality(Before(m)) < N
  <2>1. Before(m) \in SUBSET things /\ Before(m) # things
    BY AheadIsAnOrder
  <2>2. Cardinality(Before(m)) <= N /\ N # Cardinality(Before(m))
    BY <1>1, <2>1, FS_Subset
  <2>3. QED
    BY <1>1, <1>2, <2>2
<1>4. ASSUME NEW m \in things, NEW n \in things, Ahead(rank, m, n)
      PROVE  Cardinality(Before(m)) < Cardinality(Before(n))
  <2>1. Before(m) \in SUBSET Before(n) /\ Before(m) # Before(n)
    BY <1>4, AheadIsAnOrder
  <2>2. /\ Cardinality(Before(m)) <= Cardinality(Before(n))
        /\ Cardinality(Before(n)) # Cardinality(Before(m))
    BY <1>2, <2>1, FS_Subset
  <2>3. QED
    BY <1>2, <2>2
<1> HIDE DEF Before
<1>5. place \in [things -> 1 .. N]
  BY <1>1, <1>2, <1>3
<1>6. \A m, n \in things : Ahead(rank, m, n) => place[m] < place[n]
  BY <1>2, <1>4
<1>7. place \in Injection(things, 1 .. N)
  <2>1. \A m, n \in things : place[m] = place[n] => m = n
    <3> SUFFICES ASSUME NEW m \in things, NEW n \in things, place[m] = place[n],
                        m # n
                 PROVE  FALSE
      OBVIOUS
    <3>1. Ahead(rank, m, n) \/ Ahead(rank, n, m)
      BY AheadIsAnOrder
    <3>2. place[m] \in Int /\ place[n] \in Int
      BY <1>5
    <3> HIDE DEF place
    <3>3. QED
      BY <1>6, <3>1, <3>2
  <2>2. QED
    BY <1>5, <2>1 DEF Injection, IsInjective
<1>8. IsFiniteSet(1 .. N) /\ Cardinality(1 .. N) = N
  BY <1>1, FS_Interval
<1>9. place \in Surjection(things, 1 .. N)
  <2> HIDE DEF place
  <2> QED
    BY <1>7, <1>8, FS_Injection
<1>10. QED
  <2> HIDE DEF place
  <2> QED
    BY <1>6, <1>9

\* A list of ranked things has each of them once, the higher ranks first.
LEMMA RankedInOrder ==
  ASSUME NEW rank, NEW things, Rankable(rank, things)
  PROVE  LET order == Ranked(rank, things)
             N == Cardinality(things)
         IN  /\ N \in Nat
             /\ order \in [1 .. N -> things]
             /\ \A i, j \in 1 .. N : i < j => Ahead(rank, order[i], order[j])
             /\ \A i, j \in 1 .. N : order[i] = order[j] => i = j
             /\ \A m \in things : \E i \in 1 .. N : order[i] = m
<1> DEFINE N == Cardinality(things)
           InOrder(s) == \A i, j \in DOMAIN s : i < j => Ahead(rank, s[i], s[j])
<1>1. PICK place \in Surjection(things, 1 .. N) :
        \A m, n \in things : Ahead(rank, m, n) => place[m] < place[n]
  BY Placings
<1>2. /\ place \in [things -> 1 .. N]
      /\ \A i \in 1 .. N : \E m \in things : place[m] = i
  BY <1>1 DEF Surjection
<1> DEFINE s == [i \in 1 .. N |-> CHOOSE m \in things : place[m] = i]
<1>3. \A i \in 1 .. N : s[i] \in things /\ place[s[i]] = i
  BY <1>2
<1>4. s \in [1 .. N -> things]
  BY <1>3
<1>5. InOrder(s)
  <2> SUFFICES ASSUME NEW i \in 1 .. N, NEW j \in 1 .. N, i < j
               PROVE  Ahead(rank, s[i], s[j])
    BY <1>4
  <2> HIDE DEF s
  <2>1. s[i] \in things /\ s[j] \in things /\ place[s[i]] = i /\ place[s[j]] = j
    BY <1>3
  <2>2. ~Ahead(rank, s[j], s[i]) /\ s[i] # s[j]
    BY <1>1, <2>1
  <2>3. QED
    BY <2>1, <2>2, AheadIsAnOrder
<1> DEFINE order == Ranked(rank, things)
<1>6. order \in [1 .. N -> things] /\ InOrder(order)
  <2>1. \E t \in [1 .. N -> things] : InOrder(t)
    <3> HIDE DEF s, InOrder
    <3> QED
      BY <1>4, <1>5
  <2>2. order = CHOOSE t \in [1 .. N -> things] : InOrder(t)
    BY DEF Ranked
  <2> HIDE DEF order, InOrder
  <2>3. QED
    BY <2>1, <2>2
<1> HIDE DEF order
<1>7. N \in Nat /\ IsFiniteSet(things)
  BY FS_CardinalityType DEF Rankable
<1>8. \A i, j \in 1 .. N : i < j => Ahead(rank, order[i], order[j])
  BY <1>6
<1>9. \A i, j \in 1 .. N : order[i] = order[j] => i = j
  <2> SUFFICES ASSUME NEW i \in 1 .. N, NEW j \in 1 .. N, order[i] = order[j],
                      i < j \/ j < i
               PROVE  FALSE
    BY <1>7
  <2>1. order[i] \in things
    BY <1>6
  <2>2. QED
    BY <1>8, <2>1, AheadIsAnOrder
<1>10. order \in Surjection(1 .. N, things)
  <2>1. order \in Injection(1 .. N, things)
    BY <1>6, <1>9 DEF Injection, IsInjective
  <2>2. IsFiniteSet(1 .. N) /\ Cardinality(1 .. N) = N
    BY <1>7, FS_Interval
  <2>3. QED
    BY <1>7, <2>1, <2>2, FS_Injection
<1>11. \A m \in things : \E i \in 1 .. N : order[i] = m
  BY <1>10 DEF Surjection
<1>12. QED
  BY <1>6, <1>7, <1>8, <1>9, <1>11 DEF order

LEMMA ClampedIs ==
  ASSUME NEW n \in Int, NEW low \in Int, NEW high \in Int, low <= high
  PROVE  /\ Clamped(n, low, high) \in low .. high
         /\ Clamped(n, low, high) <= n \/ Clamped(n, low, high) = low
         /\ Clamped(n, low, high) >= n \/ Clamped(n, low, high) = high
<1>1. Min({n, high}) = IF n < high THEN n ELSE high
  BY DEF Min
<1>2. Max({low, Min({n, high})}) =
        IF Min({n, high}) < low THEN low ELSE Min({n, high})
  BY <1>1 DEF Max
<1>3. QED
  BY <1>1, <1>2 DEF Clamped

\* The beginning of a list of N things from S: n of them, or all.
Begins(first, order, S, N, n) ==
  /\ Len(first) = Min({N, n}) /\ Len(first) = IF N < n THEN N ELSE n
  /\ first \in Seq(S) /\ DOMAIN first = 1 .. Len(first)
  /\ \A i \in 1 .. Len(first) : i \in 1 .. N /\ first[i] = order[i]

LEMMA FirstIs ==
  ASSUME NEW S, NEW N \in Nat, NEW order \in [1 .. N -> S], NEW n \in Nat
  PROVE  Begins(First(n, order), order, S, N, n)
<1>1. Len(order) = N
  OBVIOUS
<1>2. Min({N, n}) = (IF N < n THEN N ELSE n) /\ Min({N, n}) \in Nat
  BY DEF Min
<1>3. PICK m \in Nat : m = Min({N, n}) /\ m = IF N < n THEN N ELSE n
  BY <1>2
<1>4. First(n, order) = SubSeq(order, 1, m)
  BY <1>1, <1>3 DEF First
<1>5. \A i \in 1 .. m : i \in 1 .. N /\ order[i] \in S
  BY <1>3
<1>6. /\ SubSeq(order, 1, m) \in Seq(S)
      /\ Len(SubSeq(order, 1, m)) = IF 1 <= m THEN m - 1 + 1 ELSE 0
      /\ \A i \in 1 .. m - 1 + 1 : SubSeq(order, 1, m)[i] = order[1 + i - 1]
  BY <1>5, SubSeqProperties
<1>7. Len(SubSeq(order, 1, m)) = m
  BY <1>6
<1>8. \A i \in 1 .. m : SubSeq(order, 1, m)[i] = order[i]
  BY <1>6
<1>9. DOMAIN SubSeq(order, 1, m) = 1 .. m
  BY <1>6, <1>7, LenProperties
<1>10. QED
  BY <1>3, <1>4, <1>5, <1>6, <1>7, <1>8, <1>9 DEF Begins
-----------------------------------------------------------------------------
(***************************************************************************)
(* The impact of a change.                                                 *)
(***************************************************************************)
LEMMA LeadsFromTarget ==
  ASSUME NEW files, NEW targets, NEW f \in DOMAIN files
  PROVE  Leads(files, f, targets, 0) <=> f \in targets
<1>1. ASSUME f \in targets
      PROVE  Leads(files, f, targets, 0)
  <2> DEFINE path == [i \in 0 .. 0 |-> f]
  <2>1. path \in [0 .. 0 -> DOMAIN files] /\ path[0] = f
    OBVIOUS
  <2> HIDE DEF path
  <2>2. QED
    BY <1>1, <2>1 DEF Leads
<1>2. QED
  BY <1>1 DEF Leads

\* A way of k + 1 imports begins with one of them.
LEMMA LeadsOn ==
  ASSUME NEW files, NEW targets, NEW f \in DOMAIN files, NEW k \in Nat
  PROVE  Leads(files, f, targets, k + 1) <=>
           \E g \in DOMAIN files :
             f \in Importers(files, g) /\ Leads(files, g, targets, k)
<1>1. ASSUME Leads(files, f, targets, k + 1)
      PROVE  \E g \in DOMAIN files :
               f \in Importers(files, g) /\ Leads(files, g, targets, k)
  <2>1. PICK path \in [0 .. k + 1 -> DOMAIN files] :
          /\ path[0] = f
          /\ path[k + 1] \in targets
          /\ \A i \in 0 .. k : path[i] \in Importers(files, path[i + 1])
    BY <1>1 DEF Leads
  <2> DEFINE rest == [i \in 0 .. k |-> path[i + 1]]
  <2>2. rest \in [0 .. k -> DOMAIN files]
    BY <2>1
  <2>3. /\ rest[0] = path[1] /\ rest[k] \in targets
        /\ \A i \in 0 .. k - 1 : rest[i] \in Importers(files, rest[i + 1])
    BY <2>1
  <2>4. path[1] \in DOMAIN files /\ f \in Importers(files, path[1])
    BY <2>1
  <2> HIDE DEF rest
  <2>5. Leads(files, path[1], targets, k)
    BY <2>2, <2>3 DEF Leads
  <2>6. QED
    BY <2>4, <2>5
<1>2. ASSUME NEW g \in DOMAIN files, f \in Importers(files, g),
             Leads(files, g, targets, k)
      PROVE  Leads(files, f, targets, k + 1)
  <2>1. PICK path \in [0 .. k -> DOMAIN files] :
          /\ path[0] = g
          /\ path[k] \in targets
          /\ \A i \in 0 .. k - 1 : path[i] \in Importers(files, path[i + 1])
    BY <1>2 DEF Leads
  <2> DEFINE longer == [i \in 0 .. k + 1 |-> IF i = 0 THEN f ELSE path[i - 1]]
  <2>2. longer \in [0 .. k + 1 -> DOMAIN files]
    BY <2>1
  <2>3. /\ longer[0] = f /\ longer[k + 1] \in targets
        /\ \A i \in 0 .. k : longer[i] \in Importers(files, longer[i + 1])
    <3>1. longer[0] = f /\ longer[k + 1] = path[k] /\ longer[1] = g
      BY <2>1
    <3>2. ASSUME NEW i \in 0 .. k
          PROVE  longer[i] \in Importers(files, longer[i + 1])
      <4>1. CASE i = 0
        BY <1>2, <3>1, <4>1
      <4>2. CASE i # 0
        <5>1. i - 1 \in 0 .. k - 1 /\ longer[i] = path[i - 1]
              /\ longer[i + 1] = path[(i - 1) + 1]
          BY <4>2
        <5>2. QED
          BY <2>1, <5>1
      <4>3. QED
        BY <4>1, <4>2
    <3>3. QED
      BY <2>1, <3>1, <3>2
  <2> HIDE DEF longer
  <2>4. QED
    BY <2>2, <2>3 DEF Leads
<1>3. QED
  BY <1>1, <1>2

\* The files that import one of S.
ImportersOf(files, S) == UNION {Importers(files, f) : f \in S}

\* The files at the next distance are the importers of those at this distance
\* that are at no smaller one.
LEMMA NextDistance ==
  ASSUME NEW files, NEW targets, NEW k \in Nat
  PROVE  Distant(files, targets, k + 1) =
           ImportersOf(files, Distant(files, targets, k))
             \ UNION {Distant(files, targets, i) : i \in 0 .. k}
<1> DEFINE D(i) == Distant(files, targets, i)
           L(f, i) == Leads(files, f, targets, i)
<1>1. \A i \in Nat : \A f : f \in D(i) <=>
        /\ f \in DOMAIN files /\ L(f, i)
        /\ \A j \in 0 .. i - 1 : ~L(f, j)
  BY DEF Distant
<1>2. \A g : Importers(files, g) \subseteq DOMAIN files
  BY DEF Importers
<1>3. \A f \in DOMAIN files : \A i \in Nat :
        L(f, i + 1) <=> \E g \in DOMAIN files : f \in Importers(files, g) /\ L(g, i)
  BY LeadsOn
<1> HIDE DEF D, L
<1>4. ASSUME NEW f \in D(k + 1)
      PROVE  \E g \in D(k) : f \in Importers(files, g)
  <2>1. PICK g \in DOMAIN files : f \in Importers(files, g) /\ L(g, k)
    BY <1>1, <1>3
  <2>2. ASSUME NEW j \in 0 .. k - 1, L(g, j)
        PROVE  FALSE
    <3>1. j \in Nat /\ j + 1 \in 0 .. (k + 1) - 1 /\ f \in DOMAIN files
      BY <1>1
    <3>2. L(f, j + 1)
      BY <1>3, <2>1, <2>2, <3>1
    <3>3. QED
      BY <1>1, <3>1, <3>2
  <2>3. QED
    BY <1>1, <2>1, <2>2
<1>5. ASSUME NEW f \in D(k + 1), NEW i \in 0 .. k
      PROVE  f \notin D(i)
  BY <1>1
<1>6. ASSUME NEW g \in D(k), NEW f \in Importers(files, g),
             \A i \in 0 .. k : f \notin D(i)
      PROVE  f \in D(k + 1)
  <2>1. f \in DOMAIN files /\ L(f, k + 1)
    BY <1>1, <1>2, <1>3
  <2>2. ASSUME NEW j \in 0 .. k, L(f, j)
        PROVE  FALSE
    <3> DEFINE T == {i \in Nat : L(f, i)}
    <3>1. j \in T /\ T \subseteq Nat
      BY <2>2
    <3>2. PICK i \in T : \A m \in T : i <= m
      <4> HIDE DEF T
      <4> QED
        BY <3>1, LeastNumber
    <3>3. i \in 0 .. k
      BY <3>1, <3>2
    <3>4. \A m \in 0 .. i - 1 : ~L(f, m)
      BY <3>2
    <3>5. f \in D(i)
      BY <1>1, <2>1, <3>2, <3>4
    <3>6. QED
      BY <1>6, <3>3, <3>5
  <2>3. \A j \in 0 .. (k + 1) - 1 : ~L(f, j)
    BY <2>2
  <2>4. QED
    BY <1>1, <2>1, <2>3
<1>7. D(k + 1) = ImportersOf(files, D(k)) \ UNION {D(i) : i \in 0 .. k}
  BY <1>4, <1>5, <1>6 DEF ImportersOf
<1>8. QED
  BY <1>7 DEF D

\* Where nobody is at some distance, nobody is at a greater one.
LEMMA NobodyBeyond ==
  ASSUME NEW files, NEW targets, NEW k \in Nat, NEW m \in Nat, k <= m,
         Distant(files, targets, k) = {}
  PROVE  Distant(files, targets, m) = {}
<1> DEFINE S == {d \in Nat : Distant(files, targets, k + d) = {}}
<1>1. 0 \in S
  OBVIOUS
<1>2. ASSUME NEW d \in Nat, d \in S
      PROVE  d + 1 \in S
  <2>1. Distant(files, targets, (k + d) + 1) = {}
    BY <1>2, NextDistance DEF ImportersOf
  <2>2. QED
    BY <2>1
<1>3. m - k \in S
  <2> HIDE DEF S
  <2> QED
    BY <1>1, <1>2, AllNumbers
<1>4. QED
  BY <1>3

LEMMA NextLayerIs ==
  ASSUME NEW files, NEW layers \in Seq(SUBSET DOMAIN files)
  PROVE  LET seen == UNION {layers[i] : i \in 1 .. Len(layers)}
             next == ImportersOf(files, Last(layers)) \ seen
         IN  /\ NextLayer(files, layers) =
                  IF next = {} THEN layers ELSE Append(layers, next)
             /\ NextLayer(files, layers) \in Seq(SUBSET DOMAIN files)
<1> DEFINE seen == UNION {layers[i] : i \in 1 .. Len(layers)}
           next == ImportersOf(files, Last(layers)) \ seen
<1>1. (UNION {Importers(files, f) : f \in Last(layers)}) \ UNION ToSet(layers)
        = next
  <2>1. ToSet(layers) = {layers[i] : i \in 1 .. Len(layers)}
    BY LenProperties DEF ToSet
  <2>2. UNION ToSet(layers) = seen
    BY <2>1
  <2>3. UNION {Importers(files, f) : f \in Last(layers)}
          = ImportersOf(files, Last(layers))
    BY DEF ImportersOf
  <2> HIDE DEF seen
  <2>4. QED
    BY <2>2, <2>3
<1>2. NextLayer(files, layers) =
        IF next = {} THEN layers ELSE Append(layers, next)
  <2> HIDE DEF next
  <2> QED
    BY <1>1 DEF NextLayer
<1>3. next \in SUBSET DOMAIN files
  BY DEF ImportersOf, Importers
<1> HIDE DEF next
<1>4. Append(layers, next) \in Seq(SUBSET DOMAIN files)
  BY <1>3
<1>5. QED
  BY <1>2, <1>4 DEF next

LEMMA LayersRun ==
  ASSUME NEW files, NEW targets, targets \subseteq DOMAIN files, Depth \in Nat
  PROVE  LET layers == Layers(files, targets) IN
         /\ layers \in [0 .. Depth -> Seq(SUBSET DOMAIN files)]
         /\ layers[0] = <<targets>>
         /\ \A n \in 0 .. Depth - 1 : layers[n + 1] = NextLayer(files, layers[n])
<1> DEFINE S == Seq(SUBSET DOMAIN files)
           h == [n \in 1 .. Depth |-> [s \in S |-> NextLayer(files, s)]]
<1>1. \A s \in S : NextLayer(files, s) \in S
  BY NextLayerIs
<1>2. PICK a : a = <<targets>> /\ a \in S
  <2>1. <<targets>> \in S
    OBVIOUS
  <2>2. QED
    BY <2>1
<1> DEFINE Goes(f) == f = [n \in 0 .. Depth |->
             IF n = 0 THEN a ELSE NextLayer(files, f[n - 1])]
<1>3. h \in [1 .. Depth -> [S -> S]]
  BY <1>1
<1>4. \A n \in 1 .. Depth : \A s \in S : h[n][s] = NextLayer(files, s)
  OBVIOUS
<1> HIDE DEF S, h
<1>5. PICK f \in [0 .. Depth -> S] : IsRun(f, Depth, a, h)
  BY <1>2, <1>3, LoopRuns
<1>6. \A n \in 0 .. Depth :
        n # 0 => n \in 1 .. Depth /\ f[n - 1] \in S
  BY <1>5
<1>7. Goes(f)
  <2>1. \A n \in 0 .. Depth :
          f[n] = IF n = 0 THEN a ELSE NextLayer(files, f[n - 1])
    BY <1>4, <1>5, <1>6 DEF IsRun
  <2>2. QED
    BY <1>5, <2>1
<1> DEFINE layers == Layers(files, targets)
<1>8. Goes(layers)
  <2>1. layers = CHOOSE g : Goes(g)
    BY <1>2 DEF Layers
  <2> HIDE DEF Goes, layers
  <2>2. QED
    BY <1>7, <2>1
<1> HIDE DEF layers
<1>9. layers[0] = a
  BY <1>8
<1>10. ASSUME NEW n \in 0 .. Depth - 1
       PROVE  layers[n + 1] = NextLayer(files, layers[n])
  <2>1. n + 1 \in 0 .. Depth /\ n + 1 # 0 /\ (n + 1) - 1 = n
    OBVIOUS
  <2>2. layers[n + 1] = NextLayer(files, layers[(n + 1) - 1])
    BY <1>8, <2>1
  <2>3. QED
    BY <2>1, <2>2
<1>11. layers \in [0 .. Depth -> S]
  <2> DEFINE T == {n \in 0 .. Depth : layers[n] \in S}
  <2>1. 0 \in T
    BY <1>2, <1>9
  <2>2. \A n \in 0 .. Depth - 1 : n \in T => n + 1 \in T
    BY <1>1, <1>10
  <2>3. 0 .. Depth \subseteq T
    <3> HIDE DEF T
    <3> QED
      BY <2>1, <2>2, NumbersUpTo
  <2>4. layers = [n \in 0 .. Depth |-> layers[n]]
    BY <1>8
  <2>5. QED
    BY <2>3, <2>4
<1>12. QED
  BY <1>2, <1>9, <1>10, <1>11 DEF layers, S

\* After n rounds: the files at each distance, until nobody is left.
InLayers(files, targets, n, layers) ==
  /\ layers \in Seq(SUBSET DOMAIN files)
  /\ Len(layers) \in 1 .. n + 1
  /\ \A i \in 1 .. Len(layers) : layers[i] = Distant(files, targets, i - 1)
  /\ Len(layers) = n + 1 \/ Distant(files, targets, Len(layers)) = {}

LEMMA LayersAreDistances ==
  ASSUME NEW files, NEW targets, targets \subseteq DOMAIN files, Depth \in Nat,
         NEW n \in 0 .. Depth
  PROVE  InLayers(files, targets, n, Layers(files, targets)[n])
<1> DEFINE layers == Layers(files, targets)
           D(k) == Distant(files, targets, k)
           T == {k \in 0 .. Depth : InLayers(files, targets, k, layers[k])}
<1>1. 0 \in T
  <2>1. layers[0] = <<targets>>
    BY LayersRun
  <2>2. D(0) = targets
    BY LeadsFromTarget DEF Distant
  <2>3. InLayers(files, targets, 0, <<targets>>)
    BY <2>2 DEF InLayers
  <2>4. QED
    BY <2>1, <2>3
<1>2. ASSUME NEW k \in 0 .. Depth - 1, k \in T
      PROVE  k + 1 \in T
  <2>1. PICK l \in Seq(SUBSET DOMAIN files) :
          l = layers[k] /\ InLayers(files, targets, k, l)
    BY <1>2 DEF InLayers
  <2>2. PICK m \in Nat : m = Len(l) /\ m \in 1 .. k + 1
    BY <2>1 DEF InLayers
  <2>3. \A i \in 1 .. m : l[i] = D(i - 1)
    BY <2>1, <2>2 DEF InLayers
  <2>4. m = k + 1 \/ D(m) = {}
    BY <2>1, <2>2 DEF InLayers
  <2>5. layers[k + 1] = NextLayer(files, l)
    BY <2>1, LayersRun
  <2>6. layers[k + 1] = IF D(m) = {} THEN l ELSE Append(l, D(m))
    <3>1. Last(l) = D(m - 1)
      BY <2>2, <2>3 DEF Last
    <3>2. {l[i] : i \in 1 .. Len(l)} = {D(i) : i \in 0 .. m - 1}
      <4>1. \A i \in 0 .. m - 1 : i + 1 \in 1 .. m /\ l[i + 1] = D(i)
        BY <2>3
      <4>2. \A i \in 1 .. m : i - 1 \in 0 .. m - 1 /\ l[i] = D(i - 1)
        BY <2>3
      <4>3. QED
        BY <2>2, <4>1, <4>2
    <3>3. D((m - 1) + 1) =
            ImportersOf(files, D(m - 1)) \ UNION {D(i) : i \in 0 .. m - 1}
      BY <2>2, NextDistance
    <3>4. (m - 1) + 1 = m
      OBVIOUS
    <3> HIDE DEF D
    <3>5. QED
      BY <2>5, <3>1, <3>2, <3>3, <3>4, NextLayerIs
  <2>7. InLayers(files, targets, k + 1, layers[k + 1])
    <3>1. CASE D(m) = {}
      BY <2>2, <2>3, <2>6, <3>1 DEF InLayers
    <3>2. CASE D(m) # {}
      <4>1. D(m) \in SUBSET DOMAIN files /\ m = k + 1
        BY <2>4, <3>2 DEF Distant
      <4> DEFINE longer == Append(l, D(m))
      <4>2. /\ longer \in Seq(SUBSET DOMAIN files) /\ Len(longer) = m + 1
            /\ \A i \in 1 .. m : longer[i] = l[i]
            /\ longer[m + 1] = D(m)
        <5>1. PICK e \in SUBSET DOMAIN files : e = D(m)
          BY <4>1
        <5> HIDE DEF D
        <5>2. /\ Append(l, e) \in Seq(SUBSET DOMAIN files)
              /\ Len(Append(l, e)) = Len(l) + 1
              /\ \A i \in 1 .. Len(l) : Append(l, e)[i] = l[i]
              /\ Append(l, e)[Len(l) + 1] = e
          BY AppendProperties
        <5>3. QED
          BY <2>2, <5>1, <5>2
      <4> HIDE DEF longer, D
      <4>3. \A i \in 1 .. m + 1 : longer[i] = D(i - 1)
        <5>1. ASSUME NEW i \in 1 .. m + 1
              PROVE  longer[i] = D(i - 1)
          <6>1. CASE i \in 1 .. m
            BY <2>3, <4>2, <6>1
          <6>2. CASE i = m + 1
            <7>1. i - 1 = m
              BY <6>2
            <7>2. QED
              BY <4>2, <6>2, <7>1
          <6>3. QED
            BY <6>1, <6>2
        <5>2. QED
          BY <5>1
      <4>4. layers[k + 1] = longer
        BY <2>6, <3>2 DEF longer
      <4>5. QED
        BY <4>1, <4>2, <4>3, <4>4 DEF InLayers, D
    <3>3. QED
      BY <3>1, <3>2
  <2>8. QED
    BY <2>7
<1>3. 0 .. Depth \subseteq T
  <2> HIDE DEF T
  <2> QED
    BY <1>1, <1>2, NumbersUpTo
<1>4. QED
  BY <1>3

LEMMA ImpactLayersAre ==
  ASSUME NEW files, NEW targets, targets \subseteq DOMAIN files,
         NEW depth \in Int
  PROVE  LET layers == ImpactLayers(files, targets, depth)
             deepest == Clamped(depth, 0, Depth)
         IN  /\ layers \in Seq(SUBSET DOMAIN files)
             /\ deepest \in Nat /\ Len(layers) \in 0 .. deepest
             /\ \A k \in 1 .. deepest :
                  IF k <= Len(layers)
                  THEN layers[k] = Distant(files, targets, k)
                  ELSE Distant(files, targets, k) = {}
<1> DEFINE layers == ImpactLayers(files, targets, depth)
           deepest == Clamped(depth, 0, Depth)
           D(k) == Distant(files, targets, k)
<1>1. Depth \in Nat
  BY LimitsAssumption
<1>2. deepest \in 0 .. Depth
  BY <1>1, ClampedIs
<1>3. PICK l \in Seq(SUBSET DOMAIN files) :
        /\ l = Layers(files, targets)[deepest]
        /\ InLayers(files, targets, deepest, l)
  BY <1>1, <1>2, LayersAreDistances DEF InLayers
<1>4. PICK m \in Nat : m = Len(l) /\ m \in 1 .. deepest + 1
  BY <1>2, <1>3 DEF InLayers
<1>5. \A i \in 1 .. m : l[i] = D(i - 1)
  BY <1>3, <1>4 DEF InLayers
<1>6. m = deepest + 1 \/ D(m) = {}
  BY <1>3, <1>4 DEF InLayers
<1>7. layers = Tail(l)
  BY <1>3 DEF ImpactLayers
<1> HIDE DEF layers, deepest, D
<1>8. /\ layers \in Seq(SUBSET DOMAIN files)
      /\ Len(layers) = m - 1
      /\ \A i \in 1 .. m - 1 : layers[i] = l[i + 1]
  <2>1. l # <<>>
    BY <1>4
  <2>2. /\ Tail(l) \in Seq(SUBSET DOMAIN files)
        /\ Len(Tail(l)) = Len(l) - 1
        /\ \A i \in 1 .. Len(Tail(l)) : Tail(l)[i] = l[i + 1]
    BY <2>1, HeadTailProperties
  <2>3. QED
    BY <1>4, <1>7, <2>2
<1>9. Len(layers) \in 0 .. deepest /\ deepest \in Nat
  BY <1>1, <1>2, <1>4, <1>8
<1>10. ASSUME NEW k \in 1 .. deepest
       PROVE  IF k <= Len(layers) THEN layers[k] = D(k) ELSE D(k) = {}
  <2>1. CASE k <= m - 1
    <3>1. k + 1 \in 1 .. m /\ (k + 1) - 1 = k /\ k \in 1 .. m - 1
      BY <1>9, <2>1
    <3>2. l[k + 1] = D((k + 1) - 1)
      BY <1>5, <3>1
    <3>3. QED
      BY <1>8, <2>1, <3>1, <3>2
  <2>2. CASE ~(k <= m - 1)
    <3>1. k \in Nat /\ m <= k /\ m # deepest + 1
      BY <1>9, <2>2
    <3>2. D(k) = {}
      BY <1>6, <3>1, NobodyBeyond DEF D
    <3>3. QED
      BY <1>8, <2>2, <3>2
  <2>3. QED
    BY <2>1, <2>2
<1>11. QED
  BY <1>8, <1>9, <1>10 DEF layers, deepest, D

LEMMA FilesCanBeRanked ==
  ASSUME NEW r \in Repositories, NEW S \in SUBSET DOMAIN r.files
  PROVE  Rankable(r.rank, S)
<1>1. r.files \in Seq(FileFacts) /\ r.rank \in [DOMAIN r.files -> Nat]
  BY RepositoriesAssumption
<1>2. DOMAIN r.files = 1 .. Len(r.files) /\ Len(r.files) \in Nat
  BY <1>1, LenProperties
<1>3. IsFiniteSet(DOMAIN r.files) /\ DOMAIN r.files \subseteq Int
  BY <1>2, FS_Interval
<1>4. IsFiniteSet(S)
  BY <1>3, FS_Subset
<1>5. QED
  BY <1>1, <1>3, <1>4 DEF Rankable

LEMMA ImpactAnswered == AskImpact => ImpactIsExact'
<1> SUFFICES ASSUME AskImpact
             PROVE  ImpactIsExact'
  OBVIOUS
<1>1. PICK r \in Repositories, target \in Names, depth \in Numbers :
        /\ question' = [about |-> "impact", files |-> r.files, target |-> target,
                        depth |-> depth]
        /\ answer' = ImpactAnalysis(r.files, r.rank, target, depth)
  BY DEF AskImpact
<1> DEFINE T == TargetFiles(r.files, target)
           layers == ImpactLayers(r.files, T, depth)
           deepest == Clamped(depth, 0, Depth)
           D(k) == Distant(r.files, T, k)
           lists == [i \in DOMAIN layers |-> Ranked(r.rank, layers[i])]
<1>2. /\ question'.files = r.files /\ question'.depth = depth
      /\ answer'.matched = T /\ answer'.layers = lists
      /\ answer'.impacted = UNION ToSet(layers)
  BY <1>1 DEF ImpactAnalysis
<1>3. T \subseteq DOMAIN r.files /\ depth \in Int
  BY LimitsAssumption DEF TargetFiles
<1>4. /\ layers \in Seq(SUBSET DOMAIN r.files)
      /\ deepest \in Nat /\ Len(layers) \in 0 .. deepest
      /\ \A k \in 1 .. deepest :
           IF k <= Len(layers) THEN layers[k] = D(k) ELSE D(k) = {}
  BY <1>3, ImpactLayersAre
<1> HIDE DEF layers, deepest, D, T
<1>5. DOMAIN layers = 1 .. Len(layers)
  BY <1>4, LenProperties
<1>6. DOMAIN lists = 1 .. Len(layers) /\ Len(lists) = Len(layers)
  BY <1>4, <1>5
<1>7. ASSUME NEW i \in 1 .. Len(layers)
      PROVE  ToSet(lists[i]) = layers[i]
  <2>1. layers[i] \in SUBSET DOMAIN r.files
    BY <1>4, ElementOfSeq
  <2>2. PICK S \in SUBSET DOMAIN r.files : S = layers[i]
    BY <2>1
  <2> DEFINE N == Cardinality(S)
             order == Ranked(r.rank, S)
  <2>3. Rankable(r.rank, S)
    BY FilesCanBeRanked
  <2>4. /\ order \in [1 .. N -> S]
        /\ \A m \in S : \E j \in 1 .. N : order[j] = m
    <3> HIDE DEF order, N
    <3> QED
      BY <2>3, RankedInOrder DEF order, N
  <2> HIDE DEF order, N
  <2>5. ToSet(order) = S
    BY <2>4 DEF ToSet
  <2>6. QED
    BY <1>5, <2>2, <2>5 DEF order
<1> HIDE DEF lists
<1>8. ASSUME NEW k \in 1 .. deepest
      PROVE  (IF k \in DOMAIN lists THEN ToSet(lists[k]) ELSE {}) = D(k)
  BY <1>4, <1>6, <1>7
<1>9. UNION ToSet(layers) = UNION {D(k) : k \in 1 .. deepest}
  <2>1. UNION ToSet(layers) = UNION {layers[i] : i \in 1 .. Len(layers)}
    BY <1>5 DEF ToSet
  <2>2. \A k \in 1 .. Len(layers) : k \in 1 .. deepest /\ layers[k] = D(k)
    BY <1>4
  <2>3. \A k \in 1 .. deepest : k \in 1 .. Len(layers) \/ D(k) = {}
    BY <1>4
  <2>4. QED
    BY <2>1, <2>2, <2>3
<1>10. Len(lists) <= deepest
  BY <1>4, <1>6
<1>11. QED
  BY <1>2, <1>8, <1>9, <1>10 DEF ImpactIsExact, deepest, D

(***************************************************************************)
(* In every repository, over cycles and files of the same name, an impact  *)
(* analysis reports each file once and at its distance in the graph of     *)
(* imports, as deep as was asked for and allowed (code_index.py:610-636).  *)
(***************************************************************************)
THEOREM ImpactsAreExact == Spec => []ImpactIsExact
<1>1. Init => ImpactIsExact
  BY DEF Init, ImpactIsExact
<1>2. ImpactIsExact /\ [Next]_vars => ImpactIsExact'
  <2>1. AskSearch \/ AskSkills => ImpactIsExact'
    BY DEF AskSearch, AskSkills, ImpactIsExact
  <2>2. UNCHANGED vars /\ ImpactIsExact => ImpactIsExact'
    BY DEF vars, ImpactIsExact
  <2>3. QED
    BY <2>1, <2>2, ImpactAnswered DEF Next
<1>3. QED
  BY <1>1, <1>2, PTL DEF Spec
-----------------------------------------------------------------------------
\* What a file scores tells whether it mentions, defines or merely alludes to
\* what is asked for.
LEMMA PointsAre ==
  ASSUME NEW file \in FileFacts, NEW query \in Names
  PROVE  /\ Points(file, query) \in Nat
         /\ Points(file, query) > 0 <=> Mentions(file, query)
         /\ query \in ToSet(file.symbols) => Points(file, query) >= 15
         /\ /\ ~In(query, file.stem)
            /\ \A s \in ToSet(file.symbols) : ~In(query, s)
            => Points(file, query) <= 6
<1> DEFINE places == DOMAIN file.symbols
           E == {i \in places : file.symbols[i] = query}
           A == {i \in places :
                   file.symbols[i] # query /\ In(query, file.symbols[i])}
<1>1. file.symbols \in Seq(Names)
  BY DEF FileFacts
<1>2. places = 1 .. Len(file.symbols) /\ Len(file.symbols) \in Nat
  BY <1>1, LenProperties
<1>3. IsFiniteSet(places)
  BY <1>2, FS_Interval
<1>4. IsFiniteSet(E) /\ IsFiniteSet(A)
  BY <1>3, FS_Subset
<1>5. /\ Cardinality(E) \in Nat /\ (Cardinality(E) = 0 <=> E = {})
      /\ Cardinality(A) \in Nat /\ (Cardinality(A) = 0 <=> A = {})
  BY <1>4, FS_CardinalityType, FS_EmptySet
<1>6. /\ E # {} <=> query \in ToSet(file.symbols)
      /\ E # {} \/ A # {} <=> \E s \in ToSet(file.symbols) : In(query, s)
  BY DEF ToSet, In
<1>7. Points(file, query) =
        If(In(query, file.stem), 8) + If(query = file.stem, 8)
        + 15 * Cardinality(E) + 7 * Cardinality(A)
        + If(\E i \in file.imports : In(query, i), 4)
        + If(\E w \in file.preview : In(query, w), 2)
  BY DEF Points, Occurrences
<1>8. query = file.stem => In(query, file.stem)
  BY DEF In
<1>9. Mentions(file, query) <=>
        \/ In(query, file.stem)
        \/ \E s \in ToSet(file.symbols) : In(query, s)
        \/ \E i \in file.imports : In(query, i)
        \/ \E w \in file.preview : In(query, w)
  BY DEF Mentions
<1> HIDE DEF E, A
<1> DEFINE e == Cardinality(E)
           a == Cardinality(A)
<1>10. e \in Nat /\ a \in Nat /\ (e = 0 <=> E = {}) /\ (a = 0 <=> A = {})
  BY <1>5
<1>11. Points(file, query) =
         If(In(query, file.stem), 8) + If(query = file.stem, 8)
         + 15 * e + 7 * a
         + If(\E i \in file.imports : In(query, i), 4)
         + If(\E w \in file.preview : In(query, w), 2)
  BY <1>7
<1> HIDE DEF e, a
<1>12. QED
  BY <1>6, <1>8, <1>9, <1>10, <1>11 DEF If

LEMMA SearchAnswered == AskSearch => SearchFindsDefinitions'
<1> SUFFICES ASSUME AskSearch
             PROVE  SearchFindsDefinitions'
  OBVIOUS
<1>1. PICK r \in Repositories, query \in Names, limit \in Numbers :
        /\ question' = [about |-> "search", repository |-> r, query |-> query,
                        limit |-> limit]
        /\ answer' = Search(r.files, r.rank, query, limit)
  BY DEF AskSearch
<1> DEFINE files == r.files
           hits == {f \in DOMAIN files : Points(files[f], query) > 0}
           mentioning == {f \in DOMAIN files : Mentions(files[f], query)}
           score == [f \in hits |-> 5 * r.rank[f] + Points(files[f], query)]
           n == Clamped(limit, 1, Limit)
           N == Cardinality(hits)
           order == Ranked(score, hits)
           L == Len(answer')
           defines(f) == query \in ToSet(files[f].symbols)
           alludes(f) == /\ ~In(query, files[f].stem)
                         /\ \A s \in ToSet(files[f].symbols) : ~In(query, s)
<1>2. answer' = First(n, order)
  BY <1>1 DEF Search
<1>3. /\ files \in Seq(FileFacts) /\ r.rank \in [DOMAIN files -> Nat]
      /\ DOMAIN files = 1 .. Len(files) /\ Len(files) \in Nat
  BY RepositoriesAssumption, LenProperties
<1>4. \A f \in DOMAIN files : files[f] \in FileFacts
  BY <1>3, ElementOfSeq
<1>5. ASSUME NEW f \in DOMAIN files
      PROVE  /\ Points(files[f], query) \in Nat
             /\ Points(files[f], query) > 0 <=> Mentions(files[f], query)
             /\ defines(f) => Points(files[f], query) >= 15
             /\ alludes(f) => Points(files[f], query) <= 6
  <2>1. PICK file \in FileFacts : file = files[f]
    BY <1>4
  <2>2. QED
    BY <2>1, PointsAre
<1>6. hits = mentioning
  BY <1>5
<1>7. \A f \in hits : score[f] \in Nat
  BY <1>3, <1>5
<1>8. Rankable(score, hits)
  <2>1. IsFiniteSet(hits)
    <3>1. IsFiniteSet(DOMAIN files)
      BY <1>3, FS_Interval
    <3>2. hits \in SUBSET DOMAIN files
      OBVIOUS
    <3>3. QED
      BY <3>1, <3>2, FS_Subset
  <2>2. hits \subseteq Int
    BY <1>3
  <2> HIDE DEF score, hits
  <2>3. QED
    BY <1>7, <2>1, <2>2 DEF Rankable
<1>9. n \in Nat /\ limit \in Int
  <2>1. limit \in Int /\ Limit \in Int /\ 1 <= Limit
    BY LimitsAssumption
  <2>2. n \in 1 .. Limit
    <3>1. PICK low \in Int, high \in Int : low = 1 /\ high = Limit
      BY <2>1
    <3>2. Clamped(limit, low, high) \in low .. high
      BY <2>1, <3>1, ClampedIs
    <3>3. QED
      BY <3>1, <3>2
  <2> HIDE DEF n
  <2>3. QED
    BY <2>1, <2>2
<1>10. ASSUME NEW f \in hits, NEW g \in hits, defines(f), alludes(g),
              r.rank[f] >= r.rank[g]
       PROVE  Ahead(score, f, g)
  <2>1. score[f] >= 5 * r.rank[f] + 15 /\ score[g] <= 5 * r.rank[g] + 6
    <3>1. /\ Points(files[f], query) \in Nat /\ Points(files[f], query) >= 15
          /\ Points(files[g], query) \in Nat /\ Points(files[g], query) <= 6
      BY <1>5, <1>10
    <3>2. /\ score[f] = 5 * r.rank[f] + Points(files[f], query)
          /\ score[g] = 5 * r.rank[g] + Points(files[g], query)
      OBVIOUS
    <3>3. r.rank[f] \in Nat /\ r.rank[g] \in Nat
      BY <1>3
    <3> HIDE DEF score
    <3>4. QED
      BY <3>1, <3>2, <3>3
  <2>2. /\ r.rank[f] \in Nat /\ r.rank[g] \in Nat
        /\ score[f] \in Nat /\ score[g] \in Nat
    BY <1>3, <1>7
  <2> HIDE DEF score, hits
  <2>3. score[f] > score[g]
    BY <1>10, <2>1, <2>2
  <2>4. QED
    BY <2>3 DEF Ahead
<1> HIDE DEF score, hits, n, defines, alludes
<1>11. /\ N \in Nat /\ order \in [1 .. N -> hits]
       /\ \A i, j \in 1 .. N : i < j => Ahead(score, order[i], order[j])
       /\ \A i, j \in 1 .. N : order[i] = order[j] => i = j
       /\ \A m \in hits : \E i \in 1 .. N : order[i] = m
  BY <1>8, RankedInOrder
<1> HIDE DEF order, N
<1>12. /\ L = Min({N, n}) /\ L = (IF N < n THEN N ELSE n)
       /\ DOMAIN answer' = 1 .. L
       /\ \A i \in 1 .. L : i \in 1 .. N /\ answer'[i] = order[i]
  <2>1. Begins(First(n, order), order, hits, N, n)
    BY <1>9, <1>11, FirstIs
  <2>2. QED
    BY <1>2, <2>1 DEF Begins
<1> HIDE DEF L
<1>13. L \in Nat
  BY <1>9, <1>11, <1>12
<1> DEFINE inAnswer == ToSet(answer')
<1>14. inAnswer = {order[i] : i \in 1 .. L}
  BY <1>12 DEF ToSet
<1>15. inAnswer \subseteq hits
  BY <1>11, <1>12, <1>14
<1>16. Cardinality(inAnswer) = L
  <2> DEFINE listed == [i \in 1 .. L |-> order[i]]
  <2>1. listed \in Bijection(1 .. L, inAnswer)
    <3>1. listed \in [1 .. L -> inAnswer]
      BY <1>14
    <3>2. \A i, j \in 1 .. L : listed[i] = listed[j] => i = j
      BY <1>11, <1>12
    <3>3. \A m \in inAnswer : \E i \in 1 .. L : listed[i] = m
      BY <1>14
    <3> HIDE DEF listed, inAnswer
    <3>4. QED
      BY <3>1, <3>2, <3>3 DEF Bijection, Injection, Surjection, IsInjective
  <2>2. IsFiniteSet(1 .. L) /\ Cardinality(1 .. L) = L
    BY <1>13, FS_Interval
  <2> HIDE DEF listed, inAnswer
  <2>3. QED
    BY <2>1, <2>2, FS_Bijection DEF ExistsBijection
<1> DEFINE place(f) == IF f \in ToSet(answer')
                       THEN CHOOSE i \in DOMAIN answer' : answer'[i] = f
                       ELSE L + 1
<1>17. ASSUME NEW i \in 1 .. N
       PROVE  place(order[i]) = IF i <= L THEN i ELSE L + 1
  <2>1. CASE i <= L
    <3>1. i \in 1 .. L /\ order[i] \in ToSet(answer') /\ answer'[i] = order[i]
      BY <1>12, <1>13, <1>14, <2>1
    <3>2. \A j \in 1 .. L : answer'[j] = order[i] => j = i
      BY <1>11, <1>12
    <3>3. (CHOOSE j \in DOMAIN answer' : answer'[j] = order[i]) = i
      BY <1>12, <3>1, <3>2
    <3>4. QED
      BY <2>1, <3>1, <3>3
  <2>2. CASE ~(i <= L)
    <3>1. order[i] \notin ToSet(answer')
      BY <1>11, <1>12, <1>13, <1>14, <2>2
    <3>2. QED
      BY <2>2, <3>1
  <2>3. QED
    BY <2>1, <2>2
<1>18. ASSUME NEW f \in hits, NEW g \in hits, defines(f), alludes(g),
              r.rank[f] >= r.rank[g]
       PROVE  place(f) <= place(g)
  <2>1. PICK i \in 1 .. N, j \in 1 .. N : order[i] = f /\ order[j] = g
    BY <1>11
  <2>2. ~Ahead(score, g, f) /\ f # g
    <3>1. Ahead(score, f, g)
      BY <1>10, <1>18
    <3>2. QED
      BY <1>8, <3>1, AheadIsAnOrder
  <2>3. i < j
    BY <1>11, <2>1, <2>2
  <2>4. /\ place(f) = (IF i <= L THEN i ELSE L + 1)
        /\ place(g) = (IF j <= L THEN j ELSE L + 1)
    BY <1>17, <2>1
  <2> HIDE DEF place
  <2>5. QED
    BY <1>11, <1>13, <2>3, <2>4
<1>19. /\ question'.repository = r /\ question'.query = query
       /\ question'.limit = limit
  BY <1>1
<1>20. Len(answer') = Min({Cardinality(mentioning), Clamped(limit, 1, Limit)})
  BY <1>6, <1>12 DEF L, N, n
<1>21. \A f, g \in mentioning :
         defines(f) /\ alludes(g) /\ r.rank[f] >= r.rank[g] => place(f) <= place(g)
  <2> HIDE DEF place, mentioning
  <2> QED
    BY <1>6, <1>18
<1>22. inAnswer \subseteq mentioning /\ Cardinality(inAnswer) = Len(answer')
  BY <1>6, <1>15, <1>16 DEF L
<1> HIDE DEF Clamped
<1>23. QED
  BY <1>19, <1>20, <1>21, <1>22
     DEF SearchFindsDefinitions, defines, alludes, L

(***************************************************************************)
(* In every repository, a search returns as many of the files that mention *)
(* the query as there are up to the limit, at least one, none twice, and a *)
(* file that defines the very name never yields to one of no greater rank  *)
(* that merely imports it or shows it (code_index.py:504-549).             *)
(***************************************************************************)
THEOREM SearchesFindDefinitions == Spec => []SearchFindsDefinitions
<1>1. Init => SearchFindsDefinitions
  BY DEF Init, SearchFindsDefinitions
<1>2. SearchFindsDefinitions /\ [Next]_vars => SearchFindsDefinitions'
  <2>1. AskImpact \/ AskSkills => SearchFindsDefinitions'
    BY DEF AskImpact, AskSkills, SearchFindsDefinitions
  <2>2. UNCHANGED vars /\ SearchFindsDefinitions => SearchFindsDefinitions'
    BY DEF vars, SearchFindsDefinitions
  <2>3. QED
    BY <2>1, <2>2, SearchAnswered DEF Next
<1>3. QED
  BY <1>1, <1>2, PTL DEF Spec
-----------------------------------------------------------------------------
(***************************************************************************)
(* The skills in the prompt.                                               *)
(***************************************************************************)
LEMMA GreatestNumber ==
  ASSUME NEW N \in Nat, NEW T, T \subseteq 1 .. N, T # {}
  PROVE  Max(T) \in T /\ \A t \in T : t <= Max(T)
<1> DEFINE U == {n \in Nat : \E t \in T : n = N - t}
<1>1. U # {}
  <2>1. PICK t \in T : t \in 1 .. N
    OBVIOUS
  <2>2. N - t \in U
    BY <2>1
  <2>3. QED
    BY <2>2
<1>2. PICK n \in U : \A m \in U : n <= m
  <2> HIDE DEF U
  <2>1. U \subseteq Nat
    BY DEF U
  <2>2. QED
    BY <1>1, <2>1, LeastNumber
<1>3. PICK g \in T : n = N - g
  BY <1>2
<1>4. \A t \in T : t <= g
  <2> SUFFICES ASSUME NEW t \in T
               PROVE  t <= g
    OBVIOUS
  <2>1. t \in 1 .. N /\ g \in 1 .. N
    OBVIOUS
  <2>2. N - t \in U
    BY <2>1
  <2>3. N - g <= N - t
    BY <1>2, <1>3, <2>2
  <2>4. QED
    BY <2>1, <2>3
<1>5. \E x \in T : \A y \in T : x >= y
  BY <1>4
<1>6. Max(T) \in T /\ \A y \in T : Max(T) >= y
  BY <1>5 DEF Max
<1>7. QED
  <2>1. PICK m \in 1 .. N : m = Max(T)
    BY <1>6
  <2>2. \A t \in T : t \in Int
    OBVIOUS
  <2>3. QED
    BY <1>6, <2>1, <2>2

Sound(scope) == {k \in DOMAIN scope : scope[k].loads}

\* What is kept of a directory: of every name, the last sound file.
Keeps(scope, skills) ==
  /\ skills \in [DOMAIN skills -> SkillFiles]
  /\ DOMAIN skills \subseteq Int /\ IsFiniteSet(DOMAIN skills)
  /\ \A k \in Sound(scope) : scope[k].name \in DOMAIN skills
  /\ \A n \in DOMAIN skills : \E k \in Sound(scope) :
       /\ skills[n] = scope[k] /\ scope[k].name = n
       /\ \A l \in Sound(scope) : scope[l].name = n => l <= k

LEMMA ScanKeeps ==
  ASSUME NEW scope \in Seq(SkillFiles)
  PROVE  Keeps(scope, Scan(scope))
<1> DEFINE N == Len(scope)
           sound == Sound(scope)
           names == {scope[i].name : i \in sound}
           same(n) == {i \in sound : scope[i].name = n}
           skills == [n \in names |-> scope[Max(same(n))]]
<1>1. DOMAIN scope = 1 .. N /\ N \in Nat
  BY LenProperties
<1>2. skills = Scan(scope)
  BY DEF Scan, Sound
<1>3. sound \subseteq 1 .. N
  BY <1>1 DEF Sound
<1>4. \A k \in sound : scope[k] \in SkillFiles
  BY <1>1, <1>3, ElementOfSeq
<1>5. ASSUME NEW n \in names
      PROVE  Max(same(n)) \in same(n) /\ \A l \in same(n) : l <= Max(same(n))
  <2>1. same(n) # {} /\ same(n) \subseteq 1 .. N
    BY <1>3
  <2> HIDE DEF same, names
  <2>2. QED
    BY <1>1, <2>1, GreatestNumber
<1>6. IsFiniteSet(names)
  <2>1. IsFiniteSet(sound)
    <3>1. IsFiniteSet(1 .. N) /\ sound \in SUBSET (1 .. N)
      BY <1>1, <1>3, FS_Interval
    <3>2. QED
      BY <3>1, FS_Subset
  <2> DEFINE name == [i \in sound |-> scope[i].name]
  <2>2. name \in Surjection(sound, names)
    BY DEF Surjection
  <2> HIDE DEF name, names, sound
  <2>3. QED
    BY <2>1, <2>2, FS_Surjection
<1>7. names \subseteq Int
  BY <1>4 DEF SkillFiles
<1>8. DOMAIN skills = names
  OBVIOUS
<1>9. \A n \in names : skills[n] = scope[Max(same(n))]
  OBVIOUS
<1>10. skills \in [names -> SkillFiles]
  BY <1>4, <1>5
<1> HIDE DEF skills
<1>11. ASSUME NEW n \in names
       PROVE  \E k \in sound :
                /\ skills[n] = scope[k] /\ scope[k].name = n
                /\ \A l \in sound : scope[l].name = n => l <= k
  BY <1>5, <1>9
<1>12. QED
  BY <1>2, <1>6, <1>7, <1>8, <1>10, <1>11 DEF Keeps

\* What is kept of the first m scopes: of every name, the last sound file of
\* the last scope that has one.
Gathers(scopes, m, skills) ==
  /\ skills \in [DOMAIN skills -> SkillFiles]
  /\ DOMAIN skills \subseteq Int /\ IsFiniteSet(DOMAIN skills)
  /\ \A i \in 1 .. m : \A k \in Sound(scopes[i]) :
       scopes[i][k].name \in DOMAIN skills
  /\ \A n \in DOMAIN skills : \E i \in 1 .. m : \E k \in Sound(scopes[i]) :
       /\ skills[n] = scopes[i][k] /\ scopes[i][k].name = n
       /\ \A j \in 1 .. m : \A l \in Sound(scopes[j]) :
            scopes[j][l].name = n => j < i \/ (j = i /\ l <= k)

LEMMA GathersOn ==
  ASSUME NEW scopes, NEW m \in Nat, NEW old, NEW new,
         Gathers(scopes, m, old), Keeps(scopes[m + 1], new)
  PROVE  Gathers(scopes, m + 1, Updated(old, new))
<1> DEFINE skills == Updated(old, new)
<1>2. /\ DOMAIN skills = DOMAIN new \cup DOMAIN old
      /\ \A n \in DOMAIN new : skills[n] = new[n]
      /\ \A n \in DOMAIN old \ DOMAIN new : skills[n] = old[n]
  BY DEF Updated
<1>3. skills \in [DOMAIN skills -> SkillFiles]
  BY DEF Gathers, Keeps, Updated
<1> HIDE DEF skills
<1>4. DOMAIN skills \subseteq Int /\ IsFiniteSet(DOMAIN skills)
  <2>1. IsFiniteSet(DOMAIN new) /\ IsFiniteSet(DOMAIN old)
    BY DEF Gathers, Keeps
  <2>2. IsFiniteSet(DOMAIN new \cup DOMAIN old)
    BY <2>1, FS_Union
  <2>3. QED
    BY <1>2, <2>2 DEF Gathers, Keeps
<1>5. ASSUME NEW i \in 1 .. m + 1, NEW k \in Sound(scopes[i])
      PROVE  scopes[i][k].name \in DOMAIN skills
  <2>1. CASE i = m + 1
    BY <1>2, <2>1 DEF Keeps
  <2>2. CASE i \in 1 .. m
    BY <1>2, <2>2 DEF Gathers
  <2>3. QED
    BY <2>1, <2>2
<1>6. ASSUME NEW n \in DOMAIN skills
      PROVE  \E i \in 1 .. m + 1 : \E k \in Sound(scopes[i]) :
               /\ skills[n] = scopes[i][k] /\ scopes[i][k].name = n
               /\ \A j \in 1 .. m + 1 : \A l \in Sound(scopes[j]) :
                    scopes[j][l].name = n => j < i \/ (j = i /\ l <= k)
  <2>1. CASE n \in DOMAIN new
    <3>1. PICK k \in Sound(scopes[m + 1]) :
            /\ new[n] = scopes[m + 1][k] /\ scopes[m + 1][k].name = n
            /\ \A l \in Sound(scopes[m + 1]) :
                 scopes[m + 1][l].name = n => l <= k
      BY <2>1 DEF Keeps
    <3>2. \A j \in 1 .. m + 1 : j < m + 1 \/ j = m + 1
      OBVIOUS
    <3>3. m + 1 \in 1 .. m + 1
      OBVIOUS
    <3>4. QED
      BY <1>2, <2>1, <3>1, <3>2, <3>3
  <2>2. CASE n \notin DOMAIN new
    <3>1. PICK i \in 1 .. m : \E k \in Sound(scopes[i]) :
            /\ old[n] = scopes[i][k] /\ scopes[i][k].name = n
            /\ \A j \in 1 .. m : \A l \in Sound(scopes[j]) :
                 scopes[j][l].name = n => j < i \/ (j = i /\ l <= k)
      BY <1>2, <2>2 DEF Gathers
    <3> PICK k \in Sound(scopes[i]) :
            /\ old[n] = scopes[i][k] /\ scopes[i][k].name = n
            /\ \A j \in 1 .. m : \A l \in Sound(scopes[j]) :
                 scopes[j][l].name = n => j < i \/ (j = i /\ l <= k)
      BY <3>1
    <3>2. \A l \in Sound(scopes[m + 1]) : scopes[m + 1][l].name # n
      BY <2>2 DEF Keeps
    <3>3. \A j \in 1 .. m + 1 : j \in 1 .. m \/ j = m + 1
      OBVIOUS
    <3>4. i \in 1 .. m + 1
      OBVIOUS
    <3>5. QED
      BY <1>2, <2>2, <3>1, <3>2, <3>3, <3>4
  <2>3. QED
    BY <2>1, <2>2
<1>7. QED
  BY <1>3, <1>4, <1>5, <1>6 DEF Gathers, skills

LEMMA DiscoverGathers ==
  ASSUME NEW scopes \in Seq(Seq(SkillFiles))
  PROVE  Gathers(scopes, Len(scopes), Discover(scopes))
<1> DEFINE N == Len(scopes)
           S == UNION {[D -> SkillFiles] : D \in SUBSET Int}
           h == [n \in 1 .. N |-> [f \in S |-> Updated(f, Scan(scopes[n]))]]
           Goes(f) == f = [i \in 0 .. N |-> IF i = 0 THEN <<>>
                                            ELSE Updated(f[i - 1], Scan(scopes[i]))]
<1>1. DOMAIN scopes = 1 .. N /\ N \in Nat
  BY LenProperties
<1>2. ASSUME NEW n \in 1 .. N
      PROVE  Keeps(scopes[n], Scan(scopes[n]))
  <2>1. scopes[n] \in Seq(SkillFiles)
    BY <1>1, ElementOfSeq
  <2>2. QED
    BY <2>1, ScanKeeps
<1>3. <<>> \in S
  <2>1. <<>> \in [{} -> SkillFiles]
    OBVIOUS
  <2>2. QED
    BY <2>1
<1>4. h \in [1 .. N -> [S -> S]]
  <2>1. ASSUME NEW n \in 1 .. N, NEW f \in S
        PROVE  Updated(f, Scan(scopes[n])) \in S
    <3>1. PICK D \in SUBSET Int : f \in [D -> SkillFiles]
      OBVIOUS
    <3> DEFINE new == Scan(scopes[n])
               E == D \cup DOMAIN new
    <3>2. new \in [DOMAIN new -> SkillFiles] /\ E \in SUBSET Int
      BY <1>2 DEF Keeps
    <3> HIDE DEF new
    <3>3. [x \in E |-> IF x \in DOMAIN new THEN new[x] ELSE f[x]]
            \in [E -> SkillFiles]
      BY <3>1, <3>2
    <3>4. Updated(f, new) \in [E -> SkillFiles]
      BY <3>1, <3>3 DEF Updated
    <3>5. Updated(f, new) \in S
      BY <3>2, <3>4
    <3>6. QED
      BY <3>5 DEF new
  <2> HIDE DEF S
  <2>2. QED
    BY <2>1
<1>5. \E f \in [0 .. N -> S] : IsRun(f, N, <<>>, h)
  <2> HIDE DEF S, h
  <2> QED
    BY <1>1, <1>3, <1>4, LoopRuns
<1>6. \E f : Goes(f)
  <2>1. PICK f \in [0 .. N -> S] : IsRun(f, N, <<>>, h)
    BY <1>5
  <2>2. f[0] = <<>>
    BY <2>1 DEF IsRun
  <2>3. ASSUME NEW i \in 1 .. N
        PROVE  f[i] = Updated(f[i - 1], Scan(scopes[i]))
    <3>1. f[i] = h[i][f[i - 1]]
      BY <2>1 DEF IsRun
    <3>2. i - 1 \in 0 .. N
      BY <1>1
    <3>3. f[i - 1] \in S
      BY <2>1, <3>2
    <3> HIDE DEF S
    <3>4. QED
      BY <3>1, <3>3
  <2>4. \A i \in 0 .. N : i = 0 \/ i \in 1 .. N
    BY <1>1
  <2>5. f = [i \in 0 .. N |-> f[i]]
    BY <2>1
  <2>6. Goes(f)
    BY <2>2, <2>3, <2>4, <2>5
  <2>7. QED
    <3> HIDE DEF Goes
    <3> QED
      BY <2>6
<1> DEFINE skills == CHOOSE f : Goes(f)
<1>7. Goes(skills)
  <2> HIDE DEF Goes
  <2> QED
    BY <1>6
<1>8. Discover(scopes) = skills[N]
  BY DEF Discover
<1> HIDE DEF skills
<1> DEFINE T == {m \in 0 .. N : Gathers(scopes, m, skills[m])}
<1>9. 0 \in T
  <2>1. skills[0] = <<>>
    BY <1>1, <1>7
  <2>2. /\ <<>> \in [DOMAIN <<>> -> SkillFiles] /\ DOMAIN <<>> = {}
        /\ IsFiniteSet({})
    BY FS_EmptySet
  <2>3. 1 .. 0 = {}
    OBVIOUS
  <2>4. Gathers(scopes, 0, <<>>)
    BY <2>2, <2>3 DEF Gathers
  <2>5. QED
    BY <1>1, <2>1, <2>4
<1>10. ASSUME NEW m \in 0 .. N - 1, m \in T
       PROVE  m + 1 \in T
  <2>1. /\ m + 1 \in 1 .. N /\ m + 1 \in 0 .. N /\ m + 1 # 0 /\ m \in Nat
        /\ (m + 1) - 1 = m
    BY <1>1
  <2>2. skills[m + 1] = Updated(skills[m], Scan(scopes[m + 1]))
    BY <1>7, <2>1
  <2>3. Gathers(scopes, m, skills[m]) /\ Keeps(scopes[m + 1], Scan(scopes[m + 1]))
    BY <1>2, <1>10, <2>1
  <2>4. Gathers(scopes, m + 1, skills[m + 1])
    BY <2>1, <2>2, <2>3, GathersOn
  <2>5. QED
    BY <2>1, <2>4
<1>11. N \in T
  <2>1. 0 .. N \subseteq T
    <3> HIDE DEF T
    <3> QED
      BY <1>1, <1>9, <1>10, NumbersUpTo
  <2>2. QED
    BY <1>1, <2>1
<1>12. QED
  BY <1>8, <1>11

Chunks == [skill : SkillFiles, shown : Nat]

\* What the chunks take: sum[i] for the first i of them.
Sums(sum, chunks) ==
  /\ sum \in [0 .. Len(chunks) -> Nat] /\ sum[0] = 0
  /\ \A i \in 1 .. Len(chunks) : sum[i] = sum[i - 1] + chunks[i].shown

\* The text after m rounds: a chunk of every skill, whole, as long as there is
\* room; then nothing is added, and only the last may have been cut.
Fills(text, skills, names, m, room) ==
  LET size == Len(text.chunks) IN
  /\ text.chunks \in Seq(Chunks) /\ text.room \in Int
  /\ size <= m
  /\ \A i \in 1 .. size :
       /\ text.chunks[i].skill = skills[names[i]]
       /\ i < size \/ text.room > 0 =>
            text.chunks[i].shown = text.chunks[i].skill.size
  /\ text.room > 0 => size = m
  /\ \E sum : /\ Sums(sum, text.chunks)
              /\ sum[size] = IF text.room > 0 THEN room - text.room ELSE room

LEMMA SumsOn ==
  ASSUME NEW chunks \in Seq(Chunks), NEW sum, Sums(sum, chunks),
         NEW chunk \in Chunks
  PROVE  \E next : /\ Sums(next, Append(chunks, chunk))
                   /\ next[Len(Append(chunks, chunk))]
                        = sum[Len(chunks)] + chunk.shown
<1> DEFINE L == Len(chunks)
           longer == Append(chunks, chunk)
<1>1. /\ L \in Nat /\ Len(longer) = L + 1 /\ longer[L + 1] = chunk
      /\ \A i \in 1 .. L : longer[i] = chunks[i]
  BY AppendProperties, LenProperties
<1>2. /\ sum \in [0 .. L -> Nat] /\ sum[0] = 0
      /\ \A i \in 1 .. L : sum[i] = sum[i - 1] + chunks[i].shown
  BY DEF Sums
<1>3. chunk.shown \in Nat
  BY DEF Chunks
<1> HIDE DEF L, longer
<1> DEFINE next == [i \in 0 .. L + 1 |->
                      IF i <= L THEN sum[i] ELSE sum[L] + chunk.shown]
<1>4. /\ \A i \in 0 .. L : next[i] = sum[i]
      /\ next[L + 1] = sum[L] + chunk.shown
  BY <1>1
<1>5. next \in [0 .. L + 1 -> Nat]
  <2>1. ASSUME NEW i \in 0 .. L + 1
        PROVE  (IF i <= L THEN sum[i] ELSE sum[L] + chunk.shown) \in Nat
    BY <1>1, <1>2, <1>3
  <2>2. QED
    BY <2>1
<1> HIDE DEF next
<1>6. ASSUME NEW i \in 1 .. L + 1
      PROVE  next[i] = next[i - 1] + longer[i].shown
  <2>1. CASE i \in 1 .. L
    <3>1. i \in 0 .. L /\ i - 1 \in 0 .. L
      BY <1>1, <2>1
    <3>2. QED
      BY <1>1, <1>2, <1>4, <2>1, <3>1
  <2>2. CASE i = L + 1
    <3>1. i - 1 = L /\ L \in 0 .. L
      BY <1>1, <2>2
    <3>2. QED
      BY <1>1, <1>4, <2>2, <3>1
  <2>3. QED
    BY <1>1, <2>1, <2>2
<1>7. Sums(next, longer)
  BY <1>1, <1>2, <1>4, <1>5, <1>6 DEF Sums
<1>8. QED
  BY <1>1, <1>4, <1>7 DEF L, longer

LEMMA AddChunkFills ==
  ASSUME NEW text, NEW skills, NEW names, NEW m \in Nat, NEW room \in Nat,
         Fills(text, skills, names, m, room), text.room > 0,
         skills[names[m + 1]] \in SkillFiles
  PROVE  Fills(AddChunk(text, skills[names[m + 1]]), skills, names, m + 1, room)
<1>1. PICK skill \in SkillFiles : skill = skills[names[m + 1]]
  OBVIOUS
<1>2. PICK old \in Seq(Chunks) : old = text.chunks
  BY DEF Fills
<1>3. PICK left \in Int : left = text.room /\ left > 0
  BY DEF Fills
<1> DEFINE shown == Min({skill.size, left})
           chunk == [skill |-> skill, shown |-> shown]
           chunks == Append(old, chunk)
           after == left - shown - (IF skill.size > left THEN NoteSize ELSE 0)
<1>4. AddChunk(text, skill) = [chunks |-> chunks, room |-> after]
  BY <1>2, <1>3 DEF AddChunk
<1>5. skill.size \in Nat /\ NoteSize \in Nat \ {0}
  BY LimitsAssumption DEF SkillFiles
<1>6. /\ shown \in Nat
      /\ shown = IF skill.size > left THEN left ELSE skill.size
  <2>1. shown = IF skill.size > left THEN left ELSE skill.size
    BY <1>3, <1>5 DEF Min
  <2> HIDE DEF shown
  <2>2. QED
    BY <1>3, <1>5, <2>1
<1>7. chunk \in Chunks /\ chunk.shown = shown /\ chunk.skill = skill
  BY <1>6 DEF Chunks
<1> HIDE DEF shown, chunk
<1>8. PICK sum : Sums(sum, old) /\ sum[m] = room - left
  BY <1>2, <1>3 DEF Fills
<1>9. /\ Len(old) = m
      /\ \A i \in 1 .. m : /\ old[i].skill = skills[names[i]]
                           /\ old[i].shown = old[i].skill.size
  BY <1>2, <1>3 DEF Fills
<1>10. /\ chunks \in Seq(Chunks) /\ Len(chunks) = m + 1 /\ chunks[m + 1] = chunk
       /\ \A i \in 1 .. m : chunks[i] = old[i]
  BY <1>7, <1>9, AppendProperties
<1>11. PICK next : Sums(next, chunks) /\ next[m + 1] = room - left + shown
  <2>1. PICK next : /\ Sums(next, Append(old, chunk))
                    /\ next[Len(Append(old, chunk))] = sum[Len(old)] + chunk.shown
    BY <1>7, <1>8, SumsOn
  <2>2. QED
    BY <1>7, <1>8, <1>9, <1>10, <2>1
<1> HIDE DEF chunks
<1>12. /\ after \in Int
       /\ after > 0 => shown = skill.size
       /\ room - left + shown = IF after > 0 THEN room - after ELSE room
  <2>1. PICK size \in Nat, note \in Nat \ {0} :
          size = skill.size /\ note = NoteSize
    BY <1>5
  <2>2. CASE size > left
    <3>1. shown = left /\ after = left - left - note
      BY <1>6, <2>1, <2>2
    <3>2. after \in Int /\ ~(after > 0)
      BY <1>3, <2>1, <3>1
    <3>3. QED
      BY <1>3, <3>1, <3>2
  <2>3. CASE ~(size > left)
    <3>1. shown = size /\ after = left - size - 0
      BY <1>6, <2>1, <2>3
    <3>2. after \in Int /\ after = left - size /\ size <= left
      BY <1>3, <2>1, <2>3, <3>1
    <3>3. after > 0 \/ after = 0
      BY <1>3, <2>1, <3>2
    <3>4. QED
      BY <1>3, <2>1, <3>1, <3>2, <3>3
  <2>4. QED
    BY <2>2, <2>3
<1> HIDE DEF after
<1>13. ASSUME NEW i \in 1 .. m + 1
       PROVE  /\ chunks[i].skill = skills[names[i]]
              /\ i < m + 1 \/ after > 0 => chunks[i].shown = chunks[i].skill.size
  <2>1. CASE i \in 1 .. m
    BY <1>9, <1>10, <2>1
  <2>2. CASE i = m + 1
    BY <1>1, <1>7, <1>10, <1>12, <2>2
  <2>3. QED
    BY <2>1, <2>2
<1> DEFINE longer == [chunks |-> chunks, room |-> after]
<1>14. longer.chunks = chunks /\ longer.room = after
  OBVIOUS
<1> HIDE DEF longer
<1>15. Fills(longer, skills, names, m + 1, room)
  BY <1>10, <1>11, <1>12, <1>13, <1>14 DEF Fills
<1>16. QED
  BY <1>1, <1>4, <1>15 DEF longer

\* What is rendered of skills that are known: all of them, or as many as fill
\* the room.
LEMMA RenderFills ==
  ASSUME NEW scopes \in Seq(Seq(SkillFiles)), NEW room \in Nat,
         NEW names, NEW N \in Nat, N <= MaxActiveSkills,
         names \in [1 .. N -> DOMAIN Discover(scopes)]
  PROVE  \E text : /\ Fills(text, Discover(scopes), names, N, room)
                   /\ Render(scopes, names, room) = text.chunks
<1> DEFINE skills == Discover(scopes)
           active == First(MaxActiveSkills, names)
           S == [chunks : Seq(Chunks), room : Int]
           begin == [chunks |-> <<>>, room |-> room]
           Round(t, i) == IF t.room <= 0 \/ active[i] \notin DOMAIN skills
                          THEN t ELSE AddChunk(t, skills[active[i]])
           Goes(f) == f = [i \in 0 .. Len(active) |->
                             IF i = 0 THEN begin ELSE Round(f[i - 1], i)]
<1>1. MaxActiveSkills \in Nat
  BY LimitsAssumption
<1>2. Begins(active, names, DOMAIN skills, N, MaxActiveSkills)
  BY <1>1, FirstIs
<1>3. /\ Len(active) = N
      /\ \A i \in 1 .. N : active[i] = names[i] /\ active[i] \in DOMAIN skills
  <2>1. \A i \in 1 .. N : names[i] \in DOMAIN skills
    OBVIOUS
  <2>2. Len(active) = (IF N < MaxActiveSkills THEN N ELSE MaxActiveSkills)
    BY <1>2 DEF Begins
  <2>3. Len(active) = N
    BY <1>1, <2>2
  <2>4. \A i \in 1 .. N : active[i] = names[i]
    BY <1>2, <2>3 DEF Begins
  <2> HIDE DEF skills, active
  <2>5. QED
    BY <2>1, <2>3, <2>4
<1>4. \A n \in DOMAIN skills : skills[n] \in SkillFiles
  BY DiscoverGathers DEF Gathers
<1>5. Render(scopes, names, room) = (CHOOSE f : Goes(f))[N].chunks
  BY <1>3 DEF Render
<1> HIDE DEF skills, active
<1> DEFINE h == [i \in 1 .. N |-> [t \in S |-> Round(t, i)]]
<1>6. begin \in S
  <2>1. <<>> \in Seq(Chunks)
    BY EmptySeq
  <2>2. QED
    BY <2>1
<1>7. h \in [1 .. N -> [S -> S]]
  <2>1. ASSUME NEW i \in 1 .. N, NEW t \in S
        PROVE  Round(t, i) \in S
    <3>1. CASE t.room <= 0
      BY <3>1
    <3>2. CASE ~(t.room <= 0)
      <4>1. PICK skill \in SkillFiles : skill = skills[active[i]]
        BY <1>3, <1>4
      <4> DEFINE shown == Min({skill.size, t.room})
                 chunk == [skill |-> skill, shown |-> shown]
                 cut == IF skill.size > t.room THEN NoteSize ELSE 0
      <4>2. skill.size \in Nat /\ t.room \in Nat /\ t.chunks \in Seq(Chunks)
        BY <3>2 DEF SkillFiles
      <4>3. shown \in Nat /\ cut \in Int
        <5>1. shown = IF skill.size > t.room THEN t.room ELSE skill.size
          BY <4>2 DEF Min
        <5>2. NoteSize \in Nat
          BY LimitsAssumption
        <5> HIDE DEF shown
        <5>3. QED
          BY <4>2, <5>1, <5>2
      <4>4. chunk \in Chunks
        BY <4>3 DEF Chunks
      <4> HIDE DEF shown, chunk, cut
      <4>5. Append(t.chunks, chunk) \in Seq(Chunks) /\ t.room - shown - cut \in Int
        BY <4>2, <4>3, <4>4, AppendProperties
      <4>6. AddChunk(t, skill) = [chunks |-> Append(t.chunks, chunk),
                                  room |-> t.room - shown - cut]
        BY DEF AddChunk, shown, chunk, cut
      <4>7. AddChunk(t, skill) \in S
        BY <4>5, <4>6
      <4>8. QED
        BY <4>1, <4>7
    <3>3. QED
      BY <3>1, <3>2
  <2> HIDE DEF S, Round
  <2>2. QED
    BY <2>1
<1>8. \E f \in [0 .. N -> S] : IsRun(f, N, begin, h)
  <2> HIDE DEF S, h, begin
  <2> QED
    BY <1>6, <1>7, LoopRuns
<1>9. \E f : Goes(f)
  <2>1. PICK f \in [0 .. N -> S] : IsRun(f, N, begin, h)
    BY <1>8
  <2> HIDE DEF begin, Round, S
  <2>2. f[0] = begin
    BY <2>1 DEF IsRun
  <2>3. ASSUME NEW i \in 1 .. N
        PROVE  f[i] = Round(f[i - 1], i)
    <3>1. f[i] = h[i][f[i - 1]]
      BY <2>1 DEF IsRun
    <3>2. i - 1 \in 0 .. N
      OBVIOUS
    <3>3. f[i - 1] \in S
      BY <2>1, <3>2
    <3>4. QED
      BY <3>1, <3>3
  <2>4. \A i \in 0 .. N : i = 0 \/ i \in 1 .. N
    OBVIOUS
  <2>5. f = [i \in 0 .. N |-> f[i]]
    BY <2>1
  <2>6. Goes(f)
    BY <1>3, <2>2, <2>3, <2>4, <2>5
  <2>7. QED
    <3> HIDE DEF Goes
    <3> QED
      BY <2>6
<1> DEFINE text == CHOOSE f : Goes(f)
<1>10. Goes(text)
  <2> HIDE DEF Goes
  <2> QED
    BY <1>9
<1> HIDE DEF text
<1> DEFINE T == {m \in 0 .. N : Fills(text[m], skills, names, m, room)}
<1>11. 0 \in T
  <2>1. text[0] = begin /\ begin.chunks = <<>> /\ begin.room = room
    BY <1>3, <1>10
  <2> HIDE DEF begin, Goes
  <2>2. <<>> \in Seq(Chunks) /\ Len(<<>>) = 0
    BY EmptySeq
  <2> DEFINE sum == [i \in 0 .. 0 |-> 0]
  <2>3. Sums(sum, <<>>) /\ sum[0] = 0
    BY <2>2 DEF Sums
  <2> HIDE DEF sum
  <2>4. \E s : /\ Sums(s, <<>>)
               /\ s[0] = IF room > 0 THEN room - room ELSE room
    BY <2>3
  <2>5. 1 .. 0 = {}
    OBVIOUS
  <2>6. Fills(begin, skills, names, 0, room)
    BY <2>1, <2>2, <2>4, <2>5 DEF Fills
  <2>7. QED
    BY <2>1, <2>6
<1>12. ASSUME NEW m \in 0 .. N - 1, m \in T
       PROVE  m + 1 \in T
  <2>1. /\ m + 1 \in 1 .. N /\ m + 1 \in 0 .. N /\ m + 1 # 0 /\ m \in Nat
        /\ (m + 1) - 1 = m
    OBVIOUS
  <2>2. text[m + 1] = Round(text[m], m + 1)
    BY <1>3, <1>10, <2>1
  <2>3. Fills(text[m], skills, names, m, room)
    BY <1>12
  <2>4. active[m + 1] = names[m + 1] /\ active[m + 1] \in DOMAIN skills
        /\ skills[names[m + 1]] \in SkillFiles
    BY <1>3, <1>4, <2>1
  <2> HIDE DEF Goes
  <2>5. Fills(text[m + 1], skills, names, m + 1, room)
    <3>1. CASE text[m].room > 0
      <4>1. text[m + 1] = AddChunk(text[m], skills[names[m + 1]])
        <5>1. ~(text[m].room <= 0)
          BY <2>3, <3>1 DEF Fills
        <5>2. QED
          BY <2>2, <2>4, <5>1
      <4>2. QED
        BY <2>1, <2>3, <2>4, <3>1, <4>1, AddChunkFills
    <3>2. CASE ~(text[m].room > 0)
      <4>1. text[m].room <= 0
        BY <2>3, <3>2 DEF Fills
      <4>2. text[m + 1] = text[m]
        BY <2>2, <4>1
      <4>3. Len(text[m].chunks) \in Nat
        BY <2>3, LenProperties DEF Fills
      <4>4. QED
        BY <2>1, <2>3, <3>2, <4>2, <4>3 DEF Fills
    <3>3. QED
      BY <3>1, <3>2
  <2>6. QED
    BY <2>1, <2>5
<1>13. N \in T
  <2>1. 0 .. N \subseteq T
    <3> HIDE DEF T
    <3> QED
      BY <1>11, <1>12, NumbersUpTo
  <2>2. QED
    BY <2>1
<1>14. Fills(text[N], skills, names, N, room)
  BY <1>13
<1>15. Render(scopes, names, room) = text[N].chunks
  BY <1>5 DEF text
<1>16. QED
  BY <1>14, <1>15 DEF skills

\* The sum that the property takes.
LEMMA SumIsTaken ==
  ASSUME NEW chunks \in Seq(Chunks), NEW sum, Sums(sum, chunks)
  PROVE  LET used[i \in 0 .. Len(chunks)] ==
               IF i = 0 THEN 0 ELSE used[i - 1] + chunks[i].shown
         IN  used[Len(chunks)] = sum[Len(chunks)]
<1> DEFINE N == Len(chunks)
           Goes(f) == f = [i \in 0 .. N |->
                             IF i = 0 THEN 0 ELSE f[i - 1] + chunks[i].shown]
           used == CHOOSE f : Goes(f)
<1>1. N \in Nat
  BY LenProperties
<1>2. /\ sum \in [0 .. N -> Nat] /\ sum[0] = 0
      /\ \A i \in 1 .. N : sum[i] = sum[i - 1] + chunks[i].shown
  BY DEF Sums
<1>3. Goes(sum)
  <2>1. sum = [i \in 0 .. N |-> sum[i]]
    BY <1>2
  <2>2. \A i \in 0 .. N : i = 0 \/ i \in 1 .. N
    BY <1>1
  <2>3. QED
    BY <1>2, <2>1, <2>2
<1>4. Goes(used)
  <2> HIDE DEF Goes
  <2> QED
    BY <1>3
<1> HIDE DEF used
<1> DEFINE T == {m \in 0 .. N : used[m] = sum[m]}
<1>5. 0 \in T
  BY <1>1, <1>2, <1>4
<1>6. ASSUME NEW m \in 0 .. N - 1, m \in T
      PROVE  m + 1 \in T
  <2>1. m + 1 \in 1 .. N /\ m + 1 \in 0 .. N /\ m + 1 # 0 /\ (m + 1) - 1 = m
    BY <1>1
  <2>2. used[m + 1] = used[m] + chunks[m + 1].shown
    BY <1>4, <2>1
  <2>3. sum[m + 1] = sum[m] + chunks[m + 1].shown
    BY <1>2, <2>1
  <2>4. QED
    BY <1>6, <2>1, <2>2, <2>3
<1>7. 0 .. N \subseteq T
  <2> HIDE DEF T
  <2> QED
    BY <1>1, <1>5, <1>6, NumbersUpTo
<1>8. used[N] = sum[N]
  BY <1>1, <1>7
<1>9. QED
  BY <1>8 DEF used

\* The sound files that nothing overrides are the skills that are discovered.
Overridden(scopes, i, k) ==
  \E j \in DOMAIN scopes : \E l \in Sound(scopes[j]) :
    /\ j > i \/ (j = i /\ l > k)
    /\ scopes[j][l].name = scopes[i][k].name

LEMMA ValidAreDiscovered ==
  ASSUME NEW scopes \in Seq(Seq(SkillFiles))
  PROVE  LET skills == Discover(scopes) IN
         UNION {{scopes[i][k] :
                   k \in {l \in Sound(scopes[i]) : ~Overridden(scopes, i, l)}} :
                  i \in DOMAIN scopes}
           = {skills[n] : n \in DOMAIN skills}
<1> DEFINE skills == Discover(scopes)
           N == Len(scopes)
           valid == UNION {{scopes[i][k] :
                              k \in {l \in Sound(scopes[i]) :
                                       ~Overridden(scopes, i, l)}} :
                             i \in DOMAIN scopes}
<1>1. DOMAIN scopes = 1 .. N /\ N \in Nat
  BY LenProperties
<1>2. Gathers(scopes, N, skills)
  BY DiscoverGathers
<1>3. \A i \in 1 .. N : \A k \in Sound(scopes[i]) : k \in Int
  <2> SUFFICES ASSUME NEW i \in 1 .. N, NEW k \in Sound(scopes[i])
               PROVE  k \in Int
    OBVIOUS
  <2>1. PICK scope \in Seq(SkillFiles) : scope = scopes[i]
    BY <1>1, ElementOfSeq
  <2>2. QED
    BY <2>1, LenProperties DEF Sound
<1> HIDE DEF skills, N
<1>4. ASSUME NEW i \in 1 .. N, NEW k \in Sound(scopes[i]),
             ~Overridden(scopes, i, k)
      PROVE  \E n \in DOMAIN skills : scopes[i][k] = skills[n]
  <2> DEFINE n == scopes[i][k].name
  <2>1. n \in DOMAIN skills
    BY <1>2 DEF Gathers
  <2>2. PICK j \in 1 .. N : \E l \in Sound(scopes[j]) :
          /\ skills[n] = scopes[j][l] /\ scopes[j][l].name = n
          /\ \A a \in 1 .. N : \A b \in Sound(scopes[a]) :
               scopes[a][b].name = n => a < j \/ (a = j /\ b <= l)
    BY <1>2, <2>1 DEF Gathers
  <2>3. PICK l \in Sound(scopes[j]) :
          /\ skills[n] = scopes[j][l] /\ scopes[j][l].name = n
          /\ \A a \in 1 .. N : \A b \in Sound(scopes[a]) :
               scopes[a][b].name = n => a < j \/ (a = j /\ b <= l)
    BY <2>2
  <2>4. i < j \/ (i = j /\ k <= l)
    BY <2>3
  <2>5. ~(j > i \/ (j = i /\ l > k))
    BY <1>1, <1>4, <2>3 DEF Overridden
  <2>6. i = j /\ k = l
    BY <1>1, <1>3, <2>4, <2>5
  <2>7. QED
    BY <2>1, <2>3, <2>6
<1>5. ASSUME NEW n \in DOMAIN skills
      PROVE  \E i \in 1 .. N : \E k \in Sound(scopes[i]) :
               scopes[i][k] = skills[n] /\ ~Overridden(scopes, i, k)
  <2>1. PICK i \in 1 .. N : \E k \in Sound(scopes[i]) :
          /\ skills[n] = scopes[i][k] /\ scopes[i][k].name = n
          /\ \A j \in 1 .. N : \A l \in Sound(scopes[j]) :
               scopes[j][l].name = n => j < i \/ (j = i /\ l <= k)
    BY <1>2 DEF Gathers
  <2>2. PICK k \in Sound(scopes[i]) :
          /\ skills[n] = scopes[i][k] /\ scopes[i][k].name = n
          /\ \A j \in 1 .. N : \A l \in Sound(scopes[j]) :
               scopes[j][l].name = n => j < i \/ (j = i /\ l <= k)
    BY <2>1
  <2>3. ~Overridden(scopes, i, k)
    <3> SUFFICES ASSUME NEW j \in 1 .. N, NEW l \in Sound(scopes[j]),
                        j > i \/ (j = i /\ l > k),
                        scopes[j][l].name = scopes[i][k].name
                 PROVE  FALSE
      BY <1>1 DEF Overridden
    <3>1. j < i \/ (j = i /\ l <= k)
      BY <2>2
    <3>2. k \in Int /\ l \in Int
      BY <1>3
    <3>3. QED
      BY <3>1, <3>2
  <2>4. QED
    BY <2>2, <2>3
<1>6. valid = {skills[n] : n \in DOMAIN skills}
  <2>1. \A x \in valid : \E i \in 1 .. N : \E k \in Sound(scopes[i]) :
          ~Overridden(scopes, i, k) /\ x = scopes[i][k]
    BY <1>1
  <2>2. \A i \in 1 .. N : \A k \in Sound(scopes[i]) :
          ~Overridden(scopes, i, k) => scopes[i][k] \in valid
    BY <1>1
  <2> HIDE DEF valid
  <2>3. valid \subseteq {skills[n] : n \in DOMAIN skills}
    BY <1>4, <2>1
  <2>4. {skills[n] : n \in DOMAIN skills} \subseteq valid
    BY <1>5, <2>2
  <2>5. QED
    BY <2>3, <2>4
<1>7. QED
  BY <1>6 DEF skills

LEMMA PromptServes ==
  ASSUME NEW scopes \in Catalogs, NEW s \in Situations, NEW room \in Rooms
  PROVE  Serves(Render(scopes, AutoActivate(scopes, s.words, s.marks), room),
                scopes, s, room)
<1> DEFINE skills == Discover(scopes)
           value(x) == Score(x, s.words, s.marks)
           applies(x) == value(x) > x.priority
           score == [n \in DOMAIN skills |-> Score(skills[n], s.words, s.marks)]
           scored == {n \in DOMAIN skills : score[n] > skills[n].priority}
           order == Ranked(score, scored)
           names == First(MaxActiveSkills, order)
           N == Cardinality(scored)
           L == Len(names)
<1>1. /\ scopes \in Seq(Seq(SkillFiles)) /\ IsFiniteSet(s.marks)
      /\ room \in Nat /\ MaxActiveSkills \in Nat
  BY SkillsAssumption, LimitsAssumption
<1>2. /\ skills \in [DOMAIN skills -> SkillFiles]
      /\ DOMAIN skills \subseteq Int /\ IsFiniteSet(DOMAIN skills)
      /\ \A n \in DOMAIN skills : skills[n].name = n
  BY <1>1, DiscoverGathers DEF Gathers
<1>3. AutoActivate(scopes, s.words, s.marks) = names
  BY DEF AutoActivate
<1> DEFINE valid == UNION {{scopes[i][k] :
                             k \in {l \in Sound(scopes[i]) :
                                      ~Overridden(scopes, i, l)}} :
                            i \in DOMAIN scopes}
<1>4. valid = {skills[n] : n \in DOMAIN skills}
  BY <1>1, ValidAreDiscovered
<1> HIDE DEF skills, valid
<1>5. \A n \in DOMAIN skills : score[n] = value(skills[n]) /\ score[n] \in Int
  <2> SUFFICES ASSUME NEW n \in DOMAIN skills
               PROVE  score[n] = value(skills[n]) /\ score[n] \in Int
    OBVIOUS
  <2>1. PICK skill \in SkillFiles : skill = skills[n]
    BY <1>2
  <2>2. IsFiniteSet(skill.markers \cap s.marks)
    BY <1>1, FS_Intersection
  <2>3. Cardinality(skill.markers \cap s.marks) \in Nat
    BY <2>2, FS_CardinalityType
  <2>4. skill.priority \in Int
    BY DEF SkillFiles
  <2> DEFINE c == Cardinality(skill.markers \cap s.marks)
  <2>5. value(skill) = skill.priority
                       + (IF skill.keywords \cap s.words # {} THEN 20 ELSE 0)
                       + 30 * c
    BY DEF Score
  <2> HIDE DEF c, value
  <2>6. c \in Nat
    BY <2>3 DEF c
  <2>7. value(skill) \in Int
    BY <2>4, <2>5, <2>6
  <2>8. score[n] = value(skills[n])
    BY DEF value
  <2>9. QED
    BY <2>1, <2>7, <2>8
<1>6. \A n \in DOMAIN skills : n \in scored <=> applies(skills[n])
  BY <1>5
<1> HIDE DEF score, value
<1>7. scored \subseteq DOMAIN skills
  OBVIOUS
<1> HIDE DEF scored
<1>8. Rankable(score, scored)
  <2>1. IsFiniteSet(scored)
    BY <1>2, <1>7, FS_Subset
  <2>2. QED
    BY <1>2, <1>5, <1>7, <2>1 DEF Rankable
<1>9. /\ N \in Nat /\ order \in [1 .. N -> scored]
      /\ \A i, j \in 1 .. N : i < j => Ahead(score, order[i], order[j])
      /\ \A i, j \in 1 .. N : order[i] = order[j] => i = j
      /\ \A m \in scored : \E i \in 1 .. N : order[i] = m
  BY <1>8, RankedInOrder
<1> HIDE DEF order, N
<1>10. Begins(names, order, scored, N, MaxActiveSkills)
  BY <1>1, <1>9, FirstIs
<1> HIDE DEF names
<1>11. /\ L = IF N < MaxActiveSkills THEN N ELSE MaxActiveSkills
       /\ names \in Seq(scored) /\ DOMAIN names = 1 .. L
       /\ \A i \in 1 .. L : i \in 1 .. N /\ names[i] = order[i]
  BY <1>10 DEF Begins
<1> HIDE DEF L
<1>12. L \in Nat /\ L <= MaxActiveSkills
  BY <1>1, <1>9, <1>11
<1>13. names \in [1 .. L -> DOMAIN skills]
  <2>1. \A i \in 1 .. L : names[i] \in DOMAIN skills
    BY <1>7, <1>9, <1>11
  <2>2. names = [i \in 1 .. L |-> names[i]]
    BY <1>11
  <2>3. QED
    BY <2>1, <2>2
<1>14. PICK text : /\ Fills(text, skills, names, L, room)
                   /\ Render(scopes, names, room) = text.chunks
  <2>1. names \in [1 .. L -> DOMAIN Discover(scopes)]
    BY <1>13 DEF skills
  <2>2. QED
    BY <1>1, <1>12, <2>1, RenderFills DEF skills
<1>15. PICK chunks \in Seq(Chunks) : chunks = text.chunks
  BY <1>14 DEF Fills
<1> DEFINE C == Len(chunks)
           shown == {chunks[i].skill : i \in DOMAIN chunks}
           inAll == LET used[i \in 0 .. Len(chunks)] ==
                          IF i = 0 THEN 0 ELSE used[i - 1] + chunks[i].shown
                    IN  used[Len(chunks)]
<1>16. C \in Nat /\ DOMAIN chunks = 1 .. C
  BY LenProperties
<1>17. /\ C <= L /\ text.room \in Int /\ (text.room > 0 => C = L)
       /\ \A i \in 1 .. C :
            /\ chunks[i].skill = skills[names[i]]
            /\ i < C => chunks[i].shown = chunks[i].skill.size
  BY <1>14, <1>15 DEF Fills
<1>18. inAll = IF text.room > 0 THEN room - text.room ELSE room
  <2>1. PICK sum : /\ Sums(sum, chunks)
                   /\ sum[C] = IF text.room > 0 THEN room - text.room ELSE room
    BY <1>14, <1>15 DEF Fills
  <2>2. inAll = sum[C]
    BY <2>1, SumIsTaken
  <2> HIDE DEF inAll, C
  <2>3. QED
    BY <2>1, <2>2
<1> HIDE DEF inAll, C
<1>19. inAll <= room /\ (C < L => inAll = room)
  BY <1>1, <1>12, <1>16, <1>17, <1>18
<1>20. \A i \in 1 .. C : /\ i \in 1 .. N /\ order[i] \in scored
                         /\ chunks[i].skill = skills[order[i]]
  BY <1>9, <1>11, <1>12, <1>16, <1>17
<1>21. shown = {skills[order[i]] : i \in 1 .. C}
  BY <1>16, <1>20
<1> HIDE DEF shown
<1>22. shown \subseteq {x \in valid : applies(x)}
  BY <1>4, <1>6, <1>7, <1>20, <1>21
<1>23. Cardinality(shown) = C
  <2> DEFINE listed == [i \in 1 .. C |-> skills[order[i]]]
  <2>1. listed \in [1 .. C -> shown]
    BY <1>21
  <2>2. \A i, j \in 1 .. C : listed[i] = listed[j] => i = j
    BY <1>2, <1>7, <1>9, <1>20
  <2>3. \A x \in shown : \E i \in 1 .. C : listed[i] = x
    BY <1>21
  <2> HIDE DEF listed
  <2>4. listed \in Bijection(1 .. C, shown)
    BY <2>1, <2>2, <2>3 DEF Bijection, Injection, Surjection, IsInjective
  <2>5. IsFiniteSet(1 .. C) /\ Cardinality(1 .. C) = C
    BY <1>16, FS_Interval
  <2>6. QED
    BY <2>4, <2>5, FS_Bijection DEF ExistsBijection
<1>24. ASSUME NEW x \in valid \ shown, applies(x)
       PROVE  /\ C = MaxActiveSkills \/ inAll = room
              /\ \A t \in shown : value(t) >= value(x)
  <2>1. PICK n \in DOMAIN skills : x = skills[n] /\ n \in scored
    BY <1>4, <1>6, <1>24
  <2>2. PICK j \in 1 .. N : order[j] = n
    BY <1>9, <2>1
  <2>3. C < j
    <3>1. j \notin 1 .. C
      BY <1>21, <1>24, <2>1, <2>2
    <3>2. QED
      BY <1>9, <1>16, <3>1
  <2>4. C = MaxActiveSkills \/ inAll = room
    BY <1>1, <1>9, <1>11, <1>12, <1>16, <1>17, <1>19, <2>3
  <2>5. ASSUME NEW t \in shown
        PROVE  value(t) >= value(x)
    <3>1. PICK i \in 1 .. C : t = skills[order[i]]
      BY <1>21
    <3>2. i \in 1 .. N /\ i < j /\ order[i] \in DOMAIN skills
      BY <1>7, <1>9, <1>16, <1>20, <2>3
    <3>3. Ahead(score, order[i], order[j])
      BY <1>9, <3>2
    <3>4. score[order[i]] = value(t) /\ score[order[j]] = value(x)
      BY <1>5, <2>1, <2>2, <3>1, <3>2
    <3>5. value(t) \in Int /\ value(x) \in Int
      BY <1>5, <2>1, <2>2, <3>2, <3>4
    <3>6. value(t) > value(x) \/ value(t) = value(x)
      BY <3>3, <3>4 DEF Ahead
    <3>7. QED
      BY <3>5, <3>6
  <2>6. QED
    BY <2>4, <2>5
<1>25. Serves(chunks, scopes, s, room)
  BY <1>16, <1>17, <1>19, <1>22, <1>23, <1>24
     DEF Serves, valid, shown, inAll, C, value, Overridden, Sound
<1>26. QED
  BY <1>3, <1>14, <1>15, <1>25

LEMMA SkillsAnswered == AskSkills => SkillsReachThePrompt'
<1> SUFFICES ASSUME AskSkills
             PROVE  SkillsReachThePrompt'
  OBVIOUS
<1>1. PICK scopes \in Catalogs, s \in Situations, room \in Rooms :
        /\ question' = [about |-> "skills", scopes |-> scopes, situation |-> s,
                        room |-> room]
        /\ answer' = Render(scopes, AutoActivate(scopes, s.words, s.marks), room)
  BY DEF AskSkills
<1>2. Serves(answer', scopes, s, room)
  BY <1>1, PromptServes
<1>3. Serves(answer', question'.scopes, question'.situation, question'.room)
  BY <1>1, <1>2
<1>4. QED
  BY <1>3 DEF SkillsReachThePrompt

(***************************************************************************)
(* For any catalog, instruction and room, the prompt of a task shows the   *)
(* sound skills that apply, each as the most specific scope has it, all    *)
(* whole but perhaps the last, and leaves one out only for want of room or *)
(* of places and for others that score no less (skills.py:156-275).        *)
(***************************************************************************)
THEOREM SkillsReach == Spec => []SkillsReachThePrompt
<1>1. Init => SkillsReachThePrompt
  BY DEF Init, SkillsReachThePrompt
<1>2. SkillsReachThePrompt /\ [Next]_vars => SkillsReachThePrompt'
  <2>1. AskImpact \/ AskSearch => SkillsReachThePrompt'
    BY DEF AskImpact, AskSearch, SkillsReachThePrompt
  <2>2. UNCHANGED vars /\ SkillsReachThePrompt => SkillsReachThePrompt'
    BY DEF vars, SkillsReachThePrompt
  <2>3. QED
    BY <2>1, <2>2, SkillsAnswered DEF Next
<1>3. QED
  BY <1>1, <1>2, PTL DEF Spec
=============================================================================
