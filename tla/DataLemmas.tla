----------------------------- MODULE DataLemmas -----------------------------
(* Induction over the naturals, definition by recursion, and what folds and  *)
(* selections over sequences compute.  The lemmas take sets and functions as  *)
(* parameters where a textbook takes predicates and operators.              *)
EXTENDS Selection, FiniteSets, FiniteSetTheorems, SequenceTheorems, WellFoundedInduction, TLAPS

-----------------------------------------------------------------------------
(* Induction and recursion.                                                *)

\* The naturals are well ordered.
LEMMA LeastNumber ==
    ASSUME NEW T \in SUBSET Nat, T # {}
    PROVE  \E n \in T : \A m \in T : n <= m
<1>1. PICK n \in T : \A m \in T : ~ (<<m, n>> \in OpToRel(<, Nat))
  BY NatLessThanWellFounded, WFMin
<1>2. \A m \in T : ~(m < n)
  BY <1>1 DEF OpToRel
<1>3. \A m \in T : m \in Nat
  OBVIOUS
<1> QED
  BY <1>2, <1>3

\* A set with zero and successors holds every natural number.
LEMMA Induction ==
    ASSUME NEW T, 0 \in T, \A n \in Nat : n \in T => n + 1 \in T
    PROVE  \A n \in Nat : n \in T
<1> SUFFICES ASSUME Nat \ T # {} PROVE FALSE
  OBVIOUS
<1>1. PICK n \in Nat \ T : \A m \in Nat \ T : n <= m
  BY LeastNumber
<1>2. n # 0 /\ n - 1 \in Nat
  BY <1>1
<1>3. n - 1 \in T
  BY <1>1, <1>2
<1>4. (n - 1) + 1 = n
  BY <1>1
<1> QED
  BY <1>1, <1>2, <1>3, <1>4

\* The same up to a bound.
LEMMA BoundedInduction ==
    ASSUME NEW L \in Nat, NEW T, 0 \in T, \A n \in 0..L - 1 : n \in T => n + 1 \in T
    PROVE  \A n \in 0..L : n \in T
<1> DEFINE U == {n \in Nat : n <= L => n \in T}
<1>1. 0 \in U
  OBVIOUS
<1>2. ASSUME NEW n \in Nat, n \in U PROVE n + 1 \in U
  <2>1. CASE n + 1 <= L
    <3>1. n \in 0..L - 1 /\ n \in T
      BY <1>2, <2>1
    <3> QED
      BY <3>1
  <2>2. CASE ~ (n + 1 <= L)
    BY <2>2
  <2> QED
    BY <2>1, <2>2
<1> HIDE DEF U
<1>3. \A n \in Nat : n \in U
  BY <1>1, <1>2, Induction
<1> QED
  BY <1>3 DEF U

\* The same from the bound down.
LEMMA BackwardInduction ==
    ASSUME NEW L \in Nat, NEW T, \A s \in 0..L : (\A r \in s + 1..L : r \in T) => s \in T
    PROVE  \A s \in 0..L : s \in T
<1> DEFINE U == {n \in Nat : n <= L => \A s \in L - n..L : s \in T}
<1>1. 0 \in U
  <2>1. L \in 0..L /\ \A r \in L + 1..L : r \in T
    OBVIOUS
  <2>2. L \in T
    BY <2>1
  <2> QED
    BY <2>2
<1>2. ASSUME NEW n \in Nat, n \in U PROVE n + 1 \in U
  <2>1. CASE n + 1 <= L
    <3>1. \A s \in L - n..L : s \in T
      BY <1>2, <2>1
    <3>2. L - (n + 1) \in 0..L /\ (L - (n + 1)) + 1 = L - n
      BY <2>1
    <3>3. L - (n + 1) \in T
      BY <3>1, <3>2
    <3>4. \A s \in L - (n + 1)..L : s = L - (n + 1) \/ s \in L - n..L
      OBVIOUS
    <3>5. \A s \in L - (n + 1)..L : s \in T
      BY <3>1, <3>3, <3>4
    <3> QED
      BY <3>5
  <2>2. CASE ~ (n + 1 <= L)
    BY <2>2
  <2> QED
    BY <2>1, <2>2
<1> HIDE DEF U
<1>3. \A n \in Nat : n \in U
  BY <1>1, <1>2, Induction
<1>4. L \in U /\ L - L = 0
  BY <1>3
<1> QED
  BY <1>4 DEF U

\* A set of numbers is counted through, least first.
Rank(K, a) == Cardinality({b \in K : b < a})

LEMMA Ranks ==
    ASSUME NEW K \in SUBSET Nat, IsFiniteSet(K)
    PROVE  /\ Cardinality(K) \in Nat
           /\ \A a \in K : Rank(K, a) \in 0..Cardinality(K) - 1
           /\ \A a, b \in K : a < b => Rank(K, a) < Rank(K, b)
           /\ \A m \in 0..Cardinality(K) - 1 : \E a \in K : Rank(K, a) = m
<1> DEFINE N == Cardinality(K)
           Below(a) == {b \in K : b < a}
<1>1. N \in Nat
  BY FS_CardinalityType
<1>2. ASSUME NEW a \in K
      PROVE  /\ Below(a) \in SUBSET K /\ IsFiniteSet(Below(a))
             /\ Cardinality(Below(a)) \in 0..N - 1
  <2>1. Below(a) \in SUBSET K /\ a \notin Below(a)
    OBVIOUS
  <2>2. Below(a) # K
    BY <2>1
  <2> HIDE DEF Below
  <2>3. IsFiniteSet(Below(a)) /\ Cardinality(Below(a)) <= N /\ Cardinality(Below(a)) # N
    BY <2>1, <2>2, FS_Subset
  <2>4. Cardinality(Below(a)) \in Nat
    BY <2>3, FS_CardinalityType
  <2> QED
    BY <1>1, <2>1, <2>3, <2>4
<1>3. ASSUME NEW a \in K, NEW b \in K, a < b
      PROVE  Cardinality(Below(a)) < Cardinality(Below(b))
  <2>1. Below(a) \in SUBSET Below(b) /\ a \in Below(b) /\ a \notin Below(a)
    <3>1. a \in Nat /\ b \in Nat /\ \A c \in K : c \in Nat
      OBVIOUS
    <3>2. \A c \in K : c < a => c < b
      BY <1>3, <3>1
    <3>3. ~(a < a)
      BY <3>1
    <3> QED
      BY <1>3, <3>2, <3>3
  <2>2. Below(a) # Below(b)
    BY <2>1
  <2> HIDE DEF Below
  <2>3. /\ IsFiniteSet(Below(b)) /\ Cardinality(Below(b)) \in Nat
        /\ Cardinality(Below(a)) \in Nat
    BY <1>1, <1>2
  <2>4. Cardinality(Below(a)) <= Cardinality(Below(b)) /\ Cardinality(Below(a)) # Cardinality(Below(b))
    BY <2>1, <2>2, <2>3, FS_Subset
  <2> QED
    BY <2>3, <2>4
<1>4. ASSUME NEW m \in 0..N - 1 PROVE \E a \in K : Cardinality(Below(a)) = m
  <2> SUFFICES ASSUME \A a \in K : Cardinality(Below(a)) # m PROVE FALSE
    OBVIOUS
  <2> DEFINE T == (0..N - 1) \ {m}
             rank == [a \in K |-> Cardinality(Below(a))]
  <2>1. IsFiniteSet(0..N - 1) /\ Cardinality(0..N - 1) = N
    BY <1>1, FS_Interval
  <2>2. IsFiniteSet(T) /\ Cardinality(T) = N - 1
    BY <2>1, FS_RemoveElement
  <2> HIDE DEF Below
  <2>3. rank \in [K -> T]
    BY <1>2
  <2> HIDE DEF T, rank
  <2>4. PICK a \in K, b \in K : a # b /\ rank[a] = rank[b]
    <3>1. Cardinality(T) < Cardinality(K)
      BY <1>1, <2>2
    <3> QED
      BY <2>2, <2>3, <3>1, FS_PigeonHole
  <2>5. Cardinality(Below(a)) = Cardinality(Below(b)) /\ Cardinality(Below(a)) \in Nat
    BY <1>1, <1>2, <2>4 DEF rank
  <2>6. a < b \/ b < a
    BY <2>4
  <2> QED
    BY <1>3, <2>4, <2>5, <2>6
<1> QED
  BY <1>1, <1>2, <1>3, <1>4 DEF Rank

\* A step from every number and value defines a run.
RunsOf(C, base, step) ==
    {run \in [Nat -> C] : run[0] = base /\ \A n \in Nat : run[n + 1] = step[<<n, run[n]>>]}

LEMMA Recursion ==
    ASSUME NEW C, NEW base \in C, NEW step \in [Nat \X C -> C]
    PROVE  RunsOf(C, base, step) # {}
<1> DEFINE Runs(n) == {r \in [0..n -> C] :
                          r[0] = base /\ \A m \in 0..n - 1 : r[m + 1] = step[<<m, r[m]>>]}
           T == {n \in Nat : Runs(n) # {}}
<1>1. \A n \in Nat : n \in T
  <2>1. 0 \in T
    <3>1. [m \in 0..0 |-> base] \in Runs(0)
      OBVIOUS
    <3> QED
      BY <3>1
  <2>2. ASSUME NEW n \in Nat, n \in T PROVE n + 1 \in T
    <3>1. PICK r : r \in Runs(n)
      BY <2>2
    <3> DEFINE q == [m \in 0..n + 1 |-> IF m = n + 1 THEN step[<<n, r[n]>>] ELSE r[m]]
    <3>2. r \in [0..n -> C] /\ r[0] = base /\ \A m \in 0..n - 1 : r[m + 1] = step[<<m, r[m]>>]
      BY <3>1
    <3>3. step[<<n, r[n]>>] \in C
      BY <3>2
    <3>4. q \in [0..n + 1 -> C] /\ q[0] = base
      BY <3>2, <3>3
    <3>5. ASSUME NEW m \in 0..(n + 1) - 1 PROVE q[m + 1] = step[<<m, q[m]>>]
      <4>0. /\ q[n + 1] = step[<<n, r[n]>>]
            /\ \A k \in 0..n : q[k] = r[k]
        OBVIOUS
      <4> HIDE DEF q
      <4>1. CASE m = n
        BY <4>0, <4>1
      <4>2. CASE m \in 0..n - 1
        BY <4>0, <4>2, <3>2
      <4> QED
        BY <4>1, <4>2
    <3>6. q \in Runs(n + 1)
      BY <3>4, <3>5
    <3> HIDE DEF Runs
    <3> QED
      BY <3>6
  <2> HIDE DEF T
  <2> QED
    BY <2>1, <2>2, Induction
<1>2. ASSUME NEW n \in Nat, NEW k \in Nat, NEW q \in Runs(n), NEW r \in Runs(k)
      PROVE  \A m \in Nat : m <= n /\ m <= k => q[m] = r[m]
  <2> DEFINE V == {m \in Nat : m <= n /\ m <= k => q[m] = r[m]}
  <2>1. 0 \in V
    OBVIOUS
  <2>2. ASSUME NEW m \in Nat, m \in V PROVE m + 1 \in V
    <3> SUFFICES ASSUME m + 1 <= n, m + 1 <= k PROVE q[m + 1] = r[m + 1]
      OBVIOUS
    <3>1. q[m] = r[m] /\ m \in 0..n - 1 /\ m \in 0..k - 1
      BY <2>2
    <3> QED
      BY <3>1
  <2> HIDE DEF V
  <2>3. \A m \in Nat : m \in V
    BY <2>1, <2>2, Induction
  <2> QED
    BY <2>3 DEF V
<1> DEFINE r == [n \in Nat |-> CHOOSE q : q \in Runs(n)]
           run == [n \in Nat |-> r[n][n]]
<1>3. ASSUME NEW n \in Nat PROVE r[n] \in Runs(n)
  BY <1>1
<1> HIDE DEF r
<1>4. run \in [Nat -> C] /\ run[0] = base
  BY <1>3
<1>5. ASSUME NEW n \in Nat PROVE run[n + 1] = step[<<n, run[n]>>]
  <2>1. r[n + 1][n + 1] = step[<<n, r[n + 1][n]>>]
    BY <1>3
  <2>2. r[n + 1][n] = r[n][n]
    <3>1. r[n + 1] \in Runs(n + 1) /\ r[n] \in Runs(n) /\ n + 1 \in Nat
      BY <1>3
    <3> HIDE DEF Runs
    <3> QED
      BY <1>2, <3>1
  <2> QED
    BY <2>1, <2>2
<1> HIDE DEF run
<1> QED
  BY <1>4, <1>5 DEF RunsOf

-----------------------------------------------------------------------------
(* Folds: SequencesExt folds over the sets of indices, largest index first. *)

\* The largest index of a set of indices.
LEMMA LargestIndex ==
    ASSUME NEW L \in Nat, NEW u \in SUBSET (1..L), u # {}
    PROVE  Max(u) \in u /\ \A i \in u : i <= Max(u)
<1> DEFINE T == {n \in Nat : L - n \in u}
<1>1. \A i \in u : i \in Nat /\ L - i \in T
  OBVIOUS
<1>2. T # {}
  BY <1>1
<1>3. PICK n \in T : \A m \in T : n <= m
  BY <1>2, LeastNumber
<1>4. L - n \in u /\ \A i \in u : L - n >= i
  BY <1>1, <1>3
<1>5. Max(u) \in u /\ \A i \in u : Max(u) >= i
  BY <1>4 DEF Max
<1> QED
  BY <1>5

\* The smallest.
LEMMA SmallestIndex ==
    ASSUME NEW u \in SUBSET Nat, u # {}
    PROVE  Min(u) \in u /\ \A i \in u : Min(u) <= i
<1>1. \E n \in u : \A m \in u : n <= m
  BY LeastNumber
<1> QED
  BY <1>1 DEF Min

LEMMA UpToIndex ==
    ASSUME NEW L \in Nat, NEW n \in 1..L
    PROVE  /\ 1..n \in SUBSET (1..L) /\ 1..n # {} /\ 1..n - 1 \in SUBSET (1..L)
           /\ Max(1..n) = n /\ (1..n) \ {Max(1..n)} = 1..n - 1
<1>1. 1..n \in SUBSET (1..L) /\ n \in 1..n
  OBVIOUS
<1>2. Max(1..n) \in 1..n /\ n <= Max(1..n)
  BY <1>1, LargestIndex
<1>3. Max(1..n) = n
  BY <1>2
<1> QED
  BY <1>1, <1>3

\* The recursion of a fold has a solution.
FoldsOf(L, C, base, step) ==
    {g \in [SUBSET (1..L) -> C] : \A u \in SUBSET (1..L) :
        g[u] = IF u = {} THEN base ELSE step[<<Max(u), g[u \ {Max(u)}]>>]}

LEMMA FoldTable ==
    ASSUME NEW L \in Nat, NEW C, NEW base \in C, NEW step \in [(1..L) \X C -> C]
    PROVE  FoldsOf(L, C, base, step) # {}
<1> DEFINE Tables == [SUBSET (1..L) -> C]
           Extend(n, g) == [u \in SUBSET (1..L) |->
               IF n + 1 \in u THEN step[<<n + 1, g[u \ {n + 1}]>>] ELSE g[u]]
           extend == [p \in Nat \X Tables |-> Extend(p[1], p[2])]
           first == [u \in SUBSET (1..L) |-> base]
<1>1. \A n \in Nat, g \in Tables : Extend(n, g) \in Tables
  OBVIOUS
<1>2. extend \in [Nat \X Tables -> Tables] /\ first \in Tables
  <2> HIDE DEF Tables, Extend
  <2>1. first \in Tables
    BY DEF Tables
  <2> QED
    BY <1>1, <2>1
<1>3. PICK run : run \in RunsOf(Tables, first, extend)
  <2> HIDE DEF Tables, extend, first
  <2>1. RunsOf(Tables, first, extend) # {}
    BY <1>2, Recursion
  <2> QED
    BY <2>1
<1>3a. /\ run \in [Nat -> Tables] /\ run[0] = first
      /\ \A n \in Nat : run[n + 1] = extend[<<n, run[n]>>]
  BY <1>3 DEF RunsOf
<1>4. \A n \in Nat : run[n] \in Tables /\ run[n + 1] = Extend(n, run[n])
  <2> HIDE DEF Tables, Extend
  <2> QED
    BY <1>3a
<1>5. \A n \in Nat, u \in SUBSET (1..L) :
        run[n + 1][u] = IF n + 1 \in u THEN step[<<n + 1, run[n][u \ {n + 1}]>>] ELSE run[n][u]
  <2> SUFFICES ASSUME NEW n \in Nat, NEW u \in SUBSET (1..L)
               PROVE  run[n + 1][u] = IF n + 1 \in u THEN step[<<n + 1, run[n][u \ {n + 1}]>>]
                                      ELSE run[n][u]
    OBVIOUS
  <2>1. run[n + 1] = Extend(n, run[n])
    BY <1>4
  <2> QED
    BY <2>1
<1> HIDE DEF Extend, extend
<1>6. ASSUME NEW n \in Nat, NEW u \in SUBSET (1..L), \A i \in u : i <= n, n <= L
      PROVE  run[L][u] = run[n][u]
  <2> DEFINE T == {k \in Nat : run[n + k][u] = run[n][u]}
  <2>1. 0 \in T
    OBVIOUS
  <2>2. ASSUME NEW k \in Nat, k \in T PROVE k + 1 \in T
    <3>1. n + k \in Nat /\ (n + k) + 1 \notin u /\ n + (k + 1) = (n + k) + 1
      BY <1>6
    <3>2. run[(n + k) + 1][u] = run[n + k][u]
      BY <1>5, <3>1
    <3> QED
      BY <2>2, <3>1, <3>2
  <2> HIDE DEF T
  <2>3. \A k \in Nat : k \in T
    BY <2>1, <2>2, Induction
  <2>4. L - n \in T /\ n + (L - n) = L
    BY <1>6, <2>3
  <2> QED
    BY <2>4 DEF T
<1>7. run[L] \in Tables
  BY <1>4
<1>8. ASSUME NEW u \in SUBSET (1..L)
      PROVE  run[L][u] = IF u = {} THEN base ELSE step[<<Max(u), run[L][u \ {Max(u)}]>>]
  <2>1. CASE u = {}
    <3>1. run[L][u] = run[0][u]
      BY <1>6, <2>1
    <3> QED
      BY <1>3a, <2>1, <3>1
  <2>2. CASE u # {}
    <3> DEFINE m == Max(u)
               v == u \ {m}
    <3>1. m \in u /\ \A i \in u : i <= m
      BY <2>2, LargestIndex
    <3> HIDE DEF m
    <3>2. m \in 1..L /\ m \in Nat /\ m <= L /\ m - 1 \in Nat /\ (m - 1) + 1 = m /\ m - 1 <= L
      BY <3>1
    <3>3. v \in SUBSET (1..L) /\ \A i \in v : i <= m - 1
      BY <3>1, <3>2
    <3>4. run[L][u] = run[m][u]
      BY <1>6, <3>1, <3>2
    <3>5. run[L][v] = run[m - 1][v]
      BY <1>6, <3>2, <3>3
    <3>6. run[m][u] = step[<<m, run[m - 1][v]>>]
      <4>1. run[(m - 1) + 1][u] = IF (m - 1) + 1 \in u
                                 THEN step[<<(m - 1) + 1, run[m - 1][u \ {(m - 1) + 1}]>>]
                                 ELSE run[m - 1][u]
        BY <1>5, <3>2
      <4> QED
        BY <3>1, <3>2, <4>1
    <3>7. run[L][u] = step[<<m, run[L][v]>>]
      BY <3>4, <3>5, <3>6
    <3> QED
      BY <2>2, <3>7 DEF m
  <2> QED
    BY <2>1, <2>2
<1> QED
  BY <1>7, <1>8 DEF FoldsOf

-----------------------------------------------------------------------------
(* Selections.                                                             *)

\* What a selection has kept after each element.
SelectRuns(A, s, S) ==
    {run \in [0..Len(s) -> Seq(A)] :
        /\ run[0] = <<>> /\ Select(s, S) = run[Len(s)]
        /\ \A n \in 1..Len(s) :
              run[n] = IF s[n] \in S THEN Append(run[n - 1], s[n]) ELSE run[n - 1]}

LEMMA SelectRun ==
    ASSUME NEW A, NEW s \in Seq(A), NEW S
    PROVE  SelectRuns(A, s, S) # {}
<1> DEFINE L == Len(s)
           C == Seq(A)
           step == [p \in (1..L) \X C |-> IF s[p[1]] \in S THEN Append(p[2], s[p[1]]) ELSE p[2]]
           Body(h) == [u \in SUBSET (1..L) |->
               IF u = {} THEN <<>>
               ELSE IF s[Max(u)] \in S THEN Append(h[u \ {Max(u)}], s[Max(u)])
                    ELSE h[u \ {Max(u)}]]
           iter == CHOOSE h : h = Body(h)
           run == [n \in 0..L |-> iter[1..n]]
<1>1. L \in Nat /\ DOMAIN s = 1..L /\ \A n \in 1..L : s[n] \in A
  OBVIOUS
<1>2. \A n \in 1..L, c \in C :
        IF s[n] \in S THEN Append(c, s[n]) \in C ELSE c \in C
  BY <1>1
<1>3. step \in [(1..L) \X C -> C] /\ <<>> \in C
  BY <1>2
<1>4. FoldsOf(L, C, <<>>, step) # {}
  <2> HIDE DEF C, step, L
  <2> QED
    BY <1>1, <1>3, FoldTable
<1>5. PICK g : g \in FoldsOf(L, C, <<>>, step)
  BY <1>4
<1>6. /\ g \in [SUBSET (1..L) -> C]
      /\ \A u \in SUBSET (1..L) :
            g[u] = IF u = {} THEN <<>> ELSE step[<<Max(u), g[u \ {Max(u)}]>>]
  <2> HIDE DEF C, step, L
  <2> QED
    BY <1>5 DEF FoldsOf
<1>7. g = Body(g)
  <2>1. ASSUME NEW u \in SUBSET (1..L), u # {}
        PROVE  g[u] = IF s[Max(u)] \in S THEN Append(g[u \ {Max(u)}], s[Max(u)])
                      ELSE g[u \ {Max(u)}]
    <3>1. Max(u) \in 1..L
      BY <1>1, <2>1, LargestIndex
    <3>2. u \ {Max(u)} \in SUBSET (1..L)
      BY <2>1
    <3>3. g[u \ {Max(u)}] \in C
      BY <1>6, <3>2
    <3> HIDE DEF C, L
    <3> QED
      BY <1>6, <2>1, <3>1, <3>3
  <2> HIDE DEF C, L, step
  <2> QED
    BY <1>6, <2>1
<1>8. iter = Body(iter)
  <2> HIDE DEF Body
  <2> QED
    BY <1>7
<1>9. Select(s, S) = iter[1..L]
  BY <1>1 DEF Select, FoldLeft, MapThenFoldSet
<1> HIDE DEF iter
<1>10. \A u \in SUBSET (1..L) :
          iter[u] = IF u = {} THEN <<>>
                    ELSE IF s[Max(u)] \in S THEN Append(iter[u \ {Max(u)}], s[Max(u)])
                         ELSE iter[u \ {Max(u)}]
  BY <1>8
<1>11. run[0] = <<>> /\ run[L] = iter[1..L]
  <2>1. 1..0 = {} /\ {} \in SUBSET (1..L) /\ 0 \in 0..L /\ L \in 0..L
    BY <1>1
  <2>2. iter[{}] = <<>>
    BY <1>10, <2>1
  <2> QED
    BY <2>1, <2>2
<1>12. ASSUME NEW n \in 1..L
       PROVE  run[n] = IF s[n] \in S THEN Append(run[n - 1], s[n]) ELSE run[n - 1]
  <2>1. /\ 1..n \in SUBSET (1..L) /\ 1..n # {} /\ n \in 0..L /\ n - 1 \in 0..L
        /\ Max(1..n) = n /\ (1..n) \ {Max(1..n)} = 1..n - 1
    BY <1>1, UpToIndex
  <2> HIDE DEF L
  <2> QED
    BY <1>10, <2>1
<1>13. \A n \in 0..L : n \in {m \in 0..L : run[m] \in C}
  <2> DEFINE T == {m \in 0..L : run[m] \in C}
  <2> HIDE DEF run, C, L
  <2>1. 0 \in T
    BY <1>1, <1>3, <1>11
  <2>2. ASSUME NEW n \in 0..L - 1, n \in T PROVE n + 1 \in T
    <3>1. n + 1 \in 1..L /\ n + 1 \in 0..L /\ (n + 1) - 1 = n
      BY <1>1
    <3> QED
      BY <1>2, <1>12, <2>2, <3>1
  <2> HIDE DEF T
  <2>3. \A n \in 0..L : n \in T
    BY <1>1, <2>1, <2>2, BoundedInduction
  <2> QED
    BY <2>3 DEF T
<1>14. run \in [0..L -> C]
  <2> HIDE DEF C, L
  <2> QED
    BY <1>13
<1>15. run \in SelectRuns(A, s, S)
  <2> HIDE DEF run
  <2> QED
    BY <1>9, <1>11, <1>12, <1>14 DEF SelectRuns
<1> QED
  BY <1>15

\* The indices below a bound that are in a set, in order.
Chosen(L, I) == Select([i \in 1..L |-> i], I)

\* What Chosen(n, I) must be.
InOrder(n, I, at) ==
    /\ at \in Seq(1..n) /\ Len(at) <= n
    /\ \A j, k \in 1..Len(at) : j < k => at[j] < at[k]
    /\ \A k \in 1..Len(at) : at[k] \in I
    /\ \A i \in 1..n : i \in I => \E k \in 1..Len(at) : at[k] = i

LEMMA ChosenInOrder ==
    ASSUME NEW L \in Nat, NEW I
    PROVE  InOrder(L, I, Chosen(L, I))
<1> DEFINE s == [i \in 1..L |-> i]
<1>1. s \in Seq(1..L) /\ Len(s) = L /\ \A i \in 1..L : s[i] = i
  OBVIOUS
<1>2. PICK run : run \in SelectRuns(1..L, s, I)
  <2> HIDE DEF s
  <2> QED
    BY <1>1, SelectRun
<1>3. /\ run \in [0..L -> Seq(1..L)] /\ run[0] = <<>> /\ Select(s, I) = run[L]
      /\ \A n \in 1..L : run[n] = IF n \in I THEN Append(run[n - 1], n) ELSE run[n - 1]
  <2> HIDE DEF s
  <2> QED
    BY <1>1, <1>2 DEF SelectRuns
<1> HIDE DEF s
<1> DEFINE T == {n \in 0..L : InOrder(n, I, run[n])}
<1>4. 0 \in T
  BY <1>3 DEF InOrder
<1>5. ASSUME NEW n \in 0..L - 1, n \in T PROVE n + 1 \in T
  <2> DEFINE at == run[n]
             next == run[n + 1]
  <2>1. InOrder(n, I, at) /\ n + 1 \in 0..L /\ n + 1 \in 1..L /\ n \in Nat
    BY <1>5
  <2>2. next = IF n + 1 \in I THEN Append(at, n + 1) ELSE at
    BY <1>3, <2>1
  <2>3. /\ at \in Seq(1..n) /\ Len(at) <= n
        /\ \A j, k \in 1..Len(at) : j < k => at[j] < at[k]
        /\ \A k \in 1..Len(at) : at[k] \in I
        /\ \A i \in 1..n : i \in I => \E k \in 1..Len(at) : at[k] = i
    BY <2>1 DEF InOrder
  <2> HIDE DEF at, next
  <2>4. at \in Seq(1..n + 1) /\ \A k \in 1..Len(at) : at[k] \in 1..n
    BY <2>1, <2>3
  <2>5. CASE n + 1 \in I
    <3>1. /\ next \in Seq(1..n + 1) /\ Len(next) = Len(at) + 1
          /\ next[Len(at) + 1] = n + 1
          /\ \A k \in 1..Len(at) : next[k] = at[k]
      BY <2>1, <2>2, <2>4, <2>5
    <3>2. Len(at) \in Nat
      BY <2>4
    <3>3. ASSUME NEW j \in 1..Len(next), NEW k \in 1..Len(next), j < k PROVE next[j] < next[k]
      <4>1. j \in 1..Len(at) /\ next[j] = at[j] /\ at[j] \in 1..n
        BY <2>4, <3>1, <3>2, <3>3
      <4>2. CASE k = Len(at) + 1
        BY <2>1, <3>1, <4>1, <4>2
      <4>3. CASE k \in 1..Len(at)
        BY <2>3, <3>1, <3>3, <4>1, <4>3
      <4> QED
        BY <3>1, <3>2, <4>2, <4>3
    <3>4. ASSUME NEW k \in 1..Len(next) PROVE next[k] \in I
      <4>1. CASE k = Len(at) + 1
        BY <2>5, <3>1, <4>1
      <4>2. CASE k \in 1..Len(at)
        BY <2>3, <3>1, <4>2
      <4> QED
        BY <3>1, <3>2, <4>1, <4>2
    <3>5. ASSUME NEW i \in 1..n + 1, i \in I PROVE \E k \in 1..Len(next) : next[k] = i
      <4>1. CASE i = n + 1
        BY <3>1, <3>2, <4>1
      <4>2. CASE i \in 1..n
        <5>1. PICK k \in 1..Len(at) : at[k] = i
          BY <2>3, <3>5, <4>2
        <5> QED
          BY <3>1, <3>2, <5>1
      <4> QED
        BY <2>1, <4>1, <4>2
    <3> QED
      BY <2>1, <2>3, <3>1, <3>2, <3>3, <3>4, <3>5 DEF InOrder, next
  <2>6. CASE n + 1 \notin I
    <3>1. InOrder(n + 1, I, at)
      BY <2>1, <2>3, <2>4, <2>6 DEF InOrder
    <3> QED
      BY <2>1, <2>2, <2>6, <3>1 DEF next
  <2> QED
    BY <2>5, <2>6
<1> HIDE DEF T
<1>6. L \in T
  BY <1>4, <1>5, BoundedInduction
<1> QED
  BY <1>3, <1>6 DEF T, Chosen, s

\* A selection is the sequence at the chosen indices.
LEMMA SelectChosen ==
    ASSUME NEW A, NEW s \in Seq(A), NEW S
    PROVE  LET at == Chosen(Len(s), {i \in 1..Len(s) : s[i] \in S})
           IN  /\ Select(s, S) \in Seq(A) /\ Len(Select(s, S)) = Len(at)
               /\ \A k \in 1..Len(at) : Select(s, S)[k] = s[at[k]]
<1> DEFINE L == Len(s)
           I == {i \in 1..L : s[i] \in S}
           ids == [i \in 1..L |-> i]
<1>1. L \in Nat /\ ids \in Seq(1..L) /\ Len(ids) = L /\ \A i \in 1..L : ids[i] = i /\ s[i] \in A
  OBVIOUS
<1> HIDE DEF ids
<1>2. PICK run : run \in SelectRuns(A, s, S)
  <2>1. SelectRuns(A, s, S) # {}
    BY SelectRun
  <2> QED
    BY <2>1
<1>3. PICK ats : ats \in SelectRuns(1..L, ids, I)
  <2>1. SelectRuns(1..L, ids, I) # {}
    BY <1>1, SelectRun
  <2> QED
    BY <2>1
<1>4. /\ run \in [0..L -> Seq(A)] /\ run[0] = <<>> /\ Select(s, S) = run[L]
      /\ \A n \in 1..L :
            run[n] = IF s[n] \in S THEN Append(run[n - 1], s[n]) ELSE run[n - 1]
  BY <1>2 DEF SelectRuns
<1>5. /\ ats \in [0..L -> Seq(1..L)] /\ ats[0] = <<>> /\ Chosen(L, I) = ats[L]
      /\ \A n \in 1..L : ats[n] = IF s[n] \in S THEN Append(ats[n - 1], n) ELSE ats[n - 1]
  BY <1>1, <1>3 DEF SelectRuns, Chosen, ids
<1> HIDE DEF I, L
<1> DEFINE T == {n \in 0..L : /\ Len(run[n]) = Len(ats[n])
                              /\ \A k \in 1..Len(ats[n]) : run[n][k] = s[ats[n][k]]}
<1>6. 0 \in T
  <2>1. 0 \in 0..L
    BY <1>1
  <2>2. run[0] = <<>> /\ ats[0] = <<>>
    BY <1>4, <1>5
  <2>3. Len(run[0]) = 0 /\ Len(ats[0]) = 0
    BY <2>2
  <2> QED
    BY <2>1, <2>3
<1>7. ASSUME NEW n \in 0..L - 1, n \in T PROVE n + 1 \in T
  <2>a. n + 1 \in 1..L /\ n + 1 \in 0..L /\ n \in 0..L /\ (n + 1) - 1 = n
    BY <1>1
  <2>1. /\ n + 1 \in 1..L /\ n + 1 \in 0..L /\ n \in 0..L /\ (n + 1) - 1 = n
        /\ run[n] \in Seq(A) /\ ats[n] \in Seq(1..L) /\ s[n + 1] \in A
    BY <1>1, <1>4, <1>5, <2>a
  <2>2. /\ Len(run[n]) = Len(ats[n])
        /\ \A k \in 1..Len(ats[n]) : run[n][k] = s[ats[n][k]]
    BY <1>7
  <2>3. CASE s[n + 1] \in S
    <3>1. run[n + 1] = Append(run[n], s[n + 1]) /\ ats[n + 1] = Append(ats[n], n + 1)
      BY <1>4, <1>5, <2>1, <2>3
    <3>2. Len(run[n + 1]) = Len(ats[n + 1]) /\ Len(ats[n + 1]) = Len(ats[n]) + 1
      BY <2>1, <2>2, <3>1
    <3>3. ASSUME NEW k \in 1..Len(ats[n + 1]) PROVE run[n + 1][k] = s[ats[n + 1][k]]
      BY <2>1, <2>2, <3>1, <3>2
    <3> QED
      BY <2>1, <3>2, <3>3
  <2>4. CASE s[n + 1] \notin S
    <3>1. run[n + 1] = run[n] /\ ats[n + 1] = ats[n]
      BY <1>4, <1>5, <2>1, <2>4
    <3> QED
      BY <2>1, <2>2, <3>1
  <2> QED
    BY <2>3, <2>4
<1> HIDE DEF T
<1>8. \A n \in 0..L : n \in T
  BY <1>1, <1>6, <1>7, BoundedInduction
<1>9. L \in 0..L /\ L \in T
  BY <1>1, <1>8
<1>10. /\ Len(run[L]) = Len(ats[L]) /\ run[L] \in Seq(A)
       /\ \A k \in 1..Len(ats[L]) : run[L][k] = s[ats[L][k]]
  BY <1>4, <1>9 DEF T
<1>11. /\ Select(s, S) \in Seq(A) /\ Len(Select(s, S)) = Len(Chosen(L, I))
       /\ \A k \in 1..Len(Chosen(L, I)) : Select(s, S)[k] = s[Chosen(L, I)[k]]
  BY <1>4, <1>5, <1>10
<1> QED
  BY <1>11 DEF L, I

\* A sequence is one over any set that has its elements.
LEMMA SeqOver ==
    ASSUME NEW A, NEW s \in Seq(A), NEW B, \A k \in 1..Len(s) : s[k] \in B
    PROVE  s \in Seq(B)
OBVIOUS

LEMMA SeqElements ==
    ASSUME NEW A, NEW s \in Seq(A)
    PROVE  Len(s) \in Nat /\ DOMAIN s = 1..Len(s) /\ \A k \in 1..Len(s) : s[k] \in A
OBVIOUS

\* The picked indices of a selection.
Picks(s, S) == Chosen(Len(s), {i \in 1..Len(s) : s[i] \in S})

\* What a selection is: the elements at the picked indices, which are in order.
IsSelection(r, s, S, at) ==
    /\ InOrder(Len(s), {i \in 1..Len(s) : s[i] \in S}, at)
    /\ Len(r) = Len(at) /\ \A k \in 1..Len(at) : r[k] = s[at[k]]

LEMMA SelectPicks ==
    ASSUME NEW A, NEW s \in Seq(A), NEW S
    PROVE  Select(s, S) \in Seq(A) /\ IsSelection(Select(s, S), s, S, Picks(s, S))
<1> DEFINE I == {i \in 1..Len(s) : s[i] \in S}
<1>1. Len(s) \in Nat
  OBVIOUS
<1>2. Picks(s, S) = Chosen(Len(s), I)
  BY DEF Picks
<1>3. /\ Select(s, S) \in Seq(A) /\ Len(Select(s, S)) = Len(Chosen(Len(s), I))
      /\ \A k \in 1..Len(Chosen(Len(s), I)) : Select(s, S)[k] = s[Chosen(Len(s), I)[k]]
  BY SelectChosen
<1> HIDE DEF I
<1>4. InOrder(Len(s), I, Chosen(Len(s), I))
  BY <1>1, ChosenInOrder
<1> QED
  BY <1>2, <1>3, <1>4 DEF I, IsSelection

\* A selection has the elements of the set and no others.
LEMMA SelectFacts ==
    ASSUME NEW A, NEW s \in Seq(A), NEW S
    PROVE  /\ Select(s, S) \in Seq(A) /\ Len(Select(s, S)) \in Nat /\ Len(Select(s, S)) <= Len(s)
           /\ \A k \in 1..Len(Select(s, S)) :
                 Select(s, S)[k] \in S /\ \E i \in 1..Len(s) : s[i] = Select(s, S)[k]
           /\ \A i \in 1..Len(s) : s[i] \in S => \E k \in 1..Len(Select(s, S)) : Select(s, S)[k] = s[i]
<1> DEFINE at == Picks(s, S)
           r == Select(s, S)
<1>1. r \in Seq(A) /\ IsSelection(r, s, S, at)
  BY SelectPicks
<1> HIDE DEF at, r
<1>2. /\ at \in Seq(1..Len(s)) /\ Len(at) <= Len(s)
      /\ \A k \in 1..Len(at) : s[at[k]] \in S
      /\ \A i \in 1..Len(s) : s[i] \in S => \E k \in 1..Len(at) : at[k] = i
      /\ Len(r) = Len(at) /\ \A k \in 1..Len(at) : r[k] = s[at[k]]
  BY <1>1 DEF InOrder, IsSelection
<1>3. \A k \in 1..Len(r) : r[k] \in S /\ \E i \in 1..Len(s) : s[i] = r[k]
  BY <1>1, <1>2
<1>4. \A i \in 1..Len(s) : s[i] \in S => \E k \in 1..Len(r) : r[k] = s[i]
  BY <1>1, <1>2
<1>5. r \in Seq(A) /\ Len(r) \in Nat /\ Len(r) <= Len(s)
  BY <1>1, <1>2
<1> QED
  BY <1>3, <1>4, <1>5 DEF r
=============================================================================
