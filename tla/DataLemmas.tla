------------------------------ MODULE DataLemmas ------------------------------
(***************************************************************************)
(* Facts about the data of the models that their proofs rest on: the fold  *)
(* that sums the sizes of chunks (Bytes of GdsGcManager) and of pages      *)
(* (GdsRing), what Without of Lists leaves of a sequence, where FlattenSeq *)
(* puts the parts of the one it makes (the plans of GdsRing), and the      *)
(* quotients and remainders by which a block finds its chunk.              *)
(*                                                                         *)
(* The folds are defined by recursion.  The inductions are carried by LeastSet *)
(* and LeastNumber, which are about a set of counterexamples: one of them  *)
(* has no other inside, or below.                                          *)
(***************************************************************************)
EXTENDS Lists, FiniteSets, FiniteSetsExt, FiniteSetTheorems, SequencesExt, Functions,
        SequenceTheorems, TLAPS

\* Of a nonempty collection of finite sets one has no other inside it: no induction
\* over chunks that a fold goes through can skip a case.
LEMMA LeastSet ==
  ASSUME NEW S, IsFiniteSet(S), NEW Bad \in SUBSET (SUBSET S), Bad # {}
  PROVE  \E T \in Bad : \A U \in Bad : U \subseteq T => U = T
<1>1. IsWellFoundedOn(StrictSubsetOrdering(S), FiniteSubsetsOf(S))
  BY FS_StrictSubsetOrderingWellFounded
<1>2. Bad \subseteq FiniteSubsetsOf(S)
  BY FS_FiniteSubsetsOfFinite
<1>3. PICK T \in Bad : \A U \in Bad : <<U, T>> \notin StrictSubsetOrdering(S)
  BY <1>1, <1>2, WFMin
<1>4. ASSUME NEW U \in Bad, U \subseteq T
      PROVE  U = T
  <2>1. <<U, T>> \in (SUBSET S) \X (SUBSET S)
    OBVIOUS
  <2> QED
    BY <2>1, <1>3, <1>4 DEF StrictSubsetOrdering
<1> QED
  BY <1>4

\* Of the numbers up to N that are bad, one is the least.
LEMMA LeastNumber ==
  ASSUME NEW N \in Nat, NEW Bad \in SUBSET (0..N), Bad # {}
  PROVE  \E n \in Bad : \A k \in Bad : n <= k
<1> DEFINE Starts == {1..n : n \in Bad}
<1>1. IsFiniteSet(1..N)
  BY FS_Interval
<1>2. Starts \in SUBSET (SUBSET (1..N)) /\ Starts # {}
  <2>1. ASSUME NEW n \in Bad
        PROVE  1..n \in SUBSET (1..N)
    OBVIOUS
  <2> QED
    BY <2>1
<1>3. PICK T \in Starts : \A U \in Starts : U \subseteq T => U = T
  <2>1. PICK All : All = 1..N
    OBVIOUS
  <2>2. IsFiniteSet(All) /\ Starts \in SUBSET (SUBSET All) /\ Starts # {}
    BY <1>1, <1>2, <2>1
  <2> HIDE DEF Starts
  <2>3. Starts # {} /\ IsFiniteSet(All)
    BY <2>2
  <2>4. Starts \in SUBSET (SUBSET All)
    BY <2>2
  <2> QED
    BY <2>3, <2>4, LeastSet
<1>4. PICK n \in Bad : T = 1..n
  OBVIOUS
<1>5. ASSUME NEW k \in Bad, k < n
      PROVE  FALSE
  <2>1. 1..k \in Starts /\ 1..k \subseteq T
    BY <1>4, <1>5
  <2>2. 1..k = T
    BY <1>3, <2>1
  <2>3. n \in 1..n /\ n \notin 1..k
    BY <1>5
  <2> QED
    BY <1>4, <2>2, <2>3
<1> QED
  BY <1>5

-----------------------------------------------------------------------------
(* Sums. *)

\* The sum the models take: f[x] for each x of S.
Total(f, S) == MapThenSumSet(LAMBDA x : f[x], S)

\* The element the fold takes next.
Pick(s) == CHOOSE x \in s : TRUE

\* h sums f over each subset of S, the way MapThenFoldSet does.
Sums(h, f, S) ==
  h = [s \in SUBSET S |->
         IF s = {} THEN 0
         ELSE f[Pick(s)] + h[s \ {Pick(s)}]]

\* The equation of the fold at one set.
LEMMA SumsAt ==
  ASSUME NEW f, NEW S, NEW h, Sums(h, f, S), NEW s \in SUBSET S
  PROVE  /\ s = {} => h[s] = 0
         /\ s # {} => h[s] = f[Pick(s)] + h[s \ {Pick(s)}]
BY DEF Sums

\* Two functions that sum f over subsets agree where both are defined.
LEMMA SumsAgree ==
  ASSUME NEW f, NEW S, NEW T, NEW h, NEW g, Sums(h, f, S), Sums(g, f, T),
         NEW s, s \subseteq S, s \subseteq T, IsFiniteSet(s)
  PROVE  h[s] = g[s]
<1> DEFINE Bad == {u \in SUBSET s : h[u] # g[u]}
<1> SUFFICES ASSUME h[s] # g[s]
             PROVE  FALSE
  OBVIOUS
<1>1. Bad # {} /\ Bad \in SUBSET (SUBSET s)
  OBVIOUS
<1>2. PICK u \in Bad : \A v \in Bad : v \subseteq u => v = u
  <2> HIDE DEF Bad
  <2> QED
    BY <1>1, LeastSet
<1>3. u \in SUBSET S /\ u \in SUBSET T /\ u \in SUBSET s /\ h[u] # g[u]
  OBVIOUS
<1>4. CASE u = {}
  BY <1>3, <1>4, SumsAt
<1>5. CASE u # {}
  <2> DEFINE x == Pick(u)
  <2>1. x \in u
    BY <1>5 DEF Pick
  <2>2. h[u] = f[x] + h[u \ {x}] /\ g[u] = f[x] + g[u \ {x}]
    BY <1>3, <1>5, SumsAt
  <2>3. u \ {x} \in SUBSET s /\ u \ {x} \subseteq u /\ u \ {x} # u
    BY <1>3, <2>1
  <2>4. u \ {x} \notin Bad
    BY <1>2, <2>3
  <2>5. h[u \ {x}] = g[u \ {x}]
    BY <2>3, <2>4
  <2> QED
    BY <2>2, <2>5, <1>3
<1> QED
  BY <1>4, <1>5

\* There is such a function for every finite set.
LEMMA SumsExist ==
  ASSUME NEW f, NEW S, IsFiniteSet(S)
  PROVE  \E h : Sums(h, f, S)
<1> DEFINE Bad == {u \in SUBSET S : ~ \E h : Sums(h, f, u)}
<1> SUFFICES ASSUME ~ \E h : Sums(h, f, S)
             PROVE  FALSE
  OBVIOUS
<1>1. Bad # {} /\ Bad \in SUBSET (SUBSET S)
  OBVIOUS
<1>2. PICK u \in Bad : \A v \in Bad : v \subseteq u => v = u
  <2> HIDE DEF Bad
  <2> QED
    BY <1>1, LeastSet
<1> DEFINE G(v) == CHOOSE h : Sums(h, f, v)
           g == [s \in SUBSET u |->
                   IF s = {} THEN 0 ELSE f[Pick(s)] + G(s \ {Pick(s)})[s \ {Pick(s)}]]
<1>3. ASSUME NEW v \in SUBSET u, v # u
      PROVE  Sums(G(v), f, v)
  <2>1. v \notin Bad /\ v \in SUBSET S
    BY <1>2, <1>3
  <2>2. \E h : Sums(h, f, v)
    BY <2>1
  <2> QED
    BY <2>2
<1>4. ASSUME NEW s \in SUBSET u, s # {}
      PROVE  g[s \ {Pick(s)}] = G(s \ {Pick(s)})[s \ {Pick(s)}]
  <2> DEFINE r == s \ {Pick(s)}
  <2>1. Pick(s) \in s
    BY <1>4 DEF Pick
  <2>2. r \in SUBSET u /\ r # u
    BY <2>1
  <2>3. Sums(G(r), f, r)
    BY <1>3, <2>2
  <2>4. CASE r = {}
    <3>1. G(r)[r] = 0
      <4> HIDE DEF r, G
      <4> QED
        BY <2>3, <2>4, SumsAt
    <3>2. g[r] = 0
      BY <2>4, <2>2
    <3> QED
      BY <3>1, <3>2
  <2>5. CASE r # {}
    <3> DEFINE q == r \ {Pick(r)}
    <3>1. G(r)[r] = f[Pick(r)] + G(r)[q]
      <4> HIDE DEF r, G
      <4> QED
        BY <2>3, <2>5, SumsAt
    <3>2. g[r] = f[Pick(r)] + G(q)[q]
      BY <2>2, <2>5
    <3>3. Pick(r) \in r
      BY <2>5 DEF Pick
    <3>4. q \in SUBSET u /\ q # u /\ q \subseteq r
      BY <2>2, <3>3
    <3>5. Sums(G(q), f, q)
      BY <1>3, <3>4
    <3>6. IsFiniteSet(q)
      BY <3>4, FS_Subset, u \in SUBSET S
    <3>7. G(r)[q] = G(q)[q]
      <4> HIDE DEF q, r, G
      <4> QED
        BY <2>3, <3>5, <3>4, <3>6, SumsAgree
    <3> QED
      BY <3>1, <3>2, <3>7
  <2> QED
    BY <2>4, <2>5
<1>5. Sums(g, f, u)
  <2>1. ASSUME NEW s \in SUBSET u
        PROVE  g[s] = IF s = {} THEN 0 ELSE f[Pick(s)] + g[s \ {Pick(s)}]
    <3>1. CASE s = {}
      BY <3>1
    <3>2. CASE s # {}
      <4>1. g[s] = f[Pick(s)] + G(s \ {Pick(s)})[s \ {Pick(s)}]
        BY <3>2
      <4>2. g[s \ {Pick(s)}] = G(s \ {Pick(s)})[s \ {Pick(s)}]
        BY <1>4, <3>2
      <4> HIDE DEF g, G
      <4> QED
        BY <4>1, <4>2, <3>2
    <3> QED
      BY <3>1, <3>2
  <2>2. g = [s \in SUBSET u |-> g[s]]
    OBVIOUS
  <2>3. [s \in SUBSET u |-> g[s]] =
          [s \in SUBSET u |-> IF s = {} THEN 0 ELSE f[Pick(s)] + g[s \ {Pick(s)}]]
    <3> HIDE DEF g
    <3> QED
      BY <2>1
  <2> HIDE DEF g
  <2> QED
    BY <2>2, <2>3 DEF Sums
<1> QED
  BY <1>5

\* The fold of MapThenSumSet is one of them.
LEMMA TotalIsSum ==
  ASSUME NEW f, NEW S, IsFiniteSet(S)
  PROVE  \E h : Sums(h, f, S) /\ Total(f, S) = h[S]
<1> DEFINE it == CHOOSE h : Sums(h, f, S)
<1>1. Sums(it, f, S)
  BY SumsExist
<1>2. Total(f, S) = it[S]
  BY DEF Total, MapThenSumSet, MapThenFoldSet, Sums, Pick
<1> QED
  BY <1>1, <1>2

\* No chunk: zero.
LEMMA TotalEmpty ==
  ASSUME NEW f
  PROVE  Total(f, {}) = 0
<1>1. IsFiniteSet({})
  BY FS_EmptySet
<1>2. PICK h : Sums(h, f, {}) /\ Total(f, {}) = h[{}]
  BY <1>1, TotalIsSum
<1> QED
  BY <1>2, SumsAt

\* The first step of the fold.
LEMMA TotalStep ==
  ASSUME NEW f, NEW S, IsFiniteSet(S), S # {}
  PROVE  Pick(S) \in S /\ Total(f, S) = f[Pick(S)] + Total(f, S \ {Pick(S)})
<1> DEFINE x == Pick(S)
           R == S \ {x}
<1>1. x \in S /\ R \subseteq S /\ IsFiniteSet(R)
  BY FS_Subset DEF Pick
<1>2. PICK h : Sums(h, f, S) /\ Total(f, S) = h[S]
  BY TotalIsSum
<1>3. PICK g : Sums(g, f, R) /\ Total(f, R) = g[R]
  <2> HIDE DEF R
  <2> QED
    BY <1>1, TotalIsSum
<1>4. h[S] = f[x] + h[R]
  BY <1>2, SumsAt
<1>5. h[R] = g[R]
  <2> HIDE DEF R
  <2> QED
    BY <1>1, <1>2, <1>3, SumsAgree
<1> QED
  BY <1>1, <1>2, <1>3, <1>4, <1>5

\* Sizes are natural numbers, and so is their sum.
LEMMA TotalType ==
  ASSUME NEW D, NEW f \in [D -> Nat], NEW S \in SUBSET D, IsFiniteSet(S)
  PROVE  Total(f, S) \in Nat
<1> DEFINE Bad == {u \in SUBSET S : Total(f, u) \notin Nat}
<1> SUFFICES ASSUME Total(f, S) \notin Nat
             PROVE  FALSE
  OBVIOUS
<1>1. Bad # {} /\ Bad \in SUBSET (SUBSET S)
  OBVIOUS
<1>2. PICK u \in Bad : \A v \in Bad : v \subseteq u => v = u
  <2> HIDE DEF Bad
  <2> QED
    BY <1>1, LeastSet
<1>3. u \subseteq S /\ u \subseteq D /\ IsFiniteSet(u) /\ Total(f, u) \notin Nat
  BY FS_Subset
<1>4. u # {}
  BY <1>3, TotalEmpty
<1> DEFINE x == Pick(u)
<1>5. x \in u /\ Total(f, u) = f[x] + Total(f, u \ {x})
  BY <1>3, <1>4, TotalStep
<1>6. f[x] \in Nat
  BY <1>3, <1>5
<1>7. Total(f, u \ {x}) \in Nat
  BY <1>2, <1>3, <1>5
<1> QED
  BY <1>3, <1>5, <1>6, <1>7

\* One chunk less: its size less, whichever it is.
LEMMA TotalRemove ==
  ASSUME NEW D, NEW f \in [D -> Nat], NEW S \in SUBSET D, IsFiniteSet(S), NEW p \in S
  PROVE  Total(f, S) = f[p] + Total(f, S \ {p})
<1> DEFINE Bad == {u \in SUBSET S : \E q \in u : Total(f, u) # f[q] + Total(f, u \ {q})}
<1> SUFFICES ASSUME Total(f, S) # f[p] + Total(f, S \ {p})
             PROVE  FALSE
  OBVIOUS
<1>1. Bad # {} /\ Bad \in SUBSET (SUBSET S)
  OBVIOUS
<1>2. PICK u \in Bad : \A v \in Bad : v \subseteq u => v = u
  <2> HIDE DEF Bad
  <2> QED
    BY <1>1, LeastSet
<1>3. PICK q \in u : Total(f, u) # f[q] + Total(f, u \ {q})
  OBVIOUS
<1>4. u \subseteq S /\ u \subseteq D /\ IsFiniteSet(u)
  BY FS_Subset
<1>5. ASSUME NEW v \in SUBSET u, v # u, NEW y \in v
      PROVE  Total(f, v) = f[y] + Total(f, v \ {y})
  BY <1>2, <1>4, <1>5
<1> DEFINE x == Pick(u)
<1>6. x \in u /\ Total(f, u) = f[x] + Total(f, u \ {x})
  BY <1>4, TotalStep
<1> HIDE DEF x, Bad
<1>7. x # q
  BY <1>3, <1>6
<1>8. Total(f, u \ {x}) = f[q] + Total(f, (u \ {x}) \ {q})
  BY <1>5, <1>6, <1>7
<1>9. Total(f, u \ {q}) = f[x] + Total(f, (u \ {x}) \ {q})
  <2>1. Total(f, u \ {q}) = f[x] + Total(f, (u \ {q}) \ {x})
    BY <1>5, <1>6, <1>7
  <2>2. (u \ {q}) \ {x} = (u \ {x}) \ {q}
    OBVIOUS
  <2> QED
    BY <2>1, <2>2, Zenon
<1>10. f[x] \in Nat /\ f[q] \in Nat /\ Total(f, (u \ {x}) \ {q}) \in Nat
  <2>1. (u \ {x}) \ {q} \in SUBSET D /\ IsFiniteSet((u \ {x}) \ {q})
    BY <1>4, FS_Subset, (u \ {x}) \ {q} \in SUBSET u
  <2> QED
    BY <1>4, <1>6, <2>1, TotalType
<1> QED
  BY <1>3, <1>6, <1>8, <1>9, <1>10

\* A part of the chunks has no more than all of them.
LEMMA TotalSubset ==
  ASSUME NEW D, NEW f \in [D -> Nat], NEW S \in SUBSET D, IsFiniteSet(S), NEW R \in SUBSET S
  PROVE  Total(f, R) <= Total(f, S)
<1> DEFINE Bad == {u \in SUBSET S : R \subseteq u /\ ~(Total(f, R) <= Total(f, u))}
<1> SUFFICES ASSUME ~(Total(f, R) <= Total(f, S))
             PROVE  FALSE
  OBVIOUS
<1>1. Bad # {} /\ Bad \in SUBSET (SUBSET S)
  OBVIOUS
<1>2. PICK u \in Bad : \A v \in Bad : v \subseteq u => v = u
  <2> HIDE DEF Bad
  <2> QED
    BY <1>1, LeastSet
<1>3. u \in SUBSET D /\ IsFiniteSet(u) /\ R \subseteq u /\ ~(Total(f, R) <= Total(f, u))
  BY FS_Subset
<1>4. IsFiniteSet(R) /\ R \in SUBSET D
  BY FS_Subset
<1>5. Total(f, R) \in Nat
  BY <1>4, TotalType
<1>6. PICK p \in u : p \notin R
  BY <1>3, <1>5
<1>7. u \ {p} \in SUBSET D /\ IsFiniteSet(u \ {p})
  BY <1>3, FS_Subset, u \ {p} \in SUBSET u
<1>8. Total(f, u \ {p}) \in Nat /\ f[p] \in Nat
  BY <1>3, <1>7, TotalType
<1>9. Total(f, u) = f[p] + Total(f, u \ {p})
  BY <1>3, TotalRemove
<1>10. Total(f, R) <= Total(f, u \ {p})
  <2>1. u \ {p} \in SUBSET S /\ R \subseteq u \ {p} /\ u \ {p} # u
    BY <1>3, <1>6
  <2>2. u \ {p} \notin Bad
    BY <1>2, <2>1
  <2> QED
    BY <2>1, <2>2
<1> QED
  BY <1>3, <1>5, <1>8, <1>9, <1>10

-----------------------------------------------------------------------------
(* Sequences. *)

\* f takes the elements of S out of the prefixes of s that are no longer than n.
Filters(f, s, S, n) ==
  f = [k \in 0..n |->
         IF k = 0 THEN <<>>
         ELSE IF s[k] \in S THEN f[k - 1]
         ELSE Append(f[k - 1], s[k])]

\* There is such a function for every prefix.
LEMMA FiltersExist ==
  ASSUME NEW s, NEW S, NEW N \in Nat
  PROVE  \E f : Filters(f, s, S, N)
<1> DEFINE Bad == {n \in 0..N : ~ \E f : Filters(f, s, S, n)}
<1> SUFFICES ASSUME ~ \E f : Filters(f, s, S, N)
             PROVE  FALSE
  OBVIOUS
<1>1. Bad # {} /\ Bad \in SUBSET (0..N)
  OBVIOUS
<1>2. PICK n \in Bad : \A k \in Bad : n <= k
  <2> HIDE DEF Bad
  <2> QED
    BY <1>1, LeastNumber
<1>3. CASE n = 0
  <2>1. Filters([k \in 0..0 |-> <<>>], s, S, 0)
    BY DEF Filters
  <2> QED
    BY <1>3, <2>1
<1>4. CASE n # 0
  <2>1. n - 1 \in 0..N /\ n - 1 \notin Bad
    BY <1>2, <1>4
  <2>2. PICK f : Filters(f, s, S, n - 1)
    BY <2>1
  <2> DEFINE g == [k \in 0..n |->
                     IF k < n THEN f[k]
                     ELSE IF s[k] \in S THEN f[k - 1]
                     ELSE Append(f[k - 1], s[k])]
  <2>3. ASSUME NEW k \in 0..n
        PROVE  g[k] = IF k = 0 THEN <<>>
                      ELSE IF s[k] \in S THEN g[k - 1]
                      ELSE Append(g[k - 1], s[k])
    <3>1. n \in Nat /\ k \in Nat
      OBVIOUS
    <3>2. CASE k = n
      <4>1. g[k - 1] = f[k - 1] /\ k # 0
        BY <1>4, <3>1, <3>2
      <4> QED
        BY <3>2, <4>1
    <3>3. CASE k # n
      <4>1. k \in 0..n - 1 /\ g[k] = f[k]
        BY <3>1, <3>3
      <4>2. f[k] = IF k = 0 THEN <<>>
                   ELSE IF s[k] \in S THEN f[k - 1]
                   ELSE Append(f[k - 1], s[k])
        BY <2>2, <4>1 DEF Filters
      <4>3. k # 0 => g[k - 1] = f[k - 1]
        BY <3>1, <4>1
      <4> QED
        BY <4>1, <4>2, <4>3
    <3> QED
      BY <3>2, <3>3
  <2>4. g = [k \in 0..n |-> g[k]]
    OBVIOUS
  <2>5. Filters(g, s, S, n)
    <3> HIDE DEF g
    <3> QED
      BY <2>3, <2>4 DEF Filters
  <2> QED
    BY <2>5
<1> QED
  BY <1>3, <1>4

\* q is what is left of the first n elements of s: the elements not in S, in order.
Leftover(q, s, S, n, D) ==
  /\ q \in Seq(D)
  /\ \A x : (\E k \in 1..Len(q) : q[k] = x) <=> (x \notin S /\ \E k \in 1..n : s[k] = x)
  /\ \E m \in [1..Len(q) -> 1..n] :
       /\ \A i, j \in 1..Len(q) : i < j => m[i] < m[j]
       /\ \A i \in 1..Len(q) : q[i] = s[m[i]]

\* One element more: left out, or added at the end.
LEMMA LeftoverStep ==
  ASSUME NEW D, NEW s \in Seq(D), NEW S, NEW n \in 1..Len(s), NEW q, Leftover(q, s, S, n - 1, D)
  PROVE  Leftover(IF s[n] \in S THEN q ELSE Append(q, s[n]), s, S, n, D)
<1>1. q \in Seq(D) /\ Len(q) \in Nat /\ n \in Nat
  BY DEF Leftover
<1>2. \A x : (\E k \in 1..Len(q) : q[k] = x) <=> (x \notin S /\ \E k \in 1..n - 1 : s[k] = x)
  BY DEF Leftover
<1>3. PICK m \in [1..Len(q) -> 1..n - 1] :
        /\ \A i, j \in 1..Len(q) : i < j => m[i] < m[j]
        /\ \A i \in 1..Len(q) : q[i] = s[m[i]]
  BY DEF Leftover
<1>4. CASE s[n] \in S
  <2>1. \A x : (\E k \in 1..Len(q) : q[k] = x) <=> (x \notin S /\ \E k \in 1..n : s[k] = x)
    <3> TAKE x
    <3>1. (\E k \in 1..n : s[k] = x) <=> ((\E k \in 1..n - 1 : s[k] = x) \/ s[n] = x)
      BY <1>1
    <3> QED
      BY <1>2, <1>4, <3>1
  <2>2. m \in [1..Len(q) -> 1..n]
    BY <1>1, <1>3
  <2>3. Leftover(q, s, S, n, D)
    BY <1>1, <1>3, <2>1, <2>2 DEF Leftover
  <2> QED
    BY <1>4, <2>3
<1>5. CASE s[n] \notin S
  <2> DEFINE r == Append(q, s[n])
             M == [i \in 1..Len(q) + 1 |-> IF i = Len(q) + 1 THEN n ELSE m[i]]
  <2>1. r \in Seq(D) /\ Len(r) = Len(q) + 1 /\ r[Len(q) + 1] = s[n]
          /\ \A i \in 1..Len(q) : r[i] = q[i]
    BY <1>1
  <2> HIDE DEF r
  <2>2. \A x : (\E k \in 1..Len(r) : r[k] = x) <=> (x \notin S /\ \E k \in 1..n : s[k] = x)
    <3> TAKE x
    <3>1. (\E k \in 1..Len(r) : r[k] = x) <=> ((\E k \in 1..Len(q) : q[k] = x) \/ s[n] = x)
      <4>1. Len(q) + 1 \in 1..Len(r) /\ 1..Len(q) \subseteq 1..Len(r)
        BY <1>1, <2>1
      <4>2. \A k \in 1..Len(r) : k \in 1..Len(q) \/ k = Len(q) + 1
        BY <1>1, <2>1
      <4> QED
        BY <2>1, <4>1, <4>2
    <3>2. (\E k \in 1..n : s[k] = x) <=> ((\E k \in 1..n - 1 : s[k] = x) \/ s[n] = x)
      BY <1>1
    <3> QED
      BY <1>2, <1>5, <3>1, <3>2
  <2>3. M \in [1..Len(r) -> 1..n]
    BY <1>1, <1>3, <2>1
  <2>4. ASSUME NEW i \in 1..Len(r), NEW j \in 1..Len(r), i < j
        PROVE  M[i] < M[j]
    <3>1. i \in 1..Len(q) /\ M[i] = m[i] /\ m[i] \in 1..n - 1
      BY <1>1, <1>3, <2>1, <2>4, SMTT(30)
    <3>2. CASE j = Len(q) + 1
      BY <1>1, <3>1, <3>2, <2>1
    <3>3. CASE j # Len(q) + 1
      <4>1. j \in 1..Len(q) /\ M[j] = m[j]
        BY <1>1, <2>1, <3>3
      <4> QED
        BY <1>3, <2>4, <3>1, <4>1
    <3> QED
      BY <3>2, <3>3
  <2>5. \A i \in 1..Len(r) : r[i] = s[M[i]]
    BY <1>1, <1>3, <2>1
  <2>6. Leftover(r, s, S, n, D)
    <3> HIDE DEF M
    <3> QED
      BY <2>1, <2>2, <2>3, <2>4, <2>5 DEF Leftover
  <2> QED
    BY <1>5, <2>6 DEF r
<1> QED
  BY <1>4, <1>5

\* What Without leaves.
LEMMA WithoutLeaves ==
  ASSUME NEW D, NEW s \in Seq(D), NEW S
  PROVE  Leftover(Without(s, S), s, S, Len(s), D)
<1> DEFINE f == CHOOSE g : Filters(g, s, S, Len(s))
<1>1. Len(s) \in Nat
  OBVIOUS
<1>2. Filters(f, s, S, Len(s))
  BY <1>1, FiltersExist
<1>3. Without(s, S) = f[Len(s)]
  BY DEF Without, Filters
<1> HIDE DEF f
<1> DEFINE Bad == {n \in 0..Len(s) : ~Leftover(f[n], s, S, n, D)}
<1> SUFFICES ASSUME Bad # {}
             PROVE  FALSE
  BY <1>1, <1>3
<1>4. PICK n \in Bad : \A k \in Bad : n <= k
  <2> HIDE DEF Bad
  <2> QED
    BY <1>1, LeastNumber, Bad \in SUBSET (0..Len(s)) DEF Bad
<1>5. CASE n = 0
  <2>1. f[0] = <<>>
    BY <1>1, <1>2 DEF Filters
  <2>2. PICK e : e = <<>>
    OBVIOUS
  <2>3. e \in Seq(D) /\ Len(e) = 0 /\ 1..Len(e) = {} /\ 1..0 = {}
    BY <2>2
  <2>4. [i \in 1..Len(e) |-> 0] \in [1..Len(e) -> 1..0]
    BY <2>3
  <2>5. Leftover(e, s, S, 0, D)
    <3>1. \A x : ~(\E k \in 1..Len(e) : e[k] = x) /\ ~(\E k \in 1..0 : s[k] = x)
      BY <2>3
    <3>2. \E m \in [1..Len(e) -> 1..0] :
            /\ \A i, j \in 1..Len(e) : i < j => m[i] < m[j]
            /\ \A i \in 1..Len(e) : e[i] = s[m[i]]
      BY <2>3, <2>4
    <3> QED
      BY <2>3, <3>1, <3>2 DEF Leftover
  <2> QED
    BY <1>5, <2>1, <2>2, <2>5
<1>6. CASE n # 0
  <2>1. n \in 1..Len(s) /\ n - 1 \in 0..Len(s) /\ n - 1 \notin Bad
    BY <1>1, <1>4, <1>6
  <2>2. Leftover(f[n - 1], s, S, n - 1, D)
    BY <2>1
  <2>3. f[n] = IF s[n] \in S THEN f[n - 1] ELSE Append(f[n - 1], s[n])
    BY <1>2, <1>6, <2>1 DEF Filters
  <2>4. Leftover(f[n], s, S, n, D)
    BY <2>1, <2>2, <2>3, LeftoverStep
  <2> QED
    BY <2>4
<1> QED
  BY <1>5, <1>6

\* Without(s, S) has the elements of s that are not in S, and no others.
LEMMA WithoutElements ==
  ASSUME NEW D, NEW s \in Seq(D), NEW S
  PROVE  /\ Without(s, S) \in Seq(D)
         /\ {Without(s, S)[k] : k \in DOMAIN Without(s, S)} = {s[k] : k \in DOMAIN s} \ S
<1>1. PICK r : r = Without(s, S)
  OBVIOUS
<1>2. /\ r \in Seq(D)
      /\ \A x : (\E k \in 1..Len(r) : r[k] = x) <=> (x \notin S /\ \E k \in 1..Len(s) : s[k] = x)
  BY <1>1, WithoutLeaves DEF Leftover
<1>3. DOMAIN r = 1..Len(r) /\ DOMAIN s = 1..Len(s)
  BY <1>2
<1>4. {r[k] : k \in DOMAIN r} = {s[k] : k \in DOMAIN s} \ S
  BY <1>2, <1>3
<1> QED
  BY <1>1, <1>2, <1>4

\* Without keeps elements apart that have different keys.
LEMMA WithoutDistinct ==
  ASSUME NEW D, NEW s \in Seq(D), NEW S, NEW key,
         \A i, j \in 1..Len(s) : key[s[i]] = key[s[j]] => i = j
  PROVE  \A i, j \in 1..Len(Without(s, S)) :
           key[Without(s, S)[i]] = key[Without(s, S)[j]] => i = j
<1>1. PICK r : r = Without(s, S)
  OBVIOUS
<1>2. r \in Seq(D) /\ Len(r) \in Nat
  BY <1>1, WithoutLeaves DEF Leftover
<1>3. PICK m \in [1..Len(r) -> 1..Len(s)] :
        /\ \A i, j \in 1..Len(r) : i < j => m[i] < m[j]
        /\ \A i \in 1..Len(r) : r[i] = s[m[i]]
  BY <1>1, WithoutLeaves DEF Leftover
<1>4. ASSUME NEW i \in 1..Len(r), NEW j \in 1..Len(r), key[r[i]] = key[r[j]]
      PROVE  i = j
  <2>1. m[i] = m[j] /\ m[i] \in Nat /\ m[j] \in Nat
    BY <1>3, <1>4
  <2>2. ~(i < j) /\ ~(j < i) /\ i \in Nat /\ j \in Nat
    BY <1>3, <2>1
  <2> QED
    BY <2>2
<1> QED
  BY <1>1, <1>4

\* A sequence without repetitions is as long as it has elements.
LEMMA DistinctLength ==
  ASSUME NEW D, NEW s \in Seq(D), \A i, j \in 1..Len(s) : s[i] = s[j] => i = j
  PROVE  /\ IsFiniteSet({s[k] : k \in DOMAIN s})
         /\ Cardinality({s[k] : k \in DOMAIN s}) = Len(s)
<1> DEFINE E == {s[k] : k \in DOMAIN s}
<1>1. Len(s) \in Nat /\ DOMAIN s = 1..Len(s)
  OBVIOUS
<1>2. [k \in 1..Len(s) |-> s[k]] \in Bijection(1..Len(s), E)
  <2> DEFINE f == [k \in 1..Len(s) |-> s[k]]
  <2>1. f \in [1..Len(s) -> E]
    BY <1>1
  <2>2. \A i, j \in 1..Len(s) : f[i] = f[j] => i = j
    OBVIOUS
  <2>3. \A x \in E : \E k \in 1..Len(s) : f[k] = x
    BY <1>1
  <2> HIDE DEF f, E
  <2>4. f \in Injection(1..Len(s), E) /\ f \in Surjection(1..Len(s), E)
    BY <2>1, <2>2, <2>3 DEF Injection, Surjection, IsInjective
  <2>5. f \in Bijection(1..Len(s), E)
    BY <2>4 DEF Bijection
  <2> QED
    BY <2>5 DEF f
<1>3. ExistsBijection(1..Len(s), E)
  BY <1>2 DEF ExistsBijection
<1>4. IsFiniteSet(E)
  <2> HIDE DEF E
  <2> QED
    BY <1>1, <1>3, FS_NatBijection
<1>5. Cardinality(E) = Len(s)
  <2> HIDE DEF E
  <2> QED
    BY <1>1, <1>3, FS_CountingElements
<1> QED
  BY <1>4, <1>5

-----------------------------------------------------------------------------
(* Joining sequences: FlattenSeq. *)

\* What the models sum over a function.
LEMMA SumIsTotal ==
  ASSUME NEW f, NEW S
  PROVE  SumFunctionOnSet(f, S) = Total(f, S)
BY DEF SumFunctionOnSet, FoldFunctionOnSet, Total, MapThenSumSet, MapThenFoldSet

\* The length of s \o t, and what comes after s.
LEMMA ConcatLength ==
  ASSUME NEW D, NEW s \in Seq(D), NEW t \in Seq(D)
  PROVE  Len(s \o t) = Len(s) + Len(t)
OBVIOUS

\* The second part of a concatenation comes after the first.
LEMMA ConcatAfter ==
  ASSUME NEW D, NEW s \in Seq(D), NEW t \in Seq(D)
  PROVE  \A i \in 1..Len(t) : (s \o t)[Len(s) + i] = t[i]
OBVIOUS

\* f joins the first sequences of ss.
Joins(f, ss, n) ==
  f = [k \in 1..n |-> IF k = 1 THEN ss[k] ELSE f[k - 1] \o ss[k]]

\* There is such a function for every prefix.
LEMMA JoinsExist ==
  ASSUME NEW ss, NEW N \in Nat
  PROVE  \E f : Joins(f, ss, N)
<1> DEFINE Bad == {n \in 0..N : ~ \E f : Joins(f, ss, n)}
<1> SUFFICES ASSUME ~ \E f : Joins(f, ss, N)
             PROVE  FALSE
  OBVIOUS
<1>1. Bad # {} /\ Bad \in SUBSET (0..N)
  OBVIOUS
<1>2. PICK n \in Bad : \A k \in Bad : n <= k
  <2> HIDE DEF Bad
  <2> QED
    BY <1>1, LeastNumber
<1>3. CASE n = 0
  <2>1. Joins([k \in 1..0 |-> <<>>], ss, 0)
    BY DEF Joins
  <2> QED
    BY <1>3, <2>1
<1>4. CASE n # 0
  <2>1. n - 1 \in 0..N /\ n - 1 \notin Bad
    BY <1>2, <1>4
  <2>2. PICK f : Joins(f, ss, n - 1)
    BY <2>1
  <2> DEFINE g == [k \in 1..n |->
                     IF k < n THEN f[k] ELSE IF k = 1 THEN ss[k] ELSE f[k - 1] \o ss[k]]
  <2>3. ASSUME NEW k \in 1..n
        PROVE  g[k] = IF k = 1 THEN ss[k] ELSE g[k - 1] \o ss[k]
    <3>1. n \in Nat /\ k \in Nat /\ k # 0
      OBVIOUS
    <3>2. CASE k = n
      <4>1. k # 1 => g[k - 1] = f[k - 1]
        BY <1>4, <3>1, <3>2
      <4> QED
        BY <3>2, <4>1
    <3>3. CASE k # n
      <4>1. k \in 1..n - 1 /\ g[k] = f[k]
        BY <3>1, <3>3
      <4>2. f[k] = IF k = 1 THEN ss[k] ELSE f[k - 1] \o ss[k]
        BY <2>2, <4>1 DEF Joins
      <4>3. k # 1 => g[k - 1] = f[k - 1]
        BY <3>1, <4>1
      <4> QED
        BY <4>1, <4>2, <4>3
    <3> QED
      BY <3>2, <3>3
  <2>4. g = [k \in 1..n |-> g[k]]
    OBVIOUS
  <2>5. Joins(g, ss, n)
    <3> HIDE DEF g
    <3> QED
      BY <2>3, <2>4 DEF Joins
  <2> QED
    BY <2>5
<1> QED
  BY <1>3, <1>4

\* s is the first n sequences of ss one after the other: element c of ss[g] comes
\* after those of the sequences before it, start[g] in all.
Joined(s, ss, start, n, D) ==
  /\ s \in Seq(D) /\ Len(s) = start[n + 1]
  /\ \A g \in 1..n, c \in Nat :
       c \in 1..Len(ss[g]) => start[g] + c \in 1..Len(s) /\ s[start[g] + c] = ss[g][c]
  /\ \A p \in 1..Len(s) : \E g \in 1..n, c \in Nat : c \in 1..Len(ss[g]) /\ p = start[g] + c

\* How many elements come before each sequence of ss.
Starts(start, ss) ==
  /\ \A g \in 1..Len(ss) + 1 : start[g] \in Nat
  /\ start[1] = 0
  /\ \A g \in 1..Len(ss) : start[g + 1] = start[g] + Len(ss[g])

\* One sequence more.
LEMMA JoinedStep ==
  ASSUME NEW D, NEW ss \in Seq(Seq(D)), NEW start, Starts(start, ss),
         NEW n \in 1..Len(ss),
         NEW s, Joined(s, ss, start, n - 1, D)
  PROVE  Joined(s \o ss[n], ss, start, n, D)
<1>1. PICK t \in Seq(D) : t = ss[n]
  OBVIOUS
<1>2. PICK r : r = s \o t
  OBVIOUS
<1>3. s \in Seq(D) /\ Len(s) = start[n] /\ n \in Nat
  BY DEF Joined
<1>4. /\ r \in Seq(D) /\ Len(r) = Len(s) + Len(t)
      /\ \A i \in 1..Len(s) : r[i] = s[i]
      /\ \A i \in 1..Len(t) : r[Len(s) + i] = t[i]
  <2>1. s \o t \in Seq(D)
    BY <1>3
  <2>2. Len(s \o t) = Len(s) + Len(t)
    BY <1>3, ConcatLength, Zenon
  <2>3. \A i \in 1..Len(s) : (s \o t)[i] = s[i]
    BY <1>3
  <2>4. \A i \in 1..Len(t) : (s \o t)[Len(s) + i] = t[i]
    BY <1>3, ConcatAfter, Zenon
  <2> QED
    BY <1>2, <2>1, <2>2, <2>3, <2>4, Zenon
<1>5. start[n] \in Nat /\ Len(t) \in Nat /\ Len(s) \in Nat /\ start[n + 1] = start[n] + Len(t)
  BY <1>1, <1>3 DEF Starts
<1>6. Len(r) = start[n + 1]
  BY <1>3, <1>4, <1>5
<1>7. ASSUME NEW g \in 1..n, NEW c \in Nat, c \in 1..Len(ss[g])
      PROVE  start[g] + c \in 1..Len(r) /\ r[start[g] + c] = ss[g][c]
  <2>1. CASE g = n
    <3>1. c \in 1..Len(t) /\ start[g] = Len(s) /\ ss[g] = t
      BY <1>1, <1>3, <1>7, <2>1
    <3>2. r[Len(s) + c] = t[c]
      BY <1>4, <3>1
    <3> QED
      BY <1>4, <1>5, <3>1, <3>2
  <2>2. CASE g # n
    <3>1. PICK x : x = start[g] + c /\ x \in 1..Len(s) /\ s[x] = ss[g][c]
      <4>1. g \in 1..n - 1
        BY <2>2, <1>3
      <4> QED
        BY <4>1, <1>7, SMTT(30) DEF Joined
    <3>2. r[x] = s[x]
      BY <1>4, <3>1
    <3>3. Len(r) = Len(s) + Len(t)
      BY <1>4
    <3>4. x \in 1..Len(r)
      BY <1>5, <3>1, <3>3, SMTT(30)
    <3> QED
      BY <3>1, <3>2, <3>4
  <2> QED
    BY <2>1, <2>2
<1>8. ASSUME NEW p \in 1..Len(r)
      PROVE  \E g \in 1..n, c \in Nat : c \in 1..Len(ss[g]) /\ p = start[g] + c
  <2>1. CASE p <= Len(s)
    <3>1. p \in 1..Len(s)
      BY <1>5, <2>1
    <3>2. PICK g \in 1..n - 1, c \in Nat : c \in 1..Len(ss[g]) /\ p = start[g] + c
      BY <3>1 DEF Joined
    <3>3. g \in 1..n
      BY <1>3
    <3> QED
      BY <3>2, <3>3
  <2>2. CASE ~(p <= Len(s))
    <3>1. Len(r) = Len(s) + Len(t) /\ Len(s) = start[n]
      BY <1>3, <1>4
    <3>2. p - Len(s) \in 1..Len(t) /\ p - Len(s) \in Nat /\ p = start[n] + (p - Len(s))
      BY <1>5, <2>2, <3>1, SMTT(30)
    <3>3. n \in 1..n
      BY <1>3
    <3> QED
      BY <1>1, <3>2, <3>3
  <2> QED
    BY <2>1, <2>2
<1>9. Joined(r, ss, start, n, D)
  BY <1>4, <1>6, <1>7, <1>8 DEF Joined
<1> QED
  BY <1>1, <1>2, <1>9

\* FlattenSeq joins all of them.
LEMMA FlattenJoined ==
  ASSUME NEW D, NEW ss \in Seq(Seq(D)), NEW start, Starts(start, ss)
  PROVE  Joined(FlattenSeq(ss), ss, start, Len(ss), D)
<1>1. PICK N \in Nat : N = Len(ss)
  OBVIOUS
<1>2. Joined(<<>>, ss, start, 0, D)
  BY DEF Joined, Starts
<1>3. CASE N = 0
  <2>1. ss = <<>>
    BY <1>1, <1>3, EmptySeq
  <2>2. FlattenSeq(ss) = <<>>
    BY <2>1 DEF FlattenSeq
  <2> QED
    BY <1>1, <1>2, <1>3, <2>2
<1>4. CASE N # 0
  <2> DEFINE f == CHOOSE g : Joins(g, ss, Len(ss))
  <2>1. Joins(f, ss, N)
    BY <1>1, JoinsExist
  <2>2. FlattenSeq(ss) = f[N]
    BY <1>1, <1>4 DEF FlattenSeq, Joins
  <2> HIDE DEF f
  <2> DEFINE Bad == {n \in 0..N : n # 0 /\ ~Joined(f[n], ss, start, n, D)}
  <2>3. ASSUME Bad # {}
        PROVE  FALSE
    <3>1. PICK n \in Bad : \A k \in Bad : n <= k
      <4>1. Bad \in SUBSET (0..N)
        OBVIOUS
      <4> HIDE DEF Bad
      <4> QED
        BY <2>3, <4>1, LeastNumber
    <3>2. n \in 1..N /\ n \in 1..Len(ss) /\ ~Joined(f[n], ss, start, n, D)
      BY <1>1
    <3>3. f[n] = IF n = 1 THEN ss[n] ELSE f[n - 1] \o ss[n]
      BY <2>1, <3>2 DEF Joins
    <3>4. CASE n = 1
      <4>1. ss[1] \in Seq(D)
        BY <3>2, <3>4
      <4>2. f[1] = <<>> \o ss[1]
        BY <3>3, <3>4, <4>1
      <4>3. Joined(<<>>, ss, start, 1 - 1, D)
        BY <1>2
      <4> QED
        BY <3>2, <3>4, <4>2, <4>3, JoinedStep
    <3>5. CASE n # 1
      <4>1. n - 1 \in 0..N /\ n - 1 # 0 /\ n - 1 < n
        BY <3>2, <3>5
      <4>2. n - 1 \notin Bad
        BY <3>1, <3>2, <4>1
      <4>3. Joined(f[n - 1], ss, start, n - 1, D)
        BY <4>1, <4>2
      <4> QED
        BY <3>2, <3>3, <3>5, <4>3, JoinedStep
    <3> QED
      BY <3>4, <3>5
  <2>4. N \notin Bad /\ N \in 0..N
    BY <2>3
  <2> QED
    BY <1>1, <1>4, <2>2, <2>4
<1> QED
  BY <1>3, <1>4

\* The total of the first numbers of a sequence.
LEMMA TotalPrefix ==
  ASSUME NEW D, NEW f \in [D -> Nat], NEW n \in Nat, 1..n \subseteq D
  PROVE  Total(f, 1..n) \in Nat
<1>1. IsFiniteSet(1..n)
  BY FS_Interval
<1> QED
  BY <1>1, TotalType

\* The total up to an index is the one before it and one more summand.
LEMMA TotalNext ==
  ASSUME NEW D, NEW f \in [D -> Nat], NEW n \in Nat, n # 0, 1..n \subseteq D
  PROVE  Total(f, 1..n) = Total(f, 1..n - 1) + f[n]
<1>1. PICK X \in SUBSET D : X = 1..n
  OBVIOUS
<1>2. PICK Y : Y = 1..n - 1
  OBVIOUS
<1>3. IsFiniteSet(X)
  BY <1>1, FS_Interval
<1>4. X \ {n} = Y
  BY <1>1, <1>2
<1>5. \A p \in X : Total(f, X) = f[p] + Total(f, X \ {p})
  BY <1>3, TotalRemove
<1>6. Total(f, X) = f[n] + Total(f, Y)
  <2>1. n \in X
    BY <1>1
  <2> QED
    BY <2>1, <1>4, <1>5, Zenon
<1>7. n \in D /\ n - 1 \in Nat /\ 1..n - 1 \subseteq D
  BY <1>1
<1>8. f[n] \in Nat /\ Total(f, Y) \in Nat
  BY <1>2, <1>7, TotalPrefix
<1> QED
  BY <1>1, <1>2, <1>6, <1>8

\* The start of a sequence is the total length of those before it.
LEMMA StartsTotal ==
  ASSUME NEW D, NEW ss \in Seq(Seq(D)), NEW len \in [1..Len(ss) -> Nat],
         \A g \in 1..Len(ss) : len[g] = Len(ss[g])
  PROVE  Starts([g \in 1..Len(ss) + 1 |-> Total(len, 1..g - 1)], ss)
<1>1. PICK N \in Nat : N = Len(ss)
  OBVIOUS
<1>2. \A g \in 1..N + 1 : Total(len, 1..g - 1) \in Nat
  <2>1. \A g \in 1..N + 1 : g - 1 \in Nat /\ 1..g - 1 \subseteq 1..N
    OBVIOUS
  <2> QED
    BY <1>1, <2>1, TotalPrefix
<1>3. Total(len, 1..0) = 0
  <2>1. 1..0 = {}
    OBVIOUS
  <2> QED
    BY <2>1, TotalEmpty
<1>4. ASSUME NEW g \in 1..N
      PROVE  Total(len, 1..g) = Total(len, 1..g - 1) + Len(ss[g])
  <2>1. g \in Nat /\ g # 0 /\ 1..g \subseteq 1..N
    OBVIOUS
  <2> QED
    BY <1>1, <2>1, TotalNext
<1> DEFINE start == [g \in 1..N + 1 |-> Total(len, 1..g - 1)]
<1>5. \A g \in 1..N + 1 : start[g] \in Nat
  BY <1>2
<1>6. start[1] = 0
  BY <1>3
<1>7. \A g \in 1..N : start[g + 1] = start[g] + Len(ss[g])
  <2>1. \A g \in 1..N : g \in 1..N + 1 /\ g + 1 \in 1..N + 1 /\ g + 1 - 1 = g
    OBVIOUS
  <2> QED
    BY <1>4, <2>1
<1>8. Starts(start, ss)
  <2> HIDE DEF start
  <2> QED
    BY <1>1, <1>5, <1>6, <1>7 DEF Starts
<1> QED
  BY <1>1, <1>8

-----------------------------------------------------------------------------
(* Quotients, remainders and the greatest of some numbers. *)

\* A quotient and a remainder determine each other.
LEMMA DivUnique ==
  ASSUME NEW b \in Nat \ {0}, NEW k \in Nat, NEW r \in 0..b - 1
  PROVE  (k * b + r) \div b = k /\ (k * b + r) % b = r
OBVIOUS

\* a lies between two multiples of b.
LEMMA DivBounds ==
  ASSUME NEW b \in Nat \ {0}, NEW a \in Nat
  PROVE  \E k \in Nat, r \in 0..b - 1 : a = k * b + r /\ a \div b = k /\ a % b = r
<1> DEFINE Over == {n \in 0..a : a < (n + 1) * b}
<1>1. a \in Over
  OBVIOUS
<1>2. PICK k \in Over : \A n \in Over : k <= n
  <2>1. Over \in SUBSET (0..a) /\ Over # {}
    BY <1>1
  <2> HIDE DEF Over
  <2> QED
    BY <2>1, LeastNumber
<1>3. k \in Nat /\ a < (k + 1) * b
  BY <1>2
<1>4. k * b <= a
  <2>1. CASE k = 0
    BY <2>1
  <2>2. CASE k # 0
    <3>1. k - 1 \in 0..a /\ k - 1 \notin Over
      BY <1>2, <2>2
    <3>2. ~(a < k * b)
      BY <3>1
    <3>3. k * b \in Nat
      BY <1>3
    <3> QED
      BY <3>2, <3>3
  <2> QED
    BY <2>1, <2>2
<1>5. a - k * b \in 0..b - 1
  <2>1. (k + 1) * b = k * b + b /\ k * b \in Nat
    BY <1>3
  <2> QED
    BY <1>3, <1>4, <2>1
<1>6. PICK r \in 0..b - 1 : r = a - k * b
  BY <1>5
<1>7. a = k * b + r
  <2>1. k * b \in Nat
    BY <1>3
  <2> QED
    BY <1>6, <2>1
<1>8. (k * b + r) \div b = k /\ (k * b + r) % b = r
  BY <1>3, DivUnique
<1> QED
  BY <1>3, <1>7, <1>8

\* The quotient is the number of the interval.
LEMMA DivIs ==
  ASSUME NEW b \in Nat \ {0}, NEW k \in Nat, NEW a \in Nat, k * b <= a, a < (k + 1) * b
  PROVE  a \div b = k /\ a % b = a - k * b
<1>1. PICK r \in 0..b - 1 : r = a - k * b
  <2>1. (k + 1) * b = k * b + b /\ k * b \in Nat
    OBVIOUS
  <2> QED
    BY <2>1
<1>2. a = k * b + r
  <2>1. k * b \in Nat
    OBVIOUS
  <2> QED
    BY <1>1, <2>1
<1>3. (k * b + r) \div b = k /\ (k * b + r) % b = r
  BY DivUnique
<1> QED
  BY <1>1, <1>2, <1>3

\* One of the first numbers of a sequence is the greatest.
LEMMA GreatestExists ==
  ASSUME NEW N \in Nat \ {0}, NEW f \in [1..N -> Nat]
  PROVE  \E m \in {f[g] : g \in 1..N} : \A x \in {f[g] : g \in 1..N} : m >= x
<1> DEFINE Bad == {n \in 0..N : n # 0 /\ ~ \E g \in 1..n : \A h \in 1..n : f[g] >= f[h]}
<1>1. Bad = {}
  <2> SUFFICES ASSUME Bad # {}
               PROVE  FALSE
    OBVIOUS
  <2>1. PICK n \in Bad : \A k \in Bad : n <= k
    <3>1. Bad \in SUBSET (0..N)
      OBVIOUS
    <3> HIDE DEF Bad
    <3> QED
      BY <3>1, LeastNumber
  <2>2. CASE n = 1
    <3>1. f[1] \in Nat
      OBVIOUS
    <3>2. \E g \in 1..1 : \A h \in 1..1 : f[g] >= f[h]
      BY <3>1
    <3> QED
      BY <2>1, <2>2, <3>2
  <2>3. CASE n # 1
    <3>1. n \in 1..N /\ n - 1 \in 0..N /\ n - 1 # 0 /\ n - 1 \notin Bad
      <4>1. n \in 0..N /\ n # 0
        OBVIOUS
      <4>2. n - 1 \in 0..N /\ n - 1 < n
        BY <4>1
      <4>3. n - 1 \notin Bad
        <5> HIDE DEF Bad
        <5> QED
          BY <2>1, <4>1, <4>2
      <4> QED
        BY <2>3, <4>1, <4>2, <4>3
    <3>2. PICK g \in 1..n - 1 : \A h \in 1..n - 1 : f[g] >= f[h]
      BY <3>1
    <3>3. g \in 1..n /\ n \in 1..n /\ f[g] \in Nat /\ f[n] \in Nat
      BY <3>1
    <3>4. \A h \in 1..n : h = n \/ h \in 1..n - 1
      BY <3>1
    <3>5. CASE f[g] >= f[n]
      <4>1. \A h \in 1..n : f[g] >= f[h]
        BY <3>2, <3>4, <3>5
      <4> QED
        BY <2>1, <3>3, <4>1
    <3>6. CASE f[n] >= f[g]
      <4>1. \A h \in 1..n - 1 : f[h] \in Nat
        BY <3>1
      <4>2. \A h \in 1..n - 1 : f[n] >= f[h]
        BY <3>2, <3>3, <3>6, <4>1
      <4>3. \A h \in 1..n : f[n] >= f[h]
        BY <3>3, <3>4, <4>2
      <4> QED
        BY <2>1, <3>3, <4>3
    <3> QED
      BY <3>3, <3>5, <3>6
  <2> QED
    BY <2>2, <2>3
<1>2. N \in 0..N /\ N # 0 /\ N \notin Bad
  <2> HIDE DEF Bad
  <2> QED
    BY <1>1
<1>3. PICK g \in 1..N : \A h \in 1..N : f[g] >= f[h]
  BY <1>2
<1> QED
  BY <1>3
=============================================================================
