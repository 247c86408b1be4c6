----------------------------- MODULE DataLemmas -----------------------------
(***************************************************************************)
(* Facts about the data that the modules compute with: induction over an   *)
(* interval, functions that are defined by recursion over one, finite sets *)
(* that an injective order puts in a row, and sequences of sequences made  *)
(* flat.  They are stated of sets and functions, which the provers can     *)
(* instantiate.                                                            *)
(***************************************************************************)
EXTENDS Sequences, SequencesExt, FiniteSetTheorems, TLAPS

(* A set of numbers that has any has a least one. *)
LEMMA LeastElement ==
    ASSUME NEW n \in Nat, NEW H \in SUBSET (0..n), H # {}
    PROVE  \E p \in H : \A q \in H : p <= q
<1>. DEFINE T == {H \cap (0..p) : p \in H}
<1>1. IsFiniteSet(0..n) /\ FiniteSubsetsOf(0..n) = SUBSET (0..n)
  <2>1. IsFiniteSet(0..n)
    BY FS_Interval
  <2>. QED  BY <2>1, FS_FiniteSubsetsOfFinite
<1>2. T \subseteq SUBSET (0..n) /\ T # {}
  OBVIOUS
<1>3. PICK X \in T : \A Y \in T : ~(<<Y, X>> \in StrictSubsetOrdering(0..n))
  <2>. HIDE DEF T
  <2>1. IsWellFoundedOn(StrictSubsetOrdering(0..n), FiniteSubsetsOf(0..n))
    BY FS_StrictSubsetOrderingWellFounded
  <2>. QED  BY <1>1, <1>2, <2>1, WFMin
<1>4. PICK p \in H : X = H \cap (0..p)
  OBVIOUS
<1>5. ASSUME NEW q \in H PROVE p <= q
  <2> SUFFICES ASSUME q < p PROVE FALSE
    OBVIOUS
  <2>1. p \in X /\ p \notin H \cap (0..q)
    BY <1>4
  <2>2. H \cap (0..q) \in T /\ H \cap (0..q) \subseteq X
    BY <1>4
  <2>. QED  BY <1>2, <1>3, <2>1, <2>2 DEF StrictSubsetOrdering
<1>. QED  BY <1>5

(* What holds of a number when it holds of the smaller ones holds of all. *)
LEMMA Induction ==
    ASSUME NEW n \in Nat, NEW S,
           \A k \in 0..n : (\A j \in 0..(k - 1) : j \in S) => k \in S
    PROVE  (\A k \in 0..n : k \in S) /\ n \in S
<1>0. SUFFICES \A k \in 0..n : k \in S
  OBVIOUS
<1> SUFFICES ASSUME (0..n) \ S # {} PROVE FALSE
  OBVIOUS
<1>1. PICK p \in (0..n) \ S : \A q \in (0..n) \ S : p <= q
  BY LeastElement
<1>2. \A j \in 0..(p - 1) : j \in S
  BY <1>1
<1>. QED  BY <1>1, <1>2

(* What make[k] makes of a function depends on its values below k only. *)
LooksBelow(make, n, V) ==
    /\ n \in Nat /\ V # {}
    /\ \A k \in 0..n, g \in [0..n -> V] : make[k][g] \in V
    /\ \A k \in 0..n, g, h \in [0..n -> V] :
          (\A j \in 0..(k - 1) : g[j] = h[j]) => make[k][g] = make[k][h]
IsMade(f, make, n, V) == f \in [0..n -> V] /\ \A k \in 0..n : f[k] = make[k][f]

(* A function whose value at a number is made of the values at smaller ones. *)
LEMMA Recursion ==
    ASSUME NEW make, NEW n, NEW V, LooksBelow(make, n, V)
    PROVE  \E f : IsMade(f, make, n, V)
<1>. USE DEF LooksBelow
<1>. DEFINE Made(g, m) == \A k \in 0..n : k < m => g[k] = make[k][g]
            S == {m \in 0..(n + 1) : \E g \in [0..n -> V] : Made(g, m)}
<1>1. ASSUME NEW m \in 0..(n + 1), \A j \in 0..(m - 1) : j \in S PROVE m \in S
  <2>1. CASE m = 0
    <3>1. PICK v \in V : TRUE
      OBVIOUS
    <3>2. [i \in 0..n |-> v] \in [0..n -> V] /\ Made([i \in 0..n |-> v], m)
      BY <2>1
    <3>. QED  BY <3>2
  <2>2. CASE m # 0
    <3>1. PICK g \in [0..n -> V] : Made(g, m - 1)
      BY <1>1, <2>2
    <3>. DEFINE h == [g EXCEPT ![m - 1] = make[m - 1][g]]
    <3>2. m - 1 \in 0..n /\ h \in [0..n -> V] /\ \A j \in 0..n : j # m - 1 => h[j] = g[j]
      BY <2>2
    <3>3. h[m - 1] = make[m - 1][g]
      BY <3>2
    <3>. HIDE DEF h
    <3>4. ASSUME NEW k \in 0..n, k < m PROVE h[k] = make[k][h]
      <4>1. make[k][h] = make[k][g]
        BY <3>2, <3>4
      <4>2. CASE k = m - 1
        BY <3>3, <4>1, <4>2
      <4>3. CASE k # m - 1
        BY <3>1, <3>2, <3>4, <4>1, <4>3
      <4>. QED  BY <4>2, <4>3
    <3>5. Made(h, m)
      BY <3>4
    <3>. HIDE DEF Made
    <3>. QED  BY <3>2, <3>5
  <2>. QED  BY <2>1, <2>2
<1>2. n + 1 \in S
  <2>. HIDE DEF S
  <2>. QED  BY <1>1, Induction
<1>. QED  BY <1>2 DEF IsMade

(* The elements of S in a row, the smaller first by what r says of them. *)
Ranks(r, S) ==
    IsFiniteSet(S) /\ \A x, y \in S : r[x] \in Nat /\ (r[x] = r[y] => x = y)
IsRow(s, S, r) ==
    /\ s \in [1..Cardinality(S) -> S]
    /\ \A i, j \in DOMAIN s : i < j => r[s[i]] < r[s[j]]

LEMMA RowExists ==
    ASSUME NEW r, NEW S, Ranks(r, S)
    PROVE  \E s : IsRow(s, S, r)
<1>. USE DEF Ranks
<1>. DEFINE n == Cardinality(S)
            Below(x) == {y \in S : r[y] < r[x]}
            place == [x \in S |-> 1 + Cardinality(Below(x))]
<1>1. n \in Nat /\ \A x \in S : IsFiniteSet(Below(x)) /\ Cardinality(Below(x)) \in Nat
  BY FS_CardinalityType, FS_Subset
<1>2. ASSUME NEW x \in S PROVE place[x] \in 1..n
  <2>1. Below(x) \subseteq S /\ x \notin Below(x)
    OBVIOUS
  <2>. HIDE DEF Below
  <2>2. Cardinality(Below(x)) <= n /\ Cardinality(Below(x)) # n
    BY <2>1, FS_Subset
  <2>. QED  BY <1>1, <2>2
<1>3. ASSUME NEW x \in S, NEW y \in S, r[x] < r[y] PROVE place[x] < place[y]
  <2>1. Below(x) \subseteq Below(y) /\ x \in Below(y) /\ x \notin Below(x)
    BY <1>3
  <2>. HIDE DEF Below
  <2>2. Cardinality(Below(x)) <= Cardinality(Below(y))
        /\ Cardinality(Below(x)) # Cardinality(Below(y))
    BY <1>1, <2>1, FS_Subset
  <2>. QED  BY <1>1, <2>2
<1>. HIDE DEF Below, place
<1>4. place \in Injection(S, 1..n)
  <2>1. place \in [S -> 1..n]
    BY <1>2 DEF place
  <2>2. ASSUME NEW x \in S, NEW y \in S, place[x] = place[y] PROVE x = y
    <3>1. place[x] \in Nat /\ r[x] \in Nat /\ r[y] \in Nat
      BY <1>2
    <3>2. ~(r[x] < r[y]) /\ ~(r[y] < r[x])
      BY <1>3, <2>2, <3>1
    <3>. QED  BY <3>1, <3>2
  <2>. QED  BY <2>1, <2>2 DEF Injection, IsInjective
<1>5. place \in Surjection(S, 1..n)
  BY <1>1, <1>4, FS_Interval, FS_Injection
<1>. DEFINE s == [i \in 1..n |-> CHOOSE x \in S : place[x] = i]
<1>6. \A i \in 1..n : s[i] \in S /\ place[s[i]] = i
  BY <1>5 DEF Surjection
<1>7. s \in [1..n -> S] /\ DOMAIN s = 1..n
  BY <1>6
<1>. HIDE DEF s
<1>8. ASSUME NEW i \in 1..n, NEW j \in 1..n, i < j PROVE r[s[i]] < r[s[j]]
  <2>1. s[i] \in S /\ s[j] \in S /\ r[s[i]] \in Nat /\ r[s[j]] \in Nat
    BY <1>6
  <2>2. r[s[i]] # r[s[j]]
    BY <1>6, <1>8, <2>1
  <2>3. ~(r[s[j]] < r[s[i]])
    BY <1>3, <1>6, <1>8, <2>1
  <2>. QED  BY <2>1, <2>2, <2>3
<1>. QED  BY <1>7, <1>8 DEF IsRow

(* Such a row holds every element of S. *)
LEMMA RowFacts ==
    ASSUME NEW r, NEW S, Ranks(r, S), NEW s, IsRow(s, S, r)
    PROVE  /\ Cardinality(S) \in Nat /\ s \in Seq(S) /\ Len(s) = Cardinality(S)
           /\ {s[i] : i \in DOMAIN s} = S
<1>. USE DEF Ranks, IsRow
<1>1. Cardinality(S) \in Nat
  BY FS_CardinalityType
<1>2. s \in Seq(S) /\ Len(s) = Cardinality(S)
  BY <1>1
<1>3. s \in Injection(1..Cardinality(S), S)
  <2>1. ASSUME NEW i \in 1..Cardinality(S), NEW j \in 1..Cardinality(S), s[i] = s[j]
        PROVE  i = j
    BY <1>1, <2>1
  <2>. QED  BY <2>1 DEF Injection, IsInjective
<1>4. s \in Surjection(1..Cardinality(S), S)
  BY <1>1, <1>3, FS_Interval, FS_Injection
<1>. QED  BY <1>1, <1>2, <1>4 DEF Surjection

-----------------------------------------------------------------------------
(* Sequences of sequences made flat. *)
Texts(S) == Seq(Seq(S))

LEMMA ConcatLaws ==
    ASSUME NEW S, NEW a \in Seq(S), NEW b \in Seq(S), NEW c \in Seq(S)
    PROVE  /\ <<>> \in Seq(S) /\ a \o b \in Seq(S)
           /\ <<>> \o a = a /\ a \o <<>> = a
           /\ (a \o b) \o c = a \o (b \o c)
  OBVIOUS

(* What FlattenSeq has put together of the first sequences. *)
IsFlat(flat, seqs) ==
    /\ flat[0] = <<>>
    /\ \A i \in 1..Len(seqs) : flat[i] = flat[i - 1] \o seqs[i]

LEMMA FlattenTable ==
    ASSUME NEW S, NEW seqs \in Texts(S)
    PROVE  \E flat \in [0..Len(seqs) -> Seq(S)] :
              IsFlat(flat, seqs) /\ FlattenSeq(seqs) = flat[Len(seqs)]
<1>. DEFINE n == Len(seqs)
            V == Seq(S)
            Body(i, g) == IF i = 0 THEN <<>> ELSE g[i - 1] \o seqs[i]
            make == [i \in 0..n |-> [g \in [0..n -> V] |-> Body(i, g)]]
            Table(c) == c = [i \in 1..n |-> IF i = 1 THEN seqs[i] ELSE c[i - 1] \o seqs[i]]
<1>1. n \in Nat /\ \A i \in 1..n : seqs[i] \in V
  BY DEF Texts
<1>2. <<>> \in V
  OBVIOUS
<1>. HIDE DEF V
<1>3. ASSUME NEW i \in 0..n, NEW g \in [0..n -> V] PROVE Body(i, g) \in V
  <2>1. CASE i = 0
    BY <1>2, <2>1
  <2>2. CASE i # 0
    <3>1. g[i - 1] \in V /\ seqs[i] \in V
      BY <1>1, <2>2
    <3>. QED  BY <2>2, <3>1, ConcatLaws DEF V
  <2>. QED  BY <2>1, <2>2
<1>4. PICK b : IsMade(b, make, n, V)
  <2>1. \A i \in 0..n, g \in [0..n -> V] : make[i][g] = Body(i, g)
    OBVIOUS
  <2>2. \A i \in 0..n, g \in [0..n -> V] : make[i][g] \in V
    <3>. HIDE DEF make, Body
    <3>. QED  BY <1>3, <2>1
  <2>3. ASSUME NEW i \in 0..n, NEW g \in [0..n -> V], NEW h \in [0..n -> V],
               \A j \in 0..(i - 1) : g[j] = h[j]
        PROVE  make[i][g] = make[i][h]
    <3>1. i # 0 => g[i - 1] = h[i - 1]
      BY <1>1, <2>3
    <3>2. Body(i, g) = Body(i, h)
      BY <3>1
    <3>. HIDE DEF make, Body
    <3>. QED  BY <2>1, <3>2
  <2>. HIDE DEF make
  <2>4. LooksBelow(make, n, V)
    BY <1>1, <1>2, <2>2, <2>3 DEF LooksBelow
  <2>. QED  BY <2>4, Recursion
<1>5. b \in [0..n -> V] /\ IsFlat(b, seqs)
  BY <1>1, <1>4 DEF IsMade, IsFlat
<1>6. CASE n = 0
  <2>1. seqs = <<>>
    BY <1>6 DEF Texts
  <2>2. FlattenSeq(seqs) = <<>>
    BY <1>6, <2>1 DEF FlattenSeq
  <2>. QED  BY <1>5, <1>6, <2>2 DEF IsFlat, V
<1>7. CASE n # 0
  <2>. DEFINE w == [i \in 1..n |-> b[i]]
              flatten == CHOOSE c : Table(c)
  <2>1. FlattenSeq(seqs) = flatten[n]
    BY <1>7, Zenon DEF FlattenSeq
  <2>2. Table(w)
    <3>1. ASSUME NEW i \in 1..n
          PROVE  w[i] = IF i = 1 THEN seqs[i] ELSE w[i - 1] \o seqs[i]
      <4>1. b[i] = b[i - 1] \o seqs[i] /\ seqs[i] \in V
        BY <1>1, <1>5 DEF IsFlat
      <4>2. CASE i = 1
        <5>1. b[0] = <<>>
          BY <1>5 DEF IsFlat
        <5>2. i - 1 = 0
          BY <4>2
        <5>3. b[i] = <<>> \o seqs[i]
          BY <4>1, <5>1, <5>2
        <5>4. b[i] = seqs[i]
          BY <4>1, <5>3, ConcatLaws DEF V
        <5>. QED  BY <4>2, <5>4
      <4>3. CASE i # 1
        <5>1. i - 1 \in 1..n
          BY <1>1, <4>3
        <5>. QED  BY <4>1, <4>3, <5>1
      <4>. QED  BY <4>2, <4>3
    <3>. QED  BY <3>1
  <2>3. Table(flatten)
    <3>. HIDE DEF Table
    <3>. QED  BY <2>2
  <2>. HIDE DEF flatten
  <2>4. \A i \in 1..n : flatten[i] = IF i = 1 THEN seqs[i] ELSE flatten[i - 1] \o seqs[i]
    BY <2>3
  <2>. DEFINE Same == {i \in 0..n : i # 0 => flatten[i] = b[i]}
  <2>5. ASSUME NEW i \in 0..n, \A j \in 0..(i - 1) : j \in Same PROVE i \in Same
    <3>1. CASE i = 0
      BY <3>1
    <3>2. CASE i = 1
      <4>1. b[i] = <<>> \o seqs[i] /\ seqs[i] \in V
        BY <1>1, <1>5, <3>2 DEF IsFlat
      <4>2. b[i] = seqs[i]
        BY <4>1, ConcatLaws DEF V
      <4>. QED  BY <2>4, <3>2, <4>2
    <3>3. CASE i \notin {0, 1}
      <4>1. flatten[i - 1] = b[i - 1] /\ i \in 1..n
        BY <1>1, <2>5, <3>3
      <4>. QED  BY <1>5, <2>4, <3>3, <4>1 DEF IsFlat
    <3>. QED  BY <3>1, <3>2, <3>3
  <2>6. n \in Same
    <3>1. n \in Nat
      BY <1>1
    <3>. HIDE DEF Same, n
    <3>. QED  BY <2>5, <3>1, Induction
  <2>. QED  BY <1>5, <1>7, <2>1, <2>6 DEF V
<1>. QED  BY <1>6, <1>7

(* FlattenSeq is the concatenation of what it makes of the parts. *)
LEMMA FlattenConcat ==
    ASSUME NEW S, NEW a \in Texts(S), NEW b \in Texts(S)
    PROVE  /\ FlattenSeq(a) \in Seq(S)
           /\ FlattenSeq(a \o b) = FlattenSeq(a) \o FlattenSeq(b)
<1>. DEFINE m == Len(a)
            n == Len(b)
            V == Seq(S)
<1>1. /\ a \o b \in Texts(S) /\ m \in Nat /\ n \in Nat /\ Len(a \o b) = m + n
      /\ \A i \in 1..m : (a \o b)[i] = a[i] /\ a[i] \in V
      /\ \A i \in 1..n : (a \o b)[m + i] = b[i] /\ b[i] \in V
  BY DEF Texts
<1>2. PICK fa \in [0..m -> V] : IsFlat(fa, a) /\ FlattenSeq(a) = fa[m]
  BY FlattenTable
<1>3. PICK fb \in [0..n -> V] : IsFlat(fb, b) /\ FlattenSeq(b) = fb[n]
  BY FlattenTable
<1>4. PICK f \in [0..(m + n) -> V] : IsFlat(f, a \o b) /\ FlattenSeq(a \o b) = f[m + n]
  <2>. DEFINE ab == a \o b
  <2>1. ab \in Texts(S) /\ Len(ab) = m + n
    BY <1>1
  <2>. HIDE DEF ab
  <2>2. \E f \in [0..Len(ab) -> Seq(S)] : IsFlat(f, ab) /\ FlattenSeq(ab) = f[Len(ab)]
    BY <2>1, FlattenTable
  <2>. QED  BY <2>1, <2>2 DEF ab
<1>. HIDE DEF V
<1>7. fa[m] \in V
  <2>1. m \in 0..m
    BY <1>1
  <2>. QED  BY <1>2, <2>1
<1>5. f[m] = fa[m]
  <2>. DEFINE Same == {i \in 0..m : f[i] = fa[i]}
  <2>1. ASSUME NEW i \in 0..m, \A j \in 0..(i - 1) : j \in Same PROVE i \in Same
    <3>1. CASE i = 0
      BY <1>2, <1>4, <3>1 DEF IsFlat
    <3>2. CASE i # 0
      <4>1. f[i - 1] = fa[i - 1] /\ i \in 1..m /\ i \in 1..(m + n)
        BY <1>1, <2>1, <3>2
      <4>. QED  BY <1>1, <1>2, <1>4, <4>1 DEF IsFlat
    <3>. QED  BY <3>1, <3>2
  <2>2. m \in Same
    <3>1. m \in Nat
      BY <1>1
    <3>. HIDE DEF Same, m
    <3>. QED  BY <2>1, <3>1, Induction
  <2>. QED  BY <2>2
<1>6. f[m + n] = fa[m] \o fb[n]
  <2>. DEFINE Same == {i \in 0..n : f[m + i] = fa[m] \o fb[i]}
  <2>1. ASSUME NEW i \in 0..n, \A j \in 0..(i - 1) : j \in Same PROVE i \in Same
    <3>1. CASE i = 0
      <4>1. fa[m] \o <<>> = fa[m]
        BY <1>7, ConcatLaws DEF V
      <4>2. fb[i] = <<>> /\ m + i = m
        BY <1>1, <1>3, <3>1 DEF IsFlat
      <4>. QED  BY <1>5, <4>1, <4>2
    <3>2. CASE i # 0
      <4>1. f[m + (i - 1)] = fa[m] \o fb[i - 1] /\ i \in 1..n /\ m + i \in 1..(m + n)
            /\ m + (i - 1) = (m + i) - 1
        BY <1>1, <2>1, <3>2
      <4>2. f[m + i] = (fa[m] \o fb[i - 1]) \o b[i]
        <5>1. f[m + i] = f[(m + i) - 1] \o (a \o b)[m + i]
          BY <1>1, <1>4, <4>1 DEF IsFlat
        <5>. QED  BY <1>1, <4>1, <5>1
      <4>3. fb[i - 1] \in V /\ b[i] \in V
        <5>1. i - 1 \in 0..n
          BY <1>1, <4>1
        <5>. QED  BY <1>1, <1>3, <4>1, <5>1
      <4>4. (fa[m] \o fb[i - 1]) \o b[i] = fa[m] \o (fb[i - 1] \o b[i])
        <5>. DEFINE x == fa[m]
                    y == fb[i - 1]
                    z == b[i]
        <5>1. x \in Seq(S) /\ y \in Seq(S) /\ z \in Seq(S)
          BY <1>7, <4>3 DEF V
        <5>. HIDE DEF x, y, z
        <5>2. (x \o y) \o z = x \o (y \o z)
          BY <5>1, ConcatLaws
        <5>. QED  BY <5>2 DEF x, y, z
      <4>. QED  BY <1>3, <4>1, <4>2, <4>4 DEF IsFlat
    <3>. QED  BY <3>1, <3>2
  <2>2. n \in Same
    <3>1. n \in Nat
      BY <1>1
    <3>. HIDE DEF Same, n
    <3>. QED  BY <2>1, <3>1, Induction
  <2>. QED  BY <2>2
<1>. QED  BY <1>2, <1>3, <1>4, <1>6, <1>7 DEF V

(* A sequence of one sequence, and one of sequences of one element. *)
LEMMA FlattenOne ==
    ASSUME NEW S, NEW s \in Seq(S)
    PROVE  FlattenSeq(<<s>>) = s
<1>1. <<s>> \in Texts(S) /\ Len(<<s>>) = 1
  BY DEF Texts
<1>2. PICK f \in [0..1 -> Seq(S)] : IsFlat(f, <<s>>) /\ FlattenSeq(<<s>>) = f[1]
  BY <1>1, FlattenTable
<1>3. f[1] = <<>> \o s
  <2>1. <<s>>[1] = s /\ 1 \in 1..1
    OBVIOUS
  <2>2. f[1] = f[1 - 1] \o <<s>>[1]
    BY <1>1, <1>2, <2>1 DEF IsFlat
  <2>. QED  BY <1>2, <2>1, <2>2 DEF IsFlat
<1>. QED  BY <1>2, <1>3, ConcatLaws

LEMMA FlattenUnits ==
    ASSUME NEW S, NEW t \in Seq(S), NEW seqs, seqs = [i \in DOMAIN t |-> <<t[i]>>]
    PROVE  FlattenSeq(seqs) = t
<1>. DEFINE n == Len(t)
<1>1. seqs \in Texts(S) /\ Len(seqs) = n /\ n \in Nat /\ \A i \in 1..n : seqs[i] = <<t[i]>>
  <2>1. n \in Nat /\ DOMAIN t = 1..n /\ \A i \in 1..n : <<t[i]>> \in Seq(S)
    OBVIOUS
  <2>2. seqs \in [1..n -> Seq(S)]
    BY <2>1
  <2>. QED  BY <2>1, <2>2 DEF Texts
<1>2. PICK f \in [0..n -> Seq(S)] : IsFlat(f, seqs) /\ FlattenSeq(seqs) = f[n]
  BY <1>1, FlattenTable
<1>. DEFINE Same == {i \in 0..n : f[i] = SubSeq(t, 1, i)}
<1>3. ASSUME NEW i \in 0..n, \A j \in 0..(i - 1) : j \in Same PROVE i \in Same
  <2>1. CASE i = 0
    <3>1. SubSeq(t, 1, 0) = <<>>
      OBVIOUS
    <3>. QED  BY <1>2, <2>1, <3>1 DEF IsFlat
  <2>2. CASE i # 0
    <3>1. f[i - 1] = SubSeq(t, 1, i - 1) /\ i \in 1..n
      BY <1>1, <1>3, <2>2
    <3>2. f[i] = SubSeq(t, 1, i - 1) \o <<t[i]>>
      BY <1>1, <1>2, <3>1 DEF IsFlat
    <3>3. SubSeq(t, 1, i - 1) \o <<t[i]>> = SubSeq(t, 1, i)
      BY <1>1, <3>1
    <3>. QED  BY <3>2, <3>3
  <2>. QED  BY <2>1, <2>2
<1>4. n \in Same
  <2>1. n \in Nat
    BY <1>1
  <2>. HIDE DEF Same, n
  <2>. QED  BY <1>3, <2>1, Induction
<1>5. SubSeq(t, 1, n) = t
  BY <1>1
<1>. QED  BY <1>2, <1>4, <1>5
=============================================================================
