-------------------------- MODULE BootstrapProofs --------------------------
(***************************************************************************)
(* The migrations and the setup wizard behind them, for any files, names   *)
(* and releases, any number of requests at a time and of engines, whatever *)
(* statement fails, whichever answer is lost and whenever an engine stops. *)
(***************************************************************************)
EXTENDS Bootstrap, DataLemmas

InOrder(list) == \A i, j \in DOMAIN list : i < j => list[i] < list[j]
Applying == {"begin", "contents", "insert", "commit", "rollback"}

(* What an engine has read: the versions listed are recorded, and of its own
   files those it does not look at any more. *)
ListsInv(e) ==
    /\ Range(listed[e]) \subseteq recorded
    /\ InOrder(todo[e]) /\ Range(todo[e]) \subseteq Release[e]
    /\ pc[e] \notin {"boot", "rollback", "failed"} =>
          Release[e] \ Range(todo[e]) \subseteq recorded
    /\ pc[e] = "up" => todo[e] = <<>>
    /\ pc[e] \in Applying => todo[e] # <<>>

(* Its transaction: the statements of one file and the row, once it inserted
   it, of that file, which no other transaction and no COMMIT has inserted. *)
TransactionInv(e) ==
    /\ pc[e] \notin Applying => ran[e] = {} /\ rows[e] = {}
    /\ pc[e] \in {"begin", "contents"} => ran[e] = {} /\ rows[e] = {}
    /\ pc[e] = "insert" => ran[e] = {Current(e)} /\ rows[e] = {}
    /\ pc[e] = "commit" => ran[e] = {Current(e)} /\ rows[e] = {Current(e)}
    /\ rows[e] \cap recorded = {}
    /\ \A other \in Engines \ {e} : rows[e] \cap rows[other] = {}

MigrationInv ==
    /\ TypeOK
    /\ IsFiniteSet(recorded)
    /\ \A f \in Files : effects[f] = IF f \in recorded THEN 1 ELSE 0
    /\ \A e \in Engines : ListsInv(e) /\ TransactionInv(e)

(* The list itself, as long as the database sorts names by their bytes. *)
CollationAgrees == \A f, g \in Files : f < g => Rank[f] < Rank[g]
ListedInOrder == \A e \in Engines : InOrder(listed[e])

(* The files of a release, or of the table, in the order they are sorted by. *)
LEMMA SortedFacts ==
    ASSUME NEW r, NEW S, Ranks(r, S)
    PROVE  /\ Sorted(S, r) \in Seq(S) /\ Range(Sorted(S, r)) = S
           /\ \A i, j \in DOMAIN Sorted(S, r) :
                 i < j => r[Sorted(S, r)[i]] < r[Sorted(S, r)[j]]
<1>. DEFINE s == Sorted(S, r)
<1>1. s = CHOOSE t : IsRow(t, S, r)
  BY DEF Sorted, IsRow
<1>. HIDE DEF s
<1>2. IsRow(s, S, r)
  BY <1>1, RowExists
<1>3. s \in Seq(S) /\ {s[i] : i \in DOMAIN s} = S
  BY <1>2, RowFacts
<1>. QED  BY <1>2, <1>3 DEF s, IsRow, Range

(* Half of what is left of a search, with the version before the other half. *)
LEMMA Halving ==
    ASSUME NEW count \in Nat \ {0}
    PROVE  /\ count \div 2 \in 0..(count - 1)
           /\ count - (count \div 2) - 1 \in 0..(count - 1)
  OBVIOUS

(* The bounds that the search finds, wherever it starts and however far it goes. *)
LEMMA LowerBoundTable ==
    ASSUME NEW list \in Seq(Nat), NEW x \in Nat
    PROVE  \E bound \in [0..Len(list) -> [Nat -> Nat]] :
              /\ LowerBound(list, x) = bound[Len(list)][1]
              /\ \A first \in Nat : bound[0][first] = first
              /\ \A count \in 1..Len(list), first \in Nat :
                    LET half == count \div 2 IN
                    bound[count][first] =
                       IF list[first + half] < x
                       THEN bound[count - half - 1][first + half + 1]
                       ELSE bound[half][first]
<1>. DEFINE n == Len(list)
            V == [Nat -> Nat]
            Body(count, b) ==
              [first \in Nat |->
                 IF count = 0 THEN first
                 ELSE LET half == count \div 2 IN
                      IF list[first + half] < x
                      THEN b[count - half - 1][first + half + 1]
                      ELSE b[half][first]]
            make == [count \in 0..n |-> [b \in [0..n -> V] |-> Body(count, b)]]
            Table(c) == c = [count \in 0..n |-> Body(count, c)]
<1>1. n \in Nat /\ V # {}
  <2>1. [i \in Nat |-> i] \in V
    OBVIOUS
  <2>2. n \in Nat
    OBVIOUS
  <2>. HIDE DEF V
  <2>. QED  BY <2>1, <2>2
<1>2. ASSUME NEW k \in 0..n, NEW g, \A j \in 0..(k - 1) : g[j] \in V
      PROVE  Body(k, g) \in V
  <2> SUFFICES ASSUME NEW first \in Nat, k # 0
               PROVE  (LET half == k \div 2 IN
                       IF list[first + half] < x
                       THEN g[k - half - 1][first + half + 1]
                       ELSE g[half][first]) \in Nat
    OBVIOUS
  <2>. DEFINE half == k \div 2
  <2>1. half \in 0..(k - 1) /\ k - half - 1 \in 0..(k - 1)
    BY Halving
  <2>. HIDE DEF half
  <2>2. g[half] \in V /\ g[k - half - 1] \in V
    <3>. HIDE DEF V
    <3>. QED  BY <1>2, <2>1
  <2>3. first + half + 1 \in Nat
    BY <1>1, <2>1
  <2>4. g[half][first] \in Nat /\ g[k - half - 1][first + half + 1] \in Nat
    BY <2>2, <2>3
  <2>. QED  BY <2>4 DEF half
<1>3. ASSUME NEW k \in 0..n, NEW g, NEW h, \A j \in 0..(k - 1) : g[j] = h[j]
      PROVE  Body(k, g) = Body(k, h)
  <2>1. CASE k = 0
    BY <2>1
  <2>2. CASE k # 0
    <3>1. k \div 2 \in 0..(k - 1) /\ k - (k \div 2) - 1 \in 0..(k - 1)
      BY <2>2, Halving
    <3>2. g[k \div 2] = h[k \div 2] /\ g[k - (k \div 2) - 1] = h[k - (k \div 2) - 1]
      BY <1>3, <3>1
    <3>. QED  BY <2>2, <3>2
  <2>. QED  BY <2>1, <2>2
<1>4. PICK b \in [0..n -> V] : \A k \in 0..n : b[k] = Body(k, b)
  <2>. HIDE DEF V, Body
  <2>1. \A k \in 0..n, g \in [0..n -> V] : make[k][g] = Body(k, g)
    OBVIOUS
  <2>2. \A k \in 0..n, g \in [0..n -> V] : make[k][g] \in V
    BY <1>1, <1>2, <2>1
  <2>3. \A k \in 0..n, g, h \in [0..n -> V] :
           (\A j \in 0..(k - 1) : g[j] = h[j]) => make[k][g] = make[k][h]
    BY <1>3, <2>1
  <2>. HIDE DEF make
  <2>4. LooksBelow(make, n, V)
    BY <1>1, <2>2, <2>3 DEF LooksBelow
  <2>. QED  BY <2>1, <2>4, Recursion DEF IsMade
<1>5. Table(b)
  <2>. HIDE DEF Body, V
  <2>. QED  BY <1>4
<1>6. LowerBound(list, x) = (CHOOSE c : Table(c))[n][1]
  BY Zenon DEF LowerBound
<1>. DEFINE bound == CHOOSE c : Table(c)
<1>7. Table(bound)
  <2>. HIDE DEF Table
  <2>. QED  BY <1>5
<1>. HIDE DEF bound
<1>8. \A k \in 0..n : bound[k] = Body(k, bound)
  <2>. HIDE DEF Body
  <2>. QED  BY <1>7
<1>9. \A k \in 0..n : bound[k] \in V
  <2>. DEFINE S == {k \in 0..n : bound[k] \in V}
  <2>1. ASSUME NEW k \in 0..n, \A j \in 0..(k - 1) : j \in S PROVE k \in S
    <3>. HIDE DEF V, Body
    <3>1. \A j \in 0..(k - 1) : bound[j] \in V
      BY <2>1
    <3>. QED  BY <1>2, <1>8, <3>1
  <2>. HIDE DEF S
  <2>2. \A k \in 0..n : k \in S
    BY <1>1, <2>1, Induction
  <2>. QED  BY <2>2 DEF S
<1>10. bound \in [0..n -> V]
  <2>1. bound = [count \in 0..n |-> Body(count, bound)]
    BY <1>7
  <2>. HIDE DEF V, Body
  <2>. QED  BY <1>8, <1>9, <2>1
<1>11. ASSUME NEW count \in 0..n, NEW first \in Nat
       PROVE  bound[count][first] = Body(count, bound)[first]
  <2>. HIDE DEF Body
  <2>. QED  BY <1>8
<1>12. \A first \in Nat : bound[0][first] = first
  BY <1>1, <1>11
<1>13. ASSUME NEW count \in 1..n, NEW first \in Nat
       PROVE  LET half == count \div 2 IN
              bound[count][first] =
                 IF list[first + half] < x
                 THEN bound[count - half - 1][first + half + 1]
                 ELSE bound[half][first]
  <2>1. count \in 0..n /\ count # 0
    BY <1>1
  <2>. QED  BY <1>11, <2>1
<1>14. LowerBound(list, x) = bound[n][1]
  BY <1>6 DEF bound
<1>. HIDE DEF Body, V, make, Table
<1>. QED  BY <1>10, <1>12, <1>13, <1>14 DEF V

(* The version the search stops on is not less than the one it looks for; with
   the list in order, the versions before it are. *)
LEMMA LowerBoundFacts ==
    ASSUME NEW list \in Seq(Nat), NEW x \in Nat
    PROVE  /\ LowerBound(list, x) \in 1..(Len(list) + 1)
           /\ LowerBound(list, x) <= Len(list) => ~(list[LowerBound(list, x)] < x)
           /\ InOrder(list) => \A i \in 1..(LowerBound(list, x) - 1) : list[i] < x
<1>. DEFINE n == Len(list)
<1>1. PICK bound \in [0..n -> [Nat -> Nat]] :
        /\ LowerBound(list, x) = bound[n][1]
        /\ \A first \in Nat : bound[0][first] = first
        /\ \A count \in 1..n, first \in Nat :
              LET half == count \div 2 IN
              bound[count][first] =
                 IF list[first + half] < x
                 THEN bound[count - half - 1][first + half + 1]
                 ELSE bound[half][first]
  BY LowerBoundTable
<1>2. n \in Nat /\ \A i \in 1..n : list[i] \in Nat
  OBVIOUS
<1>. DEFINE Found(count, first, b) ==
              /\ b \in first..(first + count)
              /\ b < first + count => ~(list[b] < x)
              /\ InOrder(list) => \A i \in first..(b - 1) : list[i] < x
            S == {count \in 0..n : \A first \in 1..(n + 1 - count) :
                                     Found(count, first, bound[count][first])}
<1>3. ASSUME NEW count \in 0..n, \A j \in 0..(count - 1) : j \in S PROVE count \in S
  <2> SUFFICES ASSUME NEW first \in 1..(n + 1 - count)
               PROVE  Found(count, first, bound[count][first])
    OBVIOUS
  <2>1. CASE count = 0
    BY <1>1, <1>2, <2>1
  <2>2. CASE count # 0
    <3>. DEFINE half == count \div 2
                b == bound[count][first]
    <3>1. half \in 0..(count - 1) /\ count - half - 1 \in 0..(count - 1)
      BY <2>2, Halving
    <3>2. /\ list[first + half] < x => b = bound[count - half - 1][first + half + 1]
          /\ ~(list[first + half] < x) => b = bound[half][first]
      <4>1. count \in 1..n /\ first \in Nat
        BY <1>2, <2>2
      <4>. QED  BY <1>1, <4>1
    <3>. HIDE DEF half, b
    <3>3. half \in S /\ count - half - 1 \in S
      BY <1>3, <3>1
    <3>4. first + half \in 1..n /\ first \in Nat /\ half \in Nat /\ count \in Nat
      BY <1>2, <3>1
    <3>5. CASE list[first + half] < x
      <4>1. Found(count - half - 1, first + half + 1, b)
        <5>1. first + half + 1 \in 1..(n + 1 - (count - half - 1))
          BY <1>2, <3>1
        <5>. QED  BY <3>2, <3>3, <3>5, <5>1
      <4>2. b \in (first + half + 1)..(first + count) /\ (b < first + count => ~(list[b] < x))
        BY <3>1, <3>4, <4>1
      <4>3. ASSUME InOrder(list), NEW i \in first..(b - 1) PROVE list[i] < x
        <5>1. i \in 1..n
          BY <1>2, <3>4, <4>2, <4>3
        <5>2. CASE i < first + half
          <6>1. list[i] < list[first + half]
            BY <3>4, <4>3, <5>1, <5>2 DEF InOrder
          <6>. QED  BY <1>2, <3>4, <3>5, <5>1, <6>1
        <5>3. CASE i = first + half
          BY <3>5, <5>3
        <5>4. CASE i > first + half
          BY <3>1, <3>4, <4>1, <4>2, <4>3, <5>4
        <5>. QED  BY <3>4, <5>1, <5>2, <5>3, <5>4
      <4>. QED  BY <3>1, <3>4, <4>2, <4>3 DEF b
    <3>6. CASE ~(list[first + half] < x)
      <4>1. Found(half, first, b)
        <5>1. first \in 1..(n + 1 - half)
          BY <1>2, <3>1
        <5>. QED  BY <3>2, <3>3, <3>6, <5>1
      <4>2. ASSUME b < first + count PROVE ~(list[b] < x)
        <5>1. CASE b = first + half
          BY <3>6, <5>1
        <5>2. CASE b # first + half
          BY <3>4, <4>1, <5>2
        <5>. QED  BY <5>1, <5>2
      <4>. QED  BY <3>1, <3>4, <4>1, <4>2 DEF b
    <3>. QED  BY <3>5, <3>6
  <2>. QED  BY <2>1, <2>2
<1>4. \A count \in 0..n : count \in S
  <2>. HIDE DEF S
  <2>. QED  BY <1>2, <1>3, Induction
<1>5. Found(n, 1, bound[n][1])
  <2>1. n \in S /\ 1 \in 1..(n + 1 - n)
    BY <1>2, <1>4
  <2>. HIDE DEF Found
  <2>. QED  BY <2>1
<1>. QED  BY <1>1, <1>2, <1>5

(* What the search finds is in the list; with the list in order, it finds it. *)
LEMMA BinarySearchFacts ==
    ASSUME NEW list \in Seq(Nat), NEW x \in Nat
    PROVE  /\ BinarySearch(list, x) => x \in Range(list)
           /\ InOrder(list) /\ x \in Range(list) => BinarySearch(list, x)
<1>. DEFINE b == LowerBound(list, x)
<1>1. /\ b \in 1..(Len(list) + 1)
      /\ b <= Len(list) => ~(list[b] < x)
      /\ InOrder(list) => \A i \in 1..(b - 1) : list[i] < x
  BY LowerBoundFacts
<1>2. BinarySearch(list, x) <=> b <= Len(list) /\ ~(x < list[b])
  BY DEF BinarySearch
<1>. HIDE DEF b
<1>3. ASSUME b <= Len(list), ~(x < list[b]) PROVE x \in Range(list)
  <2>1. b \in DOMAIN list /\ list[b] \in Nat
    BY <1>1, <1>3
  <2>2. list[b] = x
    BY <1>1, <1>3, <2>1
  <2>. QED  BY <2>1, <2>2 DEF Range
<1>4. ASSUME InOrder(list), x \in Range(list) PROVE b <= Len(list) /\ ~(x < list[b])
  <2>1. PICK i \in 1..Len(list) : list[i] = x
    BY <1>4 DEF Range
  <2>2. b <= i
    BY <1>1, <1>4, <2>1
  <2>3. b = i \/ list[b] < list[i]
    BY <1>1, <1>4, <2>2 DEF InOrder
  <2>. QED  BY <1>1, <2>1, <2>2, <2>3
<1>. QED  BY <1>2, <1>3, <1>4

-----------------------------------------------------------------------------
(* The first file of a list in order, and the rest. *)
LEMMA FirstAndRest ==
    ASSUME NEW list \in Seq(Files), list # <<>>, InOrder(list)
    PROVE  /\ Head(list) \in Range(list) /\ Head(list) \in Files
           /\ Tail(list) \in Seq(Files) /\ InOrder(Tail(list))
           /\ Range(list) = {Head(list)} \cup Range(Tail(list))
           /\ Head(list) \notin Range(Tail(list))
           /\ \A f \in Range(list) : Head(list) <= f
<1>1. /\ Len(list) \in Nat \ {0} /\ Head(list) = list[1] /\ Head(list) \in Files
      /\ Tail(list) \in Seq(Files) /\ Len(Tail(list)) = Len(list) - 1
      /\ \A i \in 1..(Len(list) - 1) : Tail(list)[i] = list[i + 1]
  OBVIOUS
<1>2. DOMAIN Tail(list) = 1..(Len(list) - 1) /\ DOMAIN list = 1..Len(list)
  BY <1>1
<1>3. InOrder(Tail(list))
  BY <1>1, <1>2 DEF InOrder
<1>4. Head(list) \in Range(list)
  BY <1>1, <1>2 DEF Range
<1>5. ASSUME NEW f \in Range(list) PROVE f = Head(list) \/ f \in Range(Tail(list))
  <2>1. PICK i \in 1..Len(list) : list[i] = f
    BY <1>2, <1>5 DEF Range
  <2>2. CASE i = 1
    BY <1>1, <2>1, <2>2
  <2>3. CASE i # 1
    <3>1. i - 1 \in 1..(Len(list) - 1) /\ Tail(list)[i - 1] = f
      BY <1>1, <2>1, <2>3
    <3>. QED  BY <1>2, <3>1 DEF Range
  <2>. QED  BY <2>2, <2>3
<1>6. ASSUME NEW f \in Range(Tail(list)) PROVE f \in Range(list) /\ Head(list) < f
  <2>1. PICK i \in 1..(Len(list) - 1) : Tail(list)[i] = f
    BY <1>2, <1>6 DEF Range
  <2>2. i + 1 \in 1..Len(list) /\ 1 \in 1..Len(list) /\ list[i + 1] = f /\ 1 < i + 1
    BY <1>1, <2>1
  <2>. QED  BY <1>1, <1>2, <2>2 DEF Range, InOrder
<1>7. \A f \in Range(list) : f \in Nat /\ f \in Files
  BY <1>2, FileAssumption DEF Range
<1>8. \A f \in Range(list) : Head(list) <= f
  BY <1>4, <1>5, <1>6, <1>7
<1>9. Head(list) \notin Range(Tail(list))
  BY <1>4, <1>6, <1>7
<1>. QED  BY <1>1, <1>3, <1>4, <1>5, <1>6, <1>8, <1>9

LEMMA FileLists ==
    ASSUME NEW list \in Seq(Files)
    PROVE  list \in Seq(Nat)
<1>1. Len(list) \in Nat /\ list \in [1..Len(list) -> Files]
  OBVIOUS
<1>2. list \in [1..Len(list) -> Nat]
  BY <1>1, FileAssumption
<1>. QED  BY <1>1, <1>2

(* Files are numbered, and releases finite. *)
LEMMA ReleaseRanks ==
    ASSUME NEW e \in Engines
    PROVE  /\ Ranks(ByBytes, Release[e])
           /\ \A f \in Release[e] : f \in Files /\ ByBytes[f] = f
  BY FileAssumption, ReleaseAssumption DEF Ranks, ByBytes

(* What a step of one engine, with the rows that it commits, leaves of the
   invariant to be shown. *)
Alone(e) ==
    \A other \in Engines \ {e} :
        /\ pc'[other] = pc[other]
        /\ listed'[other] = listed[other] /\ todo'[other] = todo[other]
        /\ ran'[other] = ran[other] /\ rows'[other] = rows[other]

LEMMA OneEngine ==
    ASSUME MigrationInv, NEW e \in Engines, Alone(e), TypeOK', IsFiniteSet(recorded'),
           (\A f \in Files : effects[f] = IF f \in recorded THEN 1 ELSE 0)',
           recorded \subseteq recorded', recorded' \ recorded \subseteq rows[e],
           ListsInv(e)', TransactionInv(e)'
    PROVE  MigrationInv'
<1> SUFFICES ASSUME NEW other \in Engines \ {e} PROVE ListsInv(other)' /\ TransactionInv(other)'
  BY DEF MigrationInv
<1>1. /\ ListsInv(other) /\ TransactionInv(other) /\ rows[e] \cap rows[other] = {}
      /\ \A o \in Engines \ {e} : rows'[o] = rows[o]
      /\ pc'[other] = pc[other] /\ listed'[other] = listed[other]
      /\ todo'[other] = todo[other] /\ ran'[other] = ran[other]
  BY DEF MigrationInv, TransactionInv, Alone
<1>2. ListsInv(other)'
  BY <1>1 DEF ListsInv
<1>3. /\ rows'[other] \cap recorded' = {}
      /\ \A o \in Engines \ {other} : rows'[other] \cap rows'[o] = {}
  BY <1>1 DEF TransactionInv
<1>. QED  BY <1>1, <1>2, <1>3 DEF TransactionInv, Current

LEMMA InitMigration == InitAll => MigrationInv /\ ListedInOrder
<1> SUFFICES ASSUME Init PROVE MigrationInv /\ ListedInOrder
  BY DEF InitAll
<1>1. TypeOK
  BY DEF Init, TypeOK, Step
<1>2. IsFiniteSet(recorded)
  BY FS_EmptySet DEF Init
<1>3. \A e \in Engines : ListsInv(e) /\ TransactionInv(e) /\ InOrder(listed[e])
  BY DEF Init, ListsInv, TransactionInv, InOrder, Applying, Range
<1>. QED  BY <1>1, <1>2, <1>3 DEF MigrationInv, ListedInOrder, Init

-----------------------------------------------------------------------------
(* One lemma per step of the bootstrap. *)
LEMMA ListInv ==
    ASSUME MigrationInv, NEW e \in Engines, List(e)
    PROVE  MigrationInv'
<1>. DEFINE own == Sorted(Release[e], ByBytes)
            all == Sorted(recorded, Rank)
<1>1. /\ own \in Seq(Release[e]) /\ Range(own) = Release[e] /\ InOrder(own)
  BY ReleaseRanks, SortedFacts DEF InOrder, Range
<1>2. all \in Seq(recorded) /\ Range(all) = recorded
  <2>1. Ranks(Rank, recorded)
    BY FileAssumption DEF MigrationInv, TypeOK, Ranks
  <2>. QED  BY <2>1, SortedFacts
<1>3. own \in Seq(Files) /\ all \in Seq(Files)
  BY <1>1, <1>2, ReleaseAssumption DEF MigrationInv, TypeOK
<1>. HIDE DEF own, all
<1>4. /\ recorded' = recorded /\ effects' = effects /\ ran' = ran /\ rows' = rows
      /\ pc[e] = "boot"
      /\ \/ pc' = [pc EXCEPT ![e] = "next"]
            /\ todo' = [todo EXCEPT ![e] = own] /\ listed' = [listed EXCEPT ![e] = all]
         \/ pc' = [pc EXCEPT ![e] = "failed"] /\ todo' = todo /\ listed' = listed
  BY DEF List, Goto, schema, transaction, lists, own, all
<1>5. TypeOK' /\ Alone(e)
  BY <1>3, <1>4 DEF MigrationInv, TypeOK, Alone, Step
<1>6. ListsInv(e)'
  BY <1>1, <1>2, <1>4 DEF MigrationInv, TypeOK, ListsInv, Applying
<1>7. TransactionInv(e)'
  BY <1>4 DEF MigrationInv, TypeOK, TransactionInv, Applying
<1>. QED  BY <1>4, <1>5, <1>6, <1>7, OneEngine DEF MigrationInv

(* Steps that only go on: to the end, to a file, into its transaction. *)
LEMMA ForwardInv ==
    ASSUME MigrationInv, NEW e \in Engines, Finish(e) \/ Apply(e) \/ Begin(e)
    PROVE  MigrationInv'
<1>1. /\ UNCHANGED <<recorded, effects, ran, rows, listed, todo>>
      /\ \/ pc[e] = "next" /\ todo[e] = <<>> /\ pc' = [pc EXCEPT ![e] = "up"]
         \/ pc[e] = "next" /\ todo[e] # <<>> /\ pc' = [pc EXCEPT ![e] = "begin"]
         \/ pc[e] = "begin" /\ pc' = [pc EXCEPT ![e] = "contents"]
         \/ pc[e] = "begin" /\ pc' = [pc EXCEPT ![e] = "failed"]
  BY DEF Finish, Apply, Begin, Goto, schema, transaction, lists
<1>2. /\ ListsInv(e) /\ TransactionInv(e)
      /\ \/ pc[e] = "next" /\ todo[e] = <<>> /\ pc'[e] = "up"
         \/ pc[e] = "next" /\ todo[e] # <<>> /\ pc'[e] = "begin"
         \/ pc[e] = "begin" /\ pc'[e] \in {"contents", "failed"}
  BY <1>1 DEF MigrationInv, TypeOK
<1>3. pc' \in [Engines -> Step] /\ \A other \in Engines \ {e} : pc'[other] = pc[other]
  BY <1>1 DEF MigrationInv, TypeOK, Step
<1>4. TypeOK' /\ Alone(e)
  BY <1>1, <1>3 DEF MigrationInv, TypeOK, Alone
<1>5. ListsInv(e)'
  BY <1>1, <1>2 DEF ListsInv, Applying
<1>6. TransactionInv(e)'
  BY <1>1, <1>2 DEF TransactionInv, Applying
<1>. QED  BY <1>1, <1>4, <1>5, <1>6, OneEngine DEF MigrationInv

(* A file that is skipped is in the list, and so in the table. *)
LEMMA SkipInv ==
    ASSUME MigrationInv, NEW e \in Engines, Skip(e)
    PROVE  MigrationInv'
<1>1. /\ UNCHANGED <<recorded, effects, ran, rows, pc, listed>>
      /\ pc[e] = "next" /\ todo[e] # <<>> /\ todo' = [todo EXCEPT ![e] = Tail(todo[e])]
      /\ BinarySearch(listed[e], Head(todo[e]))
  BY DEF Skip, schema, transaction
<1>2. /\ todo[e] \in Seq(Files) /\ listed[e] \in Seq(Files) /\ InOrder(todo[e])
      /\ ListsInv(e) /\ TransactionInv(e)
  BY DEF MigrationInv, TypeOK, ListsInv
<1>3. /\ Head(todo[e]) \in Files /\ Tail(todo[e]) \in Seq(Files) /\ InOrder(Tail(todo[e]))
      /\ Range(todo[e]) = {Head(todo[e])} \cup Range(Tail(todo[e]))
  BY <1>1, <1>2, FirstAndRest
<1>4. Head(todo[e]) \in recorded
  <2>1. listed[e] \in Seq(Nat) /\ Head(todo[e]) \in Nat
    BY <1>2, <1>3, FileLists, FileAssumption
  <2>2. Head(todo[e]) \in Range(listed[e])
    BY <1>1, <2>1, BinarySearchFacts
  <2>. QED  BY <1>2, <2>2 DEF ListsInv
<1>5. TypeOK' /\ Alone(e)
  BY <1>1, <1>3 DEF MigrationInv, TypeOK, Alone
<1>6. ListsInv(e)'
  BY <1>1, <1>2, <1>3, <1>4 DEF MigrationInv, TypeOK, ListsInv, Applying
<1>7. TransactionInv(e)'
  BY <1>1, <1>2 DEF TransactionInv, Applying
<1>. QED  BY <1>1, <1>5, <1>6, <1>7, OneEngine DEF MigrationInv

LEMMA RunContentsInv ==
    ASSUME MigrationInv, NEW e \in Engines, RunContents(e)
    PROVE  MigrationInv'
<1>1. /\ UNCHANGED <<recorded, effects, rows, listed, todo>> /\ pc[e] = "contents"
      /\ \/ ran' = [ran EXCEPT ![e] = @ \cup {Current(e)}] /\ pc' = [pc EXCEPT ![e] = "insert"]
         \/ ran' = ran /\ pc' = [pc EXCEPT ![e] = "rollback"]
  BY DEF RunContents, Goto, schema, lists
<1>2. Current(e) \in Files
  BY <1>1, FirstAndRest DEF MigrationInv, TypeOK, ListsInv, Applying, Current
<1>3. /\ ListsInv(e) /\ TransactionInv(e)
      /\ \/ ran'[e] = ran[e] \cup {Current(e)} /\ pc'[e] = "insert"
         \/ pc'[e] = "rollback"
  BY <1>1 DEF MigrationInv, TypeOK
<1>4. /\ pc' \in [Engines -> Step] /\ ran' \in [Engines -> SUBSET Files]
      /\ \A other \in Engines \ {e} : pc'[other] = pc[other] /\ ran'[other] = ran[other]
  <2>1. pc \in [Engines -> Step] /\ ran \in [Engines -> SUBSET Files]
    BY DEF MigrationInv, TypeOK
  <2>2. {"insert", "commit", "rollback"} \subseteq Step
    BY DEF Step
  <2>3. ran[e] \cup {Current(e)} \in SUBSET Files
    BY <1>2, <2>1
  <2>. QED  BY <1>1, <2>1, <2>2, <2>3
<1>5. TypeOK' /\ Alone(e)
  BY <1>1, <1>4 DEF MigrationInv, TypeOK, Alone
<1>6. ListsInv(e)'
  BY <1>1, <1>3 DEF ListsInv, Applying
<1>7. TransactionInv(e)'
  BY <1>1, <1>3 DEF TransactionInv, Applying, Current
<1>. QED  BY <1>1, <1>5, <1>6, <1>7, OneEngine DEF MigrationInv

(* The primary key: the row is in no other transaction and not in the table. *)
LEMMA InsertVersionInv ==
    ASSUME MigrationInv, NEW e \in Engines, InsertVersion(e)
    PROVE  MigrationInv'
<1>1. /\ UNCHANGED <<recorded, effects, ran, listed, todo>> /\ pc[e] = "insert"
      /\ \A other \in Engines \ {e} : Current(e) \notin rows[other]
      /\ \/ /\ Current(e) \notin recorded
            /\ rows' = [rows EXCEPT ![e] = @ \cup {Current(e)}]
            /\ pc' = [pc EXCEPT ![e] = "commit"]
         \/ rows' = rows /\ pc' = [pc EXCEPT ![e] = "rollback"]
  BY DEF InsertVersion, Goto, schema, lists
<1>2. Current(e) \in Files
  BY <1>1, FirstAndRest DEF MigrationInv, TypeOK, ListsInv, Applying, Current
<1>3. /\ ListsInv(e) /\ TransactionInv(e)
      /\ \/ /\ rows'[e] = rows[e] \cup {Current(e)} /\ pc'[e] = "commit"
            /\ Current(e) \notin recorded
         \/ rows'[e] = rows[e] /\ pc'[e] = "rollback"
  BY <1>1 DEF MigrationInv, TypeOK
<1>4. /\ pc' \in [Engines -> Step] /\ rows' \in [Engines -> SUBSET Files]
      /\ \A other \in Engines \ {e} : pc'[other] = pc[other] /\ rows'[other] = rows[other]
  <2>1. pc \in [Engines -> Step] /\ rows \in [Engines -> SUBSET Files]
    BY DEF MigrationInv, TypeOK
  <2>2. {"insert", "commit", "rollback"} \subseteq Step
    BY DEF Step
  <2>3. rows[e] \cup {Current(e)} \in SUBSET Files
    BY <1>2, <2>1
  <2>. QED  BY <1>1, <2>1, <2>2, <2>3
<1>5. TypeOK' /\ Alone(e)
  BY <1>1, <1>4 DEF MigrationInv, TypeOK, Alone
<1>6. ListsInv(e)'
  BY <1>1, <1>3 DEF ListsInv, Applying
<1>7. TransactionInv(e)'
  BY <1>1, <1>3, <1>4 DEF TransactionInv, Applying, Current
<1>. QED  BY <1>1, <1>5, <1>6, <1>7, OneEngine DEF MigrationInv

(* COMMIT makes of the transaction one step of the schema's history. *)
LEMMA PublishFacts ==
    ASSUME MigrationInv, NEW e \in Engines, pc[e] = "commit", Publish(e)
    PROVE  /\ Current(e) \in Files \ recorded
           /\ recorded' = recorded \cup {Current(e)}
           /\ effects' = [effects EXCEPT ![Current(e)] = @ + 1]
           /\ IsFiniteSet(recorded')
           /\ effects' \in [Files -> Nat]
           /\ (\A f \in Files : effects[f] = IF f \in recorded THEN 1 ELSE 0)'
<1>1. /\ ran[e] = {Current(e)} /\ rows[e] = {Current(e)} /\ rows[e] \cap recorded = {}
      /\ todo[e] # <<>> /\ todo[e] \in Seq(Files) /\ InOrder(todo[e])
      /\ effects \in [Files -> Nat]
  BY DEF MigrationInv, TypeOK, TransactionInv, ListsInv, Applying
<1>2. Current(e) \in Files \ recorded
  BY <1>1, FirstAndRest DEF Current
<1>3. recorded' = recorded \cup {Current(e)}
  BY <1>1 DEF Publish
<1>4. effects' = [effects EXCEPT ![Current(e)] = @ + 1]
  BY <1>1, <1>2 DEF Publish
<1>5. IsFiniteSet(recorded')
  BY <1>3, FS_AddElement DEF MigrationInv
<1>6. effects[Current(e)] = 0
  BY <1>2 DEF MigrationInv
<1>. QED  BY <1>1, <1>2, <1>3, <1>4, <1>5, <1>6 DEF MigrationInv

LEMMA CommitInv ==
    ASSUME MigrationInv, NEW e \in Engines, Commit(e)
    PROVE  MigrationInv'
<1>1. /\ pc[e] = "commit" /\ listed' = listed /\ pc' \in [Engines -> Step]
      /\ ListsInv(e) /\ TransactionInv(e)
      /\ todo[e] \in Seq(Files) /\ todo[e] # <<>> /\ InOrder(todo[e])
  BY DEF Commit, Goto, MigrationInv, TypeOK, ListsInv, Applying, Step
<1>2. /\ Tail(todo[e]) \in Seq(Files) /\ InOrder(Tail(todo[e]))
      /\ Range(todo[e]) = {Current(e)} \cup Range(Tail(todo[e]))
  BY <1>1, FirstAndRest DEF Current
<1>3. CASE /\ Publish(e) /\ CloseTransaction(e)
           /\ \/ /\ todo' = [todo EXCEPT ![e] = Tail(todo[e])]
                 /\ pc' = [pc EXCEPT ![e] = "next"]
              \/ todo' = todo /\ pc' = [pc EXCEPT ![e] = "rollback"]
  <2>1. /\ recorded' = recorded \cup {Current(e)} /\ IsFiniteSet(recorded')
        /\ Current(e) \in Files /\ effects' \in [Files -> Nat]
        /\ (\A f \in Files : effects[f] = IF f \in recorded THEN 1 ELSE 0)'
    BY <1>1, <1>3, PublishFacts
  <2>2. /\ ran' \in [Engines -> SUBSET Files] /\ rows' \in [Engines -> SUBSET Files]
        /\ ran'[e] = {} /\ rows'[e] = {}
        /\ \A other \in Engines \ {e} : ran'[other] = ran[other] /\ rows'[other] = rows[other]
    BY <1>3 DEF CloseTransaction, MigrationInv, TypeOK
  <2>3. /\ todo' \in [Engines -> Seq(Files)]
        /\ \A other \in Engines \ {e} : todo'[other] = todo[other] /\ pc'[other] = pc[other]
        /\ \/ todo'[e] = Tail(todo[e]) /\ pc'[e] = "next"
           \/ todo'[e] = todo[e] /\ pc'[e] = "rollback"
    BY <1>2, <1>3 DEF MigrationInv, TypeOK
  <2>4. TypeOK' /\ Alone(e)
    BY <1>1, <2>1, <2>2, <2>3 DEF MigrationInv, TypeOK, Alone
  <2>5. ListsInv(e)'
    BY <1>1, <1>2, <2>1, <2>3 DEF ListsInv, Applying
  <2>6. TransactionInv(e)' /\ rows[e] = {Current(e)}
    BY <1>1, <2>2, <2>3 DEF TransactionInv, Applying
  <2>. QED  BY <2>1, <2>4, <2>5, <2>6, OneEngine DEF MigrationInv
<1>4. CASE /\ UNCHANGED <<recorded, effects, ran, rows, todo>>
           /\ pc' = [pc EXCEPT ![e] = "rollback"]
  <2>1. TypeOK' /\ Alone(e)
    BY <1>1, <1>4 DEF MigrationInv, TypeOK, Alone
  <2>2. ListsInv(e)' /\ TransactionInv(e)'
    BY <1>1, <1>4 DEF MigrationInv, TypeOK, ListsInv, TransactionInv, Applying
  <2>. QED  BY <1>4, <2>1, <2>2, OneEngine DEF MigrationInv
<1>. QED  BY <1>3, <1>4 DEF Commit, Goto, schema, transaction

(* A transaction that is given up, with the process or before it. *)
LEMMA GiveUpInv ==
    ASSUME MigrationInv, NEW e \in Engines, Rollback(e) \/ Restart(e)
    PROVE  MigrationInv'
<1>1. /\ UNCHANGED <<recorded, effects>>
      /\ ran' = [ran EXCEPT ![e] = {}] /\ rows' = [rows EXCEPT ![e] = {}]
      /\ \/ UNCHANGED <<listed, todo>> /\ pc' = [pc EXCEPT ![e] = "failed"]
         \/ /\ listed' = [listed EXCEPT ![e] = <<>>] /\ todo' = [todo EXCEPT ![e] = <<>>]
            /\ pc' = [pc EXCEPT ![e] = "boot"]
  BY DEF Rollback, Restart, CloseTransaction, Goto, schema, lists
<1>2. /\ listed' \in [Engines -> Seq(Files)] /\ todo' \in [Engines -> Seq(Files)]
      /\ pc' \in [Engines -> Step]
      /\ \A other \in Engines \ {e} :
            /\ listed'[other] = listed[other] /\ todo'[other] = todo[other]
            /\ pc'[other] = pc[other]
      /\ \/ /\ listed'[e] = listed[e] /\ todo'[e] = todo[e] /\ pc'[e] = "failed"
         \/ listed'[e] = <<>> /\ todo'[e] = <<>> /\ pc'[e] = "boot"
  <2>1. <<>> \in Seq(Files) /\ {"failed", "boot"} \subseteq Step
    BY DEF Step
  <2>. QED  BY <1>1, <2>1 DEF MigrationInv, TypeOK
<1>3. /\ ran' \in [Engines -> SUBSET Files] /\ rows' \in [Engines -> SUBSET Files]
      /\ ran'[e] = {} /\ rows'[e] = {}
      /\ \A other \in Engines \ {e} : ran'[other] = ran[other] /\ rows'[other] = rows[other]
  BY <1>1 DEF MigrationInv, TypeOK
<1>4. TypeOK' /\ Alone(e) /\ ListsInv(e)
  BY <1>1, <1>2, <1>3 DEF MigrationInv, TypeOK, Alone
<1>5. ListsInv(e)'
  <2>1. Range(<<>>) = {} /\ InOrder(<<>>)
    BY DEF Range, InOrder
  <2>. QED  BY <1>1, <1>2, <1>4, <2>1 DEF ListsInv, Applying
<1>6. TransactionInv(e)'
  BY <1>2, <1>3 DEF TransactionInv, Applying
<1>. QED  BY <1>1, <1>4, <1>5, <1>6, OneEngine DEF MigrationInv

LEMMA NextMigration == MigrationInv /\ [NextAll]_allVars => MigrationInv'
<1> SUFFICES ASSUME MigrationInv, [NextAll]_allVars PROVE MigrationInv'
  OBVIOUS
<1>1. CASE UNCHANGED vars
  BY <1>1 DEF vars, schema, transaction, lists, MigrationInv, TypeOK, ListsInv,
              TransactionInv, Current
<1>2. ASSUME NEW e \in Engines, Boot(e) PROVE MigrationInv'
  BY <1>2, ListInv, ForwardInv, SkipInv, RunContentsInv, InsertVersionInv, CommitInv, GiveUpInv
     DEF Boot
<1>3. ASSUME NEW e \in Engines, Restart(e) PROVE MigrationInv'
  BY <1>3, GiveUpInv
<1>. QED  BY <1>1, <1>2, <1>3 DEF NextAll, Serve, Migrate, Stop, allVars

LEMMA MigrationInvariance == SpecAll => []MigrationInv
  BY InitMigration, NextMigration, PTL DEF SpecAll

(* The tables, the lists and the transactions keep their types. *)
THEOREM MigrationTypes == SpecAll => []TypeOK
<1>1. MigrationInv => TypeOK
  BY DEF MigrationInv
<1>. QED  BY <1>1, MigrationInvariance, PTL

(* An engine that is up has nothing left to look at. *)
LEMMA UpFacts ==
    ASSUME MigrationInv, NEW e \in Engines, pc[e] = "up"
    PROVE  \A f \in Release[e] : f \in recorded /\ effects[f] = 1
<1>1. Range(todo[e]) = {}
  BY DEF MigrationInv, ListsInv, Range
<1>2. Release[e] \subseteq recorded
  BY <1>1 DEF MigrationInv, ListsInv
<1>. QED  BY <1>2, ReleaseAssumption DEF MigrationInv

(* An engine serves requests only when each of its files has taken effect, once,
   with its row, whatever the collation made of the list it searched. *)
THEOREM MigratedBeforeUp == SpecAll => []UpMeansMigrated
<1>1. MigrationInv => UpMeansMigrated
  BY UpFacts DEF UpMeansMigrated
<1>. QED  BY <1>1, MigrationInvariance, PTL

(* While a user is stored, the schema is the one the server is shipped with. *)
THEOREM StoredInMigratedSchema == SpecAll => StoredInSchema
<1>1. MigrationInv /\ [NextAll]_allVars
        => [users' # users =>
              \A f \in Release[Server] : f \in recorded /\ effects[f] = 1]_allVars
  <2> SUFFICES ASSUME MigrationInv, [NextAll]_allVars, users' # users
               PROVE  \A f \in Release[Server] : f \in recorded /\ effects[f] = 1
    OBVIOUS
  <2>1. pc[Server] = "up"
    BY DEF NextAll, Serve, Migrate, Stop, Listening, allVars, wizard, Wizard!Restart
  <2>. QED  BY <2>1, UpFacts, ServerAssumption
<1>. QED  BY <1>1, MigrationInvariance, PTL DEF SpecAll, StoredInSchema

(* Each release has all the files before any of its own, as it has when releases
   only ever add files behind those of the release before. *)
ReleasesArePrefixes ==
    \A e \in Engines : \A f \in Release[e], g \in Files : g < f => g \in Release[e]

(* The files take effect once, each with its row and after all before it: the
   bootstrap implements the schema's history, whoever boots meanwhile. *)
THEOREM HistoryIsKept ==
    ASSUME ReleasesArePrefixes
    PROVE  SpecAll => KeepsHistory
<1>1. InitAll => History!Init
  BY DEF InitAll, Init, History!Init
<1>2. MigrationInv /\ [NextAll]_allVars => [History!Next]_<<recorded, effects>>
  <2> SUFFICES ASSUME MigrationInv, NextAll, ~UNCHANGED schema PROVE History!Next
    BY DEF schema, allVars, vars
  <2>1. PICK e \in Engines : Commit(e) /\ Publish(e)
    BY DEF NextAll, Serve, Migrate, Stop, Boot, Restart, List, Finish, Skip, Apply, Begin,
           RunContents, InsertVersion, Commit, Rollback, schema, vars
  <2>2. pc[e] = "commit"
    BY <2>1 DEF Commit
  <2>3. /\ Current(e) \in Files \ recorded
        /\ recorded' = recorded \cup {Current(e)}
        /\ effects' = [effects EXCEPT ![Current(e)] = @ + 1]
    BY <2>1, <2>2, PublishFacts
  <2>4. ASSUME NEW g \in Files, g < Current(e) PROVE g \in recorded
    <3>1. /\ todo[e] \in Seq(Files) /\ todo[e] # <<>> /\ InOrder(todo[e])
          /\ Range(todo[e]) \subseteq Release[e]
          /\ Release[e] \ Range(todo[e]) \subseteq recorded
      BY <2>2 DEF MigrationInv, TypeOK, ListsInv, Applying
    <3>2. Current(e) \in Release[e] /\ \A f \in Range(todo[e]) : Current(e) <= f
      BY <3>1, FirstAndRest DEF Current
    <3>3. g \in Nat /\ Current(e) \in Nat
      BY <2>3, FileAssumption
    <3>4. g \in Release[e] \ Range(todo[e])
      BY <2>4, <3>2, <3>3 DEF ReleasesArePrefixes
    <3>. QED  BY <3>1, <3>4
  <2>. QED  BY <2>3, <2>4 DEF History!Next, History!Apply
<1>. QED  BY <1>1, <1>2, MigrationInvariance, PTL DEF SpecAll, KeepsHistory, History!Spec

-----------------------------------------------------------------------------
(* A file that the engine begins was not in the list it read. *)
SkippedInv ==
    /\ ListedInOrder
    /\ \A e \in Engines : pc[e] = "begin" => Current(e) \notin Range(listed[e])

LEMMA NextSkipped ==
    ASSUME CollationAgrees, MigrationInv, SkippedInv, [NextAll]_allVars
    PROVE  SkippedInv'
<1>1. CASE UNCHANGED vars
  BY <1>1 DEF vars, lists, SkippedInv, ListedInOrder, Current
<1>2. ASSUME NEW e \in Engines, List(e) PROVE SkippedInv'
  <2>. DEFINE all == Sorted(recorded, Rank)
  <2>1. InOrder(all)
    <3>1. Ranks(Rank, recorded) /\ recorded \subseteq Files
      BY FileAssumption DEF MigrationInv, TypeOK, Ranks
    <3>2. /\ all \in Seq(recorded)
          /\ \A i, j \in DOMAIN all : i < j => Rank[all[i]] < Rank[all[j]]
      BY <3>1, SortedFacts
    <3>. HIDE DEF all
    <3>3. \A i \in DOMAIN all : all[i] \in Files
      BY <3>1, <3>2
    <3>4. \A f, g \in Files : Rank[f] < Rank[g] => f < g
      BY FileAssumption DEF CollationAgrees
    <3>. QED  BY <3>2, <3>3, <3>4 DEF InOrder
  <2>. HIDE DEF all
  <2>2. /\ \/ listed' = listed
           \/ listed' = [listed EXCEPT ![e] = all]
        /\ pc'[e] # "begin"
        /\ \A other \in Engines \ {e} :
              pc'[other] = pc[other] /\ todo'[other] = todo[other] /\ listed'[other] = listed[other]
    BY <1>2 DEF List, Goto, lists, all, MigrationInv, TypeOK
  <2>3. ListedInOrder'
    BY <2>1, <2>2 DEF SkippedInv, ListedInOrder, MigrationInv, TypeOK
  <2>. QED  BY <2>2, <2>3 DEF SkippedInv, Current
<1>3. ASSUME NEW e \in Engines, Apply(e) PROVE SkippedInv'
  <2>1. Head(todo[e]) \notin Range(listed[e])
    <3>1. /\ todo[e] \in Seq(Files) /\ listed[e] \in Seq(Files) /\ todo[e] # <<>>
          /\ InOrder(listed[e]) /\ ~BinarySearch(listed[e], Head(todo[e]))
      BY <1>3 DEF Apply, MigrationInv, TypeOK, SkippedInv, ListedInOrder
    <3>2. Head(todo[e]) \in Nat /\ listed[e] \in Seq(Nat)
      BY <3>1, FileLists, FileAssumption
    <3>. QED  BY <3>1, <3>2, BinarySearchFacts
  <2>2. /\ UNCHANGED <<listed, todo>>
        /\ \A other \in Engines \ {e} : pc'[other] = pc[other]
    BY <1>3 DEF Apply, Goto, lists, MigrationInv, TypeOK
  <2>. QED  BY <2>1, <2>2 DEF SkippedInv, ListedInOrder, Current
<1>4. ASSUME NEW e \in Engines,
             \/ Finish(e) \/ Skip(e) \/ Begin(e) \/ RunContents(e)
             \/ InsertVersion(e) \/ Commit(e) \/ Rollback(e) \/ Restart(e)
      PROVE  SkippedInv'
  <2>1. pc'[e] # "begin"
    BY <1>4 DEF Finish, Skip, Begin, RunContents, InsertVersion, Commit, Rollback, Restart,
                Goto, MigrationInv, TypeOK
  <2>2. listed' = listed \/ listed' = [listed EXCEPT ![e] = <<>>]
    BY <1>4 DEF Finish, Skip, Begin, RunContents, InsertVersion, Commit, Rollback, Restart, lists
  <2>3. \A other \in Engines \ {e} :
           pc'[other] = pc[other] /\ todo'[other] = todo[other] /\ listed'[other] = listed[other]
    BY <1>4 DEF Finish, Skip, Begin, RunContents, InsertVersion, Commit, Rollback, Restart,
                Goto, lists, MigrationInv, TypeOK
  <2>4. InOrder(<<>>) /\ listed \in [Engines -> Seq(Files)]
    BY DEF InOrder, MigrationInv, TypeOK
  <2>5. ListedInOrder'
    BY <2>2, <2>4 DEF SkippedInv, ListedInOrder
  <2>. QED  BY <2>1, <2>3, <2>5 DEF SkippedInv, Current
<1>. QED  BY <1>1, <1>2, <1>3, <1>4 DEF NextAll, Serve, Migrate, Stop, Boot, allVars

(* As long as the collation sorts the names of the files as their bytes do, the
   search finds whatever is in the list: nothing recorded is begun again. *)
THEOREM ListedAreSkipped ==
    ASSUME CollationAgrees
    PROVE  SpecAll => []ListedIsSkipped
<1>1. InitAll => SkippedInv
  BY InitMigration DEF InitAll, Init, SkippedInv
<1>2. MigrationInv /\ SkippedInv /\ [NextAll]_allVars => SkippedInv'
  BY NextSkipped
<1>3. SkippedInv => ListedIsSkipped
  BY DEF SkippedInv, ListedIsSkipped
<1>. QED  BY <1>1, <1>2, <1>3, MigrationInvariance, PTL DEF SpecAll

-----------------------------------------------------------------------------
(* What the wizard remembers, and what it has answered, is about names that it
   has inserted itself and that are still there. *)
WizardInv ==
    /\ Wizard!TypeOK
    /\ \A w \in Workers : wizardPc[w] = "insert" => name[w] \in Names
    /\ \A w \in Workers : wizardPc[w] = "find" => name[w] \in Names
    /\ adminCreated => created # {}
    /\ \A n \in Names : successes[n] <= 1 /\ (successes[n] = 1 => n \in created)

LEMMA WizardTypes ==
    WizardInv => /\ configured \in BOOLEAN /\ adminCreated \in BOOLEAN /\ company \in BOOLEAN
                 /\ wizardPc \in [Workers -> {"idle", "find", "insert"}]
                 /\ successes \in [Names -> Nat] /\ created \subseteq users /\ users \subseteq Names
  BY DEF WizardInv, Wizard!TypeOK

LEMMA InitWizard == InitAll => WizardInv
<1> SUFFICES ASSUME InitAll PROVE WizardInv
  OBVIOUS
<1>1. configured \in BOOLEAN /\ adminCreated \in BOOLEAN /\ company \in BOOLEAN /\ ~adminCreated
  BY ZenonT(30) DEF InitAll, Wizard!Init
<1>2. /\ users = {} /\ created = {} /\ successes = [n \in Names |-> 0]
      /\ wizardPc = [w \in Workers |-> "idle"] /\ name = [w \in Workers |-> Wizard!NoName]
  BY DEF InitAll, Wizard!Init
<1>. QED  BY <1>1, <1>2 DEF WizardInv, Wizard!TypeOK

(* The INSERT adds a name that is not in the table, so that no request was
   answered with it before. *)
LEMMA InsertInv ==
    ASSUME WizardInv, NEW w \in Workers, Wizard!Insert(w)
    PROVE  WizardInv'
<1>. USE DEF WizardInv, Wizard!TypeOK, Wizard!Return, Wizard!history
<1>1. name[w] \in Names /\ wizardPc[w] = "insert"
  BY DEF Wizard!Insert
<1>2. /\ wizardPc' \in [Workers -> {"idle", "find", "insert"}]
      /\ name' \in [Workers -> Names \cup {Wizard!NoName}]
      /\ \A v \in Workers : wizardPc'[v] # "idle" => wizardPc'[v] = wizardPc[v] /\ name'[v] = name[v]
  BY DEF Wizard!Insert
<1>3. CASE UNCHANGED <<users, adminCreated, created, successes>>
  BY <1>2, <1>3 DEF Wizard!Insert
<1>4. CASE /\ name[w] \notin users
           /\ users' = users \cup {name[w]} /\ created' = created \cup {name[w]}
           /\ UNCHANGED <<adminCreated, successes>>
  BY <1>1, <1>2, <1>4 DEF Wizard!Insert
<1>5. CASE /\ name[w] \notin users
           /\ users' = users \cup {name[w]} /\ created' = created \cup {name[w]}
           /\ adminCreated' = TRUE
           /\ successes' = [successes EXCEPT ![name[w]] = @ + 1]
  <2>1. successes[name[w]] = 0
    BY <1>1, <1>5
  <2>. QED  BY <1>1, <1>2, <1>5, <2>1 DEF Wizard!Insert
<1>. QED  BY <1>3, <1>4, <1>5 DEF Wizard!Insert

LEMMA NextWizard == WizardInv /\ [NextAll]_allVars => WizardInv'
<1> SUFFICES ASSUME WizardInv, [NextAll]_allVars PROVE WizardInv'
  OBVIOUS
<1>. USE DEF Wizard!memory, Wizard!history
<1>1. CASE UNCHANGED wizard
  BY <1>1 DEF wizard, WizardInv, Wizard!TypeOK
<1>2. CASE Wizard!ConfigureDatabase \/ Wizard!RegisterCompany
  <2>1. configured' \in BOOLEAN /\ company' \in BOOLEAN
    BY <1>2, WizardTypes DEF Wizard!ConfigureDatabase, Wizard!RegisterCompany
  <2>2. UNCHANGED <<users, adminCreated, wizardPc, name, created, successes>>
    BY <1>2 DEF Wizard!ConfigureDatabase, Wizard!RegisterCompany
  <2>. QED  BY <2>1, <2>2 DEF WizardInv, Wizard!TypeOK
<1>3. ASSUME NEW w \in Workers, NEW n \in Names, Wizard!CreateAdmin(w, n) PROVE WizardInv'
  BY <1>3 DEF Wizard!CreateAdmin, WizardInv, Wizard!TypeOK
<1>4. ASSUME NEW w \in Workers, Wizard!FindByUsername(w) PROVE WizardInv'
  BY <1>4 DEF Wizard!FindByUsername, Wizard!Return, WizardInv, Wizard!TypeOK
<1>5. ASSUME NEW w \in Workers, Wizard!Insert(w) PROVE WizardInv'
  BY <1>5, InsertInv
<1>6. CASE Wizard!Restart
  BY <1>6 DEF Wizard!Restart, WizardInv, Wizard!TypeOK
<1>. QED
  BY <1>1, <1>2, <1>3, <1>4, <1>5, <1>6
     DEF NextAll, Serve, Migrate, Stop, Wizard!Request, allVars

LEMMA WizardInvariance == SpecAll => []WizardInv
  BY InitWizard, NextWizard, PTL DEF SpecAll

(* A wizard past its second step has an administrator that it created. *)
THEOREM AdminCorrect == SpecAll => []AdminIsThere
<1>1. WizardInv => AdminIsThere
  BY WizardTypes DEF WizardInv, AdminIsThere, Wizard!AdminIsThere, Wizard!Step
<1>. QED  BY <1>1, WizardInvariance, PTL

(* No two requests are told that they created the same administrator, not even
   by different runs of the engine. *)
THEOREM CreationCorrect == SpecAll => []CreatedOnce
<1>1. WizardInv => CreatedOnce
  BY DEF WizardInv, CreatedOnce, Wizard!CreatedOnce
<1>. QED  BY <1>1, WizardInvariance, PTL

(* While the engine runs no request takes the wizard back a step. *)
THEOREM ProgressCorrect == SpecAll => NeverGoesBack
<1>1. WizardInv /\ [NextAll]_allVars
        => [Wizard!Step' >= Wizard!Step \/ ~configured']_(Wizard!vars)
  <2> SUFFICES ASSUME WizardInv, [NextAll]_allVars
               PROVE  [Wizard!Step' >= Wizard!Step \/ ~configured']_(Wizard!vars)
    OBVIOUS
  <2>1. \/ UNCHANGED wizard
        \/ configured' = FALSE
        \/ /\ configured => configured'
           /\ adminCreated => adminCreated'
           /\ company => company'
    BY WizardTypes
       DEF NextAll, Serve, Migrate, Stop, allVars, wizard, Wizard!Request, Wizard!Restart,
           Wizard!ConfigureDatabase, Wizard!RegisterCompany, Wizard!CreateAdmin,
           Wizard!FindByUsername, Wizard!Insert, Wizard!memory, Wizard!history
  <2>2. CASE UNCHANGED wizard
    BY <2>2 DEF wizard, Wizard!vars, Wizard!memory, Wizard!history
  <2>. QED  BY <2>1, <2>2 DEF Wizard!Step
<1>. QED  BY <1>1, WizardInvariance, PTL DEF SpecAll, NeverGoesBack, Wizard!NeverGoesBack
=============================================================================
