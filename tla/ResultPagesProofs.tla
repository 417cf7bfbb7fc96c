--------------------------- MODULE ResultPagesProofs ---------------------------
(***************************************************************************)
(* Proofs about ResultPages, for any size of a page, any number of results *)
(* and of clicks, and a store that may fail or not.                        *)
(*                                                                         *)
(* What a request has read is a segment of the results by rank.  As long   *)
(* as nothing is recorded ranks only fall, and one that has fallen stands  *)
(* behind a result that has expired.                                       *)
(***************************************************************************)
EXTENDS ResultPages, FiniteSetTheorems, SequenceTheorems, TLAPS

IdsOf(rows) == {rows[i].id : i \in DOMAIN rows}

\* A result newer than r has expired.
Overtaken(C, r) == \E c \in C : r < c

\* X are shown, of the results S: what lies beyond the offset is older than all
\* of them, and what lies before it is among them or has been skipped.
Segment(S, C, X, offset) ==
    \A r \in S :
        /\ Cardinality(Before(S, r)) >= offset => \A x \in X : r < x
        /\ Cardinality(Before(S, r)) < offset => r \in X \/ Overtaken(C, r)

Falling(rows) ==
    /\ \A i, k \in DOMAIN rows :
         i < k => rows[i].id > rows[k].id /\ rows[i].num > rows[k].num
    /\ \A i \in DOMAIN rows : rows[i].num >= 1

NumsAbove(rows, n) == \A i \in DOMAIN rows : rows[i].num > n

\* Rows that are in order, and from which the next page can go on at the offset.
Part(rows, offset) ==
    /\ Falling(rows)
    /\ Segment(ToSet(stored), cleaned, IdsOf(rows), offset)
    /\ NumsAbove(rows, Total - offset)

-----------------------------------------------------------------------------
(* The inductive invariant. *)

\* No result is there twice.
Distinct == \A i, k \in DOMAIN stored : stored[i] = stored[k] => i = k

\* The request for the table, if nothing has been recorded since it began.
TableInv ==
    ~behind =>
        /\ refresh.at # "idle" => Total <= refresh.total
        /\ refresh.at = "answered" => Part(refresh.rows, Len(refresh.rows))

PageInv ==
    Quiet =>
        /\ Falling(page)
        /\ button # None => Part(page, button)
        /\ button = None => \A r \in ToSet(stored) : r \in Shown \/ Overtaken(cleaned, r)

MoreInv ==
    Quiet =>
        \A q \in requests :
            /\ button = q.offset
            /\ Total <= q.total
            /\ NumsAbove(page, q.total - q.offset)
            /\ q.at = "answered" =>
                 /\ Len(q.rows) <= PageSize
                 /\ Part(page \o q.rows, q.offset + PageSize)

IInv == TypeOK /\ Distinct /\ TableInv /\ PageInv /\ MoreInv

-----------------------------------------------------------------------------
(* Ranks: how many results of a set are newer than one of them. *)

LEMMA IdFacts ==
    ASSUME NEW S \in SUBSET Ids
    PROVE  /\ S \subseteq Int
           /\ IsFiniteSet(S) /\ Cardinality(S) \in Nat
PROOF
  <1>1. IsFiniteSet(Ids) /\ Ids \subseteq Int
    BY FS_Interval, SizesAssumption DEF Ids
  <1>2. IsFiniteSet(S)
    BY <1>1, FS_Subset
  <1> QED
    BY <1>1, <1>2, FS_CardinalityType

LEMMA BeforeFacts ==
    ASSUME NEW S \in SUBSET Ids, NEW r
    PROVE  /\ Before(S, r) \in SUBSET S
           /\ IsFiniteSet(Before(S, r)) /\ Cardinality(Before(S, r)) \in Nat
PROOF
  <1>1. Before(S, r) \in SUBSET S /\ Before(S, r) \in SUBSET Ids
    BY DEF Before
  <1> QED
    BY <1>1, IdFacts

LEMMA RankBound ==
    ASSUME NEW S \in SUBSET Ids, NEW r \in S
    PROVE  Cardinality(Before(S, r)) \in 0..(Cardinality(S) - 1)
PROOF
  <1>1. Before(S, r) \in SUBSET S /\ r \notin Before(S, r)
    BY IdFacts DEF Before
  <1>2. /\ Cardinality(Before(S, r)) <= Cardinality(S)
        /\ Cardinality(Before(S, r)) # Cardinality(S)
    BY <1>1, IdFacts, FS_Subset
  <1> QED
    BY <1>2, IdFacts, BeforeFacts

\* The newer of two results has the lower rank.
LEMMA RankOrder ==
    ASSUME NEW S \in SUBSET Ids, NEW r \in S, NEW q \in S, r < q
    PROVE  Cardinality(Before(S, q)) < Cardinality(Before(S, r))
PROOF
  <1>1. /\ Before(S, q) \in SUBSET Before(S, r)
        /\ q \in Before(S, r) /\ q \notin Before(S, q)
    <2>1. S \subseteq Int /\ r \in Int /\ q \in Int
      BY IdFacts
    <2>2. q > r /\ ~(q > q) /\ \A x \in S : x > q => x > r
      BY <2>1
    <2> QED
      BY <2>1, <2>2 DEF Before
  <1>2. /\ Cardinality(Before(S, q)) <= Cardinality(Before(S, r))
        /\ Cardinality(Before(S, q)) # Cardinality(Before(S, r))
    BY <1>1, BeforeFacts, FS_Subset
  <1> QED
    BY <1>2, BeforeFacts

LEMMA RankSorts ==
    ASSUME NEW S \in SUBSET Ids, NEW r \in S, NEW q \in S
    PROVE  /\ r < q <=> Cardinality(Before(S, q)) < Cardinality(Before(S, r))
           /\ r = q <=> Cardinality(Before(S, q)) = Cardinality(Before(S, r))
PROOF
  <1>1. r \in Int /\ q \in Int
    BY IdFacts
  <1>2. Cardinality(Before(S, q)) \in Nat /\ Cardinality(Before(S, r)) \in Nat
    BY BeforeFacts
  <1>3. CASE r < q
    BY <1>1, <1>2, <1>3, RankOrder
  <1>4. CASE q < r
    BY <1>1, <1>2, <1>4, RankOrder
  <1>5. CASE r = q
    BY <1>1, <1>2, <1>5
  <1> QED
    BY <1>1, <1>3, <1>4, <1>5

\* Every rank is taken: ranks are an injection into as many numbers as there
\* are results.
LEMMA RankTaken ==
    ASSUME NEW S \in SUBSET Ids, NEW k \in 0..(Cardinality(S) - 1)
    PROVE  \E r \in S : Cardinality(Before(S, r)) = k
PROOF
  <1> DEFINE n == Cardinality(S)
             rank == [r \in S |-> Cardinality(Before(S, r))]
             Ranks == 0..(n - 1)
  <1>1. n \in Nat /\ IsFiniteSet(S)
    BY IdFacts
  <1>2. IsFiniteSet(Ranks) /\ Cardinality(Ranks) = n
    <2>1. ASSUME NEW b \in Int, b >= -1
          PROVE  IsFiniteSet(0..b) /\ Cardinality(0..b) = b + 1
      <3>1. IsFiniteSet(0..b) /\ Cardinality(0..b) = IF 0 > b THEN 0 ELSE b - 0 + 1
        BY FS_Interval
      <3> QED
        BY <2>1, <3>1
    <2>2. n - 1 \in Int /\ n - 1 >= -1 /\ (n - 1) + 1 = n
      BY <1>1
    <2> HIDE DEF n
    <2> QED
      BY <2>1, <2>2
  <1>3. rank \in [S -> Ranks]
    BY RankBound
  <1>4. \A r, q \in S : rank[r] = rank[q] => r = q
    BY RankSorts
  <1>5. rank \in Injection(S, Ranks)
    BY <1>3, <1>4 DEF Injection, IsInjective
  <1>6. rank \in Surjection(S, Ranks)
    BY <1>1, <1>2, <1>5, FS_Injection
  <1>7. \E r \in S : rank[r] = k
    BY <1>6 DEF Surjection
  <1> QED
    BY <1>7

\* Where results go, ranks fall, and a rank that falls is that of a result that
\* was older than one that went.
LEMMA RankFalls ==
    ASSUME NEW S \in SUBSET Ids, NEW T \in SUBSET S, NEW r \in T
    PROVE  /\ Cardinality(Before(T, r)) <= Cardinality(Before(S, r))
           /\ \/ Cardinality(Before(T, r)) = Cardinality(Before(S, r))
              \/ \E x \in S \ T : r < x
PROOF
  <1>1. Before(T, r) \in SUBSET Before(S, r)
    BY DEF Before
  <1>2. IsFiniteSet(Before(S, r))
    BY BeforeFacts
  <1>3. CASE \E x \in S \ T : r < x
    BY <1>1, <1>2, <1>3, FS_Subset
  <1>4. CASE \A x \in S \ T : ~(r < x)
    <2>1. Before(T, r) = Before(S, r)
      <3>1. S \subseteq Int /\ T \subseteq Int
        BY IdFacts
      <3> QED
        BY <1>4, <3>1 DEF Before
    <2> QED
      BY <2>1, BeforeFacts
  <1> QED
    BY <1>3, <1>4

\* A segment stays one while results expire.
LEMMA SegmentKept ==
    ASSUME NEW S \in SUBSET Ids, NEW T \in SUBSET S, NEW C \in SUBSET Ids,
           NEW D \in SUBSET Ids, C \subseteq D, S \ T \subseteq D,
           NEW X, NEW offset \in Nat, Segment(S, C, X, offset)
    PROVE  Segment(T, D, X, offset)
PROOF
  <1> SUFFICES ASSUME NEW r \in T
               PROVE  /\ Cardinality(Before(T, r)) >= offset => \A x \in X : r < x
                      /\ Cardinality(Before(T, r)) < offset => r \in X \/ Overtaken(D, r)
    BY DEF Segment
  <1>1. /\ Cardinality(Before(T, r)) <= Cardinality(Before(S, r))
        /\ \/ Cardinality(Before(T, r)) = Cardinality(Before(S, r))
           \/ Overtaken(D, r)
    BY RankFalls DEF Overtaken
  <1>2. Cardinality(Before(T, r)) \in Nat /\ Cardinality(Before(S, r)) \in Nat
    BY BeforeFacts
  <1>3. /\ Cardinality(Before(S, r)) >= offset => \A x \in X : r < x
        /\ Cardinality(Before(S, r)) < offset => r \in X \/ Overtaken(D, r)
    BY DEF Segment, Overtaken
  <1> QED
    BY <1>1, <1>2, <1>3

-----------------------------------------------------------------------------
(* The store, and what a statement reads of it. *)

LEMMA StoreFacts ==
    ASSUME NEW s \in Seq(Ids), \A i, k \in DOMAIN s : s[i] = s[k] => i = k
    PROVE  /\ ToSet(s) \in SUBSET Ids
           /\ Cardinality(ToSet(s)) = Len(s)
           /\ Len(s) \in 0..MaxResults
PROOF
  <1>1. Len(s) \in Nat /\ DOMAIN s = 1..Len(s) /\ \A i \in 1..Len(s) : s[i] \in Ids
    OBVIOUS
  <1>2. ToSet(s) \in SUBSET Ids
    BY <1>1 DEF ToSet
  <1>3. Cardinality(ToSet(s)) = Len(s)
    <2>1. s \in [1..Len(s) -> ToSet(s)]
      BY <1>1 DEF ToSet
    <2>2. s \in Bijection(1..Len(s), ToSet(s))
      BY <1>1, <2>1 DEF Bijection, Injection, Surjection, IsInjective, ToSet
    <2> QED
      BY <1>1, <2>2, FS_CountingElements DEF ExistsBijection
  <1>4. IsFiniteSet(Ids) /\ Cardinality(Ids) = MaxResults
    <2>1. Cardinality(1..MaxResults) = IF 1 > MaxResults THEN 0 ELSE MaxResults - 1 + 1
      BY SizesAssumption, FS_Interval
    <2>2. IsFiniteSet(Ids)
      BY IdFacts
    <2> QED
      BY <2>1, <2>2, SizesAssumption DEF Ids
  <1>5. Cardinality(ToSet(s)) <= Cardinality(Ids)
    BY <1>2, <1>4, FS_Subset
  <1> QED
    BY <1>1, <1>2, <1>3, <1>4, <1>5, SizesAssumption

LEMMA SmallerOfTwo ==
    ASSUME NEW a \in Int, NEW b \in Int
    PROVE  Min({a, b}) = IF a <= b THEN a ELSE b
PROOF
  <1> DEFINE m == IF a <= b THEN a ELSE b
  <1>1. m \in {a, b} /\ \A y \in {a, b} : m <= y
    OBVIOUS
  <1>2. \A x \in {a, b} : (\A y \in {a, b} : x <= y) => x = m
    OBVIOUS
  <1> QED
    BY <1>1, <1>2 DEF Min

\* A page holds the results of its ranks, in their order, and none is missing.
LEMMA NewestFacts ==
    ASSUME stored \in Seq(Ids), Distinct, NEW offset \in Nat,
           NEW ids, ids = Newest(offset)
    PROVE  /\ ids \in Seq(Ids)
           /\ Len(ids) <= PageSize
           /\ Len(ids) = 0 \/ offset + Len(ids) <= Total
           /\ \A i \in DOMAIN ids :
                /\ ids[i] \in ToSet(stored)
                /\ Cardinality(Before(ToSet(stored), ids[i])) = offset + i - 1
           /\ \A r \in ToSet(stored) :
                LET rank == Cardinality(Before(ToSet(stored), r))
                IN  offset <= rank /\ rank < offset + PageSize =>
                      rank < offset + Len(ids) /\ r \in ToSet(ids)
PROOF
  <1> DEFINE S == ToSet(stored)
             Rank(r) == Cardinality(Before(S, r))
             n == Min({PageSize, Total - offset})
  <1>1. S \in SUBSET Ids /\ Cardinality(S) = Total /\ Total \in Nat
    BY StoreFacts, SizesAssumption DEF Distinct, Total
  <1>2. /\ n \in Int /\ n <= PageSize /\ n <= Total - offset
        /\ n = PageSize \/ n = Total - offset
    BY <1>1, SmallerOfTwo, SizesAssumption
  <1>3. ids = [i \in 1..n |-> CHOOSE r \in S : Rank(r) = offset + i - 1]
    BY DEF Newest
  <1> HIDE DEF n, S
  <1>4. ASSUME NEW i \in 1..n
        PROVE  ids[i] \in S /\ Rank(ids[i]) = offset + i - 1
    <2>1. offset + i - 1 \in 0..(Cardinality(S) - 1)
      BY <1>1, <1>2, <1>4
    <2>2. \E r \in S : Rank(r) = offset + i - 1
      BY <1>1, <2>1, RankTaken
    <2>3. ids[i] = CHOOSE r \in S : Rank(r) = offset + i - 1
      BY <1>3
    <2> QED
      BY <2>2, <2>3
  <1>5. \E m \in Nat : 1..n = 1..m /\ (m = n \/ (n < 0 /\ m = 0))
    <2>1. CASE n >= 0
      BY <1>2, <2>1
    <2>2. CASE n < 0
      <3>1. 1..n = 1..0
        BY <1>2, <2>2
      <3> QED
        BY <2>2, <3>1
    <2> QED
      BY <1>2, <2>1, <2>2
  <1>6. PICK m \in Nat : 1..n = 1..m /\ (m = n \/ (n < 0 /\ m = 0))
    BY <1>5
  <1>7. ids \in Seq(Ids) /\ Len(ids) = m /\ DOMAIN ids = 1..n
    <2>1. ids \in [1..m -> Ids]
      BY <1>1, <1>3, <1>4, <1>6
    <2> QED
      BY <1>6, <2>1, IsASeq, LenProperties
  <1>8. Len(ids) <= PageSize /\ (Len(ids) = 0 \/ offset + Len(ids) <= Total)
    BY <1>1, <1>2, <1>6, <1>7, SizesAssumption
  <1>9. ASSUME NEW r \in S, offset <= Rank(r), Rank(r) < offset + PageSize
        PROVE  Rank(r) < offset + Len(ids) /\ r \in ToSet(ids)
    <2>1. Rank(r) \in 0..(Total - 1)
      BY <1>1, RankBound
    <2> DEFINE i == Rank(r) - offset + 1
    <2>2. i \in 1..n /\ offset + i - 1 = Rank(r) /\ m = n
      BY <1>1, <1>2, <1>6, <1>9, <2>1, SizesAssumption
    <2>3. ids[i] \in S /\ Rank(ids[i]) = Rank(r)
      BY <1>4, <2>2
    <2>4. ids[i] = r
      BY <1>1, <2>3, RankSorts
    <2>5. r \in ToSet(ids)
      BY <1>7, <2>2, <2>4 DEF ToSet
    <2>6. Rank(r) < offset + Len(ids)
      BY <1>2, <1>7, <2>1, <2>2
    <2> QED
      BY <2>5, <2>6
  <1> QED
    BY <1>4, <1>7, <1>8, <1>9 DEF S

\* The rows of a page, numbered down from base, which is a count of the results
\* that need not be the present one.
LEMMA RowsFacts ==
    ASSUME stored \in Seq(Ids), Distinct, NEW offset \in Nat,
           NEW ids, ids = Newest(offset),
           NEW base \in Int, Total - offset <= base,
           NEW rows, rows = [i \in DOMAIN ids |-> [id |-> ids[i], num |-> base - i + 1]]
    PROVE  /\ rows \in Seq(PageRows) /\ Len(rows) = Len(ids)
           /\ IdsOf(rows) = ToSet(ids)
           /\ Falling(rows)
           /\ NumsAbove(rows, Total - (offset + Len(rows)))
           /\ \A i \in DOMAIN rows : rows[i].num <= base
PROOF
  <1> DEFINE S == ToSet(stored)
             Rank(r) == Cardinality(Before(S, r))
  <1>1. /\ ids \in Seq(Ids) /\ DOMAIN ids = 1..Len(ids) /\ Len(ids) \in Nat
        /\ Len(ids) = 0 \/ offset + Len(ids) <= Total
        /\ \A i \in DOMAIN ids : ids[i] \in S /\ Rank(ids[i]) = offset + i - 1
        /\ S \in SUBSET Ids /\ Total \in Nat
    <2>1. /\ ids \in Seq(Ids)
          /\ Len(ids) = 0 \/ offset + Len(ids) <= Total
          /\ \A i \in DOMAIN ids : ids[i] \in S /\ Rank(ids[i]) = offset + i - 1
      BY NewestFacts
    <2>2. S \in SUBSET Ids /\ Total \in Nat
      BY StoreFacts DEF Distinct, Total
    <2> QED
      BY <2>1, <2>2
  <1>2. /\ rows \in Seq(PageRows) /\ DOMAIN rows = DOMAIN ids /\ Len(rows) = Len(ids)
        /\ \A i \in DOMAIN ids : rows[i].id = ids[i] /\ rows[i].num = base - i + 1
    <2>1. \A i \in DOMAIN ids : [id |-> ids[i], num |-> base - i + 1] \in PageRows
      BY <1>1 DEF PageRows
    <2>2. rows \in [1..Len(ids) -> PageRows]
      BY <1>1, <2>1
    <2> QED
      BY <1>1, <2>2, IsASeq, LenProperties
  <1> HIDE DEF S
  <1>3. IdsOf(rows) = ToSet(ids)
    BY <1>2 DEF IdsOf, ToSet
  <1>4. Falling(rows)
    <2>1. ASSUME NEW i \in DOMAIN rows, NEW k \in DOMAIN rows, i < k
          PROVE  rows[i].id > rows[k].id /\ rows[i].num > rows[k].num
      <3>1. /\ i \in Int /\ k \in Int /\ ids[i] \in S /\ ids[k] \in S
            /\ Rank(ids[i]) = offset + i - 1 /\ Rank(ids[k]) = offset + k - 1
        BY <1>1, <1>2
      <3>2. ids[k] < ids[i]
        <4>1. Rank(ids[i]) < Rank(ids[k])
          BY <1>1, <2>1, <3>1
        <4> QED
          BY <1>1, <3>1, <4>1, RankSorts
      <3>3. ids[i] \in Int /\ ids[k] \in Int
        BY <1>1, <3>1, IdFacts
      <3> QED
        BY <1>2, <2>1, <3>1, <3>2, <3>3
    <2>2. ASSUME NEW i \in DOMAIN rows PROVE rows[i].num >= 1
      BY <1>1, <1>2
    <2> QED
      BY <2>1, <2>2 DEF Falling
  <1>5. NumsAbove(rows, Total - (offset + Len(rows)))
    BY <1>1, <1>2 DEF NumsAbove
  <1>6. \A i \in DOMAIN rows : rows[i].num <= base
    BY <1>1, <1>2
  <1> QED
    BY <1>2, <1>3, <1>4, <1>5, <1>6

LEMMA RowsInt ==
    ASSUME NEW rows \in Seq(PageRows), NEW i \in DOMAIN rows
    PROVE  rows[i].num \in Int /\ rows[i].id \in Int /\ rows[i].id \in Ids
PROOF
  <1>1. rows[i] \in PageRows
    OBVIOUS
  <1> QED
    BY <1>1, IdFacts DEF PageRows

LEMMA RowsJoin ==
    ASSUME NEW top \in Seq(PageRows), NEW rest \in Seq(PageRows)
    PROVE  /\ top \o rest \in Seq(PageRows)
           /\ IdsOf(top \o rest) = IdsOf(top) \cup IdsOf(rest)
           /\ \A n : NumsAbove(top, n) /\ NumsAbove(rest, n) => NumsAbove(top \o rest, n)
           /\ /\ Falling(top) /\ Falling(rest)
              /\ \A i \in DOMAIN top, k \in DOMAIN rest :
                   top[i].id > rest[k].id /\ top[i].num > rest[k].num
              => Falling(top \o rest)
PROOF
  <1> DEFINE all == top \o rest
             t == Len(top)
  <1>1. /\ t \in Nat /\ Len(rest) \in Nat
        /\ DOMAIN top = 1..t /\ DOMAIN rest = 1..Len(rest)
    OBVIOUS
  <1>2. /\ all \in Seq(PageRows) /\ Len(all) = t + Len(rest)
        /\ \A i \in 1..(t + Len(rest)) : all[i] = IF i <= t THEN top[i] ELSE rest[i - t]
    BY ConcatProperties
  <1>3. DOMAIN all = 1..(t + Len(rest))
    BY <1>2
  <1> HIDE DEF all, t
  <1>4. \A i \in DOMAIN all :
          \/ i \in DOMAIN top /\ all[i] = top[i]
          \/ i > t /\ i - t \in DOMAIN rest /\ all[i] = rest[i - t]
    BY <1>1, <1>2, <1>3
  <1>5. IdsOf(all) = IdsOf(top) \cup IdsOf(rest)
    <2>1. \A i \in DOMAIN top : i \in DOMAIN all /\ all[i] = top[i]
      BY <1>1, <1>2, <1>3
    <2>2. ASSUME NEW k \in DOMAIN rest
          PROVE  \E i \in DOMAIN all : all[i] = rest[k]
      <3>1. k + t \in DOMAIN all /\ ~(k + t <= t) /\ (k + t) - t = k
        BY <1>1, <1>3
      <3> QED
        BY <1>2, <1>3, <3>1
    <2> QED
      BY <1>4, <2>1, <2>2 DEF IdsOf
  <1>6. \A n : NumsAbove(top, n) /\ NumsAbove(rest, n) => NumsAbove(all, n)
    BY <1>4 DEF NumsAbove
  <1>7. ASSUME Falling(top), Falling(rest),
               \A i \in DOMAIN top, k \in DOMAIN rest :
                 top[i].id > rest[k].id /\ top[i].num > rest[k].num
        PROVE  Falling(all)
    <2>1. ASSUME NEW i \in DOMAIN all, NEW k \in DOMAIN all, i < k
          PROVE  all[i].id > all[k].id /\ all[i].num > all[k].num
      <3>1. i \in Int /\ k \in Int /\ t \in Int
        BY <1>1, <1>3
      <3>2. CASE i \in DOMAIN top /\ k \in DOMAIN top
        BY <1>1, <1>2, <1>3, <2>1, <1>7, <3>2 DEF Falling
      <3>3. CASE i \in DOMAIN top /\ k \notin DOMAIN top
        BY <1>4, <1>1, <1>2, <1>3, <1>7, <3>3
      <3>4. CASE i \notin DOMAIN top
        <4>1. /\ i - t \in DOMAIN rest /\ k - t \in DOMAIN rest /\ i - t < k - t
              /\ all[i] = rest[i - t] /\ all[k] = rest[k - t]
          BY <1>1, <1>2, <1>3, <2>1, <3>1, <3>4
        <4> QED
          BY <1>7, <4>1 DEF Falling
      <3> QED
        BY <3>2, <3>3, <3>4
    <2>2. \A i \in DOMAIN all : all[i].num >= 1
      BY <1>4, <1>7 DEF Falling
    <2> QED
      BY <2>1, <2>2 DEF Falling
  <1> QED
    BY <1>2, <1>5, <1>6, <1>7 DEF all

LEMMA TableRead ==
    ASSUME stored \in Seq(Ids), Distinct, NEW first, first = 0, NEW ids, ids = Newest(first),
           NEW rows, rows = [i \in DOMAIN ids |-> [id |-> ids[i], num |-> Total - i + 1]]
    PROVE  rows \in Seq(PageRows) /\ Len(rows) <= Total /\ Part(rows, Len(rows))
PROOF
  <1> DEFINE S == ToSet(stored)
             Rank(r) == Cardinality(Before(S, r))
  <1>1. /\ S \in SUBSET Ids /\ Cardinality(S) = Total /\ Total \in Nat
        /\ Total - first <= Total /\ first \in Nat /\ Total \in Int
    BY StoreFacts DEF Distinct, Total
  <1>2. /\ ids \in Seq(Ids) /\ Len(ids) \in Nat /\ DOMAIN ids = 1..Len(ids)
        /\ Len(ids) <= PageSize /\ (Len(ids) = 0 \/ Len(ids) <= Total)
        /\ \A i \in DOMAIN ids : ids[i] \in S /\ Rank(ids[i]) = i - 1
        /\ \A r \in S : Rank(r) < PageSize => Rank(r) < Len(ids) /\ r \in ToSet(ids)
    <2>1. /\ ids \in Seq(Ids)
          /\ Len(ids) <= PageSize /\ (Len(ids) = 0 \/ first + Len(ids) <= Total)
          /\ \A i \in DOMAIN ids : ids[i] \in S /\ Rank(ids[i]) = first + i - 1
          /\ \A r \in S : first <= Rank(r) /\ Rank(r) < first + PageSize =>
               Rank(r) < first + Len(ids) /\ r \in ToSet(ids)
      BY <1>1, NewestFacts
    <2>2. \A r \in S : Rank(r) \in Nat
      BY <1>1, BeforeFacts
    <2>3. Len(ids) \in Nat /\ DOMAIN ids = 1..Len(ids)
      BY <2>1
    <2> HIDE DEF S, Rank
    <2> QED
      BY <2>1, <2>2, <2>3, SizesAssumption
  <1>3. /\ rows \in Seq(PageRows) /\ Len(rows) = Len(ids)
        /\ IdsOf(rows) = ToSet(ids)
        /\ Falling(rows)
        /\ NumsAbove(rows, Total - (first + Len(rows)))
    BY <1>1, RowsFacts
  <1>4. NumsAbove(rows, Total - Len(rows))
    BY <1>2, <1>3
  <1> HIDE DEF S
  <1>5. Segment(S, cleaned, ToSet(ids), Len(ids))
    <2>1. ASSUME NEW r \in S, Rank(r) >= Len(ids), NEW x \in ToSet(ids)
          PROVE  r < x
      <3>1. PICK i \in DOMAIN ids : x = ids[i]
        BY DEF ToSet
      <3>2. x \in S /\ Rank(x) < Len(ids)
        BY <1>2, <3>1
      <3>3. Rank(r) \in Nat /\ Rank(x) \in Nat
        BY <1>1, BeforeFacts
      <3>4. Rank(x) < Rank(r)
        BY <1>2, <2>1, <3>2, <3>3
      <3> QED
        BY <1>1, <3>2, <3>4, RankSorts
    <2>2. ASSUME NEW r \in S, Rank(r) < Len(ids)
          PROVE  r \in ToSet(ids)
      <3>1. Rank(r) \in Nat
        BY <1>1, BeforeFacts
      <3>2. Rank(r) < PageSize
        BY <1>2, <2>2, <3>1, SizesAssumption
      <3> QED
        BY <1>2, <3>2
    <2> QED
      BY <2>1, <2>2 DEF Segment
  <1> QED
    BY <1>1, <1>2, <1>3, <1>4, <1>5 DEF Part, S

LEMMA RowsType ==
    ASSUME NEW ids \in Seq(Ids), NEW base \in Int,
           NEW rows, rows = [i \in DOMAIN ids |-> [id |-> ids[i], num |-> base - i + 1]]
    PROVE  rows \in Seq(PageRows)
PROOF
  <1>1. DOMAIN ids = 1..Len(ids) /\ Len(ids) \in Nat /\ \A i \in DOMAIN ids : ids[i] \in Ids
    OBVIOUS
  <1>2. \A i \in DOMAIN ids : [id |-> ids[i], num |-> base - i + 1] \in PageRows
    BY <1>1 DEF PageRows
  <1>3. rows \in [1..Len(ids) -> PageRows]
    BY <1>1, <1>2
  <1> QED
    BY <1>1, <1>3, IsASeq

\* What is read behind a part continues it, whatever has expired in between.
LEMMA MoreRead ==
    ASSUME stored \in Seq(Ids), Distinct, NEW offset \in Nat, NEW ids, ids = Newest(offset),
           NEW top \in Seq(PageRows), Part(top, offset),
           NEW total \in Int, Total <= total, NumsAbove(top, total - offset),
           NEW rows, rows = [i \in DOMAIN ids |->
                               [id |-> ids[i], num |-> total - offset - i + 1]]
    PROVE  Len(rows) <= PageSize /\ Part(top \o rows, offset + PageSize)
PROOF
  <1> DEFINE S == ToSet(stored)
             Rank(r) == Cardinality(Before(S, r))
             base == total - offset
  <1>1. /\ S \in SUBSET Ids /\ Cardinality(S) = Total /\ Total \in Nat
        /\ Total - offset <= base /\ base \in Int
    BY StoreFacts DEF Distinct, Total
  <1>2. /\ ids \in Seq(Ids) /\ Len(ids) \in Nat /\ DOMAIN ids = 1..Len(ids)
        /\ Len(ids) <= PageSize
        /\ \A i \in DOMAIN ids : ids[i] \in S /\ Rank(ids[i]) = offset + i - 1
        /\ \A r \in S : offset <= Rank(r) /\ Rank(r) < offset + PageSize =>
             Rank(r) < offset + Len(ids) /\ r \in ToSet(ids)
    BY NewestFacts
  <1>3. /\ rows \in Seq(PageRows) /\ Len(rows) = Len(ids)
        /\ IdsOf(rows) = ToSet(ids)
        /\ Falling(rows)
        /\ NumsAbove(rows, Total - (offset + Len(rows)))
        /\ \A i \in DOMAIN rows : rows[i].num <= base
    BY <1>1, RowsFacts
  <1>4. Falling(top) /\ Segment(S, cleaned, IdsOf(top), offset) /\ NumsAbove(top, Total - offset)
    BY DEF Part
  <1>5. /\ \A i \in DOMAIN top : top[i].num \in Int /\ top[i].id \in Int
        /\ \A i \in DOMAIN rows : rows[i].num \in Int /\ rows[i].id \in Int
    BY <1>3, RowsInt
  <1> HIDE DEF S
  <1>6. ASSUME NEW i \in DOMAIN top, NEW k \in DOMAIN rows
        PROVE  top[i].id > rows[k].id /\ top[i].num > rows[k].num
    <2>1. top[i].num > rows[k].num
      <3>1. top[i].num > base /\ rows[k].num <= base
        BY <1>3 DEF NumsAbove
      <3> HIDE DEF base
      <3> QED
        BY <1>1, <1>5, <3>1
    <2>2. rows[k].id \in S /\ Rank(rows[k].id) >= offset
      <3>1. rows[k].id \in ToSet(ids)
        BY <1>3 DEF IdsOf
      <3> QED
        BY <1>2, <3>1 DEF ToSet
    <2>3. rows[k].id < top[i].id
      BY <1>4, <2>2 DEF Segment, IdsOf
    <2> QED
      BY <1>5, <2>1, <2>3
  <1>7. Falling(top \o rows)
    BY <1>3, <1>4, <1>6, RowsJoin
  <1>8. NumsAbove(top \o rows, Total - (offset + PageSize))
    <2>1. NumsAbove(top, Total - (offset + PageSize))
      BY <1>1, <1>4, <1>5, SizesAssumption DEF NumsAbove
    <2>2. NumsAbove(rows, Total - (offset + PageSize))
      <3> SUFFICES ASSUME NEW i \in DOMAIN rows
                   PROVE  rows[i].num > Total - (offset + PageSize)
        BY DEF NumsAbove
      <3>1. rows[i].num > Total - (offset + Len(rows)) /\ rows[i].num \in Int
        BY <1>3, <1>5 DEF NumsAbove
      <3>2. Len(rows) <= PageSize /\ Len(rows) \in Nat
        BY <1>2, <1>3
      <3> QED
        BY <1>1, <3>1, <3>2, SizesAssumption
    <2> QED
      BY <1>3, <2>1, <2>2, RowsJoin
  <1>9. Segment(S, cleaned, IdsOf(top) \cup ToSet(ids), offset + PageSize)
    <2>1. ASSUME NEW r \in S, Rank(r) >= offset + PageSize, NEW x \in IdsOf(top) \cup ToSet(ids)
          PROVE  r < x
      <3>0. Rank(r) \in Nat
        BY <1>1, BeforeFacts
      <3>1. Rank(r) \in Nat /\ Rank(r) >= offset
        BY <2>1, <3>0, SizesAssumption
      <3>2. CASE x \in IdsOf(top)
        BY <1>4, <3>1, <3>2 DEF Segment
      <3>3. CASE x \in ToSet(ids)
        <4>1. PICK i \in DOMAIN ids : x = ids[i]
          BY <3>3 DEF ToSet
        <4>2. x \in S /\ Rank(x) < offset + PageSize /\ Rank(x) \in Nat
          BY <1>1, <1>2, <4>1, BeforeFacts, SizesAssumption
        <4>3. Rank(x) < Rank(r)
          BY <2>1, <3>1, <4>2, SizesAssumption
        <4> QED
          BY <1>1, <4>2, <4>3, RankSorts
      <3> QED
        BY <3>2, <3>3
    <2>2. ASSUME NEW r \in S, Rank(r) < offset + PageSize
          PROVE  r \in IdsOf(top) \cup ToSet(ids) \/ Overtaken(cleaned, r)
      <3>1. Rank(r) \in Nat
        BY <1>1, BeforeFacts
      <3>2. CASE Rank(r) < offset
        BY <1>4, <3>2 DEF Segment
      <3>3. CASE offset <= Rank(r)
        BY <1>2, <2>2, <3>3
      <3> QED
        BY <3>1, <3>2, <3>3
    <2> QED
      BY <2>1, <2>2 DEF Segment
  <1>10. IdsOf(top \o rows) = IdsOf(top) \cup ToSet(ids)
    <2>1. IdsOf(top \o rows) = IdsOf(top) \cup IdsOf(rows)
      BY <1>3, RowsJoin
    <2> QED
      BY <1>3, <2>1
  <1> QED
    BY <1>2, <1>3, <1>7, <1>8, <1>9, <1>10 DEF Part, S

-----------------------------------------------------------------------------
(* Results expire. *)

\* What a clean-up, or a step that leaves the store alone, does to it.
Expiry ==
    /\ stored' \in Seq(Ids) /\ Distinct'
    /\ ToSet(stored') \subseteq ToSet(stored)
    /\ ToSet(stored) \ ToSet(stored') \subseteq cleaned'
    /\ cleaned \subseteq cleaned' /\ cleaned' \subseteq Ids
    /\ Total' <= Total

LEMMA CleanupExpires ==
    ASSUME TypeOK, Distinct, NEW n \in 1..Total, Cleanup(n)
    PROVE  Expiry
PROOF
  <1>1. /\ stored \in Seq(Ids) /\ Total \in Nat /\ n \in Nat /\ n >= 1 /\ n <= Total
        /\ DOMAIN stored = 1..Total /\ cleaned \subseteq Ids
    BY DEF TypeOK, Total
  <1> DEFINE gone == SubSeq(stored, 1, n)
             left == SubSeq(stored, n + 1, Total)
  <1>2. /\ gone \in Seq(Ids) /\ DOMAIN gone = 1..n
        /\ \A i \in 1..n : gone[i] = stored[i]
    <2>1. gone \in Seq(Ids) /\ Len(gone) = n /\ \A i \in 1..n : gone[i] = stored[1 + i - 1]
      BY <1>1 DEF Total
    <2> QED
      BY <1>1, <2>1
  <1>3. /\ left \in Seq(Ids) /\ DOMAIN left = 1..(Total - n) /\ Len(left) = Total - n
        /\ \A i \in 1..(Total - n) : left[i] = stored[n + i]
    <2>1. left \in Seq(Ids) /\ Len(left) = Total - n
      <3>1. \A i \in (n + 1)..Total : stored[i] \in Ids
        BY <1>1
      <3>2. n + 1 \in Int /\ Total \in Int
        BY <1>1
      <3>3. /\ left \in Seq(Ids)
            /\ Len(left) = IF n + 1 <= Total THEN Total - (n + 1) + 1 ELSE 0
        BY <3>1, <3>2, SubSeqProperties
      <3> QED
        BY <1>1, <3>3
    <2>2. \A i \in 1..(Total - n) : left[i] = stored[n + i]
      BY <1>1 DEF Total
    <2> QED
      BY <1>1, <2>1, <2>2
  <1>4. stored' = left /\ cleaned' = cleaned \cup ToSet(gone) /\ Total' = Len(stored')
    BY DEF Cleanup, Total
  <1> HIDE DEF gone, left
  <1>5. Distinct'
    <2>1. ASSUME NEW i \in 1..(Total - n), NEW k \in 1..(Total - n), left[i] = left[k]
          PROVE  i = k
      <3>1. /\ n + i \in DOMAIN stored /\ n + k \in DOMAIN stored
            /\ stored[n + i] = stored[n + k]
        BY <1>1, <1>3, <2>1
      <3>2. n + i = n + k
        BY <3>1 DEF Distinct
      <3> QED
        BY <1>1, <3>2
    <2> QED
      BY <1>3, <1>4, <2>1 DEF Distinct
  <1>6. ToSet(left) \subseteq ToSet(stored)
    <2>1. \A i \in 1..(Total - n) : n + i \in DOMAIN stored
      BY <1>1
    <2> QED
      BY <1>3, <2>1 DEF ToSet
  <1>7. ToSet(stored) \ ToSet(left) \subseteq ToSet(gone)
    <2>1. ASSUME NEW i \in DOMAIN stored
          PROVE  stored[i] \in ToSet(left) \/ stored[i] \in ToSet(gone)
      <3>1. CASE i <= n
        <4>1. i \in DOMAIN gone /\ gone[i] = stored[i]
          BY <1>1, <1>2, <3>1
        <4> QED
          BY <4>1 DEF ToSet
      <3>2. CASE ~(i <= n)
        <4>1. i - n \in DOMAIN left /\ n + (i - n) = i
          BY <1>1, <1>3, <3>2
        <4>2. left[i - n] = stored[i]
          BY <1>3, <4>1
        <4> QED
          BY <4>1, <4>2 DEF ToSet
      <3> QED
        BY <3>1, <3>2
    <2> QED
      BY <2>1 DEF ToSet
  <1>8. ToSet(gone) \subseteq Ids
    BY <1>2 DEF ToSet
  <1>9. Total' <= Total
    BY <1>1, <1>3, <1>4
  <1> QED
    BY <1>1, <1>3, <1>4, <1>5, <1>6, <1>7, <1>8, <1>9 DEF Expiry

LEMMA PartKept ==
    ASSUME TypeOK, Distinct, Expiry, NEW rows \in Seq(PageRows), NEW offset \in Nat,
           Part(rows, offset)
    PROVE  /\ Falling(rows)
           /\ Segment(ToSet(stored'), cleaned', IdsOf(rows), offset)
           /\ NumsAbove(rows, Total' - offset)
PROOF
  <1>1. stored \in Seq(Ids) /\ cleaned \in SUBSET Ids /\ Total \in Nat
    BY DEF TypeOK, Total
  <1>2. ToSet(stored) \in SUBSET Ids
    BY <1>1, StoreFacts DEF Distinct
  <1>3. /\ cleaned' \in SUBSET Ids /\ ToSet(stored') \in SUBSET ToSet(stored)
        /\ ToSet(stored) \ ToSet(stored') \subseteq cleaned' /\ cleaned \subseteq cleaned'
    BY DEF Expiry
  <1>4. Segment(ToSet(stored'), cleaned', IdsOf(rows), offset)
    BY <1>1, <1>2, <1>3, SegmentKept DEF Part
  <1>5. Total' \in Nat /\ Total' <= Total
    BY DEF Expiry, Total
  <1>6. NumsAbove(rows, Total' - offset)
    <2>1. ASSUME NEW i \in DOMAIN rows PROVE rows[i].num > Total' - offset
      <3>1. rows[i].num > Total - offset /\ rows[i].num \in Int
        BY RowsInt DEF Part, NumsAbove
      <3> QED
        BY <1>1, <1>5, <3>1
    <2> QED
      BY <2>1 DEF NumsAbove
  <1> QED
    BY <1>4, <1>6 DEF Part

-----------------------------------------------------------------------------
(* Every step keeps the invariant. *)

TableRequests ==
    [at : {"idle", "counted", "answered"}, total : 0..MaxResults, rows : Seq(PageRows)]

MoreRequests ==
    [at : {"counted", "answered"}, offset : Nat, total : 0..MaxResults, rows : Seq(PageRows)]

LEMMA EmptyTypes == <<>> \in Seq(PageRows) /\ <<>> \in Seq(Ids) /\ Idle \in TableRequests
PROOF
  <1>1. <<>> \in Seq(PageRows) /\ <<>> \in Seq(Ids) /\ 0 \in 0..MaxResults
    BY SizesAssumption
  <1> QED
    BY <1>1 DEF TableRequests, Idle

LEMMA RequestTypes ==
    ASSUME TypeOK
    PROVE  /\ refresh \in TableRequests
           /\ refresh.rows \in Seq(PageRows) /\ refresh.total \in 0..MaxResults
           /\ \A q \in requests :
                /\ q \in MoreRequests
                /\ q.rows \in Seq(PageRows) /\ q.total \in 0..MaxResults /\ q.offset \in Nat
BY DEF TypeOK, TableRequests, MoreRequests

LEMMA InitHolds == Init => IInv
PROOF
  <1> SUFFICES ASSUME Init PROVE IInv
    OBVIOUS
  <1>1. TypeOK
    <2>1. refresh \in TableRequests
      BY EmptyTypes DEF Init
    <2> QED
      BY <2>1, EmptyTypes DEF Init, TypeOK, TableRequests
  <1>2. Distinct /\ TableInv
    BY DEF Init, Distinct, TableInv, Idle
  <1>3. PageInv /\ MoreInv
    BY DEF Init, PageInv, MoreInv, Falling, ToSet
  <1> QED
    BY <1>1, <1>2, <1>3 DEF IInv

\* What is known of the store before each step.
LEMMA StoreNow ==
    ASSUME TypeOK, Distinct
    PROVE  /\ stored \in Seq(Ids) /\ Total \in 0..MaxResults /\ Total \in Nat
           /\ ToSet(stored) \in SUBSET Ids /\ Cardinality(ToSet(stored)) = Total
           /\ cleaned \in SUBSET Ids
PROOF
  <1>1. stored \in Seq(Ids) /\ cleaned \in SUBSET Ids
    BY DEF TypeOK
  <1> QED
    BY <1>1, StoreFacts DEF Distinct, Total

LEMMA RecordStep ==
    ASSUME IInv, NEW r \in Ids, Record(r)
    PROVE  IInv'
PROOF
  <1>1. TypeOK /\ Distinct
    BY DEF IInv
  <1>2. /\ stored' \in Seq(Ids) /\ Len(stored') = Total + 1
        /\ \A i \in 1..Total : stored'[i] = stored[i]
        /\ stored'[Total + 1] = r
        /\ DOMAIN stored = 1..Total /\ Total \in Nat
    BY <1>1, StoreNow, AppendProperties DEF Record, Total
  <1>3. TypeOK'
    BY <1>1, <1>2 DEF TypeOK, Record
  <1>4. Distinct'
    <2>1. DOMAIN stored' = 1..(Total + 1)
      BY <1>2
    <2>2. \A i \in 1..Total : stored[i] # r
      BY <1>2 DEF Record, ToSet
    <2>3. \A i \in 1..(Total + 1) : i \in 1..Total \/ i = Total + 1
      BY <1>2
    <2> QED
      BY <1>1, <1>2, <2>1, <2>2, <2>3 DEF Distinct
  <1>5. behind'
    BY DEF Record
  <1> QED
    BY <1>3, <1>4, <1>5 DEF IInv, TableInv, PageInv, MoreInv, Quiet

\* A step that records nothing and leaves the page and the requests alone.
LEMMA ExpiryStep ==
    ASSUME IInv, TypeOK', Expiry, UNCHANGED <<behind, refresh, page, button, requests, failed>>
    PROVE  IInv'
PROOF
  <1>1. TypeOK /\ Distinct /\ Total \in Nat /\ Total' \in Nat /\ Total' <= Total /\ Distinct'
    BY StoreNow DEF IInv, Expiry, Total
  <1>2. ToSet(stored') \subseteq ToSet(stored) /\ cleaned \subseteq cleaned'
    BY DEF Expiry
  <1>3. TableInv'
    <2>1. /\ refresh.rows \in Seq(PageRows) /\ Len(refresh.rows) \in Nat
          /\ refresh.total \in Nat
      BY <1>1, SizesAssumption DEF TypeOK
    <2>2. ASSUME ~behind, refresh.at # "idle" PROVE Total' <= refresh.total
      BY <1>1, <2>1, <2>2 DEF IInv, TableInv
    <2>3. ASSUME ~behind, refresh.at = "answered" PROVE Part(refresh.rows, Len(refresh.rows))'
      <3>1. Part(refresh.rows, Len(refresh.rows))
        BY <2>3 DEF IInv, TableInv
      <3> QED
        BY <1>1, <2>1, <3>1, PartKept DEF Part
    <2> QED
      BY <2>2, <2>3 DEF TableInv
  <1>4. Quiet' = Quiet
    BY DEF Quiet, Idle
  <1>5. page \in Seq(PageRows) /\ (button # None => button \in Nat)
    BY <1>1, SizesAssumption DEF TypeOK
  <1>6. PageInv'
    <2>1. ASSUME Quiet, button # None PROVE Part(page, button)'
      <3>1. Part(page, button)
        BY <2>1 DEF IInv, PageInv
      <3> QED
        BY <1>1, <1>5, <2>1, <3>1, PartKept DEF Part
    <2>2. ASSUME Quiet, button = None, NEW r \in ToSet(stored')
          PROVE  r \in Shown \/ Overtaken(cleaned', r)
      BY <1>2, <2>2 DEF IInv, PageInv, Overtaken
    <2>3. Quiet => Falling(page)
      BY DEF IInv, PageInv
    <2> QED
      BY <1>4, <2>1, <2>2, <2>3 DEF PageInv, Shown
  <1>7. MoreInv'
    <2> SUFFICES ASSUME Quiet, NEW q \in requests
                 PROVE  /\ button = q.offset
                        /\ Total' <= q.total
                        /\ NumsAbove(page, q.total - q.offset)
                        /\ q.at = "answered" =>
                             /\ Len(q.rows) <= PageSize
                             /\ Part(page \o q.rows, q.offset + PageSize)'
      BY <1>4 DEF MoreInv
    <2>1. /\ q.rows \in Seq(PageRows) /\ q.total \in Nat /\ q.offset \in Nat
      BY <1>1, SizesAssumption DEF TypeOK
    <2>2. /\ button = q.offset
          /\ Total <= q.total
          /\ NumsAbove(page, q.total - q.offset)
          /\ q.at = "answered" =>
               /\ Len(q.rows) <= PageSize
               /\ Part(page \o q.rows, q.offset + PageSize)
      BY DEF IInv, MoreInv
    <2>3. Total' <= q.total
      BY <1>1, <2>1, <2>2
    <2>4. ASSUME q.at = "answered" PROVE Part(page \o q.rows, q.offset + PageSize)'
      <3>1. page \o q.rows \in Seq(PageRows) /\ q.offset + PageSize \in Nat
        BY <1>5, <2>1, RowsJoin, SizesAssumption
      <3> QED
        BY <1>1, <2>2, <2>4, <3>1, PartKept DEF Part
    <2> QED
      BY <2>2, <2>3, <2>4
  <1> QED
    BY <1>1, <1>3, <1>6, <1>7 DEF IInv

\* The statements of the request for the table.
LEMMA TableStep ==
    ASSUME IInv, CountForTable \/ ReadForTable
    PROVE  IInv'
PROOF
  <1>1. TypeOK /\ Distinct /\ UNCHANGED <<stored, cleaned, page, button, requests, failed>>
    BY DEF IInv, CountForTable, ReadForTable
  <1>2. Distinct' /\ Total' = Total /\ Total \in 0..MaxResults /\ Total \in Nat
    BY <1>1, StoreNow DEF Distinct, Total
  <1>3. ASSUME refresh' \in TableRequests, refresh'.at # "idle",
               news' \in BOOLEAN, behind' \in BOOLEAN, TableInv'
        PROVE  IInv'
    <2>1. TypeOK'
      BY <1>1, <1>3 DEF TypeOK, TableRequests
    <2>2. ~Quiet'
      BY <1>3 DEF Quiet, Idle
    <2> QED
      BY <1>2, <1>3, <2>1, <2>2 DEF IInv, PageInv, MoreInv
  <1>4. CASE CountForTable
    <2>1. refresh' = [at |-> "counted", total |-> Total, rows |-> <<>>]
          /\ news' = FALSE /\ behind' = FALSE
      BY <1>4 DEF CountForTable
    <2>2. refresh' \in TableRequests /\ refresh'.total = Total /\ refresh'.at = "counted"
      BY <1>2, <2>1, EmptyTypes DEF TableRequests
    <2>3. TableInv'
      BY <1>2, <2>2 DEF TableInv
    <2> QED
      BY <1>3, <2>1, <2>2, <2>3
  <1>5. CASE ReadForTable
    <2> DEFINE ids == Newest(0)
               rows == [i \in DOMAIN ids |-> [id |-> ids[i], num |-> Total - i + 1]]
    <2>1. rows \in Seq(PageRows) /\ Part(rows, Len(rows))
      BY <1>1, StoreNow, TableRead
    <2>2. /\ refresh' = [refresh EXCEPT !.at = "answered", !.rows = rows]
          /\ news' = news /\ behind' = behind /\ refresh.at = "counted"
      BY <1>5 DEF ReadForTable
    <2> HIDE DEF ids, rows
    <2>3. refresh' = [at |-> "answered", total |-> refresh.total, rows |-> rows]
      BY <1>1, <2>2, RequestTypes DEF TableRequests
    <2>4. /\ refresh' \in TableRequests
          /\ refresh'.total = refresh.total /\ refresh'.rows = rows /\ refresh'.at = "answered"
      BY <1>1, <2>1, <2>3, RequestTypes DEF TableRequests
    <2>5. ~behind => Total <= refresh.total
      BY <2>2 DEF IInv, TableInv
    <2>6. Falling(rows) /\ Segment(ToSet(stored), cleaned, IdsOf(rows), Len(rows))
          /\ NumsAbove(rows, Total - Len(rows))
      BY <2>1 DEF Part
    <2>7. Part(refresh.rows, Len(refresh.rows))'
      BY <1>1, <1>2, <2>4, <2>6 DEF Part
    <2>8. TableInv'
      BY <1>2, <2>2, <2>4, <2>5, <2>7 DEF TableInv
    <2>9. news' \in BOOLEAN /\ behind' \in BOOLEAN
      BY <1>1, <2>2 DEF TypeOK
    <2> QED
      BY <1>3, <2>4, <2>8, <2>9
  <1> QED
    BY <1>4, <1>5

LEMMA SwapStep ==
    ASSUME IInv, Swap
    PROVE  IInv'
PROOF
  <1>1. /\ TypeOK /\ Distinct /\ UNCHANGED <<stored, cleaned, behind, news>>
        /\ refresh.at = "answered" /\ refresh' = Idle
        /\ page' = refresh.rows /\ requests' = {} /\ ~failed'
    BY DEF IInv, Swap, Detached
  <1>2. Distinct' /\ Total' = Total /\ Total \in Nat /\ ToSet(stored) \in SUBSET Ids
        /\ Cardinality(ToSet(stored)) = Total
    BY <1>1, StoreNow DEF Distinct, Total
  <1>3. /\ refresh.rows \in Seq(PageRows) /\ refresh.total \in 0..MaxResults
        /\ Len(refresh.rows) \in Nat
    BY <1>1, RequestTypes
  <1>4. button' = IF Len(refresh.rows) < refresh.total THEN Len(refresh.rows) ELSE None
    BY DEF Swap, More
  <1>5. TypeOK'
    <2>1. button' \in {None} \cup 0..(MaxResults + PageSize)
      BY <1>3, <1>4, SizesAssumption
    <2>2. refresh' \in TableRequests
      BY <1>1, EmptyTypes
    <2>3. /\ stored' \in Seq(Ids) /\ cleaned' \subseteq Ids
          /\ behind' \in BOOLEAN /\ news' \in BOOLEAN
          /\ page' \in Seq(PageRows) /\ requests' = {} /\ failed' \in BOOLEAN
      <3>1. failed' = FALSE
        BY DEF Swap
      <3> QED
        BY <1>1, <1>3, <3>1 DEF TypeOK
    <2> QED
      BY <2>1, <2>2, <2>3 DEF TypeOK, TableRequests
  <1>6. TableInv' /\ MoreInv'
    BY <1>1 DEF TableInv, MoreInv, Idle
  <1>7. ASSUME ~behind
        PROVE  /\ Falling(page')
               /\ button' # None => Part(page, button)'
               /\ button' = None => \A r \in ToSet(stored') : r \in Shown' \/ Overtaken(cleaned', r)
    <2>1. Total <= refresh.total /\ Part(refresh.rows, Len(refresh.rows))
      BY <1>1, <1>7 DEF IInv, TableInv
    <2>2. button' # None => button' = Len(refresh.rows)
      BY <1>4
    <2>3. ASSUME button' = None, NEW r \in ToSet(stored)
          PROVE  r \in IdsOf(refresh.rows) \/ Overtaken(cleaned, r)
      <3>1. Total <= Len(refresh.rows)
        <4>1. ~(Len(refresh.rows) < refresh.total)
          BY <1>3, <1>4, <2>3 DEF None
        <4> QED
          BY <1>2, <1>3, <2>1, <4>1
      <3>2. Cardinality(Before(ToSet(stored), r)) \in 0..(Total - 1)
        BY <1>2, RankBound
      <3>3. Cardinality(Before(ToSet(stored), r)) < Len(refresh.rows)
        BY <1>2, <1>3, <3>1, <3>2
      <3> QED
        BY <2>1, <3>3 DEF Part, Segment
    <2>4. Shown' = IdsOf(refresh.rows)
      BY <1>1 DEF Shown, IdsOf
    <2> QED
      BY <1>1, <1>2, <2>1, <2>2, <2>3, <2>4 DEF Part
  <1>8. PageInv'
    BY <1>1, <1>7 DEF PageInv, Quiet
  <1> QED
    BY <1>2, <1>5, <1>6, <1>8 DEF IInv

\* After an error nothing is said of the page.
LEMMA FailStep ==
    ASSUME IInv, TableFails \/ MoreFails
    PROVE  IInv'
PROOF
  <1>1. /\ TypeOK /\ Distinct /\ UNCHANGED <<stored, cleaned, behind, news, page>>
        /\ failed' = TRUE
        /\ refresh' = Idle \/ refresh' = refresh
        /\ button' = button \/ button' = None
        /\ requests' = requests \/ requests' = {}
    BY DEF IInv, TableFails, MoreFails, Detached
  <1>3. refresh' \in TableRequests
    BY <1>1, EmptyTypes, RequestTypes
  <1>4. TypeOK'
    BY <1>1, <1>3 DEF TypeOK, TableRequests
  <1>5. TableInv'
    <2>1. CASE refresh' = Idle
      BY <2>1 DEF TableInv, Idle
    <2>2. CASE refresh' = refresh
      BY <1>1, <2>2 DEF IInv, TableInv, Part, Total
    <2> QED
      BY <1>1, <2>1, <2>2
  <1> QED
    BY <1>1, <1>4, <1>5 DEF IInv, Distinct, PageInv, MoreInv, Quiet

\* A step of the requests for more: of the page, only what is said of requests
\* has to be looked at again.
LEMMA AskStep ==
    ASSUME IInv, UNCHANGED <<stored, cleaned, behind, news, refresh, page, button, failed>>,
           \A q \in requests' : q \in MoreRequests,
           Quiet => \A q \in requests' :
             /\ button = q.offset
             /\ Total <= q.total
             /\ NumsAbove(page, q.total - q.offset)
             /\ q.at = "answered" =>
                  Len(q.rows) <= PageSize /\ Part(page \o q.rows, q.offset + PageSize)
    PROVE  IInv'
PROOF
  <1>1. TypeOK'
    BY DEF IInv, TypeOK, MoreRequests
  <1>2. Quiet' = Quiet /\ Total' = Total /\ Shown' = Shown
    BY DEF Quiet, Total, Shown, Idle
  <1>3. Distinct' /\ TableInv' /\ PageInv'
    BY <1>2 DEF IInv, Distinct, TableInv, PageInv, Part
  <1>4. MoreInv'
    BY <1>2 DEF MoreInv, Part
  <1> QED
    BY <1>1, <1>3, <1>4 DEF IInv

LEMMA ClickStep ==
    ASSUME IInv, Click
    PROVE  IInv'
PROOF
  <1>1. /\ TypeOK /\ Distinct /\ button # None
        /\ UNCHANGED <<stored, cleaned, behind, news, refresh, page, button, failed>>
    BY DEF IInv, Click
  <1>2. Total \in 0..MaxResults /\ Total \in Nat
    BY <1>1, StoreNow
  <1>3. button \in Nat /\ page \in Seq(PageRows)
    BY <1>1, SizesAssumption DEF TypeOK
  <1> DEFINE new == [at |-> "counted", offset |-> button, total |-> Total, rows |-> <<>>]
  <1>4. new \in MoreRequests
    BY <1>2, <1>3, EmptyTypes DEF MoreRequests
  <1>5. new.offset = button /\ new.total = Total /\ new.at = "counted"
    OBVIOUS
  <1>6. requests' = requests \cup {new}
    BY DEF Click
  <1>7. Quiet => NumsAbove(page, Total - button)
    BY <1>1 DEF IInv, PageInv, Part
  <1> HIDE DEF new
  <1>8. \A q \in requests' : q \in MoreRequests
    BY <1>1, <1>4, <1>6, RequestTypes
  <1>9. ASSUME Quiet, NEW q \in requests'
        PROVE  /\ button = q.offset
               /\ Total <= q.total
               /\ NumsAbove(page, q.total - q.offset)
               /\ q.at = "answered" =>
                    Len(q.rows) <= PageSize /\ Part(page \o q.rows, q.offset + PageSize)
    <2>1. CASE q \in requests
      BY <1>9, <2>1 DEF IInv, MoreInv
    <2>2. CASE q = new
      BY <1>2, <1>5, <1>7, <1>9, <2>2
    <2> QED
      BY <1>6, <1>9, <2>1, <2>2
  <1> QED
    BY <1>1, <1>8, <1>9, AskStep

\* The answer to a request is the request with its rows.
LEMMA Answered ==
    ASSUME NEW q \in MoreRequests, NEW rows \in Seq(PageRows)
    PROVE  LET new == [q EXCEPT !.at = "answered", !.rows = rows]
           IN  /\ new \in MoreRequests
               /\ new.offset = q.offset /\ new.total = q.total /\ new.rows = rows
BY DEF MoreRequests

LEMMA ReadForMoreStep ==
    ASSUME IInv, NEW q \in requests, ReadForMore(q)
    PROVE  IInv'
PROOF
  <1>1. /\ TypeOK /\ Distinct /\ q.at = "counted"
        /\ UNCHANGED <<stored, cleaned, behind, news, refresh, page, button, failed>>
    BY DEF IInv, ReadForMore
  <1>2. /\ stored \in Seq(Ids) /\ Total \in Nat /\ page \in Seq(PageRows)
        /\ q \in MoreRequests /\ q.total \in 0..MaxResults /\ q.offset \in Nat
    BY <1>1, StoreNow, RequestTypes DEF TypeOK
  <1> DEFINE ids == Newest(q.offset)
             rows == [i \in DOMAIN ids |->
                        [id |-> ids[i], num |-> q.total - q.offset - i + 1]]
             new == [q EXCEPT !.at = "answered", !.rows = rows]
  <1>3. ids \in Seq(Ids) /\ q.total - q.offset \in Int /\ q.total \in Int
    <2>1. q.total \in Int
      BY <1>2
    <2>2. ids \in Seq(Ids)
      BY <1>1, <1>2, NewestFacts
    <2> QED
      BY <1>2, <2>1, <2>2
  <1>4. rows \in Seq(PageRows)
    BY <1>3, RowsType
  <1>5. Quiet => /\ button = q.offset
                 /\ Total <= q.total
                 /\ NumsAbove(page, q.total - q.offset)
    BY DEF IInv, MoreInv
  <1>6. ASSUME Quiet
        PROVE  Len(rows) <= PageSize /\ Part(page \o rows, q.offset + PageSize)
    <2>1. Part(page, q.offset)
      <3>1. button = q.offset /\ button # None
        BY <1>2, <1>5, <1>6 DEF None
      <3> QED
        BY <1>6, <3>1 DEF IInv, PageInv
    <2> QED
      BY <1>1, <1>2, <1>3, <1>5, <1>6, <2>1, MoreRead
  <1>7. requests' = (requests \ {q}) \cup {new}
    BY DEF ReadForMore
  <1> HIDE DEF rows, ids
  <1>8. /\ new \in MoreRequests
        /\ new.offset = q.offset /\ new.total = q.total /\ new.rows = rows
    BY <1>2, <1>4, Answered
  <1> HIDE DEF new
  <1>9. \A p \in requests' : p \in MoreRequests
    BY <1>1, <1>7, <1>8, RequestTypes
  <1>10. ASSUME Quiet, NEW p \in requests'
         PROVE  /\ button = p.offset
                /\ Total <= p.total
                /\ NumsAbove(page, p.total - p.offset)
                /\ p.at = "answered" =>
                     Len(p.rows) <= PageSize /\ Part(page \o p.rows, p.offset + PageSize)
    <2>1. CASE p \in requests
      BY <1>10, <2>1 DEF IInv, MoreInv
    <2>2. CASE p = new
      BY <1>5, <1>6, <1>8, <1>10, <2>2
    <2> QED
      BY <1>7, <1>10, <2>1, <2>2
  <1> QED
    BY <1>1, <1>9, <1>10, AskStep

LEMMA InsertStep ==
    ASSUME IInv, NEW q \in requests, Insert(q)
    PROVE  IInv'
PROOF
  <1>1. /\ TypeOK /\ Distinct /\ q.at = "answered"
        /\ UNCHANGED <<stored, cleaned, behind, news, refresh, failed>>
        /\ page' = page \o q.rows /\ requests' = {}
        /\ button' = IF q.offset + Len(q.rows) < q.total THEN q.offset + PageSize ELSE None
    BY DEF IInv, Insert, Detached, More, NextOffset
  <1>2. /\ Total \in Nat /\ ToSet(stored) \in SUBSET Ids
        /\ Cardinality(ToSet(stored)) = Total
        /\ page \in Seq(PageRows) /\ q.rows \in Seq(PageRows) /\ Len(q.rows) \in Nat
        /\ q.total \in 0..MaxResults /\ q.offset \in Nat
    BY <1>1, StoreNow, RequestTypes DEF TypeOK
  <1>3. page' \in Seq(PageRows) /\ Shown' = IdsOf(page \o q.rows)
    BY <1>1, <1>2, RowsJoin DEF Shown, IdsOf
  <1>4. TypeOK'
    <2>1. button' \in {None} \cup 0..(MaxResults + PageSize)
      BY <1>1, <1>2, SizesAssumption
    <2> QED
      BY <1>1, <1>3, <2>1 DEF TypeOK
  <1>5. Distinct' /\ Total' = Total /\ Quiet' = Quiet
    BY <1>1 DEF Distinct, Total, Quiet, Idle
  <1>6. TableInv' /\ MoreInv'
    BY <1>1, <1>5 DEF IInv, TableInv, MoreInv, Part
  <1>7. ASSUME Quiet
        PROVE  /\ Falling(page')
               /\ button' # None => Part(page, button)'
               /\ button' = None => \A r \in ToSet(stored') : r \in Shown' \/ Overtaken(cleaned', r)
    <2>1. /\ Total <= q.total /\ Len(q.rows) <= PageSize
          /\ Part(page \o q.rows, q.offset + PageSize)
      BY <1>1, <1>7 DEF IInv, MoreInv
    <2>2. button' # None => button' = q.offset + PageSize
      BY <1>1
    <2>3. ASSUME button' = None, NEW r \in ToSet(stored)
          PROVE  r \in IdsOf(page \o q.rows) \/ Overtaken(cleaned, r)
      <3>1. ~(q.offset + Len(q.rows) < q.total)
        BY <1>1, <1>2, <2>3, SizesAssumption DEF None
      <3>2. Cardinality(Before(ToSet(stored), r)) \in 0..(Total - 1)
        BY <1>2, RankBound
      <3>3. Cardinality(Before(ToSet(stored), r)) < q.offset + PageSize
        BY <1>2, <2>1, <3>1, <3>2, SizesAssumption
      <3> QED
        BY <2>1, <3>3 DEF Part, Segment
    <2> QED
      BY <1>1, <1>3, <1>5, <2>1, <2>2, <2>3 DEF Part
  <1>8. PageInv'
    BY <1>5, <1>7 DEF PageInv
  <1> QED
    BY <1>4, <1>5, <1>6, <1>8 DEF IInv

LEMMA NextHolds == IInv /\ [Next]_vars => IInv'
PROOF
  <1> SUFFICES ASSUME IInv, [Next]_vars PROVE IInv'
    OBVIOUS
  <1>1. TypeOK /\ Distinct
    BY DEF IInv
  <1>2. CASE UNCHANGED vars
    <2>1. UNCHANGED <<stored, cleaned, behind, news, refresh, page, button, requests, failed>>
      BY <1>2 DEF vars
    <2>2. \A q \in requests' : q \in MoreRequests
      BY <1>1, <2>1, RequestTypes
    <2> QED
      BY <2>1, <2>2, AskStep DEF IInv, MoreInv
  <1>3. ASSUME NEW n \in 1..Total, Cleanup(n) PROVE IInv'
    <2>1. Expiry
      BY <1>1, <1>3, CleanupExpires
    <2>2. UNCHANGED <<behind, news, refresh, page, button, requests, failed>>
      BY <1>3 DEF Cleanup
    <2>3. TypeOK'
      BY <1>1, <2>1, <2>2 DEF TypeOK, Expiry
    <2> QED
      BY <2>1, <2>2, <2>3, ExpiryStep
  <1>4. CASE Tell
    <2>1. UNCHANGED <<stored, cleaned, behind, refresh, page, button, requests, failed>>
      BY <1>4 DEF Tell
    <2>2. news' \in BOOLEAN
      BY <1>4 DEF Tell
    <2>3. Expiry
      BY <1>1, <2>1, StoreNow DEF Expiry, Distinct, Total
    <2>4. TypeOK'
      BY <1>1, <2>1, <2>2 DEF TypeOK
    <2> QED
      BY <2>1, <2>3, <2>4, ExpiryStep
  <1>5. CASE Table
    BY <1>5, TableStep, SwapStep DEF Table
  <1>6. CASE ReadMore \/ InsertMore
    BY <1>6, ReadForMoreStep, InsertStep DEF ReadMore, InsertMore
  <1> QED
    BY <1>2, <1>3, <1>4, <1>5, <1>6, RecordStep, FailStep, ClickStep DEF Next

-----------------------------------------------------------------------------

\* Requests, rows, offsets and counts keep their ranges: the offset of the
\* button never runs more than a page past the results.
THEOREM TypeCorrect == Spec => []TypeOK
PROOF
  <1>1. IInv => TypeOK
    BY DEF IInv
  <1> QED
    BY InitHolds, NextHolds, <1>1, PTL DEF Spec

\* A page that has read its table since the last result was recorded misses no
\* result that an offset could have reached: what it does not show is behind its
\* load-more row or behind a result that has expired.
THEOREM GapsCorrect == Spec => []NoGaps
PROOF
  <1>1. IInv => NoGaps
    <2> SUFFICES ASSUME IInv, Quiet, NEW r \in ToSet(stored) \ Shown
                 PROVE  \/ button # None /\ \A x \in Shown : r < x \/ x \in cleaned
                        \/ \E c \in cleaned : r < c
      BY DEF NoGaps
    <2>1. CASE button = None
      BY <2>1 DEF IInv, PageInv, Overtaken
    <2>2. CASE button # None
      <3>1. Segment(ToSet(stored), cleaned, Shown, button) /\ button \in Nat
        BY <2>2, SizesAssumption DEF IInv, PageInv, Part, Shown, IdsOf, TypeOK
      <3>2. Cardinality(Before(ToSet(stored), r)) \in Nat
        BY StoreNow, BeforeFacts DEF IInv
      <3>3. CASE Cardinality(Before(ToSet(stored), r)) >= button
        BY <2>2, <3>1, <3>3 DEF Segment
      <3>4. CASE Cardinality(Before(ToSet(stored), r)) < button
        BY <3>1, <3>4 DEF Segment, Overtaken
      <3> QED
        BY <3>1, <3>2, <3>3, <3>4
    <2> QED
      BY <2>1, <2>2
  <1> QED
    BY InitHolds, NextHolds, <1>1, PTL DEF Spec

\* Such a page shows each of its results once, newest first, under run numbers
\* that fall and stay positive.
THEOREM OrderCorrect == Spec => []RowsInOrder
PROOF
  <1>1. IInv => RowsInOrder
    BY DEF IInv, PageInv, Falling, RowsInOrder
  <1> QED
    BY InitHolds, NextHolds, <1>1, PTL DEF Spec

=============================================================================
