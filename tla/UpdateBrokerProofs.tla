-------------------------- MODULE UpdateBrokerProofs --------------------------
(***************************************************************************)
(* Proofs about UpdateBroker, for any number of connections and any number *)
(* of failed sends that are forgiven.                                      *)
(***************************************************************************)
EXTENDS UpdateBroker, TLAPS, SequenceTheorems

\* A slice header fits into its array; publish stands inside the slice it walks.
Shape ==
    /\ subs.array = 0 => subs.len = 0
    /\ subs.array # 0 => subs.len <= Len(arrays[subs.array])
    /\ Walking => /\ pub.array \in 1..Len(arrays)
                  /\ 1 <= pub.i /\ pub.i <= pub.len
                  /\ pub.len <= Len(arrays[pub.array])

\* Before the shutdown nobody unsubscribes, and a list that publish walks and
\* goes on walking is never shortened.
Standing ==
    ~down => /\ \A c \in Clients : hook[c] \in {"none", "registered"}
             /\ Walking /\ pub.array = subs.array => pub.len <= subs.len

\* Nor does the cell that publish has checked change under it.
Judged ==
    ~down => /\ pub.pc = "dropping" => TooManyFails(Cell)
             /\ pub.pc \in {"sending", "counting"} => ~TooManyFails(Cell)
             /\ pub.pc = "counting" => Cell.fails < rejected[Cell.client]

\* And a count is never higher than the failures there have been: also in an
\* array nobody uses any more, and in a cell beyond the length of a slice.
Counted ==
    ~down => \A a \in 1..Len(arrays) : \A k \in 1..Len(arrays[a]) :
                 arrays[a][k].fails <= rejected[arrays[a][k].client]

-----------------------------------------------------------------------------
(* The slice operations. *)

LEMMA ArrayTypes ==
    ASSUME Types
    PROVE  /\ Len(arrays) \in Nat
           /\ \A a \in 1..Len(arrays) : arrays[a] \in Seq(Cells) /\ Len(arrays[a]) \in Nat
           /\ \A a \in 1..Len(arrays) : \A k \in 1..Len(arrays[a]) : arrays[a][k] \in Cells
           /\ subs.array \in 0..Len(arrays) /\ subs.len \in Nat
PROOF
  <1>1. arrays \in Seq(Seq(Cells))
    BY DEF Types
  <1>2. Len(arrays) \in Nat /\ \A a \in 1..Len(arrays) : arrays[a] \in Seq(Cells)
    BY <1>1, ElementOfSeq, LenProperties
  <1>3. \A a \in 1..Len(arrays) : Len(arrays[a]) \in Nat
    BY <1>2, LenProperties
  <1>4. \A a \in 1..Len(arrays) : \A k \in 1..Len(arrays[a]) : arrays[a][k] \in Cells
    BY <1>2, ElementOfSeq
  <1>5. subs.array \in 0..Len(arrays) /\ subs.len \in Nat
    BY DEF Types
  <1> QED
    BY <1>2, <1>3, <1>4, <1>5

\* The cells of the list in use.
LEMMA ListCells ==
    ASSUME Types, Shape
    PROVE  /\ CellsOf(subs) \in Seq(Cells) /\ Len(CellsOf(subs)) = subs.len
           /\ subs.array # 0 =>
                \A k \in 1..subs.len : CellsOf(subs)[k] = arrays[subs.array][k]
PROOF
  <1>1. CASE subs.array = 0
    BY <1>1, EmptySeq DEF Shape, CellsOf
  <1>2. CASE subs.array # 0
    <2>1. CellsOf(subs) = SubSeq(arrays[subs.array], 1, subs.len)
      BY <1>2 DEF CellsOf
    <2>2. \A k \in 1..subs.len : arrays[subs.array][k] \in Cells
      BY <1>2, ArrayTypes DEF Shape
    <2>3. /\ SubSeq(arrays[subs.array], 1, subs.len) \in Seq(Cells)
          /\ Len(SubSeq(arrays[subs.array], 1, subs.len)) =
               IF 1 <= subs.len THEN subs.len - 1 + 1 ELSE 0
          /\ \A k \in 1..(subs.len - 1 + 1) :
               SubSeq(arrays[subs.array], 1, subs.len)[k] = arrays[subs.array][1 + k - 1]
      BY <2>2, ArrayTypes, SubSeqProperties
    <2> QED
      BY <2>1, <2>3, ArrayTypes
  <1> QED
    BY <1>1, <1>2

LEMMA SubscribedCells ==
    ASSUME Types, Shape
    PROVE  Subscribed = {arrays[subs.array][k].client : k \in 1..subs.len}
PROOF
  <1>1. CASE subs.array = 0
    BY <1>1 DEF Shape, Subscribed
  <1>2. CASE subs.array # 0
    BY <1>2, ListCells DEF Subscribed
  <1> QED
    BY <1>1, <1>2

\* publish writes a count: the clients stay where they are.
LEMMA CountFacts ==
    ASSUME Types, Shape, Walking, NEW n \in Nat, Count(n)
    PROVE  /\ Cell \in Cells
           /\ arrays' \in Seq(Seq(Cells)) /\ Len(arrays') = Len(arrays)
           /\ \A a \in 1..Len(arrays) :
                /\ Len(arrays'[a]) = Len(arrays[a])
                /\ \A k \in 1..Len(arrays[a]) :
                     IF a = pub.array /\ k = pub.i
                       THEN arrays'[a][k] = [arrays[a][k] EXCEPT !.fails = n]
                       ELSE arrays'[a][k] = arrays[a][k]
PROOF
  <1> DEFINE p == pub.array
             s == arrays[p]
             cell == [s[pub.i] EXCEPT !.fails = n]
             new == [s EXCEPT ![pub.i] = cell]
  <1>1. p \in 1..Len(arrays) /\ pub.i \in 1..Len(s) /\ s \in Seq(Cells)
    BY ArrayTypes DEF Shape, Types
  <1>2. s[pub.i] \in Cells
    BY <1>1, ElementOfSeq
  <1>3. cell \in Cells
    BY <1>2 DEF Cells
  <1>4. /\ new \in Seq(Cells) /\ Len(new) = Len(s)
        /\ \A k \in 1..Len(s) : new[k] = IF k = pub.i THEN cell ELSE s[k]
    BY <1>1, <1>3, ExceptSeq
  <1>5. arrays' = [arrays EXCEPT ![p] = new]
    BY DEF Count
  <1>6. arrays \in Seq(Seq(Cells))
    BY DEF Types
  <1> HIDE DEF new
  <1>7. /\ arrays' \in Seq(Seq(Cells)) /\ Len(arrays') = Len(arrays)
        /\ \A a \in 1..Len(arrays) : arrays'[a] = IF a = p THEN new ELSE arrays[a]
    BY <1>1, <1>4, <1>5, <1>6, ExceptSeq
  <1> QED
    BY <1>1, <1>2, <1>4, <1>7 DEF Cell

\* Writing a list that has grown by one over the array it came from.
Spliced(new, s, longer, n) ==
    /\ new \in Seq(Cells) /\ Len(new) \in Nat
    /\ Len(new) >= n + 1 /\ Len(new) >= Len(s)
    /\ \A k \in 1..n : new[k] = s[k]
    /\ new[n + 1] = longer[n + 1]
    /\ \A k \in 1..Len(new) : k > n + 1 => k \in 1..Len(s) /\ new[k] = s[k]

LEMMA SpliceFacts ==
    ASSUME NEW s \in Seq(Cells), NEW longer \in Seq(Cells), NEW n \in Nat,
           n <= Len(s), Len(longer) = n + 1,
           \A k \in 1..n : longer[k] = s[k],
           NEW new, new = longer \o SubSeq(s, n + 2, Len(s))
    PROVE  Spliced(new, s, longer, n)
PROOF
  <1>1. Len(s) \in Nat
    BY LenProperties
  <1>2. PICK rest : rest = SubSeq(s, n + 2, Len(s))
    OBVIOUS
  <1>3. /\ rest \in Seq(Cells)
        /\ Len(rest) = IF n + 2 <= Len(s) THEN Len(s) - (n + 2) + 1 ELSE 0
        /\ \A k \in 1..(Len(s) - (n + 2) + 1) : rest[k] = s[n + 2 + k - 1]
    <2>1. \A k \in (n + 2)..Len(s) : s[k] \in Cells
      <3> SUFFICES ASSUME NEW k \in (n + 2)..Len(s) PROVE s[k] \in Cells
        OBVIOUS
      <3>1. k \in 1..Len(s)
        BY <1>1
      <3> QED
        BY <3>1, ElementOfSeq
    <2>2. n + 2 \in Int /\ Len(s) \in Int
      BY <1>1
    <2>3. /\ SubSeq(s, n + 2, Len(s)) \in Seq(Cells)
          /\ Len(SubSeq(s, n + 2, Len(s))) =
               IF n + 2 <= Len(s) THEN Len(s) - (n + 2) + 1 ELSE 0
          /\ \A k \in 1..(Len(s) - (n + 2) + 1) :
               SubSeq(s, n + 2, Len(s))[k] = s[n + 2 + k - 1]
      BY <2>1, <2>2, SubSeqProperties
    <2> QED
      BY <1>2, <2>3
  <1>4. Len(rest) \in Nat
    BY <1>3, LenProperties
  <1>5. new = longer \o rest
    BY <1>2
  <1>6. /\ new \in Seq(Cells) /\ Len(new) = n + 1 + Len(rest)
        /\ \A k \in 1..(n + 1 + Len(rest)) :
             new[k] = IF k <= n + 1 THEN longer[k] ELSE rest[k - (n + 1)]
    <2>1. /\ longer \o rest \in Seq(Cells)
          /\ Len(longer \o rest) = Len(longer) + Len(rest)
          /\ \A k \in 1..(Len(longer) + Len(rest)) :
               (longer \o rest)[k] = IF k <= Len(longer) THEN longer[k]
                                     ELSE rest[k - Len(longer)]
      BY <1>3, ConcatProperties
    <2>2. Len(longer) = n + 1
      OBVIOUS
    <2> QED
      BY <1>5, <2>1, <2>2
  <1>7. Len(new) \in Nat /\ Len(new) >= n + 1 /\ Len(new) >= Len(s)
    BY <1>1, <1>3, <1>4, <1>6
  <1>8. \A k \in 1..(n + 1) : new[k] = longer[k]
    BY <1>4, <1>6
  <1>9. ASSUME NEW k \in 1..Len(new), k > n + 1
        PROVE  k \in 1..Len(s) /\ new[k] = s[k]
    <2>1. n + 2 <= Len(s) /\ k <= Len(s)
      BY <1>1, <1>3, <1>6, <1>9
    <2>2. new[k] = rest[k - (n + 1)] /\ k - (n + 1) \in 1..(Len(s) - (n + 2) + 1)
      <3>1. k \in Nat /\ k \in 1..(n + 1 + Len(rest)) /\ ~(k <= n + 1)
        BY <1>1, <1>4, <1>6, <1>9
      <3>2. new[k] = rest[k - (n + 1)]
        BY <1>6, <3>1
      <3>3. k - (n + 1) \in 1..(Len(s) - (n + 2) + 1)
        BY <1>1, <1>9, <2>1, <3>1
      <3> QED
        BY <3>2, <3>3
    <2>3. rest[k - (n + 1)] = s[n + 2 + (k - (n + 1)) - 1]
      BY <1>3, <2>2
    <2>4. n + 2 + (k - (n + 1)) - 1 = k
      BY <1>1, <1>9
    <2> QED
      BY <1>1, <2>1, <2>2, <2>3, <2>4
  <1> QED
    BY <1>6, <1>7, <1>8, <1>9 DEF Spliced

\* subscribe: whatever was in a list in use or walked stays where it is.
LEMMA AppendFacts ==
    ASSUME Types, Shape, NEW c \in Cells, AppendCell(c)
    PROVE  /\ arrays' \in Seq(Seq(Cells)) /\ Len(arrays') >= Len(arrays)
           /\ subs' \in [array : 1..Len(arrays'), len : Nat]
           /\ subs'.len = subs.len + 1 /\ subs'.len <= Len(arrays'[subs'.array])
           /\ arrays'[subs'.array][subs'.len] = c
           /\ \A k \in 1..subs.len : arrays'[subs'.array][k] = arrays[subs.array][k]
           /\ subs'.array = subs.array \/ subs'.array > Len(arrays)
           /\ \A a \in 1..Len(arrays) :
                /\ Len(arrays'[a]) >= Len(arrays[a])
                /\ \A k \in 1..Len(arrays[a]) :
                     ~(a = subs.array /\ k > subs.len) => arrays'[a][k] = arrays[a][k]
           /\ \A a \in 1..Len(arrays') : \A k \in 1..Len(arrays'[a]) :
                \/ arrays'[a][k] = c
                \/ \E b \in 1..Len(arrays) : \E m \in 1..Len(arrays[b]) :
                     arrays'[a][k] = arrays[b][m]
PROOF
  <1> DEFINE n == subs.len
             longer == CellsOf(subs) \o <<c>>
  <1>0. arrays \in Seq(Seq(Cells)) /\ n \in Nat /\ Len(arrays) \in Nat
    BY ArrayTypes DEF Types
  <1>1. <<c>> \in Seq(Cells) /\ Len(<<c>>) = 1 /\ <<c>>[1] = c
    OBVIOUS
  <1>2. /\ longer \in Seq(Cells) /\ Len(longer) = n + 1
        /\ \A k \in 1..n : longer[k] = CellsOf(subs)[k]
        /\ longer[n + 1] = c
    <2>1. /\ longer \in Seq(Cells) /\ Len(longer) = Len(CellsOf(subs)) + Len(<<c>>)
          /\ \A k \in 1..(Len(CellsOf(subs)) + Len(<<c>>)) :
               longer[k] = IF k <= Len(CellsOf(subs)) THEN CellsOf(subs)[k]
                           ELSE <<c>>[k - Len(CellsOf(subs))]
      BY <1>1, ListCells, ConcatProperties
    <2> QED
      BY <1>0, <1>1, <2>1, ListCells
  <1> HIDE DEF longer
  <1>3. CASE n < Capacity(subs.array)
    <2>1. subs.array # 0
      <3>1. Capacity(0) = 0
        BY DEF Capacity
      <3> QED
        BY <1>0, <1>3, <3>1
    <2>2. PICK s : s = arrays[subs.array]
      OBVIOUS
    <2>3. subs.array \in 1..Len(arrays) /\ s \in Seq(Cells) /\ Len(s) \in Nat /\ n <= Len(s)
      BY <1>0, <2>1, <2>2, ArrayTypes DEF Shape
    <2>4. \A k \in 1..n : longer[k] = s[k]
      BY <1>2, <2>1, <2>2, ListCells
    <2>5. PICK new : new = longer \o SubSeq(s, n + 2, Len(s))
      OBVIOUS
    <2>6. /\ new \in Seq(Cells) /\ Len(new) \in Nat
          /\ Len(new) >= n + 1 /\ Len(new) >= Len(s)
          /\ \A k \in 1..n : new[k] = s[k]
          /\ new[n + 1] = c
          /\ \A k \in 1..Len(new) : k > n + 1 => k \in 1..Len(s) /\ new[k] = s[k]
      <3>1. longer \in Seq(Cells) /\ Len(longer) = n + 1 /\ longer[n + 1] = c
        BY <1>2
      <3>2. n \in Nat
        BY <1>0
      <3> HIDE DEF n
      <3>3. Spliced(new, s, longer, n)
        <4>1. s \in Seq(Cells) /\ n <= Len(s)
          BY <2>3
        <4>2. longer \in Seq(Cells) /\ Len(longer) = n + 1
          BY <3>1
        <4> QED
          BY <2>4, <2>5, <3>2, <4>1, <4>2, SpliceFacts
      <3> QED
        BY <3>1, <3>3 DEF Spliced
    <2>9. /\ arrays' = [arrays EXCEPT ![subs.array] = new]
          /\ subs' = [subs EXCEPT !.len = n + 1]
      BY <1>3, <2>2, <2>5 DEF AppendCell, longer
    <2>10. /\ arrays' \in Seq(Seq(Cells)) /\ Len(arrays') = Len(arrays)
           /\ \A a \in 1..Len(arrays) :
                arrays'[a] = IF a = subs.array THEN new ELSE arrays[a]
      BY <1>0, <2>3, <2>6, <2>9, ExceptSeq
    <2>11. subs'.array = subs.array /\ subs'.len = n + 1
           /\ subs' \in [array : 1..Len(arrays'), len : Nat]
      <3>1. subs \in [array : 0..Len(arrays), len : Nat]
        BY DEF Types
      <3>2. subs' = [array |-> subs.array, len |-> n + 1]
        BY <2>9, <3>1
      <3>3. Len(arrays') = Len(arrays)
        BY <2>10
      <3>4. subs.array \in 1..Len(arrays') /\ n + 1 \in Nat
        BY <1>0, <2>3, <3>3
      <3> QED
        BY <3>2, <3>4
    <2>12. \A a \in 1..Len(arrays) :
             /\ Len(arrays'[a]) >= Len(arrays[a])
             /\ \A k \in 1..Len(arrays[a]) :
                  ~(a = subs.array /\ k > n) => arrays'[a][k] = arrays[a][k]
      <3> SUFFICES ASSUME NEW a \in 1..Len(arrays)
                   PROVE  /\ Len(arrays'[a]) >= Len(arrays[a])
                          /\ \A k \in 1..Len(arrays[a]) :
                               ~(a = subs.array /\ k > n) => arrays'[a][k] = arrays[a][k]
        OBVIOUS
      <3>1. CASE a = subs.array
        <4>1. arrays'[a] = new /\ arrays[a] = s
          BY <2>2, <2>10, <3>1
        <4>2. ASSUME NEW k \in 1..Len(s), ~(k > n) PROVE new[k] = s[k]
          <5>1. k \in 1..n
            BY <1>0, <2>3, <4>2
          <5> QED
            BY <2>6, <5>1
        <4>3. Len(arrays'[a]) >= Len(arrays[a])
          BY <2>6, <4>1
        <4>4. \A k \in 1..Len(arrays[a]) : ~(k > n) => arrays'[a][k] = arrays[a][k]
          <5> HIDE DEF n
          <5> QED
            BY <4>1, <4>2
        <4> QED
          BY <3>1, <4>3, <4>4
      <3>2. CASE a # subs.array
        BY <2>10, <3>2, ArrayTypes
      <3> QED
        BY <3>1, <3>2
    <2>13. \A a \in 1..Len(arrays') : \A k \in 1..Len(arrays'[a]) :
             \/ arrays'[a][k] = c
             \/ \E b \in 1..Len(arrays) : \E m \in 1..Len(arrays[b]) :
                  arrays'[a][k] = arrays[b][m]
      <3> SUFFICES ASSUME NEW a \in 1..Len(arrays), NEW k \in 1..Len(arrays'[a]),
                          arrays'[a][k] # c
                   PROVE  \E m \in 1..Len(arrays[a]) : arrays'[a][k] = arrays[a][m]
        BY <2>10
      <3>1. CASE a = subs.array
        <4>1. k \in 1..n \/ k = n + 1 \/ k > n + 1
          <5>1. arrays'[a] = new
            BY <2>10, <3>1
          <5>2. Len(new) \in Nat /\ k \in 1..Len(new)
            BY <2>6, <5>1
          <5> QED
            BY <1>0, <5>2
        <4>2. k \in 1..Len(s) /\ arrays'[a][k] = s[k]
          <5>1. arrays'[a] = new /\ k \in 1..Len(new) /\ new[k] # c
            BY <2>10, <3>1
          <5>2. CASE k \in 1..n
            <6>1. new[k] = s[k]
              BY <2>6, <5>2
            <6>2. k \in 1..Len(s)
              BY <1>0, <2>3, <5>2
            <6> QED
              BY <5>1, <6>1, <6>2
          <5>3. CASE k > n + 1
            BY <2>6, <5>1, <5>3
          <5>4. k # n + 1
            BY <2>6, <5>1
          <5> QED
            BY <4>1, <5>2, <5>3, <5>4
        <4> QED
          BY <2>2, <3>1, <4>2
      <3>2. CASE a # subs.array
        BY <2>10, <3>2
      <3> QED
        BY <3>1, <3>2
    <2>14. arrays'[subs'.array] = new /\ arrays[subs.array] = s
      BY <2>2, <2>3, <2>10, <2>11
    <2>15. Len(arrays') >= Len(arrays)
      BY <1>0, <2>10
    <2>16. subs'.len <= Len(arrays'[subs'.array])
           /\ arrays'[subs'.array][subs'.len] = c
      BY <2>6, <2>11, <2>14
    <2> QED
      BY <2>6, <2>10, <2>11, <2>12, <2>13, <2>14, <2>15, <2>16
  <1>4. CASE ~(n < Capacity(subs.array))
    <2>1. /\ arrays' = Append(arrays, longer)
          /\ subs' = [array |-> Len(arrays) + 1, len |-> n + 1]
      BY <1>4 DEF AppendCell, longer
    <2>2. /\ arrays' \in Seq(Seq(Cells)) /\ Len(arrays') = Len(arrays) + 1
          /\ \A a \in 1..Len(arrays) : arrays'[a] = arrays[a]
          /\ arrays'[Len(arrays) + 1] = longer
      BY <1>0, <1>2, <2>1, AppendProperties
    <2>3. /\ subs'.array = Len(arrays) + 1 /\ subs'.len = n + 1
          /\ subs' \in [array : 1..Len(arrays'), len : Nat]
      BY <1>0, <2>1, <2>2
    <2>4. \A k \in 1..n : longer[k] = arrays[subs.array][k] /\ subs.array \in 1..Len(arrays)
      <3> SUFFICES ASSUME NEW k \in 1..n
                   PROVE  longer[k] = arrays[subs.array][k] /\ subs.array \in 1..Len(arrays)
        OBVIOUS
      <3>1. subs.array # 0
        BY <1>0 DEF Shape
      <3> QED
        BY <1>2, <3>1, ListCells, ArrayTypes
    <2>5. \A a \in 1..Len(arrays') : \A k \in 1..Len(arrays'[a]) :
             \/ arrays'[a][k] = c
             \/ \E b \in 1..Len(arrays) : \E m \in 1..Len(arrays[b]) :
                  arrays'[a][k] = arrays[b][m]
      <3> SUFFICES ASSUME NEW a \in 1..Len(arrays'), NEW k \in 1..Len(arrays'[a]),
                          arrays'[a][k] # c
                   PROVE  \E b \in 1..Len(arrays) : \E m \in 1..Len(arrays[b]) :
                            arrays'[a][k] = arrays[b][m]
        OBVIOUS
      <3>1. CASE a \in 1..Len(arrays)
        BY <2>2, <3>1
      <3>2. CASE a = Len(arrays) + 1
        <4>1. k \in 1..(n + 1) /\ arrays'[a][k] = longer[k]
          <5>1. arrays'[a] = longer
            BY <2>2, <3>2
          <5>2. Len(longer) = n + 1
            BY <1>2
          <5> QED
            BY <5>1, <5>2
        <4>2. k \in 1..n
          <5>1. longer[n + 1] = c /\ longer[k] # c
            BY <1>2, <4>1
          <5>2. k # n + 1
            BY <5>1
          <5> QED
            BY <1>0, <4>1, <5>2
        <4>3. subs.array \in 1..Len(arrays) /\ k \in 1..Len(arrays[subs.array])
          BY <1>0, <2>4, <4>2, ArrayTypes DEF Shape
        <4> QED
          BY <2>4, <4>1, <4>2, <4>3
      <3> QED
        BY <1>0, <2>2, <3>1, <3>2
    <2>6. ASSUME NEW a \in 1..Len(arrays) PROVE Len(arrays'[a]) >= Len(arrays[a])
      <3>1. arrays'[a] = arrays[a]
        BY <2>2
      <3>2. Len(arrays[a]) \in Nat
        BY ArrayTypes
      <3> QED
        BY <3>1, <3>2
    <2>7. /\ subs'.len <= Len(arrays'[subs'.array]) /\ Len(arrays') >= Len(arrays)
          /\ subs'.array > Len(arrays)
          /\ arrays'[subs'.array][subs'.len] = c
      <3>1. Len(arrays') = Len(arrays) + 1 /\ arrays'[subs'.array] = longer
        BY <2>2, <2>3
      <3>2. Len(longer) = n + 1 /\ longer[n + 1] = c
        BY <1>2
      <3>3. subs'.array = Len(arrays) + 1 /\ subs'.len = n + 1
        BY <2>3
      <3> QED
        BY <1>0, <3>1, <3>2, <3>3
    <2>8. \A k \in 1..subs.len : arrays'[subs'.array][k] = arrays[subs.array][k]
      BY <2>2, <2>3, <2>4
    <2> QED
      BY <2>2, <2>3, <2>5, <2>6, <2>7, <2>8
  <1> QED
    BY <1>3, <1>4

\* The list after a step that leaves it in an array that holds it.
LEMMA SubscribedNext ==
    ASSUME arrays' \in Seq(Seq(Cells)), subs'.array \in 1..Len(arrays'),
           subs'.len \in Nat, subs'.len <= Len(arrays'[subs'.array])
    PROVE  Subscribed' = {arrays'[subs'.array][k].client : k \in 1..subs'.len}
PROOF
  <1>1. PICK s : s = arrays'[subs'.array]
    OBVIOUS
  <1>2. PICK n : n = subs'.len
    OBVIOUS
  <1>3. s \in Seq(Cells) /\ n \in Nat /\ n <= Len(s) /\ Len(s) \in Nat
    BY <1>1, <1>2, ElementOfSeq, LenProperties
  <1>4. \A k \in 1..n : s[k] \in Cells
    <2> SUFFICES ASSUME NEW k \in 1..n PROVE s[k] \in Cells
      OBVIOUS
    <2>1. k \in 1..Len(s)
      BY <1>3
    <2> QED
      BY <1>3, <2>1, ElementOfSeq
  <1>5. \A k \in 1..n : SubSeq(s, 1, n)[k] = s[k]
    <2>1. \A k \in 1..(n - 1 + 1) : SubSeq(s, 1, n)[k] = s[1 + k - 1]
      BY <1>3, <1>4, SubSeqProperties
    <2> QED
      BY <1>3, <2>1
  <1>6. Subscribed' = {SubSeq(s, 1, n)[k].client : k \in 1..n}
    <2>1. subs'.array # 0
      OBVIOUS
    <2>2. CellsOf(subs)' = SubSeq(s, 1, n)
      BY <1>1, <1>2, <2>1 DEF CellsOf
    <2> QED
      BY <1>2, <2>2 DEF Subscribed
  <1> QED
    BY <1>1, <1>2, <1>5, <1>6

\* unsubscribe: the cells behind the first one of c move up in their array, and
\* nothing else changes.
LEMMA UnsubscribeFacts ==
    ASSUME Types, Shape, NEW c \in Subscribed, Unsubscribe(c)
    PROVE  /\ subs.array \in 1..Len(arrays) /\ subs.len >= 1
           /\ subs' = [subs EXCEPT !.len = @ - 1]
           /\ arrays' \in Seq(Seq(Cells)) /\ Len(arrays') = Len(arrays)
           /\ \A a \in 1..Len(arrays) : Len(arrays'[a]) = Len(arrays[a])
           /\ \A a \in 1..Len(arrays) : a # subs.array => arrays'[a] = arrays[a]
           /\ \E i \in 1..subs.len :
                /\ arrays[subs.array][i].client = c
                /\ \A k \in 1..Len(arrays[subs.array]) :
                     arrays'[subs.array][k] =
                       IF k \in i..(subs.len - 1) THEN arrays[subs.array][k + 1]
                       ELSE arrays[subs.array][k]
PROOF
  <1>1. PICK i \in 1..subs.len :
          /\ CellsOf(subs)[i].client = c
          /\ arrays' = [arrays EXCEPT ![subs.array] = ShiftOut(@, i, subs.len)]
          /\ subs' = [subs EXCEPT !.len = @ - 1]
    BY DEF Unsubscribe
  <1>2. subs.len \in Nat /\ i \in Nat /\ 1 <= subs.len
    BY ArrayTypes
  <1>3. subs.array \in 1..Len(arrays)
    <2>1. subs.array # 0
      BY <1>2 DEF Shape
    <2> QED
      BY <2>1, ArrayTypes
  <1>4. PICK s : s = arrays[subs.array]
    OBVIOUS
  <1>5. s \in Seq(Cells) /\ Len(s) \in Nat /\ subs.len <= Len(s) /\ DOMAIN s = 1..Len(s)
        /\ \A k \in 1..Len(s) : s[k] \in Cells
    BY <1>3, <1>4, ArrayTypes, LenProperties DEF Shape
  <1>6. PICK n : n = subs.len
    OBVIOUS
  <1>7. PICK new : new = ShiftOut(s, i, n)
    OBVIOUS
  <1>8. new = [k \in 1..Len(s) |-> IF k \in i..(n - 1) THEN s[k + 1] ELSE s[k]]
    BY <1>5, <1>7 DEF ShiftOut
  <1>9. \A k \in 1..Len(s) : new[k] \in Cells
    <2> SUFFICES ASSUME NEW k \in 1..Len(s) PROVE new[k] \in Cells
      OBVIOUS
    <2>1. CASE k \in i..(n - 1)
      <3>1. k + 1 \in 1..Len(s) /\ new[k] = s[k + 1]
        BY <1>2, <1>5, <1>6, <1>8, <2>1
      <3> QED
        BY <1>5, <3>1
    <2>2. CASE k \notin i..(n - 1)
      BY <1>5, <1>8, <2>2
    <2> QED
      BY <2>1, <2>2
  <1>10. new \in Seq(Cells) /\ Len(new) = Len(s)
    <2>1. new \in [1..Len(s) -> Cells]
      BY <1>8, <1>9
    <2> QED
      BY <1>5, <2>1, SeqDef, LenProperties
  <1>11. arrays' = [arrays EXCEPT ![subs.array] = new]
    BY <1>1, <1>4, <1>6, <1>7
  <1>12. /\ arrays' \in Seq(Seq(Cells)) /\ Len(arrays') = Len(arrays)
         /\ \A a \in 1..Len(arrays) :
              arrays'[a] = IF a = subs.array THEN new ELSE arrays[a]
    <2>1. arrays \in Seq(Seq(Cells))
      BY DEF Types
    <2> QED
      BY <1>3, <1>10, <1>11, <2>1, ExceptSeq
  <1>13. arrays[subs.array][i].client = c
    BY <1>1, <1>2, <1>3, ListCells
  <1>14. \A k \in 1..Len(arrays[subs.array]) :
           arrays'[subs.array][k] =
             IF k \in i..(subs.len - 1) THEN arrays[subs.array][k + 1]
             ELSE arrays[subs.array][k]
    BY <1>3, <1>4, <1>6, <1>8, <1>12
  <1>15. \A a \in 1..Len(arrays) : Len(arrays'[a]) = Len(arrays[a])
    BY <1>4, <1>10, <1>12
  <1> QED
    BY <1>1, <1>2, <1>3, <1>12, <1>13, <1>14, <1>15

\* Every cell there is was there before, and only c is off the list.
LEMMA UnsubscribeKeeps ==
    ASSUME Types, Shape, NEW c \in Subscribed, Unsubscribe(c)
    PROVE  /\ \A a \in 1..Len(arrays') : \A k \in 1..Len(arrays'[a]) :
                \E m \in 1..Len(arrays[a]) : arrays'[a][k] = arrays[a][m]
           /\ Subscribed \ {c} \subseteq Subscribed'
PROOF
  <1>1. PICK s : s = arrays[subs.array]
    OBVIOUS
  <1>2. PICK n : n = subs.len
    OBVIOUS
  <1>3. PICK new : new = arrays'[subs.array]
    OBVIOUS
  <1>4. /\ subs.array \in 1..Len(arrays) /\ n >= 1 /\ n \in Nat
        /\ Len(s) \in Nat /\ n <= Len(s) /\ Len(new) = Len(s)
    BY <1>1, <1>2, <1>3, UnsubscribeFacts, ArrayTypes DEF Shape
  <1>5. PICK i \in 1..n :
          /\ s[i].client = c
          /\ \A k \in 1..Len(s) :
               new[k] = IF k \in i..(n - 1) THEN s[k + 1] ELSE s[k]
    BY <1>1, <1>2, <1>3, UnsubscribeFacts
  <1>6. \A k \in 1..Len(s) : \E m \in 1..Len(s) : new[k] = s[m]
    <2> SUFFICES ASSUME NEW k \in 1..Len(s) PROVE \E m \in 1..Len(s) : new[k] = s[m]
      OBVIOUS
    <2>1. CASE k \in i..(n - 1)
      <3>1. k + 1 \in 1..Len(s) /\ new[k] = s[k + 1]
        BY <1>4, <1>5, <2>1
      <3> QED
        BY <3>1
    <2>2. CASE k \notin i..(n - 1)
      BY <1>5, <2>2
    <2> QED
      BY <2>1, <2>2
  <1>7. ASSUME NEW a \in 1..Len(arrays'), NEW k \in 1..Len(arrays'[a])
        PROVE  \E m \in 1..Len(arrays[a]) : arrays'[a][k] = arrays[a][m]
    <2>1. a \in 1..Len(arrays) /\ Len(arrays'[a]) = Len(arrays[a])
      BY UnsubscribeFacts
    <2>2. CASE a = subs.array
      BY <1>1, <1>3, <1>4, <1>6, <2>2
    <2>3. CASE a # subs.array
      BY <2>1, <2>3, UnsubscribeFacts
    <2> QED
      BY <2>2, <2>3
  <1>8. Subscribed = {s[k].client : k \in 1..n}
    BY <1>1, <1>2, SubscribedCells
  <1>9. Subscribed' = {new[k].client : k \in 1..(n - 1)}
    <2>1. subs'.array = subs.array /\ subs'.len = n - 1
      <3>1. subs \in [array : 0..Len(arrays), len : Nat]
        BY DEF Types
      <3>2. subs' = [subs EXCEPT !.len = @ - 1]
        BY UnsubscribeFacts
      <3> QED
        BY <1>2, <3>1, <3>2
    <2>2. n - 1 \in Nat /\ n - 1 <= Len(new)
      BY <1>4
    <2>3. arrays' \in Seq(Seq(Cells)) /\ subs.array \in 1..Len(arrays')
      BY <1>4, UnsubscribeFacts
    <2> QED
      BY <1>3, <2>1, <2>2, <2>3, SubscribedNext
  <1>10. ASSUME NEW k \in 1..n, s[k].client # c
         PROVE  \E m \in 1..(n - 1) : new[m].client = s[k].client
    <2>1. CASE k < i
      <3>1. k \in 1..(n - 1) /\ k \in 1..Len(s) /\ k \notin i..(n - 1)
        BY <1>4, <2>1
      <3> QED
        BY <1>5, <3>1
    <2>2. CASE k > i
      <3>1. k - 1 \in 1..(n - 1) /\ k - 1 \in 1..Len(s) /\ k - 1 \in i..(n - 1)
            /\ (k - 1) + 1 = k
        BY <1>4, <2>2
      <3>2. new[k - 1] = s[(k - 1) + 1]
        BY <1>5, <3>1
      <3> QED
        BY <3>1, <3>2
    <2>3. CASE k = i
      BY <1>5, <1>10, <2>3
    <2> QED
      BY <1>4, <2>1, <2>2, <2>3
  <1>11. Subscribed \ {c} \subseteq Subscribed'
    BY <1>8, <1>9, <1>10
  <1> QED
    BY <1>7, <1>11

-----------------------------------------------------------------------------
(* Types, the shape of the slices, and the counts. *)

\* What a subscriber was refused explains why it is gone.
CountInv ==
    Types /\ Shape /\ Standing /\ Judged /\ Counted /\ DropNeedsFailures

LEMMA InitCount == Init => CountInv
PROOF
  <1> SUFFICES ASSUME Init PROVE CountInv
    OBVIOUS
  <1>1. arrays \in Seq(Seq(Cells)) /\ Len(arrays) = 0
    BY EmptySeq DEF Init
  <1>2. Types
    <2>1. subs \in [array : 0..Len(arrays), len : Nat]
      BY <1>1 DEF Init
    <2>2. pub \in [pc : {"idle", "woken"} \cup Round, i : Nat, array : 0..Len(arrays),
                  len : Nat]
      BY <1>1 DEF Init, Idle
    <2>3. rejected \in [Clients -> 0..(FailLimit + 1)]
      BY LimitAssumption DEF Init
    <2>4. /\ updated \in BOOLEAN /\ down \in BOOLEAN
          /\ owed \subseteq Clients /\ passedOver \subseteq Clients
          /\ out \in [Clients -> {"empty", "update", "close"}]
          /\ client \in [Clients -> {"away", "connected", "gone"}]
          /\ hook \in [Clients -> {"none", "registered", "fired", "unsubscribed", "done"}]
      BY DEF Init
    <2> QED
      BY <1>1, <2>1, <2>2, <2>3, <2>4 DEF Types
  <1>3. Shape /\ Standing /\ Judged
    BY <1>1 DEF Init, Shape, Standing, Judged, Walking, Round, Idle
  <1>4. Counted /\ DropNeedsFailures
    BY <1>1 DEF Init, Counted, DropNeedsFailures, Dropped
  <1> QED
    BY <1>2, <1>3, <1>4 DEF CountInv

\* subscribe, seen by the list: it grows by one.
LEMMA AppendGrows ==
    ASSUME Types, Shape, NEW c \in Cells, AppendCell(c)
    PROVE  Subscribed \cup {c.client} \subseteq Subscribed'
PROOF
  <1>1. /\ arrays' \in Seq(Seq(Cells)) /\ subs'.array \in 1..Len(arrays')
        /\ subs'.len = subs.len + 1 /\ subs'.len \in Nat
        /\ subs'.len <= Len(arrays'[subs'.array])
        /\ arrays'[subs'.array][subs'.len] = c
        /\ \A k \in 1..subs.len : arrays'[subs'.array][k] = arrays[subs.array][k]
    BY AppendFacts, ArrayTypes
  <1>2. Subscribed' = {arrays'[subs'.array][k].client : k \in 1..subs'.len}
    BY <1>1, SubscribedNext
  <1>3. Subscribed = {arrays[subs.array][k].client : k \in 1..subs.len}
    BY SubscribedCells
  <1>4. subs'.len \in 1..subs'.len /\ \A k \in 1..subs.len : k \in 1..subs'.len
    BY <1>1, ArrayTypes
  <1> QED
    BY <1>1, <1>2, <1>3, <1>4

\* A count does not touch who is subscribed.
LEMMA CountKeeps ==
    ASSUME Types, Shape, Walking, NEW n \in Nat, Count(n),
           UNCHANGED subs
    PROVE  /\ Subscribed' = Subscribed
           /\ \A a \in 1..Len(arrays) : \A k \in 1..Len(arrays[a]) :
                arrays'[a][k].client = arrays[a][k].client
PROOF
  <1>1. /\ arrays' \in Seq(Seq(Cells)) /\ Len(arrays') = Len(arrays)
        /\ \A a \in 1..Len(arrays) : Len(arrays'[a]) = Len(arrays[a])
    BY CountFacts
  <1>2. ASSUME NEW a \in 1..Len(arrays), NEW k \in 1..Len(arrays[a])
        PROVE  arrays'[a][k].client = arrays[a][k].client
    <2>1. arrays[a][k] \in Cells
      BY ArrayTypes
    <2>2. \/ arrays'[a][k] = arrays[a][k]
          \/ arrays'[a][k] = [arrays[a][k] EXCEPT !.fails = n]
      <3>1. IF a = pub.array /\ k = pub.i
              THEN arrays'[a][k] = [arrays[a][k] EXCEPT !.fails = n]
              ELSE arrays'[a][k] = arrays[a][k]
        BY CountFacts
      <3> QED
        BY <3>1
    <2> QED
      BY <2>1, <2>2 DEF Cells
  <1>3. CASE subs.array = 0
    <2>1. subs.len = 0 /\ subs'.len = 0
      BY <1>3 DEF Shape
    <2> QED
      BY <1>2, <2>1 DEF Subscribed
  <1>4. CASE subs.array # 0
    <2>1. /\ subs.array \in 1..Len(arrays) /\ subs.len \in Nat
          /\ subs.len <= Len(arrays[subs.array])
      BY <1>4, ArrayTypes DEF Shape
    <2>2. Subscribed' = {arrays'[subs.array][k].client : k \in 1..subs.len}
      BY <1>1, <2>1, SubscribedNext
    <2>3. \A k \in 1..subs.len : k \in 1..Len(arrays[subs.array])
      BY <2>1, ArrayTypes
    <2>4. \A k \in 1..subs.len :
            arrays'[subs.array][k].client = arrays[subs.array][k].client
      BY <1>2, <2>1, <2>3
    <2>5. Subscribed = {arrays[subs.array][k].client : k \in 1..subs.len}
      BY SubscribedCells
    <2>6. Subscribed' = Subscribed
      BY <2>2, <2>4, <2>5
    <2> QED
      BY <1>2, <2>6
  <1> QED
    BY <1>2, <1>3, <1>4

\* A step that leaves the slices, the counts, the refusals and publish alone.
LEMMA QuietStep ==
    ASSUME CountInv, UNCHANGED <<arrays, subs, pub, down, hook, rejected>>, Types'
    PROVE  CountInv'
PROOF
  <1>1. Shape' /\ Standing' /\ Judged'
    BY DEF CountInv, Shape, Standing, Judged, Walking, Cell, TooManyFails
  <1>2. Counted' /\ DropNeedsFailures'
    BY DEF CountInv, Counted, DropNeedsFailures, Dropped, Subscribed, CellsOf
  <1> QED
    BY <1>1, <1>2 DEF CountInv

\* Once the hooks have been fired only the shape of the slices is left to keep.
LEMMA DownStep ==
    ASSUME down', Types', Shape'
    PROVE  CountInv'
BY DEF CountInv, Standing, Judged, Counted, DropNeedsFailures

LEMMA SameShape ==
    ASSUME Types, Shape, UNCHANGED <<arrays, subs>>, pub' = pub \/ pub' = Idle
    PROVE  Shape'
BY DEF Shape, Walking, Round, Idle

\* The cell publish is at.
LEMMA CellType ==
    ASSUME Types, Shape, Walking
    PROVE  /\ Cell \in Cells /\ Cell.client \in Clients /\ Cell.fails \in Nat
           /\ pub.array \in 1..Len(arrays) /\ pub.i \in 1..Len(arrays[pub.array])
           /\ pub.i \in Nat /\ pub.len \in Nat /\ 1 <= pub.i /\ pub.i <= pub.len
           /\ pub.len <= Len(arrays[pub.array]) /\ Len(arrays[pub.array]) \in Nat
PROOF
  <1>1. /\ pub.array \in 1..Len(arrays) /\ pub.i \in 1..Len(arrays[pub.array])
        /\ pub.i \in Nat /\ pub.len \in Nat /\ 1 <= pub.i /\ pub.i <= pub.len
        /\ pub.len <= Len(arrays[pub.array]) /\ Len(arrays[pub.array]) \in Nat
    BY ArrayTypes DEF Shape, Types
  <1>2. Cell \in Cells
    BY <1>1, ArrayTypes DEF Cell
  <1> QED
    BY <1>1, <1>2 DEF Cells

\* publish takes the next step of its round.
LEMMA WithinRound ==
    ASSUME Types, Walking, NEW pc \in Round, pub' = [pub EXCEPT !.pc = pc]
    PROVE  /\ pub' \in [pc : {"idle", "woken"} \cup Round, i : Nat,
                        array : 0..Len(arrays), len : Nat]
           /\ pub'.pc = pc /\ pub'.i = pub.i /\ pub'.array = pub.array
           /\ pub'.len = pub.len /\ Walking'
BY DEF Types, Walking

\* publish goes on to the next cell, or ends.
LEMMA GoToFacts ==
    ASSUME Types, Shape, Walking, pub' = GoTo(pub.i + 1)
    PROVE  /\ pub' \in [pc : {"idle", "woken"} \cup Round, i : Nat,
                        array : 0..Len(arrays), len : Nat]
           /\ \/ pub' = Idle /\ pub.i = pub.len
              \/ /\ pub'.pc = "checking" /\ pub'.array = pub.array /\ pub'.len = pub.len
                 /\ pub'.i = pub.i + 1 /\ pub'.i <= pub.len /\ 1 <= pub'.i
PROOF
  <1>1. pub \in [pc : {"idle", "woken"} \cup Round, i : Nat, array : 0..Len(arrays),
                 len : Nat]
    BY DEF Types
  <1>2. pub.i \in Nat /\ pub.len \in Nat /\ pub.i <= pub.len /\ Len(arrays) \in Nat
    BY CellType, ArrayTypes
  <1>3. CASE pub.i + 1 > pub.len
    BY <1>2, <1>3 DEF GoTo, PastEnd, Idle
  <1>4. CASE ~(pub.i + 1 > pub.len)
    <2>1. pub' = [pub EXCEPT !.pc = "checking", !.i = pub.i + 1]
      BY <1>4 DEF GoTo, PastEnd
    <2>2. pub'.pc = "checking" /\ pub'.array = pub.array /\ pub'.len = pub.len
          /\ pub'.i = pub.i + 1
      BY <1>1, <2>1
    <2>3. pub.i + 1 \in Nat /\ "checking" \in Round
      BY <1>2 DEF Round
    <2>4. pub' \in [pc : {"idle", "woken"} \cup Round, i : Nat, array : 0..Len(arrays),
                    len : Nat]
      BY <1>1, <2>1, <2>3
    <2> QED
      BY <1>2, <1>4, <2>2, <2>4
  <1> QED
    BY <1>3, <1>4

\* Until the shutdown a subscribe leaves the cells that publish walks in place.
LEMMA WalkedStays ==
    ASSUME CountInv, ~down, Walking, NEW c \in Cells, AppendCell(c)
    PROVE  \A k \in 1..pub.len : arrays'[pub.array][k] = arrays[pub.array][k]
PROOF
  <1> SUFFICES ASSUME NEW k \in 1..pub.len
               PROVE  arrays'[pub.array][k] = arrays[pub.array][k]
    OBVIOUS
  <1>0. Types /\ Shape
    BY DEF CountInv
  <1>1. /\ pub.array \in 1..Len(arrays) /\ pub.len \in Nat
        /\ pub.len <= Len(arrays[pub.array]) /\ Len(arrays[pub.array]) \in Nat
    BY <1>0, CellType
  <1>2. k \in 1..Len(arrays[pub.array]) /\ k <= pub.len /\ k \in Nat
    BY <1>1
  <1>3. ~(pub.array = subs.array /\ k > subs.len)
    <2>1. pub.array = subs.array => pub.len <= subs.len
      BY DEF CountInv, Standing
    <2>2. subs.len \in Nat
      BY <1>0, ArrayTypes
    <2> QED
      BY <1>1, <1>2, <2>1, <2>2
  <1> QED
    BY <1>0, <1>1, <1>2, <1>3, AppendFacts

LEMMA ConnectCount ==
    ASSUME CountInv, NEW c \in Clients, Connect(c)
    PROVE  CountInv'
PROOF
  <1> DEFINE cell == [client |-> c, fails |-> 0]
  <1>1. cell \in Cells /\ cell.client = c /\ cell.fails = 0
    BY DEF Cells
  <1> HIDE DEF cell
  <1>2. Types /\ Shape
    BY DEF CountInv
  <1>3. AppendCell(cell) /\ UNCHANGED <<updated, pub, out, down, owed, passedOver, rejected>>
        /\ hook' = [hook EXCEPT ![c] = "registered"]
    BY DEF Connect, cell
  <1>4. /\ arrays' \in Seq(Seq(Cells)) /\ Len(arrays') >= Len(arrays)
        /\ subs' \in [array : 1..Len(arrays'), len : Nat]
        /\ subs'.len <= Len(arrays'[subs'.array]) /\ subs'.len = subs.len + 1
        /\ subs'.array = subs.array \/ subs'.array > Len(arrays)
        /\ \A a \in 1..Len(arrays) : Len(arrays'[a]) >= Len(arrays[a])
    BY <1>1, <1>2, <1>3, AppendFacts
  <1>5. \A a \in 1..Len(arrays') : \A k \in 1..Len(arrays'[a]) :
          \/ arrays'[a][k] = cell
          \/ \E b \in 1..Len(arrays) : \E m \in 1..Len(arrays[b]) :
               arrays'[a][k] = arrays[b][m]
    BY <1>1, <1>2, <1>3, AppendFacts
  <1>6. Len(arrays) \in Nat /\ Len(arrays') \in Nat /\ subs.len \in Nat
    BY <1>2, <1>4, ArrayTypes, LenProperties
  <1>7. Types'
    <2>1. /\ hook' \in [Clients -> {"none", "registered", "fired", "unsubscribed", "done"}]
          /\ client' \in [Clients -> {"away", "connected", "gone"}]
      BY <1>2 DEF Connect, Types
    <2>2. pub' \in [pc : {"idle", "woken"} \cup Round, i : Nat, array : 0..Len(arrays'),
                    len : Nat]
      BY <1>2, <1>3, <1>4, <1>6 DEF Types
    <2>3. subs' \in [array : 0..Len(arrays'), len : Nat]
      BY <1>4, <1>6
    <2> QED
      BY <1>2, <1>3, <1>4, <2>1, <2>2, <2>3 DEF Types
  <1>8. Shape'
    <2>1. subs'.array # 0 /\ subs'.len <= Len(arrays'[subs'.array])
      BY <1>4
    <2>2. ASSUME Walking'
          PROVE  /\ pub'.array \in 1..Len(arrays') /\ 1 <= pub'.i /\ pub'.i <= pub'.len
                 /\ pub'.len <= Len(arrays'[pub'.array])
      <3>1. Walking /\ pub' = pub
        BY <1>3, <2>2 DEF Walking
      <3>2. /\ pub.array \in 1..Len(arrays) /\ 1 <= pub.i /\ pub.i <= pub.len
            /\ pub.len <= Len(arrays[pub.array]) /\ pub.len \in Nat
        BY <1>2, <3>1, CellType
      <3>3. Len(arrays[pub.array]) \in Nat /\ Len(arrays'[pub.array]) \in Nat
            /\ pub.array \in 1..Len(arrays')
        <4>1. pub.array \in 1..Len(arrays')
          <5>1. Len(arrays') >= Len(arrays)
            BY <1>4
          <5> QED
            BY <1>6, <3>2, <5>1
        <4>2. arrays'[pub.array] \in Seq(Cells)
          BY <1>4, <4>1, ElementOfSeq
        <4>3. Len(arrays[pub.array]) \in Nat
          BY <1>2, <3>2, ArrayTypes
        <4>4. Len(arrays'[pub.array]) \in Nat
          <5>1. PICK s : s = arrays'[pub.array]
            OBVIOUS
          <5>2. Len(s) \in Nat
            BY <4>2, <5>1, LenProperties
          <5> QED
            BY <5>1, <5>2
        <4> QED
          BY <4>1, <4>3, <4>4
      <3>4. pub.len <= Len(arrays'[pub.array])
        <4>1. Len(arrays'[pub.array]) >= Len(arrays[pub.array])
          BY <1>4, <3>2
        <4> QED
          BY <3>2, <3>3, <4>1
      <3> QED
        BY <3>1, <3>2, <3>3, <3>4
    <2> QED
      BY <2>1, <2>2 DEF Shape
  <1>9. CASE down
    BY <1>3, <1>7, <1>8, <1>9, DownStep
  <1>10. CASE ~down
    <2>1. Standing'
      <3>1. \A d \in Clients : hook'[d] \in {"none", "registered"}
        BY <1>2, <1>3, <1>10 DEF CountInv, Standing, Types
      <3>2. ASSUME Walking, pub.array = subs'.array PROVE pub.len <= subs'.len
        <4>1. pub.array \in 1..Len(arrays) /\ pub.len \in Nat
          BY <1>2, <3>2, CellType
        <4>2. pub.array = subs.array
          BY <1>4, <1>6, <3>2, <4>1
        <4>3. pub.len <= subs.len
          BY <1>10, <3>2, <4>2 DEF CountInv, Standing
        <4> QED
          BY <1>4, <1>6, <4>1, <4>3
      <3> QED
        BY <1>3, <3>1, <3>2 DEF Standing, Walking
    <2>2. Judged'
      <3>1. ASSUME Walking PROVE Cell' = Cell
        <4>1. pub.i \in 1..pub.len
          BY <1>2, <3>1, CellType
        <4>2. arrays'[pub.array][pub.i] = arrays[pub.array][pub.i]
          BY <1>1, <1>3, <1>10, <3>1, <4>1, WalkedStays
        <4> QED
          BY <1>3, <4>2 DEF Cell
      <3> SUFFICES ASSUME pub.pc \in {"dropping", "sending", "counting"} PROVE Judged'
        BY <1>3 DEF Judged
      <3>2. Cell' = Cell
        BY <3>1 DEF Walking, Round
      <3> QED
        BY <1>3, <1>10, <3>2 DEF CountInv, Judged, TooManyFails
    <2>3. Counted'
      <3> SUFFICES ASSUME NEW a \in 1..Len(arrays'), NEW k \in 1..Len(arrays'[a])
                   PROVE  arrays'[a][k].fails <= rejected'[arrays'[a][k].client]
        BY DEF Counted
      <3>1. CASE arrays'[a][k] = cell
        BY <1>1, <1>2, <1>3, <3>1 DEF Types
      <3>2. CASE arrays'[a][k] # cell
        BY <1>3, <1>5, <1>10, <3>2 DEF CountInv, Counted
      <3> QED
        BY <3>1, <3>2
    <2>4. DropNeedsFailures'
      <3>1. Subscribed \cup {c} \subseteq Subscribed'
        BY <1>1, <1>2, <1>3, AppendGrows
      <3>2. Dropped' \subseteq Dropped
        BY <1>2, <1>3, <3>1 DEF Dropped, Types
      <3> QED
        BY <1>3, <1>10, <3>2 DEF CountInv, DropNeedsFailures
    <2> QED
      BY <1>7, <1>8, <2>1, <2>2, <2>3, <2>4 DEF CountInv
  <1> QED
    BY <1>9, <1>10

LEMMA SnapshotCount == CountInv /\ Snapshot => CountInv'
PROOF
  <1> SUFFICES ASSUME CountInv, Snapshot PROVE CountInv'
    OBVIOUS
  <1>0. Types /\ Shape
    BY DEF CountInv
  <1>1. subs.len \in Nat /\ subs.array \in 0..Len(arrays) /\ Len(arrays) \in Nat
    BY <1>0, ArrayTypes
  <1>2. UNCHANGED <<updated, arrays, subs, out, client, hook, down, owed, passedOver,
                    rejected>>
    BY DEF Snapshot
  <1>3. \/ pub' = Idle
        \/ /\ pub' = [pc |-> "checking", i |-> 1, array |-> subs.array, len |-> subs.len]
           /\ 1 <= subs.len
    BY <1>1 DEF Snapshot, PastEnd
  <1>4. Types'
    BY <1>0, <1>1, <1>2, <1>3 DEF Types, Idle, Round
  <1>5. Shape' /\ Standing' /\ Judged'
    BY <1>0, <1>1, <1>2, <1>3
       DEF CountInv, Shape, Standing, Judged, Walking, Round, Idle
  <1>6. Counted' /\ DropNeedsFailures'
    BY <1>2 DEF CountInv, Counted, DropNeedsFailures, Dropped, Subscribed, CellsOf
  <1> QED
    BY <1>4, <1>5, <1>6 DEF CountInv

LEMMA CheckCount == CountInv /\ Check => CountInv'
PROOF
  <1> SUFFICES ASSUME CountInv, Check PROVE CountInv'
    OBVIOUS
  <1>0. Types /\ Shape /\ Walking
    BY DEF CountInv, Check, Walking, Round
  <1>1. UNCHANGED <<updated, arrays, subs, out, client, hook, down, owed, passedOver,
                    rejected>>
    BY DEF Check
  <1>2. PICK pc \in Round : /\ pub' = [pub EXCEPT !.pc = pc]
                            /\ pc = IF TooManyFails(Cell) THEN "dropping" ELSE "sending"
    BY DEF Check, Round
  <1>3. /\ pub' \in [pc : {"idle", "woken"} \cup Round, i : Nat, array : 0..Len(arrays),
                     len : Nat]
        /\ pub'.pc = pc /\ pub'.i = pub.i /\ pub'.array = pub.array
        /\ pub'.len = pub.len /\ Walking'
    BY <1>0, <1>2, WithinRound
  <1>4. Types'
    BY <1>0, <1>1, <1>3 DEF Types
  <1>5. Shape' /\ Standing'
    BY <1>0, <1>1, <1>3 DEF CountInv, Shape, Standing
  <1>6. Judged'
    <2>1. Cell' = Cell
      BY <1>1, <1>3 DEF Cell
    <2> QED
      BY <1>2, <1>3, <2>1 DEF Judged, TooManyFails
  <1>7. Counted' /\ DropNeedsFailures'
    BY <1>1 DEF CountInv, Counted, DropNeedsFailures, Dropped, Subscribed, CellsOf
  <1> QED
    BY <1>4, <1>5, <1>6, <1>7 DEF CountInv

LEMMA SendCount == CountInv /\ Send => CountInv'
PROOF
  <1> SUFFICES ASSUME CountInv, Send PROVE CountInv'
    OBVIOUS
  <1>0. Types /\ Shape /\ Walking
    BY DEF CountInv, Send, Walking, Round
  <1>1. /\ UNCHANGED <<updated, arrays, subs, client, hook, down, owed>>
        /\ passedOver' = passedOver \ {Cell.client}
    BY DEF Send
  <1>2. Cell.client \in Clients /\ Cell.fails \in Nat
    BY <1>0, CellType
  <1>3. rejected \in [Clients -> 0..(FailLimit + 1)]
    BY <1>0 DEF Types
  <1>4. PICK pc \in {"resetting", "counting"} :
          /\ pub' = [pub EXCEPT !.pc = pc]
          /\ pc = "resetting" => rejected' = rejected
          /\ pc = "counting" =>
               rejected' = [rejected EXCEPT ![Cell.client] =
                              IF @ > FailLimit THEN @ ELSE @ + 1]
    BY DEF Send
  <1>5. /\ rejected' \in [Clients -> 0..(FailLimit + 1)]
        /\ \A c \in Clients : rejected[c] <= rejected'[c]
        /\ pc = "counting" =>
             rejected'[Cell.client] = IF rejected[Cell.client] > FailLimit
                                        THEN rejected[Cell.client]
                                        ELSE rejected[Cell.client] + 1
    <2>1. CASE pc = "resetting"
      BY <1>3, <1>4, <2>1, LimitAssumption
    <2>2. CASE pc = "counting"
      <3> DEFINE n == IF rejected[Cell.client] > FailLimit THEN rejected[Cell.client]
                      ELSE rejected[Cell.client] + 1
      <3>1. rejected[Cell.client] \in 0..(FailLimit + 1) /\ FailLimit \in Nat
        BY <1>2, <1>3, LimitAssumption
      <3>2. n \in 0..(FailLimit + 1) /\ rejected[Cell.client] <= n
        BY <3>1
      <3>3. rejected' = [rejected EXCEPT ![Cell.client] = n]
        BY <1>4, <2>2
      <3> HIDE DEF n
      <3>4. /\ rejected' \in [Clients -> 0..(FailLimit + 1)] /\ rejected'[Cell.client] = n
            /\ \A c \in Clients : c # Cell.client => rejected'[c] = rejected[c]
        BY <1>2, <1>3, <3>2, <3>3
      <3>5. \A c \in Clients : rejected[c] <= rejected[c]
        BY <1>3, LimitAssumption
      <3>6. \A c \in Clients : rejected[c] <= rejected'[c]
        BY <3>2, <3>4, <3>5
      <3> QED
        BY <3>4, <3>6 DEF n
    <2> QED
      BY <1>4, <2>1, <2>2
  <1>6. /\ pub' \in [pc : {"idle", "woken"} \cup Round, i : Nat, array : 0..Len(arrays),
                     len : Nat]
        /\ pub'.pc = pc /\ pub'.i = pub.i /\ pub'.array = pub.array
        /\ pub'.len = pub.len /\ Walking'
    BY <1>0, <1>4, WithinRound DEF Round
  <1>7. Types'
    <2>1. out' \in [Clients -> {"empty", "update", "close"}]
      <3>1. out \in [Clients -> {"empty", "update", "close"}]
        BY <1>0 DEF Types
      <3>2. out' = out \/ out' = [out EXCEPT ![Cell.client] = "update"]
        BY DEF Send
      <3> QED
        BY <3>1, <3>2
    <2> QED
      BY <1>0, <1>1, <1>5, <1>6, <2>1 DEF Types
  <1>8. Shape' /\ Standing'
    BY <1>0, <1>1, <1>6 DEF CountInv, Shape, Standing
  <1>9. CASE down
    BY <1>1, <1>7, <1>8, <1>9, DownStep
  <1>10. CASE ~down
    <2>1. Judged'
      <3>1. Cell' = Cell
        BY <1>1, <1>6 DEF Cell
      <3>2. Cell.fails <= FailLimit
        BY <1>2, <1>10, LimitAssumption DEF CountInv, Judged, Send, TooManyFails
      <3>3. Cell.fails <= rejected[Cell.client]
        BY <1>0, <1>10, CellType DEF CountInv, Counted, Cell
      <3>4. pc = "counting" => Cell.fails < rejected'[Cell.client]
        BY <1>2, <1>3, <1>5, <3>2, <3>3, LimitAssumption
      <3>5. ~TooManyFails(Cell)
        BY <1>2, <3>2, LimitAssumption DEF TooManyFails
      <3>6. pub'.pc # "dropping"
        BY <1>6
      <3> QED
        BY <1>6, <3>1, <3>4, <3>5, <3>6 DEF Judged, TooManyFails
    <2>2. Counted'
      <3> SUFFICES ASSUME NEW a \in 1..Len(arrays), NEW k \in 1..Len(arrays[a])
                   PROVE  arrays[a][k].fails <= rejected'[arrays[a][k].client]
        BY <1>1 DEF Counted
      <3>1. arrays[a][k] \in Cells
        BY <1>0, ArrayTypes
      <3>2. PICK c \in Clients : c = arrays[a][k].client
        BY <3>1 DEF Cells
      <3>3. arrays[a][k].fails \in Nat /\ arrays[a][k].fails <= rejected[c]
        BY <1>10, <3>1, <3>2 DEF CountInv, Counted, Cells
      <3>4. rejected[c] \in Nat /\ rejected'[c] \in Nat /\ rejected[c] <= rejected'[c]
        BY <1>3, <1>5, LimitAssumption
      <3> QED
        BY <3>2, <3>3, <3>4
    <2>3. DropNeedsFailures'
      <3>1. Dropped' = Dropped
        BY <1>1 DEF Dropped, Subscribed, CellsOf
      <3> SUFFICES ASSUME NEW c \in Dropped PROVE rejected'[c] > FailLimit
        BY <3>1 DEF DropNeedsFailures
      <3>2. c \in Clients /\ rejected[c] > FailLimit /\ rejected[c] <= rejected'[c]
        BY <1>5, <1>10 DEF CountInv, DropNeedsFailures, Dropped
      <3>3. rejected[c] \in Int /\ rejected'[c] \in Int /\ FailLimit \in Int
        BY <1>3, <1>5, <3>2, LimitAssumption
      <3> QED
        BY <3>2, <3>3
    <2> QED
      BY <1>7, <1>8, <2>1, <2>2, <2>3 DEF CountInv
  <1> QED
    BY <1>9, <1>10

\* publish writes n and goes on.
LEMMA WriteCount ==
    ASSUME CountInv, Walking, NEW n \in Nat, Count(n), pub' = GoTo(pub.i + 1),
           UNCHANGED <<updated, subs, out, client, hook, down, owed, passedOver, rejected>>,
           ~down => n <= rejected[Cell.client]
    PROVE  CountInv'
PROOF
  <1>1. Types /\ Shape
    BY DEF CountInv
  <1>2. /\ arrays' \in Seq(Seq(Cells)) /\ Len(arrays') = Len(arrays)
        /\ \A a \in 1..Len(arrays) : Len(arrays'[a]) = Len(arrays[a])
    BY <1>1, CountFacts
  <1>3. Types'
    <2>1. pub' \in [pc : {"idle", "woken"} \cup Round, i : Nat, array : 0..Len(arrays'),
                    len : Nat]
      BY <1>1, <1>2, GoToFacts
    <2>2. subs' \in [array : 0..Len(arrays'), len : Nat]
      BY <1>1, <1>2 DEF Types
    <2> QED
      BY <1>1, <1>2, <2>1, <2>2 DEF Types
  <1>4. Shape'
    <2>1. /\ subs'.array = 0 => subs'.len = 0
          /\ subs'.array # 0 => subs'.len <= Len(arrays'[subs'.array])
      BY <1>1, <1>2, ArrayTypes DEF Shape
    <2>2. Walking' => /\ pub'.array \in 1..Len(arrays') /\ 1 <= pub'.i
                      /\ pub'.i <= pub'.len /\ pub'.len <= Len(arrays'[pub'.array])
      BY <1>1, <1>2, GoToFacts DEF Shape, Walking, Round, Idle
    <2> QED
      BY <2>1, <2>2 DEF Shape
  <1>5. Standing' /\ Judged'
    BY <1>1, GoToFacts DEF CountInv, Standing, Judged, Walking, Round, Idle
  <1>6. Counted'
    <2> SUFFICES ASSUME ~down, NEW a \in 1..Len(arrays), NEW k \in 1..Len(arrays[a])
                 PROVE  arrays'[a][k].fails <= rejected[arrays'[a][k].client]
      BY <1>2 DEF Counted
    <2>1. arrays[a][k] \in Cells
      BY <1>1, ArrayTypes
    <2>2. CASE a = pub.array /\ k = pub.i
      <3>1. arrays'[a][k] = [arrays[a][k] EXCEPT !.fails = n] /\ Cell = arrays[a][k]
        BY <1>1, <2>2, CountFacts DEF Cell
      <3>2. arrays'[a][k].fails = n /\ arrays'[a][k].client = Cell.client
        BY <2>1, <3>1 DEF Cells
      <3> QED
        BY <3>2
    <2>3. CASE ~(a = pub.array /\ k = pub.i)
      <3>1. arrays'[a][k] = arrays[a][k]
        BY <1>1, <2>3, CountFacts
      <3> QED
        BY <3>1 DEF CountInv, Counted
    <2> QED
      BY <2>2, <2>3
  <1>7. DropNeedsFailures'
    <2>1. Dropped' = Dropped
      BY <1>1, CountKeeps DEF Dropped
    <2> QED
      BY <2>1 DEF CountInv, DropNeedsFailures
  <1> QED
    BY <1>3, <1>4, <1>5, <1>6, <1>7 DEF CountInv

\* The list and the arrays after taking off a subscriber.
LEMMA LeaveTypes ==
    ASSUME Types, Shape, NEW c \in Clients, Unsubscribe(c), pub' = pub \/ pub' = Idle
    PROVE  /\ arrays' \in Seq(Seq(Cells)) /\ Len(arrays') = Len(arrays)
           /\ subs' \in [array : 0..Len(arrays'), len : Nat]
           /\ pub' \in [pc : {"idle", "woken"} \cup Round, i : Nat,
                        array : 0..Len(arrays'), len : Nat]
           /\ Shape'
PROOF
  <1>0. /\ arrays \in Seq(Seq(Cells)) /\ Len(arrays) \in Nat
        /\ subs \in [array : 0..Len(arrays), len : Nat] /\ subs.len \in Nat
        /\ pub' \in [pc : {"idle", "woken"} \cup Round, i : Nat, array : 0..Len(arrays),
                     len : Nat]
    BY ArrayTypes DEF Types, Idle
  <1>1. CASE c \notin Subscribed
    <2>1. UNCHANGED <<arrays, subs>>
      BY <1>1 DEF Unsubscribe
    <2> QED
      BY <1>0, <2>1, SameShape
  <1>2. CASE c \in Subscribed
    <2>1. /\ subs.array \in 1..Len(arrays) /\ subs.len >= 1
          /\ subs' = [subs EXCEPT !.len = @ - 1]
          /\ arrays' \in Seq(Seq(Cells)) /\ Len(arrays') = Len(arrays)
          /\ \A a \in 1..Len(arrays) : Len(arrays'[a]) = Len(arrays[a])
      BY <1>2, UnsubscribeFacts
    <2>2. subs'.array = subs.array /\ subs'.len = subs.len - 1 /\ subs.len - 1 \in Nat
          /\ subs' \in [array : 0..Len(arrays'), len : Nat]
      <3>1. subs' = [subs EXCEPT !.len = subs.len - 1]
        BY <2>1
      <3>2. subs.len - 1 \in Nat
        BY <1>0, <2>1
      <3>3. Len(arrays') = Len(arrays)
        BY <2>1
      <3> QED
        BY <1>0, <3>1, <3>2, <3>3
    <2>3. /\ subs'.array # 0
          /\ subs'.len <= Len(arrays'[subs'.array])
      <3>1. subs.array # 0 /\ subs.len <= Len(arrays[subs.array])
        BY <2>1 DEF Shape
      <3>2. Len(arrays[subs.array]) \in Nat
        BY <2>1, ArrayTypes
      <3>3. Len(arrays'[subs.array]) = Len(arrays[subs.array])
        BY <2>1
      <3> QED
        BY <1>0, <2>2, <3>1, <3>2, <3>3
    <2>4. Walking' => /\ pub'.array \in 1..Len(arrays') /\ 1 <= pub'.i
                      /\ pub'.i <= pub'.len /\ pub'.len <= Len(arrays'[pub'.array])
      BY <2>1 DEF Shape, Walking, Round, Idle
    <2> QED
      BY <1>0, <2>1, <2>2, <2>3, <2>4 DEF Shape
  <1> QED
    BY <1>1, <1>2

LEMMA AheadClients ==
    ASSUME Types, Shape
    PROVE  Ahead \subseteq Clients
PROOF
  <1> SUFFICES ASSUME Walking, NEW k \in FirstAhead..pub.len
               PROVE  arrays[pub.array][k].client \in Clients
    BY DEF Ahead
  <1>1. /\ pub.array \in 1..Len(arrays) /\ pub.i \in Nat /\ 1 <= pub.i /\ pub.len \in Nat
        /\ pub.len <= Len(arrays[pub.array]) /\ Len(arrays[pub.array]) \in Nat
    BY CellType
  <1>2. k \in 1..Len(arrays[pub.array])
    BY <1>1 DEF FirstAhead
  <1>3. arrays[pub.array][k] \in Cells
    BY <1>1, <1>2, ArrayTypes
  <1> QED
    BY <1>3 DEF Cells

LEMMA DropCount == CountInv /\ DropStale => CountInv'
PROOF
  <1> SUFFICES ASSUME CountInv, DropStale PROVE CountInv'
    OBVIOUS
  <1>0. Types /\ Shape /\ Walking
    BY DEF CountInv, DropStale, Walking, Round
  <1>1. /\ Unsubscribe(Cell.client) /\ pub' = Idle
        /\ UNCHANGED <<updated, out, client, hook, down, owed, rejected>>
        /\ passedOver' = passedOver \cup Ahead
    BY DEF DropStale
  <1>2. Cell.client \in Clients /\ Cell.fails \in Nat
    BY <1>0, CellType
  <1>3. Types' /\ Shape'
    <2>1. passedOver' \subseteq Clients
      BY <1>0, <1>1, AheadClients DEF Types
    <2> QED
      BY <1>0, <1>1, <1>2, <2>1, LeaveTypes DEF Types
  <1>4. CASE down
    BY <1>1, <1>3, <1>4, DownStep
  <1>5. CASE ~down
    <2>1. Standing' /\ Judged'
      BY <1>1 DEF CountInv, Standing, Judged, Walking, Round, Idle
    <2>2. rejected[Cell.client] > FailLimit
      <3>1. Cell.fails <= rejected[Cell.client]
        BY <1>0, <1>5, CellType DEF CountInv, Counted, Cell
      <3>2. Cell.fails > FailLimit
        BY <1>5 DEF CountInv, Judged, DropStale, TooManyFails
      <3>3. rejected[Cell.client] \in 0..(FailLimit + 1)
        BY <1>0, <1>2 DEF Types
      <3> QED
        BY <1>2, <3>1, <3>2, <3>3, LimitAssumption
    <2>3. CASE Cell.client \notin Subscribed
      <3>1. UNCHANGED <<arrays, subs>>
        BY <1>1, <2>3 DEF Unsubscribe
      <3>2. Counted' /\ DropNeedsFailures'
        BY <1>1, <3>1
           DEF CountInv, Counted, DropNeedsFailures, Dropped, Subscribed, CellsOf
      <3> QED
        BY <1>3, <2>1, <3>2 DEF CountInv
    <2>4. CASE Cell.client \in Subscribed
      <3>1. /\ \A a \in 1..Len(arrays') : \A k \in 1..Len(arrays'[a]) :
                 \E m \in 1..Len(arrays[a]) : arrays'[a][k] = arrays[a][m]
            /\ Subscribed \ {Cell.client} \subseteq Subscribed'
            /\ Len(arrays') = Len(arrays)
        BY <1>0, <1>1, <2>4, UnsubscribeKeeps, UnsubscribeFacts
      <3>2. Counted'
        BY <1>1, <3>1 DEF CountInv, Counted
      <3>3. Dropped' \subseteq Dropped \cup {Cell.client}
        BY <1>1, <3>1 DEF Dropped
      <3>4. DropNeedsFailures'
        BY <1>1, <2>2, <3>3 DEF CountInv, DropNeedsFailures
      <3> QED
        BY <1>3, <2>1, <3>2, <3>4 DEF CountInv
    <2> QED
      BY <2>3, <2>4
  <1> QED
    BY <1>4, <1>5

LEMMA StepCount == CountInv /\ [Next]_vars => CountInv'
PROOF
  <1> SUFFICES ASSUME CountInv, [Next]_vars PROVE CountInv'
    OBVIOUS
  <1>0. Types /\ Shape
    BY DEF CountInv
  <1>1. CASE Change
    <2>1. Subscribed \subseteq Clients
      <3>1. \A k \in 1..subs.len : k \in 1..Len(arrays[subs.array])
                                   /\ subs.array \in 1..Len(arrays)
        BY <1>0, ArrayTypes DEF Shape
      <3>2. \A k \in 1..subs.len : arrays[subs.array][k] \in Cells
        BY <1>0, <3>1, ArrayTypes
      <3> QED
        BY <1>0, <3>2, SubscribedCells DEF Cells
    <2>2. Types'
      BY <1>0, <1>1, <2>1 DEF Change, Types
    <2> QED
      BY <1>1, <2>2, QuietStep DEF Change
  <1>2. ASSUME NEW c \in Clients, Connect(c) PROVE CountInv'
    BY <1>2, ConnectCount
  <1>3. ASSUME NEW c \in Clients, Fetch(c) PROVE CountInv'
    <2>1. Types'
      BY <1>0, <1>3 DEF Fetch, Types
    <2> QED
      BY <1>3, <2>1, QuietStep DEF Fetch
  <1>4. ASSUME NEW c \in Clients, Leave(c) PROVE CountInv'
    <2>1. Types'
      BY <1>0, <1>4 DEF Leave, Types
    <2> QED
      BY <1>4, <2>1, QuietStep DEF Leave
  <1>5. CASE TakeUpdate
    <2>1. /\ pub' = [pub EXCEPT !.pc = "woken"] /\ updated' = FALSE
          /\ UNCHANGED <<arrays, subs, out, client, hook, down, owed, passedOver, rejected>>
      BY <1>5 DEF TakeUpdate
    <2>2. /\ pub' \in [pc : {"idle", "woken"} \cup Round, i : Nat, array : 0..Len(arrays),
                       len : Nat]
          /\ pub'.pc = "woken"
      BY <1>0, <2>1 DEF Types
    <2>3. Types'
      BY <1>0, <2>1, <2>2 DEF Types
    <2>4. Shape' /\ Standing' /\ Judged'
      BY <2>1, <2>2 DEF CountInv, Shape, Standing, Judged, Walking, Round
    <2>5. Counted' /\ DropNeedsFailures'
      BY <2>1 DEF CountInv, Counted, DropNeedsFailures, Dropped, Subscribed, CellsOf
    <2> QED
      BY <2>3, <2>4, <2>5 DEF CountInv
  <1>6. CASE Snapshot
    BY <1>6, SnapshotCount
  <1>7. CASE Check
    BY <1>7, CheckCount
  <1>8. CASE Send
    BY <1>8, SendCount
  <1>9. CASE Reset
    <2>1. Walking /\ Cell.client \in Clients
      BY <1>0, <1>9, CellType DEF Reset, Walking, Round
    <2>2. 0 \in Nat /\ 0 <= rejected[Cell.client]
      BY <1>0, <2>1, LimitAssumption DEF Types
    <2> QED
      BY <1>9, <2>1, <2>2, WriteCount DEF Reset
  <1>10. CASE CountFail
    <2>1. Walking /\ Cell.client \in Clients /\ Cell.fails \in Nat
      BY <1>0, <1>10, CellType DEF CountFail, Walking, Round
    <2>2. rejected[Cell.client] \in Nat
      BY <1>0, <2>1, LimitAssumption DEF Types
    <2>3. Cell.fails + 1 \in Nat /\ (~down => Cell.fails + 1 <= rejected[Cell.client])
      BY <1>10, <2>1, <2>2 DEF CountFail, CountInv, Judged
    <2> QED
      BY <1>10, <2>1, <2>3, WriteCount DEF CountFail
  <1>11. CASE DropStale
    BY <1>11, DropCount
  <1>12. CASE FireHooks
    <2>1. Types'
      BY <1>0, <1>12 DEF FireHooks, Types
    <2> QED
      BY <1>0, <1>12, <2>1, SameShape, DownStep DEF FireHooks
  <1>13. ASSUME NEW c \in Clients, HookUnsubscribe(c) PROVE CountInv'
    <2>1. /\ Unsubscribe(c) /\ hook' = [hook EXCEPT ![c] = "unsubscribed"]
          /\ UNCHANGED <<updated, pub, out, client, down, owed, passedOver, rejected>>
      BY <1>13 DEF HookUnsubscribe
    <2>2. Types' /\ Shape'
      <3>1. hook' \in [Clients -> {"none", "registered", "fired", "unsubscribed", "done"}]
        BY <1>0, <2>1 DEF Types
      <3> QED
        BY <1>0, <2>1, <3>1, LeaveTypes DEF Types
    <2>3. down'
      BY <1>0, <1>13 DEF HookUnsubscribe, CountInv, Standing, Types
    <2> QED
      BY <2>2, <2>3, DownStep
  <1>14. ASSUME NEW c \in Clients, HookClose(c) PROVE CountInv'
    <2>1. Types'
      BY <1>0, <1>14 DEF HookClose, Types
    <2>2. down'
      BY <1>0, <1>14 DEF HookClose, CountInv, Standing, Types
    <2> QED
      BY <1>0, <1>14, <2>1, <2>2, SameShape, DownStep DEF HookClose
  <1>15. CASE UNCHANGED vars
    <2>1. Types'
      BY <1>0, <1>15 DEF vars, Types
    <2> QED
      BY <1>15, <2>1, QuietStep DEF vars
  <1> QED
    BY <1>1, <1>2, <1>3, <1>4, <1>5, <1>6, <1>7, <1>8, <1>9, <1>10, <1>11, <1>12,
       <1>13, <1>14, <1>15 DEF Next, Publish

THEOREM CountInvariant == Spec => []CountInv
PROOF
  <1>1. Init => CountInv
    BY InitCount
  <1>2. CountInv /\ [Next]_vars => CountInv'
    BY StepCount
  <1> QED
    BY <1>1, <1>2, PTL DEF Spec

\* The components keep their types, and until the shutdown no count goes further
\* than one past the failures that are forgiven.
THEOREM TypeCorrect == Spec => []TypeOK
PROOF
  <1>1. CountInv => TypeOK
    <2> SUFFICES ASSUME CountInv, ~down,
                        NEW a \in 1..Len(arrays), NEW k \in 1..Len(arrays[a])
                 PROVE  arrays[a][k].fails <= FailLimit + 1
      BY DEF CountInv, TypeOK, CountsBounded
    <2>1. arrays[a][k] \in Cells
      BY ArrayTypes DEF CountInv
    <2>2. PICK c \in Clients : c = arrays[a][k].client
      BY <2>1 DEF Cells
    <2>3. arrays[a][k].fails \in Nat /\ arrays[a][k].fails <= rejected[c]
      BY <2>1, <2>2 DEF CountInv, Counted, Cells
    <2>4. rejected[c] \in 0..(FailLimit + 1)
      BY DEF CountInv, Types
    <2> QED
      BY <2>3, <2>4, LimitAssumption
  <1> QED
    BY <1>1, CountInvariant, PTL

\* Until the shutdown nobody is dropped before more than FailLimit sends in all
\* have found its channel full, although publish reads the cell again for the
\* check, the send, the count and the drop, subscribe may copy a count while
\* publish changes it, and publish may write to an array the list has left.
THEOREM DropsCorrect == Spec => []DropNeedsFailures
PROOF
  <1>1. CountInv => DropNeedsFailures
    BY DEF CountInv
  <1> QED
    BY <1>1, CountInvariant, PTL

-----------------------------------------------------------------------------
(* A subscription ends by its own hook, or because it is stale. *)

LEMMA StepExit ==
    ASSUME CountInv, Next
    PROVE  \A c \in Subscribed \ Subscribed' :
             \/ HookUnsubscribe(c)
             \/ DropStale /\ Cell.client = c /\ (TooManyFails(Cell) \/ down)
PROOF
  <1>0. Types /\ Shape
    BY DEF CountInv
  <1>1. CASE UNCHANGED <<arrays, subs>>
    BY <1>1 DEF Subscribed, CellsOf
  <1>2. ASSUME NEW c \in Clients, Connect(c) PROVE Subscribed \subseteq Subscribed'
    <2>1. [client |-> c, fails |-> 0] \in Cells
      BY DEF Cells
    <2>2. AppendCell([client |-> c, fails |-> 0])
      BY <1>2 DEF Connect
    <2> QED
      BY <1>0, <2>1, <2>2, AppendGrows
  <1>3. CASE Reset
    <2>1. Walking /\ 0 \in Nat /\ Count(0) /\ UNCHANGED subs
      BY <1>3 DEF Reset, Walking, Round
    <2>2. Subscribed' = Subscribed
      BY <1>0, <2>1, CountKeeps
    <2> QED
      BY <2>2
  <1>4. CASE CountFail
    <2>1. Walking /\ Count(Cell.fails + 1) /\ UNCHANGED subs
      BY <1>4 DEF CountFail, Walking, Round
    <2>2. Cell.fails + 1 \in Nat
      BY <1>0, <2>1, CellType
    <2>3. Subscribed' = Subscribed
      BY <1>0, <2>1, <2>2, CountKeeps
    <2> QED
      BY <2>3
  <1>5. CASE DropStale
    <2>1. Unsubscribe(Cell.client) /\ (TooManyFails(Cell) \/ down)
      BY <1>5 DEF DropStale, CountInv, Judged
    <2>2. CASE Cell.client \in Subscribed
      <3>1. Subscribed \ {Cell.client} \subseteq Subscribed'
        BY <1>0, <2>1, <2>2, UnsubscribeKeeps
      <3> QED
        BY <1>5, <2>1, <3>1
    <2>3. CASE Cell.client \notin Subscribed
      BY <1>1, <2>1, <2>3 DEF Unsubscribe
    <2> QED
      BY <2>2, <2>3
  <1>6. ASSUME NEW c \in Clients, HookUnsubscribe(c)
        PROVE  Subscribed \ {c} \subseteq Subscribed'
    <2>1. Unsubscribe(c)
      BY <1>6 DEF HookUnsubscribe
    <2>2. CASE c \in Subscribed
      BY <1>0, <2>1, <2>2, UnsubscribeKeeps
    <2>3. CASE c \notin Subscribed
      BY <2>1, <2>3 DEF Unsubscribe, Subscribed, CellsOf
    <2> QED
      BY <2>2, <2>3
  <1>7. CASE \E c \in Clients : HookUnsubscribe(c)
    BY <1>6, <1>7
  <1>8. CASE \E c \in Clients : Connect(c)
    BY <1>2, <1>8
  <1>9. CASE \/ Change \/ TakeUpdate \/ Snapshot \/ Check \/ Send \/ FireHooks
             \/ \E c \in Clients : Fetch(c) \/ Leave(c) \/ HookClose(c)
    BY <1>1, <1>9
       DEF Change, TakeUpdate, Snapshot, Check, Send, FireHooks, Fetch, Leave, HookClose
  <1> QED
    BY <1>3, <1>4, <1>5, <1>7, <1>8, <1>9 DEF Next, Publish

\* Removing a cell of the array the lists share never takes another subscriber
\* off the list, whoever walks it meanwhile: a subscription ends by its own hook
\* or by a publish that reads it in the cell it drops, which until the shutdown
\* is the stale one it has checked.
THEOREM ExitCorrect == Spec => OnlyOwnExit
PROOF
  <1>1. CountInv /\ [Next]_vars =>
          [\A c \in Subscribed \ Subscribed' :
             \/ HookUnsubscribe(c)
             \/ DropStale /\ Cell.client = c /\ (TooManyFails(Cell) \/ down)]_vars
    BY StepExit
  <1> QED
    BY <1>1, CountInvariant, PTL DEF Spec, OnlyOwnExit

-----------------------------------------------------------------------------
(* No change is lost. *)

\* Until the shutdown nobody closes a connection's channel; whoever is owed the
\* rows is on the list, unless its message is out or it has been passed over.
OwedInv ==
    ~down => /\ \A c \in Clients : out[c] # "close"
             /\ \A c \in owed : c \in Subscribed \/ out[c] = "update" \/ c \in passedOver

NewsInv == OwedInv /\ NewsOnTheWay

LEMMA InitNews == Init => NewsInv
PROOF
  BY DEF Init, NewsInv, OwedInv, NewsOnTheWay

\* A step that leaves the list, the walk and the connections as they are.
LEMMA SameNews ==
    ASSUME NewsInv, UNCHANGED <<arrays, subs, pub, out, down, passedOver>>,
           owed' \subseteq owed, updated => updated'
    PROVE  NewsInv'
PROOF
  <1>1. Subscribed' = Subscribed /\ Ahead' = Ahead
    BY DEF Subscribed, CellsOf, Ahead, FirstAhead, Walking
  <1>2. OwedInv'
    BY <1>1 DEF NewsInv, OwedInv
  <1>3. NewsOnTheWay'
    BY <1>1 DEF NewsInv, NewsOnTheWay
  <1> QED
    BY <1>2, <1>3 DEF NewsInv

\* A step of publish behind which everybody that was ahead still is.
LEMMA AheadNews ==
    ASSUME NewsInv, Walking, Ahead \subseteq Ahead', Subscribed' = Subscribed,
           UNCHANGED <<updated, out, down, owed, passedOver>>
    PROVE  NewsInv'
PROOF
  <1>1. OwedInv'
    BY DEF NewsInv, OwedInv
  <1>2. NewsOnTheWay'
    <2>1. pub.pc # "woken"
      BY DEF Walking, Round
    <2> QED
      BY <2>1 DEF NewsInv, NewsOnTheWay
  <1> QED
    BY <1>1, <1>2 DEF NewsInv

\* publish has written its count and goes on.
LEMMA WriteNews ==
    ASSUME CountInv, NewsInv, pub.pc \in {"resetting", "counting"}, NEW n \in Nat,
           Count(n), pub' = GoTo(pub.i + 1),
           UNCHANGED <<updated, subs, out, down, owed, passedOver>>
    PROVE  NewsInv'
PROOF
  <1>0. Types /\ Shape /\ Walking
    BY DEF CountInv, Walking, Round
  <1>1. Subscribed' = Subscribed
    BY <1>0, CountKeeps
  <1>2. /\ pub.array \in 1..Len(arrays) /\ pub.i \in Nat /\ 1 <= pub.i
        /\ pub.len \in Nat /\ pub.len <= Len(arrays[pub.array])
        /\ Len(arrays[pub.array]) \in Nat
    BY <1>0, CellType
  <1>3. Ahead \subseteq Ahead'
    <2> SUFFICES ASSUME NEW k \in (pub.i + 1)..pub.len
                 PROVE  arrays[pub.array][k].client \in Ahead'
      BY <1>0 DEF Ahead, FirstAhead
    <2>1. k \in 1..Len(arrays[pub.array]) /\ pub.i # pub.len
      BY <1>2
    <2>2. /\ pub'.pc = "checking" /\ pub'.array = pub.array /\ pub'.len = pub.len
          /\ pub'.i = pub.i + 1
      BY <1>0, <2>1, GoToFacts
    <2>3. Ahead' = {arrays'[pub.array][m].client : m \in (pub.i + 1)..pub.len}
      BY <2>2 DEF Ahead, FirstAhead, Walking, Round
    <2>4. arrays'[pub.array][k].client = arrays[pub.array][k].client
      BY <1>0, <1>2, <2>1, CountKeeps
    <2> QED
      BY <2>3, <2>4
  <1> QED
    BY <1>0, <1>1, <1>3, AheadNews

\* The send is done or given up, and the one it went to has its message.
LEMMA SendNews == CountInv /\ NewsInv /\ Send => NewsInv'
PROOF
  <1> SUFFICES ASSUME CountInv, NewsInv, Send PROVE NewsInv'
    OBVIOUS
  <1>0. Types /\ Shape /\ Walking
    BY DEF CountInv, Send, Walking, Round
  <1>1. /\ UNCHANGED <<updated, arrays, subs, down, owed>>
        /\ passedOver' = passedOver \ {Cell.client}
    BY DEF Send
  <1>2. Cell.client \in Clients /\ owed \subseteq Clients
    BY <1>0, CellType DEF Types
  <1>3. \/ out' = [out EXCEPT ![Cell.client] = "update"]
        \/ out' = out /\ out[Cell.client] # "empty"
    BY DEF Send, Full
  <1>4. /\ ~down => out'[Cell.client] = "update"
        /\ \A c \in Clients : c # Cell.client => out'[c] = out[c]
    <2>1. out \in [Clients -> {"empty", "update", "close"}]
      BY <1>0 DEF Types
    <2>2. ~down => out[Cell.client] # "close"
      BY <1>2 DEF NewsInv, OwedInv
    <2> QED
      BY <1>2, <1>3, <2>1, <2>2
  <1>5. Subscribed' = Subscribed
    BY <1>1 DEF Subscribed, CellsOf
  <1>6. OwedInv'
    <2> SUFFICES ASSUME ~down
                 PROVE  /\ \A c \in Clients : out'[c] # "close"
                        /\ \A c \in owed :
                             c \in Subscribed' \/ out'[c] = "update" \/ c \in passedOver'
      BY <1>1 DEF OwedInv
    <2>1. \A c \in Clients : out'[c] # "close"
      BY <1>4 DEF NewsInv, OwedInv
    <2>2. \A c \in owed : c \in Subscribed' \/ out'[c] = "update" \/ c \in passedOver'
      BY <1>1, <1>2, <1>4, <1>5 DEF NewsInv, OwedInv
    <2> QED
      BY <2>1, <2>2
  <1>7. Ahead \subseteq Ahead' \cup {Cell.client}
    <2>1. PICK pc \in {"resetting", "counting"} : pub' = [pub EXCEPT !.pc = pc]
      BY DEF Send
    <2>2. /\ pub'.pc = pc /\ pub'.i = pub.i /\ pub'.array = pub.array
          /\ pub'.len = pub.len /\ Walking'
      BY <1>0, <2>1, WithinRound DEF Round
    <2>3. Ahead' = {arrays[pub.array][k].client : k \in (pub.i + 1)..pub.len}
      BY <1>1, <2>2 DEF Ahead, FirstAhead
    <2>4. Ahead = {arrays[pub.array][k].client : k \in pub.i..pub.len}
      BY <1>0 DEF Ahead, FirstAhead, Send
    <2>5. pub.i \in Nat /\ pub.len \in Nat
      BY <1>0, CellType
    <2>6. \A k \in pub.i..pub.len : k = pub.i \/ k \in (pub.i + 1)..pub.len
      BY <2>5
    <2> QED
      BY <2>3, <2>4, <2>6 DEF Cell
  <1>8. NewsOnTheWay'
    <2> SUFFICES ASSUME ~down, NEW c \in owed
                 PROVE  \/ updated \/ c \in Ahead' \/ out'[c] = "update"
                        \/ c \in passedOver'
      BY <1>1 DEF NewsOnTheWay
    <2>1. CASE c = Cell.client
      BY <1>4, <2>1
    <2>2. CASE c # Cell.client
      <3>1. pub.pc # "woken"
        BY DEF Send
      <3>2. updated \/ c \in Ahead \/ out[c] = "update" \/ c \in passedOver
        BY <3>1 DEF NewsInv, NewsOnTheWay
      <3> QED
        BY <1>1, <1>2, <1>4, <1>7, <2>2, <3>2
    <2> QED
      BY <2>1, <2>2
  <1> QED
    BY <1>6, <1>8 DEF NewsInv

\* A new subscriber: publish goes on in its own array, or in the part of the
\* shared one that subscribe does not write.
LEMMA ConnectNews ==
    ASSUME CountInv, NewsInv, NEW c \in Clients, Connect(c)
    PROVE  NewsInv'
PROOF
  <1> DEFINE cell == [client |-> c, fails |-> 0]
  <1>0. Types /\ Shape
    BY DEF CountInv
  <1>1. cell \in Cells
    BY DEF Cells
  <1> HIDE DEF cell
  <1>2. AppendCell(cell) /\ UNCHANGED <<updated, pub, out, down, owed, passedOver>>
    BY DEF Connect, cell
  <1>3. Subscribed \subseteq Subscribed'
    BY <1>0, <1>1, <1>2, AppendGrows
  <1> SUFFICES ASSUME ~down PROVE NewsInv'
    BY <1>2 DEF NewsInv, OwedInv, NewsOnTheWay
  <1>4. OwedInv'
    BY <1>2, <1>3 DEF NewsInv, OwedInv
  <1>5. Ahead' = Ahead
    <2>1. CASE ~Walking
      BY <1>2, <2>1 DEF Ahead, Walking
    <2>2. CASE Walking
      <3>1. ASSUME NEW k \in FirstAhead..pub.len
            PROVE  arrays'[pub.array][k] = arrays[pub.array][k]
        <4>1. pub.i \in Nat /\ 1 <= pub.i /\ pub.len \in Nat
          BY <1>0, <2>2, CellType
        <4>2. k \in 1..pub.len
          BY <4>1 DEF FirstAhead
        <4> QED
          BY <1>1, <1>2, <2>2, <4>2, WalkedStays
      <3> QED
        BY <1>2, <2>2, <3>1 DEF Ahead, FirstAhead, Walking
    <2> QED
      BY <2>1, <2>2
  <1>6. NewsOnTheWay'
    BY <1>2, <1>5 DEF NewsInv, NewsOnTheWay
  <1> QED
    BY <1>4, <1>6 DEF NewsInv

LEMMA SnapshotNews == CountInv /\ NewsInv /\ Snapshot => NewsInv'
PROOF
  <1> SUFFICES ASSUME CountInv, NewsInv, Snapshot PROVE NewsInv'
    OBVIOUS
  <1>0. Types /\ Shape
    BY DEF CountInv
  <1>1. Subscribed' = Subscribed
    BY DEF Snapshot, Subscribed, CellsOf
  <1>2. subs.len \in Nat /\ UNCHANGED <<updated, arrays, subs, out, hook, down, owed, passedOver>>
    BY <1>0, ArrayTypes DEF Snapshot
  <1>3. OwedInv'
    BY <1>1, <1>2 DEF NewsInv, OwedInv
  <1>4. Subscribed \subseteq Ahead'
    <2>1. CASE 1 > subs.len
      BY <1>2, <2>1 DEF Subscribed
    <2>2. CASE ~(1 > subs.len)
      <3>1. pub' = [pc |-> "checking", i |-> 1, array |-> subs.array, len |-> subs.len]
        BY <2>2 DEF Snapshot, PastEnd
      <3>2. Ahead' = {arrays[subs.array][k].client : k \in 1..subs.len}
        BY <1>2, <3>1 DEF Ahead, FirstAhead, Walking, Round
      <3> QED
        BY <1>0, <3>2, SubscribedCells
    <2> QED
      BY <2>1, <2>2
  <1>5. NewsOnTheWay'
    BY <1>2, <1>4 DEF NewsInv, OwedInv, NewsOnTheWay
  <1> QED
    BY <1>3, <1>5 DEF NewsInv

\* The drop passes over whoever the publish had not visited.
LEMMA DropNews == CountInv /\ NewsInv /\ DropStale => NewsInv'
PROOF
  <1> SUFFICES ASSUME CountInv, NewsInv, DropStale PROVE NewsInv'
    OBVIOUS
  <1>0. Types /\ Shape /\ Walking
    BY DEF CountInv, DropStale, Walking, Round
  <1>1. /\ Unsubscribe(Cell.client) /\ passedOver' = passedOver \cup Ahead
        /\ UNCHANGED <<updated, out, client, hook, down, owed, rejected>>
    BY DEF DropStale
  <1>2. Subscribed \ {Cell.client} \subseteq Subscribed'
    <2>1. CASE Cell.client \in Subscribed
      BY <1>0, <1>1, <2>1, UnsubscribeKeeps
    <2>2. CASE Cell.client \notin Subscribed
      BY <1>1, <2>2 DEF Unsubscribe, Subscribed, CellsOf
    <2> QED
      BY <2>1, <2>2
  <1>3. Cell.client \in Ahead
    <2>1. pub.i \in pub.i..pub.len
      BY <1>0, CellType
    <2> QED
      BY <1>0, <2>1 DEF Ahead, FirstAhead, DropStale, Cell
  <1>4. OwedInv'
    BY <1>1, <1>2, <1>3 DEF NewsInv, OwedInv
  <1>5. NewsOnTheWay'
    BY <1>0, <1>1 DEF NewsInv, NewsOnTheWay, Walking, Round
  <1> QED
    BY <1>4, <1>5 DEF NewsInv

LEMMA StepNews == CountInv /\ NewsInv /\ [Next]_vars => NewsInv'
PROOF
  <1> SUFFICES ASSUME CountInv, NewsInv, [Next]_vars PROVE NewsInv'
    OBVIOUS
  <1>0. Types /\ Shape /\ Standing /\ OwedInv /\ NewsOnTheWay
    BY DEF CountInv, NewsInv
  <1>1. CASE Change
    <2>1. Subscribed' = Subscribed
      BY <1>1 DEF Change, Subscribed, CellsOf
    <2>2. OwedInv'
      BY <1>0, <1>1, <2>1 DEF Change, OwedInv
    <2>3. NewsOnTheWay'
      BY <1>1 DEF Change, NewsOnTheWay
    <2> QED
      BY <2>2, <2>3 DEF NewsInv
  <1>2. ASSUME NEW c \in Clients, Connect(c) PROVE NewsInv'
    BY <1>2, ConnectNews
  <1>3. ASSUME NEW c \in Clients, Fetch(c) PROVE NewsInv'
    <2>1. Subscribed' = Subscribed /\ Ahead' = Ahead
      BY <1>3 DEF Fetch, Subscribed, CellsOf, Ahead, FirstAhead, Walking
    <2>2. \A d \in owed' : d # c /\ out'[d] = out[d]
      BY <1>0, <1>3 DEF Fetch, Types
    <2>3. \A d \in Clients : out'[d] # "close" \/ out[d] = "close"
      BY <1>0, <1>3 DEF Fetch, Types
    <2>4. OwedInv'
      BY <1>0, <1>3, <2>1, <2>2, <2>3 DEF Fetch, OwedInv
    <2>5. NewsOnTheWay'
      BY <1>0, <1>3, <2>1, <2>2 DEF Fetch, NewsOnTheWay
    <2> QED
      BY <2>4, <2>5 DEF NewsInv
  <1>4. ASSUME NEW c \in Clients, Leave(c) PROVE NewsInv'
    BY <1>4, SameNews DEF Leave
  <1>5. CASE TakeUpdate
    <2>1. Subscribed' = Subscribed /\ pub'.pc = "woken"
      BY <1>0, <1>5 DEF TakeUpdate, Subscribed, CellsOf, Types
    <2>2. OwedInv'
      BY <1>0, <1>5, <2>1 DEF TakeUpdate, OwedInv
    <2>3. NewsOnTheWay'
      BY <2>1 DEF NewsOnTheWay
    <2> QED
      BY <2>2, <2>3 DEF NewsInv
  <1>6. CASE Snapshot
    BY <1>6, SnapshotNews
  <1>7. CASE Check
    <2>1. Walking /\ UNCHANGED <<updated, arrays, subs, out, down, owed, passedOver>>
      BY <1>7 DEF Check, Walking, Round
    <2>2. PICK pc \in {"dropping", "sending"} : pub' = [pub EXCEPT !.pc = pc]
      BY <1>7 DEF Check
    <2>3. /\ pub'.pc = pc /\ pub'.i = pub.i /\ pub'.array = pub.array
          /\ pub'.len = pub.len /\ Walking'
      BY <1>0, <2>1, <2>2, WithinRound DEF Round
    <2>4. Ahead' = Ahead /\ Subscribed' = Subscribed
      BY <1>7, <2>1, <2>3 DEF Check, Ahead, FirstAhead, Subscribed, CellsOf
    <2> QED
      BY <2>1, <2>4, AheadNews
  <1>8. CASE Send
    BY <1>8, SendNews
  <1>9. CASE Reset
    <2>1. 0 \in Nat
      OBVIOUS
    <2> QED
      BY <1>9, <2>1, WriteNews DEF Reset
  <1>10. CASE CountFail
    <2>1. Walking
      BY <1>10 DEF CountFail, Walking, Round
    <2>2. Cell.fails + 1 \in Nat
      BY <1>0, <2>1, CellType
    <2> QED
      BY <1>10, <2>2, WriteNews DEF CountFail
  <1>11. CASE DropStale
    BY <1>11, DropNews
  <1>12. CASE FireHooks
    BY <1>12 DEF FireHooks, NewsInv, OwedInv, NewsOnTheWay
  <1>13. ASSUME NEW c \in Clients, HookUnsubscribe(c) \/ HookClose(c) PROVE NewsInv'
    <2>1. hook[c] \in {"fired", "unsubscribed"} /\ down' = down
      BY <1>13 DEF HookUnsubscribe, HookClose
    <2>2. down'
      BY <1>0, <2>1 DEF Standing
    <2> QED
      BY <2>2 DEF NewsInv, OwedInv, NewsOnTheWay
  <1>14. CASE UNCHANGED vars
    BY <1>14, SameNews DEF vars
  <1> QED
    BY <1>1, <1>2, <1>3, <1>4, <1>5, <1>6, <1>7, <1>8, <1>9, <1>10, <1>11, <1>12,
       <1>13, <1>14 DEF Next, Publish

\* Signals may be merged in the manager's channel and in a connection's, but no
\* change is lost: until the shutdown, a page that is owed the rows has a signal, a
\* publish or a message still ahead of it, unless a publish that dropped a
\* subscriber passed it over.
THEOREM NewsCorrect == Spec => []NewsOnTheWay
PROOF
  <1>1. Init => NewsInv
    BY InitNews
  <1>2. CountInv /\ NewsInv /\ [Next]_vars => NewsInv'
    BY StepNews
  <1>3. NewsInv => NewsOnTheWay
    BY DEF NewsInv
  <1> QED
    BY <1>1, <1>2, <1>3, CountInvariant, PTL DEF Spec

=============================================================================
