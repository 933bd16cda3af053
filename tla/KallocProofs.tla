---------------------------- MODULE KallocProofs ----------------------------
(***************************************************************************)
(* The allocator, for every pool, page, header and set of lengths: as long  *)
(* as no owner has written over the header of a free run, the free list     *)
(* stays sorted and joined, memory is neither lost nor given twice, and     *)
(* Allocator's promise is kept.                                             *)
(***************************************************************************)
EXTENDS Kalloc, SequenceTheorems, WellFoundedInduction, TLAPS


\* A set of naturals has a least element.
LEMMA Least ==
  ASSUME NEW T, T \subseteq Nat, T # {}
  PROVE  \E x \in T : \A y \in T : x <= y
<1> DEFINE R == {ss \in Nat \X Nat : ss[1] < ss[2]}
<1>1. IsWellFoundedOn(R, Nat)
  BY NatLessThanWellFounded, Zenon DEF OpToRel
<1> HIDE DEF R
<1>2. PICK x \in T : \A y \in T : ~(<<y, x>> \in R)
  BY <1>1, WFMin
<1>3. \A y \in T : ~(y < x)
  BY <1>2 DEF R
<1> QED BY <1>3

\* Lists of two and of three parts.
LEMMA AppendOnce ==
  ASSUME NEW S, NEW a \in Seq(S), NEW d \in Seq(S)
  PROVE  /\ a \o d \in Seq(S)
         /\ Len(a \o d) = Len(a) + Len(d)
         /\ \A k \in 1..Len(a) : (a \o d)[k] = a[k]
         /\ \A k \in 1..Len(d) : (a \o d)[Len(a) + k] = d[k]
<1>1. Len(a) \in Nat /\ Len(d) \in Nat
  BY LenProperties
<1> QED BY <1>1

\* The same with one element in between.
LEMMA AppendTwice ==
  ASSUME NEW S, NEW a \in Seq(S), NEW x \in S, NEW d \in Seq(S)
  PROVE  /\ a \o <<x>> \o d \in Seq(S)
         /\ Len(a \o <<x>> \o d) = Len(a) + 1 + Len(d)
         /\ \A k \in 1..Len(a) : (a \o <<x>> \o d)[k] = a[k]
         /\ (a \o <<x>> \o d)[Len(a) + 1] = x
         /\ \A k \in 1..Len(d) : (a \o <<x>> \o d)[Len(a) + 1 + k] = d[k]
<1>1. <<x>> \in Seq(S) /\ Len(<<x>>) = 1 /\ <<x>>[1] = x /\ Len(a) \in Nat /\ Len(d) \in Nat
  BY LenProperties
<1> DEFINE b == a \o <<x>>
<1>2. /\ b \in Seq(S)
      /\ Len(b) = Len(a) + 1
      /\ \A k \in 1..Len(a) : b[k] = a[k]
      /\ b[Len(a) + 1] = x
  BY <1>1
<1> HIDE DEF b
<1>3. /\ b \o d \in Seq(S)
      /\ Len(b \o d) = Len(b) + Len(d)
      /\ \A k \in 1..Len(b) : (b \o d)[k] = b[k]
      /\ \A k \in 1..Len(d) : (b \o d)[Len(b) + k] = d[k]
  BY <1>1, <1>2
<1>4. /\ b \o d \in Seq(S)
      /\ Len(b \o d) = Len(a) + 1 + Len(d)
      /\ \A k \in 1..Len(a) : (b \o d)[k] = a[k]
      /\ (b \o d)[Len(a) + 1] = x
      /\ \A k \in 1..Len(d) : (b \o d)[Len(a) + 1 + k] = d[k]
  BY <1>1, <1>2, <1>3
<1> QED BY <1>4 DEF b

-----------------------------------------------------------------------------
(* Pieces of memory *)

\* Pieces have no word in common exactly when one ends before the other starts.
LEMMA ApartCells ==
  ASSUME NEW r \in Piecelike, NEW s \in Piecelike
  PROVE  Apart(r, s) <=> Cells(r) \cap Cells(s) = {}
<1> USE DEF Piecelike, Apart, Cells, End
<1>1. Apart(r, s) => Cells(r) \cap Cells(s) = {}
  OBVIOUS
<1>2. ASSUME ~Apart(r, s) PROVE r.at \in Cells(s) \/ s.at \in Cells(r)
  BY <1>2
<1>3. r.at \in Cells(r) /\ s.at \in Cells(s)
  OBVIOUS
<1> QED BY <1>1, <1>2, <1>3

\* Pieces with a gap between them are apart.
LEMMA GapApart ==
  ASSUME NEW r \in Piecelike, NEW s \in Piecelike, End(r) < s.at \/ End(s) < r.at
  PROVE  Apart(r, s)
<1>1. r.at \in Int /\ s.at \in Int /\ End(r) \in Int /\ End(s) \in Int
  BY DEF Piecelike, End
<1> QED BY <1>1 DEF Apart

\* The words of the runs of a list, the order FreeListOK asks for, and MemoryAccounted,
\* of any list, blocks and memory.
CellsOf(fl) == UNION {Cells(fl[i]) : i \in DOMAIN fl}
CellsIn(bs) == UNION {Cells(b) : b \in bs}
Separated(fl) == \A i, j \in DOMAIN fl : i < j => End(fl[i]) < fl[j].at
Good(fl, bs, m) ==
  /\ fl \in Seq(Piecelike)
  /\ bs \subseteq Piecelike
  /\ Separated(fl)
  /\ \A b, d \in bs : b # d => Cells(b) \cap Cells(d) = {}
  /\ CellsOf(fl) \cap CellsIn(bs) = {}
  /\ m = CellsOf(fl) \cup CellsIn(bs)

\* A list in which the runs from p + 1 to q - 1 have been replaced by x.
Splice(fl, p, x, q) == SubSeq(fl, 1, p) \o <<x>> \o SubSeq(fl, q, Len(fl))

\* Where the elements of the spliced list come from.
LEMMA SpliceElements ==
  ASSUME NEW fl \in Seq(Piecelike), NEW x \in Piecelike,
         NEW p \in 0..Len(fl), NEW q \in (p + 1)..(Len(fl) + 1)
  PROVE  /\ Splice(fl, p, x, q) \in Seq(Piecelike)
         /\ Len(Splice(fl, p, x, q)) = p + 1 + (Len(fl) - q + 1)
         /\ \A k \in 1..p : Splice(fl, p, x, q)[k] = fl[k]
         /\ Splice(fl, p, x, q)[p + 1] = x
         /\ \A k \in (p + 2)..Len(Splice(fl, p, x, q)) :
              Splice(fl, p, x, q)[k] = fl[k + q - p - 2]
<1> DEFINE a == SubSeq(fl, 1, p)
           d == SubSeq(fl, q, Len(fl))
           r == a \o <<x>> \o d
<1>1. Len(fl) \in Nat /\ \A j \in 1..Len(fl) : fl[j] \in Piecelike
  BY LenProperties, ElementOfSeq
<1>2. a \in Seq(Piecelike) /\ Len(a) = p /\ \A j \in 1..p : a[j] = fl[j]
  BY <1>1, SubSeqProperties
<1>3. /\ d \in Seq(Piecelike)
      /\ Len(d) = Len(fl) - q + 1
      /\ \A j \in 1..(Len(fl) - q + 1) : d[j] = fl[q + j - 1]
  BY <1>1, SubSeqProperties
<1>4. r = Splice(fl, p, x, q)
  BY DEF Splice
<1> HIDE DEF a, d
<1>5. /\ r \in Seq(Piecelike)
      /\ Len(r) = Len(a) + 1 + Len(d)
      /\ \A k \in 1..Len(a) : r[k] = a[k]
      /\ r[Len(a) + 1] = x
      /\ \A k \in 1..Len(d) : r[Len(a) + 1 + k] = d[k]
  <2>1. a \in Seq(Piecelike) /\ d \in Seq(Piecelike)
    BY <1>2, <1>3
  <2> QED BY <2>1, AppendTwice
<1> HIDE DEF r
<1>6. \A k \in (p + 2)..Len(r) : r[k] = fl[k + q - p - 2]
  <2> TAKE k \in (p + 2)..Len(r)
  <2>1. k - p - 1 \in 1..Len(d) /\ Len(a) + 1 + (k - p - 1) = k
    BY <1>1, <1>2, <1>3, <1>5
  <2>2. r[k] = d[k - p - 1]
    BY <1>5, <2>1
  <2>3. d[k - p - 1] = fl[q + (k - p - 1) - 1]
    BY <1>3, <2>1
  <2> QED BY <1>1, <2>2, <2>3
<1> QED BY <1>1, <1>2, <1>3, <1>4, <1>5, <1>6

\* Where the indices of a spliced list of length m point to: up to p and beyond p + 1
\* to the list of length n, of which the runs between p and q are gone.
SpliceIndices(n, p, q, m) ==
  /\ p + 1 \in 1..m
  /\ \A k \in 1..m : k <= p \/ k = p + 1 \/ k \in (p + 2)..m
  /\ \A k \in 1..p : k \in 1..n /\ k \in 1..m /\ k < q
  /\ \A k \in (p + 1)..(q - 1) : k \in 1..n
  /\ \A k \in (p + 2)..m : k + q - p - 2 \in q..n /\ k + q - p - 2 \in 1..n
  /\ \A k, l \in (p + 2)..m : k < l => k + q - p - 2 < l + q - p - 2
  /\ \A j \in q..n : j + p + 2 - q \in (p + 2)..m /\ j + p + 2 - q \in 1..m
  /\ \A j \in q..n : (j + p + 2 - q) + q - p - 2 = j
  /\ \A j \in 1..n : j \in 1..p \/ j \in (p + 1)..(q - 1) \/ j \in q..n

\* They are as long as the length is that of a splice.
LEMMA SpliceIndex ==
  ASSUME NEW n \in Nat, NEW p \in Nat, NEW q \in Nat, p < q, q <= n + 1,
         NEW m, m = p + 1 + (n - q + 1)
  PROVE  SpliceIndices(n, p, q, m)
<1>1. m \in Nat /\ p + 1 \in 1..m
  OBVIOUS
<1>2. \A k \in 1..m : k <= p \/ k = p + 1 \/ k \in (p + 2)..m
  BY <1>1
<1>3. \A k \in 1..p : k \in 1..n /\ k \in 1..m /\ k < q
  BY <1>1
<1>4. \A k \in (p + 1)..(q - 1) : k \in 1..n
  OBVIOUS
<1>5. \A k \in (p + 2)..m : k + q - p - 2 \in q..n /\ k + q - p - 2 \in 1..n
  BY <1>1
<1>6. \A k, l \in (p + 2)..m : k < l => k + q - p - 2 < l + q - p - 2
  BY <1>1
<1>7. \A j \in q..n : j + p + 2 - q \in (p + 2)..m /\ j + p + 2 - q \in 1..m
  BY <1>1
<1>8. \A j \in q..n : (j + p + 2 - q) + q - p - 2 = j
  OBVIOUS
<1>9. \A j \in 1..n : j \in 1..p \/ j \in (p + 1)..(q - 1) \/ j \in q..n
  OBVIOUS
<1> QED BY <1>1, <1>2, <1>3, <1>4, <1>5, <1>6, <1>7, <1>8, <1>9 DEF SpliceIndices

\* The words of a splice, and its order.
LEMMA SpliceGood ==
  ASSUME NEW fl \in Seq(Piecelike), NEW x \in Piecelike, NEW b \in Piecelike,
         NEW p \in 0..Len(fl), NEW q \in (p + 1)..(Len(fl) + 1),
         Separated(fl),
         \A j \in 1..p : End(fl[j]) < x.at,
         \A j \in q..Len(fl) : End(x) < fl[j].at,
         Cells(x) = Cells(b) \cup UNION {Cells(fl[j]) : j \in (p + 1)..(q - 1)}
  PROVE  /\ Splice(fl, p, x, q) \in Seq(Piecelike)
         /\ Separated(Splice(fl, p, x, q))
         /\ CellsOf(Splice(fl, p, x, q)) = CellsOf(fl) \cup Cells(b)
<1> DEFINE r == Splice(fl, p, x, q)
<1>1. /\ Len(fl) \in Nat /\ DOMAIN fl = 1..Len(fl)
      /\ p \in Nat /\ q \in Nat /\ p < q /\ q <= Len(fl) + 1
      /\ \A j \in 1..Len(fl) : fl[j] \in Piecelike
  BY LenProperties, ElementOfSeq
<1>2. /\ r \in Seq(Piecelike)
      /\ Len(r) = p + 1 + (Len(fl) - q + 1)
      /\ \A k \in 1..p : r[k] = fl[k]
      /\ r[p + 1] = x
      /\ \A k \in (p + 2)..Len(r) : r[k] = fl[k + q - p - 2]
  BY SpliceElements, ZenonT(30)
<1> HIDE DEF r
<1>3. DOMAIN r = 1..Len(r) /\ Len(r) \in Nat
  BY <1>2, LenProperties
<1>a. Len(r) = p + 1 + (Len(fl) - q + 1)
  BY <1>2
<1>b. \A k \in 1..p : r[k] = fl[k]
  BY <1>2
<1>c. r[p + 1] = x
  BY <1>2
<1>d. \A k \in (p + 2)..Len(r) : r[k] = fl[k + q - p - 2]
  BY <1>2
<1>e. Len(fl) \in Nat /\ p \in Nat /\ q \in Nat /\ p < q /\ q <= Len(fl) + 1
  BY <1>1
<1>f. SpliceIndices(Len(fl), p, q, Len(r))
  BY <1>a, <1>e, SpliceIndex
<1>4. Separated(r)
  <2> SUFFICES ASSUME NEW k \in 1..Len(r), NEW l \in 1..Len(r), k < l
               PROVE  End(r[k]) < r[l].at
    BY <1>3 DEF Separated
  <2>1. \A i, j \in 1..Len(fl) : i < j => End(fl[i]) < fl[j].at
    BY <1>1 DEF Separated
  <2>2. CASE l <= p
    <3>1. k \in 1..p /\ l \in 1..p /\ k \in 1..Len(fl) /\ l \in 1..Len(fl)
      <4>1. k \in 1..p /\ l \in 1..p
        BY <1>e, <2>2
      <4> QED BY <1>f, <4>1 DEF SpliceIndices
    <3>2. r[k] = fl[k] /\ r[l] = fl[l]
      BY <1>b, <3>1
    <3> QED BY <2>1, <3>1, <3>2
  <2>3. CASE l = p + 1
    <3>1. k \in 1..p
      BY <1>e, <2>3
    <3>2. r[k] = fl[k] /\ r[l] = x
      BY <1>b, <1>c, <2>3, <3>1
    <3> QED BY <3>1, <3>2
  <2>4. CASE l \in (p + 2)..Len(r)
    <3> DEFINE i == l + q - p - 2
    <3>1. i \in q..Len(fl) /\ i \in 1..Len(fl)
      BY <1>f, <2>4 DEF SpliceIndices
    <3>2. r[l] = fl[i]
      BY <1>d, <2>4
    <3>3. CASE k <= p
      <4>1. k \in 1..p
        BY <1>e, <3>3
      <4>2. k \in 1..Len(fl) /\ k < q /\ r[k] = fl[k]
        BY <1>b, <1>f, <4>1 DEF SpliceIndices
      <4> HIDE DEF i
      <4>3. k < i
        BY <1>e, <3>1, <4>1, <4>2
      <4> QED BY <2>1, <3>1, <3>2, <4>2, <4>3
    <3>4. CASE k = p + 1
      <4>1. r[k] = x
        BY <1>c, <3>4
      <4> HIDE DEF i
      <4> QED BY <3>1, <3>2, <4>1
    <3>5. CASE k \in (p + 2)..Len(r)
      <4> DEFINE j == k + q - p - 2
      <4>1. j \in 1..Len(fl) /\ j < i
        BY <1>f, <2>4, <3>5 DEF SpliceIndices
      <4>2. r[k] = fl[j]
        BY <1>d, <3>5
      <4> HIDE DEF i, j
      <4> QED BY <2>1, <3>1, <3>2, <4>1, <4>2
    <3> QED BY <1>f, <3>3, <3>4, <3>5 DEF SpliceIndices
  <2> QED BY <1>f, <2>2, <2>3, <2>4 DEF SpliceIndices
<1>5. \A k \in 1..Len(r) : Cells(r[k]) \subseteq CellsOf(fl) \cup Cells(b)
  <2> TAKE k \in 1..Len(r)
  <2>1. \A j \in 1..Len(fl) : Cells(fl[j]) \subseteq CellsOf(fl)
    BY <1>1 DEF CellsOf
  <2>2. CASE k <= p
    <3>1. k \in 1..p
      BY <1>e, <2>2
    <3>2. r[k] = fl[k]
      BY <1>b, <3>1
    <3> QED BY <1>f, <2>1, <3>1, <3>2 DEF SpliceIndices
  <2>3. CASE k = p + 1
    <3>1. \A j \in (p + 1)..(q - 1) : j \in 1..Len(fl)
      BY <1>f DEF SpliceIndices
    <3>2. UNION {Cells(fl[j]) : j \in (p + 1)..(q - 1)} \subseteq CellsOf(fl)
      BY <2>1, <3>1
    <3>3. r[k] = x
      BY <1>c, <2>3
    <3> QED BY <3>2, <3>3
  <2>4. CASE k \in (p + 2)..Len(r)
    <3>1. k + q - p - 2 \in 1..Len(fl)
      BY <1>f, <2>4 DEF SpliceIndices
    <3>2. r[k] = fl[k + q - p - 2]
      BY <1>d, <2>4
    <3> QED BY <2>1, <3>1, <3>2
  <2> QED BY <1>f, <2>2, <2>3, <2>4 DEF SpliceIndices
<1>6. \A j \in 1..Len(fl) : Cells(fl[j]) \subseteq CellsOf(r)
  <2> TAKE j \in 1..Len(fl)
  <2>1. \A k \in 1..Len(r) : Cells(r[k]) \subseteq CellsOf(r)
    BY <1>3 DEF CellsOf
  <2>2. CASE j \in 1..p
    <3>1. j \in 1..p /\ j \in 1..Len(r)
      BY <1>f, <2>2 DEF SpliceIndices
    <3>2. r[j] = fl[j]
      BY <1>b, <3>1
    <3> QED BY <2>1, <3>1, <3>2
  <2>3. CASE j \in (p + 1)..(q - 1)
    <3>2. Cells(fl[j]) \subseteq Cells(x)
      BY <2>3
    <3>3. Cells(x) \subseteq CellsOf(r)
      BY <1>c, <1>f, <2>1 DEF SpliceIndices
    <3> QED BY <3>2, <3>3
  <2>4. CASE j \in q..Len(fl)
    <3> DEFINE k == j + p + 2 - q
    <3>1. k \in (p + 2)..Len(r) /\ k \in 1..Len(r) /\ k + q - p - 2 = j
      BY <1>f, <2>4 DEF SpliceIndices
    <3> HIDE DEF k
    <3>2. r[k] = fl[j]
      BY <1>d, <3>1
    <3> QED BY <2>1, <3>1, <3>2
  <2> QED BY <1>f, <2>2, <2>3, <2>4 DEF SpliceIndices
<1>7. Cells(b) \subseteq CellsOf(r)
  BY <1>2, <1>3, <1>f DEF CellsOf, SpliceIndices
<1>8. CellsOf(r) = CellsOf(fl) \cup Cells(b)
  BY <1>1, <1>3, <1>5, <1>6, <1>7 DEF CellsOf
<1> QED BY <1>2, <1>4, <1>8 DEF r

-----------------------------------------------------------------------------
(* kfree *)

\* The walk stops at the first place where it may.
LEMMA StopFirst ==
  ASSUME NEW fl \in Seq(Piecelike), NEW b
  PROVE  /\ Stop(fl, b) \in 1..(Len(fl) + 1)
         /\ Stops(fl, b, Stop(fl, b))
         /\ \A j \in 1..(Stop(fl, b) - 1) : ~Stops(fl, b, j)
<1>1. Len(fl) \in Nat
  BY LenProperties
<1> DEFINE T == {i \in 1..(Len(fl) + 1) : Stops(fl, b, i)}
<1>2. Len(fl) + 1 \in T
  BY <1>1 DEF Stops
<1>3. PICK i \in T : \A j \in T : i <= j
  <2>1. T \subseteq Nat
    BY <1>1
  <2> QED BY <1>2, <2>1, Least
<1>4. \A j \in 1..(i - 1) : ~Stops(fl, b, j)
  <2> SUFFICES ASSUME NEW j \in 1..(i - 1), Stops(fl, b, j) PROVE FALSE
    OBVIOUS
  <2>1. j \in T /\ j < i
    BY <1>1, <1>3
  <2> QED BY <1>1, <1>3, <2>1
<1>5. \E k \in 1..(Len(fl) + 1) : Stops(fl, b, k) /\ \A j \in 1..(k - 1) : ~Stops(fl, b, j)
  BY <1>3, <1>4
<1> HIDE DEF T
<1> QED BY <1>5 DEF Stop

\* The words of neighbours that are joined.
LEMMA CellsJoin ==
  ASSUME NEW r \in Piecelike, NEW s \in Piecelike, End(r) = s.at
  PROVE  /\ Piece(r.at, End(s) - r.at) \in Piecelike
         /\ End(Piece(r.at, End(s) - r.at)) = End(s)
         /\ Cells(Piece(r.at, End(s) - r.at)) = Cells(r) \cup Cells(s)
<1>1. r.at \in Nat /\ r.len \in Nat \ {0} /\ s.at \in Nat /\ s.len \in Nat \ {0}
  BY DEF Piecelike
<1>2. End(s) - r.at = r.len + s.len
  BY <1>1 DEF End
<1>3. Piece(r.at, r.len + s.len) \in Piecelike
  BY <1>1 DEF Piece, Piecelike
<1> QED BY <1>1, <1>2, <1>3 DEF Piece, End, Cells

\* kfree keeps the list sorted, joined and complete.
LEMMA FreedGood ==
  ASSUME NEW fl \in Seq(Piecelike), NEW b \in Piecelike, Separated(fl),
         CellsOf(fl) \cap Cells(b) = {}
  PROVE  /\ Freed(fl, b) \in Seq(Piecelike)
         /\ Separated(Freed(fl, b))
         /\ CellsOf(Freed(fl, b)) = CellsOf(fl) \cup Cells(b)
<1> DEFINE i     == Stop(fl, b)
           n     == IF JoinsLast(fl, i, b) THEN i + 1 ELSE i
           start == IF JoinsLast(fl, i, b) THEN fl[i].at ELSE b.at
           end   == IF JoinsNext(fl, n, b) THEN End(fl[n]) ELSE End(b)
           rest  == IF JoinsNext(fl, n, b) THEN n + 1 ELSE n
           x     == Piece(start, end - start)
           p     == i - 1
<1>1. /\ Len(fl) \in Nat /\ DOMAIN fl = 1..Len(fl)
      /\ \A j \in 1..Len(fl) : fl[j] \in Piecelike
  BY LenProperties, ElementOfSeq
<1>2. /\ i \in 1..(Len(fl) + 1) /\ p = i - 1
      /\ Stops(fl, b, i)
      /\ \A j \in 1..(i - 1) : ~Stops(fl, b, j)
  BY StopFirst
<1>3. Freed(fl, b) = Splice(fl, p, x, rest)
  BY DEF Freed, Splice
<1>4. /\ \A j \in 1..Len(fl) : fl[j].at \in Nat /\ End(fl[j]) \in Nat /\ fl[j].at < End(fl[j])
      /\ b.at \in Nat /\ End(b) \in Nat /\ b.at < End(b)
  BY <1>1 DEF Piecelike, End
<1>5. \A j \in 1..Len(fl) : End(fl[j]) <= b.at \/ End(b) <= fl[j].at
  <2> TAKE j \in 1..Len(fl)
  <2>1. Cells(fl[j]) \cap Cells(b) = {}
    BY <1>1 DEF CellsOf
  <2> QED BY <1>1, <2>1, ApartCells DEF Apart
<1>6. \A j, k \in 1..Len(fl) : j < k => End(fl[j]) < fl[k].at
  BY <1>1 DEF Separated
<1> HIDE DEF i, n, start, end, rest, x, p
<1>7. \A j \in 1..p : j \in 1..Len(fl) /\ End(fl[j]) < b.at
  <2> TAKE j \in 1..p
  <2>1. j \in 1..Len(fl)
    BY <1>1, <1>2
  <2>2. fl[j].at < End(b) /\ End(fl[j]) # b.at
    BY <1>1, <1>2, <1>4, <2>1 DEF Stops
  <2> QED BY <1>4, <1>5, <2>1, <2>2
<1>8. CASE JoinsLast(fl, i, b)
  <2>1. /\ i \in 1..Len(fl) /\ End(fl[i]) = b.at
        /\ n = i + 1 /\ start = fl[i].at
    BY <1>1, <1>2, <1>8 DEF JoinsLast, n, start
  <2>2. \A j \in 1..p : End(fl[j]) < start
    BY <1>2, <1>6, <1>7, <2>1
  <2>3. \A j \in n..Len(fl) : End(b) <= fl[j].at
    <3> TAKE j \in n..Len(fl)
    <3>1. j \in 1..Len(fl) /\ i < j
      BY <1>1, <2>1
    <3>2. End(fl[i]) < fl[j].at
      BY <1>6, <2>1, <3>1
    <3>3. End(fl[j]) <= b.at \/ End(b) <= fl[j].at
      BY <1>5, <3>1
    <3>4. fl[j].at \in Nat /\ End(fl[j]) \in Nat /\ fl[j].at < End(fl[j]) /\ b.at \in Nat
      BY <1>4, <3>1
    <3> QED BY <2>1, <3>2, <3>3, <3>4
  <2> DEFINE y == Piece(fl[i].at, End(b) - fl[i].at)
  <2>4. y \in Piecelike /\ End(y) = End(b) /\ Cells(y) = Cells(fl[i]) \cup Cells(b) /\ y.at = fl[i].at
    BY <1>1, <2>1, CellsJoin DEF Piece
  <2>5. CASE JoinsNext(fl, n, b)
    <3>1. n \in 1..Len(fl) /\ fl[n].at = End(b) /\ rest = n + 1 /\ end = End(fl[n])
      BY <1>1, <2>1, <2>5 DEF JoinsNext, rest, end
    <3> HIDE DEF y
    <3>2. /\ x \in Piecelike /\ End(x) = End(fl[n]) /\ x.at = start
          /\ Cells(x) = Cells(y) \cup Cells(fl[n])
      BY <1>1, <2>1, <2>4, <3>1, CellsJoin DEF x, Piece
    <3>3. \A j \in rest..Len(fl) : End(x) < fl[j].at
      BY <1>1, <1>6, <3>1, <3>2
    <3>4. UNION {Cells(fl[j]) : j \in i..(rest - 1)} = Cells(fl[i]) \cup Cells(fl[n])
      <4>1. i..(rest - 1) = {i, n}
        BY <1>1, <2>1, <3>1
      <4> QED BY <4>1
    <3>5. Cells(x) = Cells(b) \cup UNION {Cells(fl[j]) : j \in (p + 1)..(rest - 1)}
      <4>1. p + 1 = i
        BY <1>2
      <4> QED BY <2>4, <3>2, <3>4, <4>1
    <3>6. p \in 0..Len(fl) /\ rest \in (p + 1)..(Len(fl) + 1)
      BY <1>1, <1>2, <2>1, <3>1
    <3>7. \A j \in 1..p : End(fl[j]) < x.at
      BY <2>2, <3>2
    <3>8. x \in Piecelike
      BY <3>2
    <3> QED BY <1>3, <3>3, <3>5, <3>6, <3>7, <3>8, SpliceGood
  <2>6. CASE ~JoinsNext(fl, n, b)
    <3>1. rest = n /\ end = End(b)
      BY <2>6 DEF rest, end
    <3>2. x \in Piecelike /\ End(x) = End(b) /\ x.at = start /\ Cells(x) = Cells(b) \cup Cells(fl[i])
      BY <2>1, <2>4, <3>1 DEF x
    <3>3. \A j \in rest..Len(fl) : End(x) < fl[j].at
      <4> TAKE j \in rest..Len(fl)
      <4>1. n \in 1..Len(fl) /\ j \in 1..Len(fl) /\ n <= j
        BY <1>1, <2>1, <3>1
      <4>2. End(b) < fl[n].at
        BY <1>4, <2>3, <2>6, <4>1 DEF JoinsNext
      <4>3. fl[n].at <= fl[j].at
        <5>1. fl[n].at \in Nat /\ End(fl[n]) \in Nat /\ fl[n].at < End(fl[n]) /\ fl[j].at \in Nat
          BY <1>4, <4>1
        <5>2. CASE n = j
          BY <5>1, <5>2
        <5>3. CASE n < j
          <6>1. End(fl[n]) < fl[j].at
            BY <1>6, <4>1, <5>3
          <6> QED BY <5>1, <6>1
        <5>4. n = j \/ n < j
          BY <4>1
        <5> QED BY <5>2, <5>3, <5>4
      <4> QED BY <1>4, <3>2, <4>1, <4>2, <4>3
    <3>4. UNION {Cells(fl[j]) : j \in i..(rest - 1)} = Cells(fl[i])
      <4>1. i..(rest - 1) = {i}
        BY <1>1, <2>1, <3>1
      <4> QED BY <4>1
    <3>5. Cells(x) = Cells(b) \cup UNION {Cells(fl[j]) : j \in (p + 1)..(rest - 1)}
      <4>1. p + 1 = i
        BY <1>2
      <4> QED BY <3>2, <3>4, <4>1
    <3>6. p \in 0..Len(fl) /\ rest \in (p + 1)..(Len(fl) + 1)
      BY <1>1, <1>2, <2>1, <3>1
    <3>7. \A j \in 1..p : End(fl[j]) < x.at
      BY <2>2, <3>2
    <3>8. x \in Piecelike
      BY <3>2
    <3> QED BY <1>3, <3>3, <3>5, <3>6, <3>7, <3>8, SpliceGood
  <2> QED BY <2>5, <2>6
<1>9. CASE ~JoinsLast(fl, i, b)
  <2>1. n = i /\ start = b.at
    BY <1>9 DEF n, start
  <2>2. \A j \in i..Len(fl) : j \in 1..Len(fl) /\ End(b) <= fl[j].at
    <3> TAKE j \in i..Len(fl)
    <3>1. j \in 1..Len(fl) /\ i \in 1..Len(fl) /\ i <= j
      BY <1>1, <1>2
    <3>2. End(b) <= fl[i].at
      BY <1>1, <1>2, <1>4, <1>9, <3>1 DEF Stops, JoinsLast
    <3> QED BY <1>4, <1>6, <3>1, <3>2
  <2>3. CASE JoinsNext(fl, n, b)
    <3>1. i \in 1..Len(fl) /\ fl[i].at = End(b) /\ rest = i + 1 /\ end = End(fl[i])
      BY <1>1, <1>2, <2>1, <2>3 DEF JoinsNext, rest, end
    <3>2. /\ x \in Piecelike /\ End(x) = End(fl[i]) /\ x.at = b.at
          /\ Cells(x) = Cells(b) \cup Cells(fl[i])
      BY <1>1, <2>1, <3>1, CellsJoin DEF x, Piece
    <3>3. \A j \in rest..Len(fl) : End(x) < fl[j].at
      BY <1>1, <1>6, <3>1, <3>2
    <3>4. UNION {Cells(fl[j]) : j \in i..(rest - 1)} = Cells(fl[i])
      <4>1. i..(rest - 1) = {i}
        BY <1>1, <3>1
      <4> QED BY <4>1
    <3>5. Cells(x) = Cells(b) \cup UNION {Cells(fl[j]) : j \in (p + 1)..(rest - 1)}
      <4>1. p + 1 = i
        BY <1>2
      <4> QED BY <3>2, <3>4, <4>1
    <3>6. p \in 0..Len(fl) /\ rest \in (p + 1)..(Len(fl) + 1)
      BY <1>1, <1>2, <3>1
    <3>7. \A j \in 1..p : End(fl[j]) < x.at
      BY <1>7, <3>2
    <3>8. x \in Piecelike
      BY <3>2
    <3> QED BY <1>3, <3>3, <3>5, <3>6, <3>7, <3>8, SpliceGood
  <2>4. CASE ~JoinsNext(fl, n, b)
    <3>1. rest = i /\ end = End(b)
      BY <2>1, <2>4 DEF rest, end
    <3>2. x = b
      BY <2>1, <3>1 DEF x, Piece, End, Piecelike
    <3>3. \A j \in rest..Len(fl) : End(x) < fl[j].at
      <4> TAKE j \in rest..Len(fl)
      <4>1. i \in 1..Len(fl) /\ j \in 1..Len(fl) /\ i <= j /\ i \in i..Len(fl)
        BY <1>1, <1>2, <3>1
      <4>2. End(b) < fl[i].at
        BY <1>4, <2>1, <2>2, <2>4, <4>1 DEF JoinsNext
      <4>3. fl[i].at <= fl[j].at
        BY <1>4, <1>6, <4>1, SMTT(30)
      <4> QED BY <1>4, <3>2, <4>1, <4>2, <4>3
    <3>5. Cells(x) = Cells(b) \cup UNION {Cells(fl[j]) : j \in (p + 1)..(rest - 1)}
      <4>1. (p + 1)..(rest - 1) = {}
        BY <1>1, <1>2, <3>1
      <4> QED BY <3>2, <4>1
    <3>6. p \in 0..Len(fl) /\ rest \in (p + 1)..(Len(fl) + 1)
      BY <1>1, <1>2, <3>1
    <3>7. \A j \in 1..p : End(fl[j]) < x.at
      BY <1>7, <3>2
    <3>8. x \in Piecelike
      BY <3>2
    <3> QED BY <1>3, <3>3, <3>5, <3>6, <3>7, <3>8, SpliceGood
  <2> QED BY <2>3, <2>4
<1> QED BY <1>8, <1>9

\* What is given to kfree was in no run: the list, the blocks and the memory stay good.
LEMMA GiveGood ==
  ASSUME NEW fl, NEW bs, NEW m, NEW b \in Piecelike, Good(fl, bs, m), Cells(b) \cap m = {}
  PROVE  Good(Freed(fl, b), bs, m \cup Cells(b))
<1>1. /\ fl \in Seq(Piecelike) /\ Separated(fl) /\ bs \subseteq Piecelike
      /\ CellsOf(fl) \cap CellsIn(bs) = {} /\ m = CellsOf(fl) \cup CellsIn(bs)
      /\ \A c, d \in bs : c # d => Cells(c) \cap Cells(d) = {}
  BY DEF Good
<1>2. CellsOf(fl) \cap Cells(b) = {} /\ CellsIn(bs) \cap Cells(b) = {}
  BY <1>1
<1>3. /\ Freed(fl, b) \in Seq(Piecelike)
      /\ Separated(Freed(fl, b))
      /\ CellsOf(Freed(fl, b)) = CellsOf(fl) \cup Cells(b)
  BY <1>1, <1>2, FreedGood
<1>4. CellsOf(Freed(fl, b)) \cap CellsIn(bs) = {}
  BY <1>1, <1>2, <1>3
<1>5. m \cup Cells(b) = CellsOf(Freed(fl, b)) \cup CellsIn(bs)
  BY <1>1, <1>3
<1> QED BY <1>1, <1>3, <1>4, <1>5 DEF Good

\* A block that is given back leaves the blocks.
LEMMA LeaveGood ==
  ASSUME NEW fl, NEW bs, NEW m, NEW b \in bs, Good(fl, bs, m)
  PROVE  /\ Good(fl, bs \ {b}, m \ Cells(b))
         /\ Cells(b) \subseteq m
<1>1. CellsIn(bs) = CellsIn(bs \ {b}) \cup Cells(b)
  BY DEF CellsIn
<1>2. CellsIn(bs \ {b}) \cap Cells(b) = {}
  BY DEF CellsIn, Good
<1>3. CellsOf(fl) \cap Cells(b) = {} /\ Cells(b) \subseteq m
  BY <1>1 DEF Good
<1>4. m \ Cells(b) = CellsOf(fl) \cup CellsIn(bs \ {b})
  BY <1>1, <1>2, <1>3 DEF Good
<1>5. CellsOf(fl) \cap CellsIn(bs \ {b}) = {}
  BY <1>1 DEF Good
<1> QED BY <1>3, <1>4, <1>5 DEF Good

-----------------------------------------------------------------------------
(* kalloc *)

\* The search ends at a run that is long enough.
LEMMA FitFirst ==
  ASSUME NEW fl \in Seq(Piecelike), NEW n \in Nat, HasFit(fl, n)
  PROVE  Fit(fl, n) \in 1..Len(fl) /\ fl[Fit(fl, n)].len >= n
<1>1. Len(fl) \in Nat /\ DOMAIN fl = 1..Len(fl) /\ \A j \in 1..Len(fl) : fl[j].len \in Nat
  <2>1. /\ Len(fl) \in Nat /\ DOMAIN fl = 1..Len(fl)
        /\ \A j \in 1..Len(fl) : fl[j] \in Piecelike
    BY LenProperties, ElementOfSeq
  <2> QED BY <2>1 DEF Piecelike
<1> DEFINE T == {i \in 1..Len(fl) : fl[i].len >= n}
<1>2. PICK i \in T : \A j \in T : i <= j
  <2>1. T \subseteq Nat /\ T # {}
    BY <1>1 DEF HasFit
  <2> QED BY <2>1, Least
<1>3. \A j \in 1..(i - 1) : fl[j].len < n
  <2> TAKE j \in 1..(i - 1)
  <2>1. j \in 1..Len(fl) /\ j < i
    BY <1>1, <1>2
  <2>2. j \notin T
    BY <1>1, <1>2, <2>1
  <2> QED BY <1>1, <2>1, <2>2
<1>4. \E k \in DOMAIN fl : IsFit(fl, n, k)
  BY <1>1, <1>2, <1>3 DEF IsFit
<1>5. Fit(fl, n) \in DOMAIN fl /\ IsFit(fl, n, Fit(fl, n))
  BY <1>4 DEF Fit
<1> QED BY <1>1, <1>5 DEF IsFit

\* A run that fits exactly leaves the list.
LEMMA CutRun ==
  ASSUME NEW fl \in Seq(Piecelike), NEW i \in 1..Len(fl), Separated(fl)
  PROVE  LET r == SubSeq(fl, 1, i - 1) \o SubSeq(fl, i + 1, Len(fl))
         IN  /\ r \in Seq(Piecelike)
             /\ Separated(r)
             /\ CellsOf(fl) = CellsOf(r) \cup Cells(fl[i])
             /\ CellsOf(r) \cap Cells(fl[i]) = {}
<1> DEFINE a == SubSeq(fl, 1, i - 1)
           d == SubSeq(fl, i + 1, Len(fl))
           r == a \o d
<1>1. /\ Len(fl) \in Nat /\ DOMAIN fl = 1..Len(fl) /\ i \in Nat /\ 1 <= i /\ i <= Len(fl)
      /\ \A j \in 1..Len(fl) : fl[j] \in Piecelike
  BY LenProperties, ElementOfSeq
<1>2. a \in Seq(Piecelike) /\ Len(a) = i - 1 /\ \A j \in 1..(i - 1) : a[j] = fl[j]
  BY <1>1, SubSeqProperties
<1>3. /\ d \in Seq(Piecelike)
      /\ Len(d) = Len(fl) - i
      /\ \A j \in 1..(Len(fl) - i) : d[j] = fl[i + 1 + j - 1]
  <2>1. i + 1 \in Int /\ Len(fl) \in Int
    BY <1>1
  <2>2. \A j \in (i + 1)..Len(fl) : fl[j] \in Piecelike
    BY <1>1
  <2>3. /\ d \in Seq(Piecelike)
        /\ Len(d) = IF i + 1 <= Len(fl) THEN Len(fl) - (i + 1) + 1 ELSE 0
        /\ \A j \in 1..(Len(fl) - (i + 1) + 1) : d[j] = fl[i + 1 + j - 1]
    BY <2>1, <2>2, SubSeqProperties
  <2> HIDE DEF d
  <2>4. Len(fl) - (i + 1) + 1 = Len(fl) - i
    BY <1>1
  <2>5. Len(d) = Len(fl) - i
    <3>1. CASE i + 1 <= Len(fl)
      BY <2>3, <2>4, <3>1
    <3>2. CASE i = Len(fl)
      <4>1. Len(fl) - i = 0 /\ ~(i + 1 <= Len(fl))
        BY <1>1, <3>2
      <4> QED BY <2>3, <4>1
    <3>3. \A N \in Nat : i <= N => i + 1 <= N \/ i = N
      <4>1. i \in Nat
        BY <1>1
      <4> QED BY <4>1
    <3> QED BY <1>1, <3>1, <3>2, <3>3
  <2> QED BY <2>3, <2>4, <2>5
<1> HIDE DEF a, d
<1>4. /\ r \in Seq(Piecelike)
      /\ Len(r) = Len(a) + Len(d)
      /\ \A k \in 1..Len(a) : r[k] = a[k]
      /\ \A k \in 1..Len(d) : r[Len(a) + k] = d[k]
  <2>1. a \in Seq(Piecelike) /\ d \in Seq(Piecelike)
    BY <1>2, <1>3
  <2> QED BY <2>1, AppendOnce
<1> HIDE DEF r
<1> DEFINE Old(k) == IF k < i THEN k ELSE k + 1
<1>5. /\ Len(r) = Len(fl) - 1
      /\ DOMAIN r = 1..Len(r)
      /\ \A k \in 1..Len(r) : Old(k) \in 1..Len(fl) /\ Old(k) # i /\ r[k] = fl[Old(k)]
  <2>1. Len(r) = Len(fl) - 1 /\ DOMAIN r = 1..Len(r)
    BY <1>1, <1>2, <1>3, <1>4, LenProperties
  <2>2. ASSUME NEW k \in 1..Len(r) PROVE Old(k) \in 1..Len(fl) /\ Old(k) # i /\ r[k] = fl[Old(k)]
    <3>1. CASE k < i
      <4>1. k \in 1..(i - 1) /\ k \in 1..Len(a)
        BY <1>1, <1>2, <2>2, <3>1
      <4> QED BY <1>1, <1>2, <1>4, <3>1, <4>1
    <3>2. CASE k >= i
      <4>1. k - (i - 1) \in 1..Len(d) /\ Len(a) + (k - (i - 1)) = k
        BY <1>1, <1>2, <1>3, <2>1, <2>2, <3>2, SMTT(30)
      <4>2. r[k] = d[k - (i - 1)]
        BY <1>4, <4>1
      <4>3. d[k - (i - 1)] = fl[i + 1 + (k - (i - 1)) - 1]
        BY <1>3, <4>1
      <4>4. i + 1 + (k - (i - 1)) - 1 = k + 1
        BY <1>1, <2>2
      <4> QED BY <1>1, <2>1, <2>2, <3>2, <4>2, <4>3, <4>4
    <3> QED BY <1>1, <3>1, <3>2
  <2> QED BY <2>1, <2>2
<1>6. Separated(r)
  <2> SUFFICES ASSUME NEW k \in 1..Len(r), NEW l \in 1..Len(r), k < l
               PROVE  End(r[k]) < r[l].at
    BY <1>5 DEF Separated
  <2>1. Old(k) < Old(l)
    BY <1>1
  <2> QED BY <1>1, <1>5, <2>1 DEF Separated
<1>7. \A k \in 1..Len(r) : Cells(r[k]) \subseteq CellsOf(fl) /\ Cells(r[k]) \cap Cells(fl[i]) = {}
  <2> TAKE k \in 1..Len(r)
  <2>1. Old(k) \in 1..Len(fl) /\ Old(k) # i /\ r[k] = fl[Old(k)]
    BY <1>5
  <2>2. End(fl[Old(k)]) < fl[i].at \/ End(fl[i]) < fl[Old(k)].at
    <3>1. Old(k) < i \/ i < Old(k)
      BY <1>1, <2>1
    <3> QED BY <1>1, <2>1, <3>1 DEF Separated
  <2>3. Apart(fl[Old(k)], fl[i])
    <3>1. fl[Old(k)] \in Piecelike /\ fl[i] \in Piecelike
      BY <1>1, <2>1
    <3> HIDE DEF Old
    <3> QED BY <2>2, <3>1, GapApart
  <2>4. Cells(fl[Old(k)]) \cap Cells(fl[i]) = {}
    BY <1>1, <2>1, <2>3, ApartCells
  <2> QED BY <1>1, <2>1, <2>4 DEF CellsOf
<1>8. \A j \in 1..Len(fl) : j # i => Cells(fl[j]) \subseteq CellsOf(r)
  <2> TAKE j \in 1..Len(fl)
  <2> HAVE j # i
  <2> DEFINE k == IF j < i THEN j ELSE j - 1
  <2>1. k \in 1..Len(r) /\ Old(k) = j
    BY <1>1, <1>5
  <2> HIDE DEF k
  <2>2. r[k] = fl[j]
    BY <1>5, <2>1
  <2> QED BY <1>5, <2>1, <2>2 DEF CellsOf
<1>9. CellsOf(fl) = CellsOf(r) \cup Cells(fl[i])
  BY <1>1, <1>5, <1>7, <1>8 DEF CellsOf
<1>10. CellsOf(r) \cap Cells(fl[i]) = {}
  BY <1>5, <1>7 DEF CellsOf
<1> QED BY <1>4, <1>6, <1>9, <1>10 DEF r, a, d

\* The last words of a run are a run, and the others are another one.
LEMMA CutLast ==
  ASSUME NEW at \in Nat, NEW len \in Nat, NEW n \in Nat \ {0}, n < len
  PROVE  LET s == Piece(at, len - n)
             t == Piece((at + len) - n, n)
             u == Piece(at, len)
         IN  /\ t \in Piecelike
             /\ Cells(u) = Cells(s) \cup Cells(t)
             /\ Cells(s) \cap Cells(t) = {}
<1> DEFINE m == at + (len - n)
<1>1. /\ m \in Nat /\ at <= m /\ m <= at + len
      /\ (at + len) - n = m /\ m + n = at + len
  OBVIOUS
<1>2. Cells(Piece(at, len)) = at..(at + len - 1)
  BY DEF Cells, Piece, End
<1>3. Cells(Piece(at, len - n)) = at..(m - 1)
  BY DEF Cells, Piece, End
<1> HIDE DEF m
<1>4. Cells(Piece(m, n)) = m..(at + len - 1)
  BY <1>1 DEF Cells, Piece, End
<1>5. Piece(m, n) \in Piecelike
  BY <1>1 DEF Piece, Piecelike
<1>6. at..(at + len - 1) = at..(m - 1) \cup m..(at + len - 1)
  BY <1>1
<1>7. at..(m - 1) \cap m..(at + len - 1) = {}
  BY <1>1
<1> QED BY <1>1, <1>2, <1>3, <1>4, <1>5, <1>6, <1>7

\* A longer run gives its last words.
LEMMA ShortenRun ==
  ASSUME NEW fl \in Seq(Piecelike), NEW i \in 1..Len(fl), Separated(fl),
         NEW n \in Nat \ {0}, n < fl[i].len
  PROVE  LET r == [fl EXCEPT ![i].len = @ - n]
             t == Taken(fl, i, n)
         IN  /\ r \in Seq(Piecelike)
             /\ Separated(r)
             /\ CellsOf(fl) = CellsOf(r) \cup Cells(t)
             /\ CellsOf(r) \cap Cells(t) = {}
<1> DEFINE s == Piece(fl[i].at, fl[i].len - n)
           t == Taken(fl, i, n)
           r == [fl EXCEPT ![i] = s]
<1>1. /\ Len(fl) \in Nat /\ DOMAIN fl = 1..Len(fl)
      /\ \A j \in 1..Len(fl) : fl[j] \in Piecelike
  BY LenProperties, ElementOfSeq
<1>2. fl[i].at \in Nat /\ fl[i].len \in Nat
  BY <1>1 DEF Piecelike
<1>3. s \in Piecelike
  BY <1>2, SMTT(30) DEF Piece, Piecelike
<1>4. [fl EXCEPT ![i].len = @ - n] = r
  <2>1. [fl[i] EXCEPT !.len = @ - n] = s
    BY <1>1 DEF Piece, Piecelike
  <2> QED BY <2>1
<1>5. /\ t \in Piecelike
      /\ Cells(fl[i]) = Cells(s) \cup Cells(t)
      /\ Cells(s) \cap Cells(t) = {}
  <2> DEFINE at == fl[i].at
             len == fl[i].len
  <2>1. fl[i] = [at |-> at, len |-> len]
    BY <1>1 DEF Piecelike
  <2>2. s = Piece(at, len - n)
    OBVIOUS
  <2>3. End(fl[i]) = at + len
    BY DEF End
  <2>4. t = Piece((at + len) - n, n)
    BY <2>3 DEF Taken
  <2>5. at \in Nat /\ len \in Nat /\ n < len
    BY <1>2
  <2>6. fl[i] = Piece(at, len)
    BY <2>1 DEF Piece
  <2> HIDE DEF at, len, s, t
  <2>7. /\ Piece((at + len) - n, n) \in Piecelike
        /\ Cells(Piece(at, len)) = Cells(Piece(at, len - n)) \cup Cells(Piece((at + len) - n, n))
        /\ Cells(Piece(at, len - n)) \cap Cells(Piece((at + len) - n, n)) = {}
    BY <2>5, CutLast
  <2> QED BY <2>2, <2>4, <2>6, <2>7
<1>6. s.at = fl[i].at /\ End(s) <= End(fl[i])
  BY <1>2 DEF Piece, End
<1>7. /\ r \in Seq(Piecelike) /\ Len(r) = Len(fl) /\ r[i] = s
      /\ \A j \in 1..Len(fl) : j # i => r[j] = fl[j]
  BY <1>1, <1>3, ExceptSeq
<1> HIDE DEF s, t, r
<1>8. DOMAIN r = 1..Len(fl)
  BY <1>7, LenProperties
<1>9. Separated(r)
  <2> SUFFICES ASSUME NEW k \in 1..Len(fl), NEW l \in 1..Len(fl), k < l
               PROVE  End(r[k]) < r[l].at
    BY <1>8 DEF Separated
  <2>1. End(fl[k]) < fl[l].at
    BY <1>1 DEF Separated
  <2>2. r[l].at = fl[l].at
    BY <1>6, <1>7
  <2>3. \A x \in Piecelike : x.at \in Int /\ End(x) \in Int
    BY DEF End, Piecelike
  <2>4. r[k] \in Piecelike /\ fl[k] \in Piecelike /\ fl[l] \in Piecelike
    BY <1>1, <1>3, <1>7
  <2>5. End(r[k]) <= End(fl[k])
    <3>1. CASE k = i
      BY <1>6, <1>7, <3>1
    <3>2. CASE k # i
      <4>1. r[k] = fl[k]
        BY <1>7, <3>2
      <4>2. End(fl[k]) \in Int
        BY <2>3, <2>4
      <4> QED BY <4>1, <4>2
    <3> QED BY <3>1, <3>2
  <2>6. End(r[k]) \in Int /\ End(fl[k]) \in Int /\ fl[l].at \in Int
    BY <2>3, <2>4
  <2> QED BY <2>1, <2>2, <2>5, <2>6
<1>10. \A j \in 1..Len(fl) : j # i => Cells(fl[j]) \cap Cells(fl[i]) = {}
  <2> TAKE j \in 1..Len(fl)
  <2> HAVE j # i
  <2>1. End(fl[j]) < fl[i].at \/ End(fl[i]) < fl[j].at
    <3>1. j < i \/ i < j
      BY <1>1
    <3> QED BY <1>1, <3>1 DEF Separated
  <2>2. Apart(fl[j], fl[i])
    BY <1>1, <2>1, GapApart
  <2> QED BY <1>1, <2>2, ApartCells
<1>11. CellsOf(fl) = CellsOf(r) \cup Cells(t)
  <2>1. ASSUME NEW c \in CellsOf(fl) PROVE c \in CellsOf(r) \cup Cells(t)
    <3>1. PICK j \in 1..Len(fl) : c \in Cells(fl[j])
      BY <1>1 DEF CellsOf
    <3> QED BY <1>5, <1>7, <1>8, <3>1 DEF CellsOf
  <2>2. ASSUME NEW c \in CellsOf(r) PROVE c \in CellsOf(fl)
    <3>1. PICK j \in 1..Len(fl) : c \in Cells(r[j])
      BY <1>8 DEF CellsOf
    <3>2. Cells(r[j]) \subseteq Cells(fl[j])
      BY <1>5, <1>7
    <3> QED BY <1>1, <3>1, <3>2 DEF CellsOf
  <2>3. Cells(t) \subseteq CellsOf(fl)
    BY <1>1, <1>5 DEF CellsOf
  <2> QED BY <2>1, <2>2, <2>3
<1>12. CellsOf(r) \cap Cells(t) = {}
  <2>1. \A j \in 1..Len(fl) : Cells(r[j]) \cap Cells(t) = {}
    BY <1>5, <1>7, <1>10
  <2> QED BY <1>8, <2>1 DEF CellsOf
<1> QED BY <1>4, <1>7, <1>9, <1>11, <1>12 DEF r, t

\* kalloc takes the words of its block from one run, and from nowhere else.
LEMMA TakeGood ==
  ASSUME NEW fl, NEW bs, NEW m, NEW n \in Lens, Good(fl, bs, m), HasFit(fl, n)
  PROVE  LET i == Fit(fl, n)
             t == Taken(fl, i, n)
         IN  /\ t \in Piecelike
             /\ t.len = n
             /\ Cells(t) \subseteq CellsOf(fl)
             /\ Good(Rest(fl, i, n), bs \cup {t}, m)
<1> DEFINE i == Fit(fl, n)
           t == Taken(fl, i, n)
           r == Rest(fl, i, n)
<1>1. n \in Nat \ {0}
  BY KallocAssumption
<1>2. /\ fl \in Seq(Piecelike) /\ Separated(fl) /\ bs \subseteq Piecelike
      /\ CellsOf(fl) \cap CellsIn(bs) = {} /\ m = CellsOf(fl) \cup CellsIn(bs)
      /\ \A c, d \in bs : c # d => Cells(c) \cap Cells(d) = {}
  BY DEF Good
<1>3. i \in 1..Len(fl) /\ fl[i].len >= n
  BY <1>1, <1>2, FitFirst
<1> HIDE DEF i
<1>4. fl[i] \in Piecelike
  BY <1>2, <1>3, ElementOfSeq
<1>5. t \in Piecelike /\ t.len = n /\ t = Piece(End(fl[i]) - n, n)
  BY <1>1, <1>3, <1>4 DEF Taken, Piece, End, Piecelike
<1>6. /\ r \in Seq(Piecelike)
      /\ Separated(r)
      /\ CellsOf(fl) = CellsOf(r) \cup Cells(t)
      /\ CellsOf(r) \cap Cells(t) = {}
  <2>1. CASE fl[i].len = n
    <3>1. r = SubSeq(fl, 1, i - 1) \o SubSeq(fl, i + 1, Len(fl))
      BY <2>1 DEF Rest
    <3>2. Cells(t) = Cells(fl[i])
      BY <1>4, <1>5, <2>1 DEF Piece, Cells, End, Piecelike
    <3> HIDE DEF r, t
    <3> QED BY <1>2, <1>3, <3>1, <3>2, CutRun
  <2>2. CASE fl[i].len # n
    <3>1. r = [fl EXCEPT ![i].len = @ - n]
      BY <2>2 DEF Rest
    <3>2. n < fl[i].len
      BY <1>1, <1>3, <1>4, <2>2 DEF Piecelike
    <3> HIDE DEF r
    <3> QED BY <1>1, <1>2, <1>3, <3>1, <3>2, ShortenRun
  <2> QED BY <2>1, <2>2
<1> HIDE DEF t, r
<1>7. CellsIn(bs \cup {t}) = CellsIn(bs) \cup Cells(t)
  BY DEF CellsIn
<1>8. \A c \in bs : Cells(c) \cap Cells(t) = {}
  BY <1>2, <1>6 DEF CellsIn
<1>9. \A c, d \in bs \cup {t} : c # d => Cells(c) \cap Cells(d) = {}
  BY <1>2, <1>8
<1>10. CellsOf(r) \cap CellsIn(bs \cup {t}) = {} /\ m = CellsOf(r) \cup CellsIn(bs \cup {t})
  BY <1>2, <1>6, <1>7
<1>11. Good(r, bs \cup {t}, m)
  BY <1>2, <1>5, <1>6, <1>9, <1>10 DEF Good
<1> QED BY <1>5, <1>6, <1>11 DEF i, t, r

\* A block that malloc has made is no part of the memory there was.
LEMMA MadeGood ==
  ASSUME NEW fl, NEW bs, NEW m, NEW t \in Piecelike, Good(fl, bs, m), Cells(t) \cap m = {}
  PROVE  Good(fl, bs \cup {t}, m \cup Cells(t))
<1>1. CellsIn(bs \cup {t}) = CellsIn(bs) \cup Cells(t)
  BY DEF CellsIn
<1>2. \A c \in bs : Cells(c) \cap Cells(t) = {}
  BY DEF CellsIn, Good
<1>3. \A c, d \in bs \cup {t} : c # d => Cells(c) \cap Cells(d) = {}
  BY <1>2 DEF Good
<1>4. CellsOf(fl) \cap CellsIn(bs \cup {t}) = {} /\ m \cup Cells(t) = CellsOf(fl) \cup CellsIn(bs \cup {t})
  BY <1>1 DEF Good
<1> QED BY <1>3, <1>4 DEF Good

-----------------------------------------------------------------------------
(* The invariant *)

\* Pages follow each other.
PagesInOrder == lib = "pages" => \E t \in 1..MaxMem : memory = 0..(t - 1)

\* The invariant, with words in the place of the ends of pieces.
LEMMA KallocOKGood ==
  KallocOK <=> PagesInOrder /\ Good(freelist, blocks, memory)
<1>1. ASSUME freelist \in Seq(Piecelike), blocks \subseteq Piecelike
      PROVE  (FreeListOK /\ MemoryAccounted) <=> Good(freelist, blocks, memory)
  <2>1. /\ DOMAIN freelist = 1..Len(freelist)
        /\ \A i \in DOMAIN freelist : freelist[i] \in Piecelike
    BY <1>1, LenProperties, ElementOfSeq
  <2>2. FreeListOK <=> Separated(freelist)
    BY DEF FreeListOK, Separated
  <2>3. (\A b, d \in blocks : b # d => Apart(b, d))
        <=> \A b, d \in blocks : b # d => Cells(b) \cap Cells(d) = {}
    BY <1>1, ApartCells
  <2>4. (\A i \in DOMAIN freelist, b \in blocks : Apart(freelist[i], b))
        <=> CellsOf(freelist) \cap CellsIn(blocks) = {}
    <3>1. \A i \in DOMAIN freelist, b \in blocks :
            Apart(freelist[i], b) <=> Cells(freelist[i]) \cap Cells(b) = {}
      BY <1>1, <2>1, ApartCells
    <3> QED BY <3>1 DEF CellsOf, CellsIn
  <2>5. UNION {Cells(r) : r \in Pieces} = CellsOf(freelist) \cup CellsIn(blocks)
    BY DEF Pieces, CellsOf, CellsIn
  <2> QED BY <1>1, <2>2, <2>3, <2>4, <2>5 DEF MemoryAccounted, Good
<1> QED BY <1>1 DEF KallocOK, PagesInOrder, Good

\* The same of the next state.
LEMMA KallocOKGoodNext == KallocOK' <=> PagesInOrder' /\ Good(freelist', blocks', memory')
<1>1. (KallocOK <=> PagesInOrder /\ Good(freelist, blocks, memory))'
  BY KallocOKGood, PTL
<1> QED BY <1>1

\* The first pool is one free run.
LEMMA KallocOKInit == KallocInit => KallocOK
<1> SUFFICES ASSUME KallocInit PROVE PagesInOrder /\ Good(freelist, blocks, memory)
  BY KallocOKGood
<1> DEFINE b == Piece(0, POOL)
<1>1. POOL \in 1..MaxMem /\ POOL \in Nat \ {0}
  BY KallocAssumption
<1>2. b \in Piecelike /\ Cells(b) = 0..(POOL - 1)
  BY <1>1 DEF Piece, Piecelike, Cells, End
<1> HIDE DEF b
<1>3. Good(<<>>, {}, {})
  BY EmptySeq DEF Good, Separated, CellsOf, CellsIn
<1>4. Good(Freed(<<>>, b), {}, {} \cup Cells(b))
  BY <1>2, <1>3, GiveGood
<1>5. freelist = Freed(<<>>, b) /\ blocks = {} /\ memory = {} \cup Cells(b)
  BY <1>2 DEF KallocInit, b
<1>6. Good(freelist, blocks, memory)
  BY <1>4, <1>5
<1>7. PagesInOrder
  BY <1>1 DEF KallocInit, PagesInOrder
<1> QED BY <1>6, <1>7

\* What kalloc's first attempt does.
LEMMA FitStep ==
  ASSUME KallocOK, NEW n \in Lens, AllocFit(n)
  PROVE  KallocOK' /\ \E t \in Piecelike :
                    /\ t.len = n /\ t \notin blocks /\ blocks' = blocks \cup {t}
                    /\ Cells(t) \subseteq memory \ CellsIn(blocks)
                    /\ memory' = memory
<1> DEFINE i == Fit(freelist, n)
           t == Taken(freelist, i, n)
<1>1. Good(freelist, blocks, memory) /\ PagesInOrder
  BY KallocOKGood
<1>2. /\ blocks' = blocks \cup {t} /\ freelist' = Rest(freelist, i, n)
      /\ memory' = memory /\ lib' = lib
  BY DEF AllocFit, TakeFrom
<1>3. /\ t \in Piecelike /\ t.len = n /\ Cells(t) \subseteq CellsOf(freelist)
      /\ Good(Rest(freelist, i, n), blocks \cup {t}, memory)
  BY <1>1, TakeGood DEF AllocFit
<1> HIDE DEF i, t
<1>4. KallocOK'
  BY <1>1, <1>2, <1>3, KallocOKGoodNext DEF PagesInOrder
<1>5. Cells(t) \subseteq memory \ CellsIn(blocks)
  BY <1>1, <1>3 DEF Good
<1>6. t \notin blocks
  <2>1. t.at \in Cells(t)
    BY <1>3 DEF Cells, End, Piecelike
  <2> QED BY <1>5, <2>1 DEF CellsIn
<1> QED BY <1>2, <1>3, <1>4, <1>5, <1>6

\* What it does when it gets k pages.
LEMMA PagesStep ==
  ASSUME KallocOK, NEW n \in Lens, NEW k \in 1..n, AllocPages(n, k)
  PROVE  KallocOK' /\ \E t \in Piecelike :
                    /\ t.len = n /\ t \notin blocks /\ blocks' = blocks \cup {t}
                    /\ Cells(t) \subseteq memory' \ CellsIn(blocks)
                    /\ memory \subseteq memory'
<1> DEFINE b == Piece(Top, k * PAGE)
           m == memory \cup Cells(b)
           i == Fit(Pages(k), n)
           t == Taken(Pages(k), i, n)
<1>1. Good(freelist, blocks, memory) /\ PagesInOrder
  BY KallocOKGood
<1>2. /\ lib = "pages" /\ lib' = lib /\ HasFit(Pages(k), n) /\ Top + k * PAGE <= MaxMem
      /\ blocks' = blocks \cup {t} /\ freelist' = Rest(Pages(k), i, n) /\ memory' = m
  BY DEF AllocPages, TakeFrom
<1>3. Top \in 1..MaxMem /\ memory = 0..(Top - 1)
  BY <1>1, <1>2 DEF PagesInOrder, Top
<1>4. k * PAGE \in Nat \ {0}
  <2>1. PAGE \in Nat \ {0} /\ n \in Nat
    BY KallocAssumption
  <2>2. k \in Nat \ {0}
    BY <2>1
  <2> QED BY <2>1, <2>2
<1>5. b \in Piecelike /\ Cells(b) = Top..(Top + k * PAGE - 1) /\ Top \in Nat
  <2>1. Top \in Nat
    BY <1>3, KallocAssumption
  <2> QED BY <1>4, <2>1 DEF Piece, Piecelike, Cells, End
<1>6. Cells(b) \cap memory = {}
  <2> DEFINE z == k * PAGE
  <2>1. z \in Nat \ {0} /\ Cells(b) = Top..(Top + z - 1)
    BY <1>4, <1>5
  <2> HIDE DEF z
  <2> QED BY <1>3, <1>5, <2>1
<1>7. Pages(k) = Freed(freelist, b)
  BY DEF Pages
<1>8. \E z \in 1..MaxMem : m = 0..(z - 1)
  <2> DEFINE z == k * PAGE
  <2>1. z \in Nat \ {0} /\ Cells(b) = Top..(Top + z - 1) /\ Top + z <= MaxMem
    BY <1>2, <1>4, <1>5
  <2> HIDE DEF z
  <2>2. 0..(Top - 1) \cup Top..(Top + z - 1) = 0..(Top + z - 1)
    BY <1>5, <2>1
  <2>3. Top + z \in 1..MaxMem
    BY <1>5, <2>1, KallocAssumption
  <2> QED BY <1>3, <2>1, <2>2, <2>3
<1> HIDE DEF b
<1>9. Good(Pages(k), blocks, m)
  <2>1. Good(Freed(freelist, b), blocks, memory \cup Cells(b))
    BY <1>1, <1>5, <1>6, GiveGood
  <2> QED BY <1>7, <2>1
<1> HIDE DEF m
<1>10. /\ t \in Piecelike /\ t.len = n /\ Cells(t) \subseteq CellsOf(Pages(k))
       /\ Good(Rest(Pages(k), i, n), blocks \cup {t}, m)
  BY <1>2, <1>9, TakeGood
<1> HIDE DEF i, t
<1>11. KallocOK'
  <2>1. PagesInOrder'
    BY <1>2, <1>8 DEF PagesInOrder
  <2> QED BY <1>2, <1>10, <2>1, KallocOKGoodNext
<1>12. Cells(t) \subseteq m \ CellsIn(blocks)
  BY <1>9, <1>10 DEF Good
<1>13. t \notin blocks
  <2>1. t.at \in Cells(t)
    BY <1>10 DEF Cells, End, Piecelike
  <2> QED BY <1>12, <2>1 DEF CellsIn
<1>14. memory \subseteq m
  BY DEF m
<1> QED BY <1>2, <1>10, <1>11, <1>12, <1>13, <1>14

\* What it does when malloc makes the block.
LEMMA MallocStep ==
  ASSUME KallocOK, NEW n \in Lens, NEW at \in MallocAt, AllocMalloc(n, at)
  PROVE  KallocOK' /\ \E t \in Piecelike :
                    /\ t.len = n /\ t \notin blocks /\ blocks' = blocks \cup {t}
                    /\ Cells(t) \subseteq memory' \ CellsIn(blocks)
                    /\ memory \subseteq memory'
<1> DEFINE t == Piece(at, n)
<1>1. Good(freelist, blocks, memory) /\ PagesInOrder
  BY KallocOKGood
<1>2. /\ lib = "malloc" /\ lib' = lib /\ (at - 1)..(at + n) \cap memory = {}
      /\ blocks' = blocks \cup {t} /\ freelist' = freelist /\ memory' = memory \cup Cells(t)
  BY DEF AllocMalloc
<1>3. n \in Nat \ {0} /\ at \in Nat
  BY KallocAssumption DEF Words
<1>4. t \in Piecelike /\ Cells(t) = at..(at + n - 1) /\ t.len = n
  BY <1>3 DEF Piece, Piecelike, Cells, End
<1>5. at..(at + n - 1) \subseteq (at - 1)..(at + n)
  BY <1>3
<1>6. Cells(t) \cap memory = {}
  BY <1>2, <1>4, <1>5
<1> HIDE DEF t
<1>7. Good(freelist', blocks', memory')
  BY <1>1, <1>2, <1>4, <1>6, MadeGood
<1>8. KallocOK'
  BY <1>2, <1>7, KallocOKGoodNext DEF PagesInOrder
<1>9. CellsIn(blocks) \subseteq memory
  BY <1>1 DEF Good
<1>10. t \notin blocks
  <2>1. t.at \in Cells(t)
    BY <1>4 DEF Cells, End, Piecelike
  <2> QED BY <1>6, <1>9, <2>1 DEF CellsIn
<1> QED BY <1>2, <1>4, <1>6, <1>8, <1>9, <1>10

\* kfree of a block that was handed out.
LEMMA FreeStep ==
  ASSUME KallocOK, NEW b \in blocks, KFree(b.at, b.len)
  PROVE  KallocOK'
<1>1. Good(freelist, blocks, memory) /\ PagesInOrder
  BY KallocOKGood
<1>2. b \in Piecelike /\ b = Piece(b.at, b.len)
  BY <1>1 DEF Good, Piecelike, Piece
<1>3. /\ freelist' = Freed(freelist, b) /\ blocks' = blocks \ {b}
      /\ memory' = memory /\ lib' = lib
  BY <1>2 DEF KFree
<1>4. Good(freelist, blocks \ {b}, memory \ Cells(b)) /\ Cells(b) \subseteq memory
  BY <1>1, LeaveGood
<1>5. Good(Freed(freelist, b), blocks \ {b}, (memory \ Cells(b)) \cup Cells(b))
  BY <1>2, <1>4, GiveGood
<1>6. (memory \ Cells(b)) \cup Cells(b) = memory
  BY <1>4
<1> QED BY <1>1, <1>3, <1>5, <1>6, KallocOKGoodNext DEF PagesInOrder

-----------------------------------------------------------------------------
(* The theorems *)

\* The free list stays sorted and joined and every word is in exactly one run or block,
\* whatever is asked for and given back in whatever order, as long as nobody has
\* written over the header of a run.
THEOREM FreeListInvariant == KallocSpec => []KInv
<1>1. KallocInit => KInv
  BY KallocOKInit DEF KInv
<1>2. KInv /\ [KallocNext]_kallocvars => KInv'
  <2> SUFFICES ASSUME KInv, [KallocNext]_kallocvars PROVE KInv'
    OBVIOUS
  <2>1. ASSUME NEW n \in Lens, KAlloc(n) PROVE KInv'
    <3>1. intact' = intact
      BY <2>1 DEF KAlloc, AllocFit, AllocPages, AllocMalloc
    <3>2. KallocOK => KallocOK'
      BY <2>1, FitStep, PagesStep, MallocStep DEF KAlloc
    <3> QED BY <3>1, <3>2 DEF KInv
  <2>2. ASSUME NEW b \in blocks, KFree(b.at, b.len) PROVE KInv'
    <3>1. intact' = intact
      BY <2>2 DEF KFree
    <3> QED BY <2>2, <3>1, FreeStep DEF KInv
  <2>3. ASSUME NEW b \in blocks, Write(b) PROVE KInv'
    BY <2>3 DEF Write, KInv
  <2>4. CASE UNCHANGED kallocvars
    <3>1. intact' = intact
      BY <2>4 DEF kallocvars
    <3>2. KallocOK => KallocOK'
      BY <2>4, KallocOKGood, KallocOKGoodNext DEF kallocvars, PagesInOrder
    <3> QED BY <3>1, <3>2 DEF KInv
  <2> QED BY <2>1, <2>2, <2>3, <2>4 DEF KallocNext
<1> QED BY <1>1, <1>2, PTL DEF KallocSpec

\* Runs that touch have been joined, so that a free interval lies in one run: when
\* no run is long enough, there is no room.
LEMMA RoomHasFit ==
  ASSUME Good(freelist, blocks, memory), NEW n \in Lens, A!Room(n)
  PROVE  HasFit(freelist, n)
<1>1. /\ freelist \in Seq(Piecelike) /\ Separated(freelist)
      /\ memory = CellsOf(freelist) \cup CellsIn(blocks)
  BY DEF Good
<1>2. /\ Len(freelist) \in Nat /\ DOMAIN freelist = 1..Len(freelist)
      /\ \A i \in DOMAIN freelist : freelist[i] \in Piecelike
  BY <1>1, LenProperties, ElementOfSeq
<1>3. n \in Nat \ {0}
  BY KallocAssumption
<1>4. PICK at \in memory :
        A!Cells([at |-> at, len |-> n]) \subseteq memory \ UNION {A!Cells(b) : b \in blocks}
  BY DEF A!Room, A!Unused
<1>5. A!Cells([at |-> at, len |-> n]) = at..(at + n - 1)
  BY DEF A!Cells
<1>6. \A b \in blocks : A!Cells(b) = Cells(b)
  BY DEF A!Cells, Cells, End, Good, Piecelike
<1>7. at..(at + n - 1) \subseteq CellsOf(freelist)
  BY <1>1, <1>4, <1>5, <1>6 DEF CellsIn
<1>8. at \in Nat
  <2>1. \A r \in Piecelike : Cells(r) \subseteq Nat
    BY DEF Cells, End, Piecelike
  <2>2. blocks \subseteq Piecelike
    BY DEF Good
  <2> QED BY <1>1, <1>2, <2>1, <2>2 DEF CellsOf, CellsIn
<1>9. PICK i \in DOMAIN freelist : at \in Cells(freelist[i])
  BY <1>3, <1>7, <1>8 DEF CellsOf
<1>10. freelist[i].at <= at /\ at < End(freelist[i]) /\ End(freelist[i]) \in Nat
  BY <1>2, <1>8, <1>9 DEF Cells, End, Piecelike
<1>11. End(freelist[i]) >= at + n
  <2> SUFFICES ASSUME End(freelist[i]) < at + n PROVE FALSE
    BY <1>3, <1>8, <1>10
  <2>1. End(freelist[i]) \in at..(at + n - 1)
    BY <1>3, <1>8, <1>10
  <2>2. PICK j \in DOMAIN freelist : End(freelist[i]) \in Cells(freelist[j])
    BY <1>7, <2>1 DEF CellsOf
  <2>3. freelist[j].at <= End(freelist[i]) /\ End(freelist[i]) < End(freelist[j])
    BY <1>2, <1>10, <2>2 DEF Cells, End, Piecelike
  <2>4. /\ freelist[j].at \in Nat /\ End(freelist[j]) \in Nat
        /\ freelist[i].at \in Nat /\ freelist[i].at < End(freelist[i])
    BY <1>2, <1>10 DEF End, Piecelike
  <2>5. i < j \/ i = j \/ j < i
    BY <1>2
  <2>6. CASE i < j
    BY <1>1, <1>10, <2>3, <2>4, <2>6 DEF Separated
  <2>7. CASE i = j
    BY <1>10, <2>3, <2>7
  <2>8. CASE j < i
    <3>1. End(freelist[j]) < freelist[i].at
      BY <1>1, <2>8 DEF Separated
    <3> QED BY <1>10, <2>3, <2>4, <3>1
  <2> QED BY <2>5, <2>6, <2>7, <2>8
<1>12. freelist[i].len >= n
  BY <1>2, <1>3, <1>8, <1>10, <1>11 DEF End, Piecelike
<1> QED BY <1>9, <1>12 DEF HasFit

\* kalloc hands out words that no other block has, and asks the system for memory only
\* when there is no free interval that is long enough, as long as nobody has written
\* over the header of a run.
THEOREM KeepsAllocatorPromise == KallocSpec => AllocatorPromise
<1>1. KallocInit => A!Init
  <2>1. 0 \in 0..(POOL - 1)
    BY KallocAssumption
  <2> QED BY <2>1 DEF KallocInit, A!Init
<1>2. KInv /\ [KallocNext]_kallocvars => [intact => A!Next]_(A!avars)
  <2> SUFFICES ASSUME KallocOK, [KallocNext]_kallocvars PROVE [A!Next]_(A!avars)
    BY DEF KInv
  <2>1. Good(freelist, blocks, memory)
    BY KallocOKGood
  <2>2. CellsIn(blocks) = UNION {A!Cells(b) : b \in blocks}
    <3>1. \A b \in blocks : A!Cells(b) = Cells(b)
      BY <2>1 DEF A!Cells, Cells, End, Good, Piecelike
    <3> QED BY <3>1 DEF CellsIn
  <2>3. ASSUME NEW n \in Lens, KAlloc(n) PROVE A!Next
    <3>1. PICK t \in Piecelike :
             /\ t.len = n /\ t \notin blocks /\ blocks' = blocks \cup {t}
             /\ Cells(t) \subseteq memory' \ CellsIn(blocks)
             /\ IF HasFit(freelist, n) THEN memory' = memory ELSE memory \subseteq memory'
      <4>1. CASE AllocFit(n)
        BY <4>1, FitStep DEF AllocFit
      <4>2. ASSUME NEW k \in 1..n, AllocPages(n, k) PROVE ~HasFit(freelist, n)
        BY <4>2 DEF AllocPages
      <4>3. ASSUME NEW at \in MallocAt, AllocMalloc(n, at) PROVE ~HasFit(freelist, n)
        BY <4>3 DEF AllocMalloc
      <4> QED BY <2>3, <4>1, <4>2, <4>3, PagesStep, MallocStep DEF KAlloc
    <3>2. A!Room(n) => memory' = memory
      BY <2>1, <3>1, RoomHasFit
    <3>3. memory \subseteq memory'
      BY <3>1
    <3>4. A!Cells(t) = Cells(t)
      BY DEF A!Cells, Cells, End, Piecelike
    <3> QED BY <2>2, <3>1, <3>2, <3>3, <3>4 DEF A!Next, A!Alloc, A!Unused
  <2>4. ASSUME NEW b \in blocks, KFree(b.at, b.len) PROVE A!Next
    <3>1. b = Piece(b.at, b.len)
      BY <2>1 DEF Good, Piecelike, Piece
    <3> QED BY <2>4, <3>1 DEF KFree, A!Next, A!Free
  <2>5. ASSUME NEW b \in blocks, Write(b) PROVE UNCHANGED A!avars
    BY <2>5 DEF Write, A!avars
  <2>6. CASE UNCHANGED kallocvars
    BY <2>6 DEF kallocvars, A!avars
  <2> QED BY <2>3, <2>4, <2>5, <2>6 DEF KallocNext
<1> QED BY <1>1, <1>2, FreeListInvariant, PTL DEF KallocSpec, AllocatorPromise
=============================================================================
