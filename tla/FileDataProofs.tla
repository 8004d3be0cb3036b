--------------------------- MODULE FileDataProofs ---------------------------
(***************************************************************************)
(* What TLAPS proves of file contents, for any files, data and record      *)
(* sizes: references are counted exactly but for the leaks of failures,    *)
(* records are well cut, ranges are read exactly, and the data operations  *)
(* implement ByteFiles.                                                    *)
(*                                                                         *)
(* It all rests on one shape: an inode of a file with the bytes b is, for  *)
(* some record size, what set_data would have made of b, whatever writes,  *)
(* truncations and failures led there.                                     *)
(***************************************************************************)
EXTENDS FileData, InductionFacts, FiniteSetTheorems

RecordRec == [rec : Seq(Nat)]
Content == RecordRec \cup [map : Seq(RecordRec)]

RecordSizes == {Sizes[i] : i \in DOMAIN Sizes}

\* The inode of a file with the bytes b in records of rs bytes.
FileOf(b, rs) == StoredInode(SplitRecords(b, rs), Len(b), rs)

Bytes == {b \in Seq(Nat) : Len(b) <= MaxSize}

Inodes == {FileOf(b, rs) : b \in Bytes, rs \in RecordSizes}

----------------------------------------------------------------------------
(* Arithmetic. *)

LEMMA MulMono == ASSUME NEW a \in Nat, NEW b \in Nat, NEW d \in Nat, a <= b PROVE a * d <= b * d
<1>1. PICK k \in Nat : b = a + k
  <2>1. b - a \in Nat /\ b = a + (b - a)
    OBVIOUS
  <2>2. QED
    BY <2>1
<1>2. (a + k) * d = a * d + k * d /\ k * d \in Nat /\ a * d \in Nat
  OBVIOUS
<1>3. QED
  BY <1>1, <1>2

\* The i-th of the pieces of d that n is cut into starts below n.
LEMMA CeilDivFacts ==
  ASSUME NEW n \in Nat, NEW d \in Nat \ {0}
  PROVE  /\ CeilDiv(n, d) \in Nat
         /\ \A i \in Nat \ {0} : i <= CeilDiv(n, d) <=> (i - 1) * d < n
<1> DEFINE q == CeilDiv(n, d)
<1>1. q \in Nat /\ q * d >= n /\ q * d < n + d
  BY DEF CeilDiv
<1> HIDE DEF q
<1>2. ASSUME NEW i \in Nat \ {0} PROVE i <= q <=> (i - 1) * d < n
  <2>1. i - 1 \in Nat /\ (i - 1) * d \in Nat /\ q * d \in Nat
    BY <1>1
  <2>2. CASE i <= q
    <3>1. i * d <= q * d
      BY <1>1, <2>2, MulMono
    <3>2. i * d = (i - 1) * d + d
      OBVIOUS
    <3>3. QED
      BY <1>1, <2>1, <2>2, <3>1, <3>2
  <2>3. CASE ~(i <= q)
    <3>1. q <= i - 1
      BY <1>1, <2>3
    <3>2. q * d <= (i - 1) * d
      BY <1>1, <2>1, <3>1, MulMono
    <3>3. QED
      BY <1>1, <2>1, <2>3, <3>2
  <2>4. QED
    BY <2>2, <2>3
<1>3. QED
  BY <1>1, <1>2 DEF q

\* Where the records of n bytes begin and end.
LEMMA CutFacts ==
  ASSUME NEW n \in Nat, NEW d \in Nat \ {0}
  PROVE  /\ CeilDiv(n, d) \in Nat
         /\ CeilDiv(n, d) = 0 <=> n = 0
         /\ CeilDiv(n, d) * d >= n
         /\ \A i \in 1 .. CeilDiv(n, d) :
               /\ (i - 1) * d \in Nat /\ i * d \in Nat /\ i * d = (i - 1) * d + d
               /\ (i - 1) * d < n
               /\ Least(i * d, n) \in Nat /\ (i - 1) * d < Least(i * d, n) /\ Least(i * d, n) <= n
         /\ Least(CeilDiv(n, d) * d, n) = n
         /\ \A m \in Nat : n <= m => CeilDiv(n, d) <= CeilDiv(m, d)
<1> DEFINE q == CeilDiv(n, d)
<1>1. q \in Nat /\ \A i \in Nat \ {0} : i <= q <=> (i - 1) * d < n
  BY CeilDivFacts
<1>2. \A m \in Nat : CeilDiv(m, d) \in Nat /\ \A i \in Nat \ {0} : i <= CeilDiv(m, d) <=> (i - 1) * d < m
  BY CeilDivFacts
<1> HIDE DEF q
<1>3. q = 0 <=> n = 0
  <2>1. 1 <= q <=> (1 - 1) * d < n
    BY <1>1
  <2>2. (1 - 1) * d = 0
    OBVIOUS
  <2>3. QED
    BY <1>1, <2>1, <2>2
<1>4. q * d >= n /\ q * d \in Nat
  <2>1. q + 1 <= q <=> (q + 1 - 1) * d < n
    BY <1>1
  <2>2. q + 1 - 1 = q /\ ~(q + 1 <= q) /\ q * d \in Nat
    BY <1>1
  <2>3. QED
    BY <2>1, <2>2
<1>5. ASSUME NEW i \in 1 .. q
      PROVE  /\ (i - 1) * d \in Nat /\ i * d \in Nat /\ i * d = (i - 1) * d + d
             /\ (i - 1) * d < n
             /\ Least(i * d, n) \in Nat /\ (i - 1) * d < Least(i * d, n) /\ Least(i * d, n) <= n
  <2>1. i \in Nat \ {0} /\ i <= q /\ i - 1 \in Nat
    BY <1>1
  <2>2. (i - 1) * d \in Nat /\ i * d \in Nat /\ i * d = (i - 1) * d + d
    BY <2>1
  <2>3. (i - 1) * d < n
    BY <1>1, <2>1
  <2>4. QED
    BY <2>2, <2>3 DEF Least
<1>6. Least(q * d, n) = n
  BY <1>4 DEF Least
<1>7. ASSUME NEW m \in Nat, n <= m PROVE q <= CeilDiv(m, d)
  <2>1. CASE q = 0
    BY <1>2, <2>1
  <2>2. CASE q # 0
    <3>1. q \in Nat \ {0} /\ q <= q /\ (q - 1) * d \in Nat
      BY <1>1, <2>2
    <3>2. (q - 1) * d < n
      BY <1>1, <3>1
    <3>3. (q - 1) * d < m
      BY <1>7, <3>1, <3>2
    <3>4. QED
      BY <1>2, <3>1, <3>3
  <2>3. QED
    BY <2>1, <2>2
<1>8. QED
  BY <1>1, <1>3, <1>4, <1>5, <1>6, <1>7 DEF q

----------------------------------------------------------------------------
(* Sequences. *)

\* A piece of a sequence, from position a + 1 to b.
LEMMA PieceFacts ==
  ASSUME NEW S, NEW t \in Seq(S), NEW a \in Nat, NEW b \in Nat, a <= b, b <= Len(t)
  PROVE  /\ SubSeq(t, a + 1, b) \in Seq(S) /\ Len(SubSeq(t, a + 1, b)) = b - a
         /\ \A i \in 1 .. b - a : SubSeq(t, a + 1, b)[i] = t[a + i]
OBVIOUS

LEMMA SeqEqual ==
  ASSUME NEW S, NEW s \in Seq(S), NEW t \in Seq(S), Len(s) = Len(t),
         \A i \in 1 .. Len(s) : s[i] = t[i]
  PROVE  s = t
OBVIOUS

LEMMA ConcatFacts ==
  ASSUME NEW S, NEW s \in Seq(S), NEW t \in Seq(S)
  PROVE  /\ s \o t \in Seq(S) /\ Len(s \o t) = Len(s) + Len(t)
         /\ \A i \in 1 .. Len(s) : (s \o t)[i] = s[i]
         /\ \A i \in 1 .. Len(t) : (s \o t)[Len(s) + i] = t[i]
OBVIOUS

LEMMA PieceConcat ==
  ASSUME NEW S, NEW t \in Seq(S), NEW a \in Nat, NEW b \in Nat, NEW c \in Nat,
         a <= b, b <= c, c <= Len(t)
  PROVE  SubSeq(t, a + 1, b) \o SubSeq(t, b + 1, c) = SubSeq(t, a + 1, c)
<1> DEFINE u == SubSeq(t, a + 1, b)
           v == SubSeq(t, b + 1, c)
           w == SubSeq(t, a + 1, c)
<1>1. u \in Seq(S) /\ Len(u) = b - a /\ \A i \in 1 .. b - a : u[i] = t[a + i]
  BY PieceFacts
<1>2. v \in Seq(S) /\ Len(v) = c - b /\ \A i \in 1 .. c - b : v[i] = t[b + i]
  BY PieceFacts
<1>3. w \in Seq(S) /\ Len(w) = c - a /\ \A i \in 1 .. c - a : w[i] = t[a + i]
  <2>1. a <= c
    OBVIOUS
  <2>2. QED
    BY <2>1, PieceFacts
<1> HIDE DEF u, v, w
<1>4. /\ u \o v \in Seq(S) /\ Len(u \o v) = c - a
      /\ \A i \in 1 .. b - a : (u \o v)[i] = u[i]
      /\ \A i \in 1 .. c - b : (u \o v)[b - a + i] = v[i]
  <2> DEFINE y == u \o v
  <2>1. /\ y \in Seq(S) /\ Len(y) = Len(u) + Len(v)
        /\ \A i \in 1 .. Len(u) : y[i] = u[i]
        /\ \A i \in 1 .. Len(v) : y[Len(u) + i] = v[i]
    <3>1. u \in Seq(S) /\ v \in Seq(S)
      BY <1>1, <1>2
    <3>2. QED
      BY <3>1
  <2> HIDE DEF y
  <2>2. Len(y) = c - a
    BY <1>1, <1>2, <2>1
  <2>3. QED
    BY <1>1, <1>2, <2>1, <2>2 DEF y
<1>5. ASSUME NEW i \in 1 .. c - a PROVE (u \o v)[i] = w[i]
  <2>1. CASE i <= b - a
    BY <1>1, <1>3, <1>4, <2>1, SMTT(30)
  <2>2. CASE ~(i <= b - a)
    <3> DEFINE j == i - (b - a)
    <3>1. j \in 1 .. c - b /\ b - a + j = i /\ b + j = a + i
      BY <2>2
    <3> HIDE DEF j
    <3>2. (u \o v)[i] = v[j]
      BY <1>4, <3>1
    <3>3. v[j] = t[a + i]
      BY <1>2, <3>1
    <3>4. QED
      BY <1>3, <3>2, <3>3
  <2>3. QED
    BY <2>1, <2>2
<1> DEFINE x == u \o v
<1>6. x \in Seq(S) /\ Len(x) = Len(w) /\ \A i \in 1 .. Len(x) : x[i] = w[i]
  BY <1>3, <1>4, <1>5
<1> HIDE DEF x
<1>7. x = w
  BY <1>3, <1>6, SeqEqual
<1>8. QED
  BY <1>7 DEF x, u, v, w

\* The sequences q are the pieces that t is cut into, e[i] being the end of the i-th.
Pieces(q, t, e, N, S) ==
    /\ t \in Seq(S) /\ N \in Nat /\ e \in [0 .. N -> Nat]
    /\ \A i \in 0 .. N : e[i] <= Len(t)
    /\ \A i \in 1 .. N : e[i - 1] <= e[i]
    /\ q \in Seq(Seq(S)) /\ Len(q) = N
    /\ \A i \in 1 .. N : q[i] = SubSeq(t, e[i - 1] + 1, e[i])

LEMMA FlattenFacts ==
  ASSUME NEW S, NEW t, NEW N, NEW e, NEW q, Pieces(q, t, e, N, S)
  PROVE  FlattenSeq(q) = SubSeq(t, e[0] + 1, e[N])
<1> t \in Seq(S) /\ N \in Nat /\ e \in [0 .. N -> Nat] /\ q \in Seq(Seq(S)) /\ Len(q) = N
  BY DEF Pieces
<1> /\ \A i \in 0 .. N : e[i] <= Len(t)
    /\ \A i \in 1 .. N : e[i - 1] <= e[i]
    /\ \A i \in 1 .. N : q[i] = SubSeq(t, e[i - 1] + 1, e[i])
  BY DEF Pieces
<1>1. CASE N = 0
  <2>1. q = <<>>
    BY <1>1
  <2>2. FlattenSeq(q) = q
    BY <1>1 DEF FlattenSeq
  <2>3. e[0] \in Nat /\ e[0] <= Len(t)
    OBVIOUS
  <2>4. SubSeq(t, e[0] + 1, e[0]) = <<>>
    BY <2>3
  <2>5. QED
    BY <1>1, <2>1, <2>2, <2>4
<1>2. CASE N # 0
  <2> DEFINE P(i) == SubSeq(t, e[0] + 1, e[i])
             Eq(g) == g = [i \in 1 .. Len(q) |-> IF i = 1 THEN q[i] ELSE g[i - 1] \o q[i]]
             f == CHOOSE g : Eq(g)
             A == {k \in Nat : k <= N => e[0] <= e[k]}
             B == {k \in Nat : k < N => f[k + 1] = P(k + 1)}
  <2>1. FlattenSeq(q) = f[N]
    BY <1>2 DEF FlattenSeq
  <2>2. \A i \in 0 .. N : e[i] \in Nat
    OBVIOUS
  <2>3. ASSUME NEW i \in 0 .. N PROVE e[0] <= e[i]
    <3>1. 0 \in A
      BY <2>2
    <3>2. ASSUME NEW k \in A PROVE k + 1 \in A
      <4>1. k \in Nat
        OBVIOUS
      <4>2. ASSUME k + 1 <= N PROVE e[0] <= e[k + 1]
        <5>1. e[0] <= e[k]
          BY <4>1, <4>2
        <5>2. k + 1 \in 1 .. N /\ (k + 1) - 1 = k /\ 0 \in 0 .. N /\ k \in 0 .. N /\ k + 1 \in 0 .. N
          BY <4>1, <4>2
        <5>3. e[k] <= e[k + 1]
          BY <5>2
        <5>4. QED
          BY <2>2, <5>1, <5>2, <5>3
      <4>3. QED
        BY <4>1, <4>2
    <3> HIDE DEF A
    <3>3. A \in SUBSET Nat
      BY DEF A
    <3>4. i \in Nat /\ i <= N
      OBVIOUS
    <3>5. i \in A
      BY <3>1, <3>2, <3>3, <3>4, SetInduction
    <3>6. QED
      BY <3>4, <3>5 DEF A
  <2>4. ASSUME NEW i \in 1 .. N, i # 1 PROVE P(i) = P(i - 1) \o q[i]
    <3> DEFINE a == e[0]
               b == e[i - 1]
               c == e[i]
    <3>1. i - 1 \in 0 .. N /\ i \in 0 .. N /\ 0 \in 0 .. N
      BY <2>4
    <3>2. a \in Nat /\ b \in Nat /\ c \in Nat /\ b <= c /\ c <= Len(t) /\ a <= b
      BY <2>2, <2>3, <3>1
    <3>3. q[i] = SubSeq(t, b + 1, c)
      OBVIOUS
    <3>4. P(i) = SubSeq(t, a + 1, c) /\ P(i - 1) = SubSeq(t, a + 1, b)
      OBVIOUS
    <3> HIDE DEF a, b, c, P
    <3>5. SubSeq(t, a + 1, b) \o SubSeq(t, b + 1, c) = SubSeq(t, a + 1, c)
      BY <3>2, PieceConcat, ZenonT(60)
    <3>6. QED
      BY <3>3, <3>4, <3>5
  <2>5. P(1) = q[1]
    <3>1. 1 \in 1 .. N /\ 1 - 1 = 0
      BY <1>2
    <3>2. q[1] = SubSeq(t, e[1 - 1] + 1, e[1])
      BY <3>1
    <3>3. QED
      BY <3>1, <3>2
  <2> HIDE DEF P
  <2>6. \E g : Eq(g)
    <3> DEFINE g == [i \in 1 .. N |-> P(i)]
    <3>1. ASSUME NEW i \in 1 .. N PROVE P(i) = IF i = 1 THEN q[i] ELSE g[i - 1] \o q[i]
      <4>1. i # 1 => i - 1 \in 1 .. N
        OBVIOUS
      <4>2. i # 1 => g[i - 1] = P(i - 1)
        BY <4>1
      <4>3. QED
        BY <2>4, <2>5, <4>2
    <3>2. Eq(g)
      BY <3>1
    <3> HIDE DEF g, Eq
    <3>3. QED
      BY <3>2
  <2>7. Eq(f)
    <3> HIDE DEF Eq
    <3>1. QED
      BY <2>6
  <2>8. \A i \in 1 .. N : f[i] = IF i = 1 THEN q[i] ELSE f[i - 1] \o q[i]
    <3> HIDE DEF f
    <3>1. QED
      BY <2>7
  <2> HIDE DEF f, Eq
  <2>9. 0 \in B
    BY <1>2, <2>5, <2>8
  <2>10. ASSUME NEW k \in B PROVE k + 1 \in B
    <3>1. k \in Nat
      OBVIOUS
    <3>2. ASSUME k + 1 < N PROVE f[k + 2] = P(k + 2)
      <4>1. f[k + 1] = P(k + 1)
        BY <3>1, <3>2
      <4>2. k + 2 \in 1 .. N /\ k + 2 # 1 /\ (k + 2) - 1 = k + 1
        BY <3>1, <3>2
      <4>3. f[k + 2] = f[k + 1] \o q[k + 2]
        BY <2>8, <4>2
      <4>4. P(k + 2) = P(k + 1) \o q[k + 2]
        BY <2>4, <4>2
      <4>5. QED
        BY <4>1, <4>3, <4>4
    <3>3. k + 1 \in Nat /\ (k + 1) + 1 = k + 2
      BY <3>1
    <3>4. QED
      BY <3>2, <3>3
  <2> HIDE DEF B
  <2>11. B \in SUBSET Nat
    BY DEF B
  <2>12. N - 1 \in Nat /\ N - 1 < N /\ (N - 1) + 1 = N
    BY <1>2
  <2>13. N - 1 \in B
    BY <2>9, <2>10, <2>11, <2>12, SetInduction
  <2>14. f[N] = P(N)
    BY <2>12, <2>13 DEF B
  <2>15. QED
    BY <2>1, <2>14 DEF P
<1>3. QED
  BY <1>1, <1>2

----------------------------------------------------------------------------
(* Records and inodes. *)

LEMMA SplitFacts ==
  ASSUME NEW b \in Seq(Nat), NEW rs \in Nat \ {0}
  PROVE  /\ SplitRecords(b, rs) \in Seq(RecordRec)
         /\ Len(SplitRecords(b, rs)) = CeilDiv(Len(b), rs)
         /\ SplitRecords(b, rs) = <<>> <=> b = <<>>
         /\ \A i \in 1 .. CeilDiv(Len(b), rs) :
               SplitRecords(b, rs)[i].rec = SubSeq(b, (i - 1) * rs + 1, Least(i * rs, Len(b)))
         /\ \A i \in 1 .. CeilDiv(Len(b), rs) :
               SplitRecords(b, rs)[i] = Record(SubSeq(b, (i - 1) * rs + 1, Least(i * rs, Len(b))))
         /\ \A i \in 1 .. CeilDiv(Len(b), rs) :
               Len(SplitRecords(b, rs)[i].rec) = Least(i * rs, Len(b)) - (i - 1) * rs
<1> DEFINE n == Len(b)
           N == CeilDiv(n, rs)
           P(i) == SubSeq(b, (i - 1) * rs + 1, Least(i * rs, n))
           r == SplitRecords(b, rs)
<1>1. n \in Nat
  OBVIOUS
<1>2. /\ N \in Nat /\ (N = 0 <=> n = 0)
      /\ \A i \in 1 .. N : /\ (i - 1) * rs \in Nat /\ Least(i * rs, n) \in Nat
                           /\ (i - 1) * rs < Least(i * rs, n) /\ Least(i * rs, n) <= n
  BY <1>1, CutFacts
<1>3. ASSUME NEW i \in 1 .. N
      PROVE  P(i) \in Seq(Nat) /\ Len(P(i)) = Least(i * rs, n) - (i - 1) * rs
  <2> DEFINE x == (i - 1) * rs
             y == Least(i * rs, n)
  <2>1. x \in Nat /\ y \in Nat /\ x <= y /\ y <= Len(b)
    BY <1>2
  <2> HIDE DEF x, y
  <2>2. SubSeq(b, x + 1, y) \in Seq(Nat) /\ Len(SubSeq(b, x + 1, y)) = y - x
    BY <2>1, PieceFacts
  <2>3. QED
    BY <2>2 DEF x, y
<1>4. r = [i \in 1 .. N |-> Record(P(i))]
  BY DEF SplitRecords
<1> HIDE DEF N, P, r
<1>5. \A i \in 1 .. N : r[i] = Record(P(i)) /\ r[i].rec = P(i) /\ r[i] \in RecordRec
  BY <1>3, <1>4 DEF Record, RecordRec
<1>6. r \in Seq(RecordRec) /\ Len(r) = N
  BY <1>2, <1>4, <1>5
<1>7. r = <<>> <=> b = <<>>
  <2>1. r = <<>> <=> N = 0
    BY <1>2, <1>6
  <2>2. b = <<>> <=> n = 0
    OBVIOUS
  <2>3. QED
    BY <1>2, <2>1, <2>2
<1>8. QED
  BY <1>3, <1>5, <1>6, <1>7 DEF N, P, r

\* The bytes of records that were cut from b are b.
LEMMA FlattenSplit ==
  ASSUME NEW b \in Seq(Nat), NEW rs \in Nat \ {0}
  PROVE  FlattenSeq([i \in DOMAIN SplitRecords(b, rs) |-> SplitRecords(b, rs)[i].rec]) = b
<1> DEFINE n == Len(b)
           N == CeilDiv(n, rs)
           r == SplitRecords(b, rs)
           e == [i \in 0 .. N |-> Least(i * rs, n)]
           q == [i \in DOMAIN r |-> r[i].rec]
<1>1. n \in Nat
  OBVIOUS
<1>2. /\ N \in Nat /\ (N = 0 <=> n = 0) /\ Least(N * rs, n) = n
      /\ \A i \in 1 .. N : /\ (i - 1) * rs \in Nat /\ i * rs \in Nat /\ (i - 1) * rs < n
                           /\ Least(i * rs, n) \in Nat
                           /\ (i - 1) * rs < Least(i * rs, n) /\ Least(i * rs, n) <= n
  BY <1>1, CutFacts
<1>3. /\ r \in Seq(RecordRec) /\ Len(r) = N
      /\ \A i \in 1 .. N : r[i].rec = SubSeq(b, (i - 1) * rs + 1, Least(i * rs, n))
  BY SplitFacts
<1> HIDE DEF N, r
<1>4. 0 * rs = 0 /\ Least(0 * rs, n) = 0
  BY <1>1 DEF Least
<1>5. \A i \in 0 .. N : Least(i * rs, n) \in Nat /\ Least(i * rs, n) <= n
  <2>1. ASSUME NEW i \in 0 .. N PROVE Least(i * rs, n) \in Nat /\ Least(i * rs, n) <= n
    <3>1. CASE i = 0
      BY <1>1, <1>4, <3>1
    <3>2. CASE i # 0
      <4>1. i \in 1 .. N
        BY <1>2, <3>2
      <4>2. QED
        BY <1>2, <4>1
    <3>3. QED
      BY <3>1, <3>2
  <2>2. QED
    BY <2>1
<1>6. \A i \in 1 .. N : e[i - 1] = (i - 1) * rs /\ e[i] = Least(i * rs, n)
  <2>1. ASSUME NEW i \in 1 .. N PROVE e[i - 1] = (i - 1) * rs /\ e[i] = Least(i * rs, n)
    <3>1. i - 1 \in 0 .. N /\ i \in 0 .. N
      BY <1>2
    <3>2. e[i - 1] = Least((i - 1) * rs, n) /\ e[i] = Least(i * rs, n)
      BY <3>1
    <3>3. Least((i - 1) * rs, n) = (i - 1) * rs
      BY <1>2 DEF Least
    <3>4. QED
      BY <3>2, <3>3
  <2>2. QED
    BY <2>1
<1>7. e \in [0 .. N -> Nat] /\ \A i \in 0 .. N : e[i] <= Len(b)
  BY <1>5
<1>8. e[0] = 0 /\ e[N] = n
  BY <1>2, <1>4
<1> HIDE DEF e
<1>9. \A i \in 1 .. N : e[i - 1] <= e[i]
  BY <1>2, <1>6
<1>10. /\ q \in Seq(Seq(Nat)) /\ Len(q) = N
       /\ \A i \in 1 .. N : q[i] = SubSeq(b, e[i - 1] + 1, e[i])
  <2>1. q = [i \in 1 .. N |-> r[i].rec]
    BY <1>3
  <2>2. \A i \in 1 .. N : r[i].rec \in Seq(Nat)
    <3>1. \A i \in 1 .. N : r[i] \in RecordRec
      BY <1>3
    <3>2. QED
      BY <3>1 DEF RecordRec
  <2>3. q \in Seq(Seq(Nat)) /\ Len(q) = N
    BY <1>2, <2>1, <2>2
  <2>4. \A i \in 1 .. N : q[i] = SubSeq(b, (i - 1) * rs + 1, Least(i * rs, n))
    BY <1>3, <2>1
  <2>5. QED
    BY <1>6, <2>3, <2>4
<1> HIDE DEF q, n
<1>11. FlattenSeq(q) = SubSeq(b, e[0] + 1, e[N])
  <2>1. Pieces(q, b, e, N, Nat)
    BY <1>2, <1>7, <1>9, <1>10 DEF Pieces
  <2>2. QED
    BY <2>1, FlattenFacts
<1>12. SubSeq(b, 1, n) = b
  BY DEF n
<1>13. FlattenSeq(q) = b
  BY <1>8, <1>11, <1>12
<1>14. QED
  BY <1>13 DEF q, r

\* What the readers and release_data find in the inode of a file.
LEMMA FileFacts ==
  ASSUME NEW b \in Seq(Nat), NEW rs \in Nat \ {0}
  PROVE  /\ FileOf(b, rs).size = Len(b)
         /\ Len(b) > 0 => FileOf(b, rs).rs = rs
         /\ LoadRefs(FileOf(b, rs)) = SplitRecords(b, rs)
         /\ Container(FileOf(b, rs)) = MapBlob(SplitRecords(b, rs))
         /\ GetData(FileOf(b, rs)) = b
         /\ b = <<>> => FileOf(b, rs) = NoData
         /\ FileOf(b, rs).inline \in BOOLEAN
<1> DEFINE r == SplitRecords(b, rs)
           in == FileOf(b, rs)
<1>1. r \in Seq(RecordRec) /\ (r = <<>> <=> b = <<>>)
  BY SplitFacts
<1>2. FlattenSeq([i \in DOMAIN r |-> r[i].rec]) = b
  BY FlattenSplit
<1>3. in = StoredInode(r, Len(b), rs)
  BY DEF FileOf
<1> HIDE DEF r, in
<1>4. /\ in.size = Len(b) /\ (Len(b) > 0 => in.rs = rs) /\ LoadRefs(in) = r
      /\ Container(in) = MapBlob(r) /\ (b = <<>> => in = NoData) /\ in.inline \in BOOLEAN
  <2>1. CASE b = <<>>
    <3>1. r = <<>> /\ in = NoData /\ Len(b) = 0
      BY <1>1, <1>3, <2>1 DEF StoredInode
    <3>2. in.size = 0 /\ in.inline = FALSE
      BY <3>1 DEF NoData
    <3>3. LoadRefs(in) = <<>> /\ Container(in) = <<>> /\ MapBlob(r) = <<>>
      BY <3>1, <3>2 DEF LoadRefs, Container, MapBlob
    <3>4. ~(Len(b) > 0)
      BY <3>1
    <3>5. QED
      BY <3>1, <3>2, <3>3, <3>4
  <2>2. CASE b # <<>>
    <3> DEFINE one == Len(r) = 1
               ref == IF one THEN r[1] ELSE BlockMap(r)
    <3>1. r # <<>> /\ Len(b) \in Nat /\ Len(b) > 0 /\ Len(r) \in Nat /\ Len(r) > 0
      BY <1>1, <2>2
    <3>2. in = [size |-> Len(b), rs |-> rs, inline |-> one, ref |-> ref]
      BY <1>3, <3>1 DEF StoredInode
    <3> HIDE DEF one, ref
    <3>3. in.size = Len(b) /\ in.rs = rs /\ in.ref = ref
      BY <3>2
    <3>4. in.inline = one
      BY <3>2
    <3>5. CASE one
      <4>1. ref = r[1] /\ <<r[1]>> = r /\ ~(Len(r) > 1)
        BY <1>1, <3>5 DEF one, ref
      <4>2. LoadRefs(in) = r /\ Container(in) = <<>> /\ MapBlob(r) = <<>>
        BY <3>1, <3>3, <3>4, <3>5, <4>1 DEF LoadRefs, Container, MapBlob
      <4>3. in.inline \in BOOLEAN
        BY <3>4, <3>5
      <4>4. QED
        BY <2>2, <3>3, <4>2, <4>3
    <3>6. CASE ~one
      <4>1. ref = BlockMap(r) /\ ref.map = r /\ Len(r) > 1
        <5>1. ref = BlockMap(r)
          BY <3>6 DEF ref
        <5>2. ref.map = r
          BY <5>1 DEF BlockMap
        <5>3. Len(r) # 1
          BY <3>6 DEF one
        <5>4. Len(r) > 1
          <6>1. \A k \in Nat : k > 0 /\ k # 1 => k > 1
            OBVIOUS
          <6>2. QED
            BY <3>1, <5>3, <6>1
        <5>5. QED
          BY <5>1, <5>2, <5>4
      <4>2. LoadRefs(in) = r /\ Container(in) = <<ref>> /\ MapBlob(r) = <<ref>>
        BY <3>1, <3>3, <3>4, <3>6, <4>1 DEF LoadRefs, Container, MapBlob
      <4>3. in.inline \in BOOLEAN
        BY <3>4 DEF one
      <4>4. QED
        BY <2>2, <3>3, <4>2, <4>3
    <3>7. QED
      BY <3>5, <3>6
  <2>3. QED
    BY <2>1, <2>2
<1>5. GetData(in) = b
  BY <1>2, <1>4 DEF GetData
<1>6. QED
  BY <1>4, <1>5 DEF r, in

LEMMA DivFacts ==
  ASSUME NEW x \in Nat, NEW d \in Nat \ {0}
  PROVE  /\ x \div d \in Nat /\ (x \div d) * d \in Nat /\ (x \div d) * d <= x
         /\ (x \div d + 1) * d \in Nat /\ x < (x \div d + 1) * d
<1> DEFINE k == x \div d
<1>1. k \in Nat /\ k * d <= x /\ x < k * d + d
  OBVIOUS
<1> HIDE DEF k
<1>2. (k + 1) * d = k * d + d /\ k * d \in Nat
  BY <1>1
<1>3. QED
  BY <1>1, <1>2 DEF k

LEMMA PieceOfPiece ==
  ASSUME NEW S, NEW t \in Seq(S), NEW a \in Nat, NEW b \in Nat, NEW c \in Nat, NEW d \in Nat,
         a <= c, c <= d, d <= b, b <= Len(t)
  PROVE  SubSeq(SubSeq(t, a + 1, b), c - a + 1, d - a) = SubSeq(t, c + 1, d)
<1> DEFINE u == SubSeq(t, a + 1, b)
           v == SubSeq(t, c + 1, d)
           x == c - a
           y == d - a
           w == SubSeq(u, x + 1, y)
<1>1. a <= b /\ d <= Len(t)
  OBVIOUS
<1>2. u \in Seq(S) /\ Len(u) = b - a /\ \A i \in 1 .. b - a : u[i] = t[a + i]
  BY <1>1, PieceFacts
<1>3. v \in Seq(S) /\ Len(v) = d - c /\ \A i \in 1 .. d - c : v[i] = t[c + i]
  BY <1>1, PieceFacts
<1>4. x \in Nat /\ y \in Nat /\ x <= y /\ y <= b - a /\ y - x = d - c /\ a + x = c
  OBVIOUS
<1> HIDE DEF u, v, x, y
<1>5. w \in Seq(S) /\ Len(w) = y - x /\ \A i \in 1 .. y - x : w[i] = u[x + i]
  <2>1. u \in Seq(S) /\ x \in Nat /\ y \in Nat /\ x <= y /\ y <= Len(u)
    BY <1>2, <1>4
  <2>2. QED
    BY <2>1, PieceFacts
<1> HIDE DEF w
<1>6. ASSUME NEW i \in 1 .. d - c PROVE w[i] = v[i]
  <2>1. i \in Nat /\ x + i \in 1 .. b - a /\ a + (x + i) = c + i
    BY <1>4
  <2>2. w[i] = u[x + i]
    BY <1>4, <1>5
  <2>3. u[x + i] = t[a + (x + i)]
    BY <1>2, <2>1
  <2>4. QED
    BY <1>3, <2>1, <2>2, <2>3
<1>7. w = v
  BY <1>3, <1>4, <1>5, <1>6, SeqEqual
<1>8. QED
  BY <1>7 DEF u, v, w, x, y

\* read_at returns the bytes of its range.
LEMMA ReadFacts ==
  ASSUME NEW b \in Seq(Nat), NEW rs \in Nat \ {0}, NEW off \in Nat, NEW n \in Nat
  PROVE  ReadAt(FileOf(b, rs), off, n) = SubSeq(b, off + 1, Least(off + n, Len(b)))
<1> DEFINE in == FileOf(b, rs)
           size == Len(b)
           r == SplitRecords(b, rs)
           end == Least(off + n, size)
           first == off \div rs
           last == (end - 1) \div rs
           K == last - first + 1
           Start(j) == (first + j - 1) * rs
           q == [j \in 1 .. K |-> ReadPiece(r[first + j].rec, Start(j), off, end)]
           e == [j \in 0 .. K |-> IF j = 0 THEN off ELSE Least((first + j) * rs, end)]
<1>1. in.size = size /\ LoadRefs(in) = r /\ (size > 0 => in.rs = rs)
  BY FileFacts
<1>2. size \in Nat /\ end \in Nat /\ end <= size /\ end <= off + n
  BY DEF Least
<1>3. /\ CeilDiv(size, rs) \in Nat
      /\ \A i \in Nat \ {0} : i <= CeilDiv(size, rs) <=> (i - 1) * rs < size
  BY <1>2, CeilDivFacts
<1>4. \A i \in 1 .. CeilDiv(size, rs) : r[i].rec = SubSeq(b, (i - 1) * rs + 1, Least(i * rs, size))
  BY SplitFacts
<1> HIDE DEF in, r
<1>5. CASE n = 0 \/ off >= size
  <2>1. ReadAt(in, off, n) = <<>>
    BY <1>1, <1>5 DEF ReadAt
  <2>2. end <= off
    BY <1>2, <1>5
  <2> HIDE DEF end, size
  <2>3. SubSeq(b, off + 1, end) = <<>>
    BY <1>2, <2>2
  <2>4. QED
    BY <2>1, <2>3 DEF in, end, size
<1>6. CASE n > 0 /\ off < size
  <2>1. off < end /\ size > 0 /\ end - 1 \in Nat
    BY <1>2, <1>6 DEF Least
  <2>2. ReadAt(in, off, n) = FlattenSeq(q)
    <3> DEFINE G(refs_, m, stop, fst) ==
                 FlattenSeq([j \in 1 .. (stop - 1) \div m - fst + 1 |->
                   ReadPiece(refs_[fst + j].rec, (fst + j - 1) * m, off, stop)])
    <3>1. ~(n = 0 \/ off >= in.size) /\ in.size = size /\ in.rs = rs
      BY <1>1, <1>2, <1>6, <2>1
    <3>2. ReadAt(in, off, n) = G(LoadRefs(in), in.rs, Least(off + n, in.size), off \div in.rs)
      BY <3>1 DEF ReadAt
    <3>3. G(r, rs, end, first) = FlattenSeq(q)
      OBVIOUS
    <3> HIDE DEF G
    <3>4. QED
      BY <1>1, <3>1, <3>2, <3>3
  <2> HIDE DEF end, size
  <2>3. /\ first \in Nat /\ first * rs \in Nat /\ first * rs <= off
        /\ (first + 1) * rs \in Nat /\ off < (first + 1) * rs
    BY DivFacts
  <2>4. /\ last \in Nat /\ last * rs \in Nat /\ last * rs <= end - 1
        /\ (last + 1) * rs \in Nat /\ end - 1 < (last + 1) * rs
    BY <2>1, DivFacts
  <2> HIDE DEF first, last
  <2>5. first <= last
    <3>1. CASE last < first
      <4>1. last + 1 <= first
        BY <2>3, <2>4, <3>1
      <4>2. (last + 1) * rs <= first * rs
        BY <2>3, <2>4, <4>1, MulMono
      <4>3. QED
        BY <1>2, <2>1, <2>3, <2>4, <4>2
    <3>2. QED
      BY <2>3, <2>4, <3>1
  <2>6. K \in Nat /\ K >= 1 /\ first + K = last + 1
    BY <2>3, <2>4, <2>5
  <2> HIDE DEF K
  <2>7. \A j \in 1 .. K : /\ (first + j) * rs \in Nat /\ Start(j) \in Nat
                          /\ Start(j) + rs = (first + j) * rs
                          /\ first + j \in 1 .. CeilDiv(size, rs)
                          /\ Start(j) < end /\ off < (first + j) * rs
                          /\ j > 1 => off < Start(j)
                          /\ j = 1 => Start(j) <= off
    <3>1. ASSUME NEW j \in 1 .. K
          PROVE           /\ (first + j) * rs \in Nat /\ Start(j) \in Nat
                          /\ Start(j) + rs = (first + j) * rs
                          /\ first + j \in 1 .. CeilDiv(size, rs)
                          /\ Start(j) < end /\ off < (first + j) * rs
                          /\ j > 1 => off < Start(j)
                          /\ j = 1 => Start(j) <= off
      <4> DEFINE p == first + j - 1
      <4>1. p \in Nat /\ p + 1 = first + j /\ p <= last /\ first + 1 <= p + 1 /\ j \in Nat
        BY <2>3, <2>4, <2>6
      <4>2. (j > 1 => first + 1 <= p) /\ (j = 1 => p = first)
        BY <2>3
      <4> HIDE DEF p
      <4>3. p * rs \in Nat /\ (p + 1) * rs = p * rs + rs /\ (p + 1) * rs \in Nat
        BY <4>1
      <4>4. p * rs <= last * rs
        BY <2>4, <4>1, MulMono
      <4>5. p * rs < end
        BY <1>2, <2>1, <2>4, <4>3, <4>4
      <4>6. (first + 1) * rs <= (p + 1) * rs
        BY <2>3, <4>1, MulMono
      <4>7. off < (p + 1) * rs
        BY <2>3, <4>3, <4>6
      <4>8. j > 1 => off < p * rs
        <5>1. j > 1 => (first + 1) * rs <= p * rs
          BY <2>3, <4>1, <4>2, MulMono
        <5>2. QED
          BY <2>3, <4>3, <5>1
      <4>9. j = 1 => p * rs <= off
        BY <2>3, <4>2
      <4>10. p + 1 \in 1 .. CeilDiv(size, rs)
        <5>1. p + 1 \in Nat \ {0} /\ (p + 1) - 1 = p /\ p * rs < size
          BY <1>2, <4>1, <4>3, <4>5
        <5>2. p + 1 <= CeilDiv(size, rs)
          BY <1>3, <5>1
        <5>3. QED
          BY <1>3, <5>1, <5>2
      <4>11. Start(j) = p * rs /\ (first + j) * rs = (p + 1) * rs
        BY <4>1 DEF p
      <4> HIDE DEF Start
      <4>12. QED
        BY <4>1, <4>3, <4>5, <4>7, <4>8, <4>9, <4>10, <4>11
    <3> HIDE DEF Start
    <3>2. QED
      BY <3>1
  <2>8. \A j \in 1 .. K : /\ e[j - 1] = Most(off, Start(j)) /\ e[j] = Least((first + j) * rs, end)
                          /\ e[j - 1] \in Nat /\ e[j] \in Nat
                          /\ e[j - 1] <= e[j] /\ e[j] <= end
    <3>1. ASSUME NEW j \in 1 .. K
          PROVE           /\ e[j - 1] = Most(off, Start(j)) /\ e[j] = Least((first + j) * rs, end)
                          /\ e[j - 1] \in Nat /\ e[j] \in Nat
                          /\ e[j - 1] <= e[j] /\ e[j] <= end
      <4>1. /\ (first + j) * rs \in Nat /\ Start(j) \in Nat /\ Start(j) + rs = (first + j) * rs
            /\ Start(j) < end /\ off < (first + j) * rs
            /\ j > 1 => off < Start(j)
            /\ j = 1 => Start(j) <= off
        BY <2>7
      <4>2. j - 1 \in 0 .. K /\ j \in 0 .. K /\ j # 0
        BY <2>6
      <4>3. e[j] = Least((first + j) * rs, end)
        BY <4>2
      <4>4. e[j - 1] = Most(off, Start(j))
        <5>1. CASE j = 1
          <6>1. e[j - 1] = off
            BY <4>2, <5>1
          <6>2. Start(j) <= off
            BY <4>1, <5>1
          <6> HIDE DEF Start, e
          <6>3. Most(off, Start(j)) = off
            BY <4>1, <6>2 DEF Most
          <6>4. QED
            BY <6>1, <6>3
        <5>2. CASE j > 1
          <6>1. e[j - 1] = Least((first + (j - 1)) * rs, end)
            BY <4>2, <5>2
          <6>2. first + (j - 1) = first + j - 1
            BY <2>3
          <6>3. (first + (j - 1)) * rs = Start(j)
            BY <6>2
          <6>4. off < Start(j)
            BY <4>1, <5>2
          <6> HIDE DEF Start, e
          <6>5. Least(Start(j), end) = Start(j) /\ Most(off, Start(j)) = Start(j)
            BY <1>2, <4>1, <6>4 DEF Least, Most
          <6>6. QED
            BY <6>1, <6>3, <6>5
        <5>3. QED
          BY <2>6, <5>1, <5>2
      <4> DEFINE u == Start(j)
                 w == (first + j) * rs
      <4>5. u \in Nat /\ w \in Nat /\ u + rs = w /\ u < end /\ off < w
        BY <4>1
      <4>6. e[j - 1] = Most(off, u) /\ e[j] = Least(w, end)
        BY <4>3, <4>4
      <4> HIDE DEF u, w, e
      <4>7. /\ Most(off, u) \in Nat /\ Least(w, end) \in Nat /\ Most(off, u) <= Least(w, end)
            /\ Least(w, end) <= end
        BY <1>2, <2>1, <4>5 DEF Most, Least
      <4>8. QED
        BY <4>3, <4>4, <4>6, <4>7
    <3>2. QED
      BY <3>1
  <2>9. e \in [0 .. K -> Nat] /\ e[0] = off /\ e[K] = end
    <3>1. e[0] = off
      BY <2>6
    <3>2. e[K] = Least((first + K) * rs, end)
      BY <2>6
    <3>3. (first + K) * rs = (last + 1) * rs
      BY <2>6
    <3>4. Least((last + 1) * rs, end) = end
      BY <1>2, <2>1, <2>4 DEF Least
    <3>5. ASSUME NEW j \in 0 .. K PROVE e[j] \in Nat
      <4>1. CASE j = 0
        BY <3>1, <4>1
      <4>2. CASE j # 0
        <5>1. j \in 1 .. K
          BY <2>6, <4>2
        <5>2. QED
          BY <2>8, <5>1
      <4>3. QED
        BY <4>1, <4>2
    <3>6. e = [j \in 0 .. K |-> e[j]]
      OBVIOUS
    <3> HIDE DEF e
    <3>7. QED
      BY <3>1, <3>2, <3>3, <3>4, <3>5, <3>6
  <2>10. \A j \in 1 .. K : q[j] = SubSeq(b, e[j - 1] + 1, e[j])
    <3>1. ASSUME NEW j \in 1 .. K PROVE q[j] = SubSeq(b, e[j - 1] + 1, e[j])
      <4> DEFINE i == first + j
                 u == Start(j)
                 w == i * rs
                 stop == Least(w, size)
                 x == Most(off, u)
                 y == Least(w, end)
                 rec == r[i].rec
      <4>1. /\ w \in Nat /\ u \in Nat /\ u + rs = w /\ i \in 1 .. CeilDiv(size, rs)
            /\ u < end /\ off < w /\ e[j - 1] = x /\ e[j] = y
        BY <2>7, <2>8
      <4>2. (i - 1) * rs = u
        <5>1. i - 1 = first + j - 1
          BY <2>3, <2>6
        <5> HIDE DEF i
        <5>2. QED
          BY <5>1
      <4>3. q[j] = ReadPiece(rec, u, off, end)
        OBVIOUS
      <4> HIDE DEF i, Start, q, e
      <4>4. rec = SubSeq(b, u + 1, stop)
        BY <1>4, <4>1, <4>2
      <4> HIDE DEF u, w, rec
      <4>5. stop \in Nat /\ u <= stop /\ stop <= size /\ size = Len(b)
        BY <1>2, <4>1 DEF Least, size
      <4>6. x \in Nat /\ y \in Nat /\ u <= x /\ x <= y /\ y <= stop
        BY <1>2, <2>1, <4>1 DEF Most, Least
      <4>7. Least(end, stop) = y
        BY <1>2, <4>1 DEF Least
      <4> HIDE DEF stop, x, y
      <4>8. Len(rec) = stop - u
        BY <4>1, <4>4, <4>5, PieceFacts
      <4>9. u + Len(rec) = stop
        BY <4>1, <4>5, <4>8
      <4>10. q[j] = SubSeq(rec, x - u + 1, y - u)
        BY <4>3, <4>7, <4>9 DEF ReadPiece, x
      <4>11. SubSeq(SubSeq(b, u + 1, stop), x - u + 1, y - u) = SubSeq(b, x + 1, y)
        BY <4>1, <4>5, <4>6, PieceOfPiece
      <4>12. QED
        BY <4>1, <4>4, <4>10, <4>11
    <3>2. QED
      BY <3>1
  <2>11. q \in Seq(Seq(Nat)) /\ Len(q) = K
    <3>0. q = [j \in 1 .. K |-> q[j]]
      OBVIOUS
    <3> HIDE DEF q, e
    <3>1. \A j \in 1 .. K : q[j] \in Seq(Nat)
      <4>1. ASSUME NEW j \in 1 .. K PROVE q[j] \in Seq(Nat)
        <5> DEFINE x == e[j - 1]
                   y == e[j]
        <5>1. x \in Nat /\ y \in Nat /\ x <= y /\ y <= Len(b) /\ q[j] = SubSeq(b, x + 1, y)
          BY <1>2, <2>8, <2>10 DEF size
        <5> HIDE DEF x, y
        <5>2. QED
          BY <5>1, PieceFacts, SMTT(30)
      <4>2. QED
        BY <4>1
    <3>2. q \in [1 .. K -> Seq(Nat)]
      BY <3>0, <3>1
    <3>3. QED
      BY <2>6, <3>2
  <2> HIDE DEF q, e, Start
  <2>12. \A j \in 0 .. K : e[j] <= Len(b)
    <3>1. ASSUME NEW j \in 0 .. K PROVE e[j] <= Len(b)
      <4>1. CASE j = 0
        BY <1>2, <2>1, <2>9, <4>1 DEF size
      <4>2. CASE j # 0
        <5>1. j \in 1 .. K
          BY <2>6, <4>2
        <5>2. e[j] \in Nat /\ e[j] <= end
          BY <2>8, <5>1
        <5>3. QED
          BY <1>2, <5>2 DEF size
      <4>3. QED
        BY <4>1, <4>2
    <3>2. QED
      BY <3>1
  <2>13. Pieces(q, b, e, K, Nat)
    BY <2>6, <2>8, <2>9, <2>10, <2>11, <2>12 DEF Pieces
  <2>14. FlattenSeq(q) = SubSeq(b, off + 1, end)
    <3>1. FlattenSeq(q) = SubSeq(b, e[0] + 1, e[K])
      BY <2>13, FlattenFacts
    <3>2. QED
      BY <2>9, <3>1
  <2>15. QED
    BY <2>2, <2>14 DEF in, end, size
<1>7. QED
  BY <1>2, <1>5, <1>6

----------------------------------------------------------------------------
(* Counting: how often a content occurs in a sequence and in a bag. *)

Places(s, c) == {i \in DOMAIN s : s[i] = c}

Count(s, c) == Cardinality(Places(s, c))

Copies(B, c) == IF c \in DOMAIN B THEN B[c] ELSE 0

OneToOne(g, S, T) ==
    /\ g \in [S -> T]
    /\ \A x, y \in S : g[x] = g[y] => x = y
    /\ \A z \in T : \E x \in S : g[x] = z

LEMMA SameSize ==
  ASSUME NEW S, NEW T, IsFiniteSet(S), NEW g, OneToOne(g, S, T)
  PROVE  IsFiniteSet(T) /\ Cardinality(T) = Cardinality(S)
<1>1. g \in Bijection(S, T)
  BY DEF OneToOne, Bijection, Injection, Surjection, IsInjective
<1>2. ExistsBijection(S, T)
  BY <1>1 DEF ExistsBijection
<1>3. QED
  BY <1>2, FS_Bijection

\* Two sets without common elements.
LEMMA DisjointUnion ==
  ASSUME NEW S, NEW T, IsFiniteSet(S), IsFiniteSet(T), S \cap T = {}
  PROVE  /\ IsFiniteSet(S \cup T) /\ Cardinality(S) \in Nat /\ Cardinality(T) \in Nat
         /\ Cardinality(S \cup T) = Cardinality(S) + Cardinality(T)
<1>1. Cardinality(S \cap T) = 0
  BY FS_EmptySet
<1>2. Cardinality(S) \in Nat /\ Cardinality(T) \in Nat
  BY FS_CardinalityType
<1>3. /\ IsFiniteSet(S \cup T)
      /\ Cardinality(S \cup T) = Cardinality(S) + Cardinality(T) - Cardinality(S \cap T)
  BY FS_Union
<1>4. QED
  BY <1>1, <1>2, <1>3

LEMMA CountFacts ==
  ASSUME NEW S, NEW s \in Seq(S), NEW c
  PROVE  /\ IsFiniteSet(Places(s, c)) /\ Count(s, c) \in Nat
         /\ Count(s, c) = 0 <=> c \notin {s[i] : i \in DOMAIN s}
<1> DEFINE P == Places(s, c)
<1>1. Len(s) \in Nat /\ DOMAIN s = 1 .. Len(s)
  OBVIOUS
<1>2. IsFiniteSet(1 .. Len(s))
  BY <1>1, FS_Interval
<1>3. P \in SUBSET (1 .. Len(s)) /\ (P = {} <=> c \notin {s[i] : i \in DOMAIN s})
  BY <1>1 DEF Places
<1> HIDE DEF P
<1>4. IsFiniteSet(P)
  BY <1>2, <1>3, FS_Subset
<1>5. Cardinality(P) \in Nat /\ (Cardinality(P) = 0 <=> P = {})
  BY <1>4, FS_EmptySet, FS_CardinalityType
<1>6. QED
  BY <1>3, <1>4, <1>5 DEF P, Count

LEMMA CountEmpty == ASSUME NEW c PROVE Count(<<>>, c) = 0
<1>1. Places(<<>>, c) = {}
  BY DEF Places
<1>2. QED
  BY <1>1, FS_EmptySet DEF Count

LEMMA CountConcat ==
  ASSUME NEW S, NEW s \in Seq(S), NEW t \in Seq(S), NEW c
  PROVE  s \o t \in Seq(S) /\ Count(s \o t, c) = Count(s, c) + Count(t, c)
<1> DEFINE u == s \o t
           n == Len(s)
           P == Places(s, c)
           Q == Places(t, c)
           R == {n + i : i \in Q}
           g == [i \in Q |-> n + i]
<1>1. /\ u \in Seq(S) /\ Len(u) = n + Len(t) /\ n \in Nat /\ Len(t) \in Nat
      /\ \A i \in 1 .. n : u[i] = s[i]
      /\ \A i \in 1 .. Len(t) : u[n + i] = t[i]
  OBVIOUS
<1>2. /\ P = {i \in 1 .. n : s[i] = c} /\ Q = {i \in 1 .. Len(t) : t[i] = c}
      /\ IsFiniteSet(P) /\ IsFiniteSet(Q)
  <2>1. IsFiniteSet(P) /\ IsFiniteSet(Q)
    BY CountFacts
  <2>2. P = {i \in 1 .. n : s[i] = c} /\ Q = {i \in 1 .. Len(t) : t[i] = c}
    BY DEF Places
  <2>3. QED
    BY <2>1, <2>2
<1> HIDE DEF u, n, P, Q
<1>3. Places(u, c) = {i \in 1 .. n + Len(t) : u[i] = c}
  BY <1>1 DEF Places
<1>4. Places(u, c) = P \cup R
  <2>1. ASSUME NEW i \in Places(u, c) PROVE i \in P \cup R
    <3>1. i \in 1 .. n + Len(t) /\ u[i] = c
      BY <1>3
    <3>2. CASE i <= n
      <4>1. i \in 1 .. n
        BY <1>1, <3>1, <3>2
      <4>2. QED
        BY <1>1, <1>2, <3>1, <4>1
    <3>3. CASE i > n
      <4> DEFINE j == i - n
      <4>1. j \in 1 .. Len(t) /\ n + j = i
        BY <1>1, <3>1, <3>3
      <4> HIDE DEF j
      <4>2. t[j] = c
        BY <1>1, <3>1, <4>1
      <4>3. QED
        BY <1>2, <4>1, <4>2
    <3>4. QED
      BY <1>1, <3>1, <3>2, <3>3
  <2>2. ASSUME NEW i \in P PROVE i \in Places(u, c)
    BY <1>1, <1>2, <1>3
  <2>3. ASSUME NEW i \in Q PROVE n + i \in Places(u, c)
    <3>1. i \in 1 .. Len(t) /\ t[i] = c
      BY <1>2
    <3>2. n + i \in 1 .. n + Len(t) /\ u[n + i] = c
      BY <1>1, <3>1
    <3>3. QED
      BY <1>3, <3>2
  <2>4. QED
    BY <2>1, <2>2, <2>3
<1>5. P \cap R = {}
  <2>1. ASSUME NEW i \in P, NEW j \in Q PROVE i # n + j
    BY <1>1, <1>2
  <2>2. QED
    BY <2>1
<1>6. IsFiniteSet(R) /\ Cardinality(R) = Cardinality(Q)
  <2>1. g \in [Q -> R]
    OBVIOUS
  <2>2. \A i, j \in Q : g[i] = g[j] => i = j
    BY <1>1, <1>2
  <2>3. \A k \in R : \E i \in Q : g[i] = k
    OBVIOUS
  <2> HIDE DEF g, R
  <2>4. OneToOne(g, Q, R)
    BY <2>1, <2>2, <2>3 DEF OneToOne
  <2>5. QED
    BY <1>2, <2>4, SameSize
<1> HIDE DEF R
<1>7. Cardinality(P \cup R) = Cardinality(P) + Cardinality(R)
  BY <1>2, <1>5, <1>6, DisjointUnion
<1>8. QED
  BY <1>1, <1>4, <1>6, <1>7 DEF Count, u, P, Q

\* The bag of a sequence counts its elements.
LEMMA ToBagFacts ==
  ASSUME NEW S, NEW s \in Seq(S)
  PROVE  IsABag(ToBag(s)) /\ \A c : Copies(ToBag(s), c) = Count(s, c)
<1> DEFINE D == {s[i] : i \in DOMAIN s}
<1>1. ToBag(s) = [x \in D |-> Count(s, x)]
  BY DEF ToBag, Range, Count, Places
<1>2. \A c : Count(s, c) \in Nat /\ (Count(s, c) = 0 <=> c \notin D)
  BY CountFacts
<1> HIDE DEF D
<1>3. DOMAIN ToBag(s) = D /\ \A x \in D : ToBag(s)[x] = Count(s, x)
  BY <1>1
<1>4. \A x \in D : Count(s, x) \in {n \in Nat : n > 0}
  BY <1>2
<1>5. IsABag(ToBag(s))
  BY <1>1, <1>3, <1>4 DEF IsABag
<1>6. QED
  BY <1>2, <1>3, <1>5 DEF Copies

LEMMA BagFacts ==
  ASSUME NEW B, IsABag(B), NEW c
  PROVE  Copies(B, c) \in Nat /\ (c \in DOMAIN B <=> Copies(B, c) > 0)
<1>1. c \in DOMAIN B => B[c] \in Nat /\ B[c] > 0
  BY DEF IsABag
<1>2. QED
  BY <1>1 DEF Copies

LEMMA AddFacts ==
  ASSUME NEW A, NEW B, IsABag(A), IsABag(B)
  PROVE  IsABag(A (+) B) /\ \A c : Copies(A (+) B, c) = Copies(A, c) + Copies(B, c)
<1> DEFINE D == DOMAIN A \cup DOMAIN B
           N == {n \in Nat : n > 0}
<1>1. A (+) B = [e \in D |-> Copies(A, e) + Copies(B, e)]
  BY DEF (+), Copies
<1>2. \A c : /\ Copies(A, c) \in Nat /\ (c \in DOMAIN A <=> Copies(A, c) > 0)
             /\ Copies(B, c) \in Nat /\ (c \in DOMAIN B <=> Copies(B, c) > 0)
  BY BagFacts
<1>3. \A c : c \in D <=> Copies(A, c) + Copies(B, c) > 0
  BY <1>2
<1>4. \A c \in D : Copies(A, c) + Copies(B, c) \in N
  BY <1>2, <1>3
<1>5. \A c : c \notin D => Copies(A, c) + Copies(B, c) = 0
  BY <1>2, <1>3
<1> DEFINE E == A (+) B
<1>6. DOMAIN E = D /\ (\A c \in D : E[c] = Copies(A, c) + Copies(B, c)) /\ E = [c \in D |-> E[c]]
  BY <1>1
<1> HIDE DEF D, E
<1>7. E \in [D -> N]
  BY <1>4, <1>6
<1>8. IsABag(E)
  BY <1>6, <1>7 DEF IsABag
<1>9. ASSUME NEW c PROVE Copies(E, c) = Copies(A, c) + Copies(B, c)
  <2>1. CASE c \in D
    <3>1. Copies(E, c) = E[c]
      BY <1>6, <2>1 DEF Copies
    <3>2. QED
      BY <1>6, <2>1, <3>1
  <2>2. CASE c \notin D
    <3>1. Copies(E, c) = 0
      BY <1>6, <2>2 DEF Copies
    <3>2. QED
      BY <1>5, <2>2, <3>1
  <2>3. QED
    BY <2>1, <2>2
<1>10. QED
  BY <1>8, <1>9 DEF E

LEMMA SubtractFacts ==
  ASSUME NEW A, NEW B, IsABag(A), IsABag(B)
  PROVE  /\ IsABag(A (-) B)
         /\ \A c : Copies(A (-) B, c) =
                     IF Copies(A, c) > Copies(B, c) THEN Copies(A, c) - Copies(B, c) ELSE 0
<1> DEFINE F == [e \in DOMAIN A |-> IF e \in DOMAIN B THEN A[e] - B[e] ELSE A[e]]
           D == {d \in DOMAIN F : F[d] > 0}
           E == [e \in D |-> F[e]]
           N == {n \in Nat : n > 0}
<1>1. A (-) B = E
  BY DEF (-)
<1>2. \A c : /\ Copies(A, c) \in Nat /\ (c \in DOMAIN A <=> Copies(A, c) > 0)
             /\ Copies(B, c) \in Nat /\ (c \in DOMAIN B <=> Copies(B, c) > 0)
  BY BagFacts
<1>3. DOMAIN F = DOMAIN A
  OBVIOUS
<1>4. ASSUME NEW c \in DOMAIN A PROVE F[c] = Copies(A, c) - Copies(B, c)
  <2>1. Copies(A, c) = A[c]
    BY DEF Copies
  <2>2. F[c] = IF c \in DOMAIN B THEN A[c] - B[c] ELSE A[c]
    OBVIOUS
  <2> HIDE DEF F
  <2>3. CASE c \in DOMAIN B
    <3>1. Copies(B, c) = B[c]
      BY <2>3 DEF Copies
    <3>2. QED
      BY <2>1, <2>2, <2>3, <3>1
  <2>4. CASE c \notin DOMAIN B
    <3>1. Copies(B, c) = 0
      BY <2>4 DEF Copies
    <3>2. Copies(A, c) - 0 = Copies(A, c)
      BY <1>2
    <3>3. QED
      BY <2>1, <2>2, <2>4, <3>1, <3>2
  <2>5. QED
    BY <2>3, <2>4
<1>5. D = {d \in DOMAIN A : F[d] > 0}
  BY <1>3
<1> HIDE DEF F, D
<1>6. DOMAIN E = D /\ (\A c \in D : E[c] = F[c]) /\ E = [c \in D |-> E[c]]
  OBVIOUS
<1> HIDE DEF E
<1>7. \A c : c \in D <=> Copies(A, c) > Copies(B, c)
  <2>1. ASSUME NEW c PROVE c \in D <=> Copies(A, c) > Copies(B, c)
    <3>1. CASE c \in DOMAIN A
      <4>1. c \in D <=> Copies(A, c) - Copies(B, c) > 0
        BY <1>4, <1>5, <3>1
      <4>2. QED
        BY <1>2, <4>1
    <3>2. CASE c \notin DOMAIN A
      <4>1. c \notin D
        BY <1>5, <3>2
      <4>2. QED
        BY <1>2, <3>2, <4>1
    <3>3. QED
      BY <3>1, <3>2
  <2>2. QED
    BY <2>1
<1>8. \A c \in D : E[c] = Copies(A, c) - Copies(B, c) /\ E[c] \in N
  <2>1. ASSUME NEW c \in D PROVE E[c] = Copies(A, c) - Copies(B, c) /\ E[c] \in N
    <3>1. E[c] = Copies(A, c) - Copies(B, c)
      BY <1>4, <1>5, <1>6
    <3>2. Copies(A, c) \in Nat /\ Copies(B, c) \in Nat /\ Copies(A, c) > Copies(B, c)
      BY <1>2, <1>7
    <3>3. QED
      BY <3>1, <3>2
  <2>2. QED
    BY <2>1
<1>9. IsABag(E)
  <2>1. E \in [D -> N]
    BY <1>6, <1>8
  <2>2. QED
    BY <1>6, <2>1 DEF IsABag
<1>10. ASSUME NEW c
       PROVE  Copies(E, c) = IF Copies(A, c) > Copies(B, c) THEN Copies(A, c) - Copies(B, c) ELSE 0
  BY <1>6, <1>7, <1>8 DEF Copies
<1>11. QED
  BY <1>1, <1>9, <1>10

LEMMA SubBagFacts ==
  ASSUME NEW A, NEW B, IsABag(A), IsABag(B)
  PROVE  A \sqsubseteq B <=> \A c : Copies(A, c) <= Copies(B, c)
<1>1. \A c : /\ Copies(A, c) \in Nat /\ (c \in DOMAIN A <=> Copies(A, c) > 0)
             /\ Copies(B, c) \in Nat /\ (c \in DOMAIN B <=> Copies(B, c) > 0)
  BY BagFacts
<1>2. \A c : /\ c \in DOMAIN A => Copies(A, c) = A[c]
             /\ c \in DOMAIN B => Copies(B, c) = B[c]
  BY DEF Copies
<1>3. ASSUME A \sqsubseteq B, NEW c PROVE Copies(A, c) <= Copies(B, c)
  <2>1. DOMAIN A \subseteq DOMAIN B /\ \A e \in DOMAIN A : A[e] <= B[e]
    BY <1>3 DEF \sqsubseteq
  <2>2. CASE c \in DOMAIN A
    BY <1>2, <2>1, <2>2
  <2>3. CASE c \notin DOMAIN A
    BY <1>1, <2>3
  <2>4. QED
    BY <2>2, <2>3
<1>4. ASSUME \A c : Copies(A, c) <= Copies(B, c) PROVE A \sqsubseteq B
  <2>1. ASSUME NEW c \in DOMAIN A PROVE c \in DOMAIN B /\ A[c] <= B[c]
    <3>1. c \in DOMAIN B
      BY <1>1, <1>4
    <3>2. QED
      BY <1>2, <1>4, <3>1
  <2>2. QED
    BY <2>1 DEF \sqsubseteq
<1>5. QED
  BY <1>3, <1>4

LEMMA BagEqual ==
  ASSUME NEW A, NEW B, IsABag(A), IsABag(B), \A c : Copies(A, c) = Copies(B, c)
  PROVE  A = B
<1>1. \A c : /\ c \in DOMAIN A <=> Copies(A, c) > 0
             /\ c \in DOMAIN B <=> Copies(B, c) > 0
  BY BagFacts
<1>2. DOMAIN A = DOMAIN B
  BY <1>1
<1>3. \A c \in DOMAIN A : A[c] = B[c]
  BY <1>2 DEF Copies
<1>4. A = [c \in DOMAIN A |-> A[c]] /\ B = [c \in DOMAIN B |-> B[c]]
  BY DEF IsABag
<1>5. QED
  BY <1>2, <1>3, <1>4

----------------------------------------------------------------------------
(* What the files hold. *)

LEMMA HeldByFacts ==
  ASSUME NEW b \in Seq(Nat), NEW rs \in Nat \ {0}
  PROVE  /\ SplitRecords(b, rs) \in Seq(Content)
         /\ MapBlob(SplitRecords(b, rs)) \in Seq(Content)
         /\ HeldBy(FileOf(b, rs)) = SplitRecords(b, rs) \o MapBlob(SplitRecords(b, rs))
         /\ HeldBy(FileOf(b, rs)) \in Seq(Content)
<1> DEFINE r == SplitRecords(b, rs)
           m == MapBlob(r)
<1>1. r \in Seq(RecordRec)
  BY SplitFacts
<1>2. HeldBy(FileOf(b, rs)) = r \o m
  BY FileFacts DEF HeldBy
<1> HIDE DEF r
<1>3. r \in Seq(Content)
  <2>1. RecordRec \subseteq Content
    BY DEF Content
  <2> HIDE DEF r
  <2>2. QED
    BY <1>1, <2>1
<1>4. BlockMap(r) \in Content
  BY <1>1 DEF BlockMap, Content
<1>5. m \in Seq(Content)
  BY <1>4 DEF MapBlob
<1> HIDE DEF m
<1>6. r \o m \in Seq(Content)
  BY <1>3, <1>5
<1>7. QED
  BY <1>2, <1>3, <1>5, <1>6 DEF r, m

\* The places of the contents of one file among all.
Own(f, s, c) == {<<f, i>> : i \in Places(s, c)}

LEMMA OwnFacts ==
  ASSUME NEW S, NEW f, NEW s \in Seq(S), NEW c
  PROVE  IsFiniteSet(Own(f, s, c)) /\ Cardinality(Own(f, s, c)) = Count(s, c)
<1> DEFINE P == Places(s, c)
           O == Own(f, s, c)
           g == [i \in P |-> <<f, i>>]
<1>1. IsFiniteSet(P)
  BY CountFacts
<1>2. O = {<<f, i>> : i \in P}
  BY DEF Own
<1> HIDE DEF P, O
<1>3. g \in [P -> O] /\ \A z \in O : \E i \in P : g[i] = z
  BY <1>2
<1>4. \A i, j \in P : g[i] = g[j] => i = j
  OBVIOUS
<1>5. OneToOne(g, P, O)
  BY <1>3, <1>4 DEF OneToOne
<1> HIDE DEF g
<1>6. IsFiniteSet(O) /\ Cardinality(O) = Cardinality(P)
  BY <1>1, <1>5, SameSize
<1>7. QED
  BY <1>6 DEF O, P, Count

WellHeld(fs) == \A f \in Files : HeldBy(fs[f]) \in Seq(Content)

LEMMA HoldingsFacts ==
  ASSUME NEW fs, WellHeld(fs), NEW c
  PROVE  /\ Holdings(fs, c) = UNION {Own(f, HeldBy(fs[f]), c) : f \in Files}
         /\ IsFiniteSet(Holdings(fs, c)) /\ Cardinality(Holdings(fs, c)) \in Nat
         /\ Cardinality(Holdings(fs, c)) = 0
              <=> c \notin UNION {ToSet(HeldBy(fs[f])) : f \in Files}
<1> DEFINE O(f) == Own(f, HeldBy(fs[f]), c)
           T == {O(f) : f \in Files}
           g == [f \in Files |-> O(f)]
           D == UNION {ToSet(HeldBy(fs[f])) : f \in Files}
           H == Holdings(fs, c)
<1>1. H = UNION T
  BY DEF Holdings, Own, Places
<1>2. \A f \in Files : IsFiniteSet(O(f))
  BY OwnFacts DEF WellHeld
<1>3. \A f \in Files : O(f) = {} <=> c \notin ToSet(HeldBy(fs[f]))
  BY DEF Own, Places, ToSet
<1>4. H = {} <=> c \notin D
  BY <1>1, <1>3
<1> HIDE DEF O, D
<1>5. g \in Surjection(Files, T)
  BY DEF Surjection
<1> HIDE DEF g
<1>6. IsFiniteSet(T)
  BY <1>5, FileAssumption, FS_Surjection
<1>7. \A A \in T : IsFiniteSet(A)
  BY <1>2
<1> HIDE DEF T
<1>8. IsFiniteSet(H)
  BY <1>1, <1>6, <1>7, FS_UNION
<1> HIDE DEF H
<1>9. Cardinality(H) \in Nat /\ (Cardinality(H) = 0 <=> H = {})
  BY <1>8, FS_CardinalityType, FS_EmptySet
<1>10. QED
  BY <1>1, <1>4, <1>8, <1>9 DEF H, D, T, O

LEMMA HeldFacts ==
  ASSUME NEW fs, WellHeld(fs)
  PROVE  IsABag(Held(fs)) /\ \A c : Copies(Held(fs), c) = Cardinality(Holdings(fs, c))
<1> DEFINE D == UNION {ToSet(HeldBy(fs[f])) : f \in Files}
           N(c) == Cardinality(Holdings(fs, c))
           B == Held(fs)
<1>1. B = [c \in D |-> N(c)]
  BY DEF Held
<1>2. \A c : N(c) \in Nat /\ (N(c) = 0 <=> c \notin D)
  BY HoldingsFacts
<1> HIDE DEF D, N, B
<1>3. DOMAIN B = D /\ \A c \in D : B[c] = N(c)
  BY <1>1
<1>4. \A c \in D : N(c) \in {n \in Nat : n > 0}
  BY <1>2
<1>5. IsABag(B)
  BY <1>1, <1>3, <1>4 DEF IsABag
<1>6. \A c : Copies(B, c) = N(c)
  BY <1>2, <1>3 DEF Copies
<1>7. QED
  BY <1>5, <1>6 DEF B, N

\* The files gs are fs with the inode in for f.
Changed(gs, fs, f, in) == gs[f] = in /\ \A g \in Files \ {f} : gs[g] = fs[g]

\* What the files hold when one inode changes.
LEMMA HeldUpdate ==
  ASSUME NEW fs, WellHeld(fs), NEW f \in Files, NEW in, HeldBy(in) \in Seq(Content),
         NEW gs, Changed(gs, fs, f, in), NEW c
  PROVE  /\ WellHeld(gs)
         /\ Cardinality(Holdings(gs, c)) + Count(HeldBy(fs[f]), c)
              = Cardinality(Holdings(fs, c)) + Count(HeldBy(in), c)
         /\ Count(HeldBy(fs[f]), c) <= Cardinality(Holdings(fs, c))
<1> DEFINE R == UNION {Own(g, HeldBy(fs[g]), c) : g \in Files \ {f}}
           A == Own(f, HeldBy(fs[f]), c)
           B == Own(f, HeldBy(in), c)
<1>1. gs[f] = in /\ \A g \in Files \ {f} : gs[g] = fs[g]
  BY DEF Changed
<1>2. WellHeld(gs)
  BY <1>1 DEF WellHeld
<1>3. /\ Holdings(fs, c) = UNION {Own(g, HeldBy(fs[g]), c) : g \in Files}
      /\ IsFiniteSet(Holdings(fs, c))
  BY HoldingsFacts
<1>4. Holdings(gs, c) = UNION {Own(g, HeldBy(gs[g]), c) : g \in Files}
  BY <1>2, HoldingsFacts
<1>5. Holdings(fs, c) = R \cup A
  BY <1>3
<1>6. Holdings(gs, c) = R \cup B
  BY <1>1, <1>4
<1>7. R \cap A = {} /\ R \cap B = {}
  BY DEF Own
<1> HIDE DEF R
<1>8. IsFiniteSet(R)
  BY <1>3, <1>5, FS_Subset
<1>9. /\ IsFiniteSet(A) /\ Cardinality(A) = Count(HeldBy(fs[f]), c)
      /\ IsFiniteSet(B) /\ Cardinality(B) = Count(HeldBy(in), c)
  BY OwnFacts DEF WellHeld
<1> HIDE DEF A, B
<1>10. /\ Cardinality(R \cup A) = Cardinality(R) + Cardinality(A)
       /\ Cardinality(R \cup B) = Cardinality(R) + Cardinality(B)
       /\ Cardinality(R) \in Nat /\ Cardinality(A) \in Nat /\ Cardinality(B) \in Nat
  BY <1>7, <1>8, <1>9, DisjointUnion
<1>11. /\ Cardinality(Holdings(gs, c)) + Cardinality(A) = Cardinality(Holdings(fs, c)) + Cardinality(B)
       /\ Cardinality(A) <= Cardinality(Holdings(fs, c))
  BY <1>5, <1>6, <1>10
<1>12. QED
  BY <1>2, <1>9, <1>11

----------------------------------------------------------------------------
(* Storing and releasing. *)

\* Inodes of files, and counts that cover what the files hold.
Sound(fs, t) == fs \in [Files -> Inodes] /\ IsABag(t) /\ Held(fs) \sqsubseteq t

LEMMA InodeFacts ==
  ASSUME NEW in \in Inodes
  PROVE  \E b \in Bytes, rs \in RecordSizes :
            b \in Seq(Nat) /\ rs \in Nat \ {0} /\ in = FileOf(b, rs)
<1>1. RecordSizes \subseteq Nat \ {0}
  BY FileAssumption DEF RecordSizes
<1>2. QED
  BY <1>1 DEF Inodes, Bytes

LEMMA InodeHeld ==
  ASSUME NEW in \in Inodes
  PROVE  HeldBy(in) \in Seq(Content)
BY InodeFacts, HeldByFacts

LEMMA FilesHeld ==
  ASSUME NEW fs \in [Files -> Inodes]
  PROVE  WellHeld(fs) /\ DOMAIN fs = Files
BY InodeHeld DEF WellHeld

\* Storing more keeps the counts sound.
LEMMA StoreKeeps ==
  ASSUME NEW fs, NEW t, Sound(fs, t), NEW s \in Seq(Content)
  PROVE  Sound(fs, Stored(t, s))
<1> DEFINE B == ToBag(s)
           u == t (+) B
           h == Held(fs)
<1>1. IsABag(t) /\ h \sqsubseteq t /\ fs \in [Files -> Inodes]
  BY DEF Sound
<1>2. IsABag(B)
  BY ToBagFacts
<1>3. IsABag(h)
  BY <1>1, FilesHeld, HeldFacts
<1> HIDE DEF B, h
<1>4. IsABag(u) /\ \A c : Copies(u, c) = Copies(t, c) + Copies(B, c)
  BY <1>1, <1>2, AddFacts
<1> HIDE DEF u
<1>5. \A c : Copies(h, c) <= Copies(t, c)
  BY <1>1, <1>3, SubBagFacts
<1>6. ASSUME NEW c PROVE Copies(h, c) <= Copies(u, c)
  <2>1. Copies(h, c) \in Nat /\ Copies(t, c) \in Nat /\ Copies(B, c) \in Nat
    BY <1>1, <1>2, <1>3, BagFacts
  <2>2. QED
    BY <1>4, <1>5, <2>1
<1>7. h \sqsubseteq u
  BY <1>3, <1>4, <1>6, SubBagFacts
<1>8. QED
  BY <1>1, <1>4, <1>7 DEF Sound, Stored, u, B, h

\* What the inode in holds, and what was released, is what x held and what was
\* stored.
Balanced(x, in, s, old) ==
    \A c : /\ Count(HeldBy(in), c) + Count(old, c) = Count(HeldBy(x), c) + Count(s, c)
           /\ Count(old, c) <= Count(HeldBy(x), c)

LEMMA ReplaceKeeps ==
  ASSUME NEW fs, NEW t, Sound(fs, t), NEW f \in Files, NEW in \in Inodes,
         NEW s \in Seq(Content), NEW old \in Seq(Content), Balanced(fs[f], in, s, old)
  PROVE  /\ Sound([fs EXCEPT ![f] = in], Released(Stored(t, s), old))
         /\ Surplus([fs EXCEPT ![f] = in], Released(Stored(t, s), old)) = Surplus(fs, t)
<1> DEFINE gs == [fs EXCEPT ![f] = in]
           A == ToBag(s)
           B == ToBag(old)
           u == t (+) A
           v == u (-) B
           h == Held(fs)
           k == Held(gs)
<1>1. IsABag(t) /\ h \sqsubseteq t /\ fs \in [Files -> Inodes]
  BY DEF Sound
<1>2. /\ IsABag(A) /\ \A c : Copies(A, c) = Count(s, c)
      /\ IsABag(B) /\ \A c : Copies(B, c) = Count(old, c)
  BY ToBagFacts
<1>3. gs \in [Files -> Inodes]
  BY <1>1
<1>4. WellHeld(fs) /\ DOMAIN fs = Files /\ WellHeld(gs) /\ HeldBy(in) \in Seq(Content)
  BY <1>1, <1>3, FilesHeld, InodeHeld
<1>5. HeldBy(fs[f]) \in Seq(Content)
  BY <1>4 DEF WellHeld
<1>6. /\ IsABag(h) /\ \A c : Copies(h, c) = Cardinality(Holdings(fs, c))
      /\ IsABag(k) /\ \A c : Copies(k, c) = Cardinality(Holdings(gs, c))
  <2> HIDE DEF gs
  <2>1. QED
    BY <1>4, HeldFacts
<1>7. \A c : /\ Copies(k, c) + Count(HeldBy(fs[f]), c) = Copies(h, c) + Count(HeldBy(in), c)
             /\ Count(HeldBy(fs[f]), c) <= Copies(h, c)
  <2>1. Changed(gs, fs, f, in)
    BY <1>4 DEF Changed
  <2> HIDE DEF gs, h, k
  <2>2. \A c : /\ Cardinality(Holdings(gs, c)) + Count(HeldBy(fs[f]), c)
                    = Cardinality(Holdings(fs, c)) + Count(HeldBy(in), c)
               /\ Count(HeldBy(fs[f]), c) <= Cardinality(Holdings(fs, c))
    BY <1>4, <2>1, HeldUpdate
  <2>3. QED
    BY <1>6, <2>2
<1> HIDE DEF gs, A, B, h, k
<1>8. IsABag(u) /\ \A c : Copies(u, c) = Copies(t, c) + Copies(A, c)
  BY <1>1, <1>2, AddFacts
<1> HIDE DEF u
<1>9. /\ IsABag(v)
      /\ \A c : Copies(v, c) = IF Copies(u, c) > Copies(B, c) THEN Copies(u, c) - Copies(B, c) ELSE 0
  BY <1>2, <1>8, SubtractFacts
<1> HIDE DEF v
<1>10. \A c : Copies(h, c) <= Copies(t, c)
  BY <1>1, <1>6, SubBagFacts
<1>11. ASSUME NEW c
       PROVE  /\ Copies(k, c) \in Nat /\ Copies(h, c) \in Nat /\ Copies(v, c) \in Nat /\ Copies(t, c) \in Nat
              /\ Copies(v, c) - Copies(k, c) = Copies(t, c) - Copies(h, c)
              /\ Copies(k, c) <= Copies(v, c)
              /\ Copies(h, c) <= Copies(t, c)
  <2> DEFINE kc == Copies(k, c)
             hc == Copies(h, c)
             vc == Copies(v, c)
             tc == Copies(t, c)
             uc == Copies(u, c)
             sc == Count(s, c)
             oc == Count(old, c)
             ic == Count(HeldBy(in), c)
             xc == Count(HeldBy(fs[f]), c)
  <2>1. kc \in Nat /\ hc \in Nat /\ vc \in Nat /\ tc \in Nat
    BY <1>1, <1>6, <1>9, BagFacts
  <2>2. sc \in Nat /\ oc \in Nat /\ ic \in Nat /\ xc \in Nat
    BY <1>4, <1>5, CountFacts
  <2>3. kc + xc = hc + ic /\ xc <= hc
    BY <1>7
  <2>4. ic + oc = xc + sc /\ oc <= xc
    BY DEF Balanced
  <2>5. uc = tc + sc /\ vc = (IF uc > oc THEN uc - oc ELSE 0) /\ hc <= tc
    BY <1>2, <1>8, <1>9, <1>10
  <2> HIDE DEF kc, hc, vc, tc, uc, sc, oc, ic, xc
  <2>6. vc - kc = tc - hc /\ kc <= vc
    BY <2>1, <2>2, <2>3, <2>4, <2>5
  <2>7. QED
    BY <2>1, <2>5, <2>6 DEF kc, hc, vc, tc
<1>12. k \sqsubseteq v
  BY <1>6, <1>9, <1>11, SubBagFacts
<1>13. Sound(gs, v)
  BY <1>3, <1>9, <1>12 DEF Sound, k
<1> DEFINE y == v (-) k
           z == t (-) h
<1>14. /\ IsABag(y)
       /\ \A c : Copies(y, c) = IF Copies(v, c) > Copies(k, c) THEN Copies(v, c) - Copies(k, c) ELSE 0
  BY <1>6, <1>9, SubtractFacts
<1>15. /\ IsABag(z)
       /\ \A c : Copies(z, c) = IF Copies(t, c) > Copies(h, c) THEN Copies(t, c) - Copies(h, c) ELSE 0
  BY <1>1, <1>6, SubtractFacts
<1> HIDE DEF y, z
<1>16. ASSUME NEW c PROVE Copies(y, c) = Copies(z, c)
  BY <1>11, <1>14, <1>15
<1>17. y = z
  BY <1>14, <1>15, <1>16, BagEqual
<1>18. QED
  BY <1>13, <1>17 DEF Surplus, Released, Stored, y, z, v, u, A, B, h, k, gs

\* The inductive invariant: the files and the committed files are sound.
IInv ==
    /\ Sound(files, refs)
    /\ image = Snapshot(image.files, image.refs)
    /\ Sound(image.files, image.refs)

LEMMA ReplaceFacts ==
  ASSUME IInv, NEW f \in Files, NEW in \in Inodes, NEW s \in Seq(Content),
         NEW old \in Seq(Content), Balanced(files[f], in, s, old), Replace(f, s, in, old)
  PROVE  /\ IInv'
         /\ files' # files => Surplus(files', refs') = Surplus(files, refs)
         /\ files' = files \/ files' = [files EXCEPT ![f] = in]
         /\ image'.files \in {image.files, files}
<1>1. PICK o \in Stores(s) :
        /\ image' = ImageAfter(s, o)
        /\ IF o.stored = Len(s)
           THEN /\ files' = [files EXCEPT ![f] = in]
                /\ refs' = Released(Stored(refs, s), old)
           ELSE /\ refs' = Stored(refs, Prefix(s, o.stored))
                /\ UNCHANGED files
  BY DEF Replace
<1>2. o.stored \in 0 .. Len(s) /\ o.commit \in 0 .. Len(s)
  BY DEF Stores
<1>3. \A j \in 0 .. Len(s) : Prefix(s, j) \in Seq(Content)
  BY DEF Prefix
<1>4. Sound(files, refs)
  BY DEF IInv
<1>5. /\ Sound(files', refs')
      /\ files' # files => Surplus(files', refs') = Surplus(files, refs)
      /\ files' = files \/ files' = [files EXCEPT ![f] = in]
  <2>1. CASE o.stored = Len(s)
    <3>1. files' = [files EXCEPT ![f] = in] /\ refs' = Released(Stored(refs, s), old)
      BY <1>1, <2>1
    <3>2. /\ Sound([files EXCEPT ![f] = in], Released(Stored(refs, s), old))
          /\ Surplus([files EXCEPT ![f] = in], Released(Stored(refs, s), old)) = Surplus(files, refs)
      BY <1>4, ReplaceKeeps
    <3>3. QED
      BY <3>1, <3>2
  <2>2. CASE o.stored # Len(s)
    <3> DEFINE p == Prefix(s, o.stored)
    <3>1. files' = files /\ refs' = Stored(refs, p)
      BY <1>1, <2>2
    <3>2. p \in Seq(Content)
      BY <1>2, <1>3
    <3> HIDE DEF p
    <3>3. Sound(files, Stored(refs, p))
      BY <1>4, <3>2, StoreKeeps
    <3>4. QED
      BY <3>1, <3>3
  <2>3. QED
    BY <2>1, <2>2
<1>6. /\ image' = Snapshot(image'.files, image'.refs)
      /\ Sound(image'.files, image'.refs)
      /\ image'.files \in {image.files, files}
  <2>1. CASE o.commit = 0
    <3>1. image' = image
      BY <1>1, <2>1 DEF ImageAfter
    <3>2. QED
      BY <3>1 DEF IInv
  <2>2. CASE o.commit # 0
    <3> DEFINE p == Prefix(s, o.commit - 1)
               t == Stored(refs, p)
    <3>1. image' = Snapshot(files, t)
      BY <1>1, <2>2 DEF ImageAfter
    <3>2. p \in Seq(Content)
      <4>1. o.commit - 1 \in 0 .. Len(s)
        BY <1>2, <2>2
      <4>2. QED
        BY <1>3, <4>1
    <3> HIDE DEF p
    <3>3. Sound(files, t)
      BY <1>4, <3>2, StoreKeeps
    <3> HIDE DEF t
    <3>4. image'.files = files /\ image'.refs = t
      BY <3>1 DEF Snapshot
    <3>5. QED
      BY <3>1, <3>3, <3>4
  <2>3. QED
    BY <2>1, <2>2
<1>7. QED
  BY <1>5, <1>6 DEF IInv

----------------------------------------------------------------------------
(* set_data, and what it is used for. *)

LEMMA RecordSizeFacts ==
  ASSUME NEW n \in Nat
  PROVE  RecordSizeFor(n) \in RecordSizes /\ RecordSizes \subseteq Nat \ {0}
<1> DEFINE m == Len(Limits)
           P == {i \in DOMAIN Limits : Limits[i] <= n}
<1>1. m \in Nat /\ P \subseteq 1 .. m /\ DOMAIN Sizes = 1 .. m + 1
  BY FileAssumption
<1> HIDE DEF P, m
<1>2. IsFiniteSet(1 .. m) /\ Cardinality(1 .. m) = m
  <2>1. 1 \in Int /\ m \in Int
    BY <1>1
  <2>2. IsFiniteSet(1 .. m) /\ Cardinality(1 .. m) = IF 1 > m THEN 0 ELSE m - 1 + 1
    BY <2>1, FS_Interval
  <2>3. QED
    BY <1>1, <2>2
<1>3. IsFiniteSet(P) /\ Cardinality(P) <= Cardinality(1 .. m)
  BY <1>1, <1>2, FS_Subset
<1>4. Cardinality(P) \in Nat
  BY <1>3, FS_CardinalityType
<1>5. 1 + Cardinality(P) \in DOMAIN Sizes
  BY <1>1, <1>2, <1>3, <1>4
<1>6. RecordSizeFor(n) \in RecordSizes
  BY <1>5 DEF RecordSizeFor, RecordSizes, P
<1>7. QED
  BY <1>6, FileAssumption DEF RecordSizes

\* An operation on f that makes b of its bytes or fails.
Rewrites(f, b) ==
    /\ IInv'
    /\ files' # files => Surplus(files', refs') = Surplus(files, refs)
    /\ files' = files \/ \E in \in Inodes : GetData(in) = b /\ files' = [files EXCEPT ![f] = in]
    /\ image'.files \in {image.files, files}

LEMMA BalancedAnew ==
  ASSUME NEW x, NEW in, HeldBy(x) \in Seq(Content), HeldBy(in) \in Seq(Content)
  PROVE  Balanced(x, in, HeldBy(in), HeldBy(x))
<1>1. ASSUME NEW c PROVE Count(HeldBy(x), c) \in Nat /\ Count(HeldBy(in), c) \in Nat
  BY CountFacts
<1>2. QED
  BY <1>1 DEF Balanced

LEMMA SetDataFacts ==
  ASSUME IInv, NEW f \in Files, NEW b \in Bytes, SetData(f, b)
  PROVE  Rewrites(f, b)
<1> DEFINE rs == RecordSizeFor(Len(b))
           recs == SplitRecords(b, rs)
           in == FileOf(b, rs)
           x == files[f]
           s == HeldBy(in)
           old == HeldBy(x)
<1>1. b \in Seq(Nat) /\ Len(b) \in Nat
  BY DEF Bytes
<1>2. rs \in RecordSizes /\ rs \in Nat \ {0}
  BY <1>1, RecordSizeFacts
<1>3. s = recs \o MapBlob(recs) /\ s \in Seq(Content)
  <2> HIDE DEF rs
  <2>1. QED
    BY <1>1, <1>2, HeldByFacts
<1>4. in \in Inodes
  <2> HIDE DEF rs
  <2>1. QED
    BY <1>2 DEF Inodes
<1>5. x \in Inodes
  BY DEF IInv, Sound
<1>6. GetData(in) = b
  <2> HIDE DEF rs
  <2>1. QED
    BY <1>1, <1>2, FileFacts
<1>7. Replace(f, s, in, old)
  BY <1>3 DEF SetData, FileOf
<1> HIDE DEF in, x
<1>8. old \in Seq(Content)
  BY <1>5, InodeHeld
<1>9. Balanced(x, in, s, old)
  BY <1>3, <1>8, BalancedAnew
<1> HIDE DEF s, old
<1>10. /\ IInv'
       /\ files' # files => Surplus(files', refs') = Surplus(files, refs)
       /\ files' = files \/ files' = [files EXCEPT ![f] = in]
       /\ image'.files \in {image.files, files}
  BY <1>3, <1>4, <1>7, <1>8, <1>9, ReplaceFacts DEF x
<1>11. QED
  BY <1>4, <1>6, <1>10 DEF Rewrites

LEMMA NoDataFacts ==
  /\ NoData \in Inodes /\ GetData(NoData) = <<>> /\ HeldBy(NoData) = <<>>
  /\ HeldBy(NoData) \in Seq(Content)
<1>1. PICK rs \in RecordSizes : rs \in Nat \ {0}
  BY RecordSizeFacts
<1>2. <<>> \in Bytes /\ <<>> \in Seq(Nat) /\ Len(<<>>) = 0
  BY FileAssumption DEF Bytes
<1>3. FileOf(<<>>, rs) = NoData /\ GetData(FileOf(<<>>, rs)) = <<>>
  BY <1>1, <1>2, FileFacts
<1>4. NoData \in Inodes
  BY <1>1, <1>2, <1>3 DEF Inodes
<1>5. NoData.size = 0
  BY DEF NoData
<1>6. HeldBy(NoData) = <<>>
  BY <1>5 DEF HeldBy, LoadRefs, Container
<1>7. QED
  BY <1>3, <1>4, <1>6

LEMMA ReclaimFacts ==
  ASSUME IInv, NEW f \in Files, Reclaim(f)
  PROVE  Rewrites(f, <<>>)
<1> DEFINE x == files[f]
           s == HeldBy(NoData)
           old == HeldBy(x)
<1>1. x \in Inodes
  BY DEF IInv, Sound
<1>2. old \in Seq(Content) /\ s \in Seq(Content) /\ s = <<>>
  BY <1>1, InodeHeld, NoDataFacts
<1>3. Balanced(x, NoData, s, old)
  BY <1>2, BalancedAnew
<1>4. Replace(f, s, NoData, old)
  BY <1>2 DEF Reclaim
<1> HIDE DEF s, old
<1>5. /\ IInv'
      /\ files' # files => Surplus(files', refs') = Surplus(files, refs)
      /\ files' = files \/ files' = [files EXCEPT ![f] = NoData]
      /\ image'.files \in {image.files, files}
  BY <1>2, <1>3, <1>4, NoDataFacts, ReplaceFacts
<1>6. QED
  BY <1>5, NoDataFacts DEF Rewrites

----------------------------------------------------------------------------
(* Sets of numbers in their order. *)

Increasing(q, k) == \A i, j \in 1 .. k : i < j => q[i] < q[j]

LEMMA AscendingExists ==
  ASSUME NEW S \in SUBSET Nat, IsFiniteSet(S)
  PROVE  \E q \in [1 .. Cardinality(S) -> S] : Increasing(q, Cardinality(S))
<1> DEFINE A == {k \in Nat : \A T \in SUBSET Nat : IsFiniteSet(T) /\ Cardinality(T) = k
                    => \E q \in [1 .. k -> T] : Increasing(q, k)}
<1>1. 0 \in A
  <2>1. ASSUME NEW T \in SUBSET Nat PROVE \E q \in [1 .. 0 -> T] : Increasing(q, 0)
    <3>1. [i \in 1 .. 0 |-> 0] \in [1 .. 0 -> T] /\ Increasing([i \in 1 .. 0 |-> 0], 0)
      BY DEF Increasing
    <3>2. QED
      BY <3>1
  <2>2. QED
    BY <2>1
<1>2. ASSUME NEW k \in A PROVE k + 1 \in A
  <2>1. k \in Nat
    OBVIOUS
  <2>2. ASSUME NEW T \in SUBSET Nat, IsFiniteSet(T), Cardinality(T) = k + 1
        PROVE  \E q \in [1 .. k + 1 -> T] : Increasing(q, k + 1)
    <3>1. T # {}
      BY <2>1, <2>2, FS_EmptySet
    <3>2. PICK m \in T : \A i \in T : ~(i < m)
      BY <3>1, Smallest
    <3> DEFINE U == T \ {m}
    <3>3. IsFiniteSet(U) /\ Cardinality(U) = Cardinality(T) - 1
      BY <2>2, FS_RemoveElement
    <3>4. Cardinality(U) = k /\ U \in SUBSET Nat
      BY <2>1, <2>2, <3>3
    <3>5. PICK q \in [1 .. k -> U] : Increasing(q, k)
      BY <3>3, <3>4
    <3> DEFINE p == [j \in 1 .. k + 1 |-> IF j = 1 THEN m ELSE q[j - 1]]
    <3>6. ASSUME NEW j \in 1 .. k + 1, j # 1 PROVE j - 1 \in 1 .. k /\ p[j] = q[j - 1] /\ p[j] \in U
      <4>1. j - 1 \in 1 .. k
        BY <2>1, <3>6
      <4>2. QED
        BY <3>5, <3>6, <4>1
    <3>7. 1 \in 1 .. k + 1 /\ p[1] = m
      BY <2>1
    <3>8. p \in [1 .. k + 1 -> T]
      <4>1. \A j \in 1 .. k + 1 : p[j] \in T
        BY <3>6, <3>7
      <4>2. p = [j \in 1 .. k + 1 |-> p[j]]
        OBVIOUS
      <4> HIDE DEF p
      <4>3. QED
        BY <4>1, <4>2
    <3> HIDE DEF p
    <3>9. ASSUME NEW i \in 1 .. k + 1, NEW j \in 1 .. k + 1, i < j PROVE p[i] < p[j]
      <4>1. j # 1 /\ j - 1 \in 1 .. k /\ p[j] = q[j - 1] /\ p[j] \in U
        BY <2>1, <3>6, <3>9
      <4>2. CASE i = 1
        <5>1. p[i] = m /\ p[j] \in T /\ p[j] # m /\ m \in Nat /\ p[j] \in Nat
          BY <3>7, <4>1, <4>2
        <5>2. ~(p[j] < m)
          BY <3>2, <5>1
        <5>3. QED
          BY <5>1, <5>2
      <4>3. CASE i # 1
        <5>1. i - 1 \in 1 .. k /\ p[i] = q[i - 1]
          BY <3>6, <4>3
        <5>2. i - 1 < j - 1
          BY <3>9, <2>1
        <5>3. q[i - 1] < q[j - 1]
          BY <3>5, <4>1, <5>1, <5>2 DEF Increasing
        <5>4. QED
          BY <4>1, <5>1, <5>3
      <4>4. QED
        BY <4>2, <4>3
    <3>10. QED
      BY <3>8, <3>9 DEF Increasing
  <2>3. QED
    BY <2>1, <2>2
<1>3. A \in SUBSET Nat
  OBVIOUS
<1>4. Cardinality(S) \in Nat
  BY FS_CardinalityType
<1>5. Cardinality(S) \in A
  <2> HIDE DEF A
  <2>1. QED
    BY <1>1, <1>2, <1>3, <1>4, SetInduction
<1>6. QED
  BY <1>5

LEMMA AscendingFacts ==
  ASSUME NEW S \in SUBSET Nat, IsFiniteSet(S)
  PROVE  /\ Cardinality(S) \in Nat
         /\ OneToOne(Ascending(S), 1 .. Cardinality(S), S)
<1> DEFINE k == Cardinality(S)
           q == Ascending(S)
<1>1. k \in Nat
  BY FS_CardinalityType
<1>2. \E p \in [1 .. k -> S] : \A i, j \in DOMAIN p : i < j => p[i] < p[j]
  BY AscendingExists DEF Increasing
<1>3. q \in [1 .. k -> S] /\ \A i, j \in DOMAIN q : i < j => q[i] < q[j]
  BY <1>2 DEF Ascending
<1>4. IsFiniteSet(1 .. k) /\ Cardinality(1 .. k) = k
  BY <1>1, FS_Interval
<1> HIDE DEF q
<1>5. ASSUME NEW i \in 1 .. k, NEW j \in 1 .. k, q[i] = q[j] PROVE i = j
  <2>1. q[i] \in Nat /\ q[j] \in Nat /\ i \in DOMAIN q /\ j \in DOMAIN q
    BY <1>3
  <2>2. ~(q[i] < q[j]) /\ ~(q[j] < q[i])
    BY <1>5, <2>1
  <2>3. ~(i < j) /\ ~(j < i)
    BY <1>3, <2>1, <2>2
  <2>4. QED
    BY <1>1, <2>3
<1>6. q \in Injection(1 .. k, S)
  BY <1>3, <1>5 DEF Injection, IsInjective
<1>7. q \in Surjection(1 .. k, S)
  <2> HIDE DEF k
  <2>1. Cardinality(1 .. k) = Cardinality(S)
    BY <1>4 DEF k
  <2>2. QED
    BY <1>6, <2>1, FS_Injection
<1>8. \A z \in S : \E i \in 1 .. k : q[i] = z
  BY <1>7 DEF Surjection
<1>9. OneToOne(q, 1 .. k, S)
  BY <1>3, <1>5, <1>8 DEF OneToOne
<1>10. QED
  BY <1>1, <1>9 DEF q

\* The elements of r at the places S, in their order.
Chosen(r, S) == [j \in DOMAIN Ascending(S) |-> r[Ascending(S)[j]]]

LEMMA ChosenFacts ==
  ASSUME NEW S \in SUBSET Nat, IsFiniteSet(S), NEW r, NEW T, \A i \in S : r[i] \in T
  PROVE  /\ Chosen(r, S) \in Seq(T)
         /\ \A c : Count(Chosen(r, S), c) = Cardinality({i \in S : r[i] = c})
<1> DEFINE k == Cardinality(S)
           q == Ascending(S)
           s == [j \in DOMAIN q |-> r[q[j]]]
<1>1. k \in Nat /\ OneToOne(q, 1 .. k, S)
  BY AscendingFacts
<1> HIDE DEF q, k
<1>2. /\ q \in [1 .. k -> S] /\ DOMAIN q = 1 .. k
      /\ \A x, y \in 1 .. k : q[x] = q[y] => x = y
      /\ \A z \in S : \E x \in 1 .. k : q[x] = z
  BY <1>1 DEF OneToOne
<1>3. s = [j \in 1 .. k |-> r[q[j]]]
  BY <1>2
<1>4. s \in [1 .. k -> T] /\ \A j \in 1 .. k : s[j] = r[q[j]]
  BY <1>2, <1>3
<1> HIDE DEF s
<1>5. s \in Seq(T) /\ DOMAIN s = 1 .. k
  BY <1>1, <1>4
<1>6. ASSUME NEW c PROVE Count(s, c) = Cardinality({i \in S : r[i] = c})
  <2> DEFINE P == Places(s, c)
             Q == {i \in S : r[i] = c}
             g == [j \in P |-> q[j]]
  <2>1. IsFiniteSet(P)
    BY <1>5, CountFacts
  <2>2. P = {j \in 1 .. k : r[q[j]] = c}
    BY <1>4, <1>5 DEF Places
  <2> HIDE DEF P
  <2>3. g \in [P -> Q]
    BY <1>2, <2>2
  <2>4. \A x, y \in P : g[x] = g[y] => x = y
    BY <1>2, <2>2
  <2>5. \A z \in Q : \E x \in P : g[x] = z
    <3>1. ASSUME NEW z \in Q PROVE \E x \in P : g[x] = z
      <4>1. z \in S /\ r[z] = c
        OBVIOUS
      <4>2. PICK x \in 1 .. k : q[x] = z
        BY <1>2, <4>1
      <4>3. x \in P
        BY <2>2, <4>1, <4>2
      <4>4. QED
        BY <4>2, <4>3
    <3>2. QED
      BY <3>1
  <2> HIDE DEF g, Q
  <2>6. OneToOne(g, P, Q)
    BY <2>3, <2>4, <2>5 DEF OneToOne
  <2>7. Cardinality(Q) = Cardinality(P)
    BY <2>1, <2>6, SameSize
  <2>8. QED
    BY <2>7 DEF P, Q, Count
<1>7. QED
  BY <1>5, <1>6 DEF s, q, Chosen

----------------------------------------------------------------------------
(* write_at_locked. *)

\* d laid over the bytes t from off on.
Laid(t, off, d) ==
    [q \in 1 .. Most(Len(t), off + Len(d)) |->
        IF q > off /\ q <= off + Len(d) THEN d[q - off] ELSE IF q <= Len(t) THEN t[q] ELSE 0]

LEMMA LaidFacts ==
  ASSUME NEW t \in Seq(Nat), NEW off \in Nat, NEW d \in Seq(Nat)
  PROVE  /\ Most(Len(t), off + Len(d)) \in Nat
         /\ Laid(t, off, d) \in Seq(Nat) /\ Len(Laid(t, off, d)) = Most(Len(t), off + Len(d))
         /\ \A q \in 1 .. Most(Len(t), off + Len(d)) :
               Laid(t, off, d)[q] = IF q > off /\ q <= off + Len(d) THEN d[q - off]
                                    ELSE IF q <= Len(t) THEN t[q] ELSE 0
<1> DEFINE m == Most(Len(t), off + Len(d))
           V(q) == IF q > off /\ q <= off + Len(d) THEN d[q - off]
                   ELSE IF q <= Len(t) THEN t[q] ELSE 0
           b == [q \in 1 .. m |-> V(q)]
<1>1. m \in Nat
  BY DEF Most
<1>2. Laid(t, off, d) = b
  BY DEF Laid
<1> HIDE DEF m
<1>3. ASSUME NEW q \in 1 .. m PROVE V(q) \in Nat
  <2>1. q \in Nat /\ q >= 1
    BY <1>1
  <2>2. CASE q > off /\ q <= off + Len(d)
    <3>1. q - off \in 1 .. Len(d)
      BY <2>1, <2>2
    <3>2. QED
      BY <2>2, <3>1
  <2>3. CASE ~(q > off /\ q <= off + Len(d)) /\ q <= Len(t)
    <3>1. q \in 1 .. Len(t)
      BY <2>1, <2>3
    <3>2. QED
      BY <2>3, <3>1
  <2>4. QED
    BY <2>2, <2>3
<1> HIDE DEF V
<1>4. b \in Seq(Nat) /\ Len(b) = m /\ \A q \in 1 .. m : b[q] = V(q)
  BY <1>1, <1>3
<1> HIDE DEF b
<1>5. QED
  BY <1>1, <1>2, <1>4 DEF m, V

\* The records of write_at_locked that keep their Ref, and all records.
KeptBy(t, rs, off, d) ==
    LET size == Most(Len(t), off + Len(d))
    IN {i \in 1 .. CeilDiv(size, rs) :
          Carried(i, Least(i * rs, size), Len(t), SplitRecords(t, rs),
                  off + Len(d) > (i - 1) * rs /\ off < Least(i * rs, size))}

WrittenBy(t, rs, off, d) ==
    LET size == Most(Len(t), off + Len(d))
        old == SplitRecords(t, rs)
    IN [i \in 1 .. CeilDiv(size, rs) |->
          IF i \in KeptBy(t, rs, off, d) THEN old[i]
          ELSE Record(Patched(IF i <= Len(old) THEN old[i].rec ELSE <<>>,
                              (i - 1) * rs, Least(i * rs, size) - (i - 1) * rs, off, d))]

\* The records after the write are those that the new bytes are cut into.
LEMMA WrittenFacts ==
  ASSUME NEW t \in Seq(Nat), NEW rs \in Nat \ {0}, NEW off \in Nat, NEW d \in Seq(Nat)
  PROVE  WrittenBy(t, rs, off, d) = SplitRecords(Laid(t, off, d), rs)
<1> DEFINE T == Len(t)
           end == off + Len(d)
           size == Most(T, end)
           n == CeilDiv(size, rs)
           b == Laid(t, off, d)
           old == SplitRecords(t, rs)
           K == KeptBy(t, rs, off, d)
           V(p) == IF p > off /\ p <= end THEN d[p - off] ELSE IF p <= T THEN t[p] ELSE 0
           R(i) == IF i <= Len(old) THEN old[i].rec ELSE <<>>
           W(i) == IF i \in K THEN old[i]
                   ELSE Record(Patched(R(i), (i - 1) * rs, Least(i * rs, size) - (i - 1) * rs, off, d))
<1>1. T \in Nat /\ end \in Nat /\ size \in Nat /\ T <= size /\ end <= size
  BY DEF Most
<1>2. /\ b \in Seq(Nat) /\ Len(b) = size
      /\ \A q \in 1 .. size : b[q] = V(q)
  BY LaidFacts
<1>3. /\ Len(old) = CeilDiv(T, rs)
      /\ \A i \in 1 .. CeilDiv(T, rs) : old[i] = Record(SubSeq(t, (i - 1) * rs + 1, Least(i * rs, T)))
      /\ \A i \in 1 .. CeilDiv(T, rs) : old[i].rec = SubSeq(t, (i - 1) * rs + 1, Least(i * rs, T))
  BY SplitFacts
<1>4. SplitRecords(b, rs) = [i \in 1 .. n |-> Record(SubSeq(b, (i - 1) * rs + 1, Least(i * rs, size)))]
  <2> HIDE DEF b
  <2>1. QED
    BY <1>2 DEF SplitRecords
<1>5. WrittenBy(t, rs, off, d) = [i \in 1 .. n |-> W(i)]
  BY DEF WrittenBy
<1>6. K = {i \in 1 .. n : Carried(i, Least(i * rs, size), T, old,
                                  end > (i - 1) * rs /\ off < Least(i * rs, size))}
  BY DEF KeptBy
<1> HIDE DEF T, end, size, n, b, old, K, V
<1>7. /\ n \in Nat
      /\ \A i \in 1 .. n : /\ (i - 1) * rs \in Nat /\ i * rs \in Nat /\ i * rs = (i - 1) * rs + rs
                           /\ (i - 1) * rs < size
                           /\ Least(i * rs, size) \in Nat /\ (i - 1) * rs < Least(i * rs, size)
                           /\ Least(i * rs, size) <= size
  BY <1>1, CutFacts DEF n
<1>8. /\ CeilDiv(T, rs) \in Nat
      /\ \A i \in Nat \ {0} : i <= CeilDiv(T, rs) <=> (i - 1) * rs < T
  BY <1>1, CeilDivFacts
<1>9. ASSUME NEW i \in 1 .. n
      PROVE  W(i) = Record(SubSeq(b, (i - 1) * rs + 1, Least(i * rs, size)))
  <2> DEFINE start == (i - 1) * rs
             w == i * rs
             stop == Least(w, size)
             cut == Least(w, T)
             u == SubSeq(b, start + 1, stop)
             v == SubSeq(t, start + 1, cut)
  <2>1. start \in Nat /\ w \in Nat /\ w = start + rs /\ stop \in Nat /\ start < stop /\ stop <= size
    BY <1>7
  <2>2. i \in Nat \ {0} /\ (i <= CeilDiv(T, rs) <=> start < T)
    BY <1>7, <1>8
  <2>3. start < T => /\ i \in 1 .. CeilDiv(T, rs) /\ i <= Len(old)
                     /\ old[i] = Record(v) /\ old[i].rec = v
    <3>1. start < T => i \in 1 .. CeilDiv(T, rs) /\ i <= Len(old)
      BY <1>3, <1>8, <2>2
    <3>2. QED
      BY <1>3, <3>1
  <2>4. ~(start < T) => ~(i <= Len(old))
    BY <1>3, <2>2
  <2>5. i \in K <=> /\ ~(end > start /\ off < stop) /\ i <= Len(old) /\ stop <= T
    BY <1>6 DEF Carried
  <2>6. W(i) = IF i \in K THEN old[i] ELSE Record(Patched(R(i), start, stop - start, off, d))
    OBVIOUS
  <2>7. R(i) = IF start < T THEN v ELSE <<>>
    BY <2>3, <2>4
  <2> HIDE DEF W, R, start, w, stop
  <2>8. start < T => cut \in Nat /\ start <= cut /\ cut <= T /\ cut <= w
    BY <1>1, <2>1 DEF Least
  <2>9. /\ u \in Seq(Nat) /\ Len(u) = stop - start
        /\ \A q \in 1 .. stop - start : u[q] = b[start + q]
    <3>1. start <= stop /\ stop <= Len(b)
      BY <1>1, <1>2, <2>1
    <3>2. QED
      BY <1>2, <2>1, <3>1, PieceFacts, SMTT(30)
  <2>10. start < T => /\ v \in Seq(Nat) /\ Len(v) = cut - start
                      /\ \A q \in 1 .. cut - start : v[q] = t[start + q]
    <3> HIDE DEF cut
    <3>1. QED
      BY <2>1, <2>8, PieceFacts DEF T
  <2> HIDE DEF u, v
  <2>11. ASSUME NEW q \in 1 .. stop - start
         PROVE  /\ q \in Nat /\ start + q \in 1 .. size /\ start + q <= stop /\ start + q > start
                /\ u[q] = V(start + q)
    <3> DEFINE p == start + q
    <3>1. q \in Nat /\ p \in 1 .. size /\ p <= stop /\ p > start
      BY <1>1, <2>1
    <3>2. u[q] = b[p]
      BY <2>9
    <3> HIDE DEF p
    <3>3. b[p] = V(p)
      BY <1>2, <3>1
    <3>4. QED
      BY <3>1, <3>2, <3>3 DEF p
  <2>12. CASE i \in K
    <3>1. ~(end > start /\ off < stop) /\ stop <= T /\ start < T
      BY <1>1, <2>1, <2>5, <2>12
    <3>2. cut = stop
      BY <1>1, <2>1, <3>1 DEF stop, Least
    <3>3. ASSUME NEW q \in 1 .. stop - start PROVE u[q] = v[q]
      <4> DEFINE p == start + q
      <4>1. p \in Nat /\ p <= stop /\ p > start /\ p <= T
        BY <1>1, <2>1, <3>1, <2>11
      <4>2. ~(p > off /\ p <= end)
        BY <1>1, <2>1, <3>1, <4>1
      <4>3. u[q] = t[p]
        <5>1. u[q] = V(p)
          BY <2>11
        <5> HIDE DEF p
        <5>2. QED
          BY <4>1, <4>2, <5>1 DEF V
      <4>4. v[q] = t[p]
        BY <2>10, <3>1, <3>2
      <4>5. QED
        BY <4>3, <4>4
    <3>4. u = v
      <4>1. v \in Seq(Nat) /\ Len(v) = stop - start
        BY <2>10, <3>1, <3>2
      <4>2. QED
        BY <2>9, <3>3, <4>1, SeqEqual
    <3>5. QED
      BY <2>3, <2>6, <2>12, <3>1, <3>4 DEF u, start, stop, w
  <2>13. CASE i \notin K
    <3> DEFINE z == Patched(R(i), start, stop - start, off, d)
               Z(q) == IF start + q > off /\ start + q <= end THEN d[start + q - off]
                       ELSE IF q <= Len(R(i)) THEN R(i)[q] ELSE 0
    <3>1. z = [q \in 1 .. stop - start |-> Z(q)]
      BY DEF Patched, end
    <3>2. ASSUME NEW q \in 1 .. stop - start PROVE u[q] = Z(q)
      <4>0. PICK p \in Nat : p = start + q
        BY <2>1
      <4>1. q \in Nat /\ q >= 1 /\ p \in 1 .. size /\ p <= stop /\ p > start /\ p \in Nat
        BY <1>1, <2>1, <2>11, <4>0
      <4>2. /\ u[q] = V(p)
            /\ Z(q) = IF p > off /\ p <= end THEN d[p - off]
                      ELSE IF q <= Len(R(i)) THEN R(i)[q] ELSE 0
        <5>1. u[q] = V(p)
          BY <2>11, <4>0
        <5>2. CASE p > off /\ p <= end
          <6>1. Z(q) = d[start + q - off]
            BY <4>0, <5>2
          <6>2. start + q - off = p - off
            BY <2>1, <4>0, <4>1
          <6> HIDE DEF Z
          <6>3. Z(q) = d[p - off]
            BY <6>1, <6>2
          <6>4. QED
            BY <5>1, <5>2, <6>3
        <5>3. CASE ~(p > off /\ p <= end)
          <6>1. Z(q) = IF q <= Len(R(i)) THEN R(i)[q] ELSE 0
            BY <4>0, <5>3
          <6> HIDE DEF Z
          <6>2. QED
            BY <5>1, <5>3, <6>1
        <5>4. QED
          BY <5>2, <5>3
      <4>3. (IF p <= T THEN t[p] ELSE 0) = IF q <= Len(R(i)) THEN R(i)[q] ELSE 0
        <5>1. CASE start < T
          <6>1. R(i) = v /\ Len(v) = cut - start
            BY <2>7, <2>10, <5>1
          <6>2. p <= w
            BY <1>1, <2>1, <4>1 DEF stop, Least
          <6>3. p <= T <=> q <= cut - start
            <7>1. p <= T <=> p <= cut
              BY <1>1, <2>1, <4>1, <6>2 DEF Least
            <7>2. cut \in Nat
              BY <2>8, <5>1
            <7>3. QED
              BY <2>1, <4>0, <4>1, <7>1, <7>2
          <6>4. q <= cut - start => v[q] = t[p]
            <7>1. q <= cut - start => q \in 1 .. cut - start
              BY <2>1, <2>8, <4>1, <5>1
            <7>2. QED
              BY <2>10, <4>0, <5>1, <7>1
          <6>5. QED
            BY <6>1, <6>3, <6>4
        <5>2. CASE ~(start < T)
          <6>1. R(i) = <<>> /\ Len(R(i)) = 0
            BY <2>7, <5>2
          <6>2. ~(p <= T) /\ ~(q <= 0)
            BY <1>1, <2>1, <4>0, <4>1, <5>2
          <6>3. QED
            BY <6>1, <6>2
        <5>3. QED
          BY <5>1, <5>2
      <4> HIDE DEF Z
      <4>4. QED
        BY <4>2, <4>3 DEF V
    <3>3. u = [q \in 1 .. stop - start |-> u[q]]
      BY <2>9
    <3> HIDE DEF z, Z
    <3>4. z = u
      BY <3>1, <3>2, <3>3
    <3>5. QED
      BY <2>6, <2>13, <3>4 DEF z, u, start, stop, w
  <2>14. QED
    BY <2>12, <2>13
<1>10. QED
  BY <1>4, <1>5, <1>9 DEF b

\* The inode x has the records old and the map k, the inode in the records recs
\* and the map m; the records K are kept, s is stored and o released.
Exchanged(x, in, old, recs, k, m, K, s, o) ==
    /\ old \in Seq(Content) /\ recs \in Seq(Content) /\ k \in Seq(Content) /\ m \in Seq(Content)
    /\ HeldBy(x) = old \o k /\ HeldBy(in) = recs \o m
    /\ Len(old) <= Len(recs) /\ K \subseteq DOMAIN old /\ \A i \in K : recs[i] = old[i]
    /\ s = Chosen(recs, DOMAIN recs \ K) \o m
    /\ o = Chosen(old, (DOMAIN recs \ K) \cap DOMAIN old) \o k

LEMMA ExchangeBalanced ==
  ASSUME NEW x, NEW in, NEW old, NEW recs, NEW k, NEW m, NEW K, NEW s, NEW o,
         Exchanged(x, in, old, recs, k, m, K, s, o)
  PROVE  s \in Seq(Content) /\ o \in Seq(Content) /\ Balanced(x, in, s, o)
<1>0. /\ old \in Seq(Content) /\ recs \in Seq(Content) /\ k \in Seq(Content) /\ m \in Seq(Content)
      /\ Len(old) <= Len(recs) /\ K \subseteq DOMAIN old /\ \A i \in K : recs[i] = old[i]
  BY DEF Exchanged
<1> DEFINE D == DOMAIN recs
           E == DOMAIN old
           W == D \ K
           X == W \cap E
           p == Chosen(recs, W)
           q == Chosen(old, X)
<1>1. D \in SUBSET Nat /\ E \in SUBSET D /\ IsFiniteSet(D)
  <2>1. D = 1 .. Len(recs) /\ E = 1 .. Len(old) /\ Len(recs) \in Nat /\ Len(old) \in Nat
    BY <1>0
  <2>2. IsFiniteSet(1 .. Len(recs))
    BY <2>1, FS_Interval
  <2>3. QED
    BY <1>0, <2>1, <2>2
<1>2. (\A i \in D : recs[i] \in Content) /\ (\A i \in E : old[i] \in Content)
  BY <1>0
<1>3. s = p \o m /\ o = q \o k
  BY DEF Exchanged
<1> HIDE DEF D, E
<1>4. W \in SUBSET D /\ X \in SUBSET D /\ W \in SUBSET Nat /\ X \in SUBSET Nat
  BY <1>1
<1>5. IsFiniteSet(W) /\ IsFiniteSet(X)
  BY <1>1, <1>4, FS_Subset
<1>6. (\A i \in W : recs[i] \in Content) /\ (\A i \in X : old[i] \in Content)
  BY <1>2
<1>7. K \subseteq E /\ \A i \in K : recs[i] = old[i]
  BY <1>0 DEF E
<1> HIDE DEF W, X
<1>8. p \in Seq(Content) /\ \A c : Count(p, c) = Cardinality({i \in W : recs[i] = c})
  <2>1. W \in SUBSET Nat /\ IsFiniteSet(W) /\ \A i \in W : recs[i] \in Content
    BY <1>4, <1>5, <1>6
  <2>2. QED
    BY <2>1, ChosenFacts
<1>9. q \in Seq(Content) /\ \A c : Count(q, c) = Cardinality({i \in X : old[i] = c})
  BY <1>4, <1>5, <1>6, ChosenFacts
<1> HIDE DEF p, q
<1>10. s \in Seq(Content) /\ \A c : Count(s, c) = Count(p, c) + Count(m, c)
  BY <1>0, <1>3, <1>8, CountConcat
<1>11. o \in Seq(Content) /\ \A c : Count(o, c) = Count(q, c) + Count(k, c)
  BY <1>0, <1>3, <1>9, CountConcat
<1>12. \A c : /\ Count(HeldBy(x), c) = Count(old, c) + Count(k, c)
              /\ Count(HeldBy(in), c) = Count(recs, c) + Count(m, c)
  <2>1. HeldBy(x) = old \o k /\ HeldBy(in) = recs \o m
    BY DEF Exchanged
  <2>2. QED
    BY <1>0, <2>1, CountConcat
<1>13. ASSUME NEW c
       PROVE  /\ Count(HeldBy(in), c) + Count(o, c) = Count(HeldBy(x), c) + Count(s, c)
              /\ Count(o, c) <= Count(HeldBy(x), c)
  <2> DEFINE A == {i \in K : old[i] = c}
             B == {i \in W : recs[i] = c}
             C == {i \in X : old[i] = c}
             P == Places(recs, c)
             Q == Places(old, c)
  <2>1. P = A \cup B /\ A \cap B = {}
    BY <1>1, <1>7 DEF Places, D, W
  <2>2. Q = A \cup C /\ A \cap C = {}
    BY <1>1, <1>7 DEF Places, E, W, X
  <2>3. A \in SUBSET D /\ B \in SUBSET D /\ C \in SUBSET D
    BY <1>1, <1>4, <1>7
  <2> HIDE DEF A, B, C, P, Q
  <2>4. IsFiniteSet(A) /\ IsFiniteSet(B) /\ IsFiniteSet(C)
    BY <1>1, <2>3, FS_Subset
  <2>5. /\ Cardinality(P) = Cardinality(A) + Cardinality(B)
        /\ Cardinality(Q) = Cardinality(A) + Cardinality(C)
        /\ Cardinality(A) \in Nat /\ Cardinality(B) \in Nat /\ Cardinality(C) \in Nat
    BY <2>1, <2>2, <2>4, DisjointUnion
  <2>6. /\ Count(recs, c) = Cardinality(P) /\ Count(old, c) = Cardinality(Q)
        /\ Count(p, c) = Cardinality(B) /\ Count(q, c) = Cardinality(C)
    BY <1>8, <1>9 DEF Count, P, Q, B, C
  <2>7. Count(m, c) \in Nat /\ Count(k, c) \in Nat
    BY <1>0, CountFacts
  <2> DEFINE nx == Count(HeldBy(x), c)
             ni == Count(HeldBy(in), c)
             ns == Count(s, c)
             no == Count(o, c)
             nm == Count(m, c)
             nk == Count(k, c)
             a == Cardinality(A)
             b == Cardinality(B)
             g == Cardinality(C)
  <2>8. nx = (a + g) + nk /\ ni = (a + b) + nm /\ ns = b + nm /\ no = g + nk
    BY <1>10, <1>11, <1>12, <2>5, <2>6
  <2>9. a \in Nat /\ b \in Nat /\ g \in Nat /\ nm \in Nat /\ nk \in Nat
    BY <2>5, <2>7
  <2> HIDE DEF nx, ni, ns, no, nm, nk, a, b, g
  <2>10. ni + no = nx + ns /\ no <= nx
    BY <2>8, <2>9
  <2>11. QED
    BY <2>10 DEF nx, ni, ns, no
<1>14. QED
  BY <1>10, <1>11, <1>13 DEF Balanced

LEMMA WriteAtFacts ==
  ASSUME IInv, NEW f \in Files, NEW off \in Nat, NEW d \in Chunks, WriteAt(f, off, d)
  PROVE  Rewrites(f, Laid(GetData(files[f]), off, d))
<1> DEFINE in == files[f]
           old == LoadRefs(in)
           end == off + Len(d)
           size == Most(in.size, end)
           rs == IF in.size > 0 THEN in.rs ELSE RecordSizeFor(size)
           n == CeilDiv(size, rs)
           Start(i) == (i - 1) * rs
           End(i) == Least(i * rs, size)
           keeps == {i \in 1 .. n :
                       Carried(i, End(i), in.size, old, end > Start(i) /\ off < End(i))}
           New(i) == Patched(IF i <= Len(old) THEN old[i].rec ELSE <<>>,
                             Start(i), End(i) - Start(i), off, d)
           recs == [i \in 1 .. n |-> IF i \in keeps THEN old[i] ELSE Record(New(i))]
           rewritten == (1 .. n) \ keeps
           s == Chosen(recs, rewritten) \o MapBlob(recs)
           o == Chosen(old, rewritten \cap DOMAIN old) \o Container(in)
           new == StoredInode(recs, size, rs)
           t == GetData(in)
           b == Laid(t, off, d)
<1>1. size <= MaxSize /\ Replace(f, s, new, o)
  BY DEF WriteAt, Chosen, Overwritten
<1>2. d \in Seq(Nat)
  BY FileAssumption
<1>3. in \in Inodes
  BY DEF IInv, Sound
<1> HIDE DEF in
<1>4. PICK t0 \in Bytes, rs0 \in RecordSizes :
        t0 \in Seq(Nat) /\ rs0 \in Nat \ {0} /\ in = FileOf(t0, rs0)
  BY <1>3, InodeFacts
<1>5. /\ in.size = Len(t0) /\ (Len(t0) > 0 => in.rs = rs0) /\ t = t0
      /\ t0 = <<>> => in = NoData
  BY <1>4, FileFacts
<1> HIDE DEF t
<1>6. t \in Seq(Nat) /\ Len(t) \in Nat /\ in.size = Len(t) /\ size \in Nat
  BY <1>2, <1>4, <1>5 DEF Most
<1>7. rs \in RecordSizes /\ rs \in Nat \ {0} /\ in = FileOf(t, rs)
  <2>1. CASE Len(t) > 0
    <3>1. rs = rs0
      BY <1>5, <1>6, <2>1
    <3>2. QED
      BY <1>4, <1>5, <3>1
  <2>2. CASE ~(Len(t) > 0)
    <3>1. rs = RecordSizeFor(size)
      BY <1>6, <2>2
    <3> HIDE DEF size, rs
    <3>2. rs \in RecordSizes /\ rs \in Nat \ {0}
      BY <1>6, <3>1, RecordSizeFacts
    <3>3. t = <<>>
      BY <1>6, <2>2
    <3>4. FileOf(t, rs) = NoData
      BY <1>6, <3>2, <3>3, FileFacts
    <3>5. QED
      BY <1>5, <3>2, <3>3, <3>4
  <2>3. QED
    BY <2>1, <2>2
<1>8. old = SplitRecords(t, rs) /\ Container(in) = MapBlob(SplitRecords(t, rs))
  <2> HIDE DEF rs
  <2>1. QED
    BY <1>6, <1>7, FileFacts
<1>9. size = Most(Len(t), off + Len(d))
  BY <1>6
<1>10. keeps = KeptBy(t, rs, off, d)
  <2> DEFINE G(z, r, w, c) == {i \in 1 .. CeilDiv(w, c) :
                Carried(i, Least(i * c, w), z, r, off + Len(d) > (i - 1) * c /\ off < Least(i * c, w))}
  <2>1. keeps = G(in.size, old, size, rs)
    OBVIOUS
  <2>2. KeptBy(t, rs, off, d) = G(Len(t), SplitRecords(t, rs), Most(Len(t), off + Len(d)), rs)
    BY DEF KeptBy
  <2> HIDE DEF G, keeps, size, rs, old
  <2>3. QED
    BY <1>6, <1>8, <1>9, <2>1, <2>2
<1>11. recs = WrittenBy(t, rs, off, d)
  <2> DEFINE G(r, w, c, K) == [i \in 1 .. CeilDiv(w, c) |->
                IF i \in K THEN r[i]
                ELSE Record(Patched(IF i <= Len(r) THEN r[i].rec ELSE <<>>,
                                    (i - 1) * c, Least(i * c, w) - (i - 1) * c, off, d))]
  <2>1. recs = G(old, size, rs, keeps)
    OBVIOUS
  <2>2. WrittenBy(t, rs, off, d)
          = G(SplitRecords(t, rs), Most(Len(t), off + Len(d)), rs, KeptBy(t, rs, off, d))
    BY DEF WrittenBy
  <2> HIDE DEF G, recs, keeps, size, rs, old
  <2>3. QED
    BY <1>8, <1>9, <1>10, <2>1, <2>2
<1>12. keeps \subseteq 1 .. n /\ \A i \in keeps : i <= Len(old) /\ recs[i] = old[i]
  <2>1. keeps \subseteq 1 .. n /\ \A i \in keeps : i <= Len(old)
    BY DEF Carried
  <2> HIDE DEF keeps, n, New, old
  <2>2. QED
    BY <2>1
<1> HIDE DEF keeps, recs, rs, size, old
<1>13. recs = SplitRecords(b, rs)
  BY <1>2, <1>6, <1>7, <1>11, WrittenFacts
<1>14. b \in Seq(Nat) /\ Len(b) = size
  BY <1>2, <1>6, <1>9, LaidFacts
<1>15. b \in Bytes
  BY <1>1, <1>14 DEF Bytes
<1>16. new = FileOf(b, rs)
  BY <1>13, <1>14 DEF FileOf
<1> HIDE DEF b, new
<1>17. new \in Inodes
  BY <1>7, <1>15, <1>16 DEF Inodes
<1>18. GetData(new) = b
  BY <1>7, <1>14, <1>16, FileFacts
<1> DEFINE k == Container(in)
           m == MapBlob(recs)
<1>19. /\ recs \in Seq(Content) /\ m \in Seq(Content) /\ HeldBy(new) = recs \o m
       /\ Len(recs) = n
  BY <1>7, <1>13, <1>14, <1>16, HeldByFacts, SplitFacts
<1>20. /\ old \in Seq(Content) /\ k \in Seq(Content) /\ HeldBy(in) = old \o k
       /\ Len(old) = CeilDiv(Len(t), rs)
  <2>1. SplitRecords(t, rs) \in Seq(Content) /\ MapBlob(SplitRecords(t, rs)) \in Seq(Content)
    BY <1>6, <1>7, HeldByFacts
  <2>2. Len(SplitRecords(t, rs)) = CeilDiv(Len(t), rs)
    BY <1>6, <1>7, SplitFacts
  <2>3. QED
    BY <1>8, <2>1, <2>2 DEF HeldBy, old
<1>21. Len(old) <= Len(recs)
  <2>1. Len(t) <= size
    BY <1>2, <1>6, <1>9 DEF Most
  <2>2. QED
    BY <1>6, <1>7, <1>19, <1>20, <2>1, CutFacts
<1>22. DOMAIN recs = 1 .. n /\ keeps \subseteq DOMAIN old
  <2>1. DOMAIN recs = 1 .. Len(recs) /\ DOMAIN old = 1 .. Len(old)
    BY <1>19, <1>20
  <2>2. n \in Nat
    BY <1>19
  <2> HIDE DEF n
  <2>3. QED
    BY <1>12, <1>19, <2>1, <2>2
<1>23. s = Chosen(recs, DOMAIN recs \ keeps) \o m /\ o = Chosen(old, (DOMAIN recs \ keeps) \cap DOMAIN old) \o k
  BY <1>22
<1> HIDE DEF s, o, k, m, n
<1>24. s \in Seq(Content) /\ o \in Seq(Content) /\ Balanced(in, new, s, o)
  <2>1. Exchanged(in, new, old, recs, k, m, keeps, s, o)
    BY <1>12, <1>19, <1>20, <1>21, <1>22, <1>23 DEF Exchanged
  <2>2. QED
    BY <2>1, ExchangeBalanced
<1>25. /\ IInv'
       /\ files' # files => Surplus(files', refs') = Surplus(files, refs)
       /\ files' = files \/ files' = [files EXCEPT ![f] = new]
       /\ image'.files \in {image.files, files}
  BY <1>1, <1>17, <1>24, ReplaceFacts DEF in
<1>26. QED
  BY <1>17, <1>18, <1>25 DEF Rewrites, b, t, in

----------------------------------------------------------------------------
(* The steps. *)

LEMMA InodeData ==
  ASSUME NEW in \in Inodes
  PROVE  GetData(in) \in Bytes /\ in.size = Len(GetData(in)) /\ in.size \in 0 .. MaxSize
<1>1. PICK b \in Bytes, rs \in RecordSizes :
        b \in Seq(Nat) /\ rs \in Nat \ {0} /\ in = FileOf(b, rs)
  BY InodeFacts
<1>2. GetData(in) = b /\ in.size = Len(b)
  BY <1>1, FileFacts
<1>3. Len(b) \in 0 .. MaxSize
  BY <1>1, FileAssumption DEF Bytes
<1>4. QED
  BY <1>1, <1>2, <1>3

LEMMA OverlaidIsLaid ==
  ASSUME NEW t \in Seq(Nat), NEW off \in Nat, NEW d \in Seq(Nat)
  PROVE  BytesOf!Overlaid(t, off, d) = Laid(t, off, d)
<1> DEFINE end == off + Len(d)
           m == IF end > Len(t) THEN end ELSE Len(t)
           U(q) == IF q > off /\ q <= end THEN d[q - off] ELSE BytesOf!ByteAt(t, q - 1)
           V(q) == IF q > off /\ q <= end THEN d[q - off] ELSE IF q <= Len(t) THEN t[q] ELSE 0
<1>1. BytesOf!Overlaid(t, off, d) = [q \in 1 .. m |-> U(q)]
  BY DEF BytesOf!Overlaid
<1>2. m = Most(Len(t), end) /\ m \in Nat
  BY DEF Most
<1>3. Laid(t, off, d) = [q \in 1 .. Most(Len(t), end) |-> V(q)]
  BY DEF Laid
<1> HIDE DEF m
<1>4. ASSUME NEW q \in 1 .. m PROVE U(q) = V(q)
  <2>1. q \in Nat /\ (q - 1) + 1 = q /\ (q - 1 < Len(t) <=> q <= Len(t))
    BY <1>2
  <2>2. BytesOf!ByteAt(t, q - 1) = IF q <= Len(t) THEN t[q] ELSE 0
    BY <2>1 DEF BytesOf!ByteAt
  <2>3. QED
    BY <2>2
<1> HIDE DEF U, V, end
<1>5. QED
  BY <1>1, <1>2, <1>3, <1>4

LEMMA TruncateFacts ==
  ASSUME IInv, NEW f \in Files, NEW n \in 0 .. MaxSize, Truncate(f, n)
  PROVE  Rewrites(f, BytesOf!Resized(GetData(files[f]), n))
<1> DEFINE t == GetData(files[f])
           z == [q \in 1 .. n |-> IF q <= Len(t) THEN t[q] ELSE 0]
<1>1. SetData(f, z)
  BY DEF Truncate
<1>2. t \in Seq(Nat) /\ n \in Nat /\ n <= MaxSize
  BY InodeData, FileAssumption DEF IInv, Sound, Bytes
<1> HIDE DEF t
<1>3. z \in Bytes
  <2>1. ASSUME NEW q \in 1 .. n PROVE (IF q <= Len(t) THEN t[q] ELSE 0) \in Nat
    <3>1. q <= Len(t) => q \in 1 .. Len(t)
      BY <1>2
    <3>2. QED
      BY <1>2, <3>1
  <2>2. z \in Seq(Nat) /\ Len(z) = n
    BY <1>2, <2>1
  <2> HIDE DEF z
  <2>3. QED
    BY <1>2, <2>2 DEF Bytes
<1>4. BytesOf!Resized(t, n) = z
  <2>1. ASSUME NEW q \in 1 .. n
        PROVE  BytesOf!ByteAt(t, q - 1) = IF q <= Len(t) THEN t[q] ELSE 0
    <3>1. q \in Nat /\ (q - 1) + 1 = q /\ (q - 1 < Len(t) <=> q <= Len(t))
      BY <1>2
    <3>2. QED
      BY <3>1 DEF BytesOf!ByteAt
  <2>2. QED
    BY <2>1 DEF BytesOf!Resized
<1> HIDE DEF z
<1>5. Rewrites(f, z)
  BY <1>1, <1>3, SetDataFacts
<1>6. QED
  BY <1>4, <1>5 DEF t

\* Every step but a commit and a remount makes one of ByteFiles' results of the
\* bytes of one file, or fails.
LEMMA NextFacts ==
  ASSUME IInv, Next
  PROVE  \/ \E f \in Files : \E b \in BytesOf!Results(GetData(files[f])) : Rewrites(f, b)
         \/ Commit
         \/ Remount
<1> DEFINE Done == \E f \in Files : \E b \in BytesOf!Results(GetData(files[f])) : Rewrites(f, b)
<1>1. \A f \in Files : GetData(files[f]) \in Seq(Nat) /\ files[f].size \in 0 .. MaxSize
  BY InodeData DEF IInv, Sound, Bytes
<1>2. ASSUME NEW f \in Files, Reclaim(f) PROVE Done
  <2>1. BytesOf!Resized(GetData(files[f]), 0) = <<>>
    BY DEF BytesOf!Resized
  <2>2. BytesOf!Resized(GetData(files[f]), 0) \in BytesOf!Results(GetData(files[f]))
    BY FileAssumption DEF BytesOf!Results
  <2>3. Rewrites(f, <<>>)
    BY <1>2, ReclaimFacts
  <2>4. QED
    BY <2>1, <2>2, <2>3
<1>3. ASSUME NEW f \in Files, NEW b \in Blobs, WriteFile(f, b) PROVE Done
  <2>1. b \in Bytes
    BY FileAssumption DEF Bytes
  <2>2. Rewrites(f, b)
    BY <1>3, <2>1, SetDataFacts DEF WriteFile
  <2>3. b \in BytesOf!Results(GetData(files[f]))
    BY DEF BytesOf!Results
  <2>4. QED
    BY <2>2, <2>3
<1>4. ASSUME NEW f \in Files, NEW n \in 0 .. MaxSize, Truncate(f, n) PROVE Done
  <2>1. Rewrites(f, BytesOf!Resized(GetData(files[f]), n))
    BY <1>4, TruncateFacts
  <2>2. BytesOf!Resized(GetData(files[f]), n) \in BytesOf!Results(GetData(files[f]))
    BY DEF BytesOf!Results
  <2>3. QED
    BY <2>1, <2>2
<1>5. ASSUME NEW f \in Files, NEW d \in Chunks, NEW off \in 0 .. MaxSize, WriteAt(f, off, d) PROVE Done
  <2> DEFINE t == GetData(files[f])
             b == Laid(t, off, d)
  <2>1. off \in Nat /\ d \in Seq(Nat) /\ t \in Seq(Nat)
    BY <1>1, FileAssumption
  <2>2. Rewrites(f, b)
    BY <1>5, <2>1, WriteAtFacts
  <2>3. BytesOf!Overlaid(t, off, d) \in BytesOf!Results(t)
    BY DEF BytesOf!Results
  <2>4. b \in BytesOf!Results(t)
    <3> HIDE DEF t
    <3>1. QED
      BY <2>1, <2>3, OverlaidIsLaid
  <2>5. QED
    BY <2>2, <2>4
<1>6. ASSUME NEW f \in Files, NEW d \in Chunks, Append_(f, d) PROVE Done
  <2> DEFINE off == files[f].size
  <2>1. off \in 0 .. MaxSize
    BY <1>1
  <2>2. WriteAt(f, off, d)
    BY <1>6 DEF Append_
  <2> HIDE DEF off
  <2>3. QED
    BY <1>5, <2>1, <2>2
<1>7. Edited \subseteq Files
  BY FileAssumption
<1> HIDE DEF Done
<1>8. Done \/ Commit \/ Remount
  <2>1. CASE \E f \in Files : Reclaim(f) \/ \E b \in Blobs : WriteFile(f, b)
    BY <1>2, <1>3, <2>1
  <2>2. CASE \E f \in Edited :
               \/ \E n \in 0 .. MaxSize : Truncate(f, n)
               \/ \E d \in Chunks : Append_(f, d) \/ \E off \in 0 .. MaxSize : WriteAt(f, off, d)
    BY <1>4, <1>5, <1>6, <1>7, <2>2
  <2>3. QED
    BY <2>1, <2>2 DEF Next
<1>9. QED
  BY <1>8 DEF Done

LEMMA CommitFacts ==
  ASSUME IInv, Commit
  PROVE  IInv' /\ files' = files /\ image'.files = files
<1>1. image' = Snapshot(files, refs) /\ files' = files /\ refs' = refs
  BY DEF Commit
<1>2. image'.files = files /\ image'.refs = refs
  BY <1>1 DEF Snapshot
<1>3. QED
  BY <1>1, <1>2 DEF IInv

LEMMA RemountFacts ==
  ASSUME IInv, Remount
  PROVE  IInv' /\ files' = image.files /\ image' = image
BY DEF IInv, Remount

LEMMA InitFacts == Init => IInv
<1> SUFFICES ASSUME Init PROVE IInv
  OBVIOUS
<1>1. files = [f \in Files |-> NoData] /\ refs = EmptyBag /\ image = Snapshot(files, refs)
  BY DEF Init
<1>2. image.files = files /\ image.refs = refs
  BY <1>1 DEF Snapshot
<1>3. files \in [Files -> Inodes] /\ \A f \in Files : HeldBy(files[f]) = <<>>
  BY <1>1, NoDataFacts
<1>4. IsABag(refs)
  BY <1>1 DEF EmptyBag, SetToBag, IsABag
<1>5. DOMAIN Held(files) = {}
  BY <1>3 DEF Held, ToSet
<1>6. Held(files) \sqsubseteq refs
  BY <1>5 DEF \sqsubseteq
<1>7. Sound(files, refs)
  BY <1>3, <1>4, <1>6 DEF Sound
<1>8. QED
  BY <1>1, <1>2, <1>7 DEF IInv

LEMMA StepFacts ==
  ASSUME IInv, [Next]_vars
  PROVE  IInv' /\ (files' # files => Remount \/ Surplus(files', refs') = Surplus(files, refs))
<1>1. CASE Next
  <2>1. CASE \E f \in Files : \E b \in BytesOf!Results(GetData(files[f])) : Rewrites(f, b)
    BY <2>1 DEF Rewrites
  <2>2. CASE Commit
    BY <2>2, CommitFacts
  <2>3. CASE Remount
    BY <2>3, RemountFacts
  <2>4. QED
    BY <1>1, <2>1, <2>2, <2>3, NextFacts
<1>2. CASE UNCHANGED vars
  BY <1>2 DEF vars, IInv
<1>3. QED
  BY <1>1, <1>2

----------------------------------------------------------------------------
(* The theorems. *)

LEMMA Invariance == Spec => []IInv
<1>1. Init => IInv
  BY InitFacts
<1>2. IInv /\ [Next]_vars => IInv'
  BY StepFacts
<1>3. QED
  BY <1>1, <1>2, PTL DEF Spec

\* The dedup table never counts fewer references than the files have, in memory
\* and on the device: no step of write_at_locked, set_data, truncate or reclaim,
\* completed or failed, and no commit in the middle of one, leaves a content
\* that a file needs to be freed.
THEOREM ReferencesCover == Spec => []RefsCover
<1>1. IInv => RefsCover
  BY DEF IInv, Sound, RefsCover
<1>2. QED
  BY <1>1, Invariance, PTL

\* An operation that changes an inode releases exactly what it replaced.
THEOREM OnlyFailuresLeak == Spec => LeaksOnlyOnFailure
<1>1. IInv /\ [Next]_vars =>
        [files' # files => Remount \/ Surplus(files, refs)' = Surplus(files, refs)]_vars
  BY StepFacts DEF Surplus
<1>2. QED
  BY <1>1, Invariance, PTL DEF Spec, LeaksOnlyOnFailure

\* read_at answers with the bytes of its range, for every range and file.
THEOREM ReadsAreExact == Spec => []ReadAtExact
<1>1. IInv => ReadAtExact
  <2>1. ASSUME IInv, NEW f \in Files, NEW off \in 0 .. MaxSize, NEW n \in 0 .. MaxSize + 1
        PROVE  ReadAt(files[f], off, n) =
                 SubSeq(GetData(files[f]), off + 1, Least(off + n, files[f].size))
    <3> DEFINE in == files[f]
    <3>1. in \in Inodes
      BY <2>1 DEF IInv, Sound
    <3> HIDE DEF in
    <3>2. PICK b \in Bytes, rs \in RecordSizes :
            b \in Seq(Nat) /\ rs \in Nat \ {0} /\ in = FileOf(b, rs)
      BY <3>1, InodeFacts
    <3>3. GetData(in) = b /\ in.size = Len(b)
      BY <3>2, FileFacts
    <3>4. off \in Nat /\ n \in Nat
      BY FileAssumption
    <3>5. ReadAt(in, off, n) = SubSeq(b, off + 1, Least(off + n, Len(b)))
      BY <3>2, <3>4, ReadFacts
    <3>6. QED
      BY <3>3, <3>5 DEF in
  <2>2. QED
    BY <2>1 DEF ReadAtExact
<1>2. QED
  BY <1>1, Invariance, PTL

\* Inodes and block maps have their types, and every file is cut into full
\* records but the last.
THEOREM RecordsStaySound == Spec => []RecordsSound
<1>1. ASSUME NEW in \in Inodes
      PROVE  /\ in.size \in 0 .. MaxSize /\ in.rs \in ToSet(Sizes) \cup {0}
             /\ in.inline \in BOOLEAN /\ (in.size = 0 => in = NoData)
             /\ in.size > 0 =>
                  /\ Len(LoadRefs(in)) = CeilDiv(in.size, in.rs)
                  /\ \A i \in DOMAIN LoadRefs(in) :
                        Len(LoadRefs(in)[i].rec) = Least(i * in.rs, in.size) - (i - 1) * in.rs
  <2>1. PICK b \in Bytes, rs \in RecordSizes :
          b \in Seq(Nat) /\ rs \in Nat \ {0} /\ in = FileOf(b, rs)
    BY InodeFacts
  <2>2. /\ in.size = Len(b) /\ (Len(b) > 0 => in.rs = rs) /\ LoadRefs(in) = SplitRecords(b, rs)
        /\ in.inline \in BOOLEAN /\ (b = <<>> => in = NoData)
    BY <2>1, FileFacts
  <2>3. in.size \in 0 .. MaxSize
    BY InodeData
  <2>4. in.size = 0 => in = NoData
    <3>1. Len(b) = 0 => b = <<>>
      BY <2>1
    <3>2. QED
      BY <2>2, <3>1
  <2>5. in.rs \in ToSet(Sizes) \cup {0}
    <3>1. NoData.rs = 0
      BY DEF NoData
    <3>2. in.size = 0 => in.rs = 0
      BY <2>4, <3>1
    <3>3. in.size # 0 => in.rs = rs
      BY <2>1, <2>2
    <3>4. rs \in ToSet(Sizes)
      BY DEF RecordSizes, ToSet
    <3>5. QED
      BY <3>2, <3>3, <3>4
  <2> DEFINE r == SplitRecords(b, rs)
  <2>6. /\ Len(r) = CeilDiv(Len(b), rs) /\ r \in Seq(RecordRec)
        /\ \A i \in 1 .. CeilDiv(Len(b), rs) :
              Len(r[i].rec) = Least(i * rs, Len(b)) - (i - 1) * rs
    BY <2>1, SplitFacts
  <2> HIDE DEF r
  <2>7. DOMAIN r = 1 .. CeilDiv(Len(b), rs)
    BY <2>6
  <2>8. in.size > 0 =>
          /\ Len(LoadRefs(in)) = CeilDiv(in.size, in.rs)
          /\ \A i \in DOMAIN LoadRefs(in) :
                Len(LoadRefs(in)[i].rec) = Least(i * in.rs, in.size) - (i - 1) * in.rs
    <3>1. LoadRefs(in) = r /\ in.size = Len(b) /\ (Len(b) > 0 => in.rs = rs)
      BY <2>2 DEF r
    <3>2. QED
      BY <2>6, <2>7, <3>1
  <2>9. QED
    BY <2>2, <2>3, <2>4, <2>5, <2>8
<1>2. IInv => TypeOK
  BY <1>1 DEF IInv, Sound, TypeOK
<1>3. IInv => WellCut
  BY <1>1 DEF IInv, Sound, WellCut
<1>4. QED
  BY <1>2, <1>3, Invariance, PTL DEF RecordsSound

\* Seen as sequences of bytes, the files behave as ByteFiles says: an operation
\* makes its result of one file's bytes or leaves them, and a crash returns to
\* bytes that all files had at one moment.
THEOREM FilesAreBytes == Spec => ImplementsByteFiles
<1>1. Init => BytesOf!Init
  <2>1. ASSUME Init PROVE AsBytes(files) = [f \in Files |-> <<>>] /\ image.files = files
    BY <2>1, NoDataFacts DEF Init, AsBytes, Snapshot
  <2>2. QED
    BY <2>1 DEF BytesOf!Init
<1>2. IInv /\ [Next]_vars => [BytesOf!Next]_BytesOf!vars
  <2> SUFFICES ASSUME IInv, [Next]_vars PROVE [BytesOf!Next]_BytesOf!vars
    OBVIOUS
  <2>1. ASSUME NEW f \in Files, NEW b \in BytesOf!Results(GetData(files[f])), Rewrites(f, b)
        PROVE  BytesOf!Operate(f)
    <3>1. DOMAIN files = Files
      BY DEF IInv, Sound
    <3>2. /\ AsBytes(files)[f] = GetData(files[f])
          /\ AsBytes(files')[f] = GetData(files'[f])
      BY DEF AsBytes
    <3>3. AsBytes(files')[f] = AsBytes(files)[f]
            \/ AsBytes(files')[f] \in BytesOf!Results(AsBytes(files)[f])
      BY <2>1, <3>1, <3>2 DEF Rewrites
    <3>4. \A g \in Files \ {f} : AsBytes(files')[g] = AsBytes(files)[g]
      BY <2>1, <3>1 DEF Rewrites, AsBytes
    <3>5. AsBytes(image'.files) \in {AsBytes(image.files), AsBytes(files)}
      BY <2>1 DEF Rewrites
    <3>6. AsBytes(files)' = AsBytes(files') /\ AsBytes(image.files)' = AsBytes(image'.files)
      BY DEF AsBytes
    <3>7. QED
      BY <3>3, <3>4, <3>5, <3>6 DEF BytesOf!Operate
  <2>2. CASE Commit
    <3>1. files' = files /\ image'.files = files
      BY <2>2, CommitFacts
    <3>2. AsBytes(files)' = AsBytes(files) /\ AsBytes(image.files)' = AsBytes(files)
      BY <3>1 DEF AsBytes
    <3>3. BytesOf!Commit
      BY <3>2 DEF BytesOf!Commit
    <3>4. QED
      BY <3>3 DEF BytesOf!Next
  <2>3. CASE Remount
    <3>1. files' = image.files /\ image' = image
      BY <2>3, RemountFacts
    <3>2. AsBytes(files)' = AsBytes(image.files) /\ AsBytes(image.files)' = AsBytes(image.files)
      BY <3>1 DEF AsBytes
    <3>3. BytesOf!Crash
      BY <3>2 DEF BytesOf!Crash
    <3>4. QED
      BY <3>3 DEF BytesOf!Next
  <2>4. CASE UNCHANGED vars
    <3>1. files' = files /\ image' = image
      BY <2>4 DEF vars
    <3>2. QED
      BY <3>1 DEF AsBytes, BytesOf!vars
  <2>5. CASE Next
    <3>1. CASE \E f \in Files : \E b \in BytesOf!Results(GetData(files[f])) : Rewrites(f, b)
      BY <2>1, <3>1 DEF BytesOf!Next
    <3>2. QED
      BY <2>2, <2>3, <2>5, <3>1, NextFacts
  <2>6. QED
    BY <2>4, <2>5
<1>3. QED
  BY <1>1, <1>2, Invariance, PTL DEF Spec, ImplementsByteFiles, BytesOf!Spec
=============================================================================
