----------------------------- MODULE GateProofs -----------------------------
(***************************************************************************)
(* The lookups of a directory are right for any names, hashes, capacities  *)
(* and failures: its resident index is sound and the gate denies no name.  *)
(*                                                                         *)
(* The first half is about the index: adding and removing names by hash    *)
(* chains, filters and segments is adding to and removing from a set, and  *)
(* a loaded index holds the names of the pages.  The filter only has to    *)
(* keep the bits of the names it covers, so the probe arithmetic is never  *)
(* looked into.                                                            *)
(***************************************************************************)
EXTENDS Gate, InductionFacts, FiniteSetTheorems

Hashes == {NameHash[n] : n \in Names}

\* A chain holds names of its hash, each once.
ChainOK(c, h) ==
    /\ c \in Seq(EntryRec) /\ c # <<>>
    /\ \A i, j \in DOMAIN c : c[i].name = c[j].name => i = j
    /\ \A i \in DOMAIN c : NameHash[c[i].name] = h /\ c[i] = Entry(c[i].name)

ChainNames(c) == {c[i].name : i \in DOMAIN c}

IndexOK(x) == x \in Index /\ \A h \in DOMAIN x : ChainOK(x[h], h)

IndexNames(x) == UNION {{e.name : e \in ToSet(x[h])} : h \in DOMAIN x}

SegOK(s) == s \in Segment /\ IndexOK(s.index) /\ CountsOK(s) /\ FilterCoversNames(s)

\* A directory value that holds the names S.
DirOK(d, S) ==
    /\ d \in Seq(Segment)
    /\ \A i \in DOMAIN d : SegOK(d[i])
    /\ \A i, j \in DOMAIN d : i # j => NamesIn(d[i]) \cap NamesIn(d[j]) = {}
    /\ NamesOf(d) = S

\* A cached directory is a directory value that holds the names of its pages.
CopyOK(h) == h \in CachedDirs /\ DirOK(h.dir, h.names)

CopiesOK == (resident = None \/ CopyOK(resident)) /\ (handle = None \/ CopyOK(handle))

\* While an operation flushes, the cache has its directory, none, or a loaded one.
OneWriter == handle # None /\ resident # None => resident = handle \/ resident.dirty = {}

\* The names of S that are not in D pass the gate g.
Covered(S, D, g) == \A m \in S \ D : GateTest(g, m)

\* The names a copy may have to write.
Ahead(h) == h.names \cap NamesOn(h.dirty)

\* The gate denies no name of the pages, and none that is yet to be written there.
GateCovers ==
    /\ Covered(stored, doubtful, gate)
    /\ resident # None => Covered(Ahead(resident), doubtful, gate)
    /\ handle # None => Covered(handle.names, doubtful, gate)

\* A snapshot that a mount would use denies no committed name.
SavedOK ==
    saved # None =>
        /\ saved.seq <= seq /\ saved.gate.capacity >= MinCapacity
        /\ saved.seq = seq => \A n \in committed \ saved.doubtful : GateTest(saved.gate, n)

IInv == TypeOK /\ CopiesOK /\ OneWriter /\ GateCovers /\ SavedOK

----------------------------------------------------------------------------
(* Chains and indexes. *)

LEMMA MinFacts ==
  ASSUME NEW S \in SUBSET Nat, S # {}
  PROVE  Min(S) \in S /\ \A k \in S : Min(S) <= k
<1>1. PICK m \in S : \A k \in S : ~(k < m)
  BY Smallest
<1>2. \A k \in S : m <= k
  BY <1>1
<1>3. QED
  BY <1>1, <1>2 DEF Min

LEMMA IndexMember ==
  ASSUME NEW x, IndexOK(x), NEW n
  PROVE  n \in IndexNames(x) <=> /\ n \in Names /\ NameHash[n] \in DOMAIN x
                                 /\ n \in ChainNames(x[NameHash[n]])
<1>1. n \in IndexNames(x) <=> \E h \in DOMAIN x : n \in ChainNames(x[h])
  BY DEF IndexNames, ToSet, ChainNames
<1>2. ASSUME NEW h \in DOMAIN x, n \in ChainNames(x[h]) PROVE n \in Names /\ NameHash[n] = h
  <2>1. ChainOK(x[h], h)
    BY DEF IndexOK
  <2>2. PICK i \in DOMAIN x[h] : n = x[h][i].name
    BY <1>2 DEF ChainNames
  <2>3. x[h][i] \in EntryRec
    BY <2>1, <2>2 DEF ChainOK
  <2>4. QED
    BY <2>1, <2>2, <2>3 DEF ChainOK, EntryRec
<1>3. QED
  BY <1>1, <1>2

LEMMA NamesInIndex == ASSUME NEW s PROVE NamesIn(s) = IndexNames(s.index)
BY DEF NamesIn, IndexNames

LEMMA SegNames ==
  ASSUME NEW s, SegOK(s)
  PROVE  /\ NamesIn(s) \subseteq Names /\ IsFiniteSet(NamesIn(s))
         /\ s.count = Cardinality(NamesIn(s)) /\ s.count \in Nat
<1>1. NamesIn(s) \subseteq Names
  BY IndexMember, NamesInIndex DEF SegOK
<1>2. IsFiniteSet(NamesIn(s))
  BY <1>1, FS_Subset, IndexAssumption
<1>3. QED
  BY <1>1, <1>2, FS_CardinalityType DEF SegOK, CountsOK

LEMMA EntryFacts ==
  ASSUME NEW n \in Names
  PROVE  Entry(n) \in EntryRec /\ Entry(n).name = n /\ Entry(n).inode = InodeOf[n]
         /\ NameHash[n] \in Hashes /\ FilterKey[n] \in Keys /\ InodeOf[n] # None
         /\ Bits[FilterKey[n]] \subseteq FilterBits
<1>1. FilterKey[n] \in Keys /\ InodeOf[n] \in Nat /\ NameHash[n] \in Hashes /\ InodeOf[n] # None
  BY IndexAssumption DEF Hashes
<1>2. Bits[FilterKey[n]] \subseteq FilterBits
  BY <1>1 DEF FilterBits
<1>3. QED
  BY <1>1, <1>2 DEF Entry, EntryRec

\* Where a name stands in the chain of its hash.
LEMMA PositionFacts ==
  ASSUME NEW s, SegOK(s), NEW n \in Names
  PROVE  /\ Position(s, n) \in Nat
         /\ n \in NamesIn(s) =>
              /\ NameHash[n] \in DOMAIN s.index
              /\ Position(s, n) \in DOMAIN s.index[NameHash[n]]
              /\ Position(s, n) > 0
              /\ s.index[NameHash[n]][Position(s, n)] = Entry(n)
         /\ n \notin NamesIn(s) => Position(s, n) = 0
<1> DEFINE h == NameHash[n]
           c == Chain(s, h)
           found == {i \in DOMAIN c : c[i].name = n}
<1>1. IndexOK(s.index) /\ (n \in NamesIn(s) <=> h \in DOMAIN s.index /\ n \in ChainNames(s.index[h]))
  BY IndexMember, NamesInIndex DEF SegOK
<1>2. h \in DOMAIN s.index => c = s.index[h] /\ ChainOK(c, h)
  BY <1>1 DEF Chain, IndexOK
<1>3. h \notin DOMAIN s.index => c = <<>>
  BY DEF Chain
<1>4. Position(s, n) = IF found = {} THEN 0 ELSE Min(found)
  BY DEF Position
<1> HIDE DEF c
<1>5. c \in Seq(EntryRec)
  <2>1. <<>> \in Seq(EntryRec)
    OBVIOUS
  <2>2. QED
    BY <1>2, <1>3, <2>1 DEF ChainOK
<1>6. DOMAIN c \subseteq Nat \ {0}
  BY <1>5
<1>7. found \in SUBSET Nat /\ 0 \notin found
  BY <1>6
<1>8. n \in NamesIn(s) <=> found # {}
  BY <1>1, <1>2, <1>3, <1>5 DEF ChainNames
<1>9. CASE n \in NamesIn(s)
  <2>1. Min(found) \in found
    BY <1>7, <1>8, <1>9, MinFacts
  <2>2. Position(s, n) \in found
    BY <1>4, <1>8, <1>9, <2>1
  <2>3. c[Position(s, n)] = Entry(n)
    BY <1>1, <1>2, <1>9, <2>2 DEF ChainOK
  <2>4. Position(s, n) \in Nat /\ Position(s, n) # 0 /\ Position(s, n) \in DOMAIN c
    BY <1>7, <2>2
  <2>5. QED
    BY <1>1, <1>2, <1>9, <2>3, <2>4
<1>10. CASE n \notin NamesIn(s)
  BY <1>4, <1>8, <1>10
<1>11. QED
  BY <1>9, <1>10

\* A segment finds exactly the names it holds: its filter denies none of them.
LEMMA SegFindFacts ==
  ASSUME NEW s, SegOK(s), NEW n \in Names
  PROVE  SegFind(s, n) = IF n \in NamesIn(s) THEN InodeOf[n] ELSE None
<1>1. CASE n \in NamesIn(s)
  <2>1. TestKey(s.filter, FilterKey[n])
    BY <1>1 DEF SegOK, FilterCoversNames
  <2>2. Chain(s, NameHash[n])[Position(s, n)].inode = InodeOf[n] /\ Position(s, n) > 0
    BY <1>1, PositionFacts, EntryFacts DEF Chain
  <2>3. QED
    BY <1>1, <2>1, <2>2 DEF SegFind
<1>2. CASE n \notin NamesIn(s)
  <2>1. ~(Position(s, n) > 0)
    BY <1>2, PositionFacts
  <2>2. QED
    BY <1>2, <2>1 DEF SegFind
<1>3. QED
  BY <1>1, <1>2

----------------------------------------------------------------------------
(* Changing one chain. *)

\* The index y is x but for the chain of the hash h.
Rechained(x, y, h) ==
    \A g \in Hashes \ {h} : (g \in DOMAIN y <=> g \in DOMAIN x) /\ (g \in DOMAIN x => y[g] = x[g])

LEMMA RechainFacts ==
  ASSUME NEW x, IndexOK(x), NEW y \in Index, NEW h \in Hashes, Rechained(x, y, h),
         h \in DOMAIN y => ChainOK(y[h], h)
  PROVE  /\ IndexOK(y)
         /\ \A n : n \in IndexNames(y) <=>
               /\ n \in Names
               /\ IF NameHash[n] = h THEN h \in DOMAIN y /\ n \in ChainNames(y[h])
                  ELSE n \in IndexNames(x)
<1>1. DOMAIN y \subseteq Hashes
  BY DEF Index, Hashes
<1>2. IndexOK(y)
  <2>1. ASSUME NEW g \in DOMAIN y PROVE ChainOK(y[g], g)
    <3>1. CASE g = h
      BY <3>1
    <3>2. CASE g # h
      <4>1. g \in DOMAIN x /\ y[g] = x[g]
        BY <1>1, <3>2 DEF Rechained
      <4>2. QED
        BY <4>1 DEF IndexOK
    <3>3. QED
      BY <3>1, <3>2
  <2>2. QED
    BY <2>1 DEF IndexOK
<1>3. ASSUME NEW n
      PROVE  n \in IndexNames(y) <=>
               /\ n \in Names
               /\ IF NameHash[n] = h THEN h \in DOMAIN y /\ n \in ChainNames(y[h])
                  ELSE n \in IndexNames(x)
  <2>1. n \in IndexNames(y) <=> /\ n \in Names /\ NameHash[n] \in DOMAIN y
                                /\ n \in ChainNames(y[NameHash[n]])
    BY <1>2, IndexMember
  <2>2. n \in IndexNames(x) <=> /\ n \in Names /\ NameHash[n] \in DOMAIN x
                                /\ n \in ChainNames(x[NameHash[n]])
    BY IndexMember
  <2>3. CASE NameHash[n] = h
    BY <2>1, <2>3
  <2>4. CASE NameHash[n] # h /\ n \in Names
    <3>1. NameHash[n] \in Hashes
      BY <2>4 DEF Hashes
    <3>2. /\ NameHash[n] \in DOMAIN y <=> NameHash[n] \in DOMAIN x
          /\ NameHash[n] \in DOMAIN x => y[NameHash[n]] = x[NameHash[n]]
      BY <2>4, <3>1 DEF Rechained
    <3>3. QED
      BY <2>1, <2>2, <2>4, <3>2
  <2>5. QED
    BY <2>1, <2>2, <2>3, <2>4
<1>4. QED
  BY <1>2, <1>3

LEMMA AppendChain ==
  ASSUME NEW c \in Seq(EntryRec), NEW n \in Names, NEW h, NameHash[n] = h,
         c = <<>> \/ ChainOK(c, h), n \notin ChainNames(c)
  PROVE  /\ ChainOK(Append(c, Entry(n)), h)
         /\ ChainNames(Append(c, Entry(n))) = ChainNames(c) \cup {n}
<1> DEFINE e == Entry(n)
           b == Append(c, e)
           L == Len(c)
<1>1. e \in EntryRec /\ e.name = n
  BY EntryFacts
<1> HIDE DEF e
<1>2. L \in Nat /\ DOMAIN c = 1 .. L
  OBVIOUS
<1>3. /\ b \in Seq(EntryRec) /\ DOMAIN b = 1 .. L + 1 /\ b[L + 1] = e
      /\ \A k \in 1 .. L : b[k] = c[k]
  BY <1>1
<1> HIDE DEF b
<1>4. \A i \in 1 .. L : c[i].name # n
  BY <1>2 DEF ChainNames
<1>5. \A i, j \in 1 .. L : c[i].name = c[j].name => i = j
  BY <1>2 DEF ChainOK
<1>6. \A i, j \in DOMAIN b : b[i].name = b[j].name => i = j
  BY <1>1, <1>2, <1>3, <1>4, <1>5
<1>7. \A i \in 1 .. L : NameHash[c[i].name] = h /\ c[i] = Entry(c[i].name)
  BY <1>2 DEF ChainOK
<1>8. \A i \in DOMAIN b : NameHash[b[i].name] = h /\ b[i] = Entry(b[i].name)
  BY <1>1, <1>2, <1>3, <1>7 DEF e
<1>9. b # <<>>
  <2>1. L + 1 \in DOMAIN b
    BY <1>2, <1>3
  <2>2. QED
    BY <2>1
<1>10. ChainNames(b) = ChainNames(c) \cup {n}
  BY <1>1, <1>2, <1>3 DEF ChainNames
<1>11. QED
  BY <1>3, <1>6, <1>8, <1>9, <1>10 DEF ChainOK, b, e

\* swap_remove takes out exactly the element it was asked for.
LEMMA SwapRemoveFacts ==
  ASSUME NEW h, NEW c, ChainOK(c, h), NEW i \in DOMAIN c
  PROVE  /\ SwapRemove(c, i) = <<>> \/ ChainOK(SwapRemove(c, i), h)
         /\ SwapRemove(c, i) \in Seq(EntryRec)
         /\ ChainNames(SwapRemove(c, i)) = ChainNames(c) \ {c[i].name}
<1> DEFINE L == Len(c)
           b == SwapRemove(c, i)
           at(j) == IF j = i THEN L ELSE j
<1>1. c \in Seq(EntryRec) /\ L \in Nat /\ DOMAIN c = 1 .. L /\ i \in 1 .. L /\ L - 1 \in Nat
  BY DEF ChainOK
<1>2. b = [j \in 1 .. L - 1 |-> IF j = i THEN c[L] ELSE c[j]]
  BY DEF SwapRemove
<1> HIDE DEF b, L
<1>3. \A j \in 1 .. L - 1 : at(j) \in 1 .. L /\ at(j) # i /\ b[j] = c[at(j)]
  BY <1>1, <1>2
<1>4. \A j, k \in 1 .. L - 1 : at(j) = at(k) => j = k
  BY <1>1
<1>5. \A k \in 1 .. L : k # i => \E j \in 1 .. L - 1 : at(j) = k
  <2>1. ASSUME NEW k \in 1 .. L, k # i PROVE \E j \in 1 .. L - 1 : at(j) = k
    <3>1. CASE k = L
      <4>1. i \in 1 .. L - 1 /\ at(i) = k
        BY <1>1, <2>1, <3>1
      <4>2. QED
        BY <4>1
    <3>2. CASE k # L
      <4>1. k \in 1 .. L - 1
        BY <1>1, <3>2
      <4>2. at(k) = k
        BY <2>1
      <4>3. QED
        BY <4>1, <4>2
    <3>3. QED
      BY <3>1, <3>2
  <2>2. QED
    BY <2>1
<1> HIDE DEF at
<1>6. \A j \in 1 .. L - 1 : b[j] \in EntryRec
  BY <1>1, <1>3
<1>7. b \in Seq(EntryRec) /\ DOMAIN b = 1 .. L - 1
  <2>1. b = [j \in 1 .. L - 1 |-> b[j]]
    BY <1>2
  <2>2. QED
    BY <1>1, <1>6, <2>1
<1>8. \A j, k \in DOMAIN b : b[j].name = b[k].name => j = k
  BY <1>1, <1>3, <1>4, <1>7 DEF ChainOK
<1>9. \A j \in DOMAIN b : NameHash[b[j].name] = h /\ b[j] = Entry(b[j].name)
  BY <1>1, <1>3, <1>7 DEF ChainOK
<1>10. ChainNames(b) = ChainNames(c) \ {c[i].name}
  <2>1. ASSUME NEW j \in DOMAIN b PROVE b[j].name \in ChainNames(c) \ {c[i].name}
    BY <1>1, <1>3, <1>7 DEF ChainOK, ChainNames
  <2>2. ASSUME NEW k \in DOMAIN c, c[k].name # c[i].name PROVE c[k].name \in ChainNames(b)
    <3>1. PICK j \in 1 .. L - 1 : at(j) = k
      BY <1>1, <1>5, <2>2
    <3>2. QED
      BY <1>3, <1>7, <3>1 DEF ChainNames
  <2>3. QED
    BY <2>1, <2>2 DEF ChainNames
<1>11. b = <<>> \/ ChainOK(b, h)
  BY <1>7, <1>8, <1>9 DEF ChainOK
<1>12. QED
  BY <1>7, <1>10, <1>11 DEF b

----------------------------------------------------------------------------
(* Segments. *)

LEMMA SegmentShape ==
  ASSUME NEW s \in Segment
  PROVE  /\ s = [filter |-> s.filter, index |-> s.index, count |-> s.count, tomb |-> s.tomb]
         /\ s.filter \subseteq FilterBits /\ s.index \in Index /\ s.count \in Nat /\ s.tomb \in Nat
BY DEF Segment

LEMMA Threshold == RebuildThreshold \in Nat /\ RebuildThreshold >= 1
<1> DEFINE a == SegCap \div RebuildPart
<1>1. a \in Nat
  BY IndexAssumption
<1> HIDE DEF a
<1>2. \E x \in {a, 1} : \A y \in {a, 1} : x >= y
  <2>1. CASE a >= 1
    BY <1>1, <2>1
  <2>2. CASE ~(a >= 1)
    BY <1>1, <2>2
  <2>3. QED
    BY <2>1, <2>2
<1>3. Max({a, 1}) \in {a, 1} /\ Max({a, 1}) >= 1
  BY <1>1, <1>2 DEF Max
<1>4. QED
  BY <1>1, <1>3 DEF RebuildThreshold, a

LEMMA NewSegmentFacts == SegOK(NewSegment) /\ NamesIn(NewSegment) = {}
<1> DEFINE s == NewSegment
<1>1. s = [filter |-> {}, index |-> <<>>, count |-> 0, tomb |-> 0]
  BY DEF NewSegment, EmptyFilter
<1>2. s.filter = {} /\ s.index = <<>> /\ s.count = 0 /\ s.tomb = 0
  BY <1>1
<1>3. <<>> \in Index /\ DOMAIN <<>> = {}
  <2>1. <<>> \in [{} -> Seq(EntryRec)]
    BY SMT
  <2>2. {} \in SUBSET Hashes
    OBVIOUS
  <2>3. QED
    BY <2>1, <2>2 DEF Index, Hashes
<1>4. s \in Segment
  BY <1>1, <1>3 DEF Segment
<1> HIDE DEF s
<1>5. NamesIn(s) = {}
  BY <1>2, <1>3 DEF NamesIn
<1>6. IndexOK(s.index)
  BY <1>2, <1>3 DEF IndexOK
<1>7. CountsOK(s) /\ FilterCoversNames(s)
  BY <1>2, <1>5, FS_EmptySet, Threshold, IndexAssumption DEF CountsOK, FilterCoversNames
<1>8. QED
  BY <1>4, <1>5, <1>6, <1>7 DEF SegOK, s

\* Adding a name to a segment with room.
LEMMA SegAddFacts ==
  ASSUME NEW s, SegOK(s), NEW n \in Names, n \notin NamesIn(s), ~Full(s)
  PROVE  SegOK(SegAdd(s, n)) /\ NamesIn(SegAdd(s, n)) = NamesIn(s) \cup {n}
<1> DEFINE h == NameHash[n]
           c == Chain(s, h)
           b == Append(c, Entry(n))
           y == [g \in DOMAIN s.index \cup {h} |-> IF g = h THEN b ELSE s.index[g]]
           f == s.filter \cup Bits[FilterKey[n]]
           k == s.count + 1
           t == SegAdd(s, n)
<1>1. /\ s \in Segment /\ IndexOK(s.index) /\ CountsOK(s) /\ FilterCoversNames(s)
      /\ h \in Hashes /\ Bits[FilterKey[n]] \subseteq FilterBits
  BY EntryFacts DEF SegOK
<1>2. s.filter \subseteq FilterBits /\ s.index \in Index /\ s.count \in Nat /\ s.tomb \in Nat
  BY <1>1, SegmentShape
<1>3. t = [filter |-> f, index |-> y, count |-> k, tomb |-> s.tomb]
  <2>1. t = [s EXCEPT !.filter = f, !.index = y, !.count = k]
    BY DEF SegAdd, AddKey
  <2>2. s = [filter |-> s.filter, index |-> s.index, count |-> s.count, tomb |-> s.tomb]
    BY <1>1, SegmentShape
  <2> HIDE DEF f, y, k, t
  <2>3. QED
    BY <2>1, <2>2
<1>4. PICK H \in SUBSET Hashes : s.index \in [H -> Seq(EntryRec)]
  BY <1>2 DEF Index, Hashes
<1>5. c = <<>> \/ ChainOK(c, h)
  BY <1>1 DEF Chain, IndexOK
<1>6. c \in Seq(EntryRec)
  <2>1. <<>> \in Seq(EntryRec)
    OBVIOUS
  <2> HIDE DEF c
  <2>2. QED
    BY <1>5, <2>1 DEF ChainOK
<1>7. ChainNames(c) = IF h \in DOMAIN s.index THEN ChainNames(s.index[h]) ELSE {}
  BY DEF Chain, ChainNames
<1>8. n \notin ChainNames(c)
  BY <1>1, <1>7, IndexMember, NamesInIndex
<1> HIDE DEF c
<1>9. ChainOK(b, h) /\ ChainNames(b) = ChainNames(c) \cup {n}
  BY <1>5, <1>6, <1>8, AppendChain
<1>10. b \in Seq(EntryRec)
  BY <1>9 DEF ChainOK
<1> HIDE DEF b
<1>11. /\ DOMAIN y = H \cup {h} /\ y[h] = b /\ \A g \in H \ {h} : y[g] = s.index[g]
       /\ y = [g \in H \cup {h} |-> y[g]]
  BY <1>4
<1> HIDE DEF y
<1>12. y \in [H \cup {h} -> Seq(EntryRec)] /\ H \cup {h} \in SUBSET Hashes
  BY <1>1, <1>4, <1>10, <1>11
<1>13. y \in Index
  BY <1>12 DEF Index, Hashes
<1>14. Rechained(s.index, y, h)
  BY <1>4, <1>11 DEF Rechained
<1>15. /\ IndexOK(y)
       /\ \A m : m \in IndexNames(y) <=>
               /\ m \in Names
               /\ IF NameHash[m] = h THEN h \in DOMAIN y /\ m \in ChainNames(y[h])
                  ELSE m \in IndexNames(s.index)
  BY <1>1, <1>9, <1>11, <1>13, <1>14, RechainFacts
<1>16. IndexNames(y) = IndexNames(s.index) \cup {n}
  <2>1. ASSUME NEW m PROVE m \in IndexNames(y) <=> m \in IndexNames(s.index) \cup {n}
    <3>1. m \in IndexNames(s.index) <=> /\ m \in Names /\ NameHash[m] \in DOMAIN s.index
                                        /\ m \in ChainNames(s.index[NameHash[m]])
      BY <1>1, IndexMember
    <3>2. CASE NameHash[m] = h
      BY <1>7, <1>9, <1>11, <1>15, <3>1, <3>2
    <3>3. CASE NameHash[m] # h
      BY <1>15, <3>1, <3>3
    <3>4. QED
      BY <3>2, <3>3
  <2>2. QED
    BY <2>1
<1> HIDE DEF f, k, t
<1>17. t.filter = f /\ t.index = y /\ t.count = k /\ t.tomb = s.tomb
  BY <1>3
<1>18. t \in Segment
  BY <1>1, <1>2, <1>3, <1>13 DEF Segment, f, k
<1>19. NamesIn(t) = NamesIn(s) \cup {n}
  BY <1>16, <1>17, NamesInIndex
<1>20. CountsOK(t)
  <2>1. IsFiniteSet(NamesIn(s)) /\ s.count = Cardinality(NamesIn(s))
    BY SegNames
  <2>2. Cardinality(NamesIn(t)) = s.count + 1
    BY <1>19, <2>1, FS_AddElement
  <2>3. s.count + 1 <= SegCap
    BY <1>2, IndexAssumption DEF Full
  <2>4. QED
    BY <1>1, <1>17, <2>2, <2>3 DEF CountsOK, k
<1>21. FilterCoversNames(t)
  BY <1>1, <1>17, <1>19 DEF FilterCoversNames, TestKey, f
<1>22. QED
  BY <1>15, <1>17, <1>18, <1>19, <1>20, <1>21 DEF SegOK, t

\* Removing a name, with or without the rebuild that may be due.
LEMMA SegRemoveFacts ==
  ASSUME NEW s, SegOK(s), NEW n \in NamesIn(s)
  PROVE  SegOK(SegRemove(s, n)) /\ NamesIn(SegRemove(s, n)) = NamesIn(s) \ {n}
<1> DEFINE h == NameHash[n]
           x == s.index
           p == Position(s, n)
           c == SwapRemove(x[h], p)
           y == IF c = <<>> THEN Restrict(x, DOMAIN x \ {h}) ELSE [x EXCEPT ![h] = c]
           k == s.count - 1
           l == s.tomb + 1
           t == [s EXCEPT !.index = y, !.count = k, !.tomb = l]
<1>1. n \in Names /\ IsFiniteSet(NamesIn(s)) /\ s.count = Cardinality(NamesIn(s)) /\ s.count \in Nat
  BY SegNames
<1>2. /\ s \in Segment /\ IndexOK(x) /\ CountsOK(s) /\ FilterCoversNames(s) /\ h \in Hashes
  BY <1>1, EntryFacts DEF SegOK
<1>3. s.filter \subseteq FilterBits /\ x \in Index /\ s.tomb \in Nat
  BY <1>2, SegmentShape
<1>4. PICK H \in SUBSET Hashes : x \in [H -> Seq(EntryRec)]
  BY <1>3 DEF Index, Hashes
<1>5. h \in H /\ p \in DOMAIN x[h] /\ x[h][p].name = n /\ ChainOK(x[h], h)
  BY <1>1, <1>2, <1>4, PositionFacts, EntryFacts DEF IndexOK
<1>6. /\ c = <<>> \/ ChainOK(c, h)
      /\ c \in Seq(EntryRec)
      /\ ChainNames(c) = ChainNames(x[h]) \ {n}
  BY <1>5, SwapRemoveFacts
<1>7. SegRemove(s, n) = IF t.tomb >= RebuildThreshold THEN RebuildFilter(t) ELSE t
  BY DEF SegRemove
<1> HIDE DEF c, p, x
<1>8. y \in Index /\ Rechained(x, y, h) /\ (h \in DOMAIN y => y[h] = c /\ ChainOK(c, h))
      /\ (h \notin DOMAIN y => c = <<>>)
  <2>1. CASE c = <<>>
    <3>1. y = [g \in H \ {h} |-> x[g]]
      BY <1>4, <2>1 DEF Restrict
    <3>2. y \in [H \ {h} -> Seq(EntryRec)] /\ H \ {h} \in SUBSET Hashes
      BY <1>4, <3>1
    <3>3. y \in Index
      BY <3>2 DEF Index, Hashes
    <3>4. DOMAIN y = H \ {h} /\ \A g \in H \ {h} : y[g] = x[g]
      BY <3>1
    <3> HIDE DEF y
    <3>5. QED
      BY <1>4, <2>1, <3>3, <3>4 DEF Rechained
  <2>2. CASE c # <<>>
    <3>1. y = [x EXCEPT ![h] = c]
      BY <2>2
    <3>2. y \in [H -> Seq(EntryRec)] /\ y[h] = c /\ \A g \in H \ {h} : y[g] = x[g]
      BY <1>4, <1>5, <1>6, <3>1
    <3> HIDE DEF y
    <3>3. y \in Index /\ DOMAIN y = H
      BY <3>2 DEF Index, Hashes
    <3>4. QED
      BY <1>4, <1>5, <1>6, <2>2, <3>2, <3>3 DEF Rechained
  <2>3. QED
    BY <2>1, <2>2
<1> HIDE DEF y
<1>9. /\ IndexOK(y)
      /\ \A m : m \in IndexNames(y) <=>
               /\ m \in Names
               /\ IF NameHash[m] = h THEN h \in DOMAIN y /\ m \in ChainNames(y[h])
                  ELSE m \in IndexNames(x)
  BY <1>2, <1>8, RechainFacts
<1>10. h \notin DOMAIN y => ChainNames(c) = {}
  BY <1>8 DEF ChainNames
<1>11. IndexNames(y) = IndexNames(x) \ {n}
  <2>1. ASSUME NEW m PROVE m \in IndexNames(y) <=> m \in IndexNames(x) \ {n}
    <3>1. m \in IndexNames(x) <=> /\ m \in Names /\ NameHash[m] \in DOMAIN x
                                  /\ m \in ChainNames(x[NameHash[m]])
      BY <1>2, IndexMember
    <3>2. CASE NameHash[m] = h
      <4>1. m \in IndexNames(y) <=> m \in Names /\ m \in ChainNames(c)
        BY <1>8, <1>9, <1>10, <3>2
      <4>2. m \in IndexNames(x) <=> m \in Names /\ m \in ChainNames(x[h])
        BY <1>4, <1>5, <3>1, <3>2
      <4>3. QED
        BY <1>6, <4>1, <4>2
    <3>3. CASE NameHash[m] # h
      BY <1>9, <3>1, <3>3
    <3>4. QED
      BY <3>2, <3>3
  <2>2. QED
    BY <2>1
<1>12. t = [filter |-> s.filter, index |-> y, count |-> k, tomb |-> l]
  <2>1. s = [filter |-> s.filter, index |-> s.index, count |-> s.count, tomb |-> s.tomb]
    BY <1>2, SegmentShape
  <2>2. t = [s EXCEPT !.index = y, !.count = k, !.tomb = l]
    OBVIOUS
  <2> HIDE DEF k, l, t
  <2>3. QED
    BY <2>1, <2>2
<1>13. /\ s.count >= 1 /\ k \in Nat /\ l \in Nat /\ k <= SegCap
       /\ k = Cardinality(NamesIn(s) \ {n})
  <2>1. Cardinality(NamesIn(s) \ {n}) = s.count - 1 /\ Cardinality(NamesIn(s) \ {n}) \in Nat
    BY <1>1, FS_RemoveElement, FS_CardinalityType
  <2>2. s.count <= SegCap
    BY <1>2 DEF CountsOK
  <2>3. QED
    BY <1>1, <1>3, <2>1, <2>2, IndexAssumption
<1> HIDE DEF k, l, t
<1>14. t.filter = s.filter /\ t.index = y /\ t.count = k /\ t.tomb = l
  BY <1>12
<1>15. NamesIn(t) = NamesIn(s) \ {n}
  BY <1>11, <1>14, NamesInIndex DEF x
<1>16. CASE ~(t.tomb >= RebuildThreshold)
  <2>1. SegRemove(s, n) = t
    BY <1>7, <1>16
  <2>2. t \in Segment
    BY <1>3, <1>8, <1>12, <1>13 DEF Segment
  <2>3. CountsOK(t)
    BY <1>13, <1>14, <1>15, <1>16, Threshold DEF CountsOK
  <2>4. FilterCoversNames(t)
    BY <1>2, <1>14, <1>15 DEF FilterCoversNames
  <2>5. QED
    BY <1>9, <1>14, <1>15, <2>1, <2>2, <2>3, <2>4 DEF SegOK
<1>17. CASE t.tomb >= RebuildThreshold
  <2> DEFINE f == UNION {Bits[FilterKey[m]] : m \in NamesIn(t)}
             u == RebuildFilter(t)
  <2>1. u = [t EXCEPT !.tomb = 0, !.filter = f]
    BY DEF RebuildFilter
  <2>2. SegRemove(s, n) = u
    BY <1>7, <1>17
  <2>3. f \subseteq FilterBits
    <3>1. NamesIn(t) \subseteq Names
      BY <1>15, SegNames
    <3>2. QED
      BY <3>1, EntryFacts
  <2>4. \A m \in NamesIn(t) : Bits[FilterKey[m]] \subseteq f
    OBVIOUS
  <2> HIDE DEF f, u
  <2>5. u = [filter |-> f, index |-> y, count |-> k, tomb |-> 0]
    BY <1>12, <2>1
  <2>6. u.filter = f /\ u.index = y /\ u.count = k /\ u.tomb = 0
    BY <2>5
  <2>7. u \in Segment
    BY <1>8, <1>13, <2>3, <2>5 DEF Segment
  <2>8. NamesIn(u) = NamesIn(t)
    BY <1>14, <2>6, NamesInIndex
  <2>9. CountsOK(u)
    BY <1>13, <1>15, <2>6, <2>8, Threshold DEF CountsOK
  <2>10. FilterCoversNames(u)
    BY <2>4, <2>6, <2>8 DEF FilterCoversNames, TestKey
  <2>11. QED
    BY <1>9, <1>15, <2>2, <2>6, <2>7, <2>8, <2>9, <2>10 DEF SegOK
<1>18. QED
  BY <1>16, <1>17

----------------------------------------------------------------------------
(* Directories. *)

LEMMA NamesOfMember ==
  ASSUME NEW d, NEW n
  PROVE  n \in NamesOf(d) <=> \E i \in DOMAIN d : n \in NamesIn(d[i])
BY DEF NamesOf

\* A lookup in the index finds exactly the names it holds, with their inodes.
LEMMA FindFacts ==
  ASSUME NEW d, NEW S, DirOK(d, S), NEW n \in Names
  PROVE  /\ Find(d, n) = IF n \in S THEN InodeOf[n] ELSE None
         /\ Find(d, n) = None <=> n \notin S
<1> DEFINE hits == {i \in DOMAIN d : SegFind(d[i], n) # None}
<1>1. \A i \in DOMAIN d : SegFind(d[i], n) = IF n \in NamesIn(d[i]) THEN InodeOf[n] ELSE None
  BY SegFindFacts DEF DirOK
<1>2. InodeOf[n] # None
  BY EntryFacts
<1>3. n \in S <=> \E i \in DOMAIN d : n \in NamesIn(d[i])
  BY NamesOfMember DEF DirOK
<1>4. DOMAIN d \subseteq Nat
  <2>1. d \in Seq(Segment)
    BY DEF DirOK
  <2>2. QED
    BY <2>1
<1>5. Find(d, n) = IF hits = {} THEN None ELSE SegFind(d[Min(hits)], n)
  BY DEF Find
<1>6. n \in S <=> hits # {}
  BY <1>1, <1>2, <1>3
<1>7. hits # {} => Min(hits) \in hits
  BY <1>4, MinFacts
<1>8. \A i \in hits : SegFind(d[i], n) = InodeOf[n]
  BY <1>1
<1> HIDE DEF hits
<1>9. QED
  BY <1>2, <1>5, <1>6, <1>7, <1>8

\* One segment of a directory is replaced.
LEMMA ReplaceSegment ==
  ASSUME NEW d, NEW S, DirOK(d, S), NEW i \in DOMAIN d, NEW s, SegOK(s), NEW T,
         \A j \in DOMAIN d \ {i} : NamesIn(d[j]) \cap NamesIn(s) = {},
         \A m : m \in T <=> m \in NamesIn(s) \/ \E j \in DOMAIN d \ {i} : m \in NamesIn(d[j])
  PROVE  DirOK([d EXCEPT ![i] = s], T)
<1> DEFINE b == [d EXCEPT ![i] = s]
<1>1. d \in Seq(Segment) /\ s \in Segment
  BY DEF DirOK, SegOK
<1>2. /\ b \in Seq(Segment) /\ DOMAIN b = DOMAIN d /\ b[i] = s
      /\ \A j \in DOMAIN d \ {i} : b[j] = d[j]
  BY <1>1
<1> HIDE DEF b
<1>3. \A j \in DOMAIN b : SegOK(b[j])
  BY <1>2 DEF DirOK
<1>4. \A j, k \in DOMAIN b : j # k => NamesIn(b[j]) \cap NamesIn(b[k]) = {}
  <2>1. ASSUME NEW j \in DOMAIN b, NEW k \in DOMAIN b, j # k
        PROVE  NamesIn(b[j]) \cap NamesIn(b[k]) = {}
    <3>1. CASE j = i
      BY <1>2, <2>1, <3>1
    <3>2. CASE k = i
      BY <1>2, <2>1, <3>2
    <3>3. CASE j # i /\ k # i
      BY <1>2, <2>1, <3>3 DEF DirOK
    <3>4. QED
      BY <3>1, <3>2, <3>3
  <2>2. QED
    BY <2>1
<1>5. ASSUME NEW m PROVE m \in NamesOf(b) <=> m \in T
  BY <1>2, NamesOfMember
<1>6. NamesOf(b) = T
  BY <1>5
<1>7. QED
  BY <1>2, <1>3, <1>4, <1>6 DEF DirOK, b

\* A segment is put at the end of a directory.
LEMMA AppendSegment ==
  ASSUME NEW d, NEW S, DirOK(d, S), NEW s, SegOK(s),
         \A j \in DOMAIN d : NamesIn(d[j]) \cap NamesIn(s) = {}
  PROVE  DirOK(Append(d, s), S \cup NamesIn(s))
<1> DEFINE b == Append(d, s)
           L == Len(d)
<1>1. d \in Seq(Segment) /\ s \in Segment /\ L \in Nat /\ DOMAIN d = 1 .. L
  BY DEF DirOK, SegOK
<1>2. /\ b \in Seq(Segment) /\ DOMAIN b = 1 .. L + 1 /\ b[L + 1] = s
      /\ \A j \in 1 .. L : b[j] = d[j]
  BY <1>1
<1> HIDE DEF b, L
<1>3. \A j \in DOMAIN b : j \in 1 .. L \/ j = L + 1
  BY <1>1, <1>2
<1>4. \A j \in 1 .. L : j \in DOMAIN b /\ j # L + 1
  BY <1>1, <1>2
<1>5. L + 1 \in DOMAIN b
  BY <1>1, <1>2
<1>6. \A j \in DOMAIN b : SegOK(b[j])
  BY <1>1, <1>2, <1>3 DEF DirOK
<1>7. \A j, k \in DOMAIN b : j # k => NamesIn(b[j]) \cap NamesIn(b[k]) = {}
  <2>1. ASSUME NEW j \in DOMAIN b, NEW k \in DOMAIN b, j # k
        PROVE  NamesIn(b[j]) \cap NamesIn(b[k]) = {}
    <3>1. CASE j \in 1 .. L /\ k \in 1 .. L
      BY <1>1, <1>2, <2>1, <3>1 DEF DirOK
    <3>2. CASE j = L + 1 /\ k \in 1 .. L
      BY <1>1, <1>2, <3>2
    <3>3. CASE k = L + 1 /\ j \in 1 .. L
      BY <1>1, <1>2, <3>3
    <3>4. QED
      BY <1>3, <2>1, <3>1, <3>2, <3>3
  <2>2. QED
    BY <2>1
<1>8. ASSUME NEW m PROVE m \in NamesOf(b) <=> m \in S \cup NamesIn(s)
  <2>1. m \in NamesOf(b) <=> \E j \in DOMAIN b : m \in NamesIn(b[j])
    BY NamesOfMember
  <2>2. m \in S <=> \E j \in 1 .. L : m \in NamesIn(d[j])
    BY <1>1, NamesOfMember DEF DirOK
  <2>3. QED
    BY <1>2, <1>3, <1>4, <1>5, <2>1, <2>2
<1>9. NamesOf(b) = S \cup NamesIn(s)
  BY <1>8
<1>10. QED
  BY <1>2, <1>6, <1>7, <1>9 DEF DirOK, b

\* push_unique adds a name that is not there, in a segment with room.
LEMMA PushFacts ==
  ASSUME NEW d, NEW S, DirOK(d, S), NEW n \in Names, n \notin S
  PROVE  DirOK(PushUnique(d, n), S \cup {n})
<1> DEFINE rooms == {i \in DOMAIN d : ~Full(d[i])}
           i == Min(rooms)
<1>1. \A j \in DOMAIN d : SegOK(d[j]) /\ n \notin NamesIn(d[j])
  BY NamesOfMember DEF DirOK
<1>2. PushUnique(d, n) = IF rooms = {} THEN Append(d, SegAdd(NewSegment, n))
                         ELSE [d EXCEPT ![i] = SegAdd(d[i], n)]
  BY DEF PushUnique
<1>3. CASE rooms = {}
  <2> DEFINE s == SegAdd(NewSegment, n)
  <2>1. ~Full(NewSegment)
    BY IndexAssumption DEF Full, NewSegment
  <2>2. SegOK(s) /\ NamesIn(s) = {n}
    BY <2>1, NewSegmentFacts, SegAddFacts
  <2> HIDE DEF s
  <2>3. DirOK(Append(d, s), S \cup {n})
    BY <1>1, <2>2, AppendSegment
  <2>4. QED
    BY <1>2, <1>3, <2>3 DEF s
<1>4. CASE rooms # {}
  <2> DEFINE s == SegAdd(d[i], n)
  <2>1. DOMAIN d \subseteq Nat
    <3>1. d \in Seq(Segment)
      BY DEF DirOK
    <3>2. QED
      BY <3>1
  <2>2. i \in rooms
    BY <1>4, <2>1, MinFacts
  <2>3. i \in DOMAIN d /\ ~Full(d[i])
    BY <2>2
  <2> HIDE DEF i, rooms
  <2>4. SegOK(s) /\ NamesIn(s) = NamesIn(d[i]) \cup {n}
    BY <1>1, <2>3, SegAddFacts
  <2> HIDE DEF s
  <2>5. \A j \in DOMAIN d \ {i} : NamesIn(d[j]) \cap NamesIn(s) = {}
    BY <1>1, <2>3, <2>4 DEF DirOK
  <2>6. \A m : m \in S <=> \E j \in DOMAIN d : m \in NamesIn(d[j])
    BY NamesOfMember DEF DirOK
  <2>7. \A m : m \in S \cup {n} <=>
                  m \in NamesIn(s) \/ \E j \in DOMAIN d \ {i} : m \in NamesIn(d[j])
    BY <2>3, <2>4, <2>6
  <2>8. DirOK([d EXCEPT ![i] = s], S \cup {n})
    BY <2>3, <2>4, <2>5, <2>7, ReplaceSegment
  <2>9. QED
    BY <1>2, <1>4, <2>8 DEF s
<1>5. QED
  BY <1>3, <1>4

\* Adding a name adds it to the set, and adding it again changes nothing.
LEMMA DirAddFacts ==
  ASSUME NEW d, NEW S, DirOK(d, S), NEW n \in Names
  PROVE  DirOK(DirAdd(d, n), S \cup {n})
<1>1. CASE n \in S
  <2>1. DirAdd(d, n) = d
    BY <1>1, FindFacts DEF DirAdd
  <2>2. S \cup {n} = S
    BY <1>1
  <2>3. QED
    BY <2>1, <2>2
<1>2. CASE n \notin S
  <2>1. DirAdd(d, n) = PushUnique(d, n)
    BY <1>2, FindFacts DEF DirAdd
  <2>2. QED
    BY <1>2, <2>1, PushFacts
<1>3. QED
  BY <1>1, <1>2

\* Removing a name removes it from the set and no other.
LEMMA DirDeleteFacts ==
  ASSUME NEW d, NEW S, DirOK(d, S), NEW n \in Names
  PROVE  DirOK(DirDelete(d, n), S \ {n})
<1> DEFINE holders == {i \in DOMAIN d : Position(d[i], n) > 0}
           i == Min(holders)
<1>1. \A j \in DOMAIN d : SegOK(d[j])
  BY DEF DirOK
<1>2. \A j \in DOMAIN d : Position(d[j], n) > 0 <=> n \in NamesIn(d[j])
  BY <1>1, PositionFacts
<1>3. \A m : m \in S <=> \E j \in DOMAIN d : m \in NamesIn(d[j])
  BY NamesOfMember DEF DirOK
<1>4. DirDelete(d, n) = IF holders = {} THEN d ELSE [d EXCEPT ![i] = SegRemove(d[i], n)]
  BY DEF DirDelete
<1>5. CASE holders = {}
  <2>1. S \ {n} = S
    BY <1>2, <1>3, <1>5
  <2>2. QED
    BY <1>4, <1>5, <2>1
<1>6. CASE holders # {}
  <2> DEFINE s == SegRemove(d[i], n)
  <2>1. DOMAIN d \subseteq Nat
    <3>1. d \in Seq(Segment)
      BY DEF DirOK
    <3>2. QED
      BY <3>1
  <2>2. i \in holders
    BY <1>6, <2>1, MinFacts
  <2>3. i \in DOMAIN d /\ n \in NamesIn(d[i])
    BY <1>2, <2>2
  <2> HIDE DEF i, holders
  <2>4. SegOK(s) /\ NamesIn(s) = NamesIn(d[i]) \ {n}
    BY <1>1, <2>3, SegRemoveFacts
  <2> HIDE DEF s
  <2>5. \A j \in DOMAIN d \ {i} : NamesIn(d[j]) \cap NamesIn(d[i]) = {}
    BY <2>3 DEF DirOK
  <2>6. \A j \in DOMAIN d \ {i} : NamesIn(d[j]) \cap NamesIn(s) = {}
    BY <2>4, <2>5
  <2>7. \A m : m \in S \ {n} <=>
                  m \in NamesIn(s) \/ \E j \in DOMAIN d \ {i} : m \in NamesIn(d[j])
    BY <1>3, <2>3, <2>4, <2>5
  <2>8. DirOK([d EXCEPT ![i] = s], S \ {n})
    BY <2>3, <2>4, <2>6, <2>7, ReplaceSegment
  <2>9. QED
    BY <1>4, <1>6, <2>8 DEF s
<1>7. QED
  BY <1>5, <1>6

LEMMA NewDirFacts == DirOK(NewDir, {})
<1>1. SegOK(NewSegment) /\ NamesIn(NewSegment) = {}
  BY NewSegmentFacts
<1>2. NewSegment \in Segment
  BY <1>1 DEF SegOK
<1>3. NewDir \in Seq(Segment) /\ DOMAIN NewDir = {1} /\ NewDir[1] = NewSegment
  BY <1>2 DEF NewDir
<1>4. NamesOf(NewDir) = {}
  BY <1>1, <1>3 DEF NamesOf
<1>5. QED
  BY <1>1, <1>3, <1>4 DEF DirOK

----------------------------------------------------------------------------
(* Loading an index from the pages. *)

\* The names of the pages in some order, each once.
LEMMA PageFacts ==
  ASSUME NEW S \in SUBSET Names
  PROVE  /\ Cardinality(S) \in Nat
         /\ SetToSeq(S) \in [1 .. Cardinality(S) -> S]
         /\ \A n \in S : \E k \in 1 .. Cardinality(S) : SetToSeq(S)[k] = n
<1> DEFINE N == Cardinality(S)
           D == 1 .. N
           f == SetToSeq(S)
<1>1. IsFiniteSet(S)
  BY FS_Subset, IndexAssumption
<1>2. N \in Nat /\ ExistsBijection(D, S)
  BY <1>1, FS_CardinalityType
<1>3. f = CHOOSE g \in [D -> S] : IsInjective(g)
  BY DEF SetToSeq
<1> HIDE DEF f
<1>4. \E g \in [D -> S] : IsInjective(g)
  BY <1>2 DEF ExistsBijection, Bijection, Injection
<1>5. f \in [D -> S] /\ IsInjective(f)
  BY <1>3, <1>4
<1>6. Cardinality(D) = N
  <2>1. IsFiniteSet(D)
    BY <1>2, FS_Interval
  <2>2. ExistsBijection(D, S)
    BY <1>2
  <2> HIDE DEF D
  <2>3. QED
    BY <2>1, <2>2, FS_Bijection
<1>7. f \in Injection(D, S)
  BY <1>5 DEF Injection
<1> HIDE DEF D
<1>8. f \in Surjection(D, S)
  BY <1>1, <1>6, <1>7, FS_Injection
<1>9. QED
  BY <1>2, <1>5, <1>8 DEF Surjection, D, f

\* The index after each name of a page, as a function.
Adding(p, N, f) ==
    f = [k \in 0 .. N |-> IF k = 0 THEN NewDir ELSE DirAdd(f[k - 1], p[k])]

LEMMA AddingExists ==
  ASSUME NEW p, NEW N \in Nat
  PROVE  \E f : Adding(p, N, f)
<1> DEFINE A == {k \in Nat : \E f : Adding(p, k, f)}
<1>1. 0 \in A
  <2> DEFINE f == [k \in 0 .. 0 |-> NewDir]
  <2>1. Adding(p, 0, f)
    BY DEF Adding
  <2> HIDE DEF f
  <2>2. QED
    BY <2>1
<1>2. ASSUME NEW k \in A PROVE k + 1 \in A
  <2>1. k \in Nat
    OBVIOUS
  <2>2. PICK f : Adding(p, k, f)
    OBVIOUS
  <2> DEFINE g == [j \in 0 .. k + 1 |-> IF j = k + 1 THEN DirAdd(f[k], p[k + 1]) ELSE f[j]]
             r(j) == IF j = 0 THEN NewDir ELSE DirAdd(g[j - 1], p[j])
  <2>3. \A j \in 0 .. k : f[j] = IF j = 0 THEN NewDir ELSE DirAdd(f[j - 1], p[j])
    BY <2>2 DEF Adding
  <2>4. \A j \in 0 .. k : g[j] = f[j]
    BY <2>1
  <2>5. g[k + 1] = DirAdd(f[k], p[k + 1])
    BY <2>1
  <2>6. g = [j \in 0 .. k + 1 |-> g[j]]
    OBVIOUS
  <2> HIDE DEF g
  <2>7. ASSUME NEW j \in 0 .. k + 1 PROVE g[j] = r(j)
    <3>1. CASE j = k + 1
      <4>1. j - 1 = k /\ k \in 0 .. k /\ j # 0
        BY <2>1, <3>1
      <4>2. g[j - 1] = f[k]
        BY <2>4, <4>1
      <4>3. QED
        BY <2>5, <3>1, <4>1, <4>2
    <3>2. CASE j = 0
      BY <2>1, <2>3, <2>4, <3>2
    <3>3. CASE j # k + 1 /\ j # 0
      <4>1. j \in 0 .. k /\ j - 1 \in 0 .. k
        BY <2>1, <3>3
      <4>2. g[j] = f[j] /\ g[j - 1] = f[j - 1]
        BY <2>4, <4>1
      <4>3. f[j] = DirAdd(f[j - 1], p[j])
        BY <2>3, <3>3, <4>1
      <4>4. QED
        BY <3>3, <4>2, <4>3
    <3>4. QED
      BY <3>1, <3>2, <3>3
  <2>8. g = [j \in 0 .. k + 1 |-> r(j)]
    <3> HIDE DEF r
    <3>1. QED
      BY <2>6, <2>7
  <2>9. Adding(p, k + 1, g)
    BY <2>8 DEF Adding
  <2>10. QED
    BY <2>1, <2>9
<1> HIDE DEF A
<1>3. A \in SUBSET Nat
  BY DEF A
<1>4. N \in A
  BY <1>1, <1>2, <1>3, SetInduction
<1>5. QED
  BY <1>4 DEF A

\* After k names of the page, the index holds those k names.
LEMMA AddingFacts ==
  ASSUME NEW p, NEW N \in Nat, NEW f, Adding(p, N, f), \A k \in 1 .. N : p[k] \in Names
  PROVE  DirOK(f[N], {p[k] : k \in 1 .. N})
<1> DEFINE P(k) == {p[j] : j \in 1 .. k}
           A == {k \in Nat : k <= N => DirOK(f[k], P(k))}
<1>1. \A k \in 0 .. N : f[k] = IF k = 0 THEN NewDir ELSE DirAdd(f[k - 1], p[k])
  BY DEF Adding
<1>2. 0 \in A
  <2>1. P(0) = {}
    OBVIOUS
  <2>2. f[0] = NewDir
    BY <1>1
  <2>3. DirOK(f[0], P(0))
    BY <2>1, <2>2, NewDirFacts
  <2>4. QED
    BY <2>3
<1>3. ASSUME NEW k \in A, k < N PROVE k + 1 \in A
  <2>1. k \in Nat /\ DirOK(f[k], P(k))
    BY <1>3
  <2>2. k + 1 \in 0 .. N /\ k + 1 # 0 /\ (k + 1) - 1 = k /\ k + 1 \in 1 .. N
    BY <1>3, <2>1
  <2>3. f[k + 1] = DirAdd(f[k], p[k + 1])
    BY <1>1, <2>2
  <2>4. p[k + 1] \in Names
    BY <2>2
  <2>5. P(k + 1) = P(k) \cup {p[k + 1]}
    <3>1. 1 .. k + 1 = (1 .. k) \cup {k + 1}
      BY <2>1
    <3>2. QED
      BY <3>1
  <2> HIDE DEF P
  <2>6. DirOK(f[k + 1], P(k + 1))
    BY <2>1, <2>3, <2>4, <2>5, DirAddFacts
  <2>7. QED
    BY <2>1, <2>6
<1> HIDE DEF A, P
<1>4. A \in SUBSET Nat
  BY DEF A
<1>5. N \in A
  BY <1>2, <1>3, <1>4, SetInduction
<1>6. QED
  BY <1>5 DEF A, P

\* An index loaded from the pages holds exactly the names of the pages.
LEMMA LoadFacts ==
  ASSUME NEW S \in SUBSET Names
  PROVE  DirOK(Load[S], S)
<1> DEFINE p == SetToSeq(S)
           N == Cardinality(S)
           f == CHOOSE g : g = [k \in 0 .. Len(p) |->
                                   IF k = 0 THEN NewDir ELSE DirAdd(g[k - 1], p[k])]
<1>1. N \in Nat /\ p \in [1 .. N -> S] /\ \A n \in S : \E k \in 1 .. N : p[k] = n
  BY PageFacts
<1>2. Load[S] = f[Len(p)]
  BY DEF Load
<1> HIDE DEF p, N
<1>3. Len(p) = N
  BY <1>1
<1>4. f = CHOOSE g : Adding(p, N, g)
  BY <1>3 DEF Adding
<1> HIDE DEF f
<1>5. Adding(p, N, f)
  BY <1>1, <1>4, AddingExists
<1>6. \A k \in 1 .. N : p[k] \in S
  BY <1>1
<1>7. {p[k] : k \in 1 .. N} = S
  BY <1>1, <1>6
<1>8. DirOK(f[N], S)
  BY <1>1, <1>5, <1>6, <1>7, AddingFacts
<1>9. QED
  BY <1>2, <1>3, <1>8

----------------------------------------------------------------------------
(* The gate. *)

LEMMA GateKeyFacts ==
  ASSUME NEW n \in Names
  PROVE  /\ GateKey[n] \in Keys /\ Bits[GateKey[n]] \subseteq FilterBits
         /\ GateKey[n].lo \in {GateKey[m].lo : m \in Names}
BY GateAssumption DEF FilterBits

LEMMA GateShape ==
  ASSUME NEW g \in GateRec
  PROVE  /\ g = [filter |-> g.filter, deleted |-> g.deleted, live |-> g.live, capacity |-> g.capacity]
         /\ g.filter \subseteq FilterBits /\ g.deleted \subseteq {GateKey[m].lo : m \in Names}
         /\ g.live \in Int /\ g.capacity \in Nat
BY DEF GateRec

LEMMA GateTyped ==
  ASSUME NEW f \in SUBSET FilterBits, NEW d \in SUBSET {GateKey[m].lo : m \in Names},
         NEW l \in Int, NEW c \in Nat
  PROVE  [filter |-> f, deleted |-> d, live |-> l, capacity |-> c] \in GateRec
BY DEF GateRec

\* Adding a name to the gate: the name passes, and no other name is denied.
LEMMA GateAddFacts ==
  ASSUME NEW g \in GateRec, NEW n \in Names
  PROVE  /\ GateAdd(g, n) \in GateRec /\ GateAdd(g, n).capacity = g.capacity
         /\ GateTest(GateAdd(g, n), n)
         /\ \A m \in Names : GateTest(g, m) => GateTest(GateAdd(g, n), m)
<1> DEFINE f == g.filter \cup Bits[GateKey[n]]
           d == g.deleted \ {GateKey[n].lo}
           l == g.live + 1
           b == GateAdd(g, n)
<1>1. b = [g EXCEPT !.deleted = d, !.filter = f, !.live = l]
  BY DEF GateAdd, AddKey
<1>2. f \in SUBSET FilterBits /\ d \in SUBSET {GateKey[m].lo : m \in Names} /\ l \in Int
      /\ g.capacity \in Nat
  BY GateShape, GateKeyFacts
<1>3. g = [filter |-> g.filter, deleted |-> g.deleted, live |-> g.live, capacity |-> g.capacity]
  BY GateShape
<1>4. /\ g.filter \subseteq f /\ d \subseteq g.deleted
      /\ Bits[GateKey[n]] \subseteq f /\ GateKey[n].lo \notin d
  OBVIOUS
<1> HIDE DEF f, d, l, b
<1>5. b = [filter |-> f, deleted |-> d, live |-> l, capacity |-> g.capacity]
  BY <1>1, <1>3
<1>6. b.filter = f /\ b.deleted = d /\ b.capacity = g.capacity
  BY <1>5
<1>7. b \in GateRec
  BY <1>2, <1>5, GateTyped
<1>8. QED
  BY <1>4, <1>6, <1>7 DEF GateTest, TestKey, b

\* Removing a name denies no other name: tombstones differ.
LEMMA GateRemoveFacts ==
  ASSUME NEW g \in GateRec, NEW n \in Names
  PROVE  /\ GateRemove(g, n) \in GateRec /\ GateRemove(g, n).capacity = g.capacity
         /\ \A m \in Names \ {n} : GateTest(g, m) => GateTest(GateRemove(g, n), m)
<1> DEFINE d == g.deleted \cup {GateKey[n].lo}
           l == g.live - 1
           b == GateRemove(g, n)
<1>1. b = [g EXCEPT !.deleted = d, !.live = l]
  BY DEF GateRemove
<1>2. /\ d \in SUBSET {GateKey[m].lo : m \in Names} /\ l \in Int
      /\ g.filter \subseteq FilterBits /\ g.capacity \in Nat
  BY GateShape, GateKeyFacts
<1>3. g = [filter |-> g.filter, deleted |-> g.deleted, live |-> g.live, capacity |-> g.capacity]
  BY GateShape
<1>4. \A m \in Names \ {n} : GateKey[m].lo \notin g.deleted => GateKey[m].lo \notin d
  BY GateAssumption
<1> HIDE DEF d, l, b
<1>5. b = [filter |-> g.filter, deleted |-> d, live |-> l, capacity |-> g.capacity]
  BY <1>1, <1>3
<1>6. b.filter = g.filter /\ b.deleted = d /\ b.capacity = g.capacity
  BY <1>5
<1>7. b \in GateRec
  BY <1>2, <1>5, GateTyped
<1>8. QED
  BY <1>4, <1>6, <1>7 DEF GateTest, b

LEMMA CapacityFacts ==
  ASSUME NEW e \in Nat
  PROVE  Max({2 * e, MinCapacity}) \in Nat /\ Max({2 * e, MinCapacity}) >= MinCapacity
<1> DEFINE a == 2 * e
<1>1. a \in Nat /\ MinCapacity \in Nat
  BY GateAssumption
<1> HIDE DEF a
<1>2. \E x \in {a, MinCapacity} : \A y \in {a, MinCapacity} : x >= y
  <2>1. CASE a >= MinCapacity
    BY <1>1, <2>1
  <2>2. CASE ~(a >= MinCapacity)
    BY <1>1, <2>2
  <2>3. QED
    BY <2>1, <2>2
<1>3. Max({a, MinCapacity}) \in {a, MinCapacity} /\ Max({a, MinCapacity}) >= MinCapacity
  BY <1>1, <1>2 DEF Max
<1>4. QED
  BY <1>1, <1>3 DEF a

\* A gate built from a set of names denies none of them.
LEMMA BuildGateFacts ==
  ASSUME NEW S \in SUBSET Names
  PROVE  /\ BuildGate(S) \in GateRec /\ BuildGate(S).capacity >= MinCapacity
         /\ \A m \in S : GateTest(BuildGate(S), m)
<1> DEFINE f == UNION {Bits[GateKey[n]] : n \in S}
           e == Cardinality(S)
           c == Max({2 * e, MinCapacity})
           b == BuildGate(S)
<1>1. e \in Nat
  BY FS_Subset, FS_CardinalityType, IndexAssumption
<1>2. c \in Nat /\ c >= MinCapacity
  BY <1>1, CapacityFacts
<1>3. f \in SUBSET FilterBits /\ \A m \in S : Bits[GateKey[m]] \subseteq f
  BY GateKeyFacts
<1>4. b = [[filter |-> EmptyFilter, deleted |-> {}, live |-> 0, capacity |-> c] EXCEPT
               !.filter = f, !.live = e]
  BY DEF BuildGate, NewGate
<1> HIDE DEF f, e, c, b
<1>5. b = [filter |-> f, deleted |-> {}, live |-> e, capacity |-> c]
  BY <1>4
<1>6. b.filter = f /\ b.deleted = {} /\ b.capacity = c
  BY <1>5
<1>7. b \in GateRec
  BY <1>1, <1>2, <1>3, <1>5, GateTyped
<1>8. QED
  BY <1>2, <1>3, <1>6, <1>7 DEF GateTest, TestKey, b

LEMMA NewGateFacts == NewGate(0) \in GateRec /\ NewGate(0).capacity >= MinCapacity
<1> DEFINE c == Max({2 * 0, MinCapacity})
           b == NewGate(0)
<1>1. c \in Nat /\ c >= MinCapacity
  BY CapacityFacts
<1>2. b = [filter |-> {}, deleted |-> {}, live |-> 0, capacity |-> c]
  BY DEF NewGate, EmptyFilter
<1> HIDE DEF c, b
<1>3. b \in GateRec
  BY <1>1, <1>2, GateTyped
<1>4. QED
  BY <1>1, <1>2, <1>3 DEF b

----------------------------------------------------------------------------
(* The directory. *)

LEMMA CopyShape ==
  ASSUME NEW h \in CachedDirs
  PROVE  /\ h = [dir |-> h.dir, names |-> h.names, dirty |-> h.dirty]
         /\ h.dir \in Seq(Segment) /\ h.names \subseteq Names /\ h.dirty \subseteq Pages
         /\ h # None
BY GateSentinel DEF CachedDirs

LEMMA CopyMade ==
  ASSUME NEW S \in SUBSET Names, NEW P \in SUBSET Pages, NEW d, DirOK(d, S)
  PROVE  CopyOK([dir |-> d, names |-> S, dirty |-> P])
<1>1. d \in Seq(Segment)
  BY DEF DirOK
<1>2. QED
  BY <1>1 DEF CopyOK, CachedDirs

LEMMA CachedDirFacts ==
  ASSUME NEW S \in SUBSET Names
  PROVE  CopyOK(CachedDir(S)) /\ CachedDir(S).names = S /\ CachedDir(S).dirty = {}
<1>1. DirOK(Load[S], S)
  BY LoadFacts
<1>2. CachedDir(S) = [dir |-> Load[S], names |-> S, dirty |-> {}]
  BY DEF CachedDir
<1>3. QED
  BY <1>1, <1>2, CopyMade

LEMMA CachedAddFacts ==
  ASSUME NEW h, CopyOK(h), NEW n \in Names
  PROVE  CopyOK(CachedAdd(h, n)) /\ CachedAdd(h, n).names = h.names \cup {n}
<1>1. /\ h = [dir |-> h.dir, names |-> h.names, dirty |-> h.dirty]
      /\ h.names \subseteq Names /\ h.dirty \subseteq Pages
  BY CopyShape DEF CopyOK
<1>2. DirOK(DirAdd(h.dir, n), h.names \cup {n})
  BY DirAddFacts DEF CopyOK
<1> DEFINE d == DirAdd(h.dir, n)
           S == h.names \cup {n}
           P == h.dirty \cup {PageOf[n]}
<1>3. S \in SUBSET Names /\ P \in SUBSET Pages
  BY <1>1 DEF Pages
<1>4. CachedAdd(h, n) = [h EXCEPT !.dir = d, !.names = S, !.dirty = P]
  BY DEF CachedAdd
<1> HIDE DEF d, S, P
<1>5. CachedAdd(h, n) = [dir |-> d, names |-> S, dirty |-> P]
  BY <1>1, <1>4
<1>6. DirOK(d, S)
  BY <1>2 DEF d, S
<1>7. QED
  BY <1>3, <1>5, <1>6, CopyMade DEF S

LEMMA CachedDelFacts ==
  ASSUME NEW h, CopyOK(h), NEW n \in Names
  PROVE  CopyOK(CachedDel(h, n)) /\ CachedDel(h, n).names = h.names \ {n}
<1>1. /\ h = [dir |-> h.dir, names |-> h.names, dirty |-> h.dirty]
      /\ h.names \subseteq Names /\ h.dirty \subseteq Pages
  BY CopyShape DEF CopyOK
<1>2. DirOK(DirDelete(h.dir, n), h.names \ {n})
  BY DirDeleteFacts DEF CopyOK
<1> DEFINE d == DirDelete(h.dir, n)
           S == h.names \ {n}
           P == h.dirty \cup {PageOf[n]}
<1>3. S \in SUBSET Names /\ P \in SUBSET Pages
  BY <1>1 DEF Pages
<1>4. CachedDel(h, n) = [h EXCEPT !.dir = d, !.names = S, !.dirty = P]
  BY DEF CachedDel
<1> HIDE DEF d, S, P
<1>5. CachedDel(h, n) = [dir |-> d, names |-> S, dirty |-> P]
  BY <1>1, <1>4
<1>6. DirOK(d, S)
  BY <1>2 DEF d, S
<1>7. QED
  BY <1>3, <1>5, <1>6, CopyMade DEF S

\* A copy whose pages are written.
LEMMA CleanFacts ==
  ASSUME NEW h, CopyOK(h), NEW c, c = [h EXCEPT !.dirty = {}]
  PROVE  CopyOK(c) /\ c.names = h.names
<1>1. /\ h = [dir |-> h.dir, names |-> h.names, dirty |-> h.dirty]
      /\ h.names \in SUBSET Names /\ {} \in SUBSET Pages /\ DirOK(h.dir, h.names)
  BY CopyShape DEF CopyOK
<1>2. c = [dir |-> h.dir, names |-> h.names, dirty |-> {}]
  BY <1>1
<1>3. QED
  BY <1>1, <1>2, CopyMade

LEMMA CoveredFacts ==
  ASSUME NEW S, NEW D, NEW g, Covered(S, D, g), NEW T \in SUBSET S
  PROVE  Covered(T, D, g)
BY DEF Covered

\* What an operation may find: a copy, with names that pass the gate unless a walk
\* left it stale.
LEMMA OpenDirFacts ==
  ASSUME IInv
  PROVE  /\ CopyOK(OpenDir) /\ OpenDir # None
         /\ resident = None => OpenDir.names = stored
         /\ ~Stale => Covered(OpenDir.names, doubtful, gate)
<1>1. TypeOK /\ CopiesOK /\ GateCovers
  BY DEF IInv
<1>2. CASE resident = None
  <2>1. OpenDir = CachedDir(stored) /\ stored \in SUBSET Names
    BY <1>1, <1>2 DEF OpenDir, TypeOK
  <2>2. CopyOK(OpenDir) /\ OpenDir.names = stored
    BY <2>1, CachedDirFacts
  <2>3. OpenDir # None
    BY <2>2, CopyShape DEF CopyOK
  <2>4. QED
    BY <1>1, <2>2, <2>3 DEF GateCovers
<1>3. CASE resident # None
  <2>1. OpenDir = resident /\ CopyOK(resident)
    BY <1>1, <1>3 DEF OpenDir, CopiesOK
  <2>2. ASSUME ~Stale PROVE Covered(resident.names, doubtful, gate)
    <3>1. resident.names \ NamesOn(resident.dirty) \subseteq stored
      BY <1>3, <2>2 DEF Stale
    <3>2. QED
      BY <1>1, <1>3, <3>1 DEF GateCovers, Covered, Ahead
  <2>3. QED
    BY <1>3, <2>1, <2>2
<1>4. QED
  BY <1>2, <1>3

\* What a walk may see of the directory, and leave in the cache.
LEMMA WalkFacts ==
  ASSUME NEW r, r = None \/ CopyOK(r), NEW S \in SUBSET Names, fails \in 0 .. MaxFails,
         NEW w \in Walks(r, S)
  PROVE  /\ w.seen \in SUBSET Names /\ w.fails \in 0 .. MaxFails
         /\ w.cached = None \/ /\ CopyOK(w.cached) /\ w.cached.names = w.seen
                               /\ w.cached = r \/ w.cached.dirty = {}
<1>1. CASE w \in {[seen |-> {}, cached |-> None, fails |-> f] : f \in {fails + 1} \cap 0 .. MaxFails}
  BY <1>1
<1>2. ASSUME NEW h \in {CachedDir(S), r} \ {None}, NEW c \in {h, None},
             w = [seen |-> NamesOf(h.dir), cached |-> c, fails |-> fails]
      PROVE  /\ w.seen \in SUBSET Names /\ w.fails \in 0 .. MaxFails
             /\ w.cached = None \/ /\ CopyOK(w.cached) /\ w.cached.names = w.seen
                                   /\ w.cached = r \/ w.cached.dirty = {}
  <2>1. CopyOK(h) /\ (h = r \/ h.dirty = {})
    BY <1>2, CachedDirFacts
  <2>2. NamesOf(h.dir) = h.names /\ h.names \subseteq Names
    BY <2>1, CopyShape DEF CopyOK, DirOK
  <2>3. w.seen = h.names /\ w.cached = c /\ w.fails = fails
    BY <1>2, <2>2
  <2>4. QED
    BY <2>1, <2>2, <2>3
<1>3. QED
  BY <1>1, <1>2 DEF Walks

----------------------------------------------------------------------------
(* Init and the actions. *)

\* The types, from the parts.
Rest ==
    /\ todo \subseteq Pages /\ stored \subseteq Names /\ committed \subseteq Names
    /\ gate \in GateRec /\ gate.capacity >= MinCapacity
    /\ saved \in Snapshots \cup {None}
    /\ seq \in 0 .. MaxSeq /\ fails \in 0 .. MaxFails /\ doubtful \subseteq Names

LEMMA TypeFacts == ASSUME CopiesOK, Rest PROVE TypeOK
<1>1. ASSUME NEW h \in Copies PROVE h.names \subseteq Names /\ h.dirty \subseteq Pages
  <2>1. CopyOK(h)
    BY <1>1 DEF Copies, CopiesOK
  <2>2. QED
    BY <2>1, CopyShape DEF CopyOK
<1>2. QED
  BY <1>1 DEF Rest, TypeOK

LEMMA RestFacts == ASSUME TypeOK PROVE Rest
BY DEF TypeOK, Rest

LEMMA InitInv == Init => IInv
<1> SUFFICES ASSUME Init PROVE IInv
  OBVIOUS
<1>1. /\ resident = CachedDir({}) /\ handle = None /\ todo = {}
      /\ stored = {} /\ committed = {} /\ seq = 0
      /\ gate = NewGate(0) /\ saved = None /\ fails = 0 /\ doubtful = {}
  BY DEF Init
<1>2. CopyOK(resident) /\ resident.names = {}
  <2>1. {} \in SUBSET Names
    OBVIOUS
  <2>2. QED
    BY <1>1, <2>1, CachedDirFacts
<1>3. CopiesOK /\ OneWriter /\ SavedOK
  BY <1>1, <1>2 DEF CopiesOK, OneWriter, SavedOK
<1>4. Rest
  BY <1>1, NewGateFacts, GateAssumption DEF Rest
<1>5. GateCovers
  BY <1>1, <1>2 DEF GateCovers, Covered, Ahead
<1>6. QED
  BY <1>3, <1>4, <1>5, TypeFacts DEF IInv

\* TypeFacts one step later.
LEMMA TypeNext == ASSUME CopiesOK', Rest' PROVE TypeOK'
<1>1. ASSUME NEW h \in Copies' PROVE h.names \subseteq Names /\ h.dirty \subseteq Pages
  <2>1. CopyOK(h)
    BY <1>1 DEF Copies, CopiesOK
  <2>2. QED
    BY <2>1, CopyShape DEF CopyOK
<1>2. QED
  BY <1>1 DEF Rest, TypeOK

\* An operation begins to flush the directory it changed to h.
LEMMA BeginFacts ==
  ASSUME IInv, NEW h, CopyOK(h), NEW n \in Names, Begin(h),
         gate' \in GateRec, gate'.capacity = gate.capacity, doubtful' \subseteq Names,
         Covered(h.names, doubtful', gate'), Covered(stored, doubtful', gate')
  PROVE  IInv'
<1>1. TypeOK /\ SavedOK
  BY DEF IInv
<1>2. /\ handle' = h /\ resident' = h /\ todo' = h.dirty
      /\ UNCHANGED <<stored, committed, seq, saved, fails>>
  BY DEF Begin
<1>3. CopiesOK' /\ OneWriter'
  BY <1>2 DEF CopiesOK, OneWriter
<1>4. h.dirty \subseteq Pages
  BY CopyShape DEF CopyOK
<1>5. Rest'
  BY <1>1, <1>2, <1>4 DEF TypeOK, Rest
<1>6. GateCovers'
  <2>1. Ahead(h) \in SUBSET h.names
    BY DEF Ahead
  <2>2. Covered(Ahead(h), doubtful', gate')
    BY <2>1, CoveredFacts
  <2>3. QED
    BY <1>2, <2>2 DEF GateCovers
<1>7. SavedOK'
  BY <1>1, <1>2 DEF SavedOK
<1>8. QED
  BY <1>3, <1>5, <1>6, <1>7, TypeNext DEF IInv

LEMMA CreateInv == ASSUME IInv, NEW n \in Names, Create(n) PROVE IInv'
<1>1. /\ gate \in GateRec /\ doubtful \subseteq Names /\ stored \subseteq Names
      /\ Covered(stored, doubtful, gate)
  BY DEF IInv, TypeOK, GateCovers
<1>2. CopyOK(OpenDir) /\ Covered(OpenDir.names, doubtful, gate)
  BY OpenDirFacts DEF Create
<1>3. PICK h : h = CachedAdd(OpenDir, n)
  OBVIOUS
<1>4. CopyOK(h) /\ h.names = OpenDir.names \cup {n}
  BY <1>2, <1>3, CachedAddFacts
<1>5. h.names \subseteq Names
  BY <1>4, CopyShape DEF CopyOK
<1>6. gate' = GateAdd(gate, n) /\ doubtful' = doubtful \ {n} /\ Begin(h)
  BY <1>3 DEF Create
<1>7. /\ gate' \in GateRec /\ gate'.capacity = gate.capacity /\ GateTest(gate', n)
      /\ \A m \in Names : GateTest(gate, m) => GateTest(gate', m)
  BY <1>1, <1>6, GateAddFacts
<1>8. Covered(h.names, doubtful', gate') /\ Covered(stored, doubtful', gate')
  BY <1>1, <1>2, <1>4, <1>5, <1>6, <1>7 DEF Covered
<1>9. QED
  BY <1>1, <1>4, <1>6, <1>7, <1>8, BeginFacts

LEMMA UnlinkInv == ASSUME IInv, NEW n \in Names, Unlink(n) PROVE IInv'
<1>1. /\ gate \in GateRec /\ doubtful \subseteq Names /\ stored \subseteq Names
      /\ Covered(stored, doubtful, gate)
  BY DEF IInv, TypeOK, GateCovers
<1>2. CopyOK(OpenDir) /\ Covered(OpenDir.names, doubtful, gate)
  BY OpenDirFacts DEF Unlink
<1>3. PICK h : h = CachedDel(OpenDir, n)
  OBVIOUS
<1>4. CopyOK(h) /\ h.names = OpenDir.names \ {n}
  BY <1>2, <1>3, CachedDelFacts
<1>5. h.names \subseteq Names
  BY <1>4, CopyShape DEF CopyOK
<1>6. gate' = GateRemove(gate, n) /\ doubtful' = doubtful \cup {n} /\ Begin(h)
  BY <1>3 DEF Unlink
<1>7. /\ gate' \in GateRec /\ gate'.capacity = gate.capacity
      /\ \A m \in Names \ {n} : GateTest(gate, m) => GateTest(gate', m)
  BY <1>1, <1>6, GateRemoveFacts
<1>8. Covered(h.names, doubtful', gate') /\ Covered(stored, doubtful', gate')
  BY <1>1, <1>2, <1>4, <1>5, <1>6, <1>7 DEF Covered
<1>9. QED
  BY <1>1, <1>4, <1>6, <1>7, <1>8, BeginFacts

\* A written page holds names of the pages before and of the copy.
LEMMA WriteInv == ASSUME IInv, NEW p \in Pages, WritePage(p) PROVE IInv'
<1>1. TypeOK /\ CopiesOK /\ OneWriter /\ GateCovers /\ SavedOK
  BY DEF IInv
<1>2. /\ handle # None /\ todo' = todo \ {p}
      /\ stored' = (stored \ NamesOn({p})) \cup (handle.names \cap NamesOn({p}))
      /\ UNCHANGED <<resident, handle, committed, seq, gate, saved, fails, doubtful>>
  BY DEF WritePage
<1>3. CopyOK(handle)
  BY <1>1, <1>2 DEF CopiesOK
<1>4. handle.names \subseteq Names
  BY <1>3, CopyShape DEF CopyOK
<1>5. Rest'
  BY <1>1, <1>2, <1>4 DEF TypeOK, Rest
<1>6. CopiesOK' /\ OneWriter' /\ SavedOK'
  BY <1>1, <1>2 DEF CopiesOK, OneWriter, SavedOK
<1>7. GateCovers'
  BY <1>1, <1>2 DEF GateCovers, Covered
<1>8. QED
  BY <1>5, <1>6, <1>7, TypeNext DEF IInv

\* An operation ends, with its directory as c.
LEMMA ReleaseFacts ==
  ASSUME IInv, handle # None, NEW c, CopyOK(c), c.names = handle.names, Release(c),
         fails' \in 0 .. MaxFails
  PROVE  IInv'
<1>1. TypeOK /\ CopiesOK /\ OneWriter /\ GateCovers /\ SavedOK
  BY DEF IInv
<1>2. /\ handle' = None /\ todo' = {} /\ resident' = IF resident = handle THEN c ELSE resident
      /\ doubtful' = doubtful \cap (stored \cup handle.names)
      /\ UNCHANGED <<stored, committed, seq, gate, saved>>
  BY DEF Release
<1>3. CopiesOK' /\ OneWriter' /\ SavedOK'
  BY <1>1, <1>2 DEF CopiesOK, OneWriter, SavedOK
<1>4. Rest'
  BY <1>1, <1>2 DEF TypeOK, Rest
<1>5. Covered(stored, doubtful', gate) /\ Covered(handle.names, doubtful', gate)
  BY <1>1, <1>2 DEF GateCovers, Covered
<1>6. ASSUME resident' # None PROVE Covered(Ahead(resident'), doubtful', gate)
  <2>1. CASE resident = handle
    <3>1. resident' = c
      BY <1>2, <2>1
    <3>2. Ahead(c) \in SUBSET handle.names
      BY DEF Ahead
    <3>3. QED
      BY <1>5, <3>1, <3>2, CoveredFacts
  <2>2. CASE resident # handle
    <3>1. resident' = resident /\ resident.dirty = {}
      BY <1>1, <1>2, <1>6, <2>2 DEF OneWriter
    <3>2. Ahead(resident) = {}
      BY <3>1 DEF Ahead, NamesOn
    <3>3. QED
      BY <3>1, <3>2 DEF Covered
  <2>3. QED
    BY <2>1, <2>2
<1>7. GateCovers'
  BY <1>2, <1>5, <1>6 DEF GateCovers
<1>8. QED
  BY <1>3, <1>4, <1>7, TypeNext DEF IInv

LEMMA EndInv == ASSUME IInv, FlushEnds PROVE IInv'
<1>1. handle # None /\ CopyOK(handle) /\ fails \in 0 .. MaxFails
  BY DEF IInv, CopiesOK, TypeOK, FlushEnds
<1>2. PICK c : c = [handle EXCEPT !.dirty = {}]
  OBVIOUS
<1>3. CopyOK(c) /\ c.names = handle.names
  BY <1>1, <1>2, CleanFacts
<1>4. Release(c) /\ fails' = fails
  BY <1>2 DEF FlushEnds
<1>5. QED
  BY <1>1, <1>3, <1>4, ReleaseFacts

LEMMA FailInv == ASSUME IInv, FlushFails PROVE IInv'
<1>1. handle # None /\ CopyOK(handle)
  BY DEF IInv, CopiesOK, FlushFails
<1>2. fails' \in 0 .. MaxFails
  BY GateAssumption DEF IInv, TypeOK, FlushFails
<1>3. Release(handle)
  BY DEF FlushFails
<1>4. QED
  BY <1>1, <1>2, <1>3, ReleaseFacts

LEMMA LookupInv == ASSUME IInv, NEW n \in Names, Lookup(n) PROVE IInv'
<1>1. TypeOK /\ CopiesOK /\ OneWriter /\ GateCovers /\ SavedOK
  BY DEF IInv
<1>2. /\ UNCHANGED <<handle, todo, stored, committed, seq, gate, saved, fails, doubtful>>
      /\ handle = None
  BY DEF Lookup
<1>3. CASE resident' = resident
  BY <1>1, <1>2, <1>3
     DEF IInv, TypeOK, Copies, CopiesOK, OneWriter, GateCovers, SavedOK
<1>4. CASE resident' # resident
  <2>1. resident = None /\ resident' = CachedDir(stored)
    BY <1>4 DEF Lookup, Denied, OpenDir
  <2>2. CopyOK(resident') /\ resident'.dirty = {}
    BY <1>1, <2>1, CachedDirFacts DEF TypeOK
  <2>3. CopiesOK' /\ OneWriter' /\ SavedOK' /\ Rest'
    BY <1>1, <1>2, <2>2 DEF CopiesOK, OneWriter, SavedOK, TypeOK, Rest
  <2>4. GateCovers'
    BY <1>1, <1>2, <2>2 DEF GateCovers, Covered, Ahead, NamesOn
  <2>5. QED
    BY <2>3, <2>4, TypeNext DEF IInv
<1>5. QED
  BY <1>3, <1>4

LEMMA EvictInv == ASSUME IInv, Evict PROVE IInv'
<1>1. TypeOK /\ CopiesOK /\ OneWriter /\ GateCovers /\ SavedOK
  BY DEF IInv
<1>2. /\ resident' = None
      /\ UNCHANGED <<handle, todo, stored, committed, seq, gate, saved, fails, doubtful>>
  BY DEF Evict
<1>3. CopiesOK' /\ OneWriter' /\ SavedOK' /\ Rest' /\ GateCovers'
  BY <1>1, <1>2 DEF CopiesOK, OneWriter, SavedOK, TypeOK, Rest, GateCovers
<1>4. QED
  BY <1>3, TypeNext DEF IInv

\* A commit, between operations or inside a flush.
LEMMA CommitInv == ASSUME IInv, CommitLocked PROVE IInv'
<1>1. TypeOK /\ CopiesOK /\ OneWriter /\ GateCovers /\ SavedOK
  BY DEF IInv
<1>2. /\ seq < MaxSeq /\ committed' = stored /\ seq' = seq + 1
      /\ UNCHANGED <<handle, todo, stored, saved>>
  BY DEF CommitLocked
<1>3. seq \in Nat /\ MaxSeq \in Nat /\ seq' \in 0 .. MaxSeq
  BY <1>1, <1>2, GateAssumption DEF TypeOK
<1>4. SavedOK'
  <2>1. ASSUME saved # None PROVE saved.seq <= seq /\ saved.seq \in Nat /\ saved.gate.capacity >= MinCapacity
    BY <1>1, <2>1 DEF SavedOK, TypeOK, Snapshots
  <2>2. ASSUME saved # None PROVE saved.seq <= seq' /\ saved.seq # seq'
    BY <1>2, <1>3, <2>1, <2>2
  <2>3. QED
    BY <1>2, <2>1, <2>2 DEF SavedOK
<1>5. CASE ~NeedsRebuild(gate)
  <2>1. UNCHANGED <<gate, resident, doubtful, fails>>
    BY <1>5 DEF CommitLocked
  <2>2. CopiesOK' /\ OneWriter' /\ GateCovers' /\ Rest'
    BY <1>1, <1>2, <1>3, <2>1 DEF CopiesOK, OneWriter, GateCovers, TypeOK, Rest
  <2>3. QED
    BY <1>4, <2>2, TypeNext DEF IInv
<1>6. CASE NeedsRebuild(gate)
  <2>1. PICK w \in Walks(resident, stored) :
           /\ gate' = BuildGate(w.seen) /\ resident' = w.cached
           /\ doubtful' = (stored \cup HeldNames) \ w.seen /\ fails' = w.fails
    BY <1>6 DEF CommitLocked
  <2>2. /\ w.seen \in SUBSET Names /\ w.fails \in 0 .. MaxFails
        /\ w.cached = None \/ /\ CopyOK(w.cached) /\ w.cached.names = w.seen
                              /\ w.cached = resident \/ w.cached.dirty = {}
    BY <1>1, WalkFacts DEF CopiesOK, TypeOK
  <2>3. CopiesOK' /\ OneWriter'
    BY <1>1, <1>2, <2>1, <2>2 DEF CopiesOK, OneWriter
  <2>4. HeldNames \subseteq Names
    <3>1. CASE handle = None
      BY <3>1 DEF HeldNames
    <3>2. CASE handle # None
      <4>1. CopyOK(handle)
        BY <1>1, <3>2 DEF CopiesOK
      <4>2. QED
        BY <3>2, <4>1, CopyShape DEF CopyOK, HeldNames
    <3>3. QED
      BY <3>1, <3>2
  <2>5. /\ gate' \in GateRec /\ gate'.capacity >= MinCapacity
        /\ \A m \in w.seen : GateTest(gate', m)
    BY <2>1, <2>2, BuildGateFacts
  <2>6. Rest'
    BY <1>1, <1>2, <1>3, <2>1, <2>2, <2>4, <2>5 DEF TypeOK, Rest
  <2>7. Covered(stored, doubtful', gate') /\ Covered(HeldNames, doubtful', gate')
    BY <2>1, <2>5 DEF Covered
  <2>8. resident' # None => Covered(Ahead(resident'), doubtful', gate')
    BY <2>1, <2>2, <2>5 DEF Covered, Ahead
  <2>9. handle # None => HeldNames = handle.names
    BY DEF HeldNames
  <2>10. GateCovers'
    BY <1>2, <2>7, <2>8, <2>9 DEF GateCovers
  <2>11. QED
    BY <1>4, <2>3, <2>6, <2>10, TypeNext DEF IInv
<1>7. QED
  BY <1>5, <1>6

LEMMA SnapshotInv == ASSUME IInv, SnapshotGate PROVE IInv'
<1>1. TypeOK /\ CopiesOK /\ OneWriter /\ GateCovers /\ SavedOK
  BY DEF IInv
<1>2. /\ stored = committed /\ saved' = [seq |-> seq, gate |-> gate, doubtful |-> doubtful]
      /\ UNCHANGED <<resident, handle, todo, stored, committed, seq, gate, fails, doubtful>>
  BY DEF SnapshotGate
<1>3. saved' \in Snapshots /\ saved'.seq = seq /\ saved'.gate = gate /\ saved'.doubtful = doubtful
  BY <1>1, <1>2 DEF TypeOK, Snapshots
<1>4. SavedOK'
  <2>1. seq <= seq /\ gate.capacity >= MinCapacity
    BY <1>1 DEF TypeOK
  <2>2. \A n \in stored \ doubtful : GateTest(gate, n)
    BY <1>1 DEF GateCovers, Covered
  <2>3. QED
    BY <1>2, <1>3, <2>1, <2>2 DEF SavedOK
<1>5. CopiesOK' /\ OneWriter' /\ GateCovers' /\ Rest'
  BY <1>1, <1>2, <1>3 DEF CopiesOK, OneWriter, GateCovers, TypeOK, Rest
<1>6. QED
  BY <1>4, <1>5, TypeNext DEF IInv

LEMMA MountInv == ASSUME IInv, Mount PROVE IInv'
<1>1. TypeOK /\ SavedOK
  BY DEF IInv
<1>2. /\ stored' = committed /\ handle' = None /\ todo' = {}
      /\ UNCHANGED <<committed, seq, saved>>
  BY DEF Mount
<1>3. committed \in SUBSET Names /\ SavedOK' /\ OneWriter'
  BY <1>1, <1>2 DEF TypeOK, SavedOK, OneWriter
<1>4. CASE ValidSnapshot(saved)
  <2>1. gate' = saved.gate /\ resident' = None /\ doubtful' = saved.doubtful /\ fails' = fails
    BY <1>4 DEF Mount
  <2>2. saved # None /\ saved.seq = seq
    BY <1>4 DEF ValidSnapshot
  <2>3. saved.gate \in GateRec /\ saved.doubtful \subseteq Names
    BY <1>1, <2>2 DEF TypeOK, Snapshots
  <2>4. /\ gate'.capacity >= MinCapacity
        /\ \A n \in committed \ doubtful' : GateTest(gate', n)
    BY <1>1, <2>1, <2>2 DEF SavedOK
  <2>5. CopiesOK' /\ Rest'
    BY <1>1, <1>2, <2>1, <2>3, <2>4 DEF TypeOK, Rest, CopiesOK
  <2>6. GateCovers'
    BY <1>2, <2>1, <2>4 DEF GateCovers, Covered
  <2>7. QED
    BY <1>3, <2>5, <2>6, TypeNext DEF IInv
<1>5. CASE ~ValidSnapshot(saved)
  <2>1. PICK w \in Walks(None, committed) :
           /\ gate' = BuildGate(w.seen) /\ resident' = w.cached
           /\ doubtful' = committed \ w.seen /\ fails' = w.fails
    BY <1>5 DEF Mount
  <2>2. /\ w.seen \in SUBSET Names /\ w.fails \in 0 .. MaxFails
        /\ w.cached = None \/ (CopyOK(w.cached) /\ w.cached.names = w.seen)
    BY <1>1, <1>3, WalkFacts DEF TypeOK
  <2>3. /\ gate' \in GateRec /\ gate'.capacity >= MinCapacity
        /\ \A m \in w.seen : GateTest(gate', m)
    BY <2>1, <2>2, BuildGateFacts
  <2>4. CopiesOK' /\ Rest'
    BY <1>1, <1>2, <1>3, <2>1, <2>2, <2>3 DEF TypeOK, Rest, CopiesOK
  <2>5. Covered(stored', doubtful', gate')
    BY <1>2, <2>1, <2>3 DEF Covered
  <2>6. resident' # None => Covered(Ahead(resident'), doubtful', gate')
    BY <2>1, <2>2, <2>3 DEF Covered, Ahead
  <2>7. GateCovers'
    BY <1>2, <2>5, <2>6 DEF GateCovers
  <2>8. QED
    BY <1>3, <2>4, <2>7, TypeNext DEF IInv
<1>6. QED
  BY <1>4, <1>5

LEMMA NextInv == IInv /\ [Next]_vars => IInv'
<1> SUFFICES ASSUME IInv, [Next]_vars PROVE IInv'
  OBVIOUS
<1>1. ASSUME NEW n \in Names, Create(n) \/ Unlink(n) \/ Lookup(n) PROVE IInv'
  BY <1>1, CreateInv, UnlinkInv, LookupInv
<1>2. ASSUME NEW p \in Pages, WritePage(p) PROVE IInv'
  BY <1>2, WriteInv
<1>3. CASE Commit \/ CommitInside
  BY <1>3, CommitInv DEF Commit, CommitInside
<1>4. CASE UNCHANGED vars
  BY <1>4 DEF vars, IInv, TypeOK, Copies, CopiesOK, OneWriter, GateCovers, SavedOK
<1>5. QED
  BY <1>1, <1>2, <1>3, <1>4, EndInv, FailInv, EvictInv, SnapshotInv, MountInv DEF Next

----------------------------------------------------------------------------
(* The theorems. *)

\* What IndexSound says of one copy.
LEMMA SoundCopy ==
  ASSUME NEW d, NEW S, DirOK(d, S)
  PROVE  /\ \A i \in DOMAIN d : CountsOK(d[i]) /\ FilterCoversNames(d[i])
         /\ NamedOnce(d) /\ NamesOf(d) = S
<1>1. \A i \in DOMAIN d : SegOK(d[i])
  BY DEF DirOK
<1>2. \A i \in DOMAIN d : CountsOK(d[i]) /\ FilterCoversNames(d[i])
  BY <1>1 DEF SegOK
<1>3. ASSUME NEW i \in DOMAIN d, NEW h \in DOMAIN d[i].index, NEW c, c = d[i].index[h]
      PROVE  /\ c # <<>> /\ IsInjective([k \in DOMAIN c |-> c[k].name])
             /\ \A e \in ToSet(c) : NameHash[e.name] = h /\ e = Entry(e.name)
  <2>1. ChainOK(c, h)
    BY <1>1, <1>3 DEF SegOK, IndexOK
  <2>2. c # <<>>
    BY <2>1 DEF ChainOK
  <2>3. IsInjective([k \in DOMAIN c |-> c[k].name])
    BY <2>1 DEF ChainOK, IsInjective
  <2>4. \A e \in ToSet(c) : NameHash[e.name] = h /\ e = Entry(e.name)
    BY <2>1 DEF ChainOK, ToSet
  <2>5. QED
    BY <2>2, <2>3, <2>4
<1>4. \A i, j \in DOMAIN d : i # j => NamesIn(d[i]) \cap NamesIn(d[j]) = {}
  BY DEF DirOK
<1>5. NamedOnce(d)
  BY <1>3, <1>4 DEF NamedOnce
<1>6. NamesOf(d) = S
  BY DEF DirOK
<1>7. QED
  BY <1>2, <1>5, <1>6

\* The invariant's parts say what IndexSound says of the copies in memory.
LEMMA SoundFacts == IInv => IndexSound
<1> SUFFICES ASSUME IInv PROVE IndexSound
  OBVIOUS
<1>1. TypeOK /\ CopiesOK
  BY DEF IInv
<1>2. ASSUME NEW h \in Copies PROVE DirOK(h.dir, h.names)
  BY <1>1, <1>2 DEF Copies, CopiesOK, CopyOK
<1>3. SegmentsSound /\ IndexNamesOnce /\ IndexMirrorsPages
  BY <1>2, SoundCopy DEF SegmentsSound, IndexNamesOnce, IndexMirrorsPages
<1>4. QED
  BY <1>1, <1>3 DEF IndexSound

LEMMA AnswerFacts == IInv => AnswersExact
<1> SUFFICES ASSUME IInv PROVE AnswersExact
  OBVIOUS
<1>1. GateComplete
  BY DEF IInv, GateCovers, Covered, GateComplete
<1>2. ~Stale => OpenDir.names = Current
  <2>1. CASE resident = None
    BY <2>1, OpenDirFacts DEF Current
  <2>2. CASE resident # None
    BY <2>2 DEF OpenDir, Current, Stale
  <2>3. QED
    BY <2>1, <2>2
<1>3. ASSUME NEW n \in Names \ doubtful
      PROVE  LookupResult(n) = IF n \in OpenDir.names THEN InodeOf[n] ELSE None
  <2>1. CASE Denied(n)
    <3>1. resident = None /\ ~GateTest(gate, n)
      BY <2>1 DEF Denied
    <3>2. OpenDir.names = stored
      BY <3>1, OpenDirFacts
    <3>3. n \notin stored
      BY <1>1, <3>1 DEF GateComplete
    <3>4. QED
      BY <2>1, <3>2, <3>3 DEF LookupResult
  <2>2. CASE ~Denied(n)
    <3>1. LookupResult(n) = Find(OpenDir.dir, n)
      BY <2>2 DEF LookupResult
    <3>2. DirOK(OpenDir.dir, OpenDir.names)
      BY OpenDirFacts DEF CopyOK
    <3>3. QED
      BY <3>1, <3>2, FindFacts
  <2>3. QED
    BY <2>1, <2>2
<1>4. QED
  BY <1>1, <1>2, <1>3 DEF AnswersExact, LookupExact

\* The index of a cached directory stays sound: its counters, filters, hash chains
\* and pages agree after any additions, removals, rebuilds, evictions, failed
\* flushes and mounts (segment add and remove, push_unique, load_dir).
THEOREM IndexStaysSound == Spec => []IndexSound
<1>1. Spec => []IInv
  BY InitInv, NextInv, PTL DEF Spec
<1>2. QED
  BY <1>1, SoundFacts, PTL

\* Every lookup has the right answer and the gate wrongly denies no name, across
\* tombstones, rebuilds between operations and inside a flush, restored snapshots,
\* crashes and flushes that fail half way (Lookup, flushDir, bsWrite, SnapshotGate,
\* installGate).  It does not hold for a name whose removal is not stored or that a
\* walk missed, and while a copy loaded inside a flush is stale.
THEOREM LookupsAreExact == Spec => []AnswersExact
<1>1. Spec => []IInv
  BY InitInv, NextInv, PTL DEF Spec
<1>2. QED
  BY <1>1, AnswerFacts, PTL
=============================================================================
