------------------------- MODULE FuseSessionProofs -------------------------
(***************************************************************************)
(* What TLAPS proves of the FUSE session, for any names, inodes and        *)
(* handles, and whatever requests fail half way: pins and handles agree, a *)
(* file is reclaimed exactly when nothing refers to it (unless a failed    *)
(* request has torn it), and a paginated scan is exact.                    *)
(*                                                                         *)
(* The directory is a sequence because a scan depends on its order; what   *)
(* links and pins depend on is the set of its entries.                     *)
(***************************************************************************)
EXTENDS FuseSession, FiniteSetTheorems, TLAPS

Entries(d) == {d[k] : k \in DOMAIN d}

UniqueNames(d) == \A j, k \in DOMAIN d : d[j].name = d[k].name => j = k

\* The names an inode has among the entries E.
NamesIn(E, id) == {n \in Names : [name |-> n, id |-> id] \in E}

\* What the names, the inode and the pins of one id owe each other.  A directory
\* that a rename replaced keeps one of its two links and is not reclaimed.
Agree(N, node, isFree, pins) ==
    /\ isFree => N = {} /\ pins = 0 /\ node.kind = "none" /\ node.nlink = 0
    /\ node.kind = "none" => isFree
    /\ node.kind = "file" => node.nlink = Cardinality(N) /\ (node.nlink > 0 \/ pins > 0)
    /\ node.kind = "dir" =>
          /\ pins = 0 /\ node.nlink \in {1, 2}
          /\ N # {} => node.nlink = 2
          /\ \A m, n \in N : m = n

\* A failed create, link or rename breaks this for the inodes it tears, and for
\* no other.
LinksAgree ==
    /\ UniqueNames(dir)
    /\ \A id \in Ids \ torn : Agree(NamesIn(Entries(dir), id), ino[id], id \in free, opens[id])

HandlesGiven == \A fh \in Fhs : handles[fh] # None => fh < nextFh

RowsOf(rows) == {rows[i] : i \in DOMAIN rows}

\* Where a reader stands in its frozen listing.
ScanAt(rows, s) ==
    /\ \A i, j \in DOMAIN rows : rows[i] = rows[j] => i = j
    /\ s.cookie \in 0 .. Len(rows)
    /\ s.got = {rows[i] : i \in 1 .. s.cookie}
    /\ s.again = {}
    /\ s.stayed \cup {".", ".."} \subseteq RowsOf(rows)
    /\ s.done => s.cookie = Len(rows)

ScansSound ==
    \A fh \in Fhs : scans[fh] # None =>
        dirHandles[fh] # None /\ ScanAt(dirHandles[fh], scans[fh])

IInv == TypeOK /\ PinsExact /\ LinksAgree /\ HandlesGiven /\ ScansSound

----------------------------------------------------------------------------
(* Directories as sequences of entries. *)

\* An entry is found at its place.
LEMMA PlaceFacts ==
  ASSUME NEW d \in Seq(Entry), UniqueNames(d), NEW k \in DOMAIN d
  PROVE  Place(d, d[k].name) = k
BY DEF Place, UniqueNames

\* Taking out the k-th element.
LEMMA RemoveFacts ==
  ASSUME NEW S, NEW d \in Seq(S), NEW k \in DOMAIN d
  PROVE  /\ RemoveAt(d, k) \in Seq(S)
         /\ Len(RemoveAt(d, k)) = Len(d) - 1
         /\ \A j \in 1 .. Len(d) - 1 : RemoveAt(d, k)[j] = IF j < k THEN d[j] ELSE d[j + 1]
<1> DEFINE u == SubSeq(d, 1, k - 1)
           v == SubSeq(d, k + 1, Len(d))
<1>1. k \in 1 .. Len(d) /\ Len(d) \in Nat
  OBVIOUS
<1>2. u \in Seq(S) /\ Len(u) = k - 1 /\ \A j \in 1 .. k - 1 : u[j] = d[j]
  BY <1>1
<1>3. v \in Seq(S) /\ Len(v) = Len(d) - k /\ \A j \in 1 .. Len(d) - k : v[j] = d[k + j]
  BY <1>1
<1>4. RemoveAt(d, k) = u \o v
  BY DEF RemoveAt
<1> HIDE DEF u, v
<1>5. /\ u \o v \in Seq(S)
      /\ Len(u \o v) = Len(d) - 1
      /\ \A j \in 1 .. Len(d) - 1 : (u \o v)[j] = IF j < k THEN d[j] ELSE d[j + 1]
  BY <1>1, <1>2, <1>3
<1>6. QED
  BY <1>4, <1>5

LEMMA WithoutFacts ==
  ASSUME NEW d \in Seq(Entry), UniqueNames(d), NEW n
  PROVE  /\ Without(d, n) \in Seq(Entry)
         /\ UniqueNames(Without(d, n))
         /\ Entries(Without(d, n)) = {e \in Entries(d) : e.name # n}
<1>1. CASE ~\E k \in DOMAIN d : d[k].name = n
  BY <1>1 DEF Without, Entries
<1>2. ASSUME NEW k \in DOMAIN d, d[k].name = n
      PROVE  /\ Without(d, n) \in Seq(Entry)
             /\ UniqueNames(Without(d, n))
             /\ Entries(Without(d, n)) = {e \in Entries(d) : e.name # n}
  <2> DEFINE w == RemoveAt(d, k)
  <2>1. Without(d, n) = w
    BY <1>2, PlaceFacts DEF Without
  <2>2. /\ w \in Seq(Entry) /\ Len(w) = Len(d) - 1
        /\ \A j \in 1 .. Len(d) - 1 : w[j] = IF j < k THEN d[j] ELSE d[j + 1]
    BY RemoveFacts
  <2> HIDE DEF w
  <2>3. Len(d) \in Nat /\ DOMAIN d = 1 .. Len(d) /\ DOMAIN w = 1 .. Len(d) - 1 /\ k \in 1 .. Len(d)
    BY <2>2
  <2>4. UniqueNames(w)
    <3> DEFINE at(j) == IF j < k THEN j ELSE j + 1
    <3>1. \A j \in DOMAIN w : at(j) \in DOMAIN d /\ w[j] = d[at(j)]
      BY <2>2, <2>3
    <3>2. \A i, j \in DOMAIN w : at(i) = at(j) => i = j
      BY <2>3
    <3> HIDE DEF at
    <3>3. QED
      BY <3>1, <3>2 DEF UniqueNames
  <2>5. ASSUME NEW j \in DOMAIN w PROVE w[j] \in Entries(d) /\ w[j].name # n
    <3>1. PICK i \in DOMAIN d : i # k /\ w[j] = d[i]
      <4>1. CASE j < k
        BY <2>2, <2>3, <4>1
      <4>2. CASE ~(j < k)
        <5>1. j + 1 \in DOMAIN d /\ j + 1 # k /\ w[j] = d[j + 1]
          BY <2>2, <2>3, <4>2
        <5>2. QED
          BY <5>1
      <4>3. QED
        BY <4>1, <4>2
    <3>2. QED
      BY <1>2, <3>1 DEF Entries, UniqueNames
  <2>6. ASSUME NEW j \in DOMAIN d, d[j].name # n PROVE \E i \in DOMAIN w : w[i] = d[j]
    <3>1. CASE j < k
      BY <2>2, <2>3, <3>1
    <3>2. CASE j > k
      <4>1. j - 1 \in DOMAIN w /\ w[j - 1] = d[j]
        BY <2>2, <2>3, <3>2
      <4>2. QED
        BY <4>1
    <3>3. QED
      BY <1>2, <2>3, <2>6, <3>1, <3>2
  <2>7. QED
    BY <2>1, <2>2, <2>4, <2>5, <2>6 DEF Entries
<1>3. QED
  BY <1>1, <1>2

LEMMA AppendFacts ==
  ASSUME NEW d \in Seq(Entry), UniqueNames(d), NEW e \in Entry,
         \A f \in Entries(d) : f.name # e.name
  PROVE  /\ Append(d, e) \in Seq(Entry)
         /\ UniqueNames(Append(d, e))
         /\ Entries(Append(d, e)) = Entries(d) \cup {e}
<1>1. /\ Len(d) \in Nat /\ DOMAIN d = 1 .. Len(d)
      /\ Append(d, e) \in Seq(Entry) /\ DOMAIN Append(d, e) = 1 .. Len(d) + 1
      /\ Append(d, e)[Len(d) + 1] = e
      /\ \A k \in 1 .. Len(d) : Append(d, e)[k] = d[k]
  OBVIOUS
<1>2. UniqueNames(Append(d, e))
  BY <1>1 DEF UniqueNames, Entries
<1>3. Entries(Append(d, e)) = Entries(d) \cup {e}
  BY <1>1 DEF Entries
<1>4. QED
  BY <1>1, <1>2, <1>3

\* The directory in terms of the set of its entries.
LEMMA DirFacts ==
  ASSUME dir \in Seq(Entry), UniqueNames(dir)
  PROVE  /\ Entries(dir) \subseteq Entry
         /\ Listed = {e.name : e \in Entries(dir)}
         /\ \A e \in Entries(dir) : Target(e.name) = e.id
         /\ \A e, f \in Entries(dir) : e.name = f.name => e = f
         /\ \A n \in Listed : n \in Names /\ Target(n) \in Ids
                              /\ [name |-> n, id |-> Target(n)] \in Entries(dir)
         /\ \A id \in Ids : id \in Known <=> NamesIn(Entries(dir), id) # {} \/ opens[id] > 0
<1>1. Entries(dir) \subseteq Entry /\ Listed = {e.name : e \in Entries(dir)}
  BY DEF Entries, Listed
<1>2. \A e \in Entries(dir) : Target(e.name) = e.id
  BY PlaceFacts DEF Target, Entries
<1>3. \A e, f \in Entries(dir) : e.name = f.name => e = f
  BY DEF Entries, UniqueNames
<1>4. \A e \in Entry : e.name \in Names /\ e.id \in Ids /\ e = [name |-> e.name, id |-> e.id]
  BY DEF Entry
<1>5. \A n \in Listed : n \in Names /\ Target(n) \in Ids
                        /\ [name |-> n, id |-> Target(n)] \in Entries(dir)
  BY <1>1, <1>2, <1>4
<1>6. ASSUME NEW id \in Ids
      PROVE  (\E k \in DOMAIN dir : dir[k].id = id) <=> NamesIn(Entries(dir), id) # {}
  <2>1. ASSUME NEW k \in DOMAIN dir, dir[k].id = id PROVE NamesIn(Entries(dir), id) # {}
    <3>1. dir[k] \in Entries(dir) /\ dir[k] \in Entry
      BY DEF Entries
    <3>2. dir[k].name \in NamesIn(Entries(dir), id)
      BY <1>4, <2>1, <3>1 DEF NamesIn
    <3>3. QED
      BY <3>2
  <2>2. ASSUME NEW n \in NamesIn(Entries(dir), id) PROVE \E k \in DOMAIN dir : dir[k].id = id
    <3>1. PICK k \in DOMAIN dir : dir[k] = [name |-> n, id |-> id]
      BY DEF NamesIn, Entries
    <3>2. QED
      BY <3>1
  <2>3. QED
    BY <2>1, <2>2
<1>7. \A id \in Ids : id \in Known <=> NamesIn(Entries(dir), id) # {} \/ opens[id] > 0
  BY <1>6 DEF Known
<1>8. QED
  BY <1>1, <1>2, <1>3, <1>5, <1>7

----------------------------------------------------------------------------
(* Counting names and pins. *)

LEMMA NamesFinite ==
  ASSUME NEW E, NEW id
  PROVE  /\ IsFiniteSet(NamesIn(E, id)) /\ Cardinality(NamesIn(E, id)) \in Nat
         /\ Cardinality(NamesIn(E, id)) <= Cardinality(Names)
         /\ IsFiniteSet(Names) /\ Cardinality(Names) \in Nat
<1>1. NamesIn(E, id) \subseteq Names
  BY DEF NamesIn
<1>2. QED
  BY <1>1, SessionAssumption, FS_Subset, FS_CardinalityType

\* Cardinality, one element at a time.
LEMMA CountFacts ==
  ASSUME NEW N, IsFiniteSet(N), NEW n
  PROVE  /\ Cardinality(N) \in Nat
         /\ Cardinality(N) = 0 <=> N = {}
         /\ n \notin N => Cardinality(N \cup {n}) = Cardinality(N) + 1
         /\ n \in N => Cardinality(N \ {n}) = Cardinality(N) - 1
         /\ Cardinality({n}) = 1 /\ Cardinality({}) = 0
         /\ Cardinality(N) = 1 /\ n \in N => N = {n}
<1>1. Cardinality(N) \in Nat /\ (Cardinality(N) = 0 <=> N = {}) /\ Cardinality({}) = 0
  BY FS_CardinalityType, FS_EmptySet
<1>2. n \notin N => Cardinality(N \cup {n}) = Cardinality(N) + 1
  BY FS_AddElement
<1>3. IsFiniteSet(N \ {n}) /\ (n \in N => Cardinality(N \ {n}) = Cardinality(N) - 1)
  BY FS_RemoveElement
<1>4. Cardinality({n}) = 1
  BY FS_Singleton
<1>5. Cardinality(N) = 1 /\ n \in N => N = {n}
  <2> SUFFICES ASSUME Cardinality(N) = 1, n \in N PROVE N = {n}
    OBVIOUS
  <2>1. Cardinality(N \ {n}) = 0
    BY <1>3
  <2>2. N \ {n} = {}
    BY <1>3, <2>1, FS_EmptySet
  <2>3. QED
    BY <2>2
<1>6. QED
  BY <1>1, <1>2, <1>3, <1>4, <1>5

Pinning(H, id) == {fh \in Fhs : H[fh] = id}

LEMMA PinningFinite ==
  ASSUME NEW H, NEW id
  PROVE  /\ IsFiniteSet(Pinning(H, id)) /\ Cardinality(Pinning(H, id)) \in 0 .. MaxFh
<1>1. IsFiniteSet(Fhs) /\ Cardinality(Fhs) = MaxFh
  <2>1. MaxFh \in Nat /\ 1 \in Int /\ MaxFh \in Int
    BY SessionAssumption
  <2>2. QED
    BY <2>1, FS_Interval DEF Fhs
<1>2. Pinning(H, id) \subseteq Fhs
  BY DEF Pinning
<1>3. QED
  BY <1>1, <1>2, SessionAssumption, FS_Subset, FS_CardinalityType

\* A handle table entry that changes moves one unit of the counts.
LEMMA PinningMoves ==
  ASSUME NEW H, NEW G, NEW g \in Fhs, NEW id, \A f \in Fhs \ {g} : G[f] = H[f]
  PROVE  /\ H[g] # id /\ G[g] = id => Cardinality(Pinning(G, id)) = Cardinality(Pinning(H, id)) + 1
         /\ H[g] = id /\ G[g] # id => Cardinality(Pinning(G, id)) = Cardinality(Pinning(H, id)) - 1
         /\ H[g] # id /\ G[g] # id => Cardinality(Pinning(G, id)) = Cardinality(Pinning(H, id))
<1> DEFINE A == Pinning(H, id)
           B == Pinning(G, id)
           O == A \ {g}
<1>1. B \ {g} = O /\ (g \in A <=> H[g] = id) /\ (g \in B <=> G[g] = id)
  BY DEF Pinning
<1>2. IsFiniteSet(A) /\ IsFiniteSet(B) /\ Cardinality(A) \in Nat /\ Cardinality(B) \in Nat
  BY PinningFinite
<1>3. ASSUME NEW S, IsFiniteSet(S), Cardinality(S) \in Nat
      PROVE  Cardinality(S \ {g}) = IF g \in S THEN Cardinality(S) - 1 ELSE Cardinality(S)
  BY <1>3, FS_RemoveElement
<1> HIDE DEF A, B, O
<1>4. Cardinality(O) = IF H[g] = id THEN Cardinality(A) - 1 ELSE Cardinality(A)
  BY <1>1, <1>2, <1>3 DEF O
<1>5. Cardinality(O) = IF G[g] = id THEN Cardinality(B) - 1 ELSE Cardinality(B)
  BY <1>1, <1>2, <1>3
<1>6. /\ H[g] # id /\ G[g] = id => Cardinality(B) = Cardinality(A) + 1
      /\ H[g] = id /\ G[g] # id => Cardinality(B) = Cardinality(A) - 1
      /\ H[g] # id /\ G[g] # id => Cardinality(B) = Cardinality(A)
  BY <1>2, <1>4, <1>5
<1>7. QED
  BY <1>6 DEF A, B

----------------------------------------------------------------------------
(* Names, links and pins. *)

\* What a step does to the inodes it does not concern.
Others(S) == \A j \in Ids \ S : ino'[j] = ino[j] /\ (j \in free' <=> j \in free)

LEMMA InodeFacts ==
  ASSUME NEW node \in Inode
  PROVE  /\ node.kind \in {"none", "file", "dir"} /\ node.nlink \in Nat
         /\ node.gen \in 0 .. MaxGen /\ node.size \in {0, 1}
BY DEF Inode

LEMMA BlankFacts ==
  ASSUME NEW g \in 0 .. MaxGen
  PROVE  /\ Blank(g) \in Inode
         /\ Blank(g).kind = "none" /\ Blank(g).nlink = 0 /\ Blank(g).gen = g
BY DEF Blank, Inode

\* Reclaiming an inode: it is blank, of the next generation, and free.
LEMMA ReclaimFacts ==
  ASSUME IInv, NEW id \in Ids, Reclaim(id)
  PROVE  /\ ino' \in [Ids -> Inode] /\ free' \subseteq Ids /\ Others({id})
         /\ Agree({}, ino'[id], id \in free', 0)
<1>1. ino \in [Ids -> Inode] /\ free \subseteq Ids /\ ino[id].gen \in 0 .. MaxGen
  BY InodeFacts DEF IInv, TypeOK
<1>2. /\ ino[id].gen + 1 \in 0 .. MaxGen /\ free' = free \cup {id}
      /\ ino' = [ino EXCEPT ![id] = Blank(ino[id].gen + 1)]
  BY <1>1, SessionAssumption DEF Reclaim
<1>3. ino'[id] = Blank(ino[id].gen + 1) /\ \A j \in Ids \ {id} : ino'[j] = ino[j]
  BY <1>1, <1>2
<1>4. ino'[id] \in Inode /\ ino'[id].kind = "none" /\ ino'[id].nlink = 0
  BY <1>2, <1>3, BlankFacts
<1>5. ino' \in [Ids -> Inode]
  BY <1>1, <1>2, BlankFacts
<1>6. Agree({}, ino'[id], id \in free', 0)
  BY <1>2, <1>4, FS_EmptySet DEF Agree
<1>7. QED
  BY <1>1, <1>2, <1>3, <1>5, <1>6 DEF Others

\* A change of an inode's link count.
LEMMA RelinkFacts ==
  ASSUME IInv, NEW id \in Ids, NEW l \in Nat,
         ino' = [ino EXCEPT ![id].nlink = l], free' = free
  PROVE  /\ ino' \in [Ids -> Inode] /\ free' \subseteq Ids /\ Others({id})
         /\ ino'[id].kind = ino[id].kind /\ ino'[id].nlink = l /\ ino'[id].gen = ino[id].gen
<1>1. ino \in [Ids -> Inode] /\ free \subseteq Ids /\ ino[id] \in Inode
  BY DEF IInv, TypeOK
<1>2. ino'[id] = [ino[id] EXCEPT !.nlink = l] /\ \A j \in Ids \ {id} : ino'[j] = ino[j]
  BY <1>1
<1>3. /\ ino'[id].kind = ino[id].kind /\ ino'[id].nlink = l /\ ino'[id].gen = ino[id].gen
      /\ ino'[id] \in Inode
  BY <1>1, <1>2 DEF Inode
<1>4. ino' \in [Ids -> Inode]
  <2>1. ino' = [j \in Ids |-> IF j = id THEN ino'[id] ELSE ino[j]]
    BY <1>1
  <2>2. QED
    BY <1>1, <1>3, <2>1
<1>5. QED
  BY <1>1, <1>2, <1>3, <1>4 DEF Others

\* An inode loses one of its names: it is reclaimed exactly when it was the last
\* and no handle pins it.
LEMMA DropLinkFacts ==
  ASSUME IInv, NEW id \in Ids, NEW n \in NamesIn(Entries(dir), id), DropLink(id, opens[id])
  PROVE  /\ ino' \in [Ids -> Inode] /\ free' \subseteq Ids /\ Others({id})
         /\ id \notin torn =>
               Agree(NamesIn(Entries(dir), id) \ {n}, ino'[id], id \in free', opens[id])
         /\ opens[id] > 0 => ino'[id].gen = ino[id].gen
<1> DEFINE N == NamesIn(Entries(dir), id)
           l == LinksLeft(id)
<1>1. id \notin torn => Agree(N, ino[id], id \in free, opens[id])
  BY DEF IInv, LinksAgree
<1>2. ino[id] \in Inode /\ opens[id] \in 0 .. MaxFh /\ ino[id].nlink \in Nat
      /\ ino[id].kind \in {"none", "file", "dir"}
  BY InodeFacts DEF IInv, TypeOK
<1>3. IsFiniteSet(N) /\ Cardinality(N) \in Nat
  BY NamesFinite
<1>4. /\ Cardinality(N) \in Nat
      /\ Cardinality(N) = 0 <=> N = {}
      /\ Cardinality(N \ {n}) = Cardinality(N) - 1
      /\ Cardinality({}) = 0
      /\ Cardinality(N) = 1 => N = {n}
  BY <1>3, CountFacts
<1> HIDE DEF N
<1>5. n \in N /\ N # {}
  BY DEF N
<1>6. l \in Nat /\ (ino[id].nlink > 0 => l = ino[id].nlink - 1)
  BY <1>2 DEF LinksLeft
<1>7. id \notin torn =>
         /\ ino[id].kind = "file" => ino[id].nlink = Cardinality(N)
         /\ ino[id].kind = "dir" => ino[id].nlink = 2 /\ opens[id] = 0 /\ \A m \in N : m = n
         /\ id \notin free /\ ino[id].nlink > 0 /\ ino[id].kind # "none"
  BY <1>1, <1>2, <1>4, <1>5 DEF Agree
<1> HIDE DEF l
<1>8. CASE l = 0 /\ opens[id] = 0
  <2>1. Reclaim(id)
    BY <1>8 DEF DropLink, l
  <2>2. /\ ino' \in [Ids -> Inode] /\ free' \subseteq Ids /\ Others({id})
        /\ Agree({}, ino'[id], id \in free', 0)
    BY <2>1, ReclaimFacts
  <2>3. ASSUME id \notin torn PROVE Agree(N \ {n}, ino'[id], id \in free', opens[id])
    <3>1. N \ {n} = {}
      BY <1>2, <1>4, <1>6, <1>7, <1>8, <2>3
    <3>2. QED
      BY <1>8, <2>2, <3>1 DEF Agree
  <2>4. QED
    BY <1>8, <2>2, <2>3 DEF N
<1>9. CASE ~(l = 0 /\ opens[id] = 0)
  <2>1. ino' = [ino EXCEPT ![id].nlink = l] /\ free' = free
    BY <1>9 DEF DropLink, l
  <2>2. /\ ino' \in [Ids -> Inode] /\ free' \subseteq Ids /\ Others({id})
        /\ ino'[id].kind = ino[id].kind /\ ino'[id].nlink = l
        /\ ino'[id].gen = ino[id].gen
    BY <1>6, <2>1, RelinkFacts
  <2>3. ASSUME id \notin torn PROVE Agree(N \ {n}, ino'[id], id \in free', opens[id])
    <3>1. CASE ino[id].kind = "file"
      BY <1>2, <1>4, <1>6, <1>7, <1>9, <2>1, <2>2, <2>3, <3>1 DEF Agree
    <3>2. CASE ino[id].kind = "dir"
      <4>1. N \ {n} = {}
        BY <1>7, <2>3, <3>2
      <4>2. QED
        BY <1>6, <1>7, <2>1, <2>2, <2>3, <3>2, <4>1 DEF Agree
    <3>3. QED
      BY <1>2, <1>7, <2>3, <3>1, <3>2
  <2>4. QED
    BY <2>2, <2>3 DEF N
<1>10. QED
  BY <1>8, <1>9

NamesSound ==
    /\ dir \in Seq(Entry) /\ ino \in [Ids -> Inode] /\ free \subseteq Ids
    /\ fails \in 0 .. MaxFails /\ torn \subseteq Ids
    /\ LinksAgree

\* What a step does to the inodes in disorder: T joins them.
Tears(T) == fails' \in 0 .. MaxFails /\ torn' \subseteq Ids /\ torn' = torn \cup T

LEMMA TearFacts ==
  ASSUME IInv, NEW T \in SUBSET Ids, Tear(T)
  PROVE  Tears(T)
<1>1. fails \in 0 .. MaxFails /\ torn \subseteq Ids /\ MaxFails \in Nat
  BY SessionAssumption DEF IInv, TypeOK
<1>2. QED
  BY <1>1 DEF Tear, Tears

LEMMA NoTear ==
  ASSUME IInv, UNCHANGED <<fails, torn>>
  PROVE  Tears({})
BY DEF IInv, TypeOK, Tears

LEMMA NamesInAdd ==
  ASSUME NEW E, NEW n \in Names, NEW id \in Ids, NEW j \in Ids,
         NEW F, \A m \in Names : [name |-> m, id |-> j] \in F <=>
                   [name |-> m, id |-> j] \in E \/ (m = n /\ j = id)
  PROVE  NamesIn(F, j) = IF j = id THEN NamesIn(E, j) \cup {n} ELSE NamesIn(E, j)
BY DEF NamesIn

LEMMA NamesInDel ==
  ASSUME NEW E, NEW n, NEW j \in Ids,
         NEW F, \A m \in Names : [name |-> m, id |-> j] \in F <=>
                   [name |-> m, id |-> j] \in E /\ m # n
  PROVE  NamesIn(F, j) = NamesIn(E, j) \ {n}
BY DEF NamesIn

\* A step after which every inode agrees with its names N[j] and its pins, but
\* the torn ones.
LEMMA NamesStep ==
  ASSUME NEW N, NEW T, Tears(T), dir' \in Seq(Entry), UniqueNames(dir'),
         ino' \in [Ids -> Inode], free' \subseteq Ids,
         \A j \in Ids : j \notin torn \cup T => NamesIn(Entries(dir'), j) = N[j],
         \A j \in Ids : j \notin torn \cup T => Agree(N[j], ino'[j], j \in free', opens'[j])
  PROVE  NamesSound'
<1>1. ASSUME NEW j \in Ids, j \notin torn'
      PROVE  Agree(NamesIn(Entries(dir'), j), ino'[j], j \in free', opens'[j])
  BY <1>1 DEF Agree, Tears
<1>2. LinksAgree'
  BY <1>1 DEF LinksAgree, UniqueNames, Agree, NamesIn, Entries
<1>3. QED
  BY <1>2 DEF NamesSound, Tears

LEMMA OldNames ==
  ASSUME IInv
  PROVE  /\ dir \in Seq(Entry) /\ UniqueNames(dir)
         /\ \A j \in Ids : j \notin torn =>
               Agree(NamesIn(Entries(dir), j), ino[j], j \in free, opens[j])
         /\ ino \in [Ids -> Inode] /\ free \subseteq Ids /\ opens \in [Ids -> 0 .. MaxFh]
BY DEF IInv, TypeOK, LinksAgree

\* A new inode is one without names, and no other changes.
LEMMA NewInodeFacts ==
  ASSUME IInv, NEW id \in Ids, NEW kind \in {"file", "dir"}, NewInode(id, kind)
  PROVE  /\ ino' \in [Ids -> Inode] /\ free' \subseteq Ids /\ Others({id})
         /\ ino'[id].kind = kind /\ ino'[id].nlink = (IF kind = "dir" THEN 2 ELSE 1)
         /\ id \in free /\ id \notin free'
         /\ id \notin torn => NamesIn(Entries(dir), id) = {} /\ opens[id] = 0
<1> DEFINE l == IF kind = "dir" THEN 2 ELSE 1
           node == [kind |-> kind, nlink |-> l, gen |-> ino[id].gen, size |-> 0]
<1>1. /\ id \in free /\ free' = free \ {id} /\ ino' = [ino EXCEPT ![id] = node]
      /\ ino \in [Ids -> Inode] /\ free \subseteq Ids
  BY OldNames DEF NewInode
<1>2. ino[id].gen \in 0 .. MaxGen
  BY <1>1, InodeFacts
<1>3. node \in Inode /\ node.kind = kind /\ node.nlink = l
  BY <1>2 DEF Inode
<1> HIDE DEF node, l
<1>4. ino'[id] = node /\ (\A j \in Ids \ {id} : ino'[j] = ino[j]) /\ ino' \in [Ids -> Inode]
  BY <1>1, <1>3
<1>5. id \notin torn => NamesIn(Entries(dir), id) = {} /\ opens[id] = 0
  BY <1>1, OldNames DEF Agree
<1>6. Others({id})
  BY <1>1, <1>4 DEF Others
<1>7. QED
  BY <1>1, <1>3, <1>4, <1>5, <1>6 DEF l

\* A new file or directory takes a free inode; create pins it at once.
LEMMA NewNodeNames ==
  ASSUME IInv, NEW n \in Names, NEW id \in Ids, NEW kind \in {"file", "dir"},
         NewNode(n, id, kind),
         id \in torn \/ opens'[id] = 0 \/ (kind = "file" /\ opens'[id] = 1),
         \A j \in Ids \ {id} : opens'[j] = opens[j]
  PROVE  NamesSound'
<1> DEFINE E == Entries(dir)
           N == [j \in Ids |-> IF j = id THEN {n} ELSE NamesIn(E, j)]
<1>1. /\ dir' = Append(dir, [name |-> n, id |-> id]) /\ n \notin Listed
      /\ NewInode(id, kind) /\ Tears({})
  BY NoTear DEF NewNode, faults
<1>2. [name |-> n, id |-> id] \in Entry /\ \A f \in E : f.name # n
  BY <1>1, OldNames, DirFacts DEF Entry
<1>3. /\ dir' \in Seq(Entry) /\ UniqueNames(dir')
      /\ Entries(dir') = E \cup {[name |-> n, id |-> id]}
  BY <1>1, <1>2, OldNames, AppendFacts
<1>4. /\ ino' \in [Ids -> Inode] /\ free' \subseteq Ids /\ Others({id})
      /\ ino'[id].kind = kind /\ ino'[id].nlink = (IF kind = "dir" THEN 2 ELSE 1)
      /\ id \notin free'
      /\ id \notin torn => NamesIn(E, id) = {}
  BY <1>1, NewInodeFacts
<1>5. ASSUME NEW j \in Ids, j \notin torn PROVE NamesIn(Entries(dir'), j) = N[j]
  <2>1. \A m \in Names : [name |-> m, id |-> j] \in Entries(dir') <=>
                   [name |-> m, id |-> j] \in E \/ (m = n /\ j = id)
    BY <1>3
  <2>2. NamesIn(Entries(dir'), j) = IF j = id THEN NamesIn(E, j) \cup {n} ELSE NamesIn(E, j)
    BY ONLY <2>1, NamesInAdd, n \in Names, id \in Ids, j \in Ids
  <2>3. QED
    BY <1>4, <1>5, <2>2
<1>6. Cardinality({n}) = 1
  BY FS_Singleton
<1>7. id \notin torn => Agree({n}, ino'[id], id \in free', opens'[id])
  BY <1>4, <1>6 DEF Agree
<1>8. ASSUME NEW j \in Ids, j \notin torn PROVE Agree(N[j], ino'[j], j \in free', opens'[j])
  <2>1. CASE j = id
    BY <1>7, <1>8, <2>1 DEF Agree
  <2>2. CASE j # id
    <3>1. Agree(NamesIn(E, j), ino[j], j \in free, opens[j])
      BY <1>8, OldNames
    <3>2. N[j] = NamesIn(E, j) /\ ino'[j] = ino[j] /\ opens'[j] = opens[j]
          /\ (j \in free' <=> j \in free)
      BY <1>4, <2>2 DEF Others
    <3>3. QED
      BY <3>1, <3>2 DEF Agree
  <2>3. QED
    BY <2>1, <2>2
<1> HIDE DEF N
<1>9. QED
  BY <1>1, <1>3, <1>4, <1>5, <1>8, NamesStep

\* A step that changes one inode, which is torn, and no name and no pin.
LEMMA TornNames ==
  ASSUME IInv, NEW id \in Ids, Tears({id}), dir' = dir, opens' = opens,
         ino' \in [Ids -> Inode], free' \subseteq Ids, Others({id})
  PROVE  NamesSound'
<1> DEFINE N == [j \in Ids |-> NamesIn(Entries(dir), j)]
<1>1. ASSUME NEW j \in Ids, j \notin torn \cup {id}
      PROVE  Agree(N[j], ino'[j], j \in free', opens'[j])
  <2>1. Agree(NamesIn(Entries(dir), j), ino[j], j \in free, opens[j])
    BY <1>1, OldNames
  <2>2. ino'[j] = ino[j] /\ (j \in free' <=> j \in free) /\ N[j] = NamesIn(Entries(dir), j)
    BY <1>1 DEF Others
  <2>3. QED
    BY <2>1, <2>2 DEF Agree
<1>2. /\ dir' \in Seq(Entry) /\ UniqueNames(dir')
      /\ \A j \in Ids : NamesIn(Entries(dir'), j) = N[j]
  BY OldNames
<1> HIDE DEF N
<1>3. QED
  BY <1>1, <1>2, NamesStep

LEMMA NewNodeFailsNames ==
  ASSUME IInv, NEW n \in Names, NEW id \in Ids, NEW kind \in {"file", "dir"},
         NewNodeFails(n, id, kind)
  PROVE  NamesSound'
<1>1. NewInode(id, kind) /\ Tear({id}) /\ dir' = dir /\ opens' = opens
  BY DEF NewNodeFails
<1>2. Tears({id})
  BY <1>1, TearFacts
<1>3. QED
  BY <1>1, <1>2, NewInodeFacts, TornNames

LEMMA LinkNames ==
  ASSUME IInv, NEW id \in Ids, NEW n \in Names, Link(id, n)
  PROVE  NamesSound'
<1> DEFINE E == Entries(dir)
           N == [j \in Ids |-> IF j = id THEN NamesIn(E, id) \cup {n} ELSE NamesIn(E, j)]
<1>1. /\ free' = free /\ opens' = opens
      /\ n \notin Listed /\ ino[id].kind = "file" /\ ino[id].nlink > 0
      /\ ino' = [ino EXCEPT ![id].nlink = ino[id].nlink + 1]
      /\ \/ dir' = Append(dir, [name |-> n, id |-> id]) /\ UNCHANGED <<fails, torn>>
         \/ dir' = dir /\ Tear({id})
  BY DEF Link, faults
<1>2. ino[id].nlink + 1 \in Nat
  BY OldNames, InodeFacts
<1>3. /\ ino' \in [Ids -> Inode] /\ free' \subseteq Ids /\ Others({id})
      /\ ino'[id].kind = "file" /\ ino'[id].nlink = ino[id].nlink + 1
  BY <1>1, <1>2, RelinkFacts
<1>4. CASE dir' = dir /\ Tear({id})
  <2>1. Tears({id})
    BY <1>4, TearFacts
  <2>2. QED
    BY <1>1, <1>3, <1>4, <2>1, TornNames
<1>5. CASE dir' = Append(dir, [name |-> n, id |-> id]) /\ UNCHANGED <<fails, torn>>
  <2>1. Tears({})
    BY <1>5, NoTear
  <2>2. [name |-> n, id |-> id] \in Entry /\ \A f \in E : f.name # n
    BY <1>1, OldNames, DirFacts DEF Entry
  <2>3. /\ dir' \in Seq(Entry) /\ UniqueNames(dir')
        /\ Entries(dir') = E \cup {[name |-> n, id |-> id]}
    BY <1>5, <2>2, OldNames, AppendFacts
  <2>4. ASSUME NEW j \in Ids PROVE NamesIn(Entries(dir'), j) = N[j]
    <3>1. \A m \in Names : [name |-> m, id |-> j] \in Entries(dir') <=>
                     [name |-> m, id |-> j] \in E \/ (m = n /\ j = id)
      BY <2>3
    <3>2. NamesIn(Entries(dir'), j) = IF j = id THEN NamesIn(E, j) \cup {n} ELSE NamesIn(E, j)
      BY <3>1, NamesInAdd
    <3>3. QED
      BY <3>2
  <2>5. IsFiniteSet(NamesIn(E, id)) /\ Cardinality(NamesIn(E, id)) \in Nat
    BY NamesFinite
  <2>6. n \notin NamesIn(E, id)
    BY <2>2 DEF NamesIn
  <2>7. Cardinality(NamesIn(E, id) \cup {n}) = Cardinality(NamesIn(E, id)) + 1
    BY <2>5, <2>6, CountFacts
  <2>8. ASSUME id \notin torn
        PROVE  Agree(NamesIn(E, id) \cup {n}, ino'[id], id \in free', opens'[id])
    <3>1. Agree(NamesIn(E, id), ino[id], id \in free, opens[id])
      BY <2>8, OldNames
    <3>2. ino[id].nlink = Cardinality(NamesIn(E, id)) /\ id \notin free
      BY <1>1, <3>1 DEF Agree
    <3>3. QED
      BY <1>1, <1>3, <2>5, <2>7, <3>2 DEF Agree
  <2>9. ASSUME NEW j \in Ids, j \notin torn PROVE Agree(N[j], ino'[j], j \in free', opens'[j])
    <3>1. CASE j = id
      BY <2>8, <2>9, <3>1 DEF Agree
    <3>2. CASE j # id
      <4>1. Agree(NamesIn(E, j), ino[j], j \in free, opens[j])
        BY <2>9, OldNames
      <4>2. N[j] = NamesIn(E, j) /\ ino'[j] = ino[j] /\ (j \in free' <=> j \in free)
        BY <1>3, <3>2 DEF Others
      <4>3. QED
        BY <1>1, <4>1, <4>2 DEF Agree
    <3>3. QED
      BY <3>1, <3>2
  <2> HIDE DEF N
  <2>10. QED
    BY <1>3, <2>1, <2>3, <2>4, <2>9, NamesStep
<1>6. QED
  BY <1>1, <1>4, <1>5

\* The directory without a name: the inode it led to has one name less.
LEMMA WithoutNames ==
  ASSUME IInv, NEW n \in Listed, dir' = Without(dir, n)
  PROVE  /\ dir' \in Seq(Entry) /\ UniqueNames(dir')
         /\ Target(n) \in Ids /\ n \in NamesIn(Entries(dir), Target(n))
         /\ \A j \in Ids : NamesIn(Entries(dir'), j) =
               IF j = Target(n) THEN NamesIn(Entries(dir), j) \ {n} ELSE NamesIn(Entries(dir), j)
<1> DEFINE E == Entries(dir)
<1>1. /\ n \in Names /\ Target(n) \in Ids /\ [name |-> n, id |-> Target(n)] \in E
      /\ \A e, f \in E : e.name = f.name => e = f
  BY OldNames, DirFacts
<1>2. /\ dir' \in Seq(Entry) /\ UniqueNames(dir')
      /\ Entries(dir') = {e \in E : e.name # n}
  BY OldNames, WithoutFacts
<1>3. n \in NamesIn(E, Target(n))
  BY <1>1 DEF NamesIn
<1>4. ASSUME NEW j \in Ids PROVE NamesIn(Entries(dir'), j) = NamesIn(E, j) \ {n}
  <2>1. \A m \in Names : [name |-> m, id |-> j] \in Entries(dir') <=>
                   [name |-> m, id |-> j] \in E /\ m # n
    BY <1>2
  <2>2. QED
    BY <2>1, NamesInDel
<1>5. ASSUME NEW j \in Ids, j # Target(n) PROVE NamesIn(E, j) \ {n} = NamesIn(E, j)
  <2>1. n \notin NamesIn(E, j)
    BY <1>1, <1>5 DEF NamesIn
  <2> HIDE DEF E
  <2>2. QED
    BY <2>1
<1> HIDE DEF E
<1>6. \A j \in Ids : NamesIn(Entries(dir'), j) =
         IF j = Target(n) THEN NamesIn(E, j) \ {n} ELSE NamesIn(E, j)
  BY <1>4, <1>5
<1>7. QED
  BY <1>1, <1>2, <1>3, <1>6 DEF E

LEMMA UnlinkNames ==
  ASSUME IInv, NEW n, Unlink(n) \/ Rmdir(n)
  PROVE  NamesSound'
<1> DEFINE id == Target(n)
           E == Entries(dir)
           N == [j \in Ids |-> IF j = id THEN NamesIn(E, j) \ {n} ELSE NamesIn(E, j)]
<1>1. n \in Listed /\ dir' = Without(dir, n) /\ opens' = opens /\ Tears({})
  BY NoTear DEF Unlink, Rmdir, faults
<1>2. /\ dir' \in Seq(Entry) /\ UniqueNames(dir')
      /\ id \in Ids /\ n \in NamesIn(E, id)
      /\ \A j \in Ids : NamesIn(Entries(dir'), j) = N[j]
  BY <1>1, WithoutNames
<1>3. /\ ino' \in [Ids -> Inode] /\ free' \subseteq Ids /\ Others({id})
      /\ id \notin torn => Agree(N[id], ino'[id], id \in free', opens'[id])
  <2>1. CASE Unlink(n)
    <3>1. DropLink(id, opens[id])
      BY <2>1 DEF Unlink
    <3>2. /\ ino' \in [Ids -> Inode] /\ free' \subseteq Ids /\ Others({id})
          /\ id \notin torn => Agree(NamesIn(E, id) \ {n}, ino'[id], id \in free', opens[id])
      BY <1>2, <3>1, DropLinkFacts
    <3>3. N[id] = NamesIn(E, id) \ {n}
      BY <1>2
    <3>4. QED
      BY <1>1, <3>2, <3>3
  <2>2. CASE Rmdir(n)
    <3>1. ino[id].kind = "dir" /\ Reclaim(id)
      BY <2>2 DEF Rmdir
    <3>2. /\ ino' \in [Ids -> Inode] /\ free' \subseteq Ids /\ Others({id})
          /\ Agree({}, ino'[id], id \in free', 0)
      BY <1>2, <3>1, ReclaimFacts
    <3>3. id \notin torn => opens[id] = 0 /\ NamesIn(E, id) \ {n} = {}
      <4>1. id \notin torn => Agree(NamesIn(E, id), ino[id], id \in free, opens[id])
        BY <1>2, OldNames
      <4>2. QED
        BY <1>2, <3>1, <4>1 DEF Agree
    <3>4. id \notin torn => N[id] = {}
      BY <1>2, <3>3
    <3>5. QED
      BY <1>1, <3>2, <3>3, <3>4
  <2>3. QED
    BY <2>1, <2>2
<1> HIDE DEF id
<1>4. ASSUME NEW j \in Ids, j \notin torn PROVE Agree(N[j], ino'[j], j \in free', opens'[j])
  <2>1. CASE j = id
    BY <1>3, <1>4, <2>1
  <2>2. CASE j # id
    <3>1. Agree(NamesIn(E, j), ino[j], j \in free, opens[j])
      BY <1>4, OldNames
    <3>2. N[j] = NamesIn(E, j) /\ ino'[j] = ino[j] /\ (j \in free' <=> j \in free)
      BY <1>3, <2>2 DEF Others
    <3>3. QED
      BY <1>1, <3>1, <3>2 DEF Agree
  <2>3. QED
    BY <2>1, <2>2
<1> HIDE DEF N
<1>5. QED
  BY <1>1, <1>2, <1>3, <1>4, NamesStep

\* A step that leaves the names alone, and kinds, link counts and free inodes.
LEMMA QuietNames ==
  ASSUME IInv, UNCHANGED <<dir, free, fails, torn>>, ino' \in [Ids -> Inode],
         \A j \in Ids : ino'[j].kind = ino[j].kind /\ ino'[j].nlink = ino[j].nlink,
         \A j \in Ids : j \notin torn =>
            Agree(NamesIn(Entries(dir), j), ino[j], j \in free, opens'[j])
  PROVE  NamesSound'
<1> DEFINE N == [j \in Ids |-> NamesIn(Entries(dir), j)]
<1>1. ASSUME NEW j \in Ids, j \notin torn PROVE Agree(N[j], ino'[j], j \in free', opens'[j])
  <2>1. /\ Agree(NamesIn(Entries(dir), j), ino[j], j \in free, opens'[j])
        /\ N[j] = NamesIn(Entries(dir), j)
        /\ ino'[j].kind = ino[j].kind /\ ino'[j].nlink = ino[j].nlink
    BY <1>1
  <2> HIDE DEF N
  <2>2. QED
    BY <2>1 DEF Agree
<1>2. /\ dir' \in Seq(Entry) /\ UniqueNames(dir') /\ free' \subseteq Ids /\ Tears({})
      /\ \A j \in Ids : NamesIn(Entries(dir'), j) = N[j]
  BY OldNames, NoTear
<1> HIDE DEF N
<1>3. QED
  BY <1>1, <1>2, NamesStep

\* The inode a renamed name led to has as many names as before.
LEMMA RenamedCount ==
  ASSUME NEW N, IsFiniteSet(N), NEW m \in N, NEW n, n \notin N
  PROVE  Cardinality((N \ {m}) \cup {n}) = Cardinality(N)
<1> DEFINE M == N \ {m}
<1>1. IsFiniteSet(M) /\ Cardinality(M) = Cardinality(N) - 1 /\ Cardinality(N) \in Nat
  BY FS_RemoveElement, FS_CardinalityType
<1>2. n \notin M
  OBVIOUS
<1> HIDE DEF M
<1>3. Cardinality(M \cup {n}) = Cardinality(M) + 1
  BY <1>1, <1>2, CountFacts
<1>4. QED
  BY <1>1, <1>3 DEF M

\* The directory once a rename of m to n has stored some of its pages: the
\* inodes of T are torn, the others have the names they are counted for.
Renamed(m, n, T) ==
    /\ \A j \in Ids \ {Target(m)} : j \notin T =>
          NamesIn(Entries(dir'), j) = NamesIn(Entries(dir), j) \ {n}
    /\ Target(m) \notin T =>
          \/ NamesIn(Entries(dir'), Target(m)) = NamesIn(Entries(dir), Target(m))
          \/ NamesIn(Entries(dir'), Target(m)) =
                (NamesIn(Entries(dir), Target(m)) \ {m}) \cup {n}

\* A rename of m to n onto another inode or onto none.
Moves(m, n) ==
    /\ m \in Listed /\ m # n /\ ~(n \in Listed /\ Target(n) = Target(m))
    /\ \/ n \in Listed /\ DropLink(Target(n), opens[Target(n)])
       \/ n \notin Listed /\ UNCHANGED <<ino, free>>
    /\ opens' = opens

\* Whom the two names belong to.
LEMMA RenameEnds ==
  ASSUME IInv, NEW m \in Listed, NEW n \in Names
  PROVE  /\ Target(m) \in Ids /\ [name |-> m, id |-> Target(m)] \in Entries(dir)
         /\ n \in Listed => /\ Target(n) \in Ids
                            /\ [name |-> n, id |-> Target(n)] \in Entries(dir)
         /\ \A k \in Ids : [name |-> n, id |-> k] \in Entries(dir) => n \in Listed /\ k = Target(n)
         /\ \A k \in Ids : [name |-> m, id |-> k] \in Entries(dir) => k = Target(m)
<1>1. \A x \in Entries(dir) : x.name \in Listed /\ Target(x.name) = x.id
  BY OldNames, DirFacts
<1>2. ASSUME NEW l, NEW k \in Ids, [name |-> l, id |-> k] \in Entries(dir)
      PROVE  l \in Listed /\ k = Target(l)
  BY <1>1, <1>2
<1>3. /\ Target(m) \in Ids /\ [name |-> m, id |-> Target(m)] \in Entries(dir)
      /\ n \in Listed => Target(n) \in Ids /\ [name |-> n, id |-> Target(n)] \in Entries(dir)
  BY OldNames, DirFacts
<1>4. QED
  BY <1>2, <1>3

\* A rename, complete or not, keeps every inode in agreement with its names but
\* those it tears.
LEMMA RenamedNames ==
  ASSUME IInv, NEW m \in Names, NEW n \in Names, NEW T, Moves(m, n), Renamed(m, n, T),
         Tears(T), dir' \in Seq(Entry), UniqueNames(dir')
  PROVE  NamesSound'
<1> DEFINE E == Entries(dir)
           t == Target(m)
           u == Target(n)
           N == [j \in Ids |-> NamesIn(Entries(dir'), j)]
<1>1. /\ t \in Ids /\ [name |-> m, id |-> t] \in E
      /\ n \in Listed => u \in Ids /\ [name |-> n, id |-> u] \in E
      /\ \A k \in Ids : [name |-> n, id |-> k] \in E => n \in Listed /\ k = u
      /\ \A k \in Ids : [name |-> m, id |-> k] \in E => k = t
  BY RenameEnds DEF Moves
<1>2. ~(n \in Listed /\ u = t) /\ m # n /\ opens' = opens
  BY DEF Moves
<1>3. m \in NamesIn(E, t) /\ n \notin NamesIn(E, t)
  BY <1>1, <1>2 DEF NamesIn
<1>4. /\ \A j \in Ids \ {t} : j \notin T => N[j] = NamesIn(E, j) \ {n}
      /\ t \notin T => N[t] = NamesIn(E, t) \/ N[t] = (NamesIn(E, t) \ {m}) \cup {n}
  BY <1>1 DEF Renamed
<1>5. \A j \in Ids : N[j] = NamesIn(Entries(dir'), j)
  OBVIOUS
<1> HIDE DEF N
<1>6. ASSUME t \notin torn \cup T PROVE Agree(N[t], ino[t], t \in free, opens[t])
  <2>1. Agree(NamesIn(E, t), ino[t], t \in free, opens[t])
    BY <1>1, <1>6, OldNames
  <2> HIDE DEF E, t
  <2>2. CASE N[t] = NamesIn(E, t)
    BY <2>1, <2>2
  <2>3. CASE N[t] = (NamesIn(E, t) \ {m}) \cup {n}
    <3>1. Cardinality((NamesIn(E, t) \ {m}) \cup {n}) = Cardinality(NamesIn(E, t))
      BY <1>3, NamesFinite, RenamedCount
    <3>2. QED
      BY <1>3, <2>1, <2>3, <3>1 DEF Agree
  <2>4. QED
    BY <1>4, <1>6, <2>2, <2>3
<1>7. ASSUME NEW j \in Ids, j # t, n \notin NamesIn(E, j), j \notin torn \cup T
      PROVE  Agree(N[j], ino[j], j \in free, opens[j])
  <2>1. Agree(NamesIn(E, j), ino[j], j \in free, opens[j])
    BY <1>7, OldNames
  <2> HIDE DEF E, t
  <2>2. N[j] = NamesIn(E, j) \ {n}
    BY <1>4, <1>7
  <2>3. NamesIn(E, j) \ {n} = NamesIn(E, j)
    BY <1>7
  <2>4. QED
    BY <2>1, <2>2, <2>3
<1>8. CASE n \notin Listed
  <2>1. ino' = ino /\ free' = free
    BY <1>8 DEF Moves
  <2>2. ASSUME NEW j \in Ids, j \notin torn \cup T
        PROVE  Agree(N[j], ino'[j], j \in free', opens'[j])
    <3>1. n \notin NamesIn(E, j)
      BY <1>1, <1>8 DEF NamesIn
    <3> HIDE DEF E, t
    <3>2. QED
      BY <1>2, <1>6, <1>7, <2>1, <2>2, <3>1
  <2>3. ino' \in [Ids -> Inode] /\ free' \subseteq Ids
    BY <2>1, OldNames
  <2>4. QED
    BY <1>5, <2>2, <2>3, NamesStep
<1>9. CASE n \in Listed
  <2>1. u \in Ids /\ u # t /\ n \in NamesIn(E, u) /\ DropLink(u, opens[u])
    BY <1>1, <1>2, <1>9 DEF NamesIn, Moves
  <2>2. /\ ino' \in [Ids -> Inode] /\ free' \subseteq Ids /\ Others({u})
        /\ u \notin torn => Agree(NamesIn(E, u) \ {n}, ino'[u], u \in free', opens[u])
    BY <2>1, DropLinkFacts
  <2>3. ASSUME NEW j \in Ids, j \notin torn \cup T
        PROVE  Agree(N[j], ino'[j], j \in free', opens'[j])
    <3>1. CASE j = u
      <4>1. N[u] = NamesIn(E, u) \ {n}
        BY <1>4, <2>1, <2>3, <3>1
      <4> HIDE DEF E, u
      <4>2. QED
        BY <1>2, <2>2, <2>3, <3>1, <4>1
    <3>2. CASE j # u
      <4>1. ino'[j] = ino[j] /\ (j \in free' <=> j \in free)
        BY <2>2, <3>2 DEF Others
      <4>2. n \notin NamesIn(E, j)
        BY <1>1, <3>2 DEF NamesIn
      <4> HIDE DEF E, t, u
      <4>3. Agree(N[j], ino[j], j \in free, opens[j])
        BY <1>6, <1>7, <2>3, <4>2
      <4>4. QED
        BY <1>2, <4>1, <4>3 DEF Agree
    <3>3. QED
      BY <3>1, <3>2
  <2>4. QED
    BY <1>5, <2>2, <2>3, NamesStep
<1>10. QED
  BY <1>8, <1>9

\* The entries on disk once a rename has stored some of its pages, or all.
LEMMA RenameDirs ==
  ASSUME IInv, NEW m \in Listed, NEW n \in Names, m # n,
         NEW c, c = Without(dir, n), NEW e, e = [name |-> n, id |-> Target(m)]
  PROVE  /\ e \in Entry
         /\ c \in Seq(Entry) /\ UniqueNames(c)
         /\ Entries(c) = {x \in Entries(dir) : x.name # n}
         /\ Append(c, e) \in Seq(Entry) /\ UniqueNames(Append(c, e))
         /\ Entries(Append(c, e)) = Entries(c) \cup {e}
         /\ Without(c, m) \in Seq(Entry) /\ UniqueNames(Without(c, m))
         /\ Entries(Without(c, m)) = {x \in Entries(c) : x.name # m}
         /\ Without(dir, m) \in Seq(Entry) /\ UniqueNames(Without(dir, m))
         /\ Entries(Without(dir, m)) = {x \in Entries(dir) : x.name # m}
         /\ Without(Append(c, e), m) \in Seq(Entry) /\ UniqueNames(Without(Append(c, e), m))
         /\ Entries(Without(Append(c, e), m)) = {x \in Entries(Append(c, e)) : x.name # m}
<1>1. e \in Entry /\ e.name = n
  BY RenameEnds DEF Entry
<1>2. c \in Seq(Entry) /\ UniqueNames(c) /\ Entries(c) = {x \in Entries(dir) : x.name # n}
  BY OldNames, WithoutFacts
<1>3. /\ Append(c, e) \in Seq(Entry) /\ UniqueNames(Append(c, e))
      /\ Entries(Append(c, e)) = Entries(c) \cup {e}
  BY <1>1, <1>2, AppendFacts
<1>4. /\ Without(c, m) \in Seq(Entry) /\ UniqueNames(Without(c, m))
      /\ Entries(Without(c, m)) = {x \in Entries(c) : x.name # m}
  BY <1>2, WithoutFacts
<1>5. /\ Without(dir, m) \in Seq(Entry) /\ UniqueNames(Without(dir, m))
      /\ Entries(Without(dir, m)) = {x \in Entries(dir) : x.name # m}
  BY OldNames, WithoutFacts
<1>6. PICK a : a = Append(c, e)
  OBVIOUS
<1>7. /\ Without(a, m) \in Seq(Entry) /\ UniqueNames(Without(a, m))
      /\ Entries(Without(a, m)) = {x \in Entries(a) : x.name # m}
  BY <1>3, <1>6, WithoutFacts
<1>8. QED
  BY <1>1, <1>2, <1>3, <1>4, <1>5, <1>6, <1>7

LEMMA RenameNames ==
  ASSUME IInv, NEW m \in Names, NEW n \in Names, Rename(m, n)
  PROVE  NamesSound'
<1> DEFINE E == Entries(dir)
           t == Target(m)
           u == Target(n)
           c == Without(dir, n)
           e == [name |-> n, id |-> t]
           old == IF n \in Listed THEN {u} ELSE {}
<1>1. m \in Listed /\ m # n /\ opens' = opens
  BY DEF Rename
<1>2. CASE n \in Listed /\ u = t /\ UNCHANGED <<names, scans, faults>>
  BY <1>1, <1>2, OldNames, QuietNames DEF names, faults
<1>3. CASE ~(n \in Listed /\ u = t)
  <2>1. Moves(m, n)
    BY <1>1, <1>3 DEF Rename, Moves
  <2>2. /\ t \in Ids /\ [name |-> m, id |-> t] \in E
        /\ n \in Listed => u \in Ids /\ [name |-> n, id |-> u] \in E
        /\ \A k \in Ids : [name |-> n, id |-> k] \in E => n \in Listed /\ k = u
        /\ \A k \in Ids : [name |-> m, id |-> k] \in E => k = t
    BY <1>1, RenameEnds
  <2>3. /\ c \in Seq(Entry) /\ UniqueNames(c) /\ Entries(c) = {x \in E : x.name # n}
        /\ Append(c, e) \in Seq(Entry) /\ UniqueNames(Append(c, e))
        /\ Entries(Append(c, e)) = Entries(c) \cup {e}
        /\ Without(c, m) \in Seq(Entry) /\ UniqueNames(Without(c, m))
        /\ Entries(Without(c, m)) = {x \in Entries(c) : x.name # m}
        /\ Without(dir, m) \in Seq(Entry) /\ UniqueNames(Without(dir, m))
        /\ Entries(Without(dir, m)) = {x \in E : x.name # m}
        /\ Without(Append(c, e), m) \in Seq(Entry) /\ UniqueNames(Without(Append(c, e), m))
        /\ Entries(Without(Append(c, e), m)) = {x \in Entries(Append(c, e)) : x.name # m}
    BY <1>1, RenameDirs
  <2>4. \/ dir' = Without(Append(c, e), m) /\ UNCHANGED <<fails, torn>>
        \/ \E half \in Halves(m, n) : dir' = half.dir /\ Tear(half.torn)
    BY <1>3 DEF Rename, faults
  <2>5. \/ dir' = Without(Append(c, e), m) /\ UNCHANGED <<fails, torn>>
        \/ dir' = dir /\ Tear(old)
        \/ dir' = c /\ Tear({})
        \/ dir' = Without(dir, m) /\ Tear(old \cup {t})
        \/ dir' = Without(c, m) /\ Tear({t})
        \/ dir' = Append(c, e) /\ Tear({t})
    <3>1. ASSUME NEW half \in Halves(m, n), dir' = half.dir, Tear(half.torn)
          PROVE  \/ dir' = dir /\ Tear(old)
                 \/ dir' = c /\ Tear({})
                 \/ dir' = Without(dir, m) /\ Tear(old \cup {t})
                 \/ dir' = Without(c, m) /\ Tear({t})
                 \/ dir' = Append(c, e) /\ Tear({t})
      <4>1. \/ half = [dir |-> dir, torn |-> old]
            \/ half = [dir |-> c, torn |-> {}]
            \/ half = [dir |-> Without(dir, m), torn |-> old \cup {t}]
            \/ half = [dir |-> Without(c, m), torn |-> {t}]
            \/ half = [dir |-> Append(c, e), torn |-> {t}]
        BY DEF Halves
      <4> HIDE DEF c, e, t, u, old
      <4>2. ASSUME NEW d, NEW T, half = [dir |-> d, torn |-> T] PROVE dir' = d /\ Tear(T)
        <5>1. half.dir = d /\ half.torn = T
          BY <4>2
        <5>2. QED
          BY <3>1, <5>1
      <4>3. QED
        BY <4>1, <4>2
    <3>2. QED
      BY <2>4, <3>1
  <2>6. old \subseteq Ids /\ {t} \subseteq Ids /\ old \cup {t} \subseteq Ids
    BY <2>2
  <2>7. (n \in Listed => old = {u}) /\ (n \notin Listed => old = {})
    OBVIOUS
  <2> HIDE DEF c, e, old, u
  <2>8. e = [name |-> n, id |-> t]
    BY DEF e
  <2>9. ASSUME NEW T \in SUBSET Ids, Renamed(m, n, T), Tears(T), dir' \in Seq(Entry),
               UniqueNames(dir')
        PROVE  NamesSound'
    BY <2>1, <2>9, RenamedNames
  <2>10. CASE dir' = Without(Append(c, e), m) /\ UNCHANGED <<fails, torn>>
    <3>1. ASSUME NEW j \in Ids, NEW k \in Names
          PROVE  [name |-> k, id |-> j] \in Entries(dir') <=>
                    \/ [name |-> k, id |-> j] \in E /\ k # n /\ k # m
                    \/ k = n /\ j = t
      BY <1>1, <2>3, <2>8, <2>10
    <3> HIDE DEF E, t
    <3>2. ASSUME NEW j \in Ids, j # t PROVE NamesIn(Entries(dir'), j) = NamesIn(E, j) \ {n}
      BY <2>2, <3>1, <3>2 DEF NamesIn
    <3>3. NamesIn(Entries(dir'), t) = (NamesIn(E, t) \ {m}) \cup {n}
      BY <1>1, <1>3, <2>2, <3>1 DEF NamesIn, u
    <3>4. Renamed(m, n, {})
      BY <3>2, <3>3 DEF Renamed, E, t
    <3>5. Tears({})
      BY <2>10, NoTear
    <3>6. QED
      BY <2>3, <2>9, <2>10, <3>4, <3>5
  <2>11. CASE dir' = dir /\ Tear(old)
    <3> HIDE DEF E, t
    <3>1. ASSUME NEW j \in Ids, j \notin old PROVE NamesIn(E, j) = NamesIn(E, j) \ {n}
      BY <2>2, <2>7, <3>1 DEF NamesIn
    <3>2. Renamed(m, n, old)
      BY <2>11, <3>1 DEF Renamed, E, t
    <3>3. Tears(old)
      BY <2>6, <2>11, TearFacts
    <3>4. QED
      BY <2>6, <2>9, <2>11, <3>2, <3>3, OldNames
  <2>12. CASE dir' = c /\ Tear({})
    <3>1. ASSUME NEW j \in Ids, NEW k \in Names
          PROVE  [name |-> k, id |-> j] \in Entries(dir') <=> [name |-> k, id |-> j] \in E /\ k # n
      BY <2>3, <2>12
    <3> HIDE DEF E, t
    <3>2. ASSUME NEW j \in Ids PROVE NamesIn(Entries(dir'), j) = NamesIn(E, j) \ {n}
      BY <3>1 DEF NamesIn
    <3>3. n \notin NamesIn(E, t)
      BY <1>3, <2>2 DEF NamesIn, u
    <3>4. NamesIn(Entries(dir'), t) = NamesIn(E, t)
      BY <2>2, <3>2, <3>3
    <3>5. Renamed(m, n, {})
      BY <3>2, <3>4 DEF Renamed, E, t
    <3>6. Tears({})
      BY <2>12, TearFacts
    <3>7. QED
      BY <2>3, <2>9, <2>12, <3>5, <3>6
  <2>13. CASE dir' = Without(dir, m) /\ Tear(old \cup {t})
    <3>1. ASSUME NEW j \in Ids, NEW k \in Names
          PROVE  [name |-> k, id |-> j] \in Entries(dir') <=> [name |-> k, id |-> j] \in E /\ k # m
      BY <2>3, <2>13
    <3> HIDE DEF E, t
    <3>2. ASSUME NEW j \in Ids, j # t, j \notin old
          PROVE  NamesIn(Entries(dir'), j) = NamesIn(E, j) \ {n}
      BY <2>2, <2>7, <3>1, <3>2 DEF NamesIn
    <3>3. Renamed(m, n, old \cup {t})
      BY <3>2 DEF Renamed, E, t
    <3>4. Tears(old \cup {t})
      BY <2>6, <2>13, TearFacts
    <3>5. QED
      BY <2>3, <2>6, <2>9, <2>13, <3>3, <3>4
  <2>14. CASE dir' = Without(c, m) /\ Tear({t})
    <3>1. ASSUME NEW j \in Ids, NEW k \in Names
          PROVE  [name |-> k, id |-> j] \in Entries(dir') <=>
                    [name |-> k, id |-> j] \in E /\ k # n /\ k # m
      BY <2>3, <2>14
    <3> HIDE DEF E, t
    <3>2. ASSUME NEW j \in Ids, j # t PROVE NamesIn(Entries(dir'), j) = NamesIn(E, j) \ {n}
      BY <2>2, <3>1, <3>2 DEF NamesIn
    <3>3. Renamed(m, n, {t})
      BY <3>2 DEF Renamed, E, t
    <3>4. Tears({t})
      BY <2>6, <2>14, TearFacts
    <3>5. QED
      BY <2>3, <2>6, <2>9, <2>14, <3>3, <3>4
  <2>15. CASE dir' = Append(c, e) /\ Tear({t})
    <3>1. ASSUME NEW j \in Ids, NEW k \in Names
          PROVE  [name |-> k, id |-> j] \in Entries(dir') <=>
                    \/ [name |-> k, id |-> j] \in E /\ k # n
                    \/ k = n /\ j = t
      BY <2>3, <2>8, <2>15
    <3> HIDE DEF E, t
    <3>2. ASSUME NEW j \in Ids, j # t PROVE NamesIn(Entries(dir'), j) = NamesIn(E, j) \ {n}
      BY <3>1, <3>2 DEF NamesIn
    <3>3. Renamed(m, n, {t})
      BY <3>2 DEF Renamed, E, t
    <3>4. Tears({t})
      BY <2>6, <2>15, TearFacts
    <3>5. QED
      BY <2>3, <2>6, <2>9, <2>15, <3>3, <3>4
  <2>16. QED
    BY <2>5, <2>10, <2>11, <2>12, <2>13, <2>14, <2>15
<1>4. QED
  BY <1>2, <1>3 DEF Rename

\* A step that changes sizes only.
Touched ==
    /\ ino' \in [Ids -> Inode]
    /\ \A j \in Ids : /\ ino'[j].kind = ino[j].kind /\ ino'[j].nlink = ino[j].nlink
                      /\ ino'[j].gen = ino[j].gen

LEMMA TouchFacts ==
  ASSUME IInv, NEW id \in Ids, NEW x \in {0, 1}, ino' = [ino EXCEPT ![id].size = x]
  PROVE  Touched
<1>1. ino \in [Ids -> Inode]
  BY OldNames
<1>2. ino[id] = [kind |-> ino[id].kind, nlink |-> ino[id].nlink, gen |-> ino[id].gen,
                 size |-> ino[id].size]
  BY <1>1 DEF Inode
<1>3. /\ ino[id].kind \in {"none", "file", "dir"} /\ ino[id].nlink \in Nat
      /\ ino[id].gen \in 0 .. MaxGen
  BY <1>1, InodeFacts
<1>4. /\ DOMAIN ino' = Ids /\ (\A j \in Ids \ {id} : ino'[j] = ino[j])
      /\ ino' = [j \in Ids |-> ino'[j]]
      /\ ino'[id] = [ino[id] EXCEPT !.size = x]
  BY <1>1
<1>5. ino'[id] = [kind |-> ino[id].kind, nlink |-> ino[id].nlink, gen |-> ino[id].gen, size |-> x]
  BY <1>2, <1>4
<1>6. /\ ino'[id] \in Inode /\ ino'[id].kind = ino[id].kind /\ ino'[id].nlink = ino[id].nlink
      /\ ino'[id].gen = ino[id].gen
  BY <1>3, <1>5 DEF Inode
<1>7. \A j \in Ids : ino'[j] \in Inode
  BY <1>1, <1>4, <1>6
<1>8. QED
  BY <1>4, <1>6, <1>7 DEF Touched

LEMMA SetattrTouches ==
  ASSUME IInv, NEW id \in Ids, NEW size \in {0, 1}, Setattr(id, size)
  PROVE  Touched
BY TouchFacts DEF Setattr

LEMMA WriteTouches == ASSUME IInv, NEW fh \in Fhs, Write(fh) PROVE Touched
<1>1. handles[fh] \in Ids
  BY DEF Write, IInv, TypeOK
<1>2. ino' = [ino EXCEPT ![handles[fh]].size = 1]
  BY DEF Write
<1>3. QED
  BY <1>1, <1>2, TouchFacts

LEMMA TouchNames ==
  ASSUME IInv, Touched, UNCHANGED <<dir, free, opens, fails, torn>>
  PROVE  NamesSound'
BY OldNames, QuietNames DEF Touched

\* An open that succeeds: the file has a pin more.
OpenTakes(id, trunc) ==
    /\ opens' = [opens EXCEPT ![id] = opens[id] + 1]
    /\ ino' = [ino EXCEPT ![id].size = IF trunc THEN 0 ELSE ino[id].size]
    /\ InsertHandle(id) /\ free' = free

LEMMA OpenCases ==
  ASSUME NEW id \in Ids, NEW trunc \in BOOLEAN, Open(id, trunc)
  PROVE  /\ id \in Known /\ ino[id].kind = "file"
         /\ UNCHANGED <<dir, scans, fails, torn>>
         /\ OpenTakes(id, trunc) \/ (OpenFail(id) /\ UNCHANGED <<handles, dirHandles, nextFh>>)
BY DEF Open, OpenTakes, faults, sessions

LEMMA OpenTouches ==
  ASSUME IInv, NEW id \in Ids, NEW trunc \in BOOLEAN, OpenTakes(id, trunc)
  PROVE  Touched
<1> DEFINE x == IF trunc THEN 0 ELSE ino[id].size
<1>1. x \in {0, 1}
  BY OldNames, InodeFacts
<1>2. ino' = [ino EXCEPT ![id].size = x]
  BY DEF OpenTakes
<1> HIDE DEF x
<1>3. QED
  BY <1>1, <1>2, TouchFacts

\* An open that fails takes no pin, and reclaims no file but a torn one.
LEMMA OpenFailFacts ==
  ASSUME IInv, NEW id \in Ids, id \in Known, ino[id].kind = "file", OpenFail(id)
  PROVE  /\ opens' = opens /\ ino' \in [Ids -> Inode] /\ free' \subseteq Ids /\ Others({id})
         /\ id \notin torn => ino' = ino /\ free' = free
<1>1. /\ opens \in [Ids -> 0 .. MaxFh] /\ opens[id] \in Nat
      /\ ino \in [Ids -> Inode] /\ free \subseteq Ids
  BY OldNames
<1>2. PICK p \in Nat : p = opens[id] + 1
  BY <1>1
<1>3. opens' = opens
  <2>1. ClosePin(id, p)
    BY <1>2 DEF OpenFail
  <2>2. opens' = [opens EXCEPT ![id] = p - 1]
    BY <2>1 DEF ClosePin
  <2>3. p - 1 = opens[id]
    BY <1>1, <1>2
  <2>4. QED
    BY <1>1, <2>2, <2>3
<1>4. CASE UNCHANGED <<ino, free>>
  BY <1>1, <1>3, <1>4 DEF Others
<1>5. CASE opens[id] + 1 = 1 /\ ino[id].nlink = 0 /\ Reclaim(id)
  <2>1. id \in torn
    <3>1. NamesIn(Entries(dir), id) # {} \/ opens[id] > 0
      BY OldNames, DirFacts
    <3>2. id \notin torn => Agree(NamesIn(Entries(dir), id), ino[id], id \in free, opens[id])
      BY OldNames
    <3>3. QED
      BY <1>1, <1>5, <3>1, <3>2 DEF Agree
  <2>2. QED
    BY <1>3, <1>5, <2>1, ReclaimFacts
<1>6. QED
  BY <1>4, <1>5 DEF OpenFail, ClosePin

\* An open file gains a pin, unless its truncation failed.
LEMMA OpenNames ==
  ASSUME IInv, NEW id \in Ids, NEW trunc \in BOOLEAN, Open(id, trunc)
  PROVE  NamesSound'
<1>1. id \in Known /\ ino[id].kind = "file" /\ UNCHANGED <<dir, fails, torn>>
  BY OpenCases
<1>2. CASE OpenTakes(id, trunc)
  <2>1. Touched /\ free' = free /\ opens' = [opens EXCEPT ![id] = opens[id] + 1]
    BY <1>2, OpenTouches DEF OpenTakes
  <2>2. opens'[id] = opens[id] + 1 /\ opens[id] \in Nat
        /\ \A j \in Ids \ {id} : opens'[j] = opens[j]
    BY <2>1, OldNames
  <2>3. ASSUME NEW j \in Ids, j \notin torn
        PROVE  Agree(NamesIn(Entries(dir), j), ino[j], j \in free, opens'[j])
    <3>1. Agree(NamesIn(Entries(dir), j), ino[j], j \in free, opens[j])
      BY <2>3, OldNames
    <3>2. CASE j = id
      BY <1>1, <2>2, <3>1, <3>2 DEF Agree
    <3>3. CASE j # id
      BY <2>2, <3>1, <3>3 DEF Agree
    <3>4. QED
      BY <3>2, <3>3
  <2>4. QED
    BY <1>1, <2>1, <2>3, QuietNames DEF Touched
<1>3. CASE OpenFail(id)
  <2>1. /\ opens' = opens /\ ino' \in [Ids -> Inode] /\ free' \subseteq Ids /\ Others({id})
        /\ id \notin torn => ino' = ino /\ free' = free
    BY <1>1, <1>3, OpenFailFacts
  <2>2. CASE id \in torn
    <3>1. Tears({id})
      BY <1>1, <2>2, NoTear DEF Tears
    <3>2. QED
      BY <1>1, <2>1, <3>1, TornNames
  <2>3. CASE id \notin torn
    <3>1. Touched
      BY <2>1, <2>3, OldNames DEF Touched
    <3>2. QED
      BY <1>1, <2>1, <2>3, <3>1, TouchNames
  <2>4. QED
    BY <2>2, <2>3
<1>4. QED
  BY <1>2, <1>3, OpenCases

\* A handle pins its inode.
LEMMA HandlePins ==
  ASSUME IInv, NEW fh \in Fhs, handles[fh] # None
  PROVE  handles[fh] \in Ids /\ opens[handles[fh]] \in Nat \ {0}
<1>1. handles[fh] \in Ids
  BY DEF IInv, TypeOK
<1>2. opens[handles[fh]] \in Nat
  BY <1>1, OldNames
<1>3. fh \in Pinning(handles, handles[fh])
  BY DEF Pinning
<1>4. opens[handles[fh]] = Cardinality(Pinning(handles, handles[fh]))
  BY <1>1 DEF IInv, PinsExact, Pinning
<1>5. Cardinality(Pinning(handles, handles[fh])) # 0
  BY <1>3, PinningFinite, FS_EmptySet
<1>6. QED
  BY <1>1, <1>2, <1>4, <1>5

\* The last release of a file without names reclaims it, and no other does.
LEMMA ReleaseNames ==
  ASSUME IInv, NEW fh \in Fhs, Release(fh)
  PROVE  NamesSound'
<1> DEFINE id == handles[fh]
           N == NamesIn(Entries(dir), id)
<1>1. id \in Ids /\ ClosePin(id, opens[id]) /\ dir' = dir /\ UNCHANGED <<fails, torn>>
  BY DEF Release, IInv, TypeOK, faults
<1>2. /\ id \notin torn => Agree(N, ino[id], id \in free, opens[id])
      /\ opens[id] \in Nat /\ ino[id] \in Inode /\ Tears({})
  BY <1>1, OldNames, NoTear
<1>3. opens[id] > 0
  BY HandlePins DEF Release
<1> HIDE DEF id
<1>4. IsFiniteSet(N) /\ Cardinality(N) \in Nat /\ (Cardinality(N) = 0 <=> N = {})
  BY NamesFinite, FS_EmptySet
<1> HIDE DEF N
<1>5. id \notin torn => ino[id].kind = "file" /\ id \notin free /\ ino[id].nlink = Cardinality(N)
  BY <1>2, <1>3, InodeFacts DEF Agree
<1>6. opens' = [opens EXCEPT ![id] = opens[id] - 1]
  BY <1>1 DEF ClosePin
<1>7. opens'[id] = opens[id] - 1 /\ \A j \in Ids \ {id} : opens'[j] = opens[j]
  BY <1>1, <1>6, OldNames
<1>8. CASE opens[id] = 1 /\ ino[id].nlink = 0
  <2> DEFINE M == [j \in Ids |-> NamesIn(Entries(dir), j)]
  <2>1. Reclaim(id)
    BY <1>1, <1>8 DEF ClosePin
  <2>2. /\ ino' \in [Ids -> Inode] /\ free' \subseteq Ids /\ Others({id})
        /\ Agree({}, ino'[id], id \in free', 0)
    BY <1>1, <2>1, ReclaimFacts
  <2>3. (id \notin torn => M[id] = {}) /\ opens'[id] = 0
    BY <1>1, <1>4, <1>5, <1>7, <1>8 DEF N
  <2>4. \A j \in Ids : M[j] = NamesIn(Entries(dir), j)
    OBVIOUS
  <2> HIDE DEF M
  <2>5. ASSUME NEW j \in Ids, j \notin torn PROVE Agree(M[j], ino'[j], j \in free', opens'[j])
    <3>1. CASE j = id
      BY <2>2, <2>3, <2>5, <3>1
    <3>2. CASE j # id
      <4>1. Agree(NamesIn(Entries(dir), j), ino[j], j \in free, opens[j])
        BY <2>5, OldNames
      <4>2. ino'[j] = ino[j] /\ (j \in free' <=> j \in free)
        BY <2>2, <3>2 DEF Others
      <4>3. QED
        BY <1>7, <2>4, <3>2, <4>1, <4>2 DEF Agree
    <3>3. QED
      BY <3>1, <3>2
  <2>6. dir' \in Seq(Entry) /\ UniqueNames(dir') /\ \A j \in Ids : NamesIn(Entries(dir'), j) = M[j]
    BY <1>1, <2>4, OldNames
  <2>7. QED
    BY <1>2, <2>2, <2>5, <2>6, NamesStep
<1>9. CASE ~(opens[id] = 1 /\ ino[id].nlink = 0)
  <2>1. ino' = ino /\ free' = free
    BY <1>1, <1>9 DEF ClosePin
  <2>2. ASSUME NEW j \in Ids, j \notin torn
        PROVE  Agree(NamesIn(Entries(dir), j), ino[j], j \in free, opens'[j])
    <3>1. Agree(NamesIn(Entries(dir), j), ino[j], j \in free, opens[j])
      BY <2>2, OldNames
    <3>2. CASE j = id
      BY <1>2, <1>3, <1>4, <1>5, <1>7, <1>9, <2>2, <3>1, <3>2 DEF Agree, N
    <3>3. CASE j # id
      BY <1>7, <3>1, <3>3 DEF Agree
    <3>4. QED
      BY <3>2, <3>3
  <2>3. QED
    BY <1>1, <2>1, <2>2, OldNames, QuietNames
<1>10. QED
  BY <1>8, <1>9

LEMMA NextNames == IInv /\ [Next]_vars => NamesSound'
<1> SUFFICES ASSUME IInv, [Next]_vars PROVE NamesSound'
  OBVIOUS
<1>1. ASSUME NEW n \in Names, NEW id \in Ids, Mkdir(n, id) \/ Create(n, id)
      PROVE  NamesSound'
  <2>1. id \in free => id \in torn \/ opens[id] = 0
    BY OldNames DEF Agree
  <2>2. CASE Mkdir(n, id)
    <3>1. NewNode(n, id, "dir") /\ opens' = opens /\ id \in free
      BY <2>2 DEF Mkdir, NewNode, NewInode
    <3>2. QED
      BY <2>1, <3>1, NewNodeNames
  <2>3. CASE Create(n, id)
    <3>1. NewNode(n, id, "file") /\ opens' = [opens EXCEPT ![id] = opens[id] + 1] /\ id \in free
      BY <2>3 DEF Create, NewNode, NewInode
    <3>2. (id \in torn \/ opens'[id] = 1) /\ \A j \in Ids \ {id} : opens'[j] = opens[j]
      BY <2>1, <3>1, OldNames
    <3>3. QED
      BY <3>1, <3>2, NewNodeNames
  <2>4. QED
    BY <1>1, <2>2, <2>3
<1>2. ASSUME NEW n \in Names, NEW id \in Ids, NEW kind \in {"file", "dir"},
             NewNodeFails(n, id, kind)
      PROVE  NamesSound'
  BY <1>2, NewNodeFailsNames
<1>3. ASSUME NEW n \in Names, Unlink(n) \/ Rmdir(n) \/ \E m \in Names : Rename(m, n)
      PROVE  NamesSound'
  BY <1>3, UnlinkNames, RenameNames
<1>4. ASSUME NEW id \in Ids, NEW n \in Names, Link(id, n) PROVE NamesSound'
  BY <1>4, LinkNames
<1>5. ASSUME NEW id \in Ids, NEW size \in {0, 1}, Setattr(id, size)
      PROVE  NamesSound'
  BY <1>5, SetattrTouches, TouchNames DEF Setattr, faults
<1>6. ASSUME NEW id \in Ids, NEW trunc \in BOOLEAN, Open(id, trunc) PROVE NamesSound'
  BY <1>6, OpenNames
<1>7. ASSUME UNCHANGED <<dir, ino, free, opens, fails, torn>> PROVE NamesSound'
  <2>1. Touched
    BY <1>7, OldNames DEF Touched
  <2>2. QED
    BY <1>7, <2>1, TouchNames
<1>8. CASE Opendir
  BY <1>7, <1>8 DEF Opendir, names, faults
<1>9. ASSUME NEW fh \in Fhs, Write(fh) \/ Release(fh) \/ Read(fh) \/ Releasedir(fh)
      PROVE  NamesSound'
  <2>1. CASE Write(fh)
    BY <2>1, WriteTouches, TouchNames DEF Write, faults
  <2>2. CASE Release(fh)
    BY <2>2, ReleaseNames
  <2>3. CASE Read(fh)
    BY <1>7, <2>3 DEF Read, Readdir, names, faults
  <2>4. CASE Releasedir(fh)
    BY <1>7, <2>4 DEF Releasedir, names, faults
  <2>5. QED
    BY <1>9, <2>1, <2>2, <2>3, <2>4
<1>10. CASE UNCHANGED vars
  BY <1>7, <1>10 DEF vars
<1>11. QED
  BY <1>1, <1>2, <1>3, <1>4, <1>5, <1>6, <1>8, <1>9, <1>10 DEF Next, Ask

----------------------------------------------------------------------------
(* Pins and handles. *)

PinsSound ==
    /\ opens \in [Ids -> 0 .. MaxFh]
    /\ nextFh \in 1 .. MaxFh + 1
    /\ handles \in [Fhs -> Ids \cup {None}]
    /\ PinsExact /\ HandlesGiven

\* A step after which the pins are counted by the handles is a sound one: there
\* are never more pins than handles.
LEMMA PinsStep ==
  ASSUME opens' = [id \in Ids |-> opens'[id]],
         nextFh' \in 1 .. MaxFh + 1,
         handles' \in [Fhs -> Ids \cup {None}],
         \A id \in Ids : opens'[id] = Cardinality(Pinning(handles', id)),
         \A fh \in Fhs : handles'[fh] # None => fh < nextFh'
  PROVE  PinsSound'
<1>1. \A id \in Ids : opens'[id] \in 0 .. MaxFh
  BY PinningFinite
<1>2. opens' \in [Ids -> 0 .. MaxFh]
  BY <1>1
<1>3. QED
  BY <1>2 DEF PinsSound, PinsExact, HandlesGiven, Pinning

LEMMA OldPins ==
  ASSUME IInv
  PROVE  /\ opens \in [Ids -> 0 .. MaxFh] /\ nextFh \in 1 .. MaxFh + 1
         /\ handles \in [Fhs -> Ids \cup {None}]
         /\ \A id \in Ids : /\ opens[id] = Cardinality(Pinning(handles, id))
                            /\ opens[id] \in Nat
         /\ \A fh \in Fhs : handles[fh] # None => fh < nextFh
         /\ MaxFh \in Nat /\ None \notin Ids
BY SessionAssumption, SessionSentinel DEF IInv, TypeOK, PinsExact, HandlesGiven, Pinning

LEMMA HandlesMove ==
  ASSUME NEW g \in Fhs, NEW id, \A f \in Fhs \ {g} : handles'[f] = handles[f]
  PROVE  /\ handles[g] # id /\ handles'[g] = id =>
               Cardinality(Pinning(handles', id)) = Cardinality(Pinning(handles, id)) + 1
         /\ handles[g] = id /\ handles'[g] # id =>
               Cardinality(Pinning(handles', id)) = Cardinality(Pinning(handles, id)) - 1
         /\ handles[g] # id /\ handles'[g] # id =>
               Cardinality(Pinning(handles', id)) = Cardinality(Pinning(handles, id))
BY PinningMoves

LEMMA InsertPins ==
  ASSUME IInv, NEW id \in Ids, InsertHandle(id), opens' = [opens EXCEPT ![id] = opens[id] + 1]
  PROVE  PinsSound'
<1>1. /\ nextFh \in Fhs /\ nextFh' = nextFh + 1 /\ nextFh' \in 1 .. MaxFh + 1
      /\ handles' = [handles EXCEPT ![nextFh] = id]
      /\ handles'[nextFh] = id /\ \A f \in Fhs \ {nextFh} : handles'[f] = handles[f]
  BY OldPins DEF InsertHandle, Fhs
<1>2. handles[nextFh] = None
  BY <1>1, OldPins DEF Fhs
<1>3. ASSUME NEW j \in Ids PROVE opens'[j] = Cardinality(Pinning(handles', j))
  <2>1. handles[nextFh] # j
    BY <1>2, OldPins
  <2>2. CASE j = id
    <3>1. Cardinality(Pinning(handles', j)) = Cardinality(Pinning(handles, j)) + 1
      BY <1>1, <2>1, <2>2, HandlesMove
    <3>2. QED
      BY <2>2, <3>1, OldPins
  <2>3. CASE j # id
    <3>1. Cardinality(Pinning(handles', j)) = Cardinality(Pinning(handles, j))
      BY <1>1, <2>1, <2>3, HandlesMove
    <3>2. QED
      BY <2>3, <3>1, OldPins
  <2>4. QED
    BY <2>2, <2>3
<1>4. handles' \in [Fhs -> Ids \cup {None}]
  BY <1>1, OldPins
<1>5. \A fh \in Fhs : handles'[fh] # None => fh < nextFh'
  BY <1>1, OldPins DEF Fhs
<1>6. opens' = [j \in Ids |-> opens'[j]]
  BY OldPins
<1>7. QED
  BY <1>1, <1>3, <1>4, <1>5, <1>6, PinsStep

LEMMA ReleasePins ==
  ASSUME IInv, NEW fh \in Fhs, Release(fh)
  PROVE  PinsSound'
<1>1. /\ handles[fh] \in Ids /\ handles' = [handles EXCEPT ![fh] = None] /\ nextFh' = nextFh
      /\ opens' = [opens EXCEPT ![handles[fh]] = opens[handles[fh]] - 1]
      /\ handles'[fh] = None /\ \A f \in Fhs \ {fh} : handles'[f] = handles[f]
  BY OldPins DEF Release, ClosePin
<1>2. ASSUME NEW j \in Ids PROVE opens'[j] = Cardinality(Pinning(handles', j))
  <2>1. None # j
    BY OldPins
  <2>2. CASE j = handles[fh]
    <3>1. Cardinality(Pinning(handles', j)) = Cardinality(Pinning(handles, j)) - 1
      BY <1>1, <2>1, <2>2, HandlesMove
    <3>2. QED
      BY <1>1, <2>2, <3>1, OldPins
  <2>3. CASE j # handles[fh]
    <3>1. Cardinality(Pinning(handles', j)) = Cardinality(Pinning(handles, j))
      BY <1>1, <2>1, <2>3, HandlesMove
    <3>2. QED
      BY <1>1, <2>3, <3>1, OldPins
  <2>4. QED
    BY <2>2, <2>3
<1>3. handles' \in [Fhs -> Ids \cup {None}]
  BY <1>1, OldPins
<1>4. \A g \in Fhs : handles'[g] # None => g < nextFh'
  BY <1>1, OldPins
<1>5. opens' = [j \in Ids |-> opens'[j]]
  BY <1>1, OldPins
<1>6. QED
  BY <1>1, <1>2, <1>3, <1>4, <1>5, OldPins, PinsStep

LEMMA NextPins == IInv /\ [Next]_vars => PinsSound'
<1> SUFFICES ASSUME IInv, [Next]_vars PROVE PinsSound'
  OBVIOUS
<1>1. ASSUME UNCHANGED <<opens, handles>>, nextFh' \in {nextFh, nextFh + 1}, nextFh' <= MaxFh + 1
      PROVE  PinsSound'
  <2>1. /\ nextFh' \in 1 .. MaxFh + 1 /\ nextFh' >= nextFh
        /\ \A fh \in Fhs : handles[fh] # None => fh < nextFh'
    BY <1>1, OldPins DEF Fhs
  <2>2. QED
    BY <1>1, <2>1, OldPins DEF PinsSound, PinsExact, HandlesGiven, Pinning
<1>2. ASSUME UNCHANGED <<opens, sessions>> PROVE PinsSound'
  BY <1>1, <1>2, OldPins DEF sessions
<1>3. ASSUME NEW n \in Names, NEW id \in Ids,
             \/ Mkdir(n, id) \/ Create(n, id)
             \/ \E kind \in {"file", "dir"} : NewNodeFails(n, id, kind)
      PROVE  PinsSound'
  BY <1>2, <1>3, InsertPins DEF Mkdir, Create, NewNodeFails
<1>4. ASSUME NEW n \in Names, Unlink(n) \/ Rmdir(n) \/ \E m \in Names : Rename(m, n)
      PROVE  PinsSound'
  BY <1>2, <1>4 DEF Unlink, Rmdir, Rename
<1>5. ASSUME NEW id \in Ids, NEW n \in Names, Link(id, n) PROVE PinsSound'
  BY <1>2, <1>5 DEF Link
<1>6. ASSUME NEW id \in Ids, NEW size \in {0, 1}, Setattr(id, size) PROVE PinsSound'
  BY <1>2, <1>6 DEF Setattr
<1>7. ASSUME NEW id \in Ids, NEW trunc \in BOOLEAN, Open(id, trunc) PROVE PinsSound'
  <2>1. CASE OpenTakes(id, trunc)
    BY <2>1, InsertPins DEF OpenTakes
  <2>2. CASE OpenFail(id) /\ UNCHANGED <<handles, dirHandles, nextFh>>
    <3>1. opens' = opens
      BY <1>7, <2>2, OpenCases, OpenFailFacts
    <3>2. QED
      BY <1>2, <2>2, <3>1 DEF sessions
  <2>3. QED
    BY <1>7, <2>1, <2>2, OpenCases
<1>8. CASE Opendir
  BY <1>1, <1>8, OldPins DEF Opendir
<1>9. ASSUME NEW fh \in Fhs, Write(fh) \/ Release(fh) \/ Read(fh) \/ Releasedir(fh)
      PROVE  PinsSound'
  <2>1. CASE Write(fh)
    BY <1>2, <2>1 DEF Write
  <2>2. CASE Release(fh)
    BY <2>2, ReleasePins
  <2>3. CASE Read(fh)
    BY <1>2, <2>3 DEF Read, Readdir
  <2>4. CASE Releasedir(fh)
    BY <1>1, <2>4, OldPins DEF Releasedir
  <2>5. QED
    BY <1>9, <2>1, <2>2, <2>3, <2>4
<1>10. CASE UNCHANGED vars
  BY <1>2, <1>10 DEF vars, sessions
<1>11. QED
  BY <1>3, <1>4, <1>5, <1>6, <1>7, <1>8, <1>9, <1>10 DEF Next, Ask

----------------------------------------------------------------------------
(* Listings and their readers. *)

\* Listings and file handles share one counter.
ListingsApart ==
    \A fh \in Fhs : dirHandles[fh] # None => handles[fh] = None /\ fh < nextFh

ListingsSound ==
    /\ dirHandles \in [Fhs -> Seq(Row) \cup {None}]
    /\ scans \in [Fhs -> Scan \cup {None}]
    /\ ListingsApart
    /\ ScansSound

\* A reader and its listing.
Reads(rows, s) == s = None \/ (s \in Scan /\ rows # None /\ ScanAt(rows, s))

LEMMA OldListings ==
  ASSUME IInv
  PROVE  /\ dirHandles \in [Fhs -> Seq(Row) \cup {None}]
         /\ scans \in [Fhs -> Scan \cup {None}]
         /\ \A fh \in Fhs : dirHandles[fh] # None => handles[fh] = None /\ fh < nextFh
         /\ \A fh \in Fhs : Reads(dirHandles[fh], scans[fh])
         /\ None \notin Scan /\ None \notin Seq(Row) /\ None \notin Ids
BY SessionSentinel DEF IInv, TypeOK, ScansSound, Reads

LEMMA ListingsStep ==
  ASSUME dirHandles' \in [Fhs -> Seq(Row) \cup {None}],
         scans' = [fh \in Fhs |-> scans'[fh]],
         \A fh \in Fhs : dirHandles'[fh] # None => handles'[fh] = None /\ fh < nextFh',
         \A fh \in Fhs : Reads(dirHandles'[fh], scans'[fh])
  PROVE  ListingsSound'
<1>1. ListingsApart'
  BY DEF ListingsApart
<1>2. scans' \in [Fhs -> Scan \cup {None}]
  BY DEF Reads
<1>3. ScansSound'
  BY DEF ScansSound, Reads
<1>4. QED
  BY <1>1, <1>2, <1>3 DEF ListingsSound

\* Names that are gone are no longer owed to the reader.
LEMMA ForgetReads ==
  ASSUME NEW rows, NEW s \in Scan, Reads(rows, s), None \notin Scan, NEW X
  PROVE  Reads(rows, [s EXCEPT !.stayed = @ \ X])
<1> DEFINE t == [s EXCEPT !.stayed = @ \ X]
<1>1. /\ t.cookie = s.cookie /\ t.got = s.got /\ t.again = s.again /\ t.done = s.done
      /\ t.stayed = s.stayed \ X /\ t \in Scan
  BY DEF Scan
<1>2. rows # None /\ ScanAt(rows, s)
  BY DEF Reads
<1> HIDE DEF t
<1>3. ScanAt(rows, t)
  BY <1>1, <1>2 DEF ScanAt
<1>4. Reads(rows, t)
  BY <1>1, <1>2, <1>3 DEF Reads
<1>5. QED
  BY <1>4 DEF t

\* A step that leaves the listings alone and at most takes names from what the
\* readers are owed.
LEMMA QuietListings ==
  ASSUME IInv, dirHandles' = dirHandles,
         \A fh \in Fhs : handles'[fh] = handles[fh] \/ fh = nextFh \/ handles'[fh] = None,
         nextFh' \in {nextFh, nextFh + 1},
         \/ scans' = scans
         \/ \E X : scans' = [fh \in Fhs |-> IF scans[fh] = None THEN None
                                ELSE [scans[fh] EXCEPT !.stayed = @ \ X]]
  PROVE  ListingsSound'
<1>1. ASSUME NEW fh \in Fhs, dirHandles'[fh] # None
      PROVE  handles'[fh] = None /\ fh < nextFh'
  <2>1. handles[fh] = None /\ fh < nextFh
    BY <1>1, OldListings
  <2>2. nextFh \in Nat /\ fh \in Nat
    BY OldPins DEF Fhs
  <2>3. QED
    BY <2>1, <2>2
<1>2. scans' = [fh \in Fhs |-> scans'[fh]]
  BY OldListings
<1>3. CASE scans' = scans
  BY <1>1, <1>2, <1>3, OldListings, ListingsStep
<1>4. ASSUME NEW X, scans' = [fh \in Fhs |-> IF scans[fh] = None THEN None
                                 ELSE [scans[fh] EXCEPT !.stayed = @ \ X]]
      PROVE  ListingsSound'
  <2>1. ASSUME NEW fh \in Fhs PROVE Reads(dirHandles'[fh], scans'[fh])
    <3>1. CASE scans[fh] = None
      BY <1>4, <3>1 DEF Reads
    <3>2. CASE scans[fh] # None
      <4>1. scans'[fh] = [scans[fh] EXCEPT !.stayed = @ \ X]
        BY <1>4, <3>2
      <4>2. scans[fh] \in Scan /\ Reads(dirHandles[fh], scans[fh]) /\ None \notin Scan
        BY <3>2, OldListings
      <4>3. Reads(dirHandles[fh], [scans[fh] EXCEPT !.stayed = @ \ X])
        BY <4>2, ForgetReads
      <4>4. QED
        BY <4>1, <4>3
    <3>3. QED
      BY <3>1, <3>2
  <2>2. dirHandles' \in [Fhs -> Seq(Row) \cup {None}]
    BY OldListings
  <2>3. QED
    BY <1>1, <1>2, <2>1, <2>2, ListingsStep
<1>5. QED
  BY <1>3, <1>4

LEMMA ConcatFacts ==
  ASSUME NEW S, NEW u \in Seq(S), NEW v \in Seq(S)
  PROVE  /\ u \o v \in Seq(S) /\ Len(u \o v) = Len(u) + Len(v)
         /\ \A i \in 1 .. Len(u) : (u \o v)[i] = u[i]
         /\ \A i \in Len(u) + 1 .. Len(u) + Len(v) : (u \o v)[i] = v[i - Len(u)]
OBVIOUS

\* The frozen listing names every entry once, behind "." and "..".
LEMMA SnapshotFacts ==
  ASSUME IInv
  PROVE  /\ SnapshotDir \in Seq(Row)
         /\ \A i, j \in DOMAIN SnapshotDir : SnapshotDir[i] = SnapshotDir[j] => i = j
         /\ Listed \cup {".", ".."} \subseteq RowsOf(SnapshotDir)
<1> DEFINE e == [k \in DOMAIN dir |-> dir[k].name]
           a == <<".", "..">>
           L == Len(dir)
<1>1. L \in Nat /\ DOMAIN dir = 1 .. L /\ \A k \in 1 .. L : dir[k] \in Entry
  BY OldNames
<1>2. \A k \in 1 .. L : dir[k].name \in Names
  BY <1>1 DEF Entry
<1>3. e \in Seq(Row) /\ Len(e) = L /\ \A k \in 1 .. L : e[k] = dir[k].name
  BY <1>1, <1>2 DEF Row
<1>4. a \in Seq(Row) /\ Len(a) = 2 /\ a[1] = "." /\ a[2] = ".." /\ "." # ".."
  BY DEF Row
<1>5. SnapshotDir = a \o e
  BY DEF SnapshotDir
<1> HIDE DEF e, a
<1> DEFINE r == a \o e
<1>6. /\ r \in Seq(Row) /\ Len(r) = L + 2 /\ r[1] = "." /\ r[2] = ".."
      /\ \A i \in 3 .. L + 2 : r[i] = e[i - 2]
  <2>1. a \in Seq(Row) /\ e \in Seq(Row)
    BY <1>3, <1>4
  <2>2. /\ r \in Seq(Row) /\ Len(r) = Len(a) + Len(e)
        /\ \A i \in 1 .. Len(a) : r[i] = a[i]
        /\ \A i \in Len(a) + 1 .. Len(a) + Len(e) : r[i] = e[i - Len(a)]
    BY <2>1, ConcatFacts
  <2> HIDE DEF r
  <2>3. Len(r) = L + 2 /\ r[1] = "." /\ r[2] = ".."
    BY <1>1, <1>3, <1>4, <2>2
  <2>4. \A i \in 3 .. L + 2 : r[i] = e[i - 2]
    BY <1>1, <1>3, <1>4, <2>2
  <2>5. QED
    BY <2>2, <2>3, <2>4
<1> HIDE DEF r
<1>7. DOMAIN r = 1 .. L + 2
  BY <1>1, <1>6
<1>8. \A i \in 3 .. L + 2 : i - 2 \in 1 .. L /\ r[i] = dir[i - 2].name
  BY <1>1, <1>3, <1>6
<1>9. \A i \in 3 .. L + 2 : r[i] # "." /\ r[i] # ".."
  BY <1>2, <1>8, SessionAssumption
<1>10. \A i, j \in 3 .. L + 2 : r[i] = r[j] => i = j
  <2>1. UniqueNames(dir)
    BY OldNames
  <2>2. ASSUME NEW i \in 3 .. L + 2, NEW j \in 3 .. L + 2, r[i] = r[j] PROVE i = j
    <3>1. i - 2 = j - 2
      BY <1>1, <1>8, <2>1, <2>2 DEF UniqueNames
    <3>2. QED
      BY <1>1, <3>1
  <2>3. QED
    BY <2>2
<1>11. \A i \in DOMAIN r : i = 1 \/ i = 2 \/ i \in 3 .. L + 2
  BY <1>1, <1>7
<1>12. \A i, j \in DOMAIN r : r[i] = r[j] => i = j
  BY <1>4, <1>6, <1>9, <1>10, <1>11
<1>13. ASSUME NEW n \in Listed PROVE n \in RowsOf(r)
  <2>1. PICK k \in DOMAIN dir : n = dir[k].name
    BY DEF Listed
  <2>2. k + 2 \in DOMAIN r /\ k + 2 \in 3 .. L + 2 /\ (k + 2) - 2 = k
    BY <1>1, <1>7, <2>1
  <2>3. r[k + 2] = n
    BY <1>8, <2>1, <2>2
  <2>4. QED
    BY <2>2, <2>3 DEF RowsOf
<1>14. "." \in RowsOf(r) /\ ".." \in RowsOf(r)
  BY <1>1, <1>6, <1>7 DEF RowsOf
<1>15. QED
  BY <1>5, <1>6, <1>12, <1>13, <1>14 DEF r

LEMMA SubSeqFacts ==
  ASSUME NEW S, NEW q \in Seq(S), NEW c \in Nat, NEW l \in c + 1 .. Len(q)
  PROVE  /\ SubSeq(q, c + 1, l) \in Seq(S) /\ Len(SubSeq(q, c + 1, l)) = l - c
         /\ \A k \in 1 .. l - c : SubSeq(q, c + 1, l)[k] = q[c + k]
OBVIOUS

\* A readdir: the rows behind the cookie are new ones, and an empty reply means
\* that there are none.
LEMMA ReadFacts ==
  ASSUME NEW rows \in Seq(Row), NEW s \in Scan, ScanAt(rows, s), NEW room \in Nat \ {0},
         NEW last, last = IF s.cookie + room < Len(rows) THEN s.cookie + room ELSE Len(rows),
         NEW new, new = ToSet(SubSeq(rows, s.cookie + 1, last)),
         NEW t, t = IF last <= s.cookie THEN [s EXCEPT !.done = TRUE]
                    ELSE [s EXCEPT !.cookie = Cookie(last), !.got = s.got \cup new,
                                   !.again = s.again \cup (s.got \cap new)]
  PROVE  t \in Scan /\ ScanAt(rows, t)
<1> DEFINE c == s.cookie
           L == Len(rows)
<1>1. L \in Nat /\ DOMAIN rows = 1 .. L /\ c \in 0 .. L /\ \A i \in 1 .. L : rows[i] \in Row
  BY DEF ScanAt
<1>2. /\ s = [cookie |-> s.cookie, got |-> s.got, again |-> s.again, stayed |-> s.stayed,
              done |-> s.done]
      /\ s.got \subseteq Row /\ s.again = {} /\ s.stayed \subseteq Names /\ s.done \in BOOLEAN
  BY DEF Scan, ScanAt
<1>3. CASE last <= c
  <2>1. t = [s EXCEPT !.done = TRUE]
    BY <1>3
  <2>2. /\ t.cookie = s.cookie /\ t.got = s.got /\ t.again = s.again /\ t.done = TRUE
        /\ t.stayed = s.stayed /\ t \in Scan
    BY <2>1 DEF Scan
  <2>3. c = L
    BY <1>1, <1>3
  <2>4. QED
    BY <1>1, <2>2, <2>3 DEF ScanAt
<1>4. CASE ~(last <= c)
  <2>1. t = [s EXCEPT !.cookie = last, !.got = s.got \cup new,
                      !.again = s.again \cup (s.got \cap new)]
    BY <1>4 DEF Cookie
  <2>2. last \in c + 1 .. L /\ last \in Nat
    BY <1>1, <1>4
  <2>3. new = {rows[i] : i \in c + 1 .. last}
    <3> DEFINE b == SubSeq(rows, c + 1, last)
    <3>1. new = {b[k] : k \in DOMAIN b}
      BY DEF ToSet
    <3> HIDE DEF c, L
    <3>2. DOMAIN b = 1 .. last - c /\ \A k \in 1 .. last - c : b[k] = rows[c + k]
      <4>1. /\ b \in Seq(Row) /\ Len(b) = last - c
            /\ \A k \in 1 .. last - c : b[k] = rows[c + k]
        <5>1. c \in Nat /\ last \in c + 1 .. Len(rows)
          BY <1>1, <2>2 DEF L
        <5>2. QED
          BY <5>1, SubSeqFacts
      <4>2. QED
        BY <1>1, <2>2, <4>1
    <3> HIDE DEF b
    <3>3. ASSUME NEW x \in new PROVE \E i \in c + 1 .. last : x = rows[i]
      <4>1. PICK k \in 1 .. last - c : x = rows[c + k]
        BY <3>2, <3>1
      <4>2. c + k \in c + 1 .. last
        BY <1>1, <2>2
      <4>3. QED
        BY <4>1, <4>2
    <3>4. ASSUME NEW i \in c + 1 .. last PROVE rows[i] \in new
      <4>1. i - c \in 1 .. last - c /\ c + (i - c) = i
        BY <1>1, <2>2
      <4>2. b[i - c] = rows[i]
        BY <3>2, <4>1
      <4>3. QED
        BY <3>2, <3>1, <4>1, <4>2
    <3>5. QED
      BY <3>3, <3>4
  <2>4. \A i \in 1 .. c, j \in c + 1 .. last : rows[i] # rows[j]
    BY <1>1, <2>2 DEF ScanAt
  <2>5. s.got = {rows[i] : i \in 1 .. c}
    BY DEF ScanAt
  <2>6. s.got \cap new = {}
    BY <2>3, <2>4, <2>5
  <2>7. \A i : i \in 1 .. last <=> i \in 1 .. c \/ i \in c + 1 .. last
    BY <1>1, <2>2
  <2>8. s.got \cup new = {rows[i] : i \in 1 .. last}
    BY <2>3, <2>5, <2>7
  <2>9. new \subseteq Row
    BY <1>1, <2>2, <2>3
  <2>10. t = [cookie |-> last, got |-> s.got \cup new, again |-> {}, stayed |-> s.stayed,
              done |-> s.done]
    <3>1. s.again \cup (s.got \cap new) = {}
      BY <1>2, <2>6
    <3>2. QED
      BY <1>2, <2>1, <3>1
  <2>11. t \in Scan
    BY <1>2, <2>2, <2>9, <2>10 DEF Scan
  <2>12. /\ t.cookie = last /\ t.got = s.got \cup new /\ t.again = {} /\ t.stayed = s.stayed
         /\ t.done = s.done
    <3> DEFINE G == s.got \cup new
    <3>1. t = [cookie |-> last, got |-> G, again |-> {}, stayed |-> s.stayed, done |-> s.done]
      BY <2>10
    <3> HIDE DEF G
    <3>2. /\ t.cookie = last /\ t.got = G /\ t.again = {} /\ t.stayed = s.stayed
          /\ t.done = s.done
      BY ONLY <3>1
    <3>3. QED
      BY <3>2 DEF G
  <2>13. t.done => t.cookie = L
    BY <1>1, <2>2, <2>12 DEF ScanAt
  <2>14. t.cookie \in 0 .. L
    BY <1>1, <2>2, <2>12
  <2>15. QED
    BY <2>8, <2>11, <2>12, <2>13, <2>14 DEF ScanAt
<1>5. QED
  BY <1>3, <1>4

LEMMA ReaddirListings ==
  ASSUME IInv, NEW fh \in Fhs, NEW room \in Buffer, Readdir(fh, room)
  PROVE  ListingsSound'
<1> DEFINE s == scans[fh]
           rows == dirHandles[fh]
           last == IF s.cookie + room < Len(rows) THEN s.cookie + room ELSE Len(rows)
           new == ToSet(SubSeq(rows, s.cookie + 1, last))
           t == IF last <= s.cookie THEN [s EXCEPT !.done = TRUE]
                ELSE [s EXCEPT !.cookie = Cookie(last), !.got = s.got \cup new,
                               !.again = s.again \cup (s.got \cap new)]
<1>1. /\ s \in Scan /\ rows # None /\ ScanAt(rows, s) /\ rows \in Seq(Row)
      /\ room \in Nat \ {0}
  BY OldListings, SessionAssumption DEF Readdir, Reads
<1>2. Rows(fh) = rows
  BY <1>1 DEF Rows
<1>3. scans' = [scans EXCEPT ![fh] = t]
  BY <1>2 DEF Readdir
<1>4. UNCHANGED <<dirHandles, handles, nextFh>>
  BY DEF Readdir, sessions
<1>5. t \in Scan /\ ScanAt(rows, t)
  <2> HIDE DEF s, rows
  <2>1. last = IF s.cookie + room < Len(rows) THEN s.cookie + room ELSE Len(rows)
    OBVIOUS
  <2> HIDE DEF last
  <2>2. new = ToSet(SubSeq(rows, s.cookie + 1, last))
    OBVIOUS
  <2> HIDE DEF new
  <2>3. t = IF last <= s.cookie THEN [s EXCEPT !.done = TRUE]
                    ELSE [s EXCEPT !.cookie = Cookie(last), !.got = s.got \cup new,
                                   !.again = s.again \cup (s.got \cap new)]
    OBVIOUS
  <2> HIDE DEF t
  <2>4. QED
    BY <1>1, <2>1, <2>2, <2>3, ReadFacts
<1> HIDE DEF t, last, new
<1>6. /\ scans'[fh] = t /\ \A g \in Fhs \ {fh} : scans'[g] = scans[g]
      /\ scans' = [g \in Fhs |-> scans'[g]]
  BY <1>3, OldListings
<1>7. ASSUME NEW g \in Fhs PROVE Reads(dirHandles'[g], scans'[g])
  <2>1. CASE g = fh
    BY <1>1, <1>4, <1>5, <1>6, <2>1 DEF Reads
  <2>2. CASE g # fh
    BY <1>4, <1>6, <2>2, OldListings
  <2>3. QED
    BY <2>1, <2>2
<1>8. QED
  BY <1>4, <1>6, <1>7, OldListings, ListingsStep

LEMMA OpendirListings == ASSUME IInv, Opendir PROVE ListingsSound'
<1> DEFINE r == SnapshotDir
           t == [cookie |-> 0, got |-> {}, again |-> {}, stayed |-> Listed, done |-> FALSE]
<1>1. /\ nextFh \in Fhs /\ dirHandles' = [dirHandles EXCEPT ![nextFh] = r]
      /\ scans' = [scans EXCEPT ![nextFh] = t]
      /\ nextFh' = nextFh + 1 /\ handles' = handles
  BY OldPins DEF Opendir, Fhs
<1>2. /\ r \in Seq(Row) /\ (\A i, j \in DOMAIN r : r[i] = r[j] => i = j)
      /\ Listed \cup {".", ".."} \subseteq RowsOf(r)
  BY SnapshotFacts
<1>3. r # None
  BY <1>2, OldListings
<1>4. t \in Scan /\ t.cookie = 0 /\ t.got = {} /\ t.again = {} /\ t.stayed = Listed /\ t.done = FALSE
  <2>1. Listed \subseteq Names
    BY OldNames, DirFacts
  <2>2. QED
    BY <2>1 DEF Scan
<1> HIDE DEF r, t
<1>5. ScanAt(r, t)
  <2>1. t.cookie \in 0 .. Len(r) /\ t.got = {r[i] : i \in 1 .. t.cookie}
    <3>1. Len(r) \in Nat
      BY <1>2
    <3>2. 1 .. t.cookie = {}
      BY <1>4
    <3>3. QED
      BY <1>4, <3>1, <3>2
  <2>2. QED
    BY <1>2, <1>4, <2>1 DEF ScanAt
<1>6. /\ scans'[nextFh] = t /\ dirHandles'[nextFh] = r
      /\ \A g \in Fhs \ {nextFh} : scans'[g] = scans[g] /\ dirHandles'[g] = dirHandles[g]
      /\ scans' = [g \in Fhs |-> scans'[g]]
      /\ dirHandles' \in [Fhs -> Seq(Row) \cup {None}]
  BY <1>1, <1>2, OldListings
<1>7. ASSUME NEW g \in Fhs PROVE Reads(dirHandles'[g], scans'[g])
  <2>1. CASE g = nextFh
    BY <1>3, <1>4, <1>5, <1>6, <2>1 DEF Reads
  <2>2. CASE g # nextFh
    BY <1>6, <2>2, OldListings
  <2>3. QED
    BY <2>1, <2>2
<1>8. ASSUME NEW g \in Fhs, dirHandles'[g] # None PROVE handles'[g] = None /\ g < nextFh'
  <2>1. handles[nextFh] = None /\ nextFh \in Nat /\ g \in Nat
    BY <1>1, OldPins DEF Fhs
  <2>2. QED
    BY <1>1, <1>6, <1>8, <2>1, OldListings
<1>9. QED
  BY <1>6, <1>7, <1>8, ListingsStep

LEMMA ReleasedirListings == ASSUME IInv, NEW fh \in Fhs, Releasedir(fh) PROVE ListingsSound'
<1>1. /\ dirHandles' = [dirHandles EXCEPT ![fh] = None] /\ scans' = [scans EXCEPT ![fh] = None]
      /\ UNCHANGED <<handles, nextFh>>
  BY DEF Releasedir
<1>2. /\ scans'[fh] = None /\ dirHandles'[fh] = None
      /\ \A g \in Fhs \ {fh} : scans'[g] = scans[g] /\ dirHandles'[g] = dirHandles[g]
      /\ scans' = [g \in Fhs |-> scans'[g]]
      /\ dirHandles' \in [Fhs -> Seq(Row) \cup {None}]
  BY <1>1, OldListings
<1>3. ASSUME NEW g \in Fhs PROVE Reads(dirHandles'[g], scans'[g])
  <2>1. CASE g = fh
    BY <1>2, <2>1 DEF Reads
  <2>2. CASE g # fh
    BY <1>2, <2>2, OldListings
  <2>3. QED
    BY <2>1, <2>2
<1>4. \A g \in Fhs : dirHandles'[g] # None => handles'[g] = None /\ g < nextFh'
  BY <1>1, <1>2, OldListings
<1>5. QED
  BY <1>2, <1>3, <1>4, ListingsStep

LEMMA NextListings == IInv /\ [Next]_vars => ListingsSound'
<1> SUFFICES ASSUME IInv, [Next]_vars PROVE ListingsSound'
  OBVIOUS
<1>1. ASSUME UNCHANGED <<handles, dirHandles, nextFh, scans>> PROVE ListingsSound'
  BY <1>1, QuietListings
<1>2. ASSUME NEW id, InsertHandle(id), UNCHANGED scans PROVE ListingsSound'
  <2>1. /\ nextFh \in Fhs /\ nextFh' = nextFh + 1 /\ dirHandles' = dirHandles
        /\ \A fh \in Fhs \ {nextFh} : handles'[fh] = handles[fh]
    BY <1>2, OldPins DEF InsertHandle, Fhs
  <2>2. dirHandles[nextFh] = None
    BY <2>1, OldListings DEF Fhs
  <2>3. ASSUME NEW fh \in Fhs, dirHandles'[fh] # None PROVE handles'[fh] = None /\ fh < nextFh'
    <3>1. fh # nextFh /\ handles'[fh] = handles[fh] /\ fh \in Nat /\ nextFh \in Nat
      BY <2>1, <2>2, <2>3 DEF Fhs
    <3>2. QED
      BY <2>1, <2>3, <3>1, OldListings
  <2>4. dirHandles' \in [Fhs -> Seq(Row) \cup {None}] /\ scans' = [fh \in Fhs |-> scans'[fh]]
    BY <1>2, <2>1, OldListings
  <2>5. \A fh \in Fhs : Reads(dirHandles'[fh], scans'[fh])
    BY <1>2, <2>1, OldListings
  <2>6. QED
    BY <2>3, <2>4, <2>5, ListingsStep
<1>3. ASSUME NEW X, UNCHANGED <<handles, dirHandles, nextFh>>,
             scans' = [fh \in Fhs |-> IF scans[fh] = None THEN None
                          ELSE [scans[fh] EXCEPT !.stayed = @ \ X]]
      PROVE  ListingsSound'
  BY <1>3, QuietListings
<1>4. ASSUME NEW n \in Names, NEW id \in Ids,
             \/ Mkdir(n, id) \/ Create(n, id)
             \/ \E kind \in {"file", "dir"} : NewNodeFails(n, id, kind)
      PROVE  ListingsSound'
  BY <1>1, <1>2, <1>4 DEF Mkdir, Create, NewNodeFails, sessions
<1>5. ASSUME NEW n \in Names, Unlink(n) \/ Rmdir(n) PROVE ListingsSound'
  BY <1>3, <1>5 DEF Unlink, Rmdir, Forget, sessions
<1>6. ASSUME NEW m \in Names, NEW n \in Names, Rename(m, n) PROVE ListingsSound'
  <2>1. UNCHANGED <<handles, dirHandles, nextFh>>
    BY <1>6 DEF Rename, sessions
  <2>2. CASE scans' = scans
    BY <1>1, <2>1, <2>2
  <2>3. CASE scans' = [fh \in Fhs |-> IF scans[fh] = None THEN None
                          ELSE [scans[fh] EXCEPT !.stayed = @ \ {m, n}]]
    BY <1>3, <2>1, <2>3
  <2>4. QED
    BY <1>6, <2>2, <2>3 DEF Rename, Forget
<1>7. ASSUME NEW id \in Ids, NEW n \in Names, Link(id, n) PROVE ListingsSound'
  BY <1>1, <1>7 DEF Link, sessions
<1>8. ASSUME NEW id \in Ids, NEW size \in {0, 1}, Setattr(id, size) PROVE ListingsSound'
  BY <1>1, <1>8 DEF Setattr, sessions
<1>9. ASSUME NEW id \in Ids, NEW trunc \in BOOLEAN, Open(id, trunc) PROVE ListingsSound'
  BY <1>1, <1>2, <1>9 DEF Open, sessions
<1>10. ASSUME NEW fh \in Fhs, Write(fh) \/ Release(fh) \/ Read(fh) \/ Releasedir(fh)
       PROVE  ListingsSound'
  <2>1. CASE Write(fh)
    BY <1>1, <2>1 DEF Write, sessions
  <2>2. CASE Release(fh)
    <3>1. /\ UNCHANGED <<dirHandles, nextFh, scans>>
          /\ \A g \in Fhs : handles'[g] = handles[g] \/ handles'[g] = None
      BY <2>2, OldPins DEF Release
    <3>2. QED
      BY <3>1, QuietListings
  <2>3. CASE Read(fh)
    BY <2>3, ReaddirListings DEF Read
  <2>4. CASE Releasedir(fh)
    BY <2>4, ReleasedirListings
  <2>5. QED
    BY <1>10, <2>1, <2>2, <2>3, <2>4
<1>11. CASE UNCHANGED vars
  BY <1>1, <1>11 DEF vars
<1>12. QED
  BY <1>4, <1>5, <1>6, <1>7, <1>8, <1>9, <1>10, <1>11, OpendirListings DEF Next, Ask

----------------------------------------------------------------------------
(* The invariant, and what follows from it. *)

LEMMA InitIInv == Init => IInv
<1> SUFFICES ASSUME Init PROVE IInv
  OBVIOUS
<1>1. /\ dir = <<>> /\ ino = [id \in Ids |-> Blank(0)] /\ free = Ids
      /\ opens = [id \in Ids |-> 0] /\ handles = [fh \in Fhs |-> None]
      /\ dirHandles = [fh \in Fhs |-> None] /\ nextFh = 1
      /\ scans = [fh \in Fhs |-> None] /\ fails = 0 /\ torn = {}
  BY DEF Init
<1>2. /\ MaxFh \in Nat /\ MaxGen \in Nat /\ MaxFails \in Nat
      /\ 0 \in 0 .. MaxGen /\ 0 \in 0 .. MaxFh /\ 0 \in 0 .. MaxFails
  BY SessionAssumption
<1>3. Blank(0) \in Inode /\ Blank(0).kind = "none" /\ Blank(0).nlink = 0
  BY <1>2, BlankFacts
<1>4. TypeOK
  <2>1. dir \in Seq(Entry)
    BY <1>1
  <2>2. ino \in [Ids -> Inode] /\ free \subseteq Ids
    BY <1>1, <1>3
  <2>3. QED
    BY <1>1, <1>2, <2>1, <2>2 DEF TypeOK
<1>5. PinsExact
  <2>1. ASSUME NEW id \in Ids PROVE opens[id] = Cardinality({fh \in Fhs : handles[fh] = id})
    <3>1. {fh \in Fhs : handles[fh] = id} = {}
      BY <1>1, SessionSentinel
    <3>2. QED
      BY <1>1, <3>1, FS_EmptySet
  <2>2. QED
    BY <2>1 DEF PinsExact
<1>6. LinksAgree
  <2>1. Entries(dir) = {} /\ UniqueNames(dir)
    BY <1>1 DEF Entries, UniqueNames
  <2>2. ASSUME NEW id \in Ids
        PROVE  Agree(NamesIn(Entries(dir), id), ino[id], id \in free, opens[id])
    <3>1. NamesIn(Entries(dir), id) = {}
      BY <2>1 DEF NamesIn
    <3>2. Cardinality({}) = 0
      BY FS_EmptySet
    <3>3. ino[id].kind = "none" /\ ino[id].nlink = 0 /\ id \in free /\ opens[id] = 0
      BY <1>1, <1>3
    <3>4. QED
      BY <3>1, <3>2, <3>3 DEF Agree
  <2>3. QED
    BY <2>1, <2>2 DEF LinksAgree
<1>7. HandlesGiven /\ ScansSound
  BY <1>1 DEF HandlesGiven, ScansSound
<1>8. QED
  BY <1>4, <1>5, <1>6, <1>7 DEF IInv

LEMMA NextIInv == IInv /\ [Next]_vars => IInv'
<1> SUFFICES ASSUME IInv, [Next]_vars PROVE IInv'
  OBVIOUS
<1>1. NamesSound' /\ PinsSound' /\ ListingsSound'
  BY NextNames, NextPins, NextListings
<1>2. TypeOK'
  BY <1>1 DEF TypeOK, NamesSound, PinsSound, ListingsSound, ListingsApart
<1>3. QED
  BY <1>1, <1>2 DEF IInv, NamesSound, PinsSound, ListingsSound

LEMMA SessionInvariant == Spec => []IInv
BY InitIInv, NextIInv, PTL DEF Spec

\* Every pin of an inode is a handle the kernel holds, and no number is both a
\* file handle and a listing, whatever opens fail half way.
THEOREM PinsAreHandles == Spec => []HandlesSound
<1>1. IInv => HandlesSound
  BY DEF IInv, HandlesSound
<1>2. QED
  BY <1>1, SessionInvariant, PTL

LEMMA Reclaimed == IInv => ReclaimedExactly
<1> SUFFICES ASSUME IInv, NEW id \in Ids, id \notin torn
             PROVE  /\ id \in free => id \notin Known
                    /\ ino[id].kind # "dir" /\ id \notin Known => id \in free
  BY DEF ReclaimedExactly
<1> DEFINE N == NamesIn(Entries(dir), id)
<1>1. Agree(N, ino[id], id \in free, opens[id]) /\ opens[id] \in Nat /\ ino[id] \in Inode
  BY OldNames
<1>2. id \in Known <=> N # {} \/ opens[id] > 0
  BY OldNames, DirFacts
<1>3. IsFiniteSet(N) /\ Cardinality(N) \in Nat /\ (Cardinality(N) = 0 <=> N = {})
  BY NamesFinite, FS_EmptySet
<1>4. ino[id].kind \in {"none", "file", "dir"}
  BY <1>1, InodeFacts
<1> HIDE DEF N
<1>5. QED
  BY <1>1, <1>2, <1>3, <1>4 DEF Agree

\* unlink, rename, rmdir and the last release agree on who reclaims an inode: a
\* file is on the free list exactly when it has neither a name nor a handle.  A
\* request that fails half way breaks this for the inodes it tears only.
THEOREM ReclaimIsExact == Spec => []ReclaimedExactly
BY Reclaimed, SessionInvariant, PTL

\* A paginated scan returns no name twice and, at its end, every name that was
\* there all along, however the directory changes between two readdir calls.
THEOREM ScansAreExact == Spec => []ScanExact
<1>1. IInv => ScanExact
  <2> SUFFICES ASSUME IInv, NEW fh \in Fhs, scans[fh] # None
               PROVE  /\ scans[fh].again = {}
                      /\ scans[fh].done => scans[fh].stayed \cup {".", ".."} \subseteq scans[fh].got
    BY DEF ScanExact
  <2> DEFINE s == scans[fh]
             rows == dirHandles[fh]
  <2>1. ScanAt(rows, s) /\ rows \in Seq(Row)
    BY OldListings DEF Reads
  <2> HIDE DEF s, rows
  <2>2. DOMAIN rows = 1 .. Len(rows)
    BY <2>1
  <2>3. s.done => s.got = RowsOf(rows)
    BY <2>1, <2>2 DEF ScanAt, RowsOf
  <2>4. s.again = {} /\ (s.done => s.stayed \cup {".", ".."} \subseteq s.got)
    BY <2>1, <2>3 DEF ScanAt
  <2>5. QED
    BY <2>4 DEF s
<1>2. QED
  BY <1>1, SessionInvariant, PTL

\* The inode of an open handle is pinned.
LEMMA Pinned ==
  ASSUME IInv, NEW fh \in Fhs, handles[fh] # None, handles[fh] \notin torn
  PROVE  /\ handles[fh] \in Ids /\ opens[handles[fh]] > 0 /\ handles[fh] \notin free
         /\ ino[handles[fh]].kind = "file"
<1> DEFINE id == handles[fh]
<1>1. id \in Ids /\ opens[id] \in Nat \ {0}
  BY HandlePins
<1>2. Agree(NamesIn(Entries(dir), id), ino[id], id \in free, opens[id]) /\ ino[id] \in Inode
  BY <1>1, OldNames
<1> HIDE DEF id
<1>3. id \notin free /\ ino[id].kind = "file"
  BY <1>1, <1>2, InodeFacts DEF Agree
<1>4. QED
  BY <1>1, <1>3 DEF id

\* No request moves a pinned inode to another generation, but the release of its
\* last handle.
LEMMA GenKept ==
  ASSUME IInv, Next, NEW fh \in Fhs, handles[fh] # None, handles[fh] \notin torn,
         handles'[fh] = handles[fh]
  PROVE  ino'[handles[fh]].gen = ino[handles[fh]].gen
<1> DEFINE h == handles[fh]
<1>1. h \in Ids /\ opens[h] > 0 /\ h \notin free /\ ino[h].kind = "file" /\ h \notin torn
  BY Pinned
<1>2. ino \in [Ids -> Inode]
  BY OldNames
<1> HIDE DEF h
<1>3. ASSUME NEW n \in Names, NEW id \in Ids,
             \/ Mkdir(n, id) \/ Create(n, id)
             \/ \E kind \in {"file", "dir"} : NewNodeFails(n, id, kind)
      PROVE  ino'[h].gen = ino[h].gen
  <2>1. id \in free /\ \A j \in Ids \ {id} : ino'[j] = ino[j]
    BY <1>2, <1>3 DEF Mkdir, Create, NewNodeFails, NewNode, NewInode
  <2>2. QED
    BY <1>1, <2>1
<1>4. ASSUME NEW n, n \in Listed, DropLink(Target(n), opens[Target(n)])
      PROVE  ino'[h].gen = ino[h].gen
  <2>1. Target(n) \in Ids /\ n \in NamesIn(Entries(dir), Target(n))
    BY <1>4, OldNames, DirFacts DEF NamesIn
  <2>2. Others({Target(n)}) /\ (opens[Target(n)] > 0 => ino'[Target(n)].gen = ino[Target(n)].gen)
    BY <1>4, <2>1, DropLinkFacts
  <2>3. QED
    BY <1>1, <2>2 DEF Others
<1>5. ASSUME NEW n \in Names, Unlink(n) PROVE ino'[h].gen = ino[h].gen
  BY <1>4, <1>5 DEF Unlink
<1>6. ASSUME NEW n \in Names, Rmdir(n) PROVE ino'[h].gen = ino[h].gen
  <2>1. Target(n) # h
    BY <1>1, <1>6 DEF Rmdir
  <2>2. ino' = [ino EXCEPT ![Target(n)] = Blank(ino[Target(n)].gen + 1)]
    BY <1>6 DEF Rmdir, Reclaim
  <2>3. QED
    BY <1>1, <1>2, <2>1, <2>2
<1>7. ASSUME NEW m \in Names, NEW n \in Names, Rename(m, n) PROVE ino'[h].gen = ino[h].gen
  BY <1>4, <1>7 DEF Rename, names
<1>8. ASSUME NEW id \in Ids, NEW n \in Names, Link(id, n) PROVE ino'[h].gen = ino[h].gen
  BY <1>1, <1>2, <1>8 DEF Link, Inode
<1>9. ASSUME Touched PROVE ino'[h].gen = ino[h].gen
  BY <1>1, <1>9 DEF Touched
<1>10. ASSUME NEW id \in Ids, NEW size \in {0, 1}, Setattr(id, size)
       PROVE  ino'[h].gen = ino[h].gen
  BY <1>9, <1>10, SetattrTouches
<1>11. ASSUME NEW id \in Ids, NEW trunc \in BOOLEAN, Open(id, trunc)
       PROVE  ino'[h].gen = ino[h].gen
  <2>1. CASE OpenTakes(id, trunc)
    BY <1>9, <2>1, OpenTouches
  <2>2. CASE OpenFail(id)
    <3>1. Others({id}) /\ (id \notin torn => ino' = ino)
      BY <1>11, <2>2, OpenCases, OpenFailFacts
    <3>2. QED
      BY <1>1, <3>1 DEF Others
  <2>3. QED
    BY <1>11, <2>1, <2>2, OpenCases
<1>12. ASSUME Opendir PROVE ino'[h].gen = ino[h].gen
  BY <1>12 DEF Opendir, names
<1>13. ASSUME NEW g \in Fhs, Write(g) \/ Release(g) \/ Read(g) \/ Releasedir(g)
       PROVE  ino'[h].gen = ino[h].gen
  <2>1. CASE Write(g)
    BY <1>9, <2>1, WriteTouches
  <2>2. CASE Release(g)
    <3>1. handles[g] # None /\ handles' = [handles EXCEPT ![g] = None]
          /\ ClosePin(handles[g], opens[handles[g]])
      BY <2>2 DEF Release
    <3>2. CASE handles[g] # h
      <4>1. handles[g] \in Ids
        BY <3>1, OldPins
      <4>2. \/ ino' = [ino EXCEPT ![handles[g]] = Blank(ino[handles[g]].gen + 1)]
            \/ ino' = ino
        BY <3>1 DEF ClosePin, Reclaim
      <4>3. QED
        BY <1>1, <1>2, <3>2, <4>1, <4>2
    <3>3. CASE handles[g] = h
      <4>1. g # fh
        <5>1. handles'[g] = None
          BY <3>1, OldPins
        <5>2. QED
          BY <3>1, <3>3, <5>1 DEF h
      <4>2. g \in Pinning(handles, h) /\ fh \in Pinning(handles, h)
        BY <3>3 DEF Pinning, h
      <4>3. Cardinality(Pinning(handles, h)) # 1
        <5>1. Cardinality(Pinning(handles, h)) = 1 => Pinning(handles, h) = {g}
          BY <4>2, PinningFinite, CountFacts
        <5>2. QED
          BY <4>1, <4>2, <5>1
      <4>4. opens[h] # 1
        BY <1>1, <4>3, OldPins
      <4>5. ino' = ino
        BY <3>1, <3>3, <4>4 DEF ClosePin
      <4>6. QED
        BY <4>5
    <3>4. QED
      BY <3>2, <3>3
  <2>3. CASE Read(g)
    BY <2>3 DEF Read, Readdir, names
  <2>4. CASE Releasedir(g)
    BY <2>4 DEF Releasedir, names
  <2>5. QED
    BY <1>13, <2>1, <2>2, <2>3, <2>4
<1>14. ino'[h].gen = ino[h].gen
  BY <1>3, <1>5, <1>6, <1>7, <1>8, <1>10, <1>11, <1>12, <1>13 DEF Next, Ask, vars
<1>15. QED
  BY <1>14 DEF h

\* As long as a handle is open, the inode number its reads and writes go by is
\* not given to another file, whoever unlinks or renames over its names, unless
\* a failed request has left its link count wrong.
THEOREM OpenFileKeepsInode == Spec => HandleKeepsInode
<1>1. IInv /\ [Next]_vars =>
        [\A fh \in Fhs : handles[fh] \notin torn \cup {None} /\ handles'[fh] = handles[fh] =>
            ino'[handles[fh]].gen = ino[handles[fh]].gen]_vars
  <2>1. ASSUME IInv, Next, NEW fh \in Fhs, handles[fh] \notin torn \cup {None},
               handles'[fh] = handles[fh]
        PROVE  ino'[handles[fh]].gen = ino[handles[fh]].gen
    BY <2>1, GenKept
  <2>2. QED
    BY <2>1
<1>2. QED
  BY <1>1, SessionInvariant, PTL DEF Spec, HandleKeepsInode
=============================================================================
