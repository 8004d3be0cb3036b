-------------------------- MODULE BlockStoreProofs --------------------------
(***************************************************************************)
(* What TLAPS proves of the data path, for any contents, any number of     *)
(* holders and any device: the tables agree, space is neither lost nor     *)
(* denied too early, commits are atomic, and what was stored, or           *)
(* committed, stays readable.                                              *)
(*                                                                         *)
(* The tables in memory and the ones of the stable snapshot obey the same  *)
(* rules, so these are stated of any dedup table t and inode table n.      *)
(***************************************************************************)
EXTENDS BlockStore, FiniteSetTheorems, TLAPS

Tables == [Keys -> Entry \cup {None}]
InodeTables == [Holders -> Ref \cup {None}]

Claimed(t) == UNION {Extent(k, t[k]) : k \in {l \in Keys : t[l] # None}}

Apart(t) ==
    \A k, l \in Keys : t[k] # None /\ t[l] # None /\ k # l =>
        Extent(k, t[k]) \cap Extent(l, t[l]) = {}

IsRef(r, k) == r # None /\ r.hash = k

Hold(n, k) == {h \in Holders : IsRef(n[h], k)}

Counted(t, n) == \A k \in Keys : t[k] # None => t[k].refs = Cardinality(Hold(n, k))

Names(t, r) == r # None => t[r.hash] # None /\ t[r.hash].start = r.start

Named(t, n) == \A h \in Holders : Names(t, n[h])

Sound(t, n) == Apart(t) /\ Counted(t, n) /\ Named(t, n)

\* The bitmap accounts for everything the tables, the deferred list and the
\* stable snapshot claim; deferred frees leave the stable snapshot's clusters
\* marked until it is replaced.
Accounted ==
    /\ Claimed(ddt) \cap (Reserved \cup deferred) = {}
    /\ Reserved \cap deferred = {}
    /\ up => (Claimed(ddt) \cup Reserved \cup deferred \cup Claimed(stable.ddt)) \subseteq used
    /\ Claimed(stable.ddt) \cap Reserved = {}
    /\ (Claimed(stable.ddt) \cup Reserved) \subseteq stable.used

\* Where a commit, and the write that waits for it, stand.
Progress ==
    /\ ~up => /\ ddt = EmptyTable /\ inodes = EmptyInodes
              /\ used = {} /\ deferred = {} /\ phase = "idle" /\ want = None
    /\ phase = "flipped" => stable = Snapshot
    /\ phase = "retry" => want # None /\ deferred = {}
    /\ want # None => ddt[want[2]] = None

IInv ==
    /\ TypeOK
    /\ Sound(ddt, inodes) /\ Sound(stable.ddt, stable.inodes)
    /\ Accounted /\ Progress /\ NoSpaceIsReal

Readable(t, img) ==
    \A k \in Keys : t[k] # None =>
        \A a \in Extent(k, t[k]) : img[a] = [hash |-> k, part |-> a - t[k].start]

\* What is on the device, given that a failed sync keeps what it did not write.
DataInv ==
    /\ Readable(ddt, Image)
    /\ Readable(stable.ddt, disk)
    /\ Claimed(stable.ddt) \cap Dirty = {}
    /\ phase = "synced" => Dirty = {}

----------------------------------------------------------------------------
(* Dedup tables and inode tables. *)

LEMMA ClaimedMember ==
  ASSUME NEW t, NEW a
  PROVE  a \in Claimed(t) <=> \E k \in Keys : t[k] # None /\ a \in Extent(k, t[k])
BY DEF Claimed

\* A table's claims follow from its entries: which are live, and where.
LEMMA ClaimedSame ==
  ASSUME NEW t, NEW u,
         \A k \in Keys : (t[k] # None <=> u[k] # None)
                       /\ (t[k] # None => t[k].start = u[k].start)
  PROVE  Claimed(t) = Claimed(u)
<1>1. \A k \in Keys : t[k] # None => Extent(k, t[k]) = Extent(k, u[k])
  BY DEF Extent
<1>2. ASSUME NEW a PROVE a \in Claimed(t) <=> a \in Claimed(u)
  BY <1>1, ClaimedMember
<1>3. QED
  BY <1>2

LEMMA HoldFinite ==
  ASSUME NEW n, NEW k
  PROVE  IsFiniteSet(Hold(n, k)) /\ Cardinality(Hold(n, k)) \in Nat
<1>1. Hold(n, k) \subseteq Holders
  BY DEF Hold
<1>2. QED
  BY <1>1, StoreAssumption, FS_Subset, FS_CardinalityType

\* A holder that changes its Ref moves one unit of the count.
LEMMA HoldReplace ==
  ASSUME NEW n \in InodeTables, NEW h \in Holders, NEW r, NEW k
  PROVE  Cardinality(Hold([n EXCEPT ![h] = r], k)) + (IF IsRef(n[h], k) THEN 1 ELSE 0)
         = Cardinality(Hold(n, k)) + (IF IsRef(r, k) THEN 1 ELSE 0)
<1> DEFINE m == [n EXCEPT ![h] = r]
           A == Hold(n, k)
           B == Hold(m, k)
           O == A \ {h}
<1>1. m[h] = r /\ \A g \in Holders : g # h => m[g] = n[g]
  BY DEF InodeTables
<1>2. /\ B \ {h} = O
      /\ h \in A <=> IsRef(n[h], k)
      /\ h \in B <=> IsRef(r, k)
  BY <1>1 DEF Hold
<1>3. IsFiniteSet(A) /\ IsFiniteSet(B) /\ Cardinality(A) \in Nat /\ Cardinality(B) \in Nat
  BY HoldFinite
<1>4. ASSUME NEW S, IsFiniteSet(S), Cardinality(S) \in Nat
      PROVE  Cardinality(S \ {h}) = IF h \in S THEN Cardinality(S) - 1 ELSE Cardinality(S)
  BY <1>4, FS_RemoveElement
<1> HIDE DEF A, B, O
<1>5. Cardinality(O) = IF IsRef(n[h], k) THEN Cardinality(A) - 1 ELSE Cardinality(A)
  BY <1>2, <1>3, <1>4 DEF O
<1>6. Cardinality(O) = IF IsRef(r, k) THEN Cardinality(B) - 1 ELSE Cardinality(B)
  BY <1>2, <1>3, <1>4
<1>7. Cardinality(B) + (IF IsRef(n[h], k) THEN 1 ELSE 0)
      = Cardinality(A) + (IF IsRef(r, k) THEN 1 ELSE 0)
  BY <1>3, <1>5, <1>6
<1>8. QED
  BY <1>7 DEF A, B

\* What Released and Freed do to the entries of a table.
LEMMA ReleasedEntries ==
  ASSUME NEW t \in Tables, NEW q \in Ref \cup {None}, Names(t, q)
  PROVE  /\ Released(t, q) \in Tables
         /\ \A k \in Keys : ~IsRef(q, k) => Released(t, q)[k] = t[k]
         /\ \A k \in Keys : IsRef(q, k) =>
               /\ t[k] # None
               /\ t[k].refs = 1 => Released(t, q)[k] = None /\ Freed(t, q) = Extent(k, t[k])
               /\ t[k].refs # 1 =>
                     /\ Released(t, q)[k].start = t[k].start
                     /\ Released(t, q)[k].refs = t[k].refs - 1
                     /\ Released(t, q)[k] # None
                     /\ Freed(t, q) = {}
         /\ q = None => Freed(t, q) = {}
<1>1. CASE q = None
  BY <1>1 DEF Released, Freed, IsRef
<1>2. CASE q # None
  <2> DEFINE k == q.hash
  <2>1. k \in Keys /\ t[k] # None /\ t[k] \in Entry /\ q \in Ref
    BY <1>2 DEF Names, Ref, Tables
  <2>2. t[k].refs \in Nat \ {0} /\ t[k].start \in Addr
    BY <2>1 DEF Entry
  <2>3. \A l \in Keys : IsRef(q, l) <=> l = k
    BY <1>2 DEF IsRef
  <2>4. Released(t, q) = [t EXCEPT ![k] = IF @.refs = 1 THEN None
                                         ELSE [start |-> @.start, refs |-> @.refs - 1]]
    BY <1>2, <2>1 DEF Released, Decr
  <2>5. Freed(t, q) = IF t[k].refs = 1 THEN Extent(k, t[k]) ELSE {}
    BY <1>2, <2>1 DEF Freed, LastRef
  <2> HIDE DEF k
  <2>6. CASE t[k].refs = 1
    BY <1>2, <2>1, <2>3, <2>4, <2>5, <2>6 DEF Tables
  <2>7. CASE t[k].refs # 1
    <3>1. [start |-> t[k].start, refs |-> t[k].refs - 1] \in Entry
      BY <2>2, <2>7 DEF Entry
    <3>2. [start |-> t[k].start, refs |-> t[k].refs - 1] # None
      BY <3>1, StoreSentinels
    <3>3. QED
      <4>1. Released(t, q)[k] = [start |-> t[k].start, refs |-> t[k].refs - 1]
        BY <2>1, <2>4, <2>7 DEF Tables
      <4>2. QED
        BY <1>2, <2>1, <2>3, <2>4, <2>5, <2>7, <3>1, <3>2, <4>1 DEF Tables
  <2>8. QED
    BY <2>6, <2>7
<1>3. QED
  BY <1>1, <1>2

\* set_data and release_data: the holder h gets r, which t already counts, and
\* its old Ref is released from t.  The tables stay sound, and t's clusters are
\* split into the ones still claimed and the ones freed.
LEMMA ReplaceSound ==
  ASSUME NEW t \in Tables, NEW n \in InodeTables, NEW h \in Holders,
         NEW r \in Ref \cup {None},
         Apart(t), Named(t, n), Names(t, r),
         \A k \in Keys : t[k] # None =>
             t[k].refs = Cardinality(Hold(n, k)) + (IF IsRef(r, k) THEN 1 ELSE 0)
  PROVE  /\ Released(t, n[h]) \in Tables
         /\ [n EXCEPT ![h] = r] \in InodeTables
         /\ Sound(Released(t, n[h]), [n EXCEPT ![h] = r])
         /\ Claimed(Released(t, n[h])) \cup Freed(t, n[h]) = Claimed(t)
         /\ Claimed(Released(t, n[h])) \cap Freed(t, n[h]) = {}
         /\ \A k \in Keys : Released(t, n[h])[k] # None =>
               t[k] # None /\ Released(t, n[h])[k].start = t[k].start
<1> DEFINE q == n[h]
           u == Released(t, q)
           m == [n EXCEPT ![h] = r]
           F == Freed(t, q)
<1>1. q \in Ref \cup {None} /\ Names(t, q)
  BY DEF InodeTables, Named
<1>2. m \in InodeTables /\ m[h] = r /\ \A g \in Holders : g # h => m[g] = n[g]
  BY DEF InodeTables
<1>3. /\ u \in Tables
      /\ \A k \in Keys : ~IsRef(q, k) => u[k] = t[k]
      /\ \A k \in Keys : IsRef(q, k) =>
            /\ t[k] # None
            /\ t[k].refs = 1 => u[k] = None /\ F = Extent(k, t[k])
            /\ t[k].refs # 1 =>
                  /\ u[k].start = t[k].start
                  /\ u[k].refs = t[k].refs - 1
                  /\ u[k] # None
                  /\ F = {}
      /\ q = None => F = {}
  BY <1>1, ReleasedEntries
<1>4. ASSUME NEW k \in Keys
      PROVE  /\ Cardinality(Hold(m, k)) + (IF IsRef(q, k) THEN 1 ELSE 0)
                 = Cardinality(Hold(n, k)) + (IF IsRef(r, k) THEN 1 ELSE 0)
             /\ Cardinality(Hold(m, k)) \in Nat /\ Cardinality(Hold(n, k)) \in Nat
  BY HoldReplace, HoldFinite
<1>5. ASSUME NEW k \in Keys, t[k] # None
      PROVE  t[k].refs = Cardinality(Hold(m, k)) + (IF IsRef(q, k) THEN 1 ELSE 0)
  BY <1>4, <1>5
<1> HIDE DEF q, u, m, F
<1>6. \A k \in Keys : u[k] # None => t[k] # None /\ u[k].start = t[k].start
  BY <1>3
<1>7. \A k \in Keys : u[k] # None => Extent(k, u[k]) = Extent(k, t[k])
  BY <1>6 DEF Extent
<1>8. Apart(u)
  BY <1>6, <1>7 DEF Apart
<1>9. Counted(u, m)
  <2> SUFFICES ASSUME NEW k \in Keys, u[k] # None
               PROVE  u[k].refs = Cardinality(Hold(m, k))
    BY DEF Counted
  <2>1. CASE IsRef(q, k)
    BY <2>1, <1>3, <1>4, <1>5
  <2>2. CASE ~IsRef(q, k)
    BY <2>2, <1>3, <1>4, <1>5
  <2>3. QED
    BY <2>1, <2>2
<1>10. Named(u, m)
  <2> SUFFICES ASSUME NEW g \in Holders, m[g] # None
               PROVE  u[m[g].hash] # None /\ u[m[g].hash].start = m[g].start
    BY DEF Named, Names
  <2> DEFINE k == m[g].hash
  <2>1. k \in Keys /\ t[k] # None /\ t[k].start = m[g].start
    BY <1>2 DEF InodeTables, Named, Names, Ref
  <2>2. g \in Hold(m, k)
    BY DEF Hold, IsRef
  <2>3. Cardinality(Hold(m, k)) # 0
    BY <2>2, HoldFinite, FS_EmptySet
  <2>4. IsRef(q, k) => t[k].refs # 1
    BY <2>1, <2>3, <1>4, <1>5
  <2>5. u[k] # None
    BY <2>1, <2>4, <1>3
  <2>6. QED
    BY <2>1, <2>5, <1>6
<1>11. Claimed(u) \cup F = Claimed(t)
  <2>1. ASSUME NEW a \in Claimed(u) PROVE a \in Claimed(t)
    BY <1>6, <1>7, ClaimedMember
  <2>2. ASSUME NEW a \in F PROVE a \in Claimed(t)
    <3>1. q # None /\ q.hash \in Keys /\ IsRef(q, q.hash)
      BY <1>1, <1>3 DEF IsRef, Ref
    <3>2. t[q.hash] # None /\ a \in Extent(q.hash, t[q.hash])
      BY <1>3, <3>1
    <3>3. QED
      BY <3>1, <3>2, ClaimedMember
  <2>3. ASSUME NEW a \in Claimed(t) PROVE a \in Claimed(u) \cup F
    <3>1. PICK k \in Keys : t[k] # None /\ a \in Extent(k, t[k])
      BY ClaimedMember
    <3>2. CASE u[k] # None
      BY <3>1, <3>2, <1>7, ClaimedMember
    <3>3. CASE u[k] = None
      BY <3>1, <3>3, <1>3
    <3>4. QED
      BY <3>2, <3>3
  <2>4. QED
    BY <2>1, <2>2, <2>3
<1>12. Claimed(u) \cap F = {}
  <2> SUFFICES ASSUME NEW a \in F, a \in Claimed(u) PROVE FALSE
    OBVIOUS
  <2>1. q # None /\ q.hash \in Keys /\ IsRef(q, q.hash)
    BY <1>1, <1>3 DEF IsRef, Ref
  <2>2. t[q.hash] # None /\ a \in Extent(q.hash, t[q.hash]) /\ u[q.hash] = None
    BY <1>3, <2>1
  <2>3. PICK k \in Keys : u[k] # None /\ a \in Extent(k, u[k])
    BY ClaimedMember
  <2>4. QED
    BY <1>6, <1>7, <2>1, <2>2, <2>3 DEF Apart
<1>13. QED
  BY <1>2, <1>3, <1>6, <1>8, <1>9, <1>10, <1>11, <1>12 DEF Sound, q, u, m, F

----------------------------------------------------------------------------
(* The steps that change what a holder holds. *)

\* The tables, the bitmap and the deferred list after such a step: typed, sound,
\* and accounting for exactly the clusters N more than before.
Stored(N) ==
    /\ used' \subseteq Addr /\ deferred' \subseteq Addr
    /\ ddt' \in Tables /\ inodes' \in InodeTables
    /\ Sound(ddt', inodes')
    /\ Accounted'
    /\ used' = used \cup N
    /\ Claimed(ddt)' \cup deferred' = Claimed(ddt) \cup deferred \cup N

LEMMA StoreStep ==
  ASSUME IInv, up, up' = up, stable' = stable,
         NEW t \in Tables, NEW h \in Holders, NEW r \in Ref \cup {None},
         NEW N, N \subseteq Addr, N \cap used = {}, used' = used \cup N,
         Apart(t), Named(t, inodes), Names(t, r),
         \A k \in Keys : t[k] # None =>
             t[k].refs = Cardinality(Hold(inodes, k)) + (IF IsRef(r, k) THEN 1 ELSE 0),
         Claimed(t) = Claimed(ddt) \cup N,
         Replace(h, r, t)
  PROVE  /\ Stored(N)
         /\ \A k \in Keys : ddt'[k] # None => t[k] # None /\ ddt'[k].start = t[k].start
<1> DEFINE F == Freed(t, inodes[h])
<1>1. inodes \in InodeTables /\ used \subseteq Addr /\ deferred \subseteq Addr
  BY DEF IInv, TypeOK, InodeTables
<1>2. /\ ddt' = Released(t, inodes[h])
      /\ inodes' = [inodes EXCEPT ![h] = r]
      /\ deferred' = deferred \cup F
  BY DEF Replace
<1>3. /\ Released(t, inodes[h]) \in Tables
      /\ [inodes EXCEPT ![h] = r] \in InodeTables
      /\ Sound(Released(t, inodes[h]), [inodes EXCEPT ![h] = r])
      /\ Claimed(Released(t, inodes[h])) \cup F = Claimed(t)
      /\ Claimed(Released(t, inodes[h])) \cap F = {}
      /\ \A k \in Keys : Released(t, inodes[h])[k] # None =>
            t[k] # None /\ Released(t, inodes[h])[k].start = t[k].start
  BY <1>1, ReplaceSound
<1>4. Claimed(ddt)' = Claimed(ddt') /\ Claimed(stable.ddt)' = Claimed(stable.ddt)
  BY DEF Claimed, Extent, Run
<1> HIDE DEF F
<1>5. /\ Claimed(ddt') \cup F = Claimed(ddt) \cup N
      /\ Claimed(ddt') \cap F = {}
  BY <1>2, <1>3
<1>6. /\ Claimed(ddt) \cap (Reserved \cup deferred) = {}
      /\ Reserved \cap deferred = {}
      /\ Claimed(ddt) \subseteq used /\ Reserved \subseteq used /\ deferred \subseteq used
      /\ Claimed(stable.ddt) \subseteq used
      /\ Claimed(stable.ddt) \cap Reserved = {}
      /\ (Claimed(stable.ddt) \cup Reserved) \subseteq stable.used
  BY DEF IInv, Accounted
<1>7. Accounted'
  <2>1. Claimed(ddt') \cap (Reserved \cup deferred') = {}
    BY <1>2, <1>5, <1>6
  <2>2. Reserved \cap deferred' = {}
    BY <1>2, <1>5, <1>6
  <2>3. (Claimed(ddt') \cup Reserved \cup deferred' \cup Claimed(stable.ddt)) \subseteq used'
    BY <1>2, <1>5, <1>6
  <2>4. QED
    BY <1>4, <1>6, <2>1, <2>2, <2>3 DEF Accounted
<1>8. deferred' \subseteq Addr
  BY <1>1, <1>2, <1>5, <1>6
<1>9. Claimed(ddt)' \cup deferred' = Claimed(ddt) \cup deferred \cup N
  BY <1>2, <1>4, <1>5
<1>10. QED
  BY <1>1, <1>2, <1>3, <1>7, <1>8, <1>9 DEF Stored

\* The table after a dedup hit: one entry's count has grown.
LEMMA HitStep ==
  ASSUME IInv, up, up' = up, stable' = stable, NEW h \in Holders, NEW k \in Keys, WriteHit(h, k)
  PROVE  /\ Stored({})
         /\ \A l \in Keys : ddt'[l] # None => ddt[l] # None /\ ddt'[l].start = ddt[l].start
<1> DEFINE t == Incr(ddt, k)
           r == [hash |-> k, start |-> ddt[k].start]
<1>1. ddt \in Tables /\ ddt[k] # None /\ ddt[k] \in Entry
  BY DEF IInv, TypeOK, Tables, WriteHit
<1>2. ddt[k].start \in Addr /\ ddt[k].refs \in Nat \ {0}
  BY <1>1 DEF Entry
<1>3. [start |-> ddt[k].start, refs |-> ddt[k].refs + 1] \in Entry
  BY <1>2 DEF Entry
<1>4. /\ t[k] = [start |-> ddt[k].start, refs |-> ddt[k].refs + 1]
      /\ \A l \in Keys : l # k => t[l] = ddt[l]
      /\ t \in Tables
  BY <1>1, <1>3 DEF Incr, Tables
<1>5. t[k] # None /\ t[k].start = ddt[k].start /\ t[k].refs = ddt[k].refs + 1
  BY <1>3, <1>4, StoreSentinels
<1>6. r \in Ref /\ r # None /\ r.hash = k /\ r.start = ddt[k].start
  BY <1>2, StoreSentinels DEF Ref
<1>7. Replace(h, r, t) /\ used' = used \cup {}
  BY DEF WriteHit
<1> HIDE DEF t, r
<1>8. \A l \in Keys : /\ t[l] # None <=> ddt[l] # None
                      /\ t[l] # None => t[l].start = ddt[l].start
  BY <1>1, <1>4, <1>5
<1>9. Claimed(t) = Claimed(ddt) \cup {}
  BY <1>8, ClaimedSame
<1>10. \A l \in Keys : t[l] # None => Extent(l, t[l]) = Extent(l, ddt[l])
  BY <1>8 DEF Extent
<1>11. Apart(t)
  BY <1>8, <1>10 DEF IInv, Sound, Apart
<1>12. Named(t, inodes) /\ Names(t, r)
  <2>1. Named(t, inodes)
    <3> SUFFICES ASSUME NEW g \in Holders, inodes[g] # None
                 PROVE  t[inodes[g].hash] # None /\ t[inodes[g].hash].start = inodes[g].start
      BY DEF Named, Names
    <3>1. inodes[g].hash \in Keys
      BY DEF IInv, TypeOK, Ref
    <3>2. ddt[inodes[g].hash] # None /\ ddt[inodes[g].hash].start = inodes[g].start
      BY DEF IInv, Sound, Named, Names
    <3>3. QED
      BY <1>8, <3>1, <3>2
  <2>2. QED
    BY <2>1, <1>5, <1>6 DEF Names
<1>13. ASSUME NEW l \in Keys, t[l] # None
       PROVE  t[l].refs = Cardinality(Hold(inodes, l)) + (IF IsRef(r, l) THEN 1 ELSE 0)
  <2>1. ddt[l] # None /\ ddt[l].refs = Cardinality(Hold(inodes, l))
    BY <1>8, <1>13 DEF IInv, Sound, Counted
  <2>2. IsRef(r, l) <=> l = k
    BY <1>6 DEF IsRef
  <2>3. Cardinality(Hold(inodes, l)) \in Nat
    BY HoldFinite
  <2>4. QED
    BY <1>4, <1>5, <2>1, <2>2, <2>3
<1>14. {} \subseteq Addr /\ {} \cap used = {}
  OBVIOUS
<1>15. /\ Stored({})
       /\ \A l \in Keys : ddt'[l] # None => t[l] # None /\ ddt'[l].start = t[l].start
  BY <1>4, <1>6, <1>7, <1>9, <1>11, <1>12, <1>13, <1>14, StoreStep
<1>16. QED
  BY <1>8, <1>15

\* A run that fits lies on the device and is free.
LEMMA FitIsFree ==
  ASSUME NEW s \in Addr, NEW n \in Nat, FirstFit(s, n)
  PROVE  Run(s, n) \subseteq Addr /\ Run(s, n) \cap used = {}
BY StoreAssumption DEF FirstFit, RunFree, Run, Addr

\* The table after a miss: a new entry, on clusters nothing claimed.
LEMMA MissStep ==
  ASSUME IInv, up, up' = up, stable' = stable, NEW h \in Holders, NEW k \in Keys,
         NEW s \in Addr, ddt[k] = None, FirstFit(s, Size[k]),
         used' = used \cup Run(s, Size[k]),
         Replace(h, [hash |-> k, start |-> s], Add(ddt, k, s))
  PROVE  /\ Stored(Run(s, Size[k]))
         /\ \A l \in Keys : ddt'[l] # None =>
               IF l = k THEN ddt'[l].start = s
               ELSE ddt[l] # None /\ ddt'[l].start = ddt[l].start
<1> DEFINE t == Add(ddt, k, s)
           r == [hash |-> k, start |-> s]
           N == Run(s, Size[k])
<1>1. ddt \in Tables
  BY DEF IInv, TypeOK, Tables
<1>2. [start |-> s, refs |-> 1] \in Entry
  BY DEF Entry
<1>3. /\ t[k] = [start |-> s, refs |-> 1]
      /\ \A l \in Keys : l # k => t[l] = ddt[l]
      /\ t \in Tables
  BY <1>1, <1>2 DEF Add, Tables
<1>4. t[k] # None /\ t[k].start = s /\ t[k].refs = 1
  BY <1>2, <1>3, StoreSentinels
<1>5. r \in Ref /\ r # None /\ r.hash = k /\ r.start = s
  BY StoreSentinels DEF Ref
<1>6. Size[k] \in Nat
  BY StoreAssumption
<1>7. N \subseteq Addr /\ N \cap used = {}
  BY <1>6, FitIsFree
<1>8. Replace(h, r, t) /\ used' = used \cup N
  OBVIOUS
<1>9. Extent(k, t[k]) = N
  BY <1>4 DEF Extent
<1> HIDE DEF t, r, N
<1>10. \A l \in Keys : l # k /\ t[l] # None => Extent(l, t[l]) = Extent(l, ddt[l]) /\ ddt[l] # None
  BY <1>3
<1>11. Claimed(t) = Claimed(ddt) \cup N
  <2>1. ASSUME NEW a PROVE a \in Claimed(t) <=> a \in Claimed(ddt) \/ a \in N
    <3>1. a \in Claimed(t) <=> \E l \in Keys : t[l] # None /\ a \in Extent(l, t[l])
      BY ClaimedMember
    <3>2. a \in Claimed(ddt) <=> \E l \in Keys : ddt[l] # None /\ a \in Extent(l, ddt[l])
      BY ClaimedMember
    <3>3. QED
      BY <1>3, <1>4, <1>9, <3>1, <3>2
  <2>2. QED
    BY <2>1
<1>12. ASSUME NEW l \in Keys, l # k, t[l] # None PROVE Extent(l, t[l]) \cap N = {}
  <2>1. Extent(l, t[l]) \subseteq Claimed(ddt)
    BY <1>10, <1>12, ClaimedMember
  <2>2. QED
    BY <1>7, <2>1 DEF IInv, Accounted
<1>13. Apart(t)
  <2>1. Apart(ddt)
    BY DEF IInv, Sound
  <2> SUFFICES ASSUME NEW l \in Keys, NEW m \in Keys, t[l] # None, t[m] # None, l # m
               PROVE  Extent(l, t[l]) \cap Extent(m, t[m]) = {}
    BY DEF Apart
  <2>2. CASE l = k
    BY <2>2, <1>9, <1>12
  <2>3. CASE m = k
    BY <2>3, <1>9, <1>12
  <2>4. CASE l # k /\ m # k
    BY <2>1, <2>4, <1>10 DEF Apart
  <2>5. QED
    BY <2>2, <2>3, <2>4
<1>14. ASSUME NEW g \in Holders, inodes[g] # None
       PROVE  /\ inodes[g].hash \in Keys /\ inodes[g].hash # k
              /\ t[inodes[g].hash] # None /\ t[inodes[g].hash].start = inodes[g].start
  <2>1. inodes[g].hash \in Keys
    BY <1>14 DEF IInv, TypeOK, Ref
  <2>2. ddt[inodes[g].hash] # None /\ ddt[inodes[g].hash].start = inodes[g].start
    BY <1>14 DEF IInv, Sound, Named, Names
  <2>3. QED
    BY <1>3, <2>1, <2>2
<1>15. Named(t, inodes) /\ Names(t, r)
  BY <1>4, <1>5, <1>14 DEF Named, Names
<1>16. ASSUME NEW l \in Keys, t[l] # None
       PROVE  t[l].refs = Cardinality(Hold(inodes, l)) + (IF IsRef(r, l) THEN 1 ELSE 0)
  <2>1. IsRef(r, l) <=> l = k
    BY <1>5 DEF IsRef
  <2>2. CASE l = k
    <3>1. Hold(inodes, k) = {}
      BY <1>14 DEF Hold, IsRef
    <3>2. Cardinality(Hold(inodes, k)) = 0
      BY <3>1, FS_EmptySet
    <3>3. QED
      BY <1>4, <2>1, <2>2, <3>2
  <2>3. CASE l # k
    <3>1. ddt[l] # None /\ t[l].refs = Cardinality(Hold(inodes, l))
      BY <1>3, <1>16, <2>3 DEF IInv, Sound, Counted
    <3>2. Cardinality(Hold(inodes, l)) \in Nat
      BY HoldFinite
    <3>3. QED
      BY <2>1, <2>3, <3>1, <3>2
  <2>4. QED
    BY <2>2, <2>3
<1>17. /\ Stored(N)
       /\ \A l \in Keys : ddt'[l] # None => t[l] # None /\ ddt'[l].start = t[l].start
  BY <1>3, <1>5, <1>7, <1>8, <1>11, <1>13, <1>15, <1>16, StoreStep
<1>18. QED
  BY <1>3, <1>4, <1>17 DEF N

LEMMA DropStep ==
  ASSUME IInv, up, up' = up, stable' = stable, NEW h \in Holders,
         used' = used, Replace(h, None, ddt)
  PROVE  /\ Stored({})
         /\ \A l \in Keys : ddt'[l] # None => ddt[l] # None /\ ddt'[l].start = ddt[l].start
<1>1. ddt \in Tables
  BY DEF IInv, TypeOK, Tables
<1>2. Apart(ddt) /\ Named(ddt, inodes) /\ Names(ddt, None)
  BY DEF IInv, Sound, Names
<1>3. ASSUME NEW k \in Keys, ddt[k] # None
      PROVE  ddt[k].refs = Cardinality(Hold(inodes, k)) + (IF IsRef(None, k) THEN 1 ELSE 0)
  <2>1. ddt[k].refs = Cardinality(Hold(inodes, k)) /\ Cardinality(Hold(inodes, k)) \in Nat
    BY <1>3, HoldFinite DEF IInv, Sound, Counted
  <2>2. ~IsRef(None, k)
    BY DEF IsRef
  <2>3. QED
    BY <2>1, <2>2
<1>4. /\ {} \subseteq Addr /\ {} \cap used = {} /\ used' = used \cup {}
      /\ Claimed(ddt) = Claimed(ddt) \cup {}
      /\ None \in Ref \cup {None}
  OBVIOUS
<1>5. QED
  BY <1>1, <1>2, <1>3, <1>4, StoreStep

----------------------------------------------------------------------------
(* The device. *)

Blocks == Cluster \cup {Junk}

LEMMA WriteBlocksTyped ==
  ASSUME disk \in [Addr -> Blocks], cache \in [Addr -> Blocks \cup {None}],
         NEW w, \A a \in DOMAIN w : w[a] \in Blocks, WriteBlocks(w)
  PROVE  /\ cache' \in [Addr -> Blocks \cup {None}] /\ disk' = disk
         /\ \A a \in Addr : cache'[a] = IF a \in DOMAIN w THEN w[a] ELSE cache[a]
BY DEF WriteBlocks

\* A failing write has touched clusters of the run it was given, and no others.
LEMMA FailsTyped ==
  ASSUME IInv, NEW k \in Keys, WriteFails(k)
  PROVE  /\ cache' \in [Addr -> Blocks \cup {None}] /\ disk' = disk
         /\ \A a \in used \cap Addr : cache'[a] = cache[a]
<1>1. PICK s \in Addr, n \in 0 .. Size[k] - 1, torn \in {0, 1} :
         /\ FirstFit(s, Size[k])
         /\ WriteBlocks([a \in Run(s, n + torn) |->
                IF a = s + n THEN Junk ELSE [hash |-> k, part |-> a - s]])
  BY DEF WriteFails
<1> DEFINE w == [a \in Run(s, n + torn) |->
                IF a = s + n THEN Junk ELSE [hash |-> k, part |-> a - s]]
<1>2. Size[k] \in Nat \ {0} /\ n \in Nat /\ torn \in Nat /\ s \in Nat /\ n + torn <= Size[k]
  BY StoreAssumption DEF Addr
<1>3. Run(s, n + torn) \subseteq Run(s, Size[k])
  BY <1>2 DEF Run
<1>4. Run(s, Size[k]) \cap used = {}
  BY <1>1, <1>2, FitIsFree
<1>5. ASSUME NEW a \in Run(s, n + torn) PROVE w[a] \in Blocks
  <2>1. a - s \in Nat
    BY <1>2 DEF Run
  <2>2. QED
    BY <2>1 DEF Blocks, Cluster
<1>6. disk \in [Addr -> Blocks] /\ cache \in [Addr -> Blocks \cup {None}]
  BY DEF IInv, TypeOK, Blocks
<1>7. DOMAIN w = Run(s, n + torn) /\ WriteBlocks(w)
  BY <1>1
<1> HIDE DEF w
<1>8. /\ cache' \in [Addr -> Blocks \cup {None}] /\ disk' = disk
      /\ \A a \in Addr : cache'[a] = IF a \in DOMAIN w THEN w[a] ELSE cache[a]
  BY <1>5, <1>6, <1>7, WriteBlocksTyped
<1>9. QED
  BY <1>3, <1>4, <1>7, <1>8

\* A write that succeeds has put the content on its run, and nothing elsewhere.
LEMMA MissTyped ==
  ASSUME IInv, NEW k \in Keys, NEW s \in Addr, FirstFit(s, Size[k]),
         WriteBlocks([a \in Run(s, Size[k]) |-> [hash |-> k, part |-> a - s]])
  PROVE  /\ cache' \in [Addr -> Blocks \cup {None}] /\ disk' = disk
         /\ \A a \in Run(s, Size[k]) : a \in Addr /\ cache'[a] = [hash |-> k, part |-> a - s]
         /\ \A a \in used \cap Addr : cache'[a] = cache[a]
<1> DEFINE w == [a \in Run(s, Size[k]) |-> [hash |-> k, part |-> a - s]]
<1>1. Size[k] \in Nat /\ s \in Nat
  BY StoreAssumption DEF Addr
<1>2. Run(s, Size[k]) \subseteq Addr /\ Run(s, Size[k]) \cap used = {}
  BY <1>1, FitIsFree
<1>3. ASSUME NEW a \in Run(s, Size[k]) PROVE w[a] \in Blocks /\ w[a] = [hash |-> k, part |-> a - s]
  <2>1. a - s \in Nat
    BY <1>1 DEF Run
  <2>2. QED
    BY <2>1 DEF Blocks, Cluster
<1>4. disk \in [Addr -> Blocks] /\ cache \in [Addr -> Blocks \cup {None}]
  BY DEF IInv, TypeOK, Blocks
<1>5. DOMAIN w = Run(s, Size[k]) /\ WriteBlocks(w)
  OBVIOUS
<1> HIDE DEF w
<1>6. /\ cache' \in [Addr -> Blocks \cup {None}] /\ disk' = disk
      /\ \A a \in Addr : cache'[a] = IF a \in DOMAIN w THEN w[a] ELSE cache[a]
  BY <1>3, <1>4, <1>5, WriteBlocksTyped
<1>7. QED
  BY <1>2, <1>3, <1>5, <1>6

----------------------------------------------------------------------------
(* The inductive invariant. *)

LEMMA EmptySound ==
  /\ EmptyTable \in Tables /\ EmptyInodes \in InodeTables
  /\ Sound(EmptyTable, EmptyInodes) /\ Claimed(EmptyTable) = {}
<1>1. \A k \in Keys : EmptyTable[k] = None
  BY DEF EmptyTable
<1>2. \A h \in Holders : EmptyInodes[h] = None
  BY DEF EmptyInodes
<1>3. Claimed(EmptyTable) = {}
  BY <1>1, ClaimedMember
<1>4. Sound(EmptyTable, EmptyInodes)
  BY <1>1, <1>2 DEF Sound, Apart, Counted, Named, Names
<1>5. QED
  BY <1>3, <1>4 DEF EmptyTable, EmptyInodes, Tables, InodeTables

LEMMA InitIInv == Init => IInv
<1> SUFFICES ASSUME Init PROVE IInv
  OBVIOUS
<1>1. /\ ddt = EmptyTable /\ inodes = EmptyInodes /\ used = Reserved /\ deferred = {}
      /\ up = TRUE /\ phase = "idle" /\ want = None /\ outcome = "ok"
      /\ stable = Snapshot
      /\ disk = [a \in Addr |-> Junk] /\ cache = [a \in Addr |-> None]
  BY DEF Init
<1>2. stable.ddt = ddt /\ stable.inodes = inodes /\ stable.used = used
  BY <1>1 DEF Snapshot
<1>3. Reserved \subseteq Addr
  BY DEF Reserved
<1>4. ddt \in Tables /\ inodes \in InodeTables /\ Sound(ddt, inodes) /\ Claimed(ddt) = {}
  BY <1>1, EmptySound
<1>5. Snapshot \in Snapshots
  BY <1>1, <1>3, <1>4 DEF Snapshot, Snapshots, Tables, InodeTables
<1>6. TypeOK
  BY <1>1, <1>3, <1>4, <1>5 DEF TypeOK, Tables, InodeTables
<1>7. Accounted
  BY <1>1, <1>2, <1>4 DEF Accounted
<1>8. QED
  BY <1>1, <1>2, <1>4, <1>6, <1>7 DEF IInv, Progress, NoSpaceIsReal

\* A step that leaves the tables, the bitmap and the snapshot alone.
LEMMA QuietStep ==
  ASSUME IInv, UNCHANGED <<up, used, deferred, ddt, inodes, stable>>,
         cache' \in [Addr -> Blocks \cup {None}], disk' \in [Addr -> Blocks],
         phase' \in {"idle", "synced"},
         want' = None \/ want' = want \/ (want' \in Holders \X Keys /\ ddt[want'[2]] = None),
         outcome' \in {"ok", "err", "nospace"},
         ~up => phase' = "idle" /\ want' = None,
         outcome' = "nospace" => outcome = "nospace" \/ deferred = {}
  PROVE  IInv'
<1>1. TypeOK'
  BY DEF IInv, TypeOK, Blocks
<1>2. Progress' /\ NoSpaceIsReal'
  BY DEF IInv, Progress, NoSpaceIsReal, Snapshot
<1>3. Accounted'
  BY DEF IInv, Accounted
<1>4. Sound(ddt, inodes)' /\ Sound(stable.ddt, stable.inodes)'
  BY DEF IInv
<1>5. QED
  BY <1>1, <1>2, <1>3, <1>4 DEF IInv

\* A step after which a holder holds something else.
LEMMA StoredIInv ==
  ASSUME IInv, NEW N, Stored(N), up, up' = up, stable' = stable,
         cache' \in [Addr -> Blocks \cup {None}], disk' = disk,
         phase' = "idle", want' = None, outcome' = "ok"
  PROVE  IInv'
<1>1. TypeOK'
  BY DEF IInv, TypeOK, Stored, Tables, InodeTables, Blocks
<1>2. Sound(ddt, inodes)' /\ Accounted'
  BY DEF Stored
<1>3. Sound(stable.ddt, stable.inodes)'
  BY DEF IInv
<1>4. QED
  BY <1>1, <1>2, <1>3 DEF IInv, Progress, NoSpaceIsReal

\* BlockStore::write on a hit or a miss, alone and as the retry of bs_write.
LEMMA PutIInv == ASSUME IInv, NEW h \in Holders, NEW k \in Keys, Put(h, k) PROVE IInv'
<1>1. /\ up /\ up' = up /\ stable' = stable
      /\ phase' = "idle" /\ want' = None /\ outcome' = "ok"
  BY DEF Put, Ready
<1>2. CASE WriteHit(h, k)
  <2>1. Stored({})
    BY <1>1, <1>2, HitStep
  <2>2. cache' \in [Addr -> Blocks \cup {None}] /\ disk' = disk
    BY <1>2 DEF WriteHit, IInv, TypeOK, Blocks
  <2>3. QED
    BY <1>1, <2>1, <2>2, StoredIInv
<1>3. CASE WriteMiss(h, k)
  <2>1. PICK s \in Addr :
           /\ ddt[k] = None
           /\ FirstFit(s, Size[k])
           /\ used' = used \cup Run(s, Size[k])
           /\ WriteBlocks([a \in Run(s, Size[k]) |-> [hash |-> k, part |-> a - s]])
           /\ Replace(h, [hash |-> k, start |-> s], Add(ddt, k, s))
    BY <1>3 DEF WriteMiss
  <2>2. Stored(Run(s, Size[k]))
    BY <1>1, <2>1, MissStep
  <2>3. cache' \in [Addr -> Blocks \cup {None}] /\ disk' = disk
    BY <2>1, MissTyped
  <2>4. QED
    BY <1>1, <2>2, <2>3, StoredIInv
<1>4. QED
  BY <1>2, <1>3 DEF Put

LEMMA RetryIInv == ASSUME IInv, Retry PROVE IInv'
<1> DEFINE h == want[1]
           k == want[2]
<1>1. /\ up /\ up' = up /\ stable' = stable /\ phase' = "idle" /\ want' = None
      /\ want # None /\ deferred = {}
  BY DEF Retry, IInv, Progress, TypeOK
<1>2. h \in Holders /\ k \in Keys
  BY <1>1 DEF IInv, TypeOK
<1> HIDE DEF h, k
<1>3. CASE WriteMiss(h, k) /\ outcome' = "ok"
  <2>1. PICK s \in Addr :
           /\ ddt[k] = None
           /\ FirstFit(s, Size[k])
           /\ used' = used \cup Run(s, Size[k])
           /\ WriteBlocks([a \in Run(s, Size[k]) |-> [hash |-> k, part |-> a - s]])
           /\ Replace(h, [hash |-> k, start |-> s], Add(ddt, k, s))
    BY <1>3 DEF WriteMiss
  <2>2. Stored(Run(s, Size[k]))
    BY <1>1, <1>2, <2>1, MissStep
  <2>3. cache' \in [Addr -> Blocks \cup {None}] /\ disk' = disk
    BY <1>2, <2>1, MissTyped
  <2>4. QED
    BY <1>1, <1>3, <2>2, <2>3, StoredIInv
<1>4. CASE WriteFails(k) /\ outcome' = "err" /\ UNCHANGED ramVars
  <2>1. cache' \in [Addr -> Blocks \cup {None}] /\ disk' = disk
    BY <1>2, <1>4, FailsTyped
  <2>2. disk' \in [Addr -> Blocks]
    BY <2>1 DEF IInv, TypeOK, Blocks
  <2>3. QED
    BY <1>1, <1>4, <2>1, <2>2, QuietStep DEF ramVars
<1>5. CASE outcome' = "nospace" /\ UNCHANGED <<disk, cache, used, deferred, ddt, inodes>>
  <2>1. cache' \in [Addr -> Blocks \cup {None}] /\ disk' \in [Addr -> Blocks]
    BY <1>5 DEF IInv, TypeOK, Blocks
  <2>2. QED
    BY <1>1, <1>5, <2>1, QuietStep
<1>6. QED
  BY <1>3, <1>4, <1>5 DEF Retry, h, k

\* The operations that fail, and the ones that change no table.
LEMMA QuietIInv ==
  ASSUME IInv,
         \/ \E h \in Holders, k \in Keys : PutNoSpace(h, k)
         \/ \E k \in Keys : PutFails(k)
         \/ CommitSync \/ CommitSyncErr \/ CommitFlipErr \/ Writeback
  PROVE  IInv'
<1>1. /\ cache \in [Addr -> Blocks \cup {None}] /\ disk \in [Addr -> Blocks]
      /\ DOMAIN disk = Addr /\ outcome \in {"ok", "err", "nospace"}
      /\ phase \in {"idle", "synced", "flipped", "retry"}
      /\ phase # "idle" => up
      /\ want # None => up
  BY DEF IInv, TypeOK, Progress, Blocks
<1>2. ASSUME NEW h \in Holders, NEW k \in Keys, PutNoSpace(h, k) PROVE IInv'
  <2>1. CASE deferred = {} /\ outcome' = "nospace" /\ UNCHANGED want
    BY <1>1, <1>2, <2>1, QuietStep DEF PutNoSpace, Ready
  <2>2. CASE deferred # {} /\ want' = <<h, k>> /\ UNCHANGED outcome
    BY <1>1, <1>2, <2>2, QuietStep DEF PutNoSpace, Ready
  <2>3. QED
    BY <1>2, <2>1, <2>2 DEF PutNoSpace
<1>3. ASSUME NEW k \in Keys, PutFails(k) PROVE IInv'
  <2>1. cache' \in [Addr -> Blocks \cup {None}] /\ disk' = disk
    BY <1>3, FailsTyped DEF PutFails
  <2>2. QED
    BY <1>1, <1>3, <2>1, QuietStep DEF PutFails, Ready
<1>4. CASE CommitSync
  <2>1. disk' \in [Addr -> Blocks] /\ cache' \in [Addr -> Blocks \cup {None}]
    BY <1>1, <1>4 DEF CommitSync, Sync, Image, ReadBlock
  <2>2. QED
    BY <1>1, <1>4, <2>1, QuietStep DEF CommitSync
<1>5. CASE CommitSyncErr
  <2>1. disk' \in [Addr -> Blocks] /\ cache' \in [Addr -> Blocks \cup {None}]
    BY <1>1, <1>5 DEF CommitSyncErr
  <2>2. QED
    BY <1>1, <1>5, <2>1, QuietStep DEF CommitSyncErr, CommitErr
<1>6. CASE CommitFlipErr
  BY <1>1, <1>6, QuietStep DEF CommitFlipErr, CommitErr
<1>7. CASE Writeback
  <2>1. PICK a \in Addr : WritebackBlock(a)
    BY <1>7 DEF Writeback
  <2>2. cache[a] # None /\ cache[a] \in Blocks
    BY <1>1, <2>1 DEF WritebackBlock, Dirty
  <2>3. disk' \in [Addr -> Blocks] /\ cache' \in [Addr -> Blocks \cup {None}]
    BY <1>1, <2>1, <2>2 DEF WritebackBlock
  <2>4. UNCHANGED <<up, used, deferred, ddt, inodes, stable, phase, want, outcome>>
    BY <1>7 DEF Writeback
  <2>5. TypeOK'
    BY <2>3, <2>4 DEF IInv, TypeOK, Blocks
  <2>6. QED
    BY <2>4, <2>5 DEF IInv, Accounted, Progress, NoSpaceIsReal, Snapshot
<1>8. QED
  BY <1>2, <1>3, <1>4, <1>5, <1>6, <1>7

LEMMA DropIInv == ASSUME IInv, NEW h \in Holders, Drop(h) PROVE IInv'
<1>1. /\ up /\ up' = up /\ stable' = stable /\ used' = used /\ disk' = disk
      /\ phase' = "idle" /\ want' = None /\ outcome' = "ok"
      /\ Replace(h, None, ddt)
  BY DEF Drop, Ready
<1>2. Stored({})
  BY <1>1, DropStep
<1>3. cache' \in [Addr -> Blocks \cup {None}]
  BY DEF Drop, IInv, TypeOK, Blocks
<1>4. QED
  BY <1>1, <1>2, <1>3, StoredIInv

\* The flip replaces the stable snapshot by tables that are sound and accounted.
LEMMA FlipIInv == ASSUME IInv, CommitFlip PROVE IInv'
<1>1. /\ up /\ up' /\ stable' = Snapshot
      /\ UNCHANGED <<disk, cache, up, used, deferred, ddt, inodes, want, outcome>>
      /\ phase' = "flipped" /\ Snapshot' = Snapshot
  BY DEF CommitFlip, IInv, Progress, TypeOK, Snapshot
<1>2. stable'.ddt = ddt /\ stable'.inodes = inodes /\ stable'.used = used
  BY <1>1 DEF Snapshot
<1>3. Snapshot \in Snapshots
  BY DEF Snapshot, Snapshots, IInv, TypeOK
<1>4. TypeOK'
  BY <1>1, <1>3 DEF IInv, TypeOK
<1>5. Sound(ddt, inodes)' /\ Sound(stable.ddt, stable.inodes)'
  BY <1>1, <1>2 DEF IInv
<1>6. Claimed(stable.ddt)' = Claimed(ddt)
  BY <1>2
<1>7. Accounted'
  BY <1>1, <1>2, <1>6 DEF IInv, Accounted
<1>8. QED
  BY <1>1, <1>4, <1>5, <1>7 DEF IInv, Progress, NoSpaceIsReal

\* The deferred frees are applied when the stable snapshot is the memory's: none
\* of the clusters belongs to it.
LEMMA ApplyIInv == ASSUME IInv, CommitReturns \/ RetryStarts PROVE IInv'
<1>1. /\ up /\ up' = up /\ stable' = stable /\ phase = "flipped" /\ stable = Snapshot
      /\ UNCHANGED <<disk, cache, up, ddt, inodes, stable, want>>
      /\ used' = used \ deferred /\ deferred' = {}
      /\ phase' \in {"idle", "retry"} /\ outcome' \in {"ok", outcome}
      /\ phase' = "retry" => want # None
  BY DEF CommitReturns, RetryStarts, ApplyDeferred, IInv, Progress, TypeOK
<1>2. TypeOK'
  BY <1>1 DEF IInv, TypeOK
<1>3. Sound(ddt, inodes)' /\ Sound(stable.ddt, stable.inodes)'
  BY <1>1 DEF IInv
<1>4. stable.ddt = ddt
  BY <1>1 DEF Snapshot
<1>5. Accounted'
  BY <1>1, <1>4 DEF IInv, Accounted
<1>6. Progress' /\ NoSpaceIsReal'
  BY <1>1 DEF IInv, Progress, NoSpaceIsReal
<1>7. QED
  BY <1>2, <1>3, <1>5, <1>6 DEF IInv

LEMMA CrashIInv == ASSUME IInv, PowerLoss \/ Kill PROVE IInv'
<1>1. LoseRAM
  BY DEF PowerLoss, Kill
<1>2. disk' \in [Addr -> Blocks] /\ cache' \in [Addr -> Blocks \cup {None}]
  <2>1. disk \in [Addr -> Blocks] /\ cache \in [Addr -> Blocks \cup {None}]
    BY DEF IInv, TypeOK, Blocks
  <2>2. CASE PowerLoss
    BY <2>1, <2>2 DEF PowerLoss, LosePower, Blocks
  <2>3. CASE Kill
    BY <2>1, <2>3 DEF Kill
  <2>4. QED
    BY <2>2, <2>3
<1>3. TypeOK'
  BY <1>1, <1>2, EmptySound DEF LoseRAM, IInv, TypeOK, Blocks, Tables, InodeTables
<1>4. ddt' = EmptyTable /\ inodes' = EmptyInodes /\ deferred' = {} /\ up' = FALSE /\ stable' = stable
  BY <1>1 DEF LoseRAM
<1>5. Sound(ddt, inodes)' /\ Sound(stable.ddt, stable.inodes)' /\ Claimed(ddt)' = {}
  BY <1>4, EmptySound DEF IInv
<1>6. Accounted'
  BY <1>4, <1>5 DEF IInv, Accounted
<1>7. Progress' /\ NoSpaceIsReal'
  BY <1>1 DEF LoseRAM, Progress, NoSpaceIsReal, EmptyTable, EmptyInodes
<1>8. QED
  BY <1>3, <1>5, <1>6, <1>7 DEF IInv

LEMMA MountIInv == ASSUME IInv, Mount PROVE IInv'
<1>1. /\ ~up /\ up' = TRUE /\ used' = stable.used /\ deferred' = {} /\ ddt' = stable.ddt
      /\ inodes' = stable.inodes
      /\ UNCHANGED <<disk, cache, stable, phase, want, outcome>>
      /\ phase = "idle" /\ want = None
  BY DEF Mount, IInv, Progress
<1>2. TypeOK'
  BY <1>1 DEF IInv, TypeOK, Snapshots
<1>3. Sound(ddt, inodes)' /\ Sound(stable.ddt, stable.inodes)'
  BY <1>1 DEF IInv
<1>4. Claimed(ddt)' = Claimed(stable.ddt) /\ Claimed(stable.ddt)' = Claimed(stable.ddt)
  BY <1>1
<1>5. Accounted'
  BY <1>1, <1>4 DEF IInv, Accounted
<1>6. Progress' /\ NoSpaceIsReal'
  BY <1>1 DEF Progress, NoSpaceIsReal
<1>7. QED
  BY <1>2, <1>3, <1>5, <1>6 DEF IInv

LEMMA NextIInv == IInv /\ [Next]_vars => IInv'
<1> SUFFICES ASSUME IInv, [Next]_vars PROVE IInv'
  OBVIOUS
<1>1. CASE Next
  BY <1>1, PutIInv, QuietIInv, DropIInv, FlipIInv, ApplyIInv, RetryIInv, CrashIInv, MountIInv
     DEF Next
<1>2. CASE UNCHANGED vars
  <2>1. UNCHANGED <<up, used, deferred, ddt, inodes, stable, phase, want, outcome>>
    BY <1>2 DEF vars
  <2>2. TypeOK'
    BY <1>2 DEF vars, IInv, TypeOK
  <2>3. QED
    BY <2>1, <2>2 DEF IInv, Accounted, Progress, NoSpaceIsReal, Snapshot
<1>3. QED
  BY <1>1, <1>2

----------------------------------------------------------------------------
(* What follows for the running filesystem. *)

\* Bitmap, dedup table and inodes agree on any device, for any contents and any
\* number of holders: no cluster has two owners, and every count is the number of
\* Refs there are.
THEOREM TablesStayAgreed == Spec => []TablesAgree
<1>1. IInv => TablesAgree
  <2> SUFFICES ASSUME IInv PROVE TablesAgree
    OBVIOUS
  <2>1. LiveClusters = Claimed(ddt)
    BY DEF LiveClusters, Live, Claimed
  <2>2. ClustersDisjoint
    BY <2>1 DEF IInv, Sound, Apart, Accounted, ClustersDisjoint, Live
  <2>3. \A k : HoldersOf(k) = Hold(inodes, k)
    BY DEF HoldersOf, Hold, IsRef
  <2>4. RefsExact
    BY <2>3 DEF IInv, Sound, Counted, Named, Names, RefsExact, Live
  <2>5. QED
    BY <2>2, <2>4 DEF IInv, TablesAgree
<1>2. QED
  BY <1>1, InitIInv, NextIInv, PTL DEF Spec

\* bs_write reports a full device only when no deferred free is pending, on its
\* first try and on the retry after its own commit.
THEOREM NoSpaceOnlyWhenFull == Spec => []NoSpaceIsReal
<1>1. IInv => NoSpaceIsReal
  BY DEF IInv
<1>2. QED
  BY <1>1, InitIInv, NextIInv, PTL DEF Spec

\* Every step of a running filesystem accounts for the clusters it marks.
LEMMA LeakStep ==
  ASSUME IInv, [Next]_vars, up, up'
  PROVE  Leaked' \subseteq Leaked
<1>1. /\ Leaked = used \ (Reserved \cup Claimed(ddt) \cup deferred)
      /\ Leaked' = used' \ (Reserved \cup Claimed(ddt') \cup deferred')
  BY DEF Leaked, LiveClusters, Live, Claimed
<1>2. ASSUME NEW N, Stored(N) PROVE Leaked' \subseteq Leaked
  BY <1>1, <1>2 DEF Stored
<1>3. ASSUME UNCHANGED <<used, deferred, ddt>> PROVE Leaked' \subseteq Leaked
  BY <1>1, <1>3
<1>4. ASSUME NEW h \in Holders, NEW k \in Keys, WriteMiss(h, k), stable' = stable
      PROVE  Leaked' \subseteq Leaked
  <2>1. PICK s \in Addr :
           /\ ddt[k] = None
           /\ FirstFit(s, Size[k])
           /\ used' = used \cup Run(s, Size[k])
           /\ Replace(h, [hash |-> k, start |-> s], Add(ddt, k, s))
    BY <1>4 DEF WriteMiss
  <2>2. up' = up
    BY DEF IInv, TypeOK
  <2>3. Stored(Run(s, Size[k]))
    BY <1>4, <2>1, <2>2, MissStep
  <2>4. QED
    BY <1>2, <2>3
<1>5. ASSUME NEW h \in Holders, NEW k \in Keys, Put(h, k) PROVE Leaked' \subseteq Leaked
  <2>1. CASE WriteHit(h, k)
    BY <1>2, <1>5, <2>1, HitStep DEF Put
  <2>2. CASE WriteMiss(h, k)
    BY <1>4, <1>5, <2>2 DEF Put
  <2>3. QED
    BY <1>5, <2>1, <2>2 DEF Put
<1>6. ASSUME NEW h \in Holders, Drop(h) PROVE Leaked' \subseteq Leaked
  BY <1>2, <1>6, DropStep DEF Drop
<1>7. CASE CommitReturns \/ RetryStarts
  <2>1. used' = used \ deferred /\ deferred' = {} /\ ddt' = ddt
    BY <1>7 DEF CommitReturns, RetryStarts, ApplyDeferred
  <2>2. QED
    BY <1>1, <2>1
<1>8. CASE Retry
  <2>1. CASE WriteMiss(want[1], want[2])
    <3>1. want[1] \in Holders /\ want[2] \in Keys /\ stable' = stable
      BY <1>8 DEF Retry, IInv, TypeOK, Progress
    <3>2. QED
      BY <1>4, <2>1, <3>1
  <2>2. CASE UNCHANGED <<used, deferred, ddt>>
    BY <1>3, <2>2
  <2>3. QED
    BY <1>8, <2>1, <2>2 DEF Retry, ramVars
<1>9. CASE PowerLoss \/ Kill \/ Mount
  BY <1>9 DEF PowerLoss, Kill, LoseRAM, Mount
<1>10. CASE \/ \E h \in Holders, k \in Keys : PutNoSpace(h, k)
            \/ \E k \in Keys : PutFails(k)
            \/ CommitSync \/ CommitSyncErr \/ CommitFlip \/ CommitFlipErr \/ Writeback
            \/ UNCHANGED vars
  <2>1. UNCHANGED <<used, deferred, ddt>>
    BY <1>10 DEF PutNoSpace, PutFails, CommitSync, CommitSyncErr, CommitErr, CommitFlip,
       CommitFlipErr, Writeback, vars
  <2>2. QED
    BY <1>3, <2>1
<1>11. QED
  BY <1>5, <1>6, <1>7, <1>8, <1>9, <1>10 DEF Next

\* No step of a running filesystem leaks a cluster: a failed write, a failed
\* commit and an overwrite leave every marked cluster with an owner, or on the
\* deferred list.
THEOREM NeverLeaksWhileRunning == Spec => NoLeakWhileRunning
<1>1. IInv /\ [Next]_vars => [(up /\ up') => Leaked' \subseteq Leaked]_vars
  BY LeakStep
<1>2. QED
  BY <1>1, InitIInv, NextIInv, PTL DEF Spec, NoLeakWhileRunning

\* Every step is one AtomicCommit allows.
LEMMA StepRefines ==
  ASSUME IInv, Next
  PROVE  Abstract!Next \/ UNCHANGED Abstract!vars
<1>1. /\ stable \in Snapshots /\ stable # None
      /\ Snapshot \in Snapshots /\ Snapshot # None
  BY SnapshotSentinel DEF IInv, TypeOK, Snapshots, Snapshot
<1>2. Snapshot' \in Snapshots
  <2>1. TypeOK'
    BY NextIInv DEF IInv
  <2>2. QED
    BY <2>1 DEF TypeOK, Snapshots, Snapshot
<1>3. /\ absMem = IF up THEN Snapshot ELSE None
      /\ absMem' = IF up' THEN Snapshot' ELSE None
  BY DEF absMem
<1>4. /\ phase = "synced" => absPhase = "committing"
      /\ phase = "flipped" => absPhase = "flipped"
      /\ phase \in {"idle", "retry"} => absPhase = "idle"
      /\ phase' = "synced" => absPhase' = "committing"
      /\ phase' = "flipped" => absPhase' = "flipped"
      /\ phase' \in {"idle", "retry"} => absPhase' = "idle"
      /\ (phase = phase') => absPhase = absPhase'
  BY DEF absPhase
<1>5. ~up => phase = "idle"
  BY DEF IInv, Progress
<1>6. ASSUME up, up', stable' = stable, phase \in {"idle", "retry"}, phase' = "idle"
      PROVE  Abstract!Next
  <2>1. Abstract!Mutate
    BY <1>1, <1>2, <1>3, <1>4, <1>6 DEF Abstract!Mutate
  <2>2. QED
    BY <2>1 DEF Abstract!Next
<1>7. ASSUME UNCHANGED <<up, stable, phase, used, ddt, inodes>> PROVE UNCHANGED Abstract!vars
  <2>1. Snapshot' = Snapshot
    BY <1>7 DEF Snapshot
  <2>2. QED
    BY <1>3, <1>4, <1>7, <2>1 DEF Abstract!vars
<1>8. CASE \/ \E h \in Holders, k \in Keys : Put(h, k)
           \/ \E h \in Holders : Drop(h)
           \/ Retry
  BY <1>5, <1>6, <1>8 DEF Put, Drop, Retry, Ready, IInv, TypeOK
<1>9. CASE \/ \E h \in Holders, k \in Keys : PutNoSpace(h, k)
           \/ \E k \in Keys : PutFails(k)
           \/ CommitSyncErr \/ Writeback
  BY <1>7, <1>9 DEF PutNoSpace, PutFails, CommitSyncErr, CommitErr, Writeback
<1>10. CASE CommitSync
  <2>1. Snapshot' = Snapshot
    BY <1>10 DEF CommitSync, Snapshot
  <2>2. Abstract!Begin
    BY <1>1, <1>3, <1>4, <1>10, <2>1 DEF CommitSync, Abstract!Begin
  <2>3. QED
    BY <2>2 DEF Abstract!Next
<1>11. CASE CommitFlip
  <2>1. Snapshot' = Snapshot
    BY <1>11 DEF CommitFlip, Snapshot
  <2>2. Abstract!Flip
    BY <1>3, <1>4, <1>5, <1>11, <2>1 DEF CommitFlip, Abstract!Flip
  <2>3. QED
    BY <2>2 DEF Abstract!Next
<1>12. CASE CommitFlipErr
  <2>1. Snapshot' = Snapshot
    BY <1>12 DEF CommitFlipErr, CommitErr, Snapshot
  <2>2. Abstract!ReturnErr
    BY <1>3, <1>4, <1>12, <2>1 DEF CommitFlipErr, CommitErr, Abstract!ReturnErr
  <2>3. QED
    BY <2>2 DEF Abstract!Next
<1>13. CASE CommitReturns \/ RetryStarts
  <2>1. up /\ up' = up /\ stable' = stable /\ stable = Snapshot /\ phase = "flipped"
        /\ phase' \in {"idle", "retry"}
    BY <1>5, <1>13 DEF CommitReturns, RetryStarts, IInv, Progress
  <2>2. Abstract!ReturnOk
    BY <1>2, <1>3, <1>4, <2>1 DEF Abstract!ReturnOk
  <2>3. QED
    BY <2>2 DEF Abstract!Next
<1>14. CASE PowerLoss \/ Kill
  <2>1. Abstract!Crash
    BY <1>3, <1>4, <1>14 DEF PowerLoss, Kill, LoseRAM, Abstract!Crash
  <2>2. QED
    BY <2>1 DEF Abstract!Next
<1>15. CASE Mount
  <2>1. Snapshot' = stable
    BY <1>15 DEF Mount, Snapshot, IInv, TypeOK, Snapshots
  <2>2. Abstract!Mount
    BY <1>1, <1>3, <1>4, <1>5, <1>15, <2>1 DEF Mount, Abstract!Mount
  <2>3. QED
    BY <2>2 DEF Abstract!Next
<1>16. QED
  BY <1>8, <1>9, <1>10, <1>11, <1>12, <1>13, <1>14, <1>15 DEF Next

\* The tables are replaced on disk as a whole by a commit's flip, and loaded as a
\* whole by a mount, as AtomicCommit promises, in every run of the data path.
THEOREM CommitsAreAtomic == Spec => CommitsAtomically
<1>1. IInv /\ [Next]_vars => [Abstract!Next]_(Abstract!vars)
  <2> SUFFICES ASSUME IInv, [Next]_vars
               PROVE  Abstract!Next \/ UNCHANGED Abstract!vars
    OBVIOUS
  <2>1. CASE UNCHANGED vars
    BY <2>1 DEF vars, Abstract!vars, absMem, absPhase, Snapshot
  <2>2. QED
    BY <2>1, StepRefines
<1>2. QED
  BY <1>1, InitIInv, NextIInv, PTL DEF Spec, CommitsAtomically

----------------------------------------------------------------------------
(* The content of the clusters, when a failed sync keeps the cached writes. *)

\* The device in terms of its blocks, before and after a step.
LEMMA DeviceFacts ==
  ASSUME TypeOK
  PROVE  /\ disk \in [Addr -> Blocks] /\ cache \in [Addr -> Blocks \cup {None}]
         /\ DOMAIN disk = Addr
         /\ Dirty = {a \in Addr : cache[a] # None}
         /\ \A a \in Addr : Image[a] = IF cache[a] = None THEN disk[a] ELSE cache[a]
<1>1. disk \in [Addr -> Blocks] /\ cache \in [Addr -> Blocks \cup {None}] /\ DOMAIN disk = Addr
  BY DEF TypeOK, Blocks
<1>2. QED
  BY <1>1 DEF Dirty, Image, ReadBlock

LEMMA DeviceFactsNext ==
  ASSUME TypeOK'
  PROVE  /\ Dirty' = {a \in Addr : cache'[a] # None}
         /\ \A a \in Addr : Image'[a] = IF cache'[a] = None THEN disk'[a] ELSE cache'[a]
<1>1. DOMAIN disk' = Addr
  BY DEF TypeOK
<1>2. QED
  BY <1>1 DEF Dirty, Image, ReadBlock

\* Where the claims of the two tables lie.
LEMMA ClaimsPlaced ==
  ASSUME IInv
  PROVE  /\ Claimed(stable.ddt) \subseteq Addr
         /\ Claimed(ddt) \subseteq Addr
         /\ up => Claimed(stable.ddt) \subseteq used /\ Claimed(ddt) \subseteq used
         /\ \A t, k, a : k \in Keys /\ t[k] # None /\ a \in Extent(k, t[k]) => a \in Claimed(t)
<1>1. Claimed(stable.ddt) \subseteq Addr
  BY DEF IInv, Accounted, TypeOK, Snapshots
<1>2. CASE up
  BY <1>1, <1>2, ClaimedMember DEF IInv, Accounted, TypeOK
<1>3. CASE ~up
  <2>1. Claimed(ddt) = {}
    BY <1>3, EmptySound DEF IInv, Progress
  <2>2. QED
    BY <1>1, <1>3, <2>1, ClaimedMember
<1>4. QED
  BY <1>2, <1>3

\* The stable snapshot stays intact when its clusters are left alone.
LEMMA StableKept ==
  ASSUME IInv, TypeOK', DataInv, stable' = stable,
         \A a \in Claimed(stable.ddt) : disk'[a] = disk[a] /\ cache'[a] = cache[a]
  PROVE  Readable(stable.ddt, disk)' /\ (Claimed(stable.ddt) \cap Dirty)' = {}
<1>1. /\ Dirty = {a \in Addr : cache[a] # None}
      /\ Dirty' = {a \in Addr : cache'[a] # None}
  BY DeviceFacts, DeviceFactsNext DEF IInv
<1>2. (Claimed(stable.ddt) \cap Dirty)' = {}
  BY <1>1 DEF DataInv
<1>3. Readable(stable.ddt, disk')
  <2> SUFFICES ASSUME NEW k \in Keys, stable.ddt[k] # None, NEW a \in Extent(k, stable.ddt[k])
               PROVE  disk'[a] = [hash |-> k, part |-> a - stable.ddt[k].start]
    BY DEF Readable
  <2>1. a \in Claimed(stable.ddt)
    BY ClaimsPlaced
  <2>2. QED
    BY <2>1 DEF DataInv, Readable
<1>4. QED
  BY <1>2, <1>3 DEF Readable

\* What is live stays readable when its clusters are left alone.
LEMMA LiveKept ==
  ASSUME IInv, TypeOK', DataInv,
         \A k \in Keys : ddt'[k] # None => ddt[k] # None /\ ddt'[k].start = ddt[k].start,
         \A a \in Claimed(ddt) : Image'[a] = Image[a]
  PROVE  Readable(ddt, Image)'
<1> SUFFICES ASSUME NEW k \in Keys, ddt'[k] # None, NEW a \in Extent(k, ddt'[k])
             PROVE  Image'[a] = [hash |-> k, part |-> a - ddt'[k].start]
  BY DEF Readable
<1>1. ddt[k] # None /\ ddt'[k].start = ddt[k].start /\ a \in Extent(k, ddt[k])
  BY DEF Extent
<1>2. a \in Claimed(ddt)
  BY <1>1, ClaimsPlaced
<1>3. Image[a] = [hash |-> k, part |-> a - ddt[k].start]
  BY <1>1 DEF DataInv, Readable
<1>4. QED
  BY <1>1, <1>2, <1>3

LEMMA MissData ==
  ASSUME IInv, IInv', DataInv, NEW h \in Holders, NEW k \in Keys, WriteMiss(h, k),
         up, up' = up, stable' = stable, phase' = "idle"
  PROVE  DataInv'
<1>1. PICK s \in Addr :
         /\ ddt[k] = None
         /\ FirstFit(s, Size[k])
         /\ used' = used \cup Run(s, Size[k])
         /\ WriteBlocks([a \in Run(s, Size[k]) |-> [hash |-> k, part |-> a - s]])
         /\ Replace(h, [hash |-> k, start |-> s], Add(ddt, k, s))
  BY DEF WriteMiss
<1>2. \A l \in Keys : ddt'[l] # None =>
               IF l = k THEN ddt'[l].start = s
               ELSE ddt[l] # None /\ ddt'[l].start = ddt[l].start
  BY <1>1, MissStep
<1>3. /\ disk' = disk
      /\ \A a \in Run(s, Size[k]) : a \in Addr /\ cache'[a] = [hash |-> k, part |-> a - s]
      /\ \A a \in used \cap Addr : cache'[a] = cache[a]
  BY <1>1, MissTyped
<1>4. /\ Claimed(stable.ddt) \subseteq used \cap Addr
      /\ Claimed(ddt) \subseteq used \cap Addr
  BY ClaimsPlaced
<1>5. /\ \A a \in Addr : Image[a] = IF cache[a] = None THEN disk[a] ELSE cache[a]
      /\ \A a \in Addr : Image'[a] = IF cache'[a] = None THEN disk'[a] ELSE cache'[a]
  BY DeviceFacts, DeviceFactsNext DEF IInv
<1>6. Readable(stable.ddt, disk)' /\ (Claimed(stable.ddt) \cap Dirty)' = {}
  BY <1>3, <1>4, StableKept DEF IInv
<1>7. Readable(ddt, Image)'
  <2> SUFFICES ASSUME NEW l \in Keys, ddt'[l] # None, NEW a \in Extent(l, ddt'[l])
               PROVE  Image'[a] = [hash |-> l, part |-> a - ddt'[l].start]
    BY DEF Readable
  <2>1. CASE l = k
    <3>1. ddt'[l].start = s /\ a \in Run(s, Size[k])
      BY <1>2, <2>1 DEF Extent
    <3>2. Size[k] \in Nat /\ s \in Nat
      BY StoreAssumption DEF Addr
    <3>3. [hash |-> k, part |-> a - s] \in Cluster
      BY <3>1, <3>2 DEF Cluster, Run
    <3>4. [hash |-> k, part |-> a - s] # None
      BY <3>3, StoreSentinels
    <3>5. QED
      BY <1>3, <1>5, <2>1, <3>1, <3>4
  <2>2. CASE l # k
    <3>1. ddt[l] # None /\ ddt'[l].start = ddt[l].start /\ a \in Extent(l, ddt[l])
      BY <1>2, <2>2 DEF Extent
    <3>2. a \in Claimed(ddt)
      BY <3>1, ClaimsPlaced
    <3>3. Image'[a] = Image[a]
      BY <1>3, <1>4, <1>5, <3>2
    <3>4. QED
      BY <3>1, <3>3 DEF DataInv, Readable
  <2>3. QED
    BY <2>1, <2>2
<1>8. QED
  BY <1>6, <1>7 DEF DataInv

\* A failed write has touched free clusters only.
LEMMA FailsData ==
  ASSUME IInv, IInv', DataInv, NEW k \in Keys, WriteFails(k), ddt' = ddt,
         up, up' = up, stable' = stable, phase' = "idle"
  PROVE  DataInv'
<1>1. disk' = disk /\ \A a \in used \cap Addr : cache'[a] = cache[a]
  BY FailsTyped
<1>2. /\ Claimed(stable.ddt) \subseteq used \cap Addr
      /\ Claimed(ddt) \subseteq used \cap Addr
  BY ClaimsPlaced
<1>3. /\ \A a \in Addr : Image[a] = IF cache[a] = None THEN disk[a] ELSE cache[a]
      /\ \A a \in Addr : Image'[a] = IF cache'[a] = None THEN disk'[a] ELSE cache'[a]
  BY DeviceFacts, DeviceFactsNext DEF IInv
<1>4. Readable(stable.ddt, disk)' /\ (Claimed(stable.ddt) \cap Dirty)' = {}
  BY <1>1, <1>2, StableKept DEF IInv
<1>5. \A a \in Claimed(ddt) : Image'[a] = Image[a]
  BY <1>1, <1>2, <1>3
<1>6. Readable(ddt, Image)'
  BY <1>5, LiveKept DEF IInv
<1>7. QED
  BY <1>4, <1>6 DEF DataInv

\* Steps that leave the device alone and give no entry a new place.
LEMMA TableData ==
  ASSUME IInv, IInv', DataInv, UNCHANGED <<disk, cache, stable>>,
         \A k \in Keys : ddt'[k] # None => ddt[k] # None /\ ddt'[k].start = ddt[k].start,
         phase' = "synced" => phase = "synced"
  PROVE  DataInv'
<1>1. Image' = Image /\ Dirty' = Dirty
  BY DEF Image, ReadBlock, Dirty
<1>2. Readable(stable.ddt, disk)' /\ (Claimed(stable.ddt) \cap Dirty)' = {}
  BY StableKept DEF IInv
<1>3. Readable(ddt, Image)'
  BY <1>1, LiveKept DEF IInv
<1>4. QED
  BY <1>1, <1>2, <1>3 DEF DataInv

LEMMA NextData ==
  ASSUME ~DropsOnError, IInv, IInv', DataInv, [Next]_vars
  PROVE  DataInv'
<1>1. /\ disk \in [Addr -> Blocks] /\ cache \in [Addr -> Blocks \cup {None}] /\ DOMAIN disk = Addr
      /\ Dirty = {a \in Addr : cache[a] # None}
      /\ \A a \in Addr : Image[a] = IF cache[a] = None THEN disk[a] ELSE cache[a]
  BY DeviceFacts DEF IInv
<1>2. /\ Dirty' = {a \in Addr : cache'[a] # None}
      /\ \A a \in Addr : Image'[a] = IF cache'[a] = None THEN disk'[a] ELSE cache'[a]
  BY DeviceFactsNext DEF IInv
<1>3. Claimed(stable.ddt) \subseteq Addr /\ Claimed(ddt) \subseteq Addr
  BY ClaimsPlaced
<1>4. \A a \in Claimed(stable.ddt) : cache[a] = None /\ Image[a] = disk[a]
  BY <1>1, <1>3 DEF DataInv
<1>5. ASSUME NEW h \in Holders, NEW k \in Keys, Put(h, k) PROVE DataInv'
  <2>1. up /\ up' = up /\ stable' = stable /\ phase' = "idle"
    BY <1>5 DEF Put, Ready
  <2>2. CASE WriteHit(h, k)
    <3>1. \A l \in Keys : ddt'[l] # None => ddt[l] # None /\ ddt'[l].start = ddt[l].start
      BY <2>1, <2>2, HitStep
    <3>2. QED
      BY <2>1, <2>2, <3>1, TableData DEF WriteHit
  <2>3. CASE WriteMiss(h, k)
    BY <2>1, <2>3, MissData
  <2>4. QED
    BY <1>5, <2>2, <2>3 DEF Put
<1>6. ASSUME NEW h \in Holders, Drop(h) PROVE DataInv'
  <2>1. \A l \in Keys : ddt'[l] # None => ddt[l] # None /\ ddt'[l].start = ddt[l].start
    BY <1>6, DropStep DEF Drop, Ready
  <2>2. QED
    BY <1>6, <2>1, TableData DEF Drop, Ready
<1>7. ASSUME NEW k \in Keys, PutFails(k) PROVE DataInv'
  BY <1>7, FailsData DEF PutFails, Ready
<1>8. CASE Retry
  <2>1. /\ up /\ up' = up /\ stable' = stable /\ phase' = "idle"
        /\ want[1] \in Holders /\ want[2] \in Keys
    BY <1>8 DEF Retry, IInv, TypeOK, Progress
  <2>2. CASE WriteMiss(want[1], want[2])
    BY <2>1, <2>2, MissData
  <2>3. CASE WriteFails(want[2]) /\ UNCHANGED ramVars
    BY <2>1, <2>3, FailsData DEF ramVars
  <2>4. CASE UNCHANGED <<disk, cache, used, deferred, ddt, inodes>>
    BY <2>1, <2>4, TableData
  <2>5. QED
    BY <1>8, <2>2, <2>3, <2>4 DEF Retry
<1>9. CASE \/ \E h \in Holders, k \in Keys : PutNoSpace(h, k)
           \/ CommitFlipErr \/ CommitReturns \/ RetryStarts \/ UNCHANGED vars
  <2>1. /\ UNCHANGED <<disk, cache, stable, ddt>>
        /\ phase' = "synced" => phase = "synced"
    BY <1>9 DEF PutNoSpace, CommitFlipErr, CommitErr, CommitReturns, RetryStarts, vars
  <2>2. QED
    BY <2>1, TableData
<1>10. CASE Kill
  <2>1. \A k \in Keys : ddt'[k] = None
    BY <1>10 DEF Kill, LoseRAM, EmptyTable
  <2>2. QED
    BY <1>10, <2>1, TableData DEF Kill, LoseRAM
<1>11. CASE CommitSync
  <2>1. disk' = Image /\ UNCHANGED <<ddt, stable>> /\ \A a \in Addr : cache'[a] = None
    BY <1>1, <1>11 DEF CommitSync, Sync
  <2>2. \A a \in Addr : Image'[a] = Image[a]
    BY <1>2, <2>1
  <2>3. Dirty' = {}
    BY <1>2, <2>1
  <2>4. Readable(stable.ddt, disk)' /\ (Claimed(stable.ddt) \cap Dirty)' = {}
    BY <1>3, <1>4, <2>1, StableKept DEF IInv
  <2>5. Readable(ddt, Image)'
    BY <1>3, <2>1, <2>2, LiveKept DEF IInv
  <2>6. QED
    BY <2>3, <2>4, <2>5 DEF DataInv
<1>12. CASE CommitSyncErr
  <2>1. UNCHANGED <<disk, ddt, stable>> /\ phase' = "idle" /\ \A a \in Addr : cache'[a] = cache[a]
    BY <1>12 DEF CommitSyncErr, CommitErr
  <2>2. \A a \in Addr : Image'[a] = Image[a]
    BY <1>1, <1>2, <2>1
  <2>3. Readable(stable.ddt, disk)' /\ (Claimed(stable.ddt) \cap Dirty)' = {}
    BY <1>3, <2>1, StableKept DEF IInv
  <2>4. Readable(ddt, Image)'
    BY <1>3, <2>1, <2>2, LiveKept DEF IInv
  <2>5. QED
    BY <2>1, <2>3, <2>4 DEF DataInv
<1>13. CASE CommitFlip
  <2>1. /\ UNCHANGED <<disk, cache, ddt>> /\ stable'.ddt = ddt /\ phase' = "flipped"
        /\ Dirty = {}
    BY <1>13 DEF CommitFlip, DataInv, Snapshot
  <2>2. Dirty' = {} /\ Image' = Image
    BY <2>1 DEF Dirty, Image, ReadBlock
  <2>3. Readable(ddt, Image)'
    BY <2>1, <2>2, LiveKept DEF IInv
  <2>4. \A a \in Addr : Image[a] = disk[a]
    BY <1>1, <2>1
  <2>5. Readable(ddt, disk)
    <3> SUFFICES ASSUME NEW k \in Keys, ddt[k] # None, NEW a \in Extent(k, ddt[k])
                 PROVE  disk[a] = [hash |-> k, part |-> a - ddt[k].start]
      BY DEF Readable
    <3>1. a \in Addr
      BY <1>3, ClaimsPlaced
    <3>2. QED
      BY <2>4, <3>1 DEF DataInv, Readable
  <2>6. QED
    BY <2>1, <2>2, <2>3, <2>5 DEF DataInv, Readable
<1>14. CASE PowerLoss
  <2>1. PICK torn \in SUBSET Dirty : LosePower(torn)
    BY <1>14 DEF PowerLoss
  <2>2. stable' = stable /\ phase' = "idle" /\ \A k \in Keys : ddt'[k] = None
    BY <1>14 DEF PowerLoss, LoseRAM, EmptyTable
  <2>3. \A a \in Addr : cache'[a] = None /\ (cache[a] = None => disk'[a] = disk[a])
    BY <1>1, <2>1 DEF LosePower
  <2>4. Readable(stable.ddt, disk)' /\ (Claimed(stable.ddt) \cap Dirty)' = {}
    BY <1>3, <1>4, <2>2, <2>3, StableKept DEF IInv
  <2>5. QED
    BY <2>2, <2>4 DEF DataInv, Readable
<1>15. CASE Writeback
  <2>1. PICK b \in Addr : WritebackBlock(b)
    BY <1>15 DEF Writeback
  <2>2. /\ b \in Dirty /\ disk' = [disk EXCEPT ![b] = cache[b]] /\ cache' = [cache EXCEPT ![b] = None]
        /\ UNCHANGED <<ddt, stable, phase>>
    BY <1>15, <2>1 DEF Writeback, WritebackBlock
  <2>3. \A a \in Addr : Image'[a] = Image[a]
    BY <1>1, <1>2, <2>2
  <2>4. \A a \in Claimed(stable.ddt) : disk'[a] = disk[a] /\ cache'[a] = cache[a]
    BY <1>1, <1>3, <1>4, <2>2
  <2>5. Readable(stable.ddt, disk)' /\ (Claimed(stable.ddt) \cap Dirty)' = {}
    BY <2>2, <2>4, StableKept DEF IInv
  <2>6. Readable(ddt, Image)'
    BY <1>3, <2>2, <2>3, LiveKept DEF IInv
  <2>7. phase' # "synced"
    BY <2>2 DEF DataInv
  <2>8. QED
    BY <2>5, <2>6, <2>7 DEF DataInv
<1>16. CASE Mount
  <2>1. UNCHANGED <<disk, cache, stable, phase>> /\ ddt' = stable.ddt
    BY <1>16 DEF Mount
  <2>2. Image' = Image /\ Dirty' = Dirty
    BY <2>1 DEF Image, ReadBlock, Dirty
  <2>3. Readable(stable.ddt, disk)' /\ (Claimed(stable.ddt) \cap Dirty)' = {}
    BY <2>1, StableKept DEF IInv
  <2>4. Readable(stable.ddt, Image)
    <3> SUFFICES ASSUME NEW k \in Keys, stable.ddt[k] # None, NEW a \in Extent(k, stable.ddt[k])
                 PROVE  Image[a] = [hash |-> k, part |-> a - stable.ddt[k].start]
      BY DEF Readable
    <3>1. a \in Claimed(stable.ddt)
      BY ClaimsPlaced
    <3>2. QED
      BY <1>4, <3>1 DEF DataInv, Readable
  <2>5. QED
    BY <2>1, <2>2, <2>3, <2>4 DEF DataInv, Readable
<1>17. QED
  BY <1>5, <1>6, <1>7, <1>8, <1>9, <1>10, <1>11, <1>12, <1>13, <1>14, <1>15, <1>16 DEF Next

LEMMA InitData == Init => DataInv
<1> SUFFICES ASSUME Init PROVE DataInv
  OBVIOUS
<1>1. ddt = EmptyTable /\ stable.ddt = EmptyTable /\ phase = "idle"
  BY DEF Init, Snapshot
<1>2. \A k \in Keys : ddt[k] = None /\ stable.ddt[k] = None
  BY <1>1 DEF EmptyTable
<1>3. Claimed(stable.ddt) = {}
  BY <1>1, EmptySound
<1>4. QED
  BY <1>1, <1>2, <1>3 DEF DataInv, Readable

\* The table's entries and the inodes' Refs name the same clusters.
LEMMA RefReads ==
  ASSUME NEW t, NEW n \in InodeTables, Named(t, n), NEW img, Readable(t, img),
         NEW h \in Holders, n[h] # None
  PROVE  /\ Reads(n[h], img)
         /\ Run(n[h].start, Size[n[h].hash]) \subseteq Claimed(t)
<1> DEFINE k == n[h].hash
<1>1. k \in Keys /\ t[k] # None /\ t[k].start = n[h].start
  BY DEF InodeTables, Ref, Named, Names
<1>2. Extent(k, t[k]) = Run(n[h].start, Size[n[h].hash])
  BY <1>1 DEF Extent
<1>3. Reads(n[h], img)
  BY <1>1, <1>2 DEF Reads, Readable
<1>4. QED
  BY <1>1, <1>2, <1>3, ClaimedMember

LEMMA DataAlways == ~DropsOnError /\ Spec => [](IInv /\ DataInv)
<1> SUFFICES ASSUME ~DropsOnError PROVE Spec => [](IInv /\ DataInv)
  OBVIOUS
<1>1. IInv /\ DataInv /\ [Next]_vars => IInv' /\ DataInv'
  BY NextIInv, NextData
<1>2. QED
  BY <1>1, InitIInv, InitData, PTL DEF Spec

\* What a running filesystem stored reads back as it was written, as long as a
\* failed sync does not drop what was in the device's cache.
THEOREM StoredIsReadable == ~DropsOnError /\ Spec => []LiveReadable
<1>1. IInv /\ DataInv => LiveReadable
  <2> SUFFICES ASSUME IInv, DataInv PROVE LiveReadable
    OBVIOUS
  <2>1. inodes \in InodeTables /\ Named(ddt, inodes) /\ Readable(ddt, Image)
    BY DEF IInv, TypeOK, Sound, InodeTables, DataInv
  <2>2. QED
    BY <2>1, RefReads DEF LiveReadable
<1>2. QED
  BY <1>1, DataAlways, PTL

\* Every record of the last commit is durable and unharmed at every moment, so a
\* power loss at any step rolls back to readable data.
THEOREM CommittedIsIntact == ~DropsOnError /\ Spec => []StableIntact
<1>1. IInv /\ DataInv => StableIntact
  <2> SUFFICES ASSUME IInv, DataInv PROVE StableIntact
    OBVIOUS
  <2>1. /\ stable.inodes \in InodeTables /\ Named(stable.ddt, stable.inodes)
        /\ Readable(stable.ddt, disk) /\ Claimed(stable.ddt) \cap Dirty = {}
    BY DEF IInv, TypeOK, Snapshots, Sound, InodeTables, DataInv
  <2>2. ASSUME NEW h \in Holders, stable.inodes[h] # None
        PROVE  /\ Reads(stable.inodes[h], disk)
               /\ Run(stable.inodes[h].start, Size[stable.inodes[h].hash]) \subseteq Claimed(stable.ddt)
    BY <2>1, <2>2, RefReads
  <2>3. QED
    BY <2>1, <2>2 DEF StableIntact
<1>2. QED
  BY <1>1, DataAlways, PTL
=============================================================================
