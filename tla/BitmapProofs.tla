---------------------------- MODULE BitmapProofs ----------------------------
(***************************************************************************)
(* What TLAPS proves of the allocator, for every device size: the types,   *)
(* that alloc's scan finds the first fit, and that the counter is exact.   *)
(***************************************************************************)
EXTENDS Bitmap, FiniteSetTheorems, TLAPS

\* Where the scan stands before cluster i: the last run clusters were free (and
\* start is the first of them), and no fit begins before them.
ScanInv ==
    pc = "scan" =>
        /\ result = "none"
        /\ run < count /\ run <= i
        /\ run > 0 => start = i - run
        /\ \A a \in i - run .. i - 1 : a \notin bits
        /\ \A s \in 0 .. i - run - 1 : ~RunFree(bits, s, count)

Counter == used = Cardinality(bits)

ReservedKept == Span(0, DataStart) \subseteq bits

IInv == TypeOK /\ ScanInv /\ Counter

\* The part of the invariant about who holds which run.  It needs IInv (the run
\* a scan finds is free) and is not needed for it.
RunsInv == ReservedKept /\ RunsDisjoint

LEMMA AddrFinite == IsFiniteSet(Addr) /\ Cardinality(Addr) = Total
<1>1. Total \in Nat /\ 0 \in Int /\ Total - 1 \in Int
  BY BitmapAssumption
<1>2. QED
  BY <1>1, FS_Interval DEF Addr

\* A set of clusters is finite and at most the device.
LEMMA ClustersFinite ==
  ASSUME NEW S, S \subseteq Addr
  PROVE  IsFiniteSet(S) /\ Cardinality(S) \in Nat /\ Cardinality(S) <= Total
BY AddrFinite, FS_Subset, FS_CardinalityType

\* What free does to the counter: it stays the number of set bits.
LEMMA FreeCounts ==
  ASSUME NEW rs, bits \subseteq Addr, Counter, Free(rs)
  PROVE  bits' \subseteq Addr /\ used' \in Nat /\ Counter'
<1> DEFINE span == {a \in Addr : \E r \in rs : a \in Span(r.start, r.count)}
<1>1. IsFiniteSet(bits)
  BY ClustersFinite
<1>2. /\ IsFiniteSet(bits \ span)
      /\ Cardinality(bits \ span) = Cardinality(bits) - Cardinality(bits \cap span)
  BY <1>1, FS_Difference
<1>3. bits \cap span = span \cap bits
  OBVIOUS
<1>4. bits' = bits \ span /\ used' = used - Cardinality(span \cap bits)
  BY DEF Free
<1>5. Cardinality(bits') \in Nat
  BY <1>2, <1>4, FS_CardinalityType
<1>6. QED
  BY <1>2, <1>3, <1>4, <1>5 DEF Counter

\* Marking a free run of n clusters adds n to the number of set bits.
LEMMA MarkCounts ==
  ASSUME NEW s \in Nat, NEW n \in Nat \ {0}, bits \subseteq Addr,
         RunFree(bits, s, n)
  PROVE  /\ bits \cup (s .. s + n - 1) \subseteq Addr
         /\ Cardinality(bits \cup (s .. s + n - 1)) = Cardinality(bits) + n
<1>1. IsFiniteSet(bits) /\ Cardinality(bits) \in Nat
  BY ClustersFinite
<1>2. /\ IsFiniteSet(s .. s + n - 1)
      /\ Cardinality(s .. s + n - 1) = n
  <2>1. s \in Int /\ s + n - 1 \in Int /\ ~(s > s + n - 1) /\ (s + n - 1) - s + 1 = n
    OBVIOUS
  <2>2. QED
    BY <2>1, FS_Interval
<1>3. bits \cap (s .. s + n - 1) = {}
  BY DEF RunFree
<1>4. Cardinality(bits \cap (s .. s + n - 1)) = 0
  BY <1>3, FS_EmptySet
<1>5. Cardinality(bits \cup (s .. s + n - 1)) = Cardinality(bits) + n - 0
  <2> DEFINE T == s .. s + n - 1
  <2>1. IsFiniteSet(bits) /\ IsFiniteSet(T)
    BY <1>1, <1>2
  <2> HIDE DEF T
  <2>2. Cardinality(bits \cup T) = Cardinality(bits) + Cardinality(T) - Cardinality(bits \cap T)
    BY ONLY <2>1, FS_Union
  <2>3. QED
    BY <2>2, <1>2, <1>4 DEF T
<1>6. bits \cup (s .. s + n - 1) \subseteq Addr
  BY BitmapAssumption DEF RunFree, Addr
<1>7. QED
  BY <1>1, <1>5, <1>6

LEMMA InitIInv == Init => IInv
<1> SUFFICES ASSUME Init PROVE IInv
  OBVIOUS
<1>1. Span(0, DataStart) \subseteq Addr
  BY DEF Span
<1>2. Cardinality(bits) \in Nat
  BY <1>1, ClustersFinite DEF Init
<1>3. << >> \in Seq(ClusterRange) /\ 0 \in 0 .. Total
  BY BitmapAssumption
<1>4. QED
  BY <1>1, <1>2, <1>3 DEF Init, IInv, TypeOK, ScanInv, Counter

\* The step that ends a successful scan.
LEMMA FoundStep == IInv /\ ScanFound => IInv'
<1> SUFFICES ASSUME IInv, ScanFound PROVE IInv'
  OBVIOUS
<1> USE BitmapAssumption
<1>1. /\ RunStart = i - run /\ RunStart \in Nat /\ RunStart \in Addr
      /\ count \in 1 .. Total /\ RunStart + count - 1 = i
      /\ i \in Addr /\ run + 1 \in 0 .. Total
  BY DEF IInv, TypeOK, ScanInv, ScanFound, RunStart, Addr
<1>2. RunFree(bits, RunStart, count)
  BY <1>1 DEF IInv, TypeOK, ScanInv, ScanFound, RunFree, Addr
<1>3. /\ bits' \subseteq Addr
      /\ Cardinality(bits') = Cardinality(bits) + count
  <2>1. bits \subseteq Addr /\ count \in Nat \ {0}
    BY <1>1 DEF IInv, TypeOK
  <2>2. bits' = bits \cup (RunStart .. RunStart + count - 1)
    BY DEF ScanFound
  <2>3. QED
    BY <1>1, <1>2, <2>1, <2>2, MarkCounts
<1>4. Counter' /\ used' \in Nat
  BY <1>1, <1>3 DEF IInv, TypeOK, ScanFound, Counter
<1>5. [start |-> RunStart, count |-> count] \in ClusterRange
  BY <1>1 DEF ClusterRange
<1>6. TypeOK'
  BY <1>1, <1>3, <1>4, <1>5 DEF IInv, TypeOK, ScanFound, Addr
<1>7. QED
  BY <1>4, <1>6 DEF IInv, ScanInv, ScanFound

LEMMA ScanStep == IInv /\ (ScanUsed \/ ScanFree \/ ScanEnd) => IInv'
<1> SUFFICES ASSUME IInv PROVE (ScanUsed \/ ScanFree \/ ScanEnd) => IInv'
  OBVIOUS
<1> USE BitmapAssumption
<1>1. ASSUME ScanUsed PROVE IInv'
  <2>1. TypeOK' /\ Counter'
    BY <1>1 DEF IInv, TypeOK, ScanInv, Counter, ScanUsed
  <2>2. ASSUME NEW s \in 0 .. i PROVE ~RunFree(bits, s, count)
    <3>1. CASE s < i - run
      BY <3>1, <1>1 DEF IInv, TypeOK, ScanInv, ScanUsed
    <3>2. CASE s >= i - run
      <4>1. i \in s .. s + count - 1
        BY <3>2, <1>1 DEF IInv, TypeOK, ScanInv, ScanUsed
      <4>2. QED
        BY <4>1, <1>1 DEF RunFree, ScanUsed
    <3>3. QED
      BY <3>1, <3>2, <1>1 DEF IInv, TypeOK
  <2>3. ScanInv'
    BY <2>2, <1>1 DEF IInv, TypeOK, ScanInv, ScanUsed, RunFree
  <2>4. QED
    BY <2>1, <2>3 DEF IInv
<1>2. ASSUME ScanFree PROVE IInv'
  <2>1. run + 1 < count /\ run + 1 <= i + 1 /\ RunStart = i - run
    BY <1>2 DEF IInv, TypeOK, ScanInv, ScanFree, RunStart
  <2>2. TypeOK' /\ Counter'
    BY <2>1, <1>2 DEF IInv, TypeOK, ScanInv, Counter, ScanFree
  <2>3. ScanInv'
    BY <2>1, <1>2 DEF IInv, TypeOK, ScanInv, ScanFree, RunFree
  <2>4. QED
    BY <2>2, <2>3 DEF IInv
<1>3. ASSUME ScanEnd PROVE IInv'
  BY <1>3 DEF IInv, TypeOK, ScanInv, Counter, ScanEnd
<1>4. QED
  BY <1>1, <1>2, <1>3

\* The operations of the caller between two scans.
LEMMA CallerStep ==
  ASSUME IInv,
         \/ AllocZero \/ \E n \in 1 .. Total : AllocStart(n)
         \/ \E r \in owned : FreeRun(r) \/ Defer(r)
         \/ ApplyDeferred \/ Reload
  PROVE  IInv'
<1> USE BitmapAssumption
<1>1. CASE AllocZero
  BY <1>1 DEF IInv, TypeOK, ScanInv, Counter, AllocZero
<1>2. ASSUME NEW n \in 1 .. Total, AllocStart(n) PROVE IInv'
  BY <1>2 DEF IInv, TypeOK, ScanInv, Counter, AllocStart
<1>3. ASSUME NEW r \in owned, FreeRun(r) PROVE IInv'
  <2>1. bits' \subseteq Addr /\ used' \in Nat /\ Counter'
    BY <1>3, FreeCounts DEF FreeRun, IInv, TypeOK
  <2>2. QED
    BY <1>3, <2>1 DEF FreeRun, IInv, TypeOK, ScanInv
<1>4. ASSUME NEW r \in owned, Defer(r) PROVE IInv'
  <2>1. Append(deferred, r) \in Seq(ClusterRange)
    BY DEF IInv, TypeOK
  <2>2. QED
    BY <1>4, <2>1 DEF Defer, IInv, TypeOK, ScanInv, Counter
<1>5. CASE ApplyDeferred
  <2>1. bits' \subseteq Addr /\ used' \in Nat /\ Counter'
    BY <1>5, FreeCounts DEF ApplyDeferred, IInv, TypeOK
  <2>2. << >> \in Seq(ClusterRange)
    OBVIOUS
  <2>3. QED
    BY <1>5, <2>1, <2>2 DEF ApplyDeferred, IInv, TypeOK, ScanInv
<1>6. CASE Reload
  <2>1. Cardinality(bits) \in Nat /\ << >> \in Seq(ClusterRange)
    BY ClustersFinite DEF IInv, TypeOK
  <2>2. QED
    BY <1>6, <2>1 DEF Reload, IInv, TypeOK, ScanInv, Counter
<1>7. QED
  BY <1>1, <1>2, <1>3, <1>4, <1>5, <1>6

LEMMA NextIInv == IInv /\ [Next]_vars => IInv'
<1> SUFFICES ASSUME IInv, [Next]_vars PROVE IInv'
  OBVIOUS
<1>1. CASE Next
  BY <1>1, FoundStep, ScanStep, CallerStep DEF Next
<1>2. CASE UNCHANGED vars
  BY <1>2 DEF vars, IInv, TypeOK, ScanInv, Counter
<1>3. QED
  BY <1>1, <1>2

\* The allocator's state keeps its types on a device of any size: in particular
\* the counter that free decrements never goes below zero.
THEOREM TypeCorrect == Spec => []TypeOK
<1>1. IInv => TypeOK
  BY DEF IInv
<1>2. QED
  BY <1>1, InitIInv, NextIInv, PTL DEF Spec

\* alloc's scan returns the first run that fits, and an error only when no run
\* does, whatever was allocated and freed before.
THEOREM FirstFit == Spec => AllocIsFirstFit
<1>1. ASSUME IInv, [Next]_vars
      PROVE  [/\ (pc = "scan" /\ result' = "ok") =>
                   /\ RunFree(bits, start', count)
                   /\ bits' = bits \cup Clusters([start |-> start', count |-> count])
                   /\ \A s \in 0 .. start' - 1 : ~RunFree(bits, s, count)
              /\ (pc = "scan" /\ result' = "err") =>
                   \A s \in Addr : ~RunFree(bits, s, count)]_vars
  <2> USE BitmapAssumption
  <2>1. ASSUME pc = "scan", result' = "ok", Next
        PROVE  /\ RunFree(bits, start', count)
               /\ bits' = bits \cup Clusters([start |-> start', count |-> count])
               /\ \A s \in 0 .. start' - 1 : ~RunFree(bits, s, count)
    <3>1. ScanFound
      BY <1>1, <2>1 DEF IInv, ScanInv, Next, AllocZero, AllocStart, ScanUsed, ScanFree,
         ScanEnd, FreeRun, Defer, ApplyDeferred, Reload
    <3>2. /\ RunStart = i - run /\ start' = i - run /\ run + 1 = count
          /\ i \in Nat /\ run \in Nat /\ run <= i /\ i < Total
      BY <1>1, <3>1 DEF IInv, TypeOK, ScanInv, ScanFound, RunStart
    <3>3. RunFree(bits, start', count)
      BY <1>1, <3>1, <3>2 DEF IInv, ScanInv, ScanFound, RunFree
    <3>4. QED
      BY <1>1, <3>1, <3>2, <3>3 DEF IInv, ScanInv, ScanFound, Clusters
  <2>2. ASSUME pc = "scan", result' = "err", Next, NEW s \in Addr
        PROVE  ~RunFree(bits, s, count)
    <3>1. ScanEnd
      BY <1>1, <2>2 DEF IInv, ScanInv, Next, AllocZero, AllocStart, ScanUsed, ScanFree,
         ScanFound, FreeRun, Defer, ApplyDeferred, Reload
    <3>2. CASE s < i - run
      BY <1>1, <3>1, <3>2 DEF IInv, TypeOK, ScanInv, ScanEnd, Addr
    <3>3. CASE s >= i - run
      BY <1>1, <3>1, <3>3 DEF IInv, TypeOK, ScanInv, ScanEnd, RunFree, Addr
    <3>4. QED
      BY <1>1, <3>1, <3>2, <3>3 DEF IInv, TypeOK, Addr
  <2>3. QED
    BY <1>1, <2>1, <2>2
<1>2. QED
  BY <1>1, InitIInv, NextIInv, PTL DEF Spec, AllocIsFirstFit

\* The used counter behind used() and available() is the number of set bits.
THEOREM CounterExact == Spec => []UsedExact
<1>1. IInv => UsedExact
  BY ClustersFinite DEF IInv, TypeOK, Counter, UsedExact
<1>2. QED
  BY <1>1, InitIInv, NextIInv, PTL DEF Spec

----------------------------------------------------------------------------
(* Who holds which run. *)

\* free clears no cluster outside the runs it is given.
LEMMA FreeKeeps ==
  ASSUME NEW rs, rs \subseteq ClusterRange, Free(rs), NEW S, S \subseteq bits,
         \A r \in rs : Clusters(r) \cap S = {}
  PROVE  S \subseteq bits'
<1> SUFFICES ASSUME NEW a \in S, a \notin bits' PROVE FALSE
  OBVIOUS
<1>1. PICK r \in rs : a \in Addr /\ a \in Span(r.start, r.count)
  BY DEF Free
<1>2. r.start \in Nat /\ r.count \in Nat
  BY BitmapAssumption DEF ClusterRange, Addr
<1>3. a \in Clusters(r)
  BY <1>1, <1>2, BitmapAssumption DEF Span, Addr, Clusters
<1>4. QED
  BY <1>1, <1>3

LEMMA InitRuns == Init => RunsInv
BY DEF Init, RunsInv, ReservedKept, RunsDisjoint, DeferredRuns

\* The run a scan hands out was free: it meets no run handed out before.
LEMMA FoundRuns == IInv /\ RunsInv /\ ScanFound => RunsInv'
<1> SUFFICES ASSUME IInv, RunsInv, ScanFound PROVE RunsInv'
  OBVIOUS
<1> USE BitmapAssumption
<1> DEFINE new == [start |-> RunStart, count |-> count]
<1>1. /\ RunStart = i - run /\ RunStart \in Nat
      /\ count \in Nat \ {0} /\ RunStart + count - 1 = i
  BY DEF IInv, TypeOK, ScanInv, ScanFound, RunStart
<1>2. Clusters(new) \cap bits = {} /\ Clusters(new) # {}
  BY <1>1 DEF IInv, TypeOK, ScanInv, ScanFound, Clusters
<1>3. bits' = bits \cup Clusters(new)
  BY DEF ScanFound, Clusters
<1>4. owned' = owned \cup {new} /\ deferred' = deferred /\ DeferredRuns' = DeferredRuns
  BY DEF ScanFound, DeferredRuns
<1>5. ReservedKept'
  BY <1>3 DEF RunsInv, ReservedKept
<1>6. \A r \in owned \cup DeferredRuns : Clusters(r) \subseteq bits /\ r # new
  BY <1>2 DEF RunsInv, RunsDisjoint
<1> HIDE DEF new
<1>7. \A r \in (owned \cup DeferredRuns)' :
         Clusters(r) \subseteq bits' /\ Clusters(r) \cap Span(0, DataStart) = {}
  BY <1>2, <1>3, <1>4 DEF RunsInv, RunsDisjoint, ReservedKept
<1>8. \A r, q \in (owned \cup DeferredRuns)' : r # q => Clusters(r) \cap Clusters(q) = {}
  BY <1>2, <1>4, <1>6 DEF RunsInv, RunsDisjoint
<1>9. (owned \cap DeferredRuns)' = {}
  BY <1>4, <1>6 DEF RunsInv, RunsDisjoint
<1>10. QED
  BY <1>4, <1>5, <1>7, <1>8, <1>9 DEF RunsInv, RunsDisjoint

\* A run that is freed or deferred leaves the others as they were.
LEMMA CallerRuns ==
  ASSUME IInv, RunsInv,
         \/ \E r \in owned : FreeRun(r) \/ Defer(r)
         \/ ApplyDeferred \/ Reload
  PROVE  RunsInv'
<1> USE DEF RunsInv
<1>1. ASSUME NEW r \in owned, FreeRun(r) PROVE RunsInv'
  <2>1. Free({r}) /\ owned' = owned \ {r} /\ deferred' = deferred
        /\ DeferredRuns' = DeferredRuns /\ {r} \subseteq ClusterRange
    BY <1>1 DEF FreeRun, DeferredRuns, IInv, TypeOK
  <2>2. ReservedKept'
    BY <2>1, FreeKeeps DEF ReservedKept, RunsDisjoint
  <2>3. \A q \in (owned \ {r}) \cup DeferredRuns :
           Clusters(q) \subseteq bits /\ Clusters(r) \cap Clusters(q) = {}
    BY DEF RunsDisjoint
  <2>4. ASSUME NEW q \in (owned \ {r}) \cup DeferredRuns PROVE Clusters(q) \subseteq bits'
    BY <2>1, <2>3, FreeKeeps
  <2>5. QED
    BY <2>1, <2>2, <2>4 DEF RunsDisjoint
<1>2. ASSUME NEW r \in owned, Defer(r) PROVE RunsInv'
  <2>1. /\ deferred' = Append(deferred, r) /\ owned' = owned \ {r} /\ bits' = bits
        /\ deferred \in Seq(ClusterRange) /\ r \in ClusterRange
    BY <1>2 DEF Defer, IInv, TypeOK
  <2>2. /\ DOMAIN deferred' = DOMAIN deferred \cup {Len(deferred) + 1}
        /\ Len(deferred) + 1 \notin DOMAIN deferred
        /\ deferred'[Len(deferred) + 1] = r
        /\ \A j \in DOMAIN deferred : deferred'[j] = deferred[j]
    BY <2>1
  <2>3. DeferredRuns' = DeferredRuns \cup {r}
    BY <2>2 DEF DeferredRuns
  <2>4. r \notin DeferredRuns
    BY DEF RunsDisjoint
  <2>5. \A j, k \in DOMAIN deferred' : j # k => deferred'[j] # deferred'[k]
    BY <2>2, <2>4 DEF RunsDisjoint, DeferredRuns
  <2>6. (owned \cup DeferredRuns)' = owned \cup DeferredRuns /\ (owned \cap DeferredRuns)' = {}
    BY <2>1, <2>3 DEF RunsDisjoint
  <2>7. QED
    BY <2>1, <2>5, <2>6 DEF RunsDisjoint, ReservedKept
<1>3. CASE ApplyDeferred
  <2>1. /\ Free(DeferredRuns) /\ owned' = owned /\ deferred' = << >> /\ DeferredRuns' = {}
    BY <1>3 DEF ApplyDeferred, DeferredRuns
  <2>2. DeferredRuns \subseteq ClusterRange
    BY DEF IInv, TypeOK, DeferredRuns
  <2>3. ReservedKept'
    BY <2>1, <2>2, FreeKeeps DEF ReservedKept, RunsDisjoint
  <2>4. ASSUME NEW q \in owned PROVE Clusters(q) \subseteq bits'
    <3>1. Clusters(q) \subseteq bits /\ \A r \in DeferredRuns : Clusters(r) \cap Clusters(q) = {}
      BY DEF RunsDisjoint
    <3>2. QED
      BY <2>1, <2>2, <3>1, FreeKeeps
  <2>5. QED
    BY <2>1, <2>3, <2>4 DEF RunsDisjoint
<1>4. CASE Reload
  BY <1>4 DEF Reload, ReservedKept, RunsDisjoint, DeferredRuns
<1>5. QED
  BY <1>1, <1>2, <1>3, <1>4

LEMMA NextRuns == IInv /\ RunsInv /\ [Next]_vars => RunsInv'
<1> SUFFICES ASSUME IInv, RunsInv, [Next]_vars PROVE RunsInv'
  OBVIOUS
<1>1. ASSUME UNCHANGED <<bits, deferred, owned>> PROVE RunsInv'
  BY <1>1 DEF RunsInv, ReservedKept, RunsDisjoint, DeferredRuns
<1>2. CASE Next
  <2>1. ASSUME AllocZero \/ (\E n \in 1 .. Total : AllocStart(n))
               \/ ScanUsed \/ ScanFree \/ ScanEnd
        PROVE  UNCHANGED <<bits, deferred, owned>>
    BY <2>1 DEF AllocZero, AllocStart, ScanUsed, ScanFree, ScanEnd
  <2>2. QED
    BY <1>1, <1>2, <2>1, FoundRuns, CallerRuns DEF Next
<1>3. QED
  BY <1>1, <1>2 DEF vars

\* No cluster is ever in two runs, in a run and in the reserved area, or in a run
\* and free, whatever is allocated, freed, deferred and reloaded: the allocator
\* hands a cluster out a second time only after it came back.
THEOREM NoRunOverlaps == Spec => []RunsDisjoint
<1>1. RunsInv => RunsDisjoint
  BY DEF RunsInv
<1>2. QED
  BY <1>1, InitIInv, NextIInv, InitRuns, NextRuns, PTL DEF Spec
=============================================================================
