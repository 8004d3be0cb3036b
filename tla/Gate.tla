-------------------------------- MODULE Gate --------------------------------
(***************************************************************************)
(* The membership gate of the Go prototype (globalfilter/gate.go) in front *)
(* of one directory of its filesystem (fs/fs.go).  The resident index of   *)
(* the directory answers a lookup when there is one.  When there is none,  *)
(* the gate may answer "absent" without a read: a filter over all names,   *)
(* and tombstones for the names that were removed since it was built.      *)
(*                                                                         *)
(* A change of the directory reaches the index and the gate at once, and   *)
(* then the pages, one after the other, under the write lock.  Writing a   *)
(* page may fail: the index keeps the change, the next flush writes it,    *)
(* and an eviction forgets it.  Writing a page on a full device may also   *)
(* commit first, and a commit may rebuild the gate by a walk of the tree,  *)
(* which evicts and loads directories, the one that is flushed included.   *)
(***************************************************************************)
EXTENDS DirIndex, Integers

CONSTANTS
    GateKey,        \* the 128-bit hash of directory and name
    MinCapacity,    \* minGateCapacity
    TombPart,       \* tombstoneFraction
    PageOf,         \* the page of a name: the one with room for it beside names that stay
    MaxSeq,         \* bound: commits
    MaxFails        \* bound: failed flushes

\* A tombstone is keyed by the low word only: the gate is right for names that
\* differ there.
ASSUME GateAssumption ==
    /\ GateKey \in [Names -> Keys]
    /\ \A m, n \in Names : m # n => GateKey[m].lo # GateKey[n].lo
    /\ MinCapacity \in Nat /\ TombPart \in Nat \ {0}
    /\ PageOf \in [Names -> Nat]
    /\ MaxSeq \in Nat /\ MaxFails \in Nat

GateRec ==
    [filter : SUBSET FilterBits, deleted : SUBSET {GateKey[n].lo : n \in Names},
     live : Int, capacity : Nat]

Pages == {PageOf[n] : n \in Names}
NamesOn(P) == {n \in Names : PageOf[n] \in P}

\* cachedDir: the index, the names of the pages, and the pages changed since the
\* last flush.
CachedDirs == [dir : Seq(Segment), names : SUBSET Names, dirty : SUBSET Pages]

\* A gate snapshot: its stamp, the gate, and the names the gate owes no answer.
Snapshots == [seq : Nat, gate : GateRec, doubtful : SUBSET Names]

\* None is no cached directory and no snapshot.
ASSUME GateSentinel == None \notin CachedDirs /\ None \notin Snapshots

VARIABLES
    resident,    \* the cached directory, or None
    handle,      \* the cached directory an operation holds while it flushes, or None
    todo,        \* the pages that flush has still to write
    stored,      \* the names in the directory's pages
    committed,   \* the pages of the last commit
    seq,         \* its sequence number
    gate,        \* the gate
    saved,       \* the gate snapshot kept for the next mount, or None
    fails,       \* failed flushes so far
    doubtful     \* history: names with a removal that is not stored, or missed by a walk

vars == <<resident, handle, todo, stored, committed, seq, gate, saved, fails, doubtful>>

----------------------------------------------------------------------------
(* The gate. *)

NewGate(expected) ==
    [filter |-> EmptyFilter, deleted |-> {}, live |-> 0,
     capacity |-> Max({2 * expected, MinCapacity})]

GateAdd(g, n) ==
    [g EXCEPT !.deleted = @ \ {GateKey[n].lo},
              !.filter = AddKey(@, GateKey[n]),
              !.live = @ + 1]

GateRemove(g, n) ==
    [g EXCEPT !.deleted = @ \cup {GateKey[n].lo}, !.live = @ - 1]

GateTest(g, n) == TestKey(g.filter, GateKey[n]) /\ GateKey[n].lo \notin g.deleted

NeedsRebuild(g) ==
    g.live > g.capacity \/ Cardinality(g.deleted) * TombPart > g.capacity

\* walkBuildGate over the names of the directory.
BuildGate(names) ==
    [NewGate(Cardinality(names)) EXCEPT
        !.filter = UNION {Bits[GateKey[n]] : n \in names},
        !.live = Cardinality(names)]

----------------------------------------------------------------------------
(* The directory. *)

\* openDir: the resident directory, or one loaded from the pages.
CachedDir(names) == [dir |-> Load[names], names |-> names, dirty |-> {}]

OpenDir == IF resident = None THEN CachedDir(stored) ELSE resident

\* cachedDir.add and cachedDir.del change the index and the pages.
CachedAdd(h, n) ==
    [h EXCEPT !.dir = DirAdd(@, n), !.names = @ \cup {n}, !.dirty = @ \cup {PageOf[n]}]

CachedDel(h, n) ==
    [h EXCEPT !.dir = DirDelete(@, n), !.names = @ \ {n}, !.dirty = @ \cup {PageOf[n]}]

\* A resident copy that differs from the pages where it has nothing to write.
Stale ==
    /\ resident # None
    /\ resident.names \ NamesOn(resident.dirty) # stored \ NamesOn(resident.dirty)

\* An operation has changed the directory to h and begins to flush it.
Begin(h) ==
    /\ handle' = h /\ resident' = h /\ todo' = h.dirty
    /\ UNCHANGED <<stored, committed, seq, saved, fails>>

\* What an operation does to a stale copy, whose inode leads to released records,
\* is not modelled.
Create(n) ==
    /\ handle = None /\ ~Stale
    /\ Find(OpenDir.dir, n) = None
    /\ gate' = GateAdd(gate, n)
    /\ doubtful' = doubtful \ {n}
    /\ Begin(CachedAdd(OpenDir, n))

Unlink(n) ==
    /\ handle = None /\ ~Stale
    /\ Find(OpenDir.dir, n) # None
    /\ gate' = GateRemove(gate, n)
    /\ doubtful' = doubtful \cup {n}
    /\ Begin(CachedDel(OpenDir, n))

\* flushDir, the write of one page.
WritePage(p) ==
    /\ handle # None /\ p \in todo
    /\ stored' = (stored \ NamesOn({p})) \cup (handle.names \cap NamesOn({p}))
    /\ todo' = todo \ {p}
    /\ UNCHANGED <<resident, handle, committed, seq, gate, saved, fails, doubtful>>

\* The operation lets go of its directory, which it leaves as h where it is cached.
Release(h) ==
    /\ handle' = None /\ todo' = {}
    /\ resident' = IF resident = handle THEN h ELSE resident
    /\ doubtful' = doubtful \cap (stored \cup handle.names)
    /\ UNCHANGED <<stored, committed, seq, gate, saved>>

FlushEnds ==
    /\ handle # None /\ todo = {}
    /\ Release([handle EXCEPT !.dirty = {}])
    /\ UNCHANGED fails

\* A page cannot be written.  All pages stay dirty, the written ones too.  (When
\* the block map cannot be written, storeRefs has cleared it in the copy's inode,
\* and every later flush of the copy fails.)
FlushFails ==
    /\ handle # None /\ todo # {}
    /\ fails < MaxFails /\ fails' = fails + 1
    /\ Release(handle)

\* Lookup: a cold directory is loaded unless the gate denies the name.
Denied(n) == resident = None /\ ~GateTest(gate, n)

LookupResult(n) == IF Denied(n) THEN None ELSE Find(OpenDir.dir, n)

Lookup(n) ==
    /\ handle = None
    /\ resident' = IF Denied(n) THEN None ELSE OpenDir
    /\ UNCHANGED <<handle, todo, stored, committed, seq, gate, saved, fails, doubtful>>

\* The directory cache is full and drops this directory.
Evict ==
    /\ handle = None /\ resident # None /\ resident' = None
    /\ UNCHANGED <<handle, todo, stored, committed, seq, gate, saved, fails, doubtful>>

----------------------------------------------------------------------------
(* Walks, commits and mounts. *)

\* walkBuildGate, when it comes to the directory with the cached copy r and the
\* pages S: it sees the cached copy, or that was evicted before and is loaded again,
\* or the load fails and the directory is left out; and it may be evicted after.
Walks(r, S) ==
    {[seen |-> {}, cached |-> None, fails |-> f] : f \in {fails + 1} \cap 0 .. MaxFails} \cup
    UNION {{[seen |-> NamesOf(h.dir), cached |-> c, fails |-> fails] : c \in {h, None}} :
              h \in {CachedDir(S), r} \ {None}}

HeldNames == IF handle = None THEN {} ELSE handle.names

\* commitLocked: the pages as they are become the committed ones, and the gate is
\* rebuilt when it has outgrown its size (maybeRebuildGate).
CommitLocked ==
    /\ seq < MaxSeq
    /\ committed' = stored /\ seq' = seq + 1
    /\ IF NeedsRebuild(gate)
       THEN \E w \in Walks(resident, stored) :
               /\ gate' = BuildGate(w.seen) /\ resident' = w.cached
               /\ doubtful' = (stored \cup HeldNames) \ w.seen /\ fails' = w.fails
       ELSE UNCHANGED <<gate, resident, doubtful, fails>>
    /\ UNCHANGED <<handle, todo, stored, saved>>

Commit == handle = None /\ CommitLocked

\* bsWrite: no space for a page, but ranges whose free is deferred.
CommitInside == handle # None /\ todo # {} /\ CommitLocked

\* SnapshotGate, "after the final commit, before unmount".
SnapshotGate ==
    /\ handle = None /\ stored = committed
    /\ saved' = [seq |-> seq, gate |-> gate, doubtful |-> doubtful]
    /\ UNCHANGED <<resident, handle, todo, stored, committed, seq, gate, fails, doubtful>>

\* Slip: a snapshot is used whatever it was stamped with.
AnySnapshot(snap) == snap # None

\* installGate: the snapshot counts when its stamp is the committed sequence number.
ValidSnapshot(snap) == snap # None /\ snap.seq = seq

\* A crash or an unmount, and the mount that follows it: the gate of the snapshot,
\* or a walk (installGate).
Mount ==
    /\ stored' = committed /\ handle' = None /\ todo' = {}
    /\ IF ValidSnapshot(saved)
       THEN gate' = saved.gate /\ resident' = None /\ doubtful' = saved.doubtful /\ UNCHANGED fails
       ELSE \E w \in Walks(None, committed) :
               /\ gate' = BuildGate(w.seen) /\ resident' = w.cached
               /\ doubtful' = committed \ w.seen /\ fails' = w.fails
    /\ UNCHANGED <<committed, seq, saved>>

Init ==
    /\ resident = CachedDir({}) /\ handle = None /\ todo = {}
    /\ stored = {} /\ committed = {} /\ seq = 0
    /\ gate = NewGate(0)
    /\ saved = None /\ fails = 0 /\ doubtful = {}

Next ==
    \/ \E n \in Names : Create(n) \/ Unlink(n) \/ Lookup(n)
    \/ \E p \in Pages : WritePage(p)
    \/ FlushEnds \/ FlushFails \/ CommitInside
    \/ Evict \/ Commit \/ SnapshotGate \/ Mount

Spec == Init /\ [][Next]_vars

----------------------------------------------------------------------------
(* Properties. *)

\* The copies of the directory in memory.
Copies == {resident, handle} \ {None}

\* The cached directory, the pages, the gate and its snapshot have their types.
TypeOK ==
    /\ \A h \in Copies : h.names \subseteq Names /\ h.dirty \subseteq Pages
    /\ todo \subseteq Pages
    /\ stored \subseteq Names /\ committed \subseteq Names
    /\ gate \in GateRec /\ gate.capacity >= MinCapacity
    /\ saved \in Snapshots \cup {None}
    /\ seq \in 0 .. MaxSeq /\ fails \in 0 .. MaxFails /\ doubtful \subseteq Names

\* In every segment of an index the counter is exact and the filter denies no
\* name, after any mix of additions, removals and rebuilds.
SegmentsSound ==
    \A h \in Copies : \A i \in DOMAIN h.dir :
        CountsOK(h.dir[i]) /\ FilterCoversNames(h.dir[i])

\* A name is in an index at most once, under its own hash, though hashes collide
\* and freed places are used again.
IndexNamesOnce == \A h \in Copies : NamedOnce(h.dir)

\* The index and the pages are changed by different code, by hash and by name:
\* they always hold the same names.
IndexMirrorsPages == \A h \in Copies : NamesOf(h.dir) = h.names

\* The index of a cached directory is sound: segments, hash chains and pages agree,
\* after any mix of additions, removals, rebuilds and reloads.
IndexSound == TypeOK /\ SegmentsSound /\ IndexNamesOnce /\ IndexMirrorsPages

\* The completeness contract of the gate: a name of the directory's pages is never
\* denied, unless its removal is not stored, or a walk missed it: the directory could
\* not be read, or was loaded again in the middle of a flush.  It holds across
\* tombstones, rebuilds at a commit, restored snapshots, half-written flushes and
\* crashes.
GateComplete == \A n \in stored \ doubtful : GateTest(gate, n)

\* The contract as gate.go states it: between operations the gate holds every name
\* of the directory.  With no failure at all, a commit inside a flush breaks it.
GateHoldsEveryName == handle = None => \A n \in stored : GateTest(gate, n)

\* The directory's names: the stored ones, except on pages a copy has yet to write.
Current ==
    IF resident = None THEN stored
    ELSE LET ahead == NamesOn(resident.dirty)
         IN (stored \ ahead) \cup (resident.names \cap ahead)

\* A lookup finds exactly the names of the directory, whether the index is
\* resident, loaded or denied by the gate, unless a walk in the middle of a flush
\* left a stale copy in the cache.
LookupExact ==
    handle = None /\ ~Stale => \A n \in Names \ doubtful :
        LookupResult(n) = IF n \in Current THEN InodeOf[n] ELSE None

\* No name is wrongly denied, and every lookup has the right answer.
AnswersExact == GateComplete /\ LookupExact
=============================================================================
