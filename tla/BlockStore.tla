----------------------------- MODULE BlockStore -----------------------------
(***************************************************************************)
(* The data path below the inodes: the cluster bitmap with its deferred    *)
(* frees (bloomfs-alloc), the dedup table (bloomfs-dedup), the pipeline    *)
(* that stores content by hash (bloomfs-store), and the way the filesystem *)
(* drives them and commits them (bloomfs-fs: bs_write, set_data,           *)
(* release_data, commit, mount).                                           *)
(*                                                                         *)
(* The commit itself is what CowCommit implements, seen through its        *)
(* contract AtomicCommit: data and snapshot are synced, then the stable    *)
(* snapshot is replaced in one flip.  Data clusters go through the cache   *)
(* of BlockDevice and are hit by power losses like every other block.      *)
(*                                                                         *)
(* A content is named by its hash (equal hash, equal content); its         *)
(* compressed size in clusters is a function of it.  A holder is a place   *)
(* in the inode table that holds the Ref of one record.                    *)
(***************************************************************************)
EXTENDS Naturals, FiniteSets, BlockDevice

CONSTANTS
    Keys,          \* contents, by hash
    Holders,       \* inode slots that can hold one Ref each
    Size,          \* Size[k]: clusters content k occupies
    Total,         \* clusters of the device
    DataStart,     \* clusters [0, DataStart) are uberblocks and metadata slots
    DropsOnError   \* TRUE: a failed sync may drop cached writes (Linux marks
                   \* the pages clean); FALSE: it keeps them

ASSUME StoreAssumption ==
    /\ IsFiniteSet(Holders)
    /\ Size \in [Keys -> Nat \ {0}]
    /\ Total \in Nat
    /\ DataStart \in Nat
    /\ DropsOnError \in BOOLEAN

Addr == 0 .. Total - 1
Reserved == {a \in Addr : a < DataStart}

Ref == [hash : Keys, start : Addr]
Entry == [start : Addr, refs : Nat \ {0}]
Cluster == [hash : Keys, part : Nat]

ASSUME StoreSentinels ==
    /\ None \notin Ref \cup Entry \cup Cluster \cup {Junk}
    /\ Junk \notin Cluster

VARIABLES
    up,         \* the filesystem is mounted
    used,       \* Bitmap.bits
    deferred,   \* the clusters of Bitmap.deferred
    ddt,        \* the dedup table
    inodes,     \* the Ref each holder holds, or None
    stable,     \* the snapshot the durable uberblock names
    phase,      \* the commit in progress: "idle", "synced", "flipped", and
                \* "retry" between the commit bs_write asked for and its retry
    want,       \* the bs_write that waits for that commit: <<holder, key>>
    outcome     \* what the last operation returned

ramVars == <<used, deferred, ddt, inodes>>
vars == <<disk, cache, up, used, deferred, ddt, inodes, stable, phase, want, outcome>>

----------------------------------------------------------------------------
(* The bitmap. *)

Run(s, n) == s .. s + n - 1

RunFree(s, n) == s + n <= Total /\ Run(s, n) \cap used = {}

\* alloc(n): the first contiguous free run of n clusters.  Bitmap shows that
\* the scanning loop computes it.
FirstFit(s, n) == RunFree(s, n) /\ \A t \in 0 .. s - 1 : ~RunFree(t, n)

NoSpace(n) == \A s \in Addr : ~RunFree(s, n)

----------------------------------------------------------------------------
(* The dedup table. *)

Extent(k, e) == Run(e.start, Size[k])

\* Slip: a dedup hit is not counted.
IncrMissing(t, k) == t

Incr(t, k) == [t EXCEPT ![k] = [start |-> @.start, refs |-> @.refs + 1]]

Add(t, k, s) == [t EXCEPT ![k] = [start |-> s, refs |-> 1]]

\* decr removes the entry with its last reference.
LastRef(t, k) == t[k] # None /\ t[k].refs = 1

Decr(t, k) ==
    IF t[k] = None THEN t
    ELSE [t EXCEPT ![k] = IF @.refs = 1 THEN None
                          ELSE [start |-> @.start, refs |-> @.refs - 1]]

\* release: the table after dropping Ref r (None: there was none) from t, and
\* the clusters that are deferred.
Released(t, r) == IF r = None THEN t ELSE Decr(t, r.hash)

Freed(t, r) ==
    IF r # None /\ LastRef(t, r.hash) THEN Extent(r.hash, t[r.hash]) ELSE {}

----------------------------------------------------------------------------
Snapshot == [used |-> used, ddt |-> ddt, inodes |-> inodes]

EmptyTable == [k \in Keys |-> None]
EmptyInodes == [h \in Holders |-> None]

\* A freshly formatted, mounted filesystem.
Init ==
    /\ disk = [a \in Addr |-> Junk]
    /\ cache = [a \in Addr |-> None]
    /\ up = TRUE
    /\ used = Reserved /\ deferred = {}
    /\ ddt = EmptyTable /\ inodes = EmptyInodes
    /\ stable = Snapshot
    /\ phase = "idle" /\ want = None /\ outcome = "ok"

Ready == up /\ phase = "idle" /\ want = None

\* The holder gets Ref r, entered in table t, and its old content is released:
\* set_data writes the new records before it releases the old ones.
Replace(h, r, t) ==
    /\ inodes' = [inodes EXCEPT ![h] = r]
    /\ ddt' = Released(t, inodes[h])
    /\ deferred' = deferred \cup Freed(t, inodes[h])

\* BlockStore::write, dedup hit: a reference more, nothing is written.
WriteHit(h, k) ==
    /\ ddt[k] # None
    /\ Replace(h, [hash |-> k, start |-> ddt[k].start], Incr(ddt, k))
    /\ UNCHANGED <<disk, cache, used>>

\* Slip: the content is written over the run an overwritten one is leaving.
WriteMissInPlace(h, k) ==
    /\ ddt[k] = None
    /\ \E s \in Addr :
         /\ IF inodes[h] # None THEN s = inodes[h].start ELSE FirstFit(s, Size[k])
         /\ s + Size[k] <= Total
         /\ used' = used \cup Run(s, Size[k])
         /\ WriteBlocks([a \in Run(s, Size[k]) |-> [hash |-> k, part |-> a - s]])
         /\ Replace(h, [hash |-> k, start |-> s], Add(ddt, k, s))

\* BlockStore::write, miss: clusters are allocated and written, then entered.
WriteMiss(h, k) ==
    /\ ddt[k] = None
    /\ \E s \in Addr :
         /\ FirstFit(s, Size[k])
         /\ used' = used \cup Run(s, Size[k])
         /\ WriteBlocks([a \in Run(s, Size[k]) |-> [hash |-> k, part |-> a - s]])
         /\ Replace(h, [hash |-> k, start |-> s], Add(ddt, k, s))

\* The n-th cluster's write fails, leaving its block untouched or torn; the run
\* is freed again and the operation returns an error.
WriteFails(k) ==
    /\ ddt[k] = None
    /\ \E s \in Addr, n \in 0 .. Size[k] - 1, torn \in {0, 1} :
         /\ FirstFit(s, Size[k])
         /\ WriteBlocks([a \in Run(s, n + torn) |->
                IF a = s + n THEN Junk ELSE [hash |-> k, part |-> a - s]])

Put(h, k) ==
    /\ Ready
    /\ WriteHit(h, k) \/ WriteMiss(h, k)
    /\ outcome' = "ok"
    /\ UNCHANGED <<up, stable, phase, want>>

\* Slip: the run of a failed write is not freed again.
PutFailsLeaks(k) ==
    /\ Ready
    /\ WriteFails(k)
    /\ \E s \in Addr : FirstFit(s, Size[k]) /\ used' = used \cup Run(s, Size[k])
    /\ outcome' = "err"
    /\ UNCHANGED <<up, deferred, ddt, inodes, stable, phase, want>>

PutFails(k) ==
    /\ Ready
    /\ WriteFails(k)
    /\ outcome' = "err"
    /\ UNCHANGED <<up, used, deferred, ddt, inodes, stable, phase, want>>

\* Slip: a full bitmap fails the write at once.
PutNoSpaceAtOnce(h, k) ==
    /\ Ready
    /\ ddt[k] = None /\ NoSpace(Size[k])
    /\ outcome' = "nospace"
    /\ UNCHANGED <<disk, cache, up, used, deferred, ddt, inodes, stable, phase, want>>

\* bs_write on a full bitmap: with deferred frees pending the operation commits
\* and tries again, without any it fails.
PutNoSpace(h, k) ==
    /\ Ready
    /\ ddt[k] = None /\ NoSpace(Size[k])
    /\ \/ deferred = {} /\ outcome' = "nospace" /\ UNCHANGED want
       \/ deferred # {} /\ want' = <<h, k>> /\ UNCHANGED outcome
    /\ UNCHANGED <<disk, cache, up, used, deferred, ddt, inodes, stable, phase>>

\* The content of a holder is dropped (unlink of the last name, truncate to 0).
Drop(h) ==
    /\ Ready
    /\ inodes[h] # None
    /\ Replace(h, None, ddt)
    /\ outcome' = "ok"
    /\ UNCHANGED <<disk, cache, up, used, stable, phase, want>>

----------------------------------------------------------------------------
(* commit: fsync, unmount, or the one bs_write asked for. *)

CommitErr ==
    /\ phase' = "idle" /\ want' = None /\ outcome' = "err"
    /\ UNCHANGED <<up, used, deferred, ddt, inodes, stable>>

\* Slip: the flip is not preceded by a sync.
CommitSyncSkipped ==
    /\ up /\ phase = "idle"
    /\ phase' = "synced"
    /\ UNCHANGED <<disk, cache, up, used, deferred, ddt, inodes, stable, want, outcome>>

\* write_snapshot: data and snapshot become durable together.
CommitSync ==
    /\ up /\ phase = "idle"
    /\ Sync
    /\ phase' = "synced"
    /\ UNCHANGED <<up, used, deferred, ddt, inodes, stable, want, outcome>>

CommitSyncErr ==
    /\ up /\ phase = "idle"
    /\ \E lost \in SUBSET Dirty :
         /\ ~DropsOnError => lost = {}
         /\ cache' = [a \in Addr |-> IF a \in lost THEN None ELSE cache[a]]
    /\ UNCHANGED disk
    /\ CommitErr

\* The uberblock becomes durable.
CommitFlip ==
    /\ phase = "synced"
    /\ stable' = Snapshot
    /\ phase' = "flipped"
    /\ UNCHANGED <<disk, cache, up, used, deferred, ddt, inodes, want, outcome>>

CommitFlipErr ==
    /\ phase = "synced"
    /\ CommitErr
    /\ UNCHANGED <<disk, cache>>

\* Only now are the deferred frees applied.
ApplyDeferred ==
    /\ used' = used \ deferred
    /\ deferred' = {}

CommitReturns ==
    /\ phase = "flipped" /\ want = None
    /\ ApplyDeferred
    /\ phase' = "idle" /\ outcome' = "ok"
    /\ UNCHANGED <<disk, cache, up, ddt, inodes, stable, want>>

\* The commit bs_write asked for is done: its write is tried once more, with
\* the freed clusters available.
RetryStarts ==
    /\ phase = "flipped" /\ want # None
    /\ ApplyDeferred
    /\ phase' = "retry"
    /\ UNCHANGED <<disk, cache, up, ddt, inodes, stable, want, outcome>>

Retry ==
    /\ phase = "retry"
    /\ \/ WriteMiss(want[1], want[2]) /\ outcome' = "ok"
       \/ WriteFails(want[2]) /\ outcome' = "err" /\ UNCHANGED ramVars
       \/ /\ NoSpace(Size[want[2]]) /\ outcome' = "nospace"
          /\ UNCHANGED <<disk, cache, used, deferred, ddt, inodes>>
    /\ phase' = "idle" /\ want' = None
    /\ UNCHANGED <<up, stable>>

----------------------------------------------------------------------------
(* The environment, and the mount that follows. *)

LoseRAM ==
    /\ up' = FALSE
    /\ used' = {} /\ deferred' = {} /\ ddt' = EmptyTable /\ inodes' = EmptyInodes
    /\ phase' = "idle" /\ want' = None /\ outcome' = "ok"
    /\ UNCHANGED stable

PowerLoss ==
    /\ \E torn \in SUBSET Dirty : LosePower(torn)
    /\ LoseRAM

Kill ==
    /\ up
    /\ LoseRAM
    /\ UNCHANGED <<disk, cache>>

Writeback ==
    /\ \E a \in Addr : WritebackBlock(a)
    /\ UNCHANGED <<up, used, deferred, ddt, inodes, stable, phase, want, outcome>>

\* Slip: the dedup table is not read back.
MountNoTable ==
    /\ ~up
    /\ up' = TRUE
    /\ used' = stable.used /\ deferred' = {}
    /\ ddt' = EmptyTable /\ inodes' = stable.inodes
    /\ UNCHANGED <<disk, cache, stable, phase, want, outcome>>

\* The bitmap, the dedup table and the inode table are read back; the deferred
\* list was never on disk.
Mount ==
    /\ ~up
    /\ up' = TRUE
    /\ used' = stable.used /\ deferred' = {}
    /\ ddt' = stable.ddt /\ inodes' = stable.inodes
    /\ UNCHANGED <<disk, cache, stable, phase, want, outcome>>

Next ==
    \/ \E h \in Holders, k \in Keys : Put(h, k) \/ PutNoSpace(h, k)
    \/ \E k \in Keys : PutFails(k)
    \/ \E h \in Holders : Drop(h)
    \/ CommitSync \/ CommitSyncErr \/ CommitFlip \/ CommitFlipErr
    \/ CommitReturns \/ RetryStarts \/ Retry
    \/ PowerLoss \/ Kill \/ Writeback \/ Mount

Spec == Init /\ [][Next]_vars

----------------------------------------------------------------------------
(* Properties. *)

Snapshots ==
    [used : SUBSET Addr, ddt : [Keys -> Entry \cup {None}],
     inodes : [Holders -> Ref \cup {None}]]

ASSUME SnapshotSentinel == None \notin Snapshots

\* Every variable holds a value of its type.
TypeOK ==
    /\ disk \in [Addr -> Cluster \cup {Junk}]
    /\ cache \in [Addr -> Cluster \cup {Junk, None}]
    /\ up \in BOOLEAN
    /\ used \subseteq Addr /\ deferred \subseteq Addr
    /\ ddt \in [Keys -> Entry \cup {None}]
    /\ inodes \in [Holders -> Ref \cup {None}]
    /\ stable \in Snapshots
    /\ phase \in {"idle", "synced", "flipped", "retry"}
    /\ want \in (Holders \X Keys) \cup {None}
    /\ outcome \in {"ok", "err", "nospace"}

Live == {k \in Keys : ddt[k] # None}
LiveClusters == UNION {Extent(k, ddt[k]) : k \in Live}

\* No cluster belongs to two contents, to a content and to the metadata area, or
\* to a content and to the list of clusters about to be freed.
ClustersDisjoint ==
    /\ \A k, l \in Live : k # l => Extent(k, ddt[k]) \cap Extent(l, ddt[l]) = {}
    /\ LiveClusters \cap (Reserved \cup deferred) = {}
    /\ up => (LiveClusters \cup Reserved \cup deferred) \subseteq used

HoldersOf(k) == {h \in Holders : inodes[h] # None /\ inodes[h].hash = k}

\* The dedup table counts exactly the Refs in the inodes, and every Ref in an
\* inode names the place the table names: an entry can be neither removed under
\* a holder (its clusters reused) nor kept without one (leaked).
RefsExact ==
    /\ \A k \in Live : ddt[k].refs = Cardinality(HoldersOf(k))
    /\ \A h \in Holders : inodes[h] # None =>
          /\ ddt[inodes[h].hash] # None
          /\ ddt[inodes[h].hash].start = inodes[h].start

\* Bitmap, dedup table and inodes agree: no cluster has two owners and no count
\* is off, after any sequence of hits, misses, overwrites, drops, failed writes,
\* commits and mounts.
TablesAgree == TypeOK /\ ClustersDisjoint /\ RefsExact

\* Cluster i of Ref r reads back as part i of r's content in an image.
Reads(r, img) == \A a \in Run(r.start, Size[r.hash]) :
                    img[a] = [hash |-> r.hash, part |-> a - r.start]

\* What a running filesystem stored it can read: BlockStore::read never meets
\* ContentHashMismatch.
LiveReadable ==
    \A h \in Holders : inodes[h] # None => Reads(inodes[h], Image)

\* Every record of the last commit is durable and unharmed, whatever was
\* overwritten, dropped or reallocated since ("no grey zone" for
\* overwrite-then-crash): a power loss at any step rolls back to readable data.
StableIntact ==
    \A h \in Holders : stable.inodes[h] # None =>
        /\ Reads(stable.inodes[h], disk)
        /\ Run(stable.inodes[h].start, Size[stable.inodes[h].hash]) \cap Dirty = {}

\* A write fails for lack of space only when no freed cluster is waiting for a
\* commit any more.
NoSpaceIsReal == outcome = "nospace" => deferred = {}

\* The clusters the bitmap counts as used and nothing accounts for.
Leaked == IF up THEN used \ (Reserved \cup LiveClusters \cup deferred) ELSE {}

\* Deferred frees are never lost ("never reused, never lost").
NothingLeaked == Leaked = {}

\* No step of a running filesystem, a failed write or commit included, leaks a
\* cluster.
NoLeakWhileRunning == [][(up /\ up') => Leaked' \subseteq Leaked]_vars

\* The state AtomicCommit speaks of.
absMem == IF up THEN Snapshot ELSE None

absPhase ==
    CASE phase = "synced" -> "committing"
      [] phase = "flipped" -> "flipped"
      [] OTHER -> "idle"

\* The stable snapshot changes only as AtomicCommit allows: replaced as a whole
\* by a commit's flip, loaded as a whole by a mount.
Abstract == INSTANCE AtomicCommit WITH mem <- absMem, phase <- absPhase

CommitsAtomically == [][Abstract!Next]_(Abstract!vars)
=============================================================================
