----------------------------- MODULE CowCommit -----------------------------
(***************************************************************************)
(* The Copy-on-Write commit protocol (src/rust/bloomfs-cow): two           *)
(* uberblock slots (blocks 0 and 1) and two metadata slots.  A commit      *)
(* writes the whole [bitmap | dedup table | inode table] snapshot to the   *)
(* metadata slot the current uberblock does not use, syncs, writes the     *)
(* next uberblock to the uberblock slot of its parity, and syncs again.    *)
(* Mount takes the valid uberblock with the highest sequence number.       *)
(*                                                                         *)
(* A snapshot is an opaque value here; BlockStore looks inside it.  Only   *)
(* the uberblock carries a checksum: a metadata slot that mixes blocks of  *)
(* two snapshots is loaded as it is (Garbled).                             *)
(***************************************************************************)
EXTENDS Naturals, BlockDevice

CONSTANTS
    Snapshots,    \* the metadata states a filesystem can be in
    Fresh,        \* the one format writes
    Oversized,    \* those that do not fit a metadata slot (MetaTooBig)
    Garbled,      \* what mount loads from a slot that is not one whole snapshot
    MetaBlocks,   \* blocks per metadata slot
    MaxSeq,       \* bound on the commit sequence number
    FlipFaults,   \* what besides a power loss may happen between the write of
                  \* an uberblock and its sync: "error" (an error is returned
                  \* although the block reached the cache), "kill" (the process
                  \* dies, the kernel's cache survives)
    Reformats     \* TRUE: format may run on a raw device that holds a filesystem

Uberblock == [seq : Nat, active_meta : {0, 1}]

\* One block of a snapshot (Garbled: of a state mounted from a damaged slot).
MetaBlock == [snap : Snapshots \cup {Garbled}]

ASSUME CowAssumption ==
    /\ MetaBlocks \in Nat \ {0}
    /\ MaxSeq \in Nat
    /\ Fresh \in Snapshots
    /\ Oversized \subseteq Snapshots \ {Fresh}
    /\ FlipFaults \subseteq {"error", "kill"}
    /\ Reformats \in BOOLEAN
    /\ Garbled \notin Snapshots \cup {None}
    /\ None \notin Snapshots \cup Uberblock \cup MetaBlock \cup {Junk}
    /\ Junk \notin Uberblock \cup MetaBlock

VARIABLES
    ub,      \* FS.ub: the uberblock of the running filesystem; None: not mounted
    mem,     \* the bitmap, dedup table and inode table in RAM; None: none
    pc,      \* where the commit (or format) in progress stands
    next,    \* the uberblock it is writing
    result,  \* what the last commit or format returned
    acked,   \* history: the snapshot the last mount loaded or commit confirmed
    tried,   \* history: the other snapshots a power loss may legitimately
             \* bring back (those of the commits attempted since)
    hasty    \* history: a metadata slot was written while the outcome of an
             \* earlier flip was still open

histVars == <<acked, tried, hasty>>
vars == <<disk, cache, ub, mem, pc, next, result, acked, tried, hasty>>

----------------------------------------------------------------------------
(* Layout. *)

meta_a == 2
meta_b == meta_a + MetaBlocks
Addr == 0 .. meta_b + MetaBlocks - 1

MetaStart(u) == IF u.active_meta = 1 THEN meta_b ELSE meta_a

MetaSlot(u) == MetaStart(u) .. MetaStart(u) + MetaBlocks - 1

\* Slip: one uberblock slot only.
UberSlotFixed(u) == 0

UberSlot(u) == u.seq % 2

----------------------------------------------------------------------------
(* What mount finds in an image of the device. *)

\* parse_uber: magic and checksum accept a completely written uberblock only.
Valid(b) == b \in Uberblock

\* Slip: the comparison of the sequence numbers is reversed.
BestOldest(img) ==
    IF Valid(img[0]) /\ ~(Valid(img[1]) /\ img[1].seq < img[0].seq)
    THEN img[0]
    ELSE IF Valid(img[1]) THEN img[1] ELSE None

Best(img) ==
    IF Valid(img[0]) /\ ~(Valid(img[1]) /\ img[1].seq > img[0].seq)
    THEN img[0]
    ELSE IF Valid(img[1]) THEN img[1] ELSE None

Holds(img, u, s) == \A a \in MetaSlot(u) : img[a] = [snap |-> s]

Load(img, u) ==
    IF \E s \in Snapshots : Holds(img, u, s)
    THEN CHOOSE s \in Snapshots : Holds(img, u, s)
    ELSE Garbled

Recovered(img) == IF Best(img) = None THEN None ELSE Load(img, Best(img))

----------------------------------------------------------------------------
Init ==
    /\ disk = [a \in Addr |-> Junk]
    /\ cache = [a \in Addr |-> None]
    /\ ub = None /\ mem = None
    /\ pc = "idle" /\ next = None /\ result = "none"
    /\ acked = None /\ tried = {} /\ hasty = FALSE

\* Everything the filesystem does between two commits.
Mutate ==
    /\ ub # None /\ pc = "idle"
    /\ mem' \in Snapshots
    /\ UNCHANGED <<disk, cache, ub, pc, next, result, acked, tried, hasty>>

\* An error return: a format leaves no filesystem, a failed commit leaves ub.
ReturnErr ==
    /\ pc' = "idle" /\ next' = None /\ result' = "err"
    /\ mem' = IF ub = None THEN None ELSE mem
    /\ UNCHANGED <<ub, acked>>

\* write_snapshot(nx, s) up to its sync: every block of nx's slot is written ...
WriteSnapshot(nx, s) ==
    /\ s \notin Oversized
    /\ WriteBlocks([a \in MetaSlot(nx) |-> [snap |-> s]])
    /\ pc' = "metasync" /\ next' = nx /\ mem' = s
    /\ tried' = tried \cup {s}
    /\ UNCHANGED <<ub, result, acked>>

\* ... or the n-th write fails, its block untouched or torn.
WriteSnapshotErr(nx, s) ==
    /\ s \notin Oversized
    /\ \E n \in 0 .. MetaBlocks - 1, torn \in {0, 1} :
         WriteBlocks([a \in MetaStart(nx) .. MetaStart(nx) + n + torn - 1 |->
                        IF a = MetaStart(nx) + n THEN Junk ELSE [snap |-> s]])
    /\ ReturnErr
    /\ UNCHANGED tried

\* Slip: the metadata slot is not switched.
NextUberSameSlot == [seq |-> ub.seq + 1, active_meta |-> ub.active_meta]

NextUber == [seq |-> ub.seq + 1, active_meta |-> 1 - ub.active_meta]

CanCommit == ub # None /\ pc = "idle" /\ ub.seq < MaxSeq

\* The uberblock in RAM is the one a power loss now would bring back.
FlipSettled == Best(disk) = ub /\ ~Valid(cache[0]) /\ ~Valid(cache[1])

Commit ==
    /\ CanCommit
    /\ WriteSnapshot(NextUber, mem)
    /\ hasty' = (hasty \/ ~FlipSettled)

CommitWriteErr ==
    /\ CanCommit
    /\ WriteSnapshotErr(NextUber, mem)
    /\ hasty' = (hasty \/ ~FlipSettled)

CommitMetaTooBig ==
    /\ CanCommit /\ mem \in Oversized
    /\ ReturnErr
    /\ UNCHANGED <<disk, cache, tried, hasty>>

\* A file image is truncated first, a raw device is formatted in place.
CanFormat ==
    /\ ub = None /\ pc = "idle"
    /\ Reformats \/ Best(Image) = None

FirstUber == [seq |-> 1, active_meta |-> 0]

Format ==
    /\ CanFormat
    /\ WriteSnapshot(FirstUber, Fresh)
    /\ hasty' = (hasty \/ ~FlipSettled)

FormatWriteErr ==
    /\ CanFormat
    /\ WriteSnapshotErr(FirstUber, Fresh)
    /\ hasty' = (hasty \/ ~FlipSettled)

\* Slip: no barrier between the snapshot and the uberblock that names it.
SyncSnapshotSkipped ==
    /\ pc = "metasync"
    /\ pc' = "uber"
    /\ UNCHANGED <<disk, cache, ub, mem, next, result, acked, tried, hasty>>

SyncSnapshot ==
    /\ pc = "metasync"
    /\ Sync
    /\ pc' = "uber"
    /\ UNCHANGED <<ub, mem, next, result, acked, tried, hasty>>

SyncSnapshotErr ==
    /\ pc = "metasync"
    /\ ReturnErr
    /\ UNCHANGED <<disk, cache, tried, hasty>>

WriteUber ==
    /\ pc = "uber"
    /\ WriteBlocks([a \in {UberSlot(next)} |-> next])
    /\ pc' = "ubersync"
    /\ UNCHANGED <<ub, mem, next, result, acked, tried, hasty>>

WriteUberErr ==
    /\ pc = "uber"
    /\ \/ UNCHANGED <<disk, cache>>
       \/ WriteBlocks([a \in {UberSlot(next)} |-> Junk])
    /\ ReturnErr
    /\ UNCHANGED <<tried, hasty>>

\* Slip: Ok is returned before the flip is synced.
SyncUberSkipped ==
    /\ pc = "ubersync"
    /\ pc' = "idle" /\ next' = None /\ result' = "ok"
    /\ \/ ub = None /\ ub' = None /\ mem' = None
       \/ ub # None /\ ub' = next /\ mem' \in Snapshots
    /\ acked' = mem /\ tried' = {}
    /\ UNCHANGED <<disk, cache, hasty>>

\* The flip is durable: commit applies the deferred frees (mem changes; see
\* BlockStore) and the filesystem adopts the new uberblock; a format returns
\* unmounted.
SyncUber ==
    /\ pc = "ubersync"
    /\ Sync
    /\ pc' = "idle" /\ next' = None /\ result' = "ok"
    /\ \/ ub = None /\ ub' = None /\ mem' = None
       \/ ub # None /\ ub' = next /\ mem' \in Snapshots
    /\ acked' = mem /\ tried' = {}
    /\ UNCHANGED hasty

SyncUberErr ==
    /\ pc = "ubersync" /\ "error" \in FlipFaults
    /\ ReturnErr
    /\ UNCHANGED <<disk, cache, tried, hasty>>

Mount ==
    /\ ub = None /\ pc = "idle" /\ Best(Image) # None
    /\ ub' = Best(Image)
    /\ mem' = Load(Image, Best(Image))
    /\ acked' = mem' /\ tried' = {Recovered(disk)} \ {mem'}
    /\ UNCHANGED <<disk, cache, pc, next, result, hasty>>

----------------------------------------------------------------------------
(* The environment. *)

Writeback ==
    /\ \E a \in Addr : WritebackBlock(a)
    /\ UNCHANGED <<ub, mem, pc, next, result, acked, tried, hasty>>

LoseRAM ==
    /\ ub' = None /\ mem' = None /\ pc' = "idle" /\ next' = None
    /\ result' = "none"
    /\ UNCHANGED histVars

PowerLoss ==
    /\ \E torn \in SUBSET Dirty : LosePower(torn)
    /\ LoseRAM

Kill ==
    /\ pc = "ubersync" => "kill" \in FlipFaults
    /\ UNCHANGED <<disk, cache>>
    /\ LoseRAM

Next ==
    \/ Mutate
    \/ Commit \/ CommitWriteErr \/ CommitMetaTooBig
    \/ Format \/ FormatWriteErr
    \/ SyncSnapshot \/ SyncSnapshotErr
    \/ WriteUber \/ WriteUberErr
    \/ SyncUber \/ SyncUberErr
    \/ Mount
    \/ Writeback \/ PowerLoss \/ Kill

Spec == Init /\ [][Next]_vars

----------------------------------------------------------------------------
(* Properties. *)

\* Every variable holds a value of its type.
TypeOK ==
    /\ disk \in [Addr -> Uberblock \cup MetaBlock \cup {Junk}]
    /\ cache \in [Addr -> Uberblock \cup MetaBlock \cup {Junk, None}]
    /\ ub \in Uberblock \cup {None}
    /\ mem \in Snapshots \cup {Garbled, None}
    /\ pc \in {"idle", "metasync", "uber", "ubersync"}
    /\ next \in Uberblock \cup {None}
    /\ result \in {"none", "ok", "err"}
    /\ acked \in Snapshots \cup {Garbled, None}
    /\ tried \subseteq Snapshots \cup {Garbled, None}
    /\ hasty \in BOOLEAN

\* Whatever power loss, error or kill hits whatever step, mount finds one whole
\* snapshot: the one last confirmed, or one whose commit was under way
\* ("mount rolls back to the last consistent commit", the header of cow).
Recoverable ==
    acked # None => Recovered(disk) \in ({acked} \cup tried) \ {Garbled}

\* The same with nothing excluded from the environment, as long as no metadata
\* slot was written while the outcome of an earlier flip was open.
SettledRecoverable == ~hasty => Recoverable

\* "Live metadata is never overwritten in place": no unsynced write targets the
\* uberblock a power loss would bring back, nor the metadata slot it names.
LiveMetadataUntouched ==
    LET u == Best(disk)
    IN  u # None => Dirty \cap ({UberSlot(u)} \cup MetaSlot(u)) = {}

\* fsync's guarantee: once commit returned Ok and until the next commit starts,
\* a power loss brings back exactly what was committed.
AckIsDurable == (result = "ok" /\ pc = "idle") => Recovered(disk) = acked

BestSeq(img) == IF Best(img) = None THEN 0 ELSE Best(img).seq

\* The durable history never goes back: no step, a torn flip included, makes
\* mount choose an older commit than it would have chosen before the step.
NeverRollsBack == [][BestSeq(disk') >= BestSeq(disk)]_vars

\* The protocol implements the atomic commit the filesystem relies on: the
\* snapshot mount would load is replaced as a whole, by a commit's flip only.
phase ==
    IF pc = "idle" THEN "idle"
    ELSE IF disk[UberSlot(next)] = next THEN "flipped" ELSE "committing"

Abstract == INSTANCE AtomicCommit WITH stable <- Recovered(disk)

ImplementsAtomicCommit == Abstract!Spec
=============================================================================
