# BloomFS: a TLA+ model, its checks and its proofs

BloomFS is a user-space filesystem: Copy-on-Write metadata, content-addressed
and deduplicated data, directories with bloom filters, a FUSE front end. The
Rust workspace (`src/rust`) is the reference implementation; the Go tree is the
prototype it was ported from, with the same structure and one extra part (the
global name filter). The modules here are translated from the Rust source
unless they say otherwise.

## 1. The system

| Part | State | Operations | Hard behaviour | Correct when |
|---|---|---|---|---|
| Block device (`bloomfs-block`) | blocks behind a write-back cache | `read_block`, `write_block`, `sync` | unsynced writes persist in any order, or are torn, or are lost; a failed sync | (environment of the others) |
| CoW commit (`bloomfs-cow`) | two uberblock slots, two metadata slots, `FS.ub` | `format`, `mount`, `commit` (`write_snapshot`, `write_uber`) | crash at every write, failed syncs, process killed with the page cache alive, stale uberblocks | mount always finds the last confirmed snapshot, or a later one that was being committed, whole |
| Allocator (`bloomfs-alloc`) | bitmap, used counter, deferred runs | `alloc`, `free`, `defer`, `apply_deferred`, `reserve`, marshal | run boundaries, double frees, frees that must wait for a commit | first fit found exactly; counter exact; runs disjoint |
| Dedup table (`bloomfs-dedup`) | hash -> (extent, refs) | `lookup`, `add`, `incr`, `decr` | long sequences of hits and releases | refs = number of holders |
| Block store (`bloomfs-store`) | (none of its own) | `write`, `read`, `release` | failure in the middle of a record | what was stored reads back; clusters of the last commit are never overwritten |
| Filesystem, data (`bloomfs-fs`) | inode block maps | `bs_write`, `set_data`, `release_data`, `write_at`, `append`, `truncate`, `commit` | full bitmap with frees pending, records stored before a failure, a commit between two records, partial last records | space is found after a commit; a file's references are always counted; files read as bytes |
| Filesystem, namespace (`bloomfs-fs`) | inodes, directories, free inode ids, open counts | `create_node`, `link`, `unlink`, `rmdir`, `rename`, `symlink`, `open`, `close`, `reclaim` | a commit in the middle of an operation, errors half-way, unlinked-but-open files | tree shape, link counts, no dangling name, no leaked inode |
| Directory cache (`bloomfs-fs`) | LRU of loaded directories, dirty pages | `checkout_dir`, `commit_dir`, `evict_dir`, `flush_dir` | divergence of cache and stored form | cached = stored + dirty |
| Directory index (`bloomfs-dir`, `bloomfs-bloom`) | segments, hash chains, filters, removal counters | add, delete, find, rebuild | hash collisions, filter rebuilt under live names | every name once, found exactly when present |
| Inode table (`bloomfs-inode`) | array of records | get, put, marshal | bounds | (used by namespace) |
| Gate (`src/globalfilter`, Go only) | blocked bloom filter, tombstones, snapshot | Add, Remove, Test, rebuild, save, restore | tombstones, stale snapshots, failed flushes, a rebuild in the middle of a flush, a walk that cannot read | no false "absent" |
| FUSE binding (`bloomfs-fuse`) | handles, readdir snapshots | kernel requests, one at a time | requests of several processes interleave: listings in several calls, files unlinked while open; handlers that fail half way | listings exact, handles keep their inode, no pin left over |
| CLI (`bloomfs-cli`) | none | format, mount | none | (not modelled) |

How they interact: the FUSE session handles one request at a time and calls the filesystem; the filesystem
changes inode table, bitmap and dedup table in RAM and writes data clusters
through the store to the device; `fsync`, unmount, or a full bitmap makes it
call `cow::commit`, which writes the three tables as one snapshot and flips the
uberblock, after which the deferred frees are applied. Mutations are
single-threaded (`&mut self`); the concurrency that matters is between the
program, the operating system's cache, failures, and callers whose requests
interleave.

`PROJECT.json` lists the hazards found in the code, each at its line, with the
properties that cover it.

## 2. The modules

**BlockDevice** - `disk` (durable content) and `cache` (unsynced writes).
`WriteBlocks` only reaches the cache; `Sync` makes all of it durable;
`WritebackBlock` persists one cached block at any time; `LosePower` drops the
cache and may tear any set of dirty blocks (`Junk`). A read sees the cache. The
last two belong to the operating system and the drive.

**AtomicCommit** - the promise of the commit layer: one `stable` snapshot,
replaced as a whole by a flip, not at all by a failed commit, and loaded as a
whole by mount.

**CowCommit** (on BlockDevice) - `bloomfs-cow` at the grain of device
operations. `ub` is `FS.ub`, `mem` the tables in RAM, `pc`/`next` the commit in
progress. One action per device call of `write_snapshot` and `write_uber`, and
one for each way it can fail: `Commit`/`Format` (all metadata blocks written),
`CommitWriteErr` (the n-th write fails, untouched or torn), `CommitMetaTooBig`,
`SyncSnapshot`, `WriteUber`, `SyncUber` and their `...Err` forms, `Mount`.
`Writeback`, `PowerLoss` and `Kill` are the environment. A snapshot is opaque;
the uberblock's checksum becomes `Valid`. Metadata carries no checksum, so a
slot mixing two snapshots is loaded as `Garbled`. History variables: `acked`
(what was last confirmed), `tried` (what a power loss may also bring back),
`hasty` (a metadata slot was written while an earlier flip was still open).

**Bitmap** - `bloomfs-alloc` with `alloc`'s loop at one step per cluster and
its locals (`i`, `run`, `start`) as variables.

**BlockStore** (on BlockDevice) - the data path: the bitmap and deferred
frees, the dedup table, the store's `write`/`release`, `bs_write` with its
commit-and-retry on a full bitmap, `set_data`'s order (new content stored, then
old released), commit and mount through the contract of AtomicCommit. Contents
are named by hash and have a size in clusters; a holder is one inode slot with
one `Ref`. The allocator appears as `FirstFit`, which Bitmap shows the scan to
compute.

**NameTree** - the promise of the namespace: a set of bindings <<directory,
name, inode>> that an operation changes as a whole or not at all (bind, unbind,
move with replacement), and a durable copy, to which a crash returns, that is
always a tree the filesystem had.

**Namespace** - the namespace operations of `bloomfs-fs`. `ino` is the inode
table (kind, link count, generation, whether it holds data, directory pages),
`next` is `next_inode` (equal to the table's high-water mark, because every
allocation is followed by a put), `free` the reuse stack, `opens` and `handles`
the open files, `cache` the resident directories in LRU order, `image` the
snapshot a mount would load. Each FS method is one action. Inside it,
`Checkout` takes a directory out of the cache, `Add`/`Del` edit the working copy
and mark pages dirty, and `Flushes` gives every outcome of storing it: with
`NoSpace`, any subset of the dirty pages may have been written when it fails
(they are flushed in hash-set order), and `bs_write` may have committed the
metadata before the last of them. The changes a method makes before its flush
(the new inode of `create_node`, the raised count of `link`, the reclaimed
target of `rename`) are therefore in that snapshot, and stay when it fails.
`Reclaimed`, `DropLink` and `Subtree` are `reclaim`, the tail of `unlink` and
`dir_subtree_contains`. `Remount` is a crash or an unmount without a commit,
followed by `mount`. The constants `Ops`, `NoSpace` and `Races` say what callers
and environment do: `Ops` names the operations issued, with renames of a
directory to another parent ("move_dir") and onto a directory ("replace_dir")
separately; `Races` lets other requests come between a lookup and the open that
uses its id.

**ByteFiles** - the promise of the data path: each file is a sequence of bytes
that an operation changes as a whole or not at all, and a crash returns to bytes
that all files had at one moment.

**FileData** - files of several records. `files` are the data fields of the
inodes (size, record size, inline flag, the one `Ref` in the block map), `refs`
the reference counts of the dedup table as a bag of contents, `image` the last
commit. A `Ref` is the content it names, a record or a list of records, because
the store keeps one extent per content (BlockStore). `WriteFile`, `Truncate`,
`WriteAt`, `Append_` and `Reclaim` are the FS methods; they end in `Replace`,
which stores a sequence of contents, puts the inode and releases what was
replaced, in the order of `set_data` and `write_at_locked`. `Stores` gives the
outcomes of the stores: each content that is not in the table yet may find the
bitmap full, which may commit (old inodes, new references so far) and may end
the operation there. Whether the bitmap is really full is BlockStore's question.
`ReadAt` and `GetData` are the readers.

**BlockedFilter** - the probe arithmetic of `bloomfs-bloom` with its word size
as a constant; a filter is the set of its bits. **DirIndex** - segments with
filter, hash index, counter and removal counter, and the operations on them, as
functions on a directory value.

**Gate** (on DirIndex) - the Go prototype's membership gate before one
directory: `resident` is the cached directory (its index, the names of its
pages, the pages it has yet to write), `stored` and `committed` its pages on the
device, `gate` filter, tombstones, live counter and capacity, `saved` the gate
snapshot with its stamp. `Create` and `Unlink` change index and gate at once and
then hold the directory (`handle`) while its dirty pages (`todo`) are written
one by one: `WritePage`, `FlushEnds`, `FlushFails`, and `CommitInside`, the
commit `bsWrite` makes when a page finds the bitmap full. Every commit may
rebuild the gate by a walk (`Walks`), which sees the cached copy, or evicts it
and loads the pages, or fails to and leaves the directory out. `Lookup`,
`Evict`, `Commit`, `SnapshotGate` and `Mount` with its choice of snapshot or walk
come between operations. `doubtful` is history: names whose removal is not
stored, and names a walk missed, for which the gate has not been told otherwise
since. `Stale` says that a walk in the middle of a flush has left a copy in the
cache that lacks what the flush then stored. Each name has its page (`PageOf`).
The index half is the same in both languages and is mapped to the Rust source;
the gate exists in Go only. A snapshot is taken when the pages are the committed
ones, as the comment of `SnapshotGate` asks.

**FuseSession** - the binding over one directory. A request is an action;
`handles`, `dirHandles` and `nextFh` are the fields of `BloomFuse`, `opens` is
`open_count`, `scans` are the readers on the kernel's side (the cookie each one
goes on from, what it has got, and which names have been there since it
started). A create, link or rename whose directory cannot be stored has changed
inodes already: `NewNodeFails` leaves an inode in use without a name, `Link` a
raised count, `Rename` a target that has lost its link and any of the pages
(`Halves`); `torn` is history, the inodes left with names other than those they
are counted for. A failing unlink, rmdir, write or setattr has changed nothing
the binding sees. `Ask` stands for the requests that only ask and for those that
are refused. The filesystem below is kept to names, link counts, pins and
reclaim; Namespace has its pages, caches and faults. The kernel's part is: it
uses inodes it has a name or a handle for, and does not link a file without
names.

**CowCommitProofs**, **BitmapProofs**, **BlockStoreProofs**,
**FuseSessionProofs**, **GateProofs**, **FileDataProofs** and
**NamespaceProofs** - the proofs, with **InductionFacts**, the lemmas on
induction over sets of naturals that the last three share.
**MCCowCommit**, **MCBlockStore**, **MCNamespace**, **MCFileData**, **MCGate** -
instances for TLC; Bitmap and FuseSession need none.

Definitions commented "Slip" are plausible mistakes in the definition that
follows them; replacing the definition by its slip must break a property
(`PROJECT.json`, "mutants").

## 3. The runs

| Run | Result | What it shows |
|---|---|---|
| `cow_crash` | passes | power loss at every step, write errors, failed metadata sync, kill outside the flip: mount finds a whole confirmed (or attempted) snapshot; live metadata is never a write target; Ok means durable; the durable history never goes back; the protocol implements AtomicCommit |
| `cow_faults` | passes | with failed flips and kills inside the flip: still recoverable while not `hasty` (a reformat of a used device is hasty at once, so nothing is claimed of it) |
| `bitmap` | passes | the scan is first fit, the counter exact, runs disjoint |
| `store_crash` | passes | clusters disjoint, refs exact, live and committed data readable, no false NoSpace, no leak while running, commits atomic |
| `ns_posix` | passes | with room on the device: files, directories, writes, renames, unlinks of open files, commits and remounts at any point; link counts exact, reuse stack sound, cache coherent, everything reachable, no data without a name, a handle or a commit that has it so, handles keep their file, each operation one change of NameTree |
| `ns_nospace` | passes | full device: symlink, mkdir, hard links, unlink and rmdir with lookups, commits and remounts: names change as a whole, no file is undercounted, no stale directory stays resident |
| `ns_rename` | passes | full device, renames of files and moves of directories, as long as no id is used again: no directory ends up below itself, and a rename to another directory leaves the file a name wherever it fails or commits |
| `file_data` | passes | files of up to two records, stores that fail or commit half way, crashes: no needed reference is lost, only failures leak, records are well cut, `read_at` is exact, files behave as ByteFiles |
| `dir_gate` | passes | colliding hashes, full segments, filter rebuilds, tombstones, gate rebuilds, snapshots old and new, evictions, crashes, pages written one by one with failures and commits between them, walks that fail: the gate denies no stored name but the `doubtful` ones, and lookups of the others are exact while no copy is `Stale` |
| `fuse_session` | passes | requests of several processes on names, files and listings: listings exact and finite, every pin has its handle; creates, links and renames that fail half way leave miscounted inodes (`torn`), and every other inode is reclaimed at the right moment and kept while open |
| `ns_move_links` | violation | moves do not adjust link counts; a live directory reaches 0 and is reused after a mount |
| `ns_rename_pages` | violation | a rename inside a directory of several pages stores the removal first, the device is full, and the commit in between makes the file durable without a name; the header of `bloomfs-fs` calls rename crash-atomic |

Some properties are conjunctions of named parts: `TablesAgree` (types, disjoint
clusters, exact counts), `Consistent` (types, cache, link counts, reuse stack,
reachability), `RecordsSound` (types, well-cut records), `IndexSound` (types,
segments, chains, pages), `AnswersExact` (complete gate, exact lookups) and
`HandlesSound` (types, exact pins). The type invariants of CowCommit and Bitmap
are theorems of their own.

Other disagreements the models show, without a run of their own (the constants
that bring them out are in parentheses):

- the process is killed between the uberblock write and its sync, the next
  mount reads the new uberblock from the page cache, its first commit writes to
  the slots that the durable uberblock uses, and a power loss leaves no whole
  commit; the header of `bloomfs-cow` says a crash rolls back to the last
  consistent one (CowCommit, `FlipFaults = {"kill"}`, `MaxSeq = 3`,
  `Recoverable`);
- a full device stops a rename across directories after the first store, and the
  file has two names and a link count of one (Namespace, `Ops = {"file", "dir",
  "rename", "commit"}`, `NoSpace`, `NamesCounted`);
- `open` takes kind 0 for a regular file, which is also the kind of a reclaimed
  slot: an id looked up before an unlink opens the free slot or the file that
  reuses it (Namespace, `Ops = {"lookup", "file", "unlink", "open"}`, `Races`,
  `HandleKeepsFile`);
- the sync after the uberblock write fails and a second commit follows: it
  overwrites the metadata slot that the durable uberblock may name
  (CowCommit, `FlipFaults` with failed syncs, `LiveMetadataUntouched`);
- a raw device is formatted again: an uberblock of its previous life has the
  higher sequence number and wins (CowCommit, reformats, `AckIsDurable`);
- deferred frees exist in RAM only, and a remount forgets them (BlockStore,
  `NothingLeaked`);
- a failed sync that dropped cached pages is forgotten by the next commit,
  which reports success (BlockStore, `DropsOnError`, `StableIntact`);
- a full device stops a rename onto a file after its target was reclaimed; a
  retry reclaims the target again, its id is on the reuse stack twice, and two
  creations get it: two files share an inode, a resident directory differs from
  its pages, a directory lies below itself and `dir_subtree_contains` never ends
  (Namespace, `ns_rename` with `MaxGen = 2` and more, `CacheMirrors`, `NoDirLoop`).
  The comment of `dir_subtree_contains` (`bloomfs-fs/src/lib.rs:865`) calls its walk
  bounded by the number of directories.
  `NoLoop` and `MoveKeepsName` therefore speak of histories in which no id has
  been used twice (`NothingReused`);
- a directory replaced by a rename is never freed (Namespace, "replace_dir",
  `Connected`);
- a file committed while unlinked and open keeps its data after a crash, in a slot
  that mount hands out as free; the next create drops the references unreleased
  (Namespace, the second disjunct of `NoDeadData`, which fails without it);
- a create, link or rename that finds no space leaves an inode without a name, a
  count that is too high, or a name whose inode was reclaimed (FuseSession,
  `ReclaimedExactly` without `torn`);
- the references of records stored before a write failed are never released
  (FileData: `Surplus` grows; `LeaksOnlyOnFailure` says that nothing else makes
  it grow);
- the flush of an `Unlink` fails: the gate has the tombstone and the pages still
  have the name, so that once the directory is evicted a lookup denies a stored
  name (Gate, `GateComplete` without `doubtful`);
- a create finds the bitmap full at a page, `bsWrite` commits, the commit rebuilds
  the gate, and the walk has evicted the directory: it reads the pages from before
  the change, and the gate denies the new name until the next rebuild, with no
  error anywhere. The comments of `NeedsRebuild` (`gate.go:60`) and `rebuildGate`
  (`fs.go:380`) say that this never happens in the middle of a mutation (Gate,
  `MaxFails = 0`, `GateHoldsEveryName`, violated in eleven states);
- if the walk leaves the reloaded directory in the cache, this copy lacks what the
  flush then stores: lookups miss the new file, and the next operation on the
  directory starts from records that were released (Gate, `~Stale`, reached without
  failures);
- the walk skips a directory it cannot read (`fs.go:403`), and its names are
  denied for as long as that gate is used, though the contract in `gate.go:18` asks
  for every live name (Gate, `GateComplete` without `doubtful`);
- two names with the same low hash word share a tombstone (Gate without the
  second conjunct of `GateAssumption`);
- a gate snapshot taken while changes are uncommitted carries the stamp of the
  last commit, and a crash then restores a gate of a different directory (Gate,
  `SnapshotGate` without its guard).

Read in the code, without a model: the bloom filter's comment that an odd stride
makes all k probes distinct does not hold with the added triangular term;
`fallocate` compares cluster counts, so that fragmentation can still refuse data
it said could fit, and deduplicated data it refused may fit; `symlink` leaves an
empty link when storing its target fails; the error of the commit made when the
FUSE session is dropped is discarded.

Bounds and why they are enough. CowCommit: two metadata blocks per slot (a slot
can be half written; more blocks only add more halves), three snapshots and an
oversized one (old, new, other), `MaxSeq` 4 in `cow_crash` (each uberblock slot
and each metadata slot is reused at least once), 3 in the others. Bitmap: six
clusters, one reserved, so that runs of every length meet fragmentation, the
end of the device and each other. BlockStore: two contents, of one and two
clusters, two holders (one content shared, or one overwritten while the other
is held), four clusters with one reserved: small enough that the bitmap fills
and the commit-and-retry path is taken.

Namespace: two names and three inode slots (root and two more: a file renamed over
another, hard links, a directory in a directory, a loop of two). A rename over a
file of another directory needs four, and hard links together with handles and
commits on a device with room have too many states: both are left to the theorems
(`ns_nospace` and `fuse_session` have hard links). One reuse of each id (`MaxGen`)
in `ns_posix` and up to the first in `ns_rename`, none in `ns_nospace`; a resident
cache of one or two directories, so that it overflows; pages of one entry in
`ns_nospace` and `ns_rename_pages`, so that a directory has several, of two
elsewhere. `MaxLinks` stops `link` on a full device, where each failure raises
the count. Names are interchangeable (symmetry). `ns_rename` has no remount:
`ns_move_links` shows that the mount after such moves may reuse a live directory,
so nothing that follows it could hold. Its directories have one page:
`ns_rename_pages` shows what two do to a rename inside one directory, and a rename
between two directories stores every page of the destination before the one page of
the source.

FileData: files of at most three bytes over two byte values, record sizes two
and four with the limit at two: a file can start with a short record, fill it,
grow into a second one, be cut back, and get another record size when it is
rewritten. Two files, so that records and block maps are shared; the second is
only written as a whole and reclaimed (`Edited`). One reference without a holder
(`MaxSurplus`) is enough to tell a leak from none.

Gate: three names in segments of two (a second segment is opened, and freed
places are used again), two of them with the same index hash, filters of two
blocks of four bits with two probes in arithmetic modulo four, in which the bits
of one name are covered by the other two (false positives happen). Two
names share a page and one has its own, so that a flush after a failed one may
write two. A rebuild of
the segment filter is due after every second removal, one of the gate after more
than one tombstone or more than the capacity of live names. One commit makes a
snapshot stale or falls inside a flush, and one failure is a failed flush or a
walk that misses the directory.

FuseSession: two names and two inodes (hard links, replacement, reuse of an id),
two handles (two readers, two opens of one file, or a reader and a writer), one
reuse of each id, one request that fails half way, replies of three rows, so that
a listing with both names needs a second call and one more that is empty.

`cow_faults` explores no successors of a `hasty` state (constraint
`NotHasty`): `hasty` is never reset and the property claims nothing of such
states. Holders are interchangeable, so `store_crash` uses symmetry.

Deadlock is checked everywhere. Fairness: only `ScanEnds` needs it. FuseSession
assumes weak fairness of the next readdir of a stream that is being read: the
session loop answers every request, and a process that lists a directory goes on
until the empty reply. No progress is claimed of the device or of other callers.

Environment constants. `FlipFaults` says what may hit the window between the
uberblock write and its sync besides a power loss: `cow_crash` has none,
`cow_faults` has all. `DropsOnError` says whether a failed sync may drop cached
writes, as Linux does.

## 4. The proofs

All theorems hold for every value of the constants under the named assumptions,
which TLC evaluates in the runs:

- `CowAssumption`: at least one metadata block, sentinels outside the data;
- `BitmapAssumption`: sizes are naturals;
- `StoreAssumption`, `StoreSentinels`, `SnapshotSentinel`: finitely many holders,
  contents of at least one cluster, `None` and `Junk` outside the data;
- `SessionAssumption`, `SessionSentinel`: finitely many names, natural bounds,
  `None` outside the data;
- `FileAssumption`: finitely many files, positive record sizes (one more than
  limits), data of naturals within the largest file;
- `NamespaceAssumption`: finitely many names and handles, at least one inode slot, pages of at
  least one entry and a cache of at least one directory, `None` outside the data;
- `FilterAssumption`, `IndexAssumption`, `GateAssumption`, `GateSentinel`:
  positive sizes, finitely many names, each with its hashes, `None` outside the
  data, and names whose gate hashes differ in the low word (a tombstone is keyed
  by that word alone: without the assumption the gate is wrong, see section 3).
  Nothing is assumed of the filter hash or of the index hash, which may collide.

CowCommitProofs. `TypeInv` adds to `TypeOK` that a commit in progress has a
target and a snapshot. `SettledInv` is the inductive invariant of a history
that is not `hasty`:

- `Aligned`: an uberblock sits in the slot of its parity;
- `DurableWhole`: the slots of the durable uberblock are clean and its metadata
  slot holds one allowed snapshot;
- `OpenFlip`: an uberblock that is only in the cache is the only dirty block,
  is the successor of the durable one, and its snapshot is durable;
- `InFlight`: what each point of a commit has established.

It is needed because recoverability alone says nothing of the cache, which the
next writeback may persist. Lemmas `BestKept` and `BestFlips` say when mount's
choice stays and when it moves; one lemma per group of actions preserves the
invariant. `SettledRecovers` follows with all faults allowed. With
`NoFlipFaults`, `QuietInv` shows that no history becomes hasty, which gives
`Recovers`, `LiveMetadataSafe`, `OkIsDurable`, `HistoryAdvances`, and
`Implements`: every step is a step of AtomicCommit under the mapping
`stable <- Recovered(disk)`.

BitmapProofs. `ScanInv` says where the scan stands: the last `run` clusters are
free and no fit starts before them. With `Counter` (used = number of set bits)
it is inductive, and gives `TypeCorrect`, `FirstFit` and `CounterExact`.
`RunsInv` adds that the reserved clusters stay set: a run that is handed out
lies in clusters that were clear, and everything held before lies in set ones,
which gives `NoRunOverlaps`.

BlockStoreProofs. The tables in RAM and those of the stable snapshot obey the
same rules, so these are stated once, as `Sound(t, n)`, of any dedup table and
inode table: extents apart, counts equal to the holders, every `Ref` named by an
entry. `IInv` is the inductive invariant: types, `Sound` of both pairs,
`Accounted` (live, deferred, reserved and stable clusters are all marked, and
the first three are disjoint), `Progress` (what each phase of a commit and the
write that waits for it have established) and `NoSpaceIsReal`. `Accounted` is
what makes the rest inductive: a cluster that the stable snapshot names is never
handed out, because its free is deferred until the snapshot is replaced. It gives
`TablesStayAgreed`, `NoSpaceOnlyWhenFull`, `NeverLeaksWhileRunning` and, with
the mapping to AtomicCommit's flip, `CommitsAreAtomic`. `DataInv` adds what the
device holds: every live extent is readable through the cache, and every extent
of the stable snapshot is durable. It gives `StoredIsReadable` and
`CommittedIsIntact`, both under `~DropsOnError`: a failed sync that drops cached
writes loses data that the next commit reports as stored (section 3).

FuseSessionProofs. `IInv` is `TypeOK`, `PinsExact`, `LinksAgree`, `HandlesGiven`
and `ScansSound`. `LinksAgree` ties names, link count, reuse and pins of each
inode outside `torn` together (`Agree`), and is needed because a reclaim is
decided from the link count and the pin count, while the properties speak of
names and handles; a torn inode may be reclaimed and named at once, and the proof
shows that this never reaches an inode that is not torn. `HandlesGiven` says that
handle numbers are below `nextFh`, so that `open` never reuses one. `ScansSound`
says where each reader stands in the listing frozen at `opendir`: it got exactly
the rows before its cookie, and every name that stayed is a row. Directories are
sequences because listings have an order; the lemmas turn removal, insertion and
renaming, whole and by half, into changes of the set of entries. The theorems are
`PinsAreHandles`, `ReclaimIsExact`, `ScansAreExact` and the action property
`OpenFileKeepsInode`.

GateProofs, the index. `DirOK(d, S)` says that the directory value `d` holds the names
`S`: each segment has exact counters, a filter that covers its names and chains
of distinct names of their own hash, and no name is in two segments. The lemmas
show that the operations are those of a set: `FindFacts` (a lookup is
membership), `DirAddFacts`, `DirDeleteFacts` (with or without the filter rebuild)
and `LoadFacts` (an index loaded from pages holds the names of the pages). The
filter is only asked for what it needs, that setting bits keeps bits, so the
probe arithmetic is never expanded. `LoadFacts` is an induction over the pages:
InductionFacts' `SetInduction` states induction for a set of naturals, which the
provers can instantiate, and `AddingExists` builds the recursive function.

GateProofs, the gate. The inductive invariant is `TypeOK` with four parts.
`CopiesOK`: the index of the cached copy and of the copy that is being flushed is
`DirOK` for the names of its pages. `OneWriter`: while an operation flushes, the cache has the
copy it flushes, none, or one a walk has just loaded, with nothing to write. `GateCovers`:
outside `doubtful`, the gate denies no name of the pages or of the copies they
will be written from. `SavedOK`: a snapshot is never newer than the last commit,
and one with its stamp denies no committed name but the doubtful ones it carries.
`GateComplete` alone is not inductive: an eviction goes back to the pages, a
flush goes on from the held copy after a rebuild, a mount goes back to the
committed pages and the snapshot. The theorems are `IndexStaysSound` and
`LookupsAreExact`.

FileDataProofs. `IInv` says of the files in memory and of the committed files
that every inode is `FileOf(b, rs)`, what `set_data` would have made of some
bytes `b` with some record size, and that the counts are a bag that covers what
the files hold. The first part is the strengthening: `RefsCover` alone does not
say which records a partial write keeps. The proof has three parts.

- Cutting and reading: `FlattenFacts` (joining the pieces a sequence was cut into
  gives the sequence back, by induction over their number), `FileFacts`,
  `ReadFacts` (the records a range overlaps, trimmed and joined, are the range)
  and `WrittenFacts` (the records `write_at_locked` keeps and patches are exactly
  those the new bytes would be cut into).
- Counting: how often a content occurs in a sequence, a bag and all files
  (`CountConcat`, `AddFacts`, `SubtractFacts`, `HeldUpdate`). `Balanced` says that
  an operation releases what the inode no longer holds and stores what it newly
  holds; `ExchangeBalanced` shows it for a partial write, where kept records are
  neither stored nor released.
- `ReplaceFacts`: a balanced operation preserves `IInv` wherever it fails or
  commits, and changes no surplus when it succeeds.

The theorems are `ReferencesCover`, `OnlyFailuresLeak`, `RecordsStaySound`,
`ReadsAreExact` and the refinement `FilesAreBytes`. They hold for any number of
files, sizes and record sizes, where the run has files of two records.

NamespaceProofs. The names are one set of bindings <<directory, name, inode>>
(`Entries`), and the proof is in three layers.

- Trees. `Sound(T, D, L, nx, E)` says that the bindings `T`, the directories `D`
  and the link counts `L` agree: the directories are a `Forest` (one parent, and
  no binding starts in what lies `Below` its end), files are `Counted`, and with
  room on the device the counts are `Exact` and everything can be reached, but
  for the inodes `E` that are about to be bound. `Below` is the least set closed
  under the bindings, so that "a new edge makes no loop" is an argument about
  closed sets and needs no induction over paths. The lemmas add, take away and
  move one binding.
- Storage. `Working` and `Editing` describe a directory that is checked out,
  `At` where its pages hold a name; `AddFacts`, `DelFacts` and `StoredFacts` say
  what edits and stores do to the bindings, `FlushFacts` what a failed store
  leaves, `Mirrors(c, t, X)` that the cache `c` agrees with the table `t` and
  holds none of the directories `X` that are checked out. `SubtreeFacts` and
  `ScanFacts` are inductions: the walk of `dir_subtree_contains` computes
  `Below`, and the scan of `rebuild_free_inodes` finds each slot without links
  once.
- Operations. The inductive invariant `IInv` is `Good` of the state in memory
  (types, `Mirrors`, `Sound`, and the reuse stack and handles against both) and
  `Sound` of the image: a mount starts from the image, so whatever a commit can
  capture must be as good as what is in memory. One lemma per operation shows
  `IInv'` together with `TreeStep`, the step of NameTree it makes.

`CacheMirrors` alone is not inductive (that a resident id is a directory depends on the
reuse stack), nor `NamesCounted` (an unlink is allowed by the count), nor
`NoDirLoop` (a reused id must have no names left).

The hypothesis `Supported` says for which callers it holds, and each exclusion
has a counterexample in section 3: with `Races` a stale id can be opened; a
replaced directory is lost ("replace_dir"); moved directories leave wrong link
counts, which a mount believes ("move_dir" with "commit", run `ns_move_links`);
and a full device stops a rename half-way ("rename" with `NoSpace`). The
constants of `ns_posix` and `ns_nospace` satisfy it. The theorems are
`TypeCorrect`, `CacheIsCoherent`, `NamesAreCounted`, `ReuseIsSafe`,
`HandlesKeepTheirFile`, `TreeHasNoLoop` (`NoDirLoop`, whether ids are reused or
not), the refinement `RefinesNameTree`, and, with room on the device,
`StaysConsistent` (without "move_dir", whose link counts are wrong).
`DeadFilesHoldNothing` (`NoDeadData`, restated as `Spare`) is inductive on top of
`IInv`, with writes, handles, commits and crashes together; it needs `IInv` to
know that an id from the reuse stack is not open and has no name.

Only model-checked: `ScanEnds` (liveness, out of the prover's reach), and `NoLoop`
and `MoveKeepsName` for renames on a full device (run `ns_rename`), where `IInv`
does not hold: a half-done rename leaves an undercounted file, and both fail once
ids are reused.

## 5. Plan

1. (done) BlockDevice, AtomicCommit, CowCommit, Bitmap, BlockStore; proofs of
   CowCommit and Bitmap.
2. (done) Namespace with the directory cache, and NameTree.
3. (done) FileData with ByteFiles; BlockedFilter, DirIndex and Gate;
   FuseSession.
4. (done) Proofs of BlockStore, FuseSession, DirIndex, Gate and FileData.
5. (done) Proofs of Namespace.
6. An invariant of half-done renames without reuse of ids, for `NoLoop` and
   `MoveKeepsName` on a full device.
7. A composition of Namespace and FileData over one BlockStore, if an instance
   small enough for TLC still fills the device.

## 6. Not modelled

- Compression, encryption and hashing: a content is its hash. Byte layouts of
  uberblock, inode, tables and gate snapshot: only their validity matters to the
  protocols, and their round trips are what the unit tests cover.
- Times, owners, modes and access checks.
- Read errors in the Rust filesystem: `bs_read` may fail inside `release_data`
  (`bloomfs-fs/src/lib.rs:688`, called by `reclaim` at 1355), before the slot is
  blanked, and in `load_dir`. In the Go gate the failing walk is modelled.
- In FuseSession: a renamed entry that is stored on another page than the entry of
  the same name it replaces, which a failure can leave on two pages (Namespace has
  the pages), and an id that is twice on the reuse stack (`free` is a set there,
  a stack in Namespace). In Gate: operations on a `Stale` copy.
- The cache switched off, `symlink` in the binding.
- The choice of filter parameters (`new_blocked_tuned`, the Poisson estimate):
  floating-point tuning; the parameters are constants.
- `globalfilter/filter.go` on its own (the gate's filter is BlockedFilter), and
  the Go tree where it repeats the Rust one.
- The command line, Windows unbuffered I/O, block-size probing: start-up and pure
  I/O.
