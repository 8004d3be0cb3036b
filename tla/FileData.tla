------------------------------ MODULE FileData ------------------------------
(***************************************************************************)
(* The contents of regular files (bloomfs-fs: record_size_for,             *)
(* split_records, load_refs, store_refs, release_data, set_data, get_data, *)
(* read_at, write_at_locked, append, truncate).                            *)
(*                                                                         *)
(* A file is cut into records, each stored by content through bs_write.    *)
(* One record is named inline in the inode; several are listed in a        *)
(* block-map blob that is itself stored by content, so that equal lists of *)
(* equal files share one blob.  A Ref is the content it names: the store   *)
(* below (BlockStore) keeps one extent per live content, and refs is its   *)
(* count of references.                                                    *)
(*                                                                         *)
(* bs_write of a content that is not in the dedup table may find the       *)
(* bitmap full.  It then commits the metadata as it is at that moment, in  *)
(* the middle of the operation, and may still fail; what the operation     *)
(* stored before stays counted.                                            *)
(***************************************************************************)
EXTENDS Naturals, Sequences, FiniteSets, SequencesExt

CONSTANTS
    Files,        \* inodes of regular files
    Edited,       \* bound: the files that are also written in place and resized
    Chunks,       \* the data of a write_at or an append
    Blobs,        \* the data of a write_file
    MaxSize,      \* the largest file
    Limits,       \* record_size_for: the file sizes at which the record size
    Sizes,        \* grows, and the record sizes
    MaxSurplus,   \* bound: references that no file holds, now or committed
    None

ASSUME FileAssumption ==
    /\ IsFiniteSet(Files) /\ Edited \subseteq Files
    /\ MaxSize \in Nat /\ MaxSurplus \in Nat
    /\ Limits \in Seq(Nat) /\ Sizes \in Seq(Nat \ {0})
    /\ Len(Sizes) = Len(Limits) + 1
    /\ \A d \in Chunks : d \in Seq(Nat) /\ d # <<>>
    /\ \A b \in Blobs : b \in Seq(Nat) /\ Len(b) <= MaxSize

VARIABLES
    files,    \* the data fields of each inode
    refs,     \* references counted by the dedup table, as a bag of contents
    image     \* the files and the counts of the last commit

vars == <<files, refs, image>>

----------------------------------------------------------------------------
(* Records and block maps. *)

CeilDiv(n, d) == (n + d - 1) \div d
Least(m, n) == IF m < n THEN m ELSE n
Most(m, n) == IF m > n THEN m ELSE n

RecordSizeFor(n) ==
    Sizes[1 + Cardinality({i \in DOMAIN Limits : Limits[i] <= n})]

\* Contents: one record of bytes, or the list of a file's records.
Record(b) == [rec |-> b]
BlockMap(rs) == [map |-> rs]

SplitRecords(b, rs) ==
    [i \in 1 .. CeilDiv(Len(b), rs) |->
        Record(SubSeq(b, (i - 1) * rs + 1, Least(i * rs, Len(b))))]

\* The inode of a file without data; inline is FLAG_INLINE_EXTENTS.
NoData == [size |-> 0, rs |-> 0, inline |-> FALSE, ref |-> None]

LoadRefs(in) ==
    IF in.size = 0 THEN <<>> ELSE IF in.inline THEN <<in.ref>> ELSE in.ref.map

\* The stored block map, where there is one.
Container(in) == IF in.size > 0 /\ ~in.inline THEN <<in.ref>> ELSE <<>>

\* store_refs: what is stored besides the records, and the inode it leaves.
MapBlob(rs) == IF Len(rs) > 1 THEN <<BlockMap(rs)>> ELSE <<>>

StoredInode(rs, size, recsize) ==
    IF rs = <<>> THEN NoData
    ELSE [size |-> size, rs |-> recsize, inline |-> Len(rs) = 1,
          ref |-> IF Len(rs) = 1 THEN rs[1] ELSE BlockMap(rs)]

GetData(in) == FlattenSeq([i \in DOMAIN LoadRefs(in) |-> LoadRefs(in)[i].rec])

\* Slip: the bytes are taken from the start of every record.
ReadPieceFromStart(rec, start, off, end) ==
    SubSeq(rec, 1, Least(end, start + Len(rec)) - Most(off, start))

\* The part of a record that starts at start which the range [off, end) covers.
ReadPiece(rec, start, off, end) ==
    SubSeq(rec, Most(off, start) - start + 1, Least(end, start + Len(rec)) - start)

\* read_at: only the records that the range overlaps are read.
ReadAt(in, off, n) ==
    IF n = 0 \/ off >= in.size THEN <<>>
    ELSE LET end == Least(off + n, in.size)
             first == off \div in.rs
         IN FlattenSeq([j \in 1 .. (end - 1) \div in.rs - first + 1 |->
                ReadPiece(LoadRefs(in)[first + j].rec, (first + j - 1) * in.rs, off, end)])

----------------------------------------------------------------------------
(* References. *)

\* Every content a file has a reference to (release_data).
HeldBy(in) == LoadRefs(in) \o Container(in)

\* Where the content c is referred to: the file, and the place among what it holds.
Holdings(fs, c) ==
    UNION {{<<f, i>> : i \in {j \in DOMAIN HeldBy(fs[f]) : HeldBy(fs[f])[j] = c}} :
           f \in Files}

Held(fs) ==
    [c \in UNION {ToSet(HeldBy(fs[f])) : f \in Files} |-> Cardinality(Holdings(fs, c))]

\* References that are counted and that no file has.
Surplus(fs, t) == t (-) Held(fs)

Snapshot(fs, t) == [files |-> fs, refs |-> t]

Stored(t, s) == t (+) ToBag(s)
Released(t, s) == t (-) ToBag(s)

\* The contents s are stored one after the other from count t on.  A content
\* that is not there yet needs clusters: bs_write may commit before it has
\* them, and the operation may stop there.
Miss(t, s, j) == s[j] \notin DOMAIN t \cup {s[i] : i \in 1 .. j - 1}

Prefix(s, k) == SubSeq(s, 1, k)

\* How the stores may go: how many succeed, and what is committed then.  A
\* commit before the jth store holds the files as they were and the references
\* of the contents stored so far.
Stores(s) ==
    LET room == MaxSurplus - BagCardinality(Surplus(files, refs))
    IN {o \in [stored : 0 .. Len(s), commit : 0 .. Len(s)] :
           /\ o.stored < Len(s) => Miss(refs, s, o.stored + 1) /\ o.stored <= room
           /\ o.commit > 0 => /\ Miss(refs, s, o.commit)
                              /\ o.commit <= Least(o.stored, room) + 1}

ImageAfter(s, o) ==
    IF o.commit = 0 THEN image
    ELSE Snapshot(files, Stored(refs, Prefix(s, o.commit - 1)))

\* Slip: the old content is released before the new one is stored.
ReplaceReleaseFirst(f, s, in, old) ==
    \E o \in Stores(s) :
        /\ image' = ImageAfter(s, o)
        /\ refs' = Stored(Released(refs, old), Prefix(s, o.stored))
        /\ files' = IF o.stored = Len(s) THEN [files EXCEPT ![f] = in] ELSE files

\* The contents s are stored, the inode becomes in, and the references old are
\* released.  An error leaves the inode as it was.
Replace(f, s, in, old) ==
    \E o \in Stores(s) :
        /\ image' = ImageAfter(s, o)
        /\ IF o.stored = Len(s)
           THEN /\ files' = [files EXCEPT ![f] = in]
                /\ refs' = Released(Stored(refs, s), old)
           ELSE /\ refs' = Stored(refs, Prefix(s, o.stored))
                /\ UNCHANGED files

----------------------------------------------------------------------------
(* Operations. *)

\* set_data: the file is cut anew with a record size for its new length.
SetData(f, b) ==
    LET rs == RecordSizeFor(Len(b))
        recs == SplitRecords(b, rs)
    IN Replace(f, recs \o MapBlob(recs), StoredInode(recs, Len(b), rs), HeldBy(files[f]))

WriteFile(f, b) == SetData(f, b)

Truncate(f, n) ==
    LET b == GetData(files[f])
    IN /\ n # files[f].size
       /\ SetData(f, [q \in 1 .. n |-> IF q <= Len(b) THEN b[q] ELSE 0])

\* Slip: a record the write does not touch is kept, though the file now goes
\* on beyond it.
CarriedShort(i, end, size, old, touched) == ~touched /\ i <= Len(old)

\* write_at_locked keeps the Ref of a record that the write does not touch and
\* that does not grow.
Carried(i, end, size, old, touched) == ~touched /\ i <= Len(old) /\ end <= size

\* The elements of a set of numbers in their order.
Ascending(S) ==
    CHOOSE q \in [1 .. Cardinality(S) -> S] : \A i, j \in DOMAIN q : i < j => q[i] < q[j]

\* Slip: the old block map keeps its reference.
OverwrittenNoMap(in, old, rewritten) == [j \in DOMAIN rewritten |-> old[rewritten[j]]]

\* What a write releases: the records it replaced and the old block map.
Overwritten(in, old, rewritten) ==
    [j \in DOMAIN rewritten |-> old[rewritten[j]]] \o Container(in)

\* Slip: a record is rewritten without the bytes it had.
PatchedBlank(old, start, len, off, d) ==
    [q \in 1 .. len |->
        IF start + q > off /\ start + q <= off + Len(d) THEN d[start + q - off] ELSE 0]

\* The len bytes of the record at start: the data d that is written at off, the
\* bytes the record had, and zeros.
Patched(old, start, len, off, d) ==
    [q \in 1 .. len |->
        IF start + q > off /\ start + q <= off + Len(d) THEN d[start + q - off]
        ELSE IF q <= Len(old) THEN old[q]
        ELSE 0]

\* write_at_locked: d replaces the bytes from off on; a gap past the old end
\* reads as zeros.  The record size is frozen once the file has data.
WriteAt(f, off, d) ==
    LET in == files[f]
        old == LoadRefs(in)
        end == off + Len(d)
        size == Most(in.size, end)
        rs == IF in.size > 0 THEN in.rs ELSE RecordSizeFor(size)
        n == CeilDiv(size, rs)
        Start(i) == (i - 1) * rs
        End(i) == Least(i * rs, size)
        keeps == {i \in 1 .. n :
                    Carried(i, End(i), in.size, old, end > Start(i) /\ off < End(i))}
        New(i) == Patched(IF i <= Len(old) THEN old[i].rec ELSE <<>>,
                          Start(i), End(i) - Start(i), off, d)
        recs == [i \in 1 .. n |-> IF i \in keeps THEN old[i] ELSE Record(New(i))]
        rewritten == (1 .. n) \ keeps
        stored == Ascending(rewritten)
    IN /\ size <= MaxSize
       /\ Replace(f, [j \in DOMAIN stored |-> recs[stored[j]]] \o MapBlob(recs),
                  StoredInode(recs, size, rs),
                  Overwritten(in, old, Ascending(rewritten \cap DOMAIN old)))

Append_(f, d) == WriteAt(f, files[f].size, d)

\* reclaim: the last name and the last handle of the file are gone.
Reclaim(f) ==
    /\ files[f].size > 0
    /\ Replace(f, <<>>, NoData, HeldBy(files[f]))

Commit ==
    /\ image' = Snapshot(files, refs)
    /\ UNCHANGED <<files, refs>>

\* A crash, and the mount that reads the last snapshot.
Remount ==
    /\ files' = image.files /\ refs' = image.refs
    /\ UNCHANGED image

Init ==
    /\ files = [f \in Files |-> NoData]
    /\ refs = EmptyBag
    /\ image = Snapshot(files, refs)

Next ==
    \/ \E f \in Files : Reclaim(f) \/ \E b \in Blobs : WriteFile(f, b)
    \/ \E f \in Edited :
         \/ \E n \in 0 .. MaxSize : Truncate(f, n)
         \/ \E d \in Chunks : Append_(f, d) \/ \E off \in 0 .. MaxSize : WriteAt(f, off, d)
    \/ Commit
    \/ Remount

Spec == Init /\ [][Next]_vars

----------------------------------------------------------------------------
(* Properties. *)

\* Inodes, counts and the committed copy have their types; an empty file has no map.
TypeOK ==
    /\ \A fs \in {files, image.files}, f \in Files :
          /\ fs[f].size \in 0 .. MaxSize
          /\ fs[f].rs \in ToSet(Sizes) \cup {0}
          /\ fs[f].inline \in BOOLEAN
          /\ fs[f].size = 0 => fs[f] = NoData
    /\ IsABag(refs) /\ IsABag(image.refs)

\* No content a file needs can be freed under it: the dedup table counts at
\* least the references of all files, block maps included, in memory and in
\* the snapshot a commit in the middle of an operation leaves.
RefsCover ==
    /\ Held(files) \sqsubseteq refs
    /\ Held(image.files) \sqsubseteq image.refs

\* A reference without a holder comes only from an operation that failed or
\* from a remount: every operation that succeeds releases exactly what it
\* replaced.
LeaksOnlyOnFailure ==
    [][files' # files => Remount \/ Surplus(files, refs)' = Surplus(files, refs)]_vars

\* The records of a file are full except the last, and there are as many as
\* its size asks for: read_at never indexes past the block map.
WellCut ==
    \A f \in Files : files[f].size > 0 =>
        LET in == files[f]
        IN /\ Len(LoadRefs(in)) = CeilDiv(in.size, in.rs)
           /\ \A i \in DOMAIN LoadRefs(in) :
                 Len(LoadRefs(in)[i].rec) = Least(i * in.rs, in.size) - (i - 1) * in.rs

\* Inodes, block maps and records fit together.
RecordsSound == TypeOK /\ WellCut

\* read_at returns the bytes of the range that the whole file has there.
ReadAtExact ==
    \A f \in Files, off \in 0 .. MaxSize, n \in 0 .. MaxSize + 1 :
        ReadAt(files[f], off, n) =
            SubSeq(GetData(files[f]), off + 1, Least(off + n, files[f].size))

\* The bytes of the files change by whole operations, and a crash returns to
\* bytes that all files had at one moment.
AsBytes(fs) == [f \in Files |-> GetData(fs[f])]

BytesOf == INSTANCE ByteFiles WITH data <- AsBytes(files), durable <- AsBytes(image.files)

ImplementsByteFiles == BytesOf!Spec
=============================================================================
