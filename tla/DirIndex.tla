------------------------------ MODULE DirIndex ------------------------------
(***************************************************************************)
(* The in-memory index of one directory (bloomfs-dir).  A directory is a   *)
(* sequence of segments of limited capacity.  A segment answers "absent"   *)
(* from its filter alone and otherwise looks in a hash index whose chains  *)
(* hold the names that share a 64-bit hash.  Removal leaves the bits of    *)
(* the name in the filter until enough removals are due a rebuild.         *)
(*                                                                         *)
(* The operations are functions on a directory value; Gate keeps one as    *)
(* the resident copy of a directory and moves it.                          *)
(***************************************************************************)
EXTENDS BlockedFilter, Sequences, FiniteSets, SequencesExt

CONSTANTS
    Names,
    FilterKey,     \* the 128-bit hash of a name, for the filter
    NameHash,      \* its 64-bit hash, for the index
    InodeOf,       \* the inode a name is linked to
    SegCap,        \* MAX_FILES_PER_SEGMENT
    RebuildPart,   \* 4: a rebuild is due after SegCap / 4 removals
    None

ASSUME IndexAssumption ==
    /\ IsFiniteSet(Names)
    /\ FilterKey \in [Names -> Keys]
    /\ NameHash \in [Names -> Nat]
    /\ InodeOf \in [Names -> Nat] /\ None \notin Nat
    /\ SegCap \in Nat \ {0} /\ RebuildPart \in Nat \ {0}

----------------------------------------------------------------------------
(* Segments. *)

EntryRec == [name : Names, inode : Nat]

\* The hash index: the chain of every hash some name of the segment has.
Index == LET hashes == {NameHash[n] : n \in Names}
         IN UNION {[H -> Seq(EntryRec)] : H \in SUBSET hashes}

Segment == [filter : SUBSET FilterBits, index : Index, count : Nat, tomb : Nat]

Entry(n) == [name |-> n, inode |-> InodeOf[n]]

NewSegment == [filter |-> EmptyFilter, index |-> <<>>, count |-> 0, tomb |-> 0]

Full(s) == s.count >= SegCap

Chain(s, h) == IF h \in DOMAIN s.index THEN s.index[h] ELSE <<>>
NamesIn(s) == UNION {{e.name : e \in ToSet(s.index[h])} : h \in DOMAIN s.index}

SegAdd(s, n) ==
    LET h == NameHash[n]
    IN [s EXCEPT !.filter = AddKey(@, FilterKey[n]),
                 !.index = [g \in DOMAIN @ \cup {h} |->
                               IF g = h THEN Append(Chain(s, h), Entry(n)) ELSE @[g]],
                 !.count = @ + 1]

\* The place of a name in the chain of its hash, or 0.
Position(s, n) ==
    LET c == Chain(s, NameHash[n])
        found == {i \in DOMAIN c : c[i].name = n}
    IN IF found = {} THEN 0 ELSE Min(found)

SegFind(s, n) ==
    IF TestKey(s.filter, FilterKey[n]) /\ Position(s, n) > 0
    THEN Chain(s, NameHash[n])[Position(s, n)].inode ELSE None

\* Slip: the last element is removed instead of the one that was asked for.
SwapPop(c, i) == Front(c)

\* swap_remove: the last element takes the place of the removed one.
SwapRemove(c, i) ==
    [j \in 1 .. Len(c) - 1 |-> IF j = i THEN c[Len(c)] ELSE c[j]]

RebuildThreshold == Max({SegCap \div RebuildPart, 1})

\* A new filter from the names that are left.
RebuildFilter(s) ==
    [s EXCEPT !.tomb = 0, !.filter = UNION {Bits[FilterKey[n]] : n \in NamesIn(s)}]

SegRemove(s, n) ==
    LET h == NameHash[n]
        c == SwapRemove(s.index[h], Position(s, n))
        t == [s EXCEPT !.index = IF c = <<>> THEN Restrict(@, DOMAIN @ \ {h})
                                 ELSE [@ EXCEPT ![h] = c],
                       !.count = @ - 1,
                       !.tomb = @ + 1]
    IN IF t.tomb >= RebuildThreshold THEN RebuildFilter(t) ELSE t

----------------------------------------------------------------------------
(* Directories. *)

NewDir == <<NewSegment>>

\* Segments are asked in order; the first that has the name answers.
Find(d, n) ==
    LET hits == {i \in DOMAIN d : SegFind(d[i], n) # None}
    IN IF hits = {} THEN None ELSE SegFind(d[Min(hits)], n)

\* push_unique: the first segment with room, or a new one.
PushUnique(d, n) ==
    LET rooms == {i \in DOMAIN d : ~Full(d[i])}
    IN IF rooms = {} THEN Append(d, SegAdd(NewSegment, n))
       ELSE [d EXCEPT ![Min(rooms)] = SegAdd(@, n)]

\* add: a name that is there is left alone.
DirAdd(d, n) == IF Find(d, n) # None THEN d ELSE PushUnique(d, n)

\* delete asks the index of every segment, not the filters.
DirDelete(d, n) ==
    LET holders == {i \in DOMAIN d : Position(d[i], n) > 0}
    IN IF holders = {} THEN d ELSE [d EXCEPT ![Min(holders)] = SegRemove(@, n)]

NamesOf(d) == UNION {NamesIn(d[i]) : i \in DOMAIN d}

\* load_dir adds the names the pages hold one after the other.  Their order,
\* the order of the pages in the code, is fixed here: an index built in any
\* other order is also built by adding the names in that order.
Load ==
    [names \in SUBSET Names |->
        LET page == SetToSeq(names)
            added[k \in 0 .. Len(page)] ==
                IF k = 0 THEN NewDir ELSE DirAdd(added[k - 1], page[k])
        IN added[Len(page)]]

----------------------------------------------------------------------------
(* What a directory value must satisfy. *)

\* The counter that decides whether a segment has room counts its names, and a
\* rebuild is never overdue.
CountsOK(s) ==
    /\ s.count = Cardinality(NamesIn(s))
    /\ s.count <= SegCap
    /\ s.tomb < RebuildThreshold

\* No name of a segment is denied by its filter, whatever was removed or
\* rebuilt before: the filter has no false negative.
FilterCoversNames(s) == \A n \in NamesIn(s) : TestKey(s.filter, FilterKey[n])

\* A name is in one segment, once, in the chain of its hash, with its inode.
NamedOnce(d) ==
    /\ \A i, j \in DOMAIN d : i # j => NamesIn(d[i]) \cap NamesIn(d[j]) = {}
    /\ \A i \in DOMAIN d : \A h \in DOMAIN d[i].index :
          LET c == d[i].index[h]
          IN /\ c # <<>> /\ IsInjective([k \in DOMAIN c |-> c[k].name])
             /\ \A e \in ToSet(c) : NameHash[e.name] = h /\ e = Entry(e.name)
=============================================================================
