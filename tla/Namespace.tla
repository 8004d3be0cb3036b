----------------------------- MODULE Namespace -----------------------------
(***************************************************************************)
(* The namespace of bloomfs-fs: the inode table with its link counts and   *)
(* generations, the directories stored as pages of entries, the resident   *)
(* directory cache, the stack of reclaimed inode ids, open handles, and    *)
(* the snapshot the last commit made durable.                              *)
(*                                                                         *)
(* FS methods take &mut self, so each runs alone: one operation is one     *)
(* action.  An operation is still several fallible steps: every page it    *)
(* stores goes through bs_write, which on a full device commits the whole  *)
(* metadata in the middle of the operation, and may then fail and end the  *)
(* operation with an error and no roll-back.  A commit is the atomic       *)
(* replacement of the durable snapshot that CowCommit implements.          *)
(*                                                                         *)
(* Times, modes and owners are left out; a file's contents are reduced to  *)
(* whether its inode holds data; a page holds PageCap entries.             *)
(***************************************************************************)
EXTENDS Naturals, Sequences, FiniteSets

CONSTANTS
    Names,      \* the names of directory entries
    InodeCap,   \* slots of the inode table
    PageCap,    \* entries that fit in a directory page
    CacheCap,   \* DIR_CACHE_CAP
    Handles,    \* handles that can be open at once
    MaxGen,     \* bound on the generation of an inode
    MaxLinks,   \* bound on a link count
    Ops,        \* the operations the callers issue
    NoSpace,    \* TRUE: bs_write may find the device full
    Races,      \* TRUE: another caller may act between a lookup and the open
                \* of the inode id it returned
    None        \* no handle, no looked-up id

Ids == 0 .. InodeCap - 1
Root == 0

ASSUME NamespaceAssumption ==
    /\ InodeCap \in Nat \ {0}
    /\ PageCap \in Nat \ {0}
    /\ CacheCap \in Nat \ {0}
    /\ MaxGen \in Nat /\ MaxLinks \in Nat
    /\ IsFiniteSet(Names) /\ IsFiniteSet(Handles)
    /\ NoSpace \in BOOLEAN /\ Races \in BOOLEAN
    /\ None \notin Ids \X Nat

VARIABLES
    ino,       \* the inode table
    next,      \* Uberblock.next_inode, which is also Table.count
    free,      \* free_inodes: the stack of reclaimed ids
    opens,     \* open_count
    cache,     \* DirCache, least recently used first
    image,     \* the snapshot a mount finds on the device
    held,      \* an inode id (and its generation) a caller has looked up
    handles    \* the open Handles: inode id, generation at its lookup

vars == <<ino, next, free, opens, cache, image, held, handles>>

Page == UNION {[S -> Ids] : S \in SUBSET Names}

Inode == [kind : {"file", "dir", "link"}, nlink : Nat, gen : Nat,
          data : BOOLEAN, pages : Seq(Page)]

TypeOK ==
    /\ ino \in [Ids -> Inode]
    /\ next \in 1 .. InodeCap
    /\ free \in Seq(Ids)
    /\ opens \in [Ids -> Nat]
    /\ cache \in Seq([id : Ids, pages : Seq(Page)])
    /\ image \in [ino : [Ids -> Inode], next : 1 .. InodeCap]
    /\ held \in (Ids \X Nat) \cup {None}
    /\ handles \in [Handles -> (Ids \X Nat) \cup {None}]

\* Inode::default() with a generation; TYPE_REGULAR is 0, so a slot that
\* holds nothing reads as an empty regular file without names.
Blank(g) ==
    [kind |-> "file", nlink |-> 0, gen |-> g, data |-> FALSE, pages |-> <<>>]

----------------------------------------------------------------------------
(* Directory contents: pages of entries. *)

Has(ps, n) == \E k \in DOMAIN ps : n \in DOMAIN ps[k]
PageOf(ps, n) == CHOOSE k \in DOMAIN ps : n \in DOMAIN ps[k]
Find(ps, n) == ps[PageOf(ps, n)][n]
IsEmpty(ps) == \A k \in DOMAIN ps : DOMAIN ps[k] = {}

Rooms(ps) == {k \in DOMAIN ps : Cardinality(DOMAIN ps[k]) < PageCap}

\* The page add puts an entry on: the first with room, or a new one.
Slot(ps) ==
    IF Rooms(ps) = {} THEN Len(ps) + 1
    ELSE CHOOSE k \in Rooms(ps) : \A j \in Rooms(ps) : k <= j

With(page, n, i) ==
    [m \in DOMAIN page \cup {n} |-> IF m = n THEN i ELSE page[m]]

Without(page, n) == [m \in DOMAIN page \ {n} |-> page[m]]

\* A working copy (CachedDir): the directory's inode, its pages and the pages
\* changed since it was checked out.
Add(h, n, i) ==
    LET p == Slot(h.pages)
        old == IF p \in DOMAIN h.pages THEN h.pages[p] ELSE <<>>
        new == With(old, n, i)
    IN [h EXCEPT !.pages = IF p \in DOMAIN @ THEN [@ EXCEPT ![p] = new]
                           ELSE Append(@, new),
                 !.dirty = @ \cup {p}]

Del(h, n) ==
    LET p == PageOf(h.pages, n)
    IN [h EXCEPT !.pages = [@ EXCEPT ![p] = Without(h.pages[p], n)],
                 !.dirty = @ \cup {p}]

----------------------------------------------------------------------------
(* The resident cache. *)

Cached(c, d) == \E k \in DOMAIN c : c[k].id = d
PlaceIn(c, d) == CHOOSE k \in DOMAIN c : c[k].id = d
PagesIn(c, d) == c[PlaceIn(c, d)].pages

\* evict_dir: the others keep their order.
Drop(c, d) ==
    IF Cached(c, d)
    THEN [j \in 1 .. Len(c) - 1 |-> IF j < PlaceIn(c, d) THEN c[j] ELSE c[j + 1]]
    ELSE c

\* insert: the entry becomes the most recently used one; a full cache loses
\* its least recently used entry.
Insert(c, d, ps) ==
    LET kept == IF ~Cached(c, d) /\ Len(c) >= CacheCap THEN Tail(c)
                ELSE Drop(c, d)
    IN Append(kept, [id |-> d, pages |-> ps])

\* cache_peek: a hit is touched, a miss is loaded from the table.
Peek(c, d) ==
    Insert(c, d, IF Cached(c, d) THEN PagesIn(c, d) ELSE ino[d].pages)

\* checkout_dir takes a resident copy as it is; a miss loads the directory,
\* which must be one.
CanCheckout(d) == Cached(cache, d) \/ ino[d].kind = "dir"

Checkout(d) ==
    [in |-> ino[d],
     pages |-> IF Cached(cache, d) THEN PagesIn(cache, d) ELSE ino[d].pages,
     dirty |-> {}]

----------------------------------------------------------------------------
(* Storing a directory. *)

\* Slip: the stored file is truncated before its dirty pages are written.
MergedTruncated(h, done) ==
    [k \in 1 .. Len(h.pages) |-> IF k \in done THEN h.pages[k] ELSE <<>>]

\* The stored pages once the pages in done were written: write_at_locked
\* starts from the block map of the checked-out inode.
Merged(h, done) ==
    [k \in 1 .. (IF \E p \in done : p > Len(h.in.pages) THEN Len(h.pages)
                 ELSE Len(h.in.pages)) |->
        IF k \in done THEN h.pages[k] ELSE h.in.pages[k]]

\* Every page write ends by putting the checked-out inode into the table.
PutDir(t, d, h, done) ==
    IF done = {} THEN t
    ELSE [t EXCEPT ![d] = [h.in EXCEPT !.pages = Merged(h, done)]]

\* flush_dir writes the dirty pages in the order of a hash set.  On a full
\* device it may stop with some of them done; and while it writes a page
\* after those in mid, bs_write may commit the metadata as it is then.
Flushes(t, img, nx, d, h) ==
    UNION {{[ino |-> PutDir(t, d, h, done), image |-> im, ok |-> done = h.dirty] :
            im \in {img} \cup {[ino |-> PutDir(t, d, h, mid), next |-> nx] :
                               mid \in IF NoSpace THEN (SUBSET done) \ {h.dirty}
                                       ELSE {}}} :
           done \in IF NoSpace THEN SUBSET h.dirty ELSE {h.dirty}}

\* Slip: the working copy becomes resident before it is stored.
ReturnedAnyway(c, d, h, ok) == Insert(c, d, h.pages)

\* commit_dir: a directory whose flush succeeded becomes resident again, a
\* failed one stays out of the cache.
Returned(c, d, h, ok) == IF ok THEN Insert(c, d, h.pages) ELSE c

\* bs_write on its own: the images it can leave behind, and whether it can
\* fail.
MidImages(t, img, nx) ==
    {img} \cup (IF NoSpace THEN {[ino |-> t, next |-> nx]} ELSE {})

----------------------------------------------------------------------------
(* Inodes. *)

\* The part of the mounted filesystem that reclaim changes.
Ram == [ino |-> ino, free |-> free, cache |-> cache]

\* Slip: the slot keeps its block map.
ReclaimedUnblanked(r, id, gen) ==
    [ino |-> [r.ino EXCEPT ![id].gen = gen + 1, ![id].nlink = 0],
     free |-> Append(r.free, id),
     cache |-> Drop(r.cache, id)]

\* reclaim: evict the directory, release the data, blank the slot under the
\* next generation, and make the id available.
Reclaimed(r, id, gen) ==
    [ino |-> [r.ino EXCEPT ![id] = Blank(gen + 1)],
     free |-> Append(r.free, id),
     cache |-> Drop(r.cache, id)]

Less(n) == IF n > 0 THEN n - 1 ELSE 0
LinkLost(in) == [in EXCEPT !.nlink = Less(@)]

\* Slip: open handles are not looked at.
DropLinkOpen(r, id, in) ==
    IF Less(in.nlink) = 0 THEN Reclaimed(r, id, in.gen)
    ELSE [r EXCEPT !.ino = [@ EXCEPT ![id] = LinkLost(in)]]

\* One name of inode id is gone, whose inode was in: the inode goes with its
\* last name unless a handle keeps it.
DropLink(r, id, in) ==
    IF Less(in.nlink) = 0 /\ opens[id] = 0
    THEN Reclaimed(r, id, in.gen)
    ELSE [r EXCEPT !.ino = [@ EXCEPT ![id] = LinkLost(in)]]

\* Slip: the error of commit_dir is ignored.
UnlinkRestAnyway(r, id, in, ok) == DropLink(r, id, in)

\* unlink goes on to the inode only once the directory is stored.
UnlinkRest(r, id, in, ok) == IF ok THEN DropLink(r, id, in) ELSE r

Becomes(r) == ino' = r.ino /\ free' = r.free /\ cache' = r.cache

\* alloc_inode: a reclaimed id if there is one, else the next unused slot.
CanAlloc == free # <<>> \/ next < InodeCap
NewId == IF free # <<>> THEN free[Len(free)] ELSE next
FreeAfter == IF free # <<>> THEN SubSeq(free, 1, Len(free) - 1) ELSE free

NextAfter == IF free # <<>> THEN next ELSE next + 1

\* The slots without a link among the first n, in order.
Scanned(t, n) ==
    LET scan[k \in 0 .. n] ==
            IF k = 0 THEN <<>>
            ELSE IF t[k - 1].nlink = 0 THEN Append(scan[k - 1], k - 1)
            ELSE scan[k - 1]
    IN scan[n]

\* Slip: the last slot is not scanned.
ZeroLinksShort(t, n) == Scanned(t, n - 1)

\* rebuild_free_inodes
ZeroLinks(t, n) == Scanned(t, n)

Entries(t) ==
    {<<x[1], x[2], Find(t[x[1]].pages, x[2])>> :
        x \in {y \in Ids \X Names : Has(t[y[1]].pages, y[2])}}

Named(id) == \E e \in Entries(ino) : e[3] = id
Open(id) == \E h \in Handles : handles[h] # None /\ handles[h][1] = id

----------------------------------------------------------------------------
(* Operations. *)

NoChange == UNCHANGED <<ino, next, free, opens, image, held, handles>>

\* An operation that ends with an error after checking directory d out: the
\* working copy is dropped with its cache entry.
Fails(d) == cache' = Drop(cache, d) /\ NoChange

\* format, on a new device.
Init ==
    /\ ino = [id \in Ids |->
                IF id = Root THEN [Blank(0) EXCEPT !.kind = "dir", !.nlink = 2]
                ELSE Blank(0)]
    /\ next = 1
    /\ free = <<>>
    /\ opens = [id \in Ids |-> 0]
    /\ cache = <<>>
    /\ image = [ino |-> ino, next |-> next]
    /\ held = None
    /\ handles = [h \in Handles |-> None]

\* lookup, and the readdir family, go through cache_peek.
Lookup(d, n) ==
    /\ "lookup" \in Ops
    /\ CanCheckout(d)
    /\ cache' = Peek(cache, d)
    /\ LET ps == Checkout(d).pages
       IN held' = IF Races /\ Has(ps, n) THEN <<Find(ps, n), ino[Find(ps, n)].gen>>
                  ELSE None
    /\ UNCHANGED <<ino, next, free, opens, image, handles>>

\* create_node up to the end of its commit_dir: the outcomes.
Nodes(d, n, kind) ==
    LET id == NewId
        child == [Blank(ino[id].gen) EXCEPT !.kind = kind,
                                            !.nlink = IF kind = "dir" THEN 2 ELSE 1]
        t == [ino EXCEPT ![id] = child]
        h == Add(Checkout(d), n, id)
        g == IF kind = "dir" THEN [h EXCEPT !.in.nlink = @ + 1] ELSE h
    IN {[f |-> f, h |-> g] : f \in Flushes(t, image, NextAfter, d, g)}

CanCreate(d, n) == ~Has(Checkout(d).pages, n) /\ CanAlloc

\* Bound on the number of times an id is reused.
Reusable == CanAlloc => ino[NewId].gen <= MaxGen

\* mkdir and create; the checked-out directory is lost on Exists and NoInodes.
Create(d, n, kind) ==
    /\ kind \in Ops /\ Reusable
    /\ CanCheckout(d)
    /\ \/ ~CanCreate(d, n) /\ Fails(d)
       \/ /\ CanCreate(d, n)
          /\ \E o \in Nodes(d, n, kind) :
                /\ ino' = o.f.ino /\ image' = o.f.image
                /\ cache' = Returned(Drop(cache, d), d, o.h, o.f.ok)
          /\ next' = NextAfter /\ free' = FreeAfter
          /\ UNCHANGED <<opens, held, handles>>

\* symlink: create_node, then set_data with the target path; each may fail.
Symlink(d, n) ==
    /\ "link" \in Ops /\ Reusable
    /\ CanCheckout(d)
    /\ \/ ~CanCreate(d, n) /\ Fails(d)
       \/ /\ CanCreate(d, n)
          /\ \E o \in Nodes(d, n, "link") :
                /\ \/ ~o.f.ok /\ ino' = o.f.ino /\ image' = o.f.image
                   \/ /\ o.f.ok
                      /\ image' \in MidImages(o.f.ino, o.f.image, NextAfter)
                      /\ \/ ino' = [o.f.ino EXCEPT ![NewId].data = TRUE]
                         \/ NoSpace /\ ino' = o.f.ino
                /\ cache' = Returned(Drop(cache, d), d, o.h, o.f.ok)
          /\ next' = NextAfter /\ free' = FreeAfter
          /\ UNCHANGED <<opens, held, handles>>

\* write_file, write_at, append and truncate, as far as the inode goes: it
\* holds data or, truncated to nothing, none (which stores no record).
SetData(id, data) ==
    /\ "write" \in Ops
    /\ Named(id) \/ Open(id)
    /\ ino[id].kind = "file"
    /\ image' \in IF data THEN MidImages(ino, image, next) ELSE {image}
    /\ \/ ino' = [ino EXCEPT ![id].data = data]
       \/ NoSpace /\ data /\ ino' = ino
    /\ UNCHANGED <<next, free, opens, cache, held, handles>>

Unlink(d, n) ==
    /\ "unlink" \in Ops
    /\ CanCheckout(d)
    /\ LET h == Checkout(d)
           id == Find(h.pages, n)
           found == Has(h.pages, n) /\ ino[id].kind # "dir"
       IN \/ ~found /\ Fails(d)
          \/ /\ found /\ ino[id].gen <= MaxGen
             /\ \E f \in Flushes(ino, image, next, d, Del(h, n)) :
                   LET r == [Ram EXCEPT !.ino = f.ino,
                                !.cache = Returned(Drop(cache, d), d, Del(h, n), f.ok)]
                   IN /\ Becomes(UnlinkRest(r, id, ino[id], f.ok))
                      /\ image' = f.image
             /\ UNCHANGED <<next, opens, held, handles>>

LoseSubdir(h) == [h EXCEPT !.in.nlink = Less(@)]

Rmdir(d, n) ==
    /\ "rmdir" \in Ops
    /\ CanCheckout(d)
    /\ LET h == Checkout(d)
           id == Find(h.pages, n)
           found == Has(h.pages, n) /\ ino[id].kind = "dir" /\ IsEmpty(ino[id].pages)
           g == LoseSubdir(Del(h, n))
       IN \/ ~found /\ Fails(d)
          \/ /\ found
             /\ \E f \in Flushes(ino, image, next, d, g) :
                   LET r == [Ram EXCEPT !.ino = f.ino,
                                !.cache = Returned(Drop(cache, d), d, g, f.ok)]
                   IN /\ Becomes(IF f.ok THEN Reclaimed(r, id, ino[id].gen) ELSE r)
                      /\ image' = f.image
             /\ UNCHANGED <<next, opens, held, handles>>

Linked(id) == [ino EXCEPT ![id].nlink = @ + 1]

\* link: the count is raised before the entry is stored.  The kernel links
\* only inodes it has a name or an open file for.
Link(d, n, id) ==
    /\ "hardlink" \in Ops
    /\ Named(id) \/ Open(id)
    /\ ino[id].kind # "dir" /\ ino[id].nlink < MaxLinks
    /\ CanCheckout(d)
    /\ LET h == Checkout(d)
           g == Add(h, n, id)
       IN \/ Has(h.pages, n) /\ Fails(d)
          \/ /\ ~Has(h.pages, n)
             /\ \E f \in Flushes(Linked(id), image, next, d, g) :
                   /\ ino' = f.ino /\ image' = f.image
                   /\ cache' = Returned(Drop(cache, d), d, g, f.ok)
             /\ UNCHANGED <<next, free, opens, held, handles>>

Children(t, d) ==
    {Find(t[d].pages, n) : n \in {m \in Names : Has(t[d].pages, m)}}

\* dir_subtree_contains: the inodes a walk down from root meets; only
\* directories have children.
Subtree(t, root) ==
    LET walk[k \in 0 .. InodeCap] ==
            IF k = 0 THEN {root}
            ELSE walk[k - 1] \cup
                 UNION {Children(t, d) : d \in {x \in walk[k - 1] : t[x].kind = "dir"}}
    IN walk[InodeCap]

\* Slip: only the directory itself is refused as its new parent.
LoopsShallow(d, id, e) == e = id

\* rename refuses to move a directory below itself.
Loops(d, id, e) ==
    \/ e = id
    \/ d # e /\ ino[id].kind = "dir" /\ e \in Subtree(ino, id)

\* The kinds of rename a call is: of a directory between parents, onto a
\* directory.
RenameOps(d, id, e, m) ==
    {"rename"}
    \cup (IF d # e /\ ino[id].kind = "dir" THEN {"move_dir"} ELSE {})
    \cup (IF \E x \in Entries(ino) : x[1] = e /\ x[2] = m /\ ino[x[3]].kind = "dir"
          THEN {"replace_dir"} ELSE {})

\* rename_overwrite: the inode at the destination loses a link, and its name
\* leaves the working copy.
Unlinked(r, h, m) ==
    IF Has(h.pages, m)
    THEN DropLink(r, Find(h.pages, m), ino[Find(h.pages, m)]) ELSE r

Cleared(h, m) == IF Has(h.pages, m) THEN Del(h, m) ELSE h

\* Both edits land on one working copy.
RenameWithin(d, n, m, id) ==
    LET h == Checkout(d)
        g == Del(Add(Cleared(h, m), m, id), n)
        r == Unlinked([Ram EXCEPT !.cache = Drop(@, d)], h, m)
    IN \E f \in Flushes(r.ino, image, next, d, g) :
          /\ Becomes([r EXCEPT !.ino = f.ino, !.cache = Returned(@, d, g, f.ok)])
          /\ image' = f.image

\* Two working copies are stored one after the other; the second is not
\* tried when the first fails.
StoreTwo(r, x, hx, y, hy) ==
    \E f \in Flushes(r.ino, image, next, x, hx) :
        \/ /\ ~f.ok
           /\ Becomes([r EXCEPT !.ino = f.ino])
           /\ image' = f.image
        \/ /\ f.ok
           /\ \E k \in Flushes(f.ino, f.image, next, y, hy) :
                 /\ Becomes([r EXCEPT !.ino = k.ino,
                               !.cache = Returned(Returned(@, x, hx, TRUE), y, hy, k.ok)])
                 /\ image' = k.image

\* Slip: the source is stored first.
StoreSourceFirst(r, e, dh, d, sh) == StoreTwo(r, d, sh, e, dh)

StoreRenamed(r, e, dh, d, sh) == StoreTwo(r, e, dh, d, sh)

\* The destination is stored first, then the source.
RenameAcross(d, n, e, m, id) ==
    StoreRenamed(Unlinked([Ram EXCEPT !.cache = Drop(Drop(@, d), e)], Checkout(e), m),
                 e, Add(Cleared(Checkout(e), m), m, id),
                 d, Del(Checkout(d), n))

Rename(d, n, e, m) ==
    /\ CanCheckout(d)
    /\ LET h == Checkout(d)
           id == Find(h.pages, n)
           found == Has(h.pages, n)
           onto == Checkout(e).pages
           self == Has(onto, m) /\ Find(onto, m) = id
           moves == found /\ ~Loops(d, id, e) /\ CanCheckout(e)
       IN /\ IF found THEN RenameOps(d, id, e, m) \subseteq Ops ELSE "rename" \in Ops
          /\ Has(onto, m) => ino[Find(onto, m)].gen <= MaxGen
          /\ \/ ~moves /\ Fails(d)
             \/ /\ moves /\ self
                /\ cache' = Drop(Drop(cache, d), e)
                /\ NoChange
             \/ /\ moves /\ ~self /\ d = e
                /\ RenameWithin(d, n, m, id)
                /\ UNCHANGED <<next, opens, held, handles>>
             \/ /\ moves /\ ~self /\ d # e
                /\ RenameAcross(d, n, e, m, id)
                /\ UNCHANGED <<next, opens, held, handles>>

\* open takes an id that a lookup returned.  With races that was a request of
\* its own, some time ago; without, the file still has its name.
OpenFile(h, id, gen) ==
    /\ "open" \in Ops
    /\ handles[h] = None
    /\ IF Races THEN held = <<id, gen>> ELSE Named(id) /\ ino[id].gen = gen
    /\ ino[id].kind = "file" /\ ino[id].gen <= MaxGen
    /\ opens' = [opens EXCEPT ![id] = @ + 1]
    /\ handles' = [handles EXCEPT ![h] = <<id, gen>>]
    /\ held' = None
    /\ UNCHANGED <<ino, next, free, cache, image>>

\* The file was unlinked while open, and this was the last handle.
Dead(id, left) == left = 0 /\ ino[id].nlink = 0

Close(h) ==
    /\ handles[h] # None
    /\ LET id == handles[h][1]
           left == Less(opens[id])
       IN /\ opens' = [opens EXCEPT ![id] = left]
          /\ Becomes(IF Dead(id, left)
                     THEN Reclaimed(Ram, id, ino[id].gen) ELSE Ram)
    /\ handles' = [handles EXCEPT ![h] = None]
    /\ UNCHANGED <<next, image, held>>

\* commit, fsync
Commit ==
    /\ "commit" \in Ops
    /\ image' = [ino |-> ino, next |-> next]
    /\ UNCHANGED <<ino, next, free, opens, cache, held, handles>>

\* Slip: resident directories survive the mount.
RemountKeepsCache ==
    /\ "commit" \in Ops
    /\ ino' = image.ino /\ next' = image.next
    /\ free' = ZeroLinks(image.ino, image.next)
    /\ opens' = [id \in Ids |-> 0]
    /\ cache' = cache
    /\ held' = None
    /\ handles' = [h \in Handles |-> None]
    /\ UNCHANGED image

\* A crash, or an unmount without a commit, and the next mount.
Remount ==
    /\ "commit" \in Ops
    /\ ino' = image.ino /\ next' = image.next
    /\ free' = ZeroLinks(image.ino, image.next)
    /\ opens' = [id \in Ids |-> 0]
    /\ cache' = <<>>
    /\ held' = None
    /\ handles' = [h \in Handles |-> None]
    /\ UNCHANGED image

\* set_dir_cache(true): a new, empty cache.
ResetCache ==
    /\ "lookup" \in Ops
    /\ cache' = <<>>
    /\ NoChange

Next ==
    \/ \E d \in Ids, n \in Names :
          \/ Lookup(d, n)
          \/ \E kind \in {"file", "dir"} : Create(d, n, kind)
          \/ Symlink(d, n)
          \/ Unlink(d, n)
          \/ Rmdir(d, n)
          \/ \E id \in Ids : Link(d, n, id)
          \/ \E e \in Ids, m \in Names : Rename(d, n, e, m)
    \/ \E id \in Ids, data \in BOOLEAN : SetData(id, data)
    \/ \E h \in Handles :
          \/ \E id \in Ids, gen \in 0 .. MaxGen : OpenFile(h, id, gen)
          \/ Close(h)
    \/ Commit \/ Remount \/ ResetCache

Spec == Init /\ [][Next]_vars

----------------------------------------------------------------------------
(* Properties. *)

NamesOf(t, id) == {e \in Entries(t) : e[3] = id}
Subdirs(t, d) == {e \in Entries(t) : e[1] = d /\ t[e[3]].kind = "dir"}

\* A resident directory is what the table stores, and is one directory: no
\* failure, rename, reclaim or reuse of an id leaves a stale copy.
CacheMirrors ==
    /\ \A k \in DOMAIN cache :
          /\ ino[cache[k].id].kind = "dir"
          /\ cache[k].pages = ino[cache[k].id].pages
    /\ \A j, k \in DOMAIN cache : cache[j].id = cache[k].id => j = k
    /\ Len(cache) <= CacheCap

\* Link counts are exact: a file counts its names, a directory itself, its
\* name and the ".." of each subdirectory (create_node, rmdir).
LinksExact ==
    \A id \in Ids :
        ino[id].nlink = IF ino[id].kind = "dir" THEN 2 + Cardinality(Subdirs(ino, id))
                        ELSE Cardinality(NamesOf(ino, id))

\* A file never has more names than its link count says, in RAM or in the
\* committed snapshot: unlinking one name cannot free a file that has another.
NamesCounted ==
    \A t \in {ino, image.ino} : \A id \in Ids :
        t[id].kind # "dir" => Cardinality(NamesOf(t, id)) <= t[id].nlink

\* The reuse stack holds each id at most once, and no id a name or a handle
\* still refers to (alloc_inode, reclaim, rebuild_free_inodes).
FreeUnused ==
    /\ \A j, k \in DOMAIN free : free[j] = free[k] => j = k
    /\ \A k \in DOMAIN free :
          free[k] # Root /\ ~Named(free[k]) /\ ~Open(free[k])

\* A file without a name holds data only while a handle keeps it open, or because
\* the last commit made it durable like that and a mount brought it back: unlink,
\* rename over it, and the last close give everything back (reclaim).
NoDeadData ==
    \A id \in Ids : ino[id].kind # "dir" /\ ino[id].data /\ ino[id].nlink = 0 =>
        Open(id) \/ ino[id] = image.ino[id]

\* Every inode in use can be reached from the root, or is a file that only
\* open handles keep; and a directory has one parent.
Connected ==
    \A id \in 0 .. next - 1 :
        \/ \E k \in DOMAIN free : free[k] = id
        \/ Open(id) /\ ino[id].nlink = 0
        \/ /\ id \in Subtree(ino, Root)
           /\ ino[id].kind = "dir" /\ id # Root => Cardinality(NamesOf(ino, id)) = 1

\* What an fsck would look for: resident directories, link counts, the reuse
\* stack and the shape of the tree agree with each other, whatever sequence of
\* operations, commits and mounts led here.
Consistent == TypeOK /\ CacheMirrors /\ LinksExact /\ FreeUnused /\ Connected

\* No directory lies below itself.
NoDirLoop ==
    \A d \in Ids : ino[d].kind = "dir" =>
        \A c \in Children(ino, d) : d \notin Subtree(ino, c)

\* No slot is in use for the second time.
NothingReused == \A id \in Ids : ino[id].gen > 0 => ino[id] = Blank(ino[id].gen)

\* No directory lies below itself, also after renames that were done by half, as
\* long as no inode id was used again: dir_subtree_contains, which has no other end,
\* always ends.  (A rename that fails after reclaiming its target and is tried again
\* puts the target's id on the reuse stack twice.)
NoLoop == NothingReused => NoDirLoop

\* A handle refers to the file its caller looked up for as long as it is open,
\* with or without names, and open_count counts the handles.
HandleKeepsFile ==
    /\ \A h \in Handles : handles[h] # None =>
          /\ ino[handles[h][1]].kind = "file"
          /\ ino[handles[h][1]].gen = handles[h][2]
    /\ \A id \in Ids :
          opens[id] = Cardinality({h \in Handles : handles[h] # None /\ handles[h][1] = id})

\* A file that has a name and is not being removed has a name in every snapshot
\* committed meanwhile, so that a crash cannot lose it.
CommitKeepsNames ==
    [][\A x \in Entries(ino) :
         LET in == image'.ino[x[3]]
         IN image' # image /\ in.nlink > 0 /\ in.gen = ino[x[3]].gen
                => NamesOf(image'.ino, x[3]) # {}]_vars

\* A rename of x to another directory leaves the inode a name, in RAM and in every
\* snapshot committed meanwhile, wherever it fails: the destination is stored before
\* the source.  (Reuse of ids is excluded as for NoLoop.)
MoveKeepsName ==
    [][NothingReused =>
         \A x \in Entries(ino), t \in {ino', image'.ino} \ {image.ino} :
            NamesOf(t, x[3]) = {} =>
                ~ \E e \in Ids \ {x[1]}, m \in Names : Rename(x[1], x[2], e, m)]_vars

\* Every operation changes the names as a whole or not at all, and what a
\* crash returns to is a namespace the filesystem had.
Tree == INSTANCE NameTree WITH
            tree <- Entries(ino), durable <- Entries(image.ino)

ImplementsNameTree == Tree!Spec
=============================================================================
