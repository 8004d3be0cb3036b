---------------------------- MODULE FuseSession ----------------------------
(***************************************************************************)
(* The FUSE binding (bloomfs-fuse) over one directory and its children.    *)
(*                                                                         *)
(* The session loop hands requests to the binding one at a time, so that a *)
(* request is one action; what interleaves are the requests of different   *)
(* processes: a directory is listed by several readdir calls, and a file   *)
(* is opened, used and released by several, while others change both.      *)
(*                                                                         *)
(* The filesystem below is kept to what the handlers call: names, link     *)
(* counts, pins and reclaim (Namespace has its pages, caches and faults).  *)
(* A request it refuses, or that finds no space before it has changed      *)
(* anything (write, setattr, unlink, rmdir), is left out.  A create, link  *)
(* or rename whose directory cannot be stored has changed inodes already:  *)
(* it leaves a file whose link count and names differ, and `torn' keeps    *)
(* the inodes this has happened to.                                        *)
(***************************************************************************)
EXTENDS Naturals, Sequences, FiniteSets, SequencesExt

CONSTANTS
    Names,
    Ids,       \* inodes besides the directory's own
    MaxFh,     \* bound: file and directory handles given out
    MaxGen,    \* bound: reuses of an inode
    MaxFails,  \* bound: requests that fail half way
    Buffer,    \* how many rows a readdir reply has room for
    None

ASSUME SessionAssumption ==
    /\ MaxFh \in Nat /\ MaxGen \in Nat /\ MaxFails \in Nat
    /\ Buffer \subseteq Nat \ {0} /\ Buffer # {}
    /\ IsFiniteSet(Names) /\ {".", ".."} \cap Names = {}

VARIABLES
    dir,          \* the entries of the directory, in page order
    ino,          \* the inode table
    free,         \* reclaimed inodes
    opens,        \* open_count
    handles,      \* the binding's file handles
    dirHandles,   \* its frozen listings
    nextFh,
    scans,        \* the readers: where each is, the names it got, the names it got
                  \* again, and the names that were there all along
    fails,        \* requests that failed half way
    torn          \* history: the inodes they left with the wrong link count

vars == <<dir, ino, free, opens, handles, dirHandles, nextFh, scans, fails, torn>>
names == <<dir, ino, free>>
sessions == <<handles, dirHandles, nextFh>>
faults == <<fails, torn>>

Fhs == 1 .. MaxFh

Entry == [name : Names, id : Ids]

Inode == [kind : {"none", "file", "dir"}, nlink : Nat, gen : 0 .. MaxGen, size : {0, 1}]

Row == Names \cup {".", ".."}

Scan == [cookie : Nat, got : SUBSET Row, again : SUBSET Row, stayed : SUBSET Names,
         done : BOOLEAN]

ASSUME SessionSentinel == None \notin Ids \cup Scan /\ None \notin Seq(Row)

\* The handles, listings, counters and inodes have their types, and a number is
\* never both a file handle and a directory handle.
TypeOK ==
    /\ dir \in Seq(Entry) /\ ino \in [Ids -> Inode] /\ free \subseteq Ids
    /\ opens \in [Ids -> 0 .. MaxFh]
    /\ nextFh \in 1 .. MaxFh + 1
    /\ handles \in [Fhs -> Ids \cup {None}]
    /\ dirHandles \in [Fhs -> Seq(Row) \cup {None}]
    /\ scans \in [Fhs -> Scan \cup {None}]
    /\ \A fh \in Fhs : dirHandles[fh] # None => handles[fh] = None /\ fh < nextFh
    /\ fails \in 0 .. MaxFails /\ torn \subseteq Ids

----------------------------------------------------------------------------
(* The filesystem. *)

Blank(g) == [kind |-> "none", nlink |-> 0, gen |-> g, size |-> 0]

Listed == {dir[k].name : k \in DOMAIN dir}

\* del takes the entry out of its page at the place where it stands.
Place(d, n) == CHOOSE k \in DOMAIN d : d[k].name = n
Without(d, n) == IF \E k \in DOMAIN d : d[k].name = n THEN RemoveAt(d, Place(d, n)) ELSE d

Target(n) == dir[Place(dir, n)].id

\* Inodes the kernel has a reference to: by name, or by an open file.
Known == {dir[k].id : k \in DOMAIN dir} \cup {id \in Ids : opens[id] > 0}

\* reclaim blanks the slot for the next generation and offers it for reuse.
Reclaim(id) ==
    /\ ino[id].gen < MaxGen
    /\ ino' = [ino EXCEPT ![id] = Blank(@.gen + 1)]
    /\ free' = free \cup {id}

LinksLeft(id) == IF ino[id].nlink > 0 THEN ino[id].nlink - 1 ELSE 0

\* Slip: a handle does not keep an unlinked file.
DropLinkUnpinned(id, pins) ==
    \/ LinksLeft(id) = 0 /\ Reclaim(id)
    \/ LinksLeft(id) # 0 /\ ino' = [ino EXCEPT ![id].nlink = LinksLeft(id)] /\ UNCHANGED free

\* The inode loses a name, and is reclaimed with the last one if nothing pins it.
DropLink(id, pins) ==
    \/ LinksLeft(id) = 0 /\ pins = 0 /\ Reclaim(id)
    \/ /\ ~(LinksLeft(id) = 0 /\ pins = 0)
       /\ ino' = [ino EXCEPT ![id].nlink = LinksLeft(id)]
       /\ UNCHANGED free

\* Slip: a file that was unlinked while open is not reclaimed.
ClosePinOnly(id, pins) ==
    /\ opens' = [opens EXCEPT ![id] = pins - 1]
    /\ UNCHANGED <<ino, free>>

\* FS::close drops one of the pins; the last one of a file without names
\* reclaims it.
ClosePin(id, pins) ==
    /\ opens' = [opens EXCEPT ![id] = pins - 1]
    /\ \/ pins = 1 /\ ino[id].nlink = 0 /\ Reclaim(id)
       \/ ~(pins = 1 /\ ino[id].nlink = 0) /\ UNCHANGED <<ino, free>>

\* Names of the directory are gone: readers can no longer count on them.
Forget(gone) ==
    scans' = [fh \in Fhs |->
        IF scans[fh] = None THEN None ELSE [scans[fh] EXCEPT !.stayed = @ \ gone]]

\* A request fails half way, and leaves these inodes in disorder.
Tear(ids) == fails < MaxFails /\ fails' = fails + 1 /\ torn' = torn \cup ids

----------------------------------------------------------------------------
(* Requests on names. *)

\* create_node writes the inode first ...
NewInode(id, kind) ==
    /\ id \in free /\ free' = free \ {id}
    /\ ino' = [ino EXCEPT ![id] = [kind |-> kind, nlink |-> IF kind = "dir" THEN 2 ELSE 1,
                                   gen |-> @.gen, size |-> 0]]

\* ... and then stores the directory with its name.
NewNode(n, id, kind) ==
    /\ n \notin Listed /\ NewInode(id, kind)
    /\ dir' = Append(dir, [name |-> n, id |-> id])
    /\ UNCHANGED faults

\* The directory cannot be stored: the inode is in use, without a name.
NewNodeFails(n, id, kind) ==
    /\ n \notin Listed /\ NewInode(id, kind)
    /\ Tear({id})
    /\ UNCHANGED <<dir, opens, sessions, scans>>

Mkdir(n, id) == NewNode(n, id, "dir") /\ UNCHANGED <<opens, sessions, scans>>

\* insert_handle: file and directory handles share one counter.
InsertHandle(id) ==
    /\ nextFh <= MaxFh
    /\ handles' = [handles EXCEPT ![nextFh] = id]
    /\ nextFh' = nextFh + 1
    /\ UNCHANGED dirHandles

\* create: the new file is opened in the same request.
Create(n, id) ==
    /\ NewNode(n, id, "file")
    /\ opens' = [opens EXCEPT ![id] = @ + 1]
    /\ InsertHandle(id)
    /\ UNCHANGED scans

\* link counts the new name before it is stored.  The kernel links no file that
\* has lost its last name.
Link(id, n) ==
    /\ id \in Known /\ ino[id].kind = "file" /\ ino[id].nlink > 0 /\ n \notin Listed
    /\ ino' = [ino EXCEPT ![id].nlink = @ + 1]
    /\ \/ dir' = Append(dir, [name |-> n, id |-> id]) /\ UNCHANGED faults
       \/ UNCHANGED dir /\ Tear({id})
    /\ UNCHANGED <<free, opens, sessions, scans>>

Unlink(n) ==
    /\ n \in Listed /\ ino[Target(n)].kind = "file"
    /\ DropLink(Target(n), opens[Target(n)])
    /\ dir' = Without(dir, n)
    /\ Forget({n})
    /\ UNCHANGED <<opens, sessions, faults>>

\* The children are empty; rmdir reclaims the directory with its name.
Rmdir(n) ==
    /\ n \in Listed /\ ino[Target(n)].kind = "dir"
    /\ Reclaim(Target(n))
    /\ dir' = Without(dir, n)
    /\ Forget({n})
    /\ UNCHANGED <<opens, sessions, faults>>

\* What a rename of m to n leaves when only some of its pages were stored: the
\* entries, and the inodes whose names are not those they were counted for.
\* The pages of the old n, of the new n and of m are written in page order.
Halves(m, n) ==
    LET new == [name |-> n, id |-> Target(m)]
        old == IF n \in Listed THEN {Target(n)} ELSE {}
        cut == Without(dir, n)
    IN { [dir |-> dir, torn |-> old],
         [dir |-> cut, torn |-> {}],
         [dir |-> Without(dir, m), torn |-> old \cup {Target(m)}],
         [dir |-> Without(cut, m), torn |-> {Target(m)}],
         [dir |-> Append(cut, new), torn |-> {Target(m)}] }

\* rename within the directory.  Onto a name of the same inode it does nothing;
\* another inode that the name had loses a link, before the pages are stored.
Rename(m, n) ==
    /\ m \in Listed /\ m # n
    /\ \/ n \in Listed /\ Target(n) = Target(m) /\ UNCHANGED <<names, scans, faults>>
       \/ /\ ~(n \in Listed /\ Target(n) = Target(m))
          /\ \/ n \in Listed /\ DropLink(Target(n), opens[Target(n)])
             \/ n \notin Listed /\ UNCHANGED <<ino, free>>
          /\ \/ /\ dir' = Without(Append(Without(dir, n), [name |-> n, id |-> Target(m)]), m)
                /\ UNCHANGED faults
             \/ \E half \in Halves(m, n) : dir' = half.dir /\ Tear(half.torn)
          /\ Forget({m, n})
    /\ UNCHANGED <<opens, sessions>>

----------------------------------------------------------------------------
(* Requests on files. *)

\* setattr and write go by inode, whatever the handle.
Setattr(id, size) ==
    /\ id \in Known /\ ino[id].kind = "file"
    /\ ino' = [ino EXCEPT ![id].size = size]
    /\ UNCHANGED <<dir, free, opens, sessions, scans, faults>>

Write(fh) ==
    /\ handles[fh] # None /\ ino[handles[fh]].kind = "file"
    /\ ino' = [ino EXCEPT ![handles[fh]].size = 1]
    /\ UNCHANGED <<dir, free, opens, sessions, scans, faults>>

\* Slip: the handle of a file that could not be cut off stays pinned.
OpenFailKeepsPin(id) ==
    /\ opens' = [opens EXCEPT ![id] = @ + 1]
    /\ UNCHANGED <<ino, free>>

\* The truncation of an open fails: the handle that was just taken is closed.
OpenFail(id) == ClosePin(id, opens[id] + 1)

\* open, with or without O_TRUNC; an empty file is not cut off.
Open(id, trunc) ==
    /\ id \in Known /\ ino[id].kind = "file"
    /\ \/ /\ opens' = [opens EXCEPT ![id] = @ + 1]
          /\ ino' = [ino EXCEPT ![id].size = IF trunc THEN 0 ELSE @]
          /\ InsertHandle(id)
          /\ UNCHANGED free
       \/ /\ trunc /\ ino[id].size # 0
          /\ OpenFail(id)
          /\ UNCHANGED sessions
    /\ UNCHANGED <<dir, scans, faults>>

Release(fh) ==
    /\ handles[fh] # None
    /\ handles' = [handles EXCEPT ![fh] = None]
    /\ ClosePin(handles[fh], opens[handles[fh]])
    /\ UNCHANGED <<dir, dirHandles, nextFh, scans, faults>>

\* Requests that only ask (lookup, getattr, read, access, statfs, ...), and the
\* ones that are refused.
Ask == UNCHANGED vars

----------------------------------------------------------------------------
(* Directory streams. *)

\* snapshot_dir: "." and "..", then the entries in page order.
SnapshotDir == <<".", "..">> \o [k \in DOMAIN dir |-> dir[k].name]

Opendir ==
    /\ nextFh <= MaxFh
    /\ dirHandles' = [dirHandles EXCEPT ![nextFh] = SnapshotDir]
    /\ scans' = [scans EXCEPT ![nextFh] = [cookie |-> 0, got |-> {}, again |-> {},
                                           stayed |-> Listed, done |-> FALSE]]
    /\ nextFh' = nextFh + 1
    /\ UNCHANGED <<names, opens, handles, faults>>

\* Slip: every readdir lists the directory as it is now.
RowsLive(fh) == SnapshotDir

\* The rows a readdir on fh is served from.
Rows(fh) == IF dirHandles[fh] # None THEN dirHandles[fh] ELSE SnapshotDir

\* Slip: the cookie of a row leads back to the row.
CookieAt(i) == i - 1

\* The cookie after row i resumes behind it.
Cookie(i) == i

\* readdir: the rows behind the reader's cookie, as many as the reply holds; an
\* empty reply is the end of the directory.
Readdir(fh, room) ==
    /\ scans[fh] # None /\ ~scans[fh].done
    /\ LET s == scans[fh]
           rows == Rows(fh)
           last == IF s.cookie + room < Len(rows) THEN s.cookie + room ELSE Len(rows)
           new == ToSet(SubSeq(rows, s.cookie + 1, last))
       IN scans' = [scans EXCEPT ![fh] =
              IF last <= s.cookie THEN [s EXCEPT !.done = TRUE]
              ELSE [s EXCEPT !.cookie = Cookie(last),
                             !.got = @ \cup new, !.again = @ \cup (s.got \cap new)]]
    /\ UNCHANGED <<names, opens, sessions, faults>>

Releasedir(fh) ==
    /\ scans[fh] # None
    /\ dirHandles' = [dirHandles EXCEPT ![fh] = None]
    /\ scans' = [scans EXCEPT ![fh] = None]
    /\ UNCHANGED <<names, opens, handles, nextFh, faults>>

----------------------------------------------------------------------------
Init ==
    /\ dir = <<>> /\ ino = [id \in Ids |-> Blank(0)] /\ free = Ids
    /\ opens = [id \in Ids |-> 0]
    /\ handles = [fh \in Fhs |-> None] /\ dirHandles = [fh \in Fhs |-> None]
    /\ nextFh = 1
    /\ scans = [fh \in Fhs |-> None]
    /\ fails = 0 /\ torn = {}

Read(fh) == \E room \in Buffer : Readdir(fh, room)

Next ==
    \/ \E n \in Names, id \in Ids :
          Mkdir(n, id) \/ Create(n, id) \/ \E kind \in {"file", "dir"} : NewNodeFails(n, id, kind)
    \/ \E n \in Names : Unlink(n) \/ Rmdir(n) \/ \E m \in Names : Rename(m, n)
    \/ \E id \in Ids, n \in Names : Link(id, n)
    \/ \E id \in Ids, size \in {0, 1} : Setattr(id, size)
    \/ \E id \in Ids, trunc \in BOOLEAN : Open(id, trunc)
    \/ Opendir \/ Ask
    \/ \E fh \in Fhs : Write(fh) \/ Release(fh) \/ Read(fh) \/ Releasedir(fh)

\* A process that lists a directory goes on reading until the end.
Spec == Init /\ [][Next]_vars /\ \A fh \in Fhs : WF_vars(Read(fh))

----------------------------------------------------------------------------
(* Properties. *)

\* A paginated scan returns no name twice, and when it ends it has returned
\* every name that was there all along exactly once, behind "." and "..",
\* whatever was created, removed or renamed between two readdir calls.
ScanExact ==
    \A fh \in Fhs : scans[fh] # None =>
        LET s == scans[fh]
        IN /\ s.again = {}
           /\ s.done => s.stayed \cup {".", ".."} \subseteq s.got

\* A scan comes to its end, or its stream is closed: the frozen listing cannot
\* keep a reader busy for ever, however the directory changes meanwhile.
ScanEnds == \A fh \in Fhs : scans[fh] # None ~> (scans[fh] = None \/ scans[fh].done)

\* Every pin of an inode is a handle that the kernel will release: none is left
\* over from an open that failed half way.
PinsExact == \A id \in Ids : opens[id] = Cardinality({fh \in Fhs : handles[fh] = id})

\* Handle numbers are unique among files and listings, and every pin has one.
HandlesSound == TypeOK /\ PinsExact

\* A file is reclaimed exactly when it has neither a name nor a handle: unlink,
\* rename, the last release and an open that fails agree on who does it.  This
\* holds for every inode but those a failed create, link or rename has left
\* with a wrong link count, and they take no other inode with them.
ReclaimedExactly ==
    \A id \in Ids \ torn :
        /\ id \in free => id \notin Known
        /\ ino[id].kind # "dir" /\ id \notin Known => id \in free

\* An open file keeps its inode: as long as a handle is open, the number its
\* reads and writes go by is not given to another file (unless a failed request
\* has left its link count wrong).
HandleKeepsInode ==
    [][\A fh \in Fhs : handles[fh] \notin torn \cup {None} /\ handles'[fh] = handles[fh] =>
          ino'[handles[fh]].gen = ino[handles[fh]].gen]_vars
=============================================================================
