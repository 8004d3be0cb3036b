-------------------------- MODULE CowCommitProofs --------------------------
(***************************************************************************)
(* What TLAPS proves of the commit protocol, for every set of snapshots,   *)
(* every metadata slot size and every fault of the environment.            *)
(***************************************************************************)
EXTENDS CowCommit, TLAPS

----------------------------------------------------------------------------
(* The inductive invariant. *)

\* v is the uberblock a commit on top of u (None: a format) writes.
Follows(v, u) ==
    IF u = None THEN v = FirstUber
    ELSE v = [seq |-> u.seq + 1, active_meta |-> 1 - u.active_meta]

\* u's metadata slot durably holds s, and no unsynced write targets it.
Secured(u, s) == \A a \in MetaSlot(u) : disk[a] = [snap |-> s] /\ cache[a] = None

\* A snapshot a power loss may bring back.
Allowed(s) == s \in Snapshots /\ (acked # None => s \in {acked} \cup tried)

\* The slots of an image hold uberblocks of their own parity.
Aligned(img) == \A x \in {0, 1} : Valid(img[x]) => UberSlot(img[x]) = x

DurableWhole ==
    LET u == Best(disk)
    IN  u # None => /\ cache[UberSlot(u)] = None
                    /\ \E s \in Snapshots : Secured(u, s) /\ Allowed(s)

BlankAllowed == (Best(disk) = None /\ acked # None) => None \in tried

\* An uberblock that reached the cache only: everything else is durable, and
\* the snapshot it names is complete.
OpenFlip ==
    \A x \in {0, 1} : Valid(cache[x]) =>
        /\ x = UberSlot(cache[x])
        /\ Dirty = {x}
        /\ Follows(cache[x], Best(disk))
        /\ \E s \in Snapshots : Secured(cache[x], s) /\ Allowed(s)

Memory == (ub # None \/ pc # "idle") => mem \in Snapshots

InFlight ==
    /\ pc # "idle" => next \in Uberblock /\ mem \in tried
    /\ pc \in {"metasync", "uber"} => FlipSettled /\ Follows(next, ub)
    /\ pc = "metasync" => \A a \in MetaSlot(next) : ReadBlock(a) = [snap |-> mem]
    /\ pc = "uber" => Dirty = {} /\ Secured(next, mem)
    /\ pc = "ubersync" =>
         /\ Secured(next, mem)
         /\ \/ cache[UberSlot(next)] = next
            \/ Best(disk) = next /\ Dirty = {}

SettledInv ==
    /\ Aligned(disk)
    /\ DurableWhole
    /\ BlankAllowed
    /\ OpenFlip
    /\ Memory
    /\ InFlight

\* What TypeOK needs to be inductive.
TypeInv ==
    /\ TypeOK
    /\ (ub # None \/ pc # "idle") => mem # None
    /\ pc # "idle" => next # None

IInv == TypeInv /\ (~hasty => SettledInv)

----------------------------------------------------------------------------
(* The layout. *)

LEMMA Flips == \A n \in Nat : n % 2 \in {0, 1} /\ (n + 1) % 2 = 1 - (n % 2)
OBVIOUS

LEMMA Layout ==
  ASSUME NEW u \in Uberblock
  PROVE  /\ UberSlot(u) \in {0, 1} /\ {0, 1} \subseteq Addr
         /\ MetaSlot(u) \subseteq Addr /\ MetaSlot(u) # {}
         /\ MetaSlot(u) \cap {0, 1} = {}
         /\ \A v \in Uberblock :
              v.active_meta # u.active_meta => MetaSlot(u) \cap MetaSlot(v) = {}
<1>1. UberSlot(u) \in {0, 1}
  BY Flips DEF UberSlot, Uberblock
<1>2. MetaStart(u) \in MetaSlot(u)
  BY CowAssumption DEF MetaSlot, MetaStart, meta_a, meta_b, Uberblock
<1>3. QED
  BY <1>1, <1>2, CowAssumption DEF MetaSlot, MetaStart, meta_a, meta_b, Addr, Uberblock

\* A commit's uberblock goes to the other uberblock slot and names the other
\* metadata slot.
LEMMA FollowsFacts ==
  ASSUME NEW u \in Uberblock \cup {None}, NEW v, Follows(v, u)
  PROVE  /\ v \in Uberblock
         /\ u = None => v = FirstUber
         /\ u # None => /\ v.seq = u.seq + 1 /\ UberSlot(v) = 1 - UberSlot(u)
                        /\ UberSlot(u) # UberSlot(v)
                        /\ MetaSlot(u) \cap MetaSlot(v) = {}
<1>1. v \in Uberblock
  BY DEF Follows, FirstUber, Uberblock
<1>2. CASE u = None
  BY <1>1, <1>2 DEF Follows
<1>3. CASE u # None
  <2>1. v.seq = u.seq + 1 /\ v.active_meta # u.active_meta /\ u \in Uberblock
    BY <1>3 DEF Follows, Uberblock
  <2>2. UberSlot(v) = 1 - UberSlot(u) /\ UberSlot(u) \in {0, 1}
    BY <2>1, Flips DEF UberSlot, Uberblock
  <2>3. UberSlot(u) # UberSlot(v)
    BY <2>2
  <2>4. QED
    BY <1>1, <1>3, <2>1, <2>2, <2>3, Layout
<1>4. QED
  BY <1>2, <1>3

----------------------------------------------------------------------------
(* What mount chooses. *)

LEMMA BestFacts ==
  ASSUME NEW img
  PROVE  /\ Best(img) \in Uberblock \cup {None}
         /\ Best(img) = None <=> ~Valid(img[0]) /\ ~Valid(img[1])
         /\ Best(img) # None => \E x \in {0, 1} : Best(img) = img[x]
BY CowAssumption DEF Best, Valid

LEMMA BestInSlot ==
  ASSUME NEW img, Aligned(img), Best(img) # None
  PROVE  /\ Best(img) \in Uberblock /\ UberSlot(Best(img)) \in {0, 1}
         /\ img[UberSlot(Best(img))] = Best(img)
BY BestFacts DEF Aligned, Valid

\* Damage outside the slot of the chosen uberblock changes nothing.
LEMMA BestKept ==
  ASSUME NEW d, NEW e, Aligned(d),
         \A x \in {0, 1} : \/ e[x] = d[x]
                           \/ /\ ~Valid(e[x])
                              /\ Best(d) # None => x # UberSlot(Best(d))
  PROVE  Best(e) = Best(d) /\ Aligned(e)
<1>1. Aligned(e)
  BY DEF Aligned
<1>2. CASE Best(d) = None
  BY <1>1, <1>2, BestFacts
<1>3. CASE Best(d) # None
  <2> DEFINE u == Best(d)
  <2>1. u \in Uberblock /\ UberSlot(u) \in {0, 1} /\ d[UberSlot(u)] = u
    BY <1>3, BestInSlot
  <2>2. e[UberSlot(u)] = u
    BY <1>3, <2>1
  <2>3. CASE UberSlot(u) = 0
    <3>1. d[0] = u /\ e[0] = u /\ Valid(d[0])
      BY <2>1, <2>2, <2>3 DEF Valid
    <3>2. ~(Valid(d[1]) /\ d[1].seq > d[0].seq)
      <4>1. Valid(d[1]) => d[0] # d[1]
        BY <3>1, <2>3 DEF Aligned
      <4>2. QED
        BY <3>1, <4>1 DEF Best
    <3>3. Valid(e[1]) => e[1] = d[1]
      OBVIOUS
    <3>4. QED
      BY <1>1, <3>1, <3>2, <3>3 DEF Best
  <2>4. CASE UberSlot(u) = 1
    <3>1. d[1] = u /\ e[1] = u /\ Valid(d[1])
      BY <2>1, <2>2, <2>4 DEF Valid
    <3>2. Valid(d[0]) => d[1].seq > d[0].seq
      <4>1. Valid(d[0]) => d[0] # d[1]
        BY <3>1, <2>4 DEF Aligned
      <4>2. QED
        BY <3>1, <4>1 DEF Best
    <3>3. Valid(e[0]) => e[0] = d[0]
      OBVIOUS
    <3>4. QED
      BY <1>1, <3>1, <3>2, <3>3 DEF Best
  <2>5. QED
    BY <2>1, <2>3, <2>4
<1>4. QED
  BY <1>2, <1>3

\* A flip makes mount choose the new uberblock.
LEMMA BestFlips ==
  ASSUME NEW d, NEW e, NEW v, Aligned(d), Follows(v, Best(d)),
         e[UberSlot(v)] = v,
         \A x \in {0, 1} : x # UberSlot(v) => e[x] = d[x]
  PROVE  Best(e) = v /\ Aligned(e)
<1>1. Best(d) \in Uberblock \cup {None}
  BY BestFacts
<1>2. v \in Uberblock /\ UberSlot(v) \in {0, 1}
  BY <1>1, FollowsFacts, Layout
<1>3. Aligned(e)
  BY <1>2 DEF Aligned
<1>4. CASE Best(d) = None
  <2>1. v.seq = 1 /\ UberSlot(v) = 1
    BY <1>4 DEF Follows, FirstUber, UberSlot
  <2>2. ~Valid(e[0]) /\ Valid(e[1])
    BY <1>2, <1>4, <2>1, BestFacts DEF Valid
  <2>3. QED
    BY <1>3, <2>1, <2>2 DEF Best
<1>5. CASE Best(d) # None
  <2> DEFINE u == Best(d)
  <2>1. u \in Uberblock /\ UberSlot(u) \in {0, 1} /\ d[UberSlot(u)] = u
    BY <1>5, BestInSlot
  <2>2. v.seq = u.seq + 1 /\ UberSlot(v) = 1 - UberSlot(u) /\ UberSlot(u) # UberSlot(v)
    BY <2>1, <1>5, FollowsFacts
  <2>3. e[UberSlot(u)] = u
    BY <2>1, <2>2
  <2>4. u.seq \in Nat /\ v.seq > u.seq /\ ~(u.seq > v.seq)
    BY <2>1, <2>2 DEF Uberblock
  <2>5. CASE UberSlot(u) = 0
    BY <1>2, <1>3, <2>1, <2>2, <2>3, <2>4, <2>5 DEF Best, Valid
  <2>6. CASE UberSlot(u) = 1
    BY <1>2, <1>3, <2>1, <2>2, <2>3, <2>4, <2>6 DEF Best, Valid
  <2>7. QED
    BY <2>1, <2>5, <2>6
<1>6. QED
  BY <1>4, <1>5

\* A slot that holds one snapshot whole is loaded as that snapshot.
LEMMA LoadWhole ==
  ASSUME NEW img, NEW u \in Uberblock, NEW s \in Snapshots, Holds(img, u, s)
  PROVE  Load(img, u) = s
<1>1. ASSUME NEW t \in Snapshots, Holds(img, u, t) PROVE t = s
  <2>1. PICK a \in MetaSlot(u) : TRUE
    BY Layout
  <2>2. [snap |-> t] = [snap |-> s]
    BY <1>1, <2>1 DEF Holds
  <2>3. QED
    BY <2>2
<1>2. QED
  BY <1>1 DEF Load

----------------------------------------------------------------------------
(* Types. *)

LEMMA CacheWrite ==
  ASSUME TypeOK, NEW w, WriteBlocks(w),
         \A a \in DOMAIN w : w[a] \in Uberblock \cup MetaBlock \cup {Junk}
  PROVE  /\ disk' = disk
         /\ cache' = [a \in Addr |-> IF a \in DOMAIN w THEN w[a] ELSE cache[a]]
         /\ cache' \in [Addr -> Uberblock \cup MetaBlock \cup {Junk, None}]
<1>1. DOMAIN disk = Addr
  BY DEF TypeOK
<1>2. QED
  BY <1>1 DEF WriteBlocks, TypeOK

LEMMA SyncFacts ==
  ASSUME TypeOK, Sync
  PROVE  /\ disk' = [a \in Addr |-> ReadBlock(a)]
         /\ cache' = [a \in Addr |-> None]
         /\ disk' \in [Addr -> Uberblock \cup MetaBlock \cup {Junk}]
         /\ cache' \in [Addr -> Uberblock \cup MetaBlock \cup {Junk, None}]
<1>1. DOMAIN disk = Addr
  BY DEF TypeOK
<1>2. QED
  BY <1>1 DEF Sync, Image, ReadBlock, TypeOK

LEMMA NextUberType == ub \in Uberblock => NextUber \in Uberblock /\ Follows(NextUber, ub)
BY CowAssumption DEF NextUber, Uberblock, Follows

LEMMA FirstUberType == FirstUber \in Uberblock /\ Follows(FirstUber, None)
BY DEF FirstUber, Uberblock, Follows

LEMMA ErrTypes ==
  ASSUME TypeOK, ReturnErr
  PROVE  /\ ub' \in Uberblock \cup {None} /\ mem' \in Snapshots \cup {Garbled, None}
         /\ pc' = "idle" /\ next' = None /\ result' = "err"
         /\ acked' \in Snapshots \cup {Garbled, None}
         /\ ub' = ub /\ acked' = acked
BY DEF TypeOK, ReturnErr

\* What write_snapshot, whole or failed, does to the cache: only blocks of the
\* new uberblock's metadata slot change.
LEMMA SnapshotWrites ==
  ASSUME TypeOK, NEW nx \in Uberblock, NEW s \in Snapshots \cup {Garbled},
         WriteSnapshot(nx, s) \/ WriteSnapshotErr(nx, s)
  PROVE  /\ disk' = disk
         /\ cache' \in [Addr -> Uberblock \cup MetaBlock \cup {Junk, None}]
         /\ \A a \in Addr \ MetaSlot(nx) : cache'[a] = cache[a]
         /\ WriteSnapshot(nx, s) => \A a \in MetaSlot(nx) : cache'[a] = [snap |-> s]
<1>0. MetaSlot(nx) \subseteq Addr /\ [snap |-> s] \in MetaBlock
  BY Layout DEF MetaBlock
<1>1. CASE WriteSnapshot(nx, s)
  <2> DEFINE w == [a \in MetaSlot(nx) |-> [snap |-> s]]
  <2>1. WriteBlocks(w)
    BY <1>1 DEF WriteSnapshot
  <2>2. \A a \in DOMAIN w : w[a] \in Uberblock \cup MetaBlock \cup {Junk}
    BY <1>0
  <2>3. /\ disk' = disk
        /\ cache' = [a \in Addr |-> IF a \in DOMAIN w THEN w[a] ELSE cache[a]]
        /\ cache' \in [Addr -> Uberblock \cup MetaBlock \cup {Junk, None}]
    BY <2>1, <2>2, CacheWrite
  <2>4. QED
    BY <1>0, <2>3
<1>2. CASE WriteSnapshotErr(nx, s)
  <2>1. PICK n \in 0 .. MetaBlocks - 1, torn \in {0, 1} :
          WriteBlocks([a \in MetaStart(nx) .. MetaStart(nx) + n + torn - 1 |->
                        IF a = MetaStart(nx) + n THEN Junk ELSE [snap |-> s]])
    BY <1>2 DEF WriteSnapshotErr
  <2> DEFINE w == [a \in MetaStart(nx) .. MetaStart(nx) + n + torn - 1 |->
                        IF a = MetaStart(nx) + n THEN Junk ELSE [snap |-> s]]
  <2>2. \A a \in DOMAIN w : w[a] \in Uberblock \cup MetaBlock \cup {Junk}
    BY <1>0
  <2>3. /\ disk' = disk
        /\ cache' = [a \in Addr |-> IF a \in DOMAIN w THEN w[a] ELSE cache[a]]
        /\ cache' \in [Addr -> Uberblock \cup MetaBlock \cup {Junk, None}]
    BY <2>1, <2>2, CacheWrite
  <2>4. DOMAIN w \subseteq MetaSlot(nx)
    BY CowAssumption DEF MetaSlot, MetaStart, meta_a, meta_b, Uberblock
  <2>5. ~WriteSnapshot(nx, s)
    BY <1>2 DEF WriteSnapshotErr, WriteSnapshot, ReturnErr
  <2>6. QED
    BY <2>3, <2>4, <2>5
<1>3. QED
  BY <1>1, <1>2

LEMMA TypeInit == Init => TypeInv
BY CowAssumption DEF Init, TypeInv, TypeOK

LEMMA TypeStep == TypeInv /\ [Next]_vars => TypeInv'
<1> SUFFICES ASSUME TypeInv, [Next]_vars PROVE TypeInv'
  OBVIOUS
<1> USE DEF TypeInv
<1>0. None \notin Snapshots \cup Uberblock \cup {Garbled} /\ Fresh \in Snapshots
  BY CowAssumption
<1>1. ASSUME NEW nx \in Uberblock, NEW s \in Snapshots \cup {Garbled},
             WriteSnapshot(nx, s), hasty' \in BOOLEAN
      PROVE  TypeInv'
  BY <1>0, <1>1, SnapshotWrites DEF TypeOK, WriteSnapshot
<1>2. ASSUME NEW nx \in Uberblock, NEW s \in Snapshots \cup {Garbled},
             WriteSnapshotErr(nx, s), hasty' \in BOOLEAN
      PROVE  TypeInv'
  <2>1. ReturnErr /\ tried' = tried
    BY <1>2 DEF WriteSnapshotErr
  <2>2. ub' # None => mem' # None
    BY <2>1 DEF ReturnErr
  <2>3. QED
    BY <1>2, <2>1, <2>2, SnapshotWrites, ErrTypes DEF TypeOK
<1>3. ASSUME ReturnErr, UNCHANGED <<disk, cache, tried, hasty>> PROVE TypeInv'
  <2>1. ub' # None => mem' # None
    BY <1>3 DEF ReturnErr
  <2>2. QED
    BY <1>3, <2>1, ErrTypes DEF TypeOK
<1>4. ASSUME LoseRAM, disk' \in [Addr -> Uberblock \cup MetaBlock \cup {Junk}],
             cache' \in [Addr -> Uberblock \cup MetaBlock \cup {Junk, None}]
      PROVE  TypeInv'
  BY <1>4 DEF LoseRAM, histVars, TypeOK
<1>10. CASE Mutate
  BY <1>0, <1>10 DEF Mutate, TypeOK
<1>11. CASE Commit \/ CommitWriteErr
  <2>1. NextUber \in Uberblock /\ mem \in Snapshots \cup {Garbled}
    BY <1>11, NextUberType DEF Commit, CommitWriteErr, CanCommit, TypeOK
  <2>2. hasty' \in BOOLEAN
    BY <1>11 DEF Commit, CommitWriteErr, TypeOK
  <2>3. QED
    BY <1>1, <1>2, <1>11, <2>1, <2>2 DEF Commit, CommitWriteErr
<1>12. CASE CommitMetaTooBig
  BY <1>3, <1>12 DEF CommitMetaTooBig
<1>13. CASE Format \/ FormatWriteErr
  <2>1. hasty' \in BOOLEAN
    BY <1>13 DEF Format, FormatWriteErr, TypeOK
  <2>2. QED
    BY <1>0, <1>1, <1>2, <1>13, <2>1, FirstUberType DEF Format, FormatWriteErr
<1>14. CASE SyncSnapshot
  BY <1>14, SyncFacts DEF SyncSnapshot, TypeOK
<1>15. CASE SyncSnapshotErr \/ SyncUberErr
  BY <1>3, <1>15 DEF SyncSnapshotErr, SyncUberErr
<1>16. ASSUME pc = "uber", NEW b \in Uberblock \cup {Junk},
              WriteBlocks([a \in {UberSlot(next)} |-> b])
       PROVE  /\ disk' = disk
              /\ cache' \in [Addr -> Uberblock \cup MetaBlock \cup {Junk, None}]
  BY <1>16, CacheWrite
<1>17. CASE WriteUber
  <2>1. next \in Uberblock
    BY <1>17 DEF WriteUber, TypeOK
  <2>2. QED
    BY <1>16, <1>17, <2>1 DEF WriteUber, TypeOK
<1>18. CASE WriteUberErr
  <2>1. /\ disk' = disk
        /\ cache' \in [Addr -> Uberblock \cup MetaBlock \cup {Junk, None}]
    BY <1>16, <1>18 DEF WriteUberErr, TypeOK
  <2>2. ReturnErr /\ UNCHANGED <<tried, hasty>>
    BY <1>18 DEF WriteUberErr
  <2>3. ub' # None => mem' # None
    BY <2>2 DEF ReturnErr
  <2>4. QED
    BY <2>1, <2>2, <2>3, ErrTypes DEF TypeOK
<1>19. CASE SyncUber
  BY <1>0, <1>19, SyncFacts DEF SyncUber, TypeOK
<1>20. CASE Mount
  <2>1. Best(Image) \in Uberblock
    BY <1>20, BestFacts DEF Mount
  <2>2. /\ Load(Image, Best(Image)) \in Snapshots \cup {Garbled}
        /\ Recovered(disk) \in Snapshots \cup {Garbled, None}
    BY DEF Load, Recovered
  <2>3. QED
    BY <1>0, <1>20, <2>1, <2>2 DEF Mount, TypeOK
<1>21. CASE Writeback
  <2>1. PICK a \in Addr : WritebackBlock(a)
    BY <1>21 DEF Writeback
  <2>2. /\ disk' \in [Addr -> Uberblock \cup MetaBlock \cup {Junk}]
        /\ cache' \in [Addr -> Uberblock \cup MetaBlock \cup {Junk, None}]
    BY <2>1 DEF WritebackBlock, Dirty, TypeOK
  <2>3. QED
    BY <1>21, <2>2 DEF Writeback, TypeOK
<1>22. CASE PowerLoss
  <2>1. PICK torn \in SUBSET Dirty : LosePower(torn)
    BY <1>22 DEF PowerLoss
  <2>2. DOMAIN disk = Addr
    BY DEF TypeOK
  <2>3. /\ disk' \in [Addr -> Uberblock \cup MetaBlock \cup {Junk}]
        /\ cache' \in [Addr -> Uberblock \cup MetaBlock \cup {Junk, None}]
    BY <2>1, <2>2 DEF LosePower, TypeOK
  <2>4. QED
    BY <1>4, <1>22, <2>3 DEF PowerLoss
<1>23. CASE Kill
  BY <1>4, <1>23 DEF Kill, TypeOK
<1>24. CASE UNCHANGED vars
  BY <1>24 DEF vars, TypeOK
<1>25. QED
  BY <1>10, <1>11, <1>12, <1>13, <1>14, <1>15, <1>17, <1>18, <1>19, <1>20,
     <1>21, <1>22, <1>23, <1>24 DEF Next

\* Every step of the protocol and of its environment keeps the types: what is
\* on the device is always an uberblock, a metadata block or junk.
THEOREM TypeCorrect == Spec => []TypeOK
<1>1. TypeInv => TypeOK
  BY DEF TypeInv
<1>2. QED
  BY <1>1, TypeInit, TypeStep, PTL DEF Spec

----------------------------------------------------------------------------
(* The invariant of a settled history. *)

LEMMA SettledInit == Init => SettledInv
<1> SUFFICES ASSUME Init PROVE SettledInv
  OBVIOUS
<1>1. 0 \in Addr /\ 1 \in Addr
  BY FirstUberType, Layout
<1>2. \A x \in {0, 1} : ~Valid(disk[x]) /\ ~Valid(cache[x])
  BY <1>1, CowAssumption DEF Init, Valid
<1>3. Best(disk) = None
  BY <1>2, BestFacts
<1>4. QED
  BY <1>2, <1>3 DEF Init, SettledInv, Aligned, DurableWhole, BlankAllowed,
                    OpenFlip, Memory, InFlight

\* A step that leaves the device and the history alone, and ends at rest.
LEMMA QuietStep ==
  ASSUME SettledInv, UNCHANGED <<disk, cache, acked, tried>>,
         pc' = "idle", ub' # None => mem' \in Snapshots
  PROVE  SettledInv'
BY DEF SettledInv, Aligned, DurableWhole, BlankAllowed, OpenFlip, Memory, InFlight,
       Secured, Allowed, Dirty

\* What DurableWhole says, spelled out.
LEMMA DurableFacts ==
  ASSUME TypeOK, SettledInv, Best(disk) # None
  PROVE  /\ Best(disk) \in Uberblock
         /\ UberSlot(Best(disk)) \in {0, 1}
         /\ disk[UberSlot(Best(disk))] = Best(disk)
         /\ cache[UberSlot(Best(disk))] = None
         /\ \E s \in Snapshots : Secured(Best(disk), s) /\ Allowed(s)
BY BestInSlot DEF SettledInv, DurableWhole

\* write_snapshot, whole or failed, on a settled device.
LEMMA SnapshotStep ==
  ASSUME TypeOK, SettledInv, FlipSettled, NEW nx, NEW s \in Snapshots,
         Follows(nx, ub), ub = None => mem' = s \/ mem' = None,
         ub # None => mem = s,
         WriteSnapshot(nx, s) \/ WriteSnapshotErr(nx, s)
  PROVE  SettledInv'
<1> DEFINE u == Best(disk)
<1>1. u = ub /\ ub \in Uberblock \cup {None} /\ nx \in Uberblock
  BY FollowsFacts DEF FlipSettled, TypeOK
<1>2. /\ disk' = disk
      /\ \A a \in Addr \ MetaSlot(nx) : cache'[a] = cache[a]
      /\ WriteSnapshot(nx, s) => \A a \in MetaSlot(nx) : cache'[a] = [snap |-> s]
  BY <1>1, SnapshotWrites
<1>3. ub' = ub /\ acked' = acked /\ tried \subseteq tried'
  BY DEF WriteSnapshot, WriteSnapshotErr, ReturnErr
<1>4. \A x \in {0, 1} : cache'[x] = cache[x] /\ ~Valid(cache'[x])
  BY <1>1, <1>2, Layout DEF FlipSettled
<1>5. Aligned(disk') /\ Best(disk') = ub'
  BY <1>1, <1>2, <1>3 DEF SettledInv
<1>6. DurableWhole'
  <2> SUFFICES ASSUME u # None
               PROVE  /\ cache'[UberSlot(u)] = None
                      /\ \E t \in Snapshots : Secured(u, t)' /\ Allowed(t)'
    BY <1>2 DEF DurableWhole
  <2>1. PICK t \in Snapshots : Secured(u, t) /\ Allowed(t)
    BY DurableFacts
  <2>2. MetaSlot(u) \subseteq Addr \ MetaSlot(nx)
    BY <1>1, FollowsFacts, Layout
  <2>3. Secured(u, t)' /\ Allowed(t)'
    BY <1>2, <1>3, <2>1, <2>2 DEF Secured, Allowed
  <2>4. QED
    BY <1>4, <2>3, DurableFacts
<1>7. BlankAllowed'
  BY <1>2, <1>3 DEF SettledInv, BlankAllowed
<1>8. OpenFlip'
  BY <1>4 DEF OpenFlip
<1>9. Memory' /\ InFlight'
  <2>1. CASE WriteSnapshot(nx, s)
    <3>1. pc' = "metasync" /\ next' = nx /\ mem' = s /\ s \in tried'
      BY <2>1 DEF WriteSnapshot
    <3>2. FlipSettled'
      BY <1>4, <1>5 DEF FlipSettled
    <3>3. \A a \in MetaSlot(nx) : ReadBlock(a)' = [snap |-> s]
      <4>1. [snap |-> s] # None
        BY CowAssumption DEF MetaBlock
      <4>2. QED
        BY <1>2, <2>1, <4>1 DEF ReadBlock
    <3>4. QED
      BY <1>1, <1>3, <3>1, <3>2, <3>3 DEF Memory, InFlight
  <2>2. CASE WriteSnapshotErr(nx, s)
    BY <2>2 DEF WriteSnapshotErr, ReturnErr, Memory, InFlight
  <2>3. QED
    BY <2>1, <2>2
<1>10. QED
  BY <1>5, <1>6, <1>7, <1>8, <1>9 DEF SettledInv

LEMMA SyncSnapshotStep ==
  ASSUME TypeOK, SettledInv, SyncSnapshot
  PROVE  SettledInv' /\ Best(disk') = Best(disk)
<1>0. PICK u : u = Best(disk)
  OBVIOUS
<1>1. /\ disk' = [a \in Addr |-> ReadBlock(a)]
      /\ cache' = [a \in Addr |-> None]
      /\ UNCHANGED <<ub, mem, next, acked, tried>> /\ pc' = "uber"
  BY SyncFacts DEF SyncSnapshot
<1>2. /\ FlipSettled /\ Follows(next, ub) /\ next \in Uberblock /\ mem \in tried
      /\ mem \in Snapshots
      /\ \A a \in MetaSlot(next) : ReadBlock(a) = [snap |-> mem]
  BY DEF SettledInv, InFlight, Memory, SyncSnapshot
<1>3. {0, 1} \subseteq Addr /\ MetaSlot(next) \subseteq Addr
  BY <1>2, Layout
<1>4. \A x \in {0, 1} : \/ disk'[x] = disk[x]
                        \/ /\ ~Valid(disk'[x])
                           /\ u # None => x # UberSlot(u)
  BY <1>0, <1>1, <1>2, <1>3, DurableFacts DEF ReadBlock, FlipSettled
<1>5. Best(disk') = u /\ Aligned(disk')
  BY <1>0, <1>4, BestKept DEF SettledInv
<1>6. \A x \in {0, 1} : ~Valid(cache'[x])
  BY <1>1, <1>3, CowAssumption DEF Valid
<1>7. Dirty' = {}
  BY <1>1 DEF Dirty
<1>8. DurableWhole'
  <2> SUFFICES ASSUME u # None
               PROVE  /\ cache'[UberSlot(u)] = None
                      /\ \E t \in Snapshots : Secured(u, t)' /\ Allowed(t)'
    BY <1>5 DEF DurableWhole
  <2>1. PICK t \in Snapshots : Secured(u, t) /\ Allowed(t)
    BY <1>0, DurableFacts
  <2>2. u \in Uberblock /\ UberSlot(u) \in Addr /\ MetaSlot(u) \subseteq Addr
    BY <1>0, <1>3, DurableFacts, Layout
  <2>3. Secured(u, t)' /\ Allowed(t)'
    BY <1>1, <2>1, <2>2 DEF Secured, Allowed, ReadBlock
  <2>4. QED
    BY <1>1, <2>2, <2>3
<1>9. BlankAllowed'
  BY <1>0, <1>1, <1>5 DEF SettledInv, BlankAllowed
<1>10. OpenFlip' /\ Memory'
  BY <1>1, <1>2, <1>6 DEF OpenFlip, Memory
<1>11. InFlight'
  <2>1. FlipSettled'
    BY <1>0, <1>1, <1>2, <1>5, <1>6 DEF FlipSettled
  <2>2. Secured(next, mem)'
    BY <1>1, <1>2, <1>3 DEF Secured
  <2>3. QED
    BY <1>1, <1>2, <1>7, <2>1, <2>2 DEF InFlight, Follows
<1>12. QED
  BY <1>0, <1>5, <1>8, <1>9, <1>10, <1>11 DEF SettledInv

LEMMA WriteUberStep ==
  ASSUME TypeOK, SettledInv, WriteUber \/ WriteUberErr
  PROVE  SettledInv'
<1>1. /\ Dirty = {} /\ Secured(next, mem) /\ FlipSettled /\ Follows(next, ub)
      /\ next \in Uberblock /\ mem \in tried /\ mem \in Snapshots /\ pc = "uber"
  BY DEF SettledInv, InFlight, Memory, WriteUber, WriteUberErr
<1>2. PICK u : u = Best(disk)
  OBVIOUS
<1>3. PICK x0 : x0 = UberSlot(next)
  OBVIOUS
<1>4. /\ u = ub /\ u \in Uberblock \cup {None}
      /\ x0 \in {0, 1} /\ x0 \in Addr /\ {0, 1} \subseteq Addr
      /\ u # None => x0 # UberSlot(u)
  BY <1>1, <1>2, <1>3, FollowsFacts, Layout DEF FlipSettled, TypeOK
<1>5. \A a \in Addr : cache[a] = None
  BY <1>1 DEF Dirty, TypeOK
<1>6. CASE WriteUberErr /\ UNCHANGED <<disk, cache>>
  BY <1>1, <1>6, QuietStep DEF WriteUberErr, ReturnErr
<1>7. ASSUME NEW b \in Uberblock \cup {Junk},
             WriteBlocks([a \in {x0} |-> b]),
             UNCHANGED <<acked, tried, ub>>,
             ub' # None => mem' \in Snapshots,
             \/ b = Junk /\ pc' = "idle"
             \/ b = next /\ pc' = "ubersync" /\ UNCHANGED <<mem, next>>
      PROVE  SettledInv'
  <2> DEFINE w == [a \in {x0} |-> b]
  <2>1. /\ disk' = disk
        /\ cache' = [a \in Addr |-> IF a \in DOMAIN w THEN w[a] ELSE cache[a]]
    BY <1>7, CacheWrite
  <2>2. \A a \in Addr : cache'[a] = IF a = x0 THEN b ELSE None
    BY <1>5, <2>1
  <2>3. Aligned(disk') /\ Best(disk') = u
    BY <1>2, <2>1 DEF SettledInv
  <2>4. DOMAIN disk' = Addr /\ b # None
    BY <2>1, CowAssumption DEF TypeOK
  <2>5. Dirty' = {x0}
    BY <1>4, <2>2, <2>4 DEF Dirty
  <2>6. ASSUME NEW v \in Uberblock, NEW t \in Snapshots, Secured(v, t)
        PROVE  Secured(v, t)'
    <3>1. MetaSlot(v) \subseteq Addr /\ x0 \notin MetaSlot(v)
      BY <1>4, Layout
    <3>2. QED
      BY <2>1, <2>2, <2>6, <3>1 DEF Secured
  <2>7. DurableWhole'
    <3> SUFFICES ASSUME u # None
                 PROVE  /\ cache'[UberSlot(u)] = None
                        /\ \E t \in Snapshots : Secured(u, t)' /\ Allowed(t)'
      BY <2>3 DEF DurableWhole
    <3>1. PICK t \in Snapshots : Secured(u, t) /\ Allowed(t)
      BY <1>2, DurableFacts
    <3>2. Secured(u, t)' /\ Allowed(t)'
      BY <1>4, <1>7, <2>6, <3>1 DEF Allowed
    <3>3. QED
      BY <1>2, <1>4, <2>2, <3>2, DurableFacts
  <2>8. BlankAllowed'
    BY <1>2, <1>7, <2>3 DEF SettledInv, BlankAllowed
  <2>9. CASE b = Junk
    <3>1. \A x \in {0, 1} : ~Valid(cache'[x])
      BY <1>4, <2>2, <2>9, CowAssumption DEF Valid
    <3>2. pc' = "idle"
      BY <1>7, <2>9, <1>1, CowAssumption
    <3>3. QED
      BY <1>7, <2>3, <2>7, <2>8, <3>1, <3>2 DEF SettledInv, OpenFlip, Memory, InFlight
  <2>10. CASE b = next
    <3>1. pc' = "ubersync" /\ UNCHANGED <<mem, next>>
      BY <1>1, <1>7, <2>10, CowAssumption
    <3>2. Secured(next, mem)' /\ Allowed(mem)'
      BY <1>1, <1>7, <2>6, <3>1 DEF Allowed, Secured
    <3>3. OpenFlip'
      <4>1. ASSUME NEW x \in {0, 1}, Valid(cache'[x])
            PROVE  x = x0 /\ cache'[x] = next
        BY <1>4, <2>2, <2>10, <4>1, CowAssumption DEF Valid
      <4>2. Follows(next, Best(disk'))
        BY <1>1, <1>4, <2>3
      <4>3. Secured(next, mem)' <=> \A a \in MetaSlot(next) :
                disk'[a] = [snap |-> mem] /\ cache'[a] = None
        BY <3>1 DEF Secured
      <4>4. QED
        BY <1>1, <1>3, <2>5, <3>1, <3>2, <4>1, <4>2, <4>3 DEF OpenFlip, Secured, Allowed
    <3>4. Memory' /\ InFlight'
      BY <1>1, <1>3, <1>4, <1>7, <2>2, <2>10, <3>1, <3>2 DEF Memory, InFlight
    <3>5. QED
      BY <2>3, <2>7, <2>8, <3>3, <3>4 DEF SettledInv
  <2>11. QED
    BY <1>7, <2>9, <2>10
<1>8. CASE WriteUber
  BY <1>1, <1>3, <1>7, <1>8 DEF WriteUber
<1>9. CASE WriteUberErr /\ ~UNCHANGED <<disk, cache>>
  BY <1>1, <1>3, <1>7, <1>9 DEF WriteUberErr, ReturnErr
<1>10. QED
  BY <1>6, <1>8, <1>9

\* An open flip, once every cached block is durable, has happened.
LEMMA SyncUberStep ==
  ASSUME TypeOK, SettledInv, SyncUber
  PROVE  /\ SettledInv'
         /\ Best(disk') = Best(disk) \/ Follows(Best(disk'), Best(disk))
         /\ Best(disk') = next
         /\ \A x \in {0, 1} : ~Valid(cache'[x])
<1>1. PICK nx, s : nx = next /\ s = mem
  OBVIOUS
<1>2. /\ disk' = [a \in Addr |-> ReadBlock(a)] /\ cache' = [a \in Addr |-> None]
      /\ pc' = "idle" /\ acked' = s /\ tried' = {}
      /\ ub' # None => mem' \in Snapshots
  BY <1>1, SyncFacts DEF SyncUber
<1>3. /\ Secured(nx, s) /\ nx \in Uberblock /\ s \in Snapshots
      /\ \/ cache[UberSlot(nx)] = nx
         \/ Best(disk) = nx /\ Dirty = {}
  BY <1>1 DEF SettledInv, InFlight, Memory, SyncUber
<1>4. UberSlot(nx) \in {0, 1} /\ {0, 1} \subseteq Addr /\ MetaSlot(nx) \subseteq Addr
  BY <1>3, Layout
<1>5. /\ Best(disk') = nx /\ Aligned(disk')
      /\ nx = Best(disk) \/ Follows(nx, Best(disk))
  <2>1. CASE cache[UberSlot(nx)] = nx
    <3>1. Dirty = {UberSlot(nx)} /\ Follows(nx, Best(disk))
      BY <1>3, <1>4, <2>1 DEF SettledInv, OpenFlip, Valid
    <3>2. disk'[UberSlot(nx)] = nx
      BY <1>2, <1>3, <1>4, <2>1, CowAssumption DEF ReadBlock
    <3>3. \A x \in {0, 1} : x # UberSlot(nx) => disk'[x] = disk[x]
      BY <1>2, <1>4, <3>1 DEF ReadBlock, Dirty, TypeOK
    <3>4. QED
      BY <3>1, <3>2, <3>3, BestFlips DEF SettledInv
  <2>2. CASE Best(disk) = nx /\ Dirty = {}
    <3>1. \A x \in {0, 1} : disk'[x] = disk[x]
      BY <1>2, <1>4, <2>2 DEF ReadBlock, Dirty, TypeOK
    <3>2. QED
      BY <2>2, <3>1, BestKept DEF SettledInv
  <2>3. QED
    BY <1>3, <2>1, <2>2
<1>6. Secured(nx, s)'
  BY <1>2, <1>3, <1>4 DEF Secured, ReadBlock
<1>7. DurableWhole' /\ BlankAllowed'
  BY <1>2, <1>3, <1>4, <1>5, <1>6, CowAssumption DEF DurableWhole, BlankAllowed, Allowed
<1>8. \A x \in {0, 1} : ~Valid(cache'[x])
  BY <1>2, <1>4, CowAssumption DEF Valid
<1>9. QED
  BY <1>1, <1>2, <1>5, <1>7, <1>8 DEF SettledInv, OpenFlip, Memory, InFlight

\* What a mount of the durable image would load.
LEMMA RecoveredFacts ==
  ASSUME TypeOK, SettledInv
  PROVE  /\ Best(disk) = None => Recovered(disk) = None
         /\ Best(disk) # None =>
              \E s \in Snapshots : Secured(Best(disk), s) /\ Allowed(s) /\ Recovered(disk) = s
<1>1. CASE Best(disk) = None
  BY <1>1 DEF Recovered
<1>2. CASE Best(disk) # None
  <2>1. PICK s \in Snapshots : Secured(Best(disk), s) /\ Allowed(s)
    BY <1>2, DurableFacts
  <2>2. Holds(disk, Best(disk), s)
    BY <2>1 DEF Secured, Holds
  <2>3. Recovered(disk) = s
    BY <1>2, <2>2, DurableFacts, LoadWhole DEF Recovered
  <2>4. QED
    BY <1>2, <2>1, <2>3
<1>3. QED
  BY <1>1, <1>2

\* What a mount of the device as the cache shows it loads: the snapshot of the
\* open flip when there is one, the durable snapshot otherwise.
LEMMA MountedFacts ==
  ASSUME TypeOK, SettledInv, Best(Image) # None
  PROVE  \E s \in Snapshots :
            /\ Load(Image, Best(Image)) = s
            /\ \A x \in {0, 1} : Valid(cache[x]) => Secured(cache[x], s)
            /\ (\A x \in {0, 1} : ~Valid(cache[x])) => Recovered(disk) = s
<1>1. DOMAIN disk = Addr
  BY DEF TypeOK
<1>2. \A a \in Addr : Image[a] = ReadBlock(a)
  BY <1>1 DEF Image
<1>3. {0, 1} \subseteq Addr
  BY FirstUberType, Layout
<1>4. ASSUME NEW v \in Uberblock, NEW s \in Snapshots, Secured(v, s), Best(Image) = v
      PROVE  Load(Image, Best(Image)) = s
  <2>1. MetaSlot(v) \subseteq Addr
    BY Layout
  <2>2. Holds(Image, v, s)
    BY <1>2, <1>4, <2>1 DEF Secured, Holds, ReadBlock
  <2>3. QED
    BY <1>4, <2>2, LoadWhole
<1>5. ASSUME NEW x \in {0, 1}, Valid(cache[x])
      PROVE  \E s \in Snapshots :
               Load(Image, Best(Image)) = s /\ Secured(cache[x], s) /\ Dirty = {x}
  <2>1. PICK v : v = cache[x]
    OBVIOUS
  <2>2. /\ v \in Uberblock /\ x = UberSlot(v) /\ Dirty = {x} /\ Follows(v, Best(disk))
        /\ \E s \in Snapshots : Secured(v, s)
    BY <1>5, <2>1 DEF SettledInv, OpenFlip, Valid
  <2>3. Image[UberSlot(v)] = v
    BY <1>2, <1>3, <2>1, <2>2, CowAssumption DEF ReadBlock
  <2>4. \A y \in {0, 1} : y # UberSlot(v) => Image[y] = disk[y]
    BY <1>1, <1>2, <1>3, <2>2 DEF ReadBlock, Dirty
  <2>5. Best(Image) = v
    BY <2>2, <2>3, <2>4, BestFlips DEF SettledInv
  <2>6. QED
    BY <1>4, <2>1, <2>2, <2>5
<1>6. CASE \E x \in {0, 1} : Valid(cache[x])
  <2>1. PICK x \in {0, 1} : Valid(cache[x])
    BY <1>6
  <2>2. PICK s \in Snapshots :
               Load(Image, Best(Image)) = s /\ Secured(cache[x], s) /\ Dirty = {x}
    BY <1>5, <2>1
  <2>3. \A y \in {0, 1} : Valid(cache[y]) => y = x
    BY <2>2, <1>1, <1>3, CowAssumption DEF Dirty, Valid
  <2>4. QED
    BY <1>6, <2>2, <2>3
<1>7. CASE \A x \in {0, 1} : ~Valid(cache[x])
  <2>1. PICK u : u = Best(disk)
    OBVIOUS
  <2>2. \A x \in {0, 1} : \/ Image[x] = disk[x]
                          \/ /\ ~Valid(Image[x])
                             /\ u # None => x # UberSlot(u)
    BY <1>2, <1>3, <1>7, <2>1, DurableFacts DEF ReadBlock
  <2>3. Best(Image) = u
    BY <2>1, <2>2, BestKept DEF SettledInv
  <2>4. PICK s \in Snapshots : Secured(u, s) /\ Recovered(disk) = s
    BY <2>1, <2>3, RecoveredFacts
  <2>5. Load(Image, Best(Image)) = s
    BY <1>4, <2>1, <2>3, <2>4, DurableFacts
  <2>6. QED
    BY <1>7, <2>4, <2>5
<1>8. QED
  BY <1>6, <1>7

LEMMA MountStep ==
  ASSUME TypeOK, SettledInv, Mount
  PROVE  SettledInv'
<1>1. PICK s \in Snapshots :
            /\ Load(Image, Best(Image)) = s
            /\ \A x \in {0, 1} : Valid(cache[x]) => Secured(cache[x], s)
            /\ (\A x \in {0, 1} : ~Valid(cache[x])) => Recovered(disk) = s
  BY MountedFacts DEF Mount
<1>2. /\ UNCHANGED <<disk, cache>> /\ mem' = s /\ acked' = s
      /\ tried' = {Recovered(disk)} \ {s} /\ pc' = "idle"
  BY <1>1 DEF Mount
<1>3. s # None
  BY CowAssumption
<1>4. \A t \in Snapshots : (t = s \/ t = Recovered(disk)) => Allowed(t)'
  BY <1>2 DEF Allowed
<1>5. DurableWhole'
  <2> SUFFICES ASSUME Best(disk) # None
               PROVE  /\ cache[UberSlot(Best(disk))] = None
                      /\ \E t \in Snapshots : Secured(Best(disk), t) /\ Allowed(t)'
    BY <1>2 DEF DurableWhole, Secured
  <2>1. PICK t \in Snapshots : Secured(Best(disk), t) /\ Recovered(disk) = t
    BY RecoveredFacts
  <2>2. QED
    BY <1>4, <2>1, DurableFacts
<1>6. BlankAllowed'
  BY <1>2, <1>3, RecoveredFacts DEF BlankAllowed
<1>7. OpenFlip'
  <2> SUFFICES ASSUME NEW x \in {0, 1}, Valid(cache[x])
               PROVE  /\ x = UberSlot(cache[x])
                      /\ Dirty = {x}
                      /\ Follows(cache[x], Best(disk))
                      /\ \E t \in Snapshots : Secured(cache[x], t) /\ Allowed(t)'
    BY <1>2 DEF OpenFlip, Dirty, Secured
  <2>1. QED
    BY <1>1, <1>4 DEF SettledInv, OpenFlip
<1>8. QED
  BY <1>2, <1>5, <1>6, <1>7 DEF SettledInv, Memory, InFlight, Aligned

LEMMA PowerLossStep ==
  ASSUME TypeOK, SettledInv, PowerLoss
  PROVE  SettledInv' /\ Best(disk') = Best(disk)
<1>1. PICK torn \in SUBSET Dirty : LosePower(torn)
  BY DEF PowerLoss
<1>2. PICK u : u = Best(disk)
  OBVIOUS
<1>3. /\ disk' = [a \in Addr |-> IF a \in torn THEN Junk ELSE disk[a]]
      /\ cache' = [a \in Addr |-> None]
      /\ pc' = "idle" /\ ub' = None /\ UNCHANGED <<acked, tried>>
  BY <1>1 DEF LosePower, PowerLoss, LoseRAM, histVars, TypeOK
<1>4. {0, 1} \subseteq Addr
  BY FirstUberType, Layout
<1>5. \A x \in {0, 1} : \/ disk'[x] = disk[x]
                        \/ /\ ~Valid(disk'[x])
                           /\ u # None => x # UberSlot(u)
  BY <1>1, <1>2, <1>3, <1>4, DurableFacts, CowAssumption DEF Dirty, Valid
<1>6. Best(disk') = u /\ Aligned(disk')
  BY <1>2, <1>5, BestKept DEF SettledInv
<1>7. \A x \in {0, 1} : ~Valid(cache'[x])
  BY <1>3, <1>4, CowAssumption DEF Valid
<1>8. DurableWhole'
  <2> SUFFICES ASSUME u # None
               PROVE  /\ cache'[UberSlot(u)] = None
                      /\ \E t \in Snapshots : Secured(u, t)' /\ Allowed(t)'
    BY <1>6 DEF DurableWhole
  <2>1. PICK t \in Snapshots : Secured(u, t) /\ Allowed(t)
    BY <1>2, DurableFacts
  <2>2. u \in Uberblock /\ UberSlot(u) \in Addr /\ MetaSlot(u) \subseteq Addr
    BY <1>2, <1>4, DurableFacts, Layout
  <2>3. Secured(u, t)' /\ Allowed(t)'
    BY <1>1, <1>3, <2>1, <2>2 DEF Secured, Allowed, Dirty
  <2>4. QED
    BY <1>3, <2>2, <2>3
<1>9. BlankAllowed'
  BY <1>2, <1>3, <1>6 DEF SettledInv, BlankAllowed
<1>10. QED
  BY <1>2, <1>3, <1>6, <1>7, <1>8, <1>9 DEF SettledInv, OpenFlip, Memory, InFlight

LEMMA WritebackStep ==
  ASSUME TypeOK, SettledInv, Writeback
  PROVE  SettledInv' /\ (Best(disk') = Best(disk) \/ Follows(Best(disk'), Best(disk)))
<1>1. PICK b \in Addr : WritebackBlock(b)
  BY DEF Writeback
<1>2. PICK u, c : u = Best(disk) /\ c = cache[b]
  OBVIOUS
<1>3. /\ disk' = [disk EXCEPT ![b] = c] /\ cache' = [cache EXCEPT ![b] = None]
      /\ b \in Dirty /\ c # None
      /\ UNCHANGED <<ub, mem, pc, next, acked, tried>>
  BY <1>1, <1>2 DEF Writeback, WritebackBlock, Dirty
<1>4. /\ \A a \in Addr : disk'[a] = IF a = b THEN c ELSE disk[a]
      /\ \A a \in Addr : cache'[a] = IF a = b THEN None ELSE cache[a]
      /\ DOMAIN disk' = Addr /\ DOMAIN disk = Addr
  BY <1>3 DEF TypeOK
<1>5. {0, 1} \subseteq Addr
  BY FirstUberType, Layout
<1>6. Dirty' = Dirty \ {b}
  BY <1>4 DEF Dirty
<1>7. ASSUME NEW v \in Uberblock, NEW t \in Snapshots, Secured(v, t)
      PROVE  Secured(v, t)'
  <2>1. MetaSlot(v) \subseteq Addr /\ b \notin MetaSlot(v)
    BY <1>2, <1>3, <1>7, Layout DEF Secured
  <2>2. QED
    BY <1>4, <1>7, <2>1 DEF Secured
<1>8. \A t : Allowed(t)' <=> Allowed(t)
  BY <1>3 DEF Allowed
<1>9. CASE b \in {0, 1} /\ Valid(c)
  <2>1. /\ c \in Uberblock /\ b = UberSlot(c) /\ Dirty = {b} /\ Follows(c, u)
        /\ \E t \in Snapshots : Secured(c, t) /\ Allowed(t)
    BY <1>2, <1>9 DEF SettledInv, OpenFlip, Valid
  <2>2. Best(disk') = c /\ Aligned(disk')
    <3>1. disk'[UberSlot(c)] = c /\ \A x \in {0, 1} : x # UberSlot(c) => disk'[x] = disk[x]
      BY <1>4, <1>5, <1>9, <2>1
    <3>2. QED
      BY <1>2, <2>1, <3>1, BestFlips DEF SettledInv
  <2>3. Dirty' = {} /\ \A a \in Addr : cache'[a] = None
    BY <1>4, <1>6, <2>1 DEF Dirty
  <2>4. DurableWhole' /\ BlankAllowed'
    BY <1>5, <1>7, <1>8, <1>9, <2>1, <2>2, <2>3, CowAssumption DEF DurableWhole, BlankAllowed
  <2>5. OpenFlip'
    BY <1>5, <2>3, CowAssumption DEF OpenFlip, Valid
  <2>6. pc \notin {"metasync", "uber"}
    BY <1>2, <1>9 DEF SettledInv, InFlight, FlipSettled
  <2>7. InFlight'
    <3> SUFFICES ASSUME pc = "ubersync"
                 PROVE  Secured(next, mem)' /\ next = c /\ next \in Uberblock /\ mem \in tried
      BY <1>3, <2>2, <2>3, <2>6 DEF InFlight, SettledInv, TypeOK
    <3>1. /\ next \in Uberblock /\ mem \in tried /\ mem \in Snapshots /\ Secured(next, mem)
          /\ cache[UberSlot(next)] = next
      BY <2>1 DEF SettledInv, InFlight, Memory
    <3>2. UberSlot(next) = b
      BY <1>5, <2>1, <3>1, Layout, CowAssumption DEF Dirty, TypeOK
    <3>3. Secured(next, mem)'
      BY <1>3, <1>7, <3>1 DEF Secured
    <3>4. QED
      BY <1>2, <3>1, <3>2, <3>3
  <2>8. QED
    BY <1>2, <1>3, <2>1, <2>2, <2>4, <2>5, <2>7 DEF SettledInv, Memory
<1>10. CASE ~(b \in {0, 1} /\ Valid(c))
  <2>1. \A x \in {0, 1} : ~Valid(cache[x])
    BY <1>2, <1>3, <1>10 DEF SettledInv, OpenFlip
  <2>2. \A x \in {0, 1} : ~Valid(cache'[x])
    BY <1>4, <1>5, <2>1, CowAssumption DEF Valid
  <2>3. Best(disk') = u /\ Aligned(disk')
    <3>1. \A x \in {0, 1} : \/ disk'[x] = disk[x]
                            \/ /\ ~Valid(disk'[x])
                               /\ u # None => x # UberSlot(u)
      BY <1>2, <1>3, <1>4, <1>5, <1>10, DurableFacts
    <3>2. QED
      BY <1>2, <3>1, BestKept DEF SettledInv
  <2>4. DurableWhole'
    <3> SUFFICES ASSUME u # None
                 PROVE  /\ cache'[UberSlot(u)] = None
                        /\ \E t \in Snapshots : Secured(u, t)' /\ Allowed(t)'
      BY <2>3 DEF DurableWhole
    <3>1. PICK t \in Snapshots : Secured(u, t) /\ Allowed(t)
      BY <1>2, DurableFacts
    <3>2. u \in Uberblock /\ UberSlot(u) \in Addr /\ cache[UberSlot(u)] = None
      BY <1>2, <1>5, DurableFacts
    <3>3. QED
      BY <1>4, <1>7, <1>8, <3>1, <3>2
  <2>5. BlankAllowed'
    BY <1>2, <1>3, <2>3 DEF SettledInv, BlankAllowed
  <2>6. OpenFlip'
    BY <2>2 DEF OpenFlip
  <2>7. InFlight'
    <3>1. CASE pc = "idle"
      BY <1>3, <3>1 DEF InFlight
    <3>2. CASE pc = "metasync"
      <4>1. /\ FlipSettled /\ Follows(next, ub) /\ next \in Uberblock /\ mem \in tried
            /\ \A a \in MetaSlot(next) : ReadBlock(a) = [snap |-> mem]
        BY <3>2 DEF SettledInv, InFlight
      <4>2. FlipSettled'
        BY <1>2, <1>3, <2>2, <2>3, <4>1 DEF FlipSettled
      <4>3. \A a \in MetaSlot(next) : ReadBlock(a)' = ReadBlock(a)
        <5>1. MetaSlot(next) \subseteq Addr
          BY <4>1, Layout
        <5>2. QED
          BY <1>2, <1>3, <1>4, <5>1 DEF ReadBlock
      <4>4. QED
        BY <1>3, <3>2, <4>1, <4>2, <4>3 DEF InFlight, Follows
    <3>3. CASE pc = "uber"
      BY <1>3, <3>3 DEF SettledInv, InFlight
    <3>4. CASE pc = "ubersync"
      <4>1. next \in Uberblock /\ cache[UberSlot(next)] = next
        BY <1>3, <3>4 DEF SettledInv, InFlight
      <4>2. QED
        BY <2>1, <4>1, Layout DEF Valid
    <3>5. QED
      BY <3>1, <3>2, <3>3, <3>4 DEF TypeOK
  <2>8. QED
    BY <1>2, <1>3, <2>3, <2>4, <2>5, <2>6, <2>7 DEF SettledInv, Memory
<1>11. QED
  BY <1>9, <1>10

LEMMA InitIInv == Init => IInv
BY TypeInit, SettledInit DEF IInv

\* Every step of a history that stays settled keeps the invariant and moves
\* the durable uberblock forward, one commit at a time, or not at all.
LEMMA SettledStep ==
  ASSUME TypeInv, SettledInv, Next, ~hasty'
  PROVE  /\ SettledInv'
         /\ Best(disk') = Best(disk) \/ Follows(Best(disk'), Best(disk))
<1>0. TypeOK /\ Fresh \in Snapshots /\ Fresh # None
  BY CowAssumption DEF TypeInv
<1>1. CASE Mutate
  BY <1>1, QuietStep DEF Mutate
<1>2. CASE Commit \/ CommitWriteErr
  <2>1. FlipSettled /\ mem \in Snapshots /\ Follows(NextUber, ub)
    BY <1>0, <1>2, NextUberType DEF Commit, CommitWriteErr, CanCommit, SettledInv, Memory, TypeOK
  <2>2. ub # None
    BY <1>2 DEF Commit, CommitWriteErr, CanCommit
  <2>3. WriteSnapshot(NextUber, mem) \/ WriteSnapshotErr(NextUber, mem)
    BY <1>2 DEF Commit, CommitWriteErr
  <2>4. SettledInv'
    BY <1>0, <2>1, <2>2, <2>3, SnapshotStep
  <2>5. disk' = disk
    BY <2>3 DEF WriteSnapshot, WriteSnapshotErr, WriteBlocks
  <2>6. QED
    BY <2>4, <2>5
<1>3. CASE CommitMetaTooBig \/ SyncSnapshotErr \/ SyncUberErr
  <2>1. UNCHANGED <<disk, cache, tried>> /\ ReturnErr
    BY <1>3 DEF CommitMetaTooBig, SyncSnapshotErr, SyncUberErr
  <2>2. ub' # None => mem' \in Snapshots
    BY <2>1 DEF ReturnErr, SettledInv, Memory
  <2>3. QED
    BY <2>1, <2>2, QuietStep DEF ReturnErr
<1>4. CASE Format \/ FormatWriteErr
  <2>1. FlipSettled /\ ub = None /\ Follows(FirstUber, ub)
    BY <1>4, FirstUberType DEF Format, FormatWriteErr, CanFormat
  <2>2. WriteSnapshot(FirstUber, Fresh) \/ WriteSnapshotErr(FirstUber, Fresh)
    BY <1>4 DEF Format, FormatWriteErr
  <2>3. mem' = Fresh \/ mem' = None
    BY <2>1, <2>2 DEF WriteSnapshot, WriteSnapshotErr, ReturnErr
  <2>4. SettledInv'
    BY <1>0, <2>1, <2>2, <2>3, SnapshotStep
  <2>5. disk' = disk
    BY <2>2 DEF WriteSnapshot, WriteSnapshotErr, WriteBlocks
  <2>6. QED
    BY <2>4, <2>5
<1>5. CASE SyncSnapshot
  BY <1>0, <1>5, SyncSnapshotStep
<1>6. CASE WriteUber \/ WriteUberErr
  <2>1. disk' = disk
    BY <1>6 DEF WriteUber, WriteUberErr, WriteBlocks
  <2>2. QED
    BY <1>0, <1>6, <2>1, WriteUberStep
<1>7. CASE SyncUber
  BY <1>0, <1>7, SyncUberStep
<1>8. CASE Mount
  BY <1>0, <1>8, MountStep DEF Mount
<1>9. CASE Writeback
  BY <1>0, <1>9, WritebackStep
<1>10. CASE PowerLoss
  BY <1>0, <1>10, PowerLossStep
<1>11. CASE Kill
  BY <1>11, QuietStep DEF Kill, LoseRAM, histVars
<1>12. QED
  BY <1>1, <1>2, <1>3, <1>4, <1>5, <1>6, <1>7, <1>8, <1>9, <1>10, <1>11 DEF Next

LEMMA HastyStays == TypeOK /\ hasty /\ [Next]_vars => hasty'
<1> SUFFICES ASSUME TypeOK, hasty, [Next]_vars PROVE hasty'
  OBVIOUS
<1>1. CASE Commit \/ CommitWriteErr \/ Format \/ FormatWriteErr
  BY <1>1 DEF Commit, CommitWriteErr, Format, FormatWriteErr
<1>2. QED
  BY <1>1 DEF Next, vars, Mutate, CommitMetaTooBig, SyncSnapshot, SyncSnapshotErr,
     WriteUber, WriteUberErr, SyncUber, SyncUberErr, Mount, Writeback, PowerLoss,
     Kill, LoseRAM, histVars

LEMMA NextIInv == IInv /\ [Next]_vars => IInv'
<1> SUFFICES ASSUME IInv, [Next]_vars, ~hasty' PROVE SettledInv'
  BY TypeStep DEF IInv
<1>1. TypeInv /\ SettledInv
  BY HastyStays DEF IInv, TypeInv
<1>2. CASE Next
  BY <1>1, <1>2, SettledStep
<1>3. CASE UNCHANGED vars
  BY <1>1, <1>3 DEF vars, SettledInv, Aligned, DurableWhole, BlankAllowed, OpenFlip,
     Memory, InFlight, Secured, Allowed, Dirty, FlipSettled, ReadBlock
<1>4. QED
  BY <1>2, <1>3

----------------------------------------------------------------------------
(* What the invariant says to the users of the protocol. *)

LEMMA SettledIsRecoverable ==
  ASSUME TypeOK, SettledInv
  PROVE  Recoverable
<1>1. Garbled # None /\ Garbled \notin Snapshots
  BY CowAssumption
<1>2. CASE Best(disk) = None
  BY <1>1, <1>2, RecoveredFacts DEF Recoverable, SettledInv, BlankAllowed
<1>3. CASE Best(disk) # None
  BY <1>1, <1>3, RecoveredFacts DEF Recoverable, Allowed
<1>4. QED
  BY <1>2, <1>3

\* Whatever fails, at whatever step, a power loss then leaves a whole snapshot
\* that was confirmed or was being committed, as long as no metadata slot was
\* written while an earlier flip was open: the one gap of the protocol.
THEOREM SettledRecovers == Spec => []SettledRecoverable
<1>1. IInv => SettledRecoverable
  BY SettledIsRecoverable DEF IInv, TypeInv, SettledRecoverable
<1>2. QED
  BY <1>1, InitIInv, NextIInv, PTL DEF Spec

----------------------------------------------------------------------------
(* Without the faults that leave a flip open, every history is settled.    *)

NoFlipFaults == FlipFaults = {} /\ Reformats = FALSE

NoOpenFlip == \A x \in {0, 1} : ~Valid(cache[x])

QuietInv ==
    /\ ~hasty
    /\ pc # "ubersync" => NoOpenFlip /\ (ub # None => Best(disk) = ub)
    /\ (ub = None /\ pc = "idle") => mem = None
    /\ (result = "ok" /\ pc = "idle") => acked # None /\ tried = {}

Faultless == TypeInv /\ SettledInv /\ QuietInv

LEMMA FaultlessInit == Init => Faultless
<1> SUFFICES ASSUME Init PROVE QuietInv
  BY TypeInit, SettledInit DEF Faultless
<1>1. {0, 1} \subseteq Addr
  BY FirstUberType, Layout
<1>2. QED
  BY <1>1, CowAssumption DEF Init, QuietInv, NoOpenFlip, Valid

\* A device that shows no filesystem to format has none.
LEMMA BlankIsSettled ==
  ASSUME TypeOK, SettledInv, NoOpenFlip, ub = None, Best(Image) = None
  PROVE  FlipSettled
<1>1. {0, 1} \subseteq Addr /\ DOMAIN disk = Addr
  BY FirstUberType, Layout DEF TypeOK
<1>2. ASSUME Best(disk) # None PROVE FALSE
  <2>1. Image[UberSlot(Best(disk))] = Best(disk)
    BY <1>1, <1>2, DurableFacts DEF Image, ReadBlock
  <2>2. QED
    BY <1>2, <2>1, DurableFacts, BestFacts DEF Valid
<1>3. QED
  BY <1>2 DEF FlipSettled, NoOpenFlip

LEMMA FaultlessStep ==
  ASSUME NoFlipFaults, Faultless, [Next]_vars
  PROVE  Faultless'
<1>0. /\ TypeInv /\ TypeOK /\ SettledInv /\ QuietInv /\ TypeInv'
      /\ None \notin Snapshots \cup Uberblock
  BY TypeStep, CowAssumption DEF Faultless, TypeInv
<1>1. ASSUME ~hasty', Next, QuietInv' PROVE Faultless'
  BY <1>0, <1>1, SettledStep DEF Faultless
<1> USE DEF QuietInv, NoOpenFlip
<1>2. CASE Mutate
  BY <1>0, <1>1, <1>2 DEF Mutate, Next
<1>3. ASSUME NEW nx \in Uberblock, NEW s \in Snapshots \cup {Garbled},
             WriteSnapshot(nx, s) \/ WriteSnapshotErr(nx, s),
             pc = "idle"
      PROVE  /\ disk' = disk /\ ub' = ub /\ pc' # "ubersync" /\ NoOpenFlip'
             /\ \/ result' = result /\ pc' = "metasync"
                \/ result' = "err" /\ (ub = None => mem' = None)
  <2>1. {0, 1} \subseteq Addr \ MetaSlot(nx)
    BY Layout
  <2>2. NoOpenFlip' /\ disk' = disk
    BY <1>0, <1>3, <2>1, SnapshotWrites
  <2>3. QED
    BY <1>3, <2>2 DEF WriteSnapshot, WriteSnapshotErr, ReturnErr
<1>4. CASE Commit \/ CommitWriteErr
  <2>1. NextUber \in Uberblock /\ mem \in Snapshots \cup {Garbled} /\ pc = "idle"
        /\ ub # None
    BY <1>0, <1>4, NextUberType DEF Commit, CommitWriteErr, CanCommit, TypeOK, TypeInv
  <2>2. FlipSettled
    BY <1>0, <2>1 DEF FlipSettled
  <2>3. ~hasty'
    BY <1>0, <1>4, <2>2 DEF Commit, CommitWriteErr
  <2>4. QuietInv'
    BY <1>0, <1>3, <1>4, <2>1, <2>3 DEF Commit, CommitWriteErr
  <2>5. QED
    BY <1>1, <1>4, <2>3, <2>4 DEF Next
<1>5. CASE CommitMetaTooBig \/ SyncSnapshotErr
  BY <1>0, <1>1, <1>5 DEF CommitMetaTooBig, SyncSnapshotErr, CanCommit, ReturnErr, Next
<1>6. CASE Format \/ FormatWriteErr
  <2>1. FlipSettled /\ pc = "idle"
    BY <1>0, <1>6, BlankIsSettled DEF Format, FormatWriteErr, CanFormat, NoFlipFaults
  <2>2. ~hasty'
    BY <1>0, <1>6, <2>1 DEF Format, FormatWriteErr
  <2>3. QuietInv'
    BY <1>0, <1>3, <1>6, <2>1, <2>2, FirstUberType, CowAssumption
       DEF Format, FormatWriteErr, CanFormat
  <2>4. QED
    BY <1>1, <1>6, <2>2, <2>3 DEF Next
<1>7. CASE SyncSnapshot
  <2>1. {0, 1} \subseteq Addr
    BY FirstUberType, Layout
  <2>2. Best(disk') = Best(disk) /\ NoOpenFlip'
    BY <1>0, <1>7, <2>1, SyncSnapshotStep, SyncFacts, CowAssumption DEF SyncSnapshot, Valid
  <2>3. QED
    BY <1>0, <1>1, <1>7, <2>2 DEF SyncSnapshot, Next
<1>8. CASE WriteUber
  BY <1>0, <1>1, <1>8 DEF WriteUber, Next
<1>9. CASE WriteUberErr
  <2>1. disk' = disk /\ NoOpenFlip'
    <3>1. CASE UNCHANGED <<disk, cache>>
      BY <1>0, <1>9, <3>1 DEF WriteUberErr
    <3>2. CASE WriteBlocks([a \in {UberSlot(next)} |-> Junk])
      <4>1. cache' = [a \in Addr |-> IF a \in {UberSlot(next)} THEN Junk ELSE cache[a]]
            /\ disk' = disk
        BY <3>2 , <1>0, CacheWrite
      <4>2. {0, 1} \subseteq Addr
        BY FirstUberType, Layout
      <4>3. QED
        BY <1>0, <1>9, <4>1, <4>2, CowAssumption DEF Valid, WriteUberErr
    <3>3. QED
      BY <1>9, <3>1, <3>2 DEF WriteUberErr
  <2>2. QED
    BY <1>0, <1>1, <1>9, <2>1 DEF WriteUberErr, ReturnErr, Next
<1>10. CASE SyncUber
  <2>1. Best(disk') = next /\ NoOpenFlip' /\ mem # None /\ next # None
    BY <1>0, <1>10, SyncUberStep DEF SyncUber, TypeInv
  <2>2. acked' # None /\ tried' = {} /\ ~hasty' /\ (ub' = None => mem' = None)
    BY <1>0, <1>10, <2>1 DEF SyncUber
  <2>3. ub' # None => Best(disk') = ub'
    BY <1>10, <2>1 DEF SyncUber
  <2>4. QuietInv'
    BY <2>1, <2>2, <2>3
  <2>5. QED
    BY <1>1, <1>10, <2>2, <2>4 DEF Next
<1>11. CASE SyncUberErr
  BY <1>11 DEF SyncUberErr, NoFlipFaults
<1>12. CASE Mount
  <2>1. PICK s \in Snapshots : Load(Image, Best(Image)) = s /\ Recovered(disk) = s
    BY <1>0, <1>12, MountedFacts DEF Mount
  <2>2. acked' = s /\ tried' = {} /\ mem' = s /\ ub' = Best(Image) /\ ub' # None
    BY <1>12, <2>1 DEF Mount
  <2>3. Best(Image) = Best(disk)
    <3>1. {0, 1} \subseteq Addr /\ DOMAIN disk = Addr
      BY <1>0, FirstUberType, Layout DEF TypeOK
    <3>2. \A x \in {0, 1} : \/ Image[x] = disk[x]
                            \/ /\ ~Valid(Image[x])
                               /\ Best(disk) # None => x # UberSlot(Best(disk))
      BY <1>0, <1>12, <3>1, DurableFacts DEF Image, ReadBlock, Mount
    <3>3. QED
      BY <1>0, <3>2, BestKept DEF SettledInv
  <2>4. QED
    BY <1>0, <1>1, <1>12, <2>2, <2>3 DEF Mount, Next
<1>13. CASE Writeback
  <2>1. PICK b \in Addr : WritebackBlock(b)
    BY <1>13 DEF Writeback
  <2>2. UNCHANGED <<ub, mem, pc, next, result, acked, tried, hasty>>
    BY <1>13 DEF Writeback
  <2>3. pc # "ubersync" => NoOpenFlip' /\ Best(disk') = Best(disk)
    <3> SUFFICES ASSUME pc # "ubersync" PROVE NoOpenFlip' /\ Best(disk') = Best(disk)
      OBVIOUS
    <3>1. {0, 1} \subseteq Addr
      BY FirstUberType, Layout
    <3>2. /\ \A a \in Addr : disk'[a] = IF a = b THEN cache[b] ELSE disk[a]
          /\ \A a \in Addr : cache'[a] = IF a = b THEN None ELSE cache[a]
          /\ cache[b] # None
      BY <1>0, <2>1 DEF WritebackBlock, Dirty, TypeOK
    <3>3. \A x \in {0, 1} : \/ disk'[x] = disk[x]
                            \/ /\ ~Valid(disk'[x])
                               /\ Best(disk) # None => x # UberSlot(Best(disk))
      BY <1>0, <3>1, <3>2, DurableFacts
    <3>4. Best(disk') = Best(disk)
      BY <1>0, <3>3, BestKept DEF SettledInv
    <3>5. QED
      BY <1>0, <3>1, <3>2, <3>4, CowAssumption DEF Valid
  <2>4. QED
    BY <1>0, <1>1, <1>13, <2>2, <2>3 DEF Next
<1>14. CASE PowerLoss
  <2>1. NoOpenFlip'
    <3>1. {0, 1} \subseteq Addr /\ DOMAIN disk = Addr
      BY <1>0, FirstUberType, Layout DEF TypeOK
    <3>2. QED
      BY <1>14, <3>1, CowAssumption DEF PowerLoss, LosePower, Valid
  <2>2. QED
    BY <1>0, <1>1, <1>14, <2>1 DEF PowerLoss, LoseRAM, histVars, Next
<1>15. CASE Kill
  BY <1>0, <1>1, <1>15 DEF Kill, NoFlipFaults, LoseRAM, histVars, Next
<1>16. CASE UNCHANGED vars
  BY <1>0, <1>16 DEF vars, Faultless, TypeInv, TypeOK, SettledInv, Aligned, DurableWhole,
     BlankAllowed, OpenFlip, Memory, InFlight, Secured, Allowed, Dirty, FlipSettled, ReadBlock
<1>17. QED
  BY <1>2, <1>4, <1>5, <1>6, <1>7, <1>8, <1>9, <1>10, <1>11, <1>12, <1>13, <1>14,
     <1>15, <1>16 DEF Next

LEMMA FaultlessAlways == NoFlipFaults /\ Spec => []Faultless
<1> SUFFICES ASSUME NoFlipFaults PROVE Spec => []Faultless
  OBVIOUS
<1>1. Faultless /\ [Next]_vars => Faultless'
  BY FaultlessStep
<1>2. QED
  BY <1>1, FaultlessInit, PTL DEF Spec

\* On a device where a flip is followed by its sync or by a power loss, a power
\* loss at any step leaves a whole snapshot: the confirmed one or an attempted one.
THEOREM Recovers == NoFlipFaults /\ Spec => []Recoverable
<1>1. Faultless => Recoverable
  BY SettledIsRecoverable DEF Faultless, TypeInv
<1>2. QED
  BY <1>1, FaultlessAlways, PTL

\* "Live metadata is never overwritten in place."
THEOREM LiveMetadataSafe == NoFlipFaults /\ Spec => []LiveMetadataUntouched
<1>1. Faultless => LiveMetadataUntouched
  <2> SUFFICES ASSUME Faultless, Best(disk) # None
               PROVE  Dirty \cap ({UberSlot(Best(disk))} \cup MetaSlot(Best(disk))) = {}
    BY DEF LiveMetadataUntouched
  <2>1. TypeOK /\ SettledInv
    BY DEF Faultless, TypeInv
  <2>2. QED
    BY <2>1, DurableFacts DEF Dirty, Secured
<1>2. QED
  BY <1>1, FaultlessAlways, PTL

\* Ok from commit means durable: a power loss then brings back the snapshot
\* the commit wrote.
THEOREM OkIsDurable == NoFlipFaults /\ Spec => []AckIsDurable
<1>1. Faultless => AckIsDurable
  BY SettledIsRecoverable DEF Faultless, TypeInv, QuietInv, AckIsDurable, Recoverable
<1>2. QED
  BY <1>1, FaultlessAlways, PTL

\* The commit mount would choose never gets older.
THEOREM HistoryAdvances == NoFlipFaults /\ Spec => NeverRollsBack
<1> SUFFICES ASSUME NoFlipFaults PROVE Spec => NeverRollsBack
  OBVIOUS
<1>1. Faultless /\ [Next]_vars => [BestSeq(disk') >= BestSeq(disk)]_vars
  <2> SUFFICES ASSUME Faultless, Next PROVE BestSeq(disk') >= BestSeq(disk)
    OBVIOUS
  <2>1. Faultless'
    BY FaultlessStep
  <2>2. Best(disk') = Best(disk) \/ Follows(Best(disk'), Best(disk))
    BY <2>1, SettledStep DEF Faultless, QuietInv
  <2>3. Best(disk) \in Uberblock \cup {None}
    BY BestFacts
  <2>4. CASE Best(disk') = Best(disk)
    BY <2>3, <2>4 DEF BestSeq, Uberblock
  <2>5. CASE Follows(Best(disk'), Best(disk))
    BY <2>3, <2>5, FollowsFacts, CowAssumption DEF BestSeq, Uberblock, FirstUber
  <2>6. QED
    BY <2>2, <2>4, <2>5
<1>2. Spec => []Faultless
  BY FaultlessAlways
<1>3. QED
  BY <1>1, <1>2, PTL DEF Spec, NeverRollsBack

----------------------------------------------------------------------------
(* The protocol implements AtomicCommit. *)

LEMMA NotYetWritten ==
  ASSUME NEW d, NEW v, Aligned(d), Follows(v, Best(d))
  PROVE  d[UberSlot(v)] # v
<1> SUFFICES ASSUME d[UberSlot(v)] = v PROVE FALSE
  OBVIOUS
<1>1. Best(d) \in Uberblock \cup {None}
  BY BestFacts
<1>2. v \in Uberblock /\ UberSlot(v) \in {0, 1} /\ Valid(d[UberSlot(v)])
  BY <1>1, FollowsFacts, Layout DEF Valid
<1>3. Best(d) # None
  BY <1>2, BestFacts
<1>4. PICK u : u = Best(d)
  OBVIOUS
<1>5. u \in Uberblock /\ UberSlot(u) \in {0, 1} /\ d[UberSlot(u)] = u
  BY <1>3, <1>4, BestInSlot
<1>6. v.seq = u.seq + 1 /\ UberSlot(u) # UberSlot(v)
  BY <1>3, <1>4, <1>5, FollowsFacts
<1>7. u.seq \in Nat /\ v.seq > u.seq /\ ~(u.seq > v.seq)
  BY <1>5, <1>6 DEF Uberblock
<1>8. CASE UberSlot(u) = 0
  BY <1>2, <1>4, <1>5, <1>6, <1>7, <1>8 DEF Best, Valid
<1>9. CASE UberSlot(u) = 1
  BY <1>2, <1>4, <1>5, <1>6, <1>7, <1>9 DEF Best, Valid
<1>10. QED
  BY <1>5, <1>8, <1>9

\* What the refinement mapping's phase is at each point of a commit.
PhaseInv ==
    /\ pc = "idle" => phase = "idle"
    /\ pc \in {"metasync", "uber"} => phase = "committing"
    /\ pc = "ubersync" =>
         \/ phase = "flipped" /\ Best(disk) = next /\ Dirty = {}
         \/ /\ phase = "committing" /\ cache[UberSlot(next)] = next
            /\ Dirty = {UberSlot(next)} /\ Follows(next, Best(disk))

LEMMA PhaseFacts == TypeOK /\ SettledInv => PhaseInv
<1> SUFFICES ASSUME TypeOK, SettledInv PROVE PhaseInv
  OBVIOUS
<1> USE DEF PhaseInv
<1>1. CASE pc = "idle"
  BY <1>1 DEF phase
<1>2. CASE pc \in {"metasync", "uber"}
  <2>1. Follows(next, Best(disk)) /\ Aligned(disk)
    BY <1>2 DEF SettledInv, InFlight, FlipSettled
  <2>2. QED
    BY <1>2, <2>1, NotYetWritten DEF phase
<1>3. CASE pc = "ubersync"
  <2>1. next \in Uberblock /\ UberSlot(next) \in {0, 1}
    BY <1>3, Layout DEF SettledInv, InFlight
  <2>2. CASE cache[UberSlot(next)] = next
    <3>1. Dirty = {UberSlot(next)} /\ Follows(next, Best(disk)) /\ Aligned(disk)
      BY <2>1, <2>2 DEF SettledInv, OpenFlip, Valid
    <3>2. QED
      BY <1>3, <2>2, <3>1, NotYetWritten DEF phase
  <2>3. CASE Best(disk) = next /\ Dirty = {}
    <3>1. disk[UberSlot(next)] = next
      BY <2>1, <2>3, DurableFacts, CowAssumption
    <3>2. QED
      BY <1>3, <2>3, <3>1 DEF phase
  <2>4. QED
    BY <1>3, <2>2, <2>3 DEF SettledInv, InFlight
<1>4. QED
  BY <1>1, <1>2, <1>3 DEF TypeOK

\* The snapshot mount would load changes only with the uberblock it chooses.
LEMMA RecoveredKept ==
  ASSUME TypeOK, SettledInv, TypeOK', SettledInv', Best(disk') = Best(disk),
         \A a \in Addr : cache[a] = None => disk'[a] = disk[a]
  PROVE  Recovered(disk') = Recovered(disk)
<1>1. CASE Best(disk) = None
  BY <1>1 DEF Recovered
<1>2. CASE Best(disk) # None
  <2>1. PICK s \in Snapshots : Secured(Best(disk), s) /\ Recovered(disk) = s
    BY <1>2, RecoveredFacts
  <2>2. Best(disk) \in Uberblock /\ MetaSlot(Best(disk)) \subseteq Addr
    BY <1>2, DurableFacts, Layout
  <2>3. Holds(disk', Best(disk), s)
    BY <2>1, <2>2 DEF Secured, Holds
  <2>4. QED
    BY <1>2, <2>1, <2>2, <2>3, LoadWhole DEF Recovered
<1>3. QED
  BY <1>1, <1>2

LEMMA RecoveredFlips ==
  ASSUME NEW s \in Snapshots, NEW u \in Uberblock, Best(disk') = u, Secured(u, s),
         \A a \in Addr : cache[a] = None => disk'[a] = disk[a]
  PROVE  Recovered(disk') = s
<1>1. MetaSlot(u) \subseteq Addr /\ u # None
  BY Layout, CowAssumption
<1>2. Holds(disk', u, s)
  BY <1>1 DEF Secured, Holds
<1>3. QED
  BY <1>1, <1>2, LoadWhole DEF Recovered

LEMMA InitRefines == Init => Abstract!Init
<1> SUFFICES ASSUME Init PROVE Abstract!Init
  OBVIOUS
<1>1. TypeOK /\ SettledInv
  BY TypeInit, SettledInit DEF TypeInv
<1>2. {0, 1} \subseteq Addr
  BY FirstUberType, Layout
<1>3. Best(disk) = None
  BY <1>2, BestFacts, CowAssumption DEF Init, Valid
<1>4. QED
  BY <1>1, <1>3, RecoveredFacts, PhaseFacts DEF Init, PhaseInv, Abstract!Init

LEMMA StepRefines ==
  ASSUME NoFlipFaults, Faultless, Next
  PROVE  Abstract!Next \/ UNCHANGED Abstract!vars
<1>0. /\ Faultless' /\ TypeInv /\ TypeOK /\ SettledInv /\ QuietInv
      /\ TypeInv' /\ TypeOK' /\ SettledInv' /\ QuietInv'
      /\ None \notin Snapshots \cup Uberblock
  BY FaultlessStep, CowAssumption DEF Faultless, TypeInv
<1>1. /\ pc = "idle" => phase = "idle"
      /\ pc \in {"metasync", "uber"} => phase = "committing"
      /\ pc' = "idle" => phase' = "idle"
      /\ pc' \in {"metasync", "uber"} => phase' = "committing"
  <2>1. PhaseInv
    BY <1>0, PhaseFacts
  <2>2. PhaseInv'
    BY <1>0, PhaseFacts, PTL
  <2>3. QED
    BY <2>1, <2>2 DEF PhaseInv
<1>2. disk' = disk => Recovered(disk)' = Recovered(disk)
  OBVIOUS
<1>3. CASE Mutate
  <2>1. Abstract!Mutate
    BY <1>0, <1>1, <1>2, <1>3 DEF Mutate, Abstract!Mutate, TypeInv
  <2>2. QED
    BY <2>1 DEF Abstract!Next
<1>4. CASE Commit
  <2>1. ub # None /\ mem # None /\ pc = "idle" /\ disk' = disk /\ pc' = "metasync" /\ mem' = mem
    BY <1>0, <1>4 DEF Commit, CanCommit, WriteSnapshot, WriteBlocks, TypeInv
  <2>2. Abstract!Begin
    BY <1>1, <1>2, <2>1 DEF Abstract!Begin
  <2>3. QED
    BY <2>2 DEF Abstract!Next
<1>5. CASE CommitWriteErr \/ CommitMetaTooBig \/ FormatWriteErr
  <2>1. pc = "idle" /\ pc' = "idle" /\ disk' = disk /\ mem' = mem
    BY <1>0, <1>5 DEF CommitWriteErr, CommitMetaTooBig, FormatWriteErr, CanCommit, CanFormat,
       WriteSnapshotErr, WriteBlocks, ReturnErr, QuietInv
  <2>2. QED
    BY <1>1, <1>2, <2>1 DEF Abstract!vars
<1>6. CASE Format
  <2>1. /\ ub = None /\ mem = None /\ pc = "idle" /\ disk' = disk /\ pc' = "metasync"
        /\ mem' \in Snapshots
    BY <1>0, <1>6, CowAssumption DEF Format, CanFormat, WriteSnapshot, WriteBlocks, QuietInv
  <2>2. Best(disk) = None
    BY <1>0, <1>6, BlankIsSettled DEF Format, CanFormat, NoFlipFaults, FlipSettled, QuietInv
  <2>3. Recovered(disk) = None
    BY <2>2 DEF Recovered
  <2>4. Abstract!Format
    BY <1>1, <1>2, <2>1, <2>3 DEF Abstract!Format
  <2>5. QED
    BY <2>4 DEF Abstract!Next
<1>7. CASE SyncSnapshot
  <2>1. pc = "metasync" /\ pc' = "uber" /\ mem' = mem
    BY <1>7 DEF SyncSnapshot
  <2>2. Best(disk') = Best(disk)
    BY <1>0, <1>7, SyncSnapshotStep
  <2>3. \A a \in Addr : cache[a] = None => disk'[a] = disk[a]
    BY <1>0, <1>7, SyncFacts DEF SyncSnapshot, ReadBlock
  <2>4. Recovered(disk') = Recovered(disk)
    BY <1>0, <2>2, <2>3, RecoveredKept
  <2>5. QED
    BY <1>1, <2>1, <2>4 DEF Abstract!vars
<1>8. CASE SyncSnapshotErr \/ WriteUberErr
  <2>1. pc \in {"metasync", "uber"} /\ pc' = "idle" /\ disk' = disk /\ mem' \in {mem, None}
    BY <1>8 DEF SyncSnapshotErr, WriteUberErr, ReturnErr, WriteBlocks
  <2>2. Abstract!ReturnErr
    BY <1>1, <1>2, <2>1 DEF Abstract!ReturnErr
  <2>3. QED
    BY <2>2 DEF Abstract!Next
<1>9. CASE WriteUber
  <2>1. /\ pc = "uber" /\ pc' = "ubersync" /\ disk' = disk
        /\ mem' = mem /\ next' = next
    BY <1>9 DEF WriteUber, WriteBlocks
  <2>2. disk[UberSlot(next)] # next
    BY <1>1, <2>1 DEF phase
  <2>3. phase' = "committing"
    BY <2>1, <2>2 DEF phase
  <2>4. QED
    BY <1>1, <1>2, <2>1, <2>3 DEF Abstract!vars
<1>10. CASE SyncUber
  <2>1. /\ pc = "ubersync" /\ pc' = "idle" /\ mem' \in Snapshots \cup {None}
        /\ Best(disk') = next /\ next \in Uberblock /\ mem \in Snapshots /\ Secured(next, mem)
    BY <1>0, <1>10, SyncUberStep DEF SyncUber, SettledInv, InFlight, Memory
  <2>2. \A a \in Addr : cache[a] = None => disk'[a] = disk[a]
    BY <1>0, <1>10, SyncFacts DEF SyncUber, ReadBlock
  <2>3. Recovered(disk') = mem
    BY <2>1, <2>2, RecoveredFlips
  <2>4. phase \in {"committing", "flipped"}
    BY <1>0, <2>1, PhaseFacts DEF PhaseInv
  <2>5. Abstract!ReturnOk
    BY <1>1, <2>1, <2>3, <2>4 DEF Abstract!ReturnOk
  <2>6. QED
    BY <2>5 DEF Abstract!Next
<1>11. CASE SyncUberErr
  BY <1>11 DEF SyncUberErr, NoFlipFaults
<1>12. CASE Mount
  <2>1. PICK s \in Snapshots : Load(Image, Best(Image)) = s /\ Recovered(disk) = s
    BY <1>0, <1>12, MountedFacts DEF Mount, QuietInv, NoOpenFlip
  <2>2. pc = "idle" /\ pc' = "idle" /\ mem = None /\ mem' = s /\ disk' = disk /\ s # None
    BY <1>0, <1>12, <2>1 DEF Mount, QuietInv
  <2>3. Abstract!Mount
    BY <1>1, <1>2, <2>1, <2>2 DEF Abstract!Mount
  <2>4. QED
    BY <2>3 DEF Abstract!Next
<1>13. CASE Writeback
  <2>1. PICK b \in Addr : WritebackBlock(b)
    BY <1>13 DEF Writeback
  <2>2. UNCHANGED <<ub, mem, pc, next>>
    BY <1>13 DEF Writeback
  <2>3. /\ \A a \in Addr : disk'[a] = IF a = b THEN cache[b] ELSE disk[a]
        /\ b \in Dirty /\ cache[b] # None
    BY <1>0, <2>1 DEF WritebackBlock, Dirty, TypeOK
  <2>4. \A a \in Addr : cache[a] = None => disk'[a] = disk[a]
    BY <2>3
  <2>5. CASE pc # "ubersync"
    <3>1. Best(disk') = Best(disk)
      <4>1. {0, 1} \subseteq Addr
        BY FirstUberType, Layout
      <4>2. \A x \in {0, 1} : \/ disk'[x] = disk[x]
                              \/ /\ ~Valid(disk'[x])
                                 /\ Best(disk) # None => x # UberSlot(Best(disk))
        BY <1>0, <2>3, <2>5, <4>1, DurableFacts DEF QuietInv, NoOpenFlip
      <4>3. QED
        BY <1>0, <4>2, BestKept DEF SettledInv
    <3>2. Recovered(disk') = Recovered(disk)
      BY <1>0, <2>4, <3>1, RecoveredKept
    <3>3. phase' = phase
      BY <1>0, <1>1, <2>2, <2>5 DEF TypeOK
    <3>4. QED
      BY <2>2, <3>2, <3>3 DEF Abstract!vars
  <2>6. CASE pc = "ubersync"
    <3>1. /\ phase = "committing" /\ cache[UberSlot(next)] = next
          /\ Dirty = {UberSlot(next)} /\ Follows(next, Best(disk))
      BY <1>0, <2>3, <2>6, PhaseFacts DEF PhaseInv
    <3>2. b = UberSlot(next) /\ disk'[UberSlot(next)] = next
      BY <2>3, <3>1
    <3>3. /\ next \in Uberblock /\ mem \in Snapshots /\ Secured(next, mem)
          /\ {0, 1} \subseteq Addr
      BY <2>6, FirstUberType, Layout, <1>0 DEF SettledInv, InFlight, Memory
    <3>4. Best(disk') = next
      <4>1. \A x \in {0, 1} : x # UberSlot(next) => disk'[x] = disk[x]
        BY <2>3, <3>2, <3>3
      <4>2. QED
        BY <1>0, <3>1, <3>2, <4>1, BestFlips DEF SettledInv
    <3>5. Recovered(disk') = mem
      BY <2>4, <3>3, <3>4, RecoveredFlips
    <3>6. phase' = "flipped"
      BY <2>2, <2>6, <3>2 DEF phase
    <3>7. Abstract!Flip
      BY <2>2, <3>1, <3>5, <3>6 DEF Abstract!Flip
    <3>8. QED
      BY <3>7 DEF Abstract!Next
  <2>7. QED
    BY <2>5, <2>6
<1>14. CASE PowerLoss
  <2>1. PICK torn \in SUBSET Dirty : LosePower(torn)
    BY <1>14 DEF PowerLoss
  <2>2. \A a \in Addr : cache[a] = None => disk'[a] = disk[a]
    BY <1>0, <2>1 DEF LosePower, Dirty, TypeOK
  <2>3. Recovered(disk') = Recovered(disk)
    BY <1>0, <1>14, <2>2, PowerLossStep, RecoveredKept
  <2>4. Abstract!Crash
    BY <1>1, <1>14, <2>3 DEF PowerLoss, LoseRAM, Abstract!Crash
  <2>5. QED
    BY <2>4 DEF Abstract!Next
<1>15. CASE Kill
  <2>1. Abstract!Crash
    BY <1>1, <1>2, <1>15 DEF Kill, LoseRAM, Abstract!Crash
  <2>2. QED
    BY <2>1 DEF Abstract!Next
<1>16. QED
  BY <1>3, <1>4, <1>5, <1>6, <1>7, <1>8, <1>9, <1>10, <1>11, <1>12, <1>13, <1>14,
     <1>15 DEF Next

\* The protocol of two slots, two syncs and a parity bit implements the atomic
\* commit of AtomicCommit, for every slot size and every set of snapshots.
THEOREM Implements == NoFlipFaults /\ Spec => ImplementsAtomicCommit
<1> SUFFICES ASSUME NoFlipFaults PROVE Spec => Abstract!Spec
  BY DEF ImplementsAtomicCommit
<1>1. Faultless /\ [Next]_vars => [Abstract!Next]_(Abstract!vars)
  <2> SUFFICES ASSUME Faultless, [Next]_vars
               PROVE  Abstract!Next \/ UNCHANGED Abstract!vars
    OBVIOUS
  <2>1. CASE UNCHANGED vars
    BY <2>1 DEF vars, Abstract!vars, phase
  <2>2. QED
    BY <2>1, StepRefines
<1>2. Spec => []Faultless
  BY FaultlessAlways
<1>3. QED
  BY <1>1, <1>2, InitRefines, PTL DEF Spec, Abstract!Spec
=============================================================================
