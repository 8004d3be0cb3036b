---------------------------- MODULE AtomicCommit ----------------------------
(***************************************************************************)
(* What the Copy-on-Write layer promises the filesystem above it: one      *)
(* stable snapshot of the metadata, replaced as a whole or not at all.     *)
(* A commit that fails before the flip leaves the previous snapshot; a     *)
(* commit that returned has flipped; a crash loses only the memory.        *)
(***************************************************************************)
CONSTANTS Snapshots, None

VARIABLES
    stable,   \* the snapshot a mount would load now; None on a blank device
    mem,      \* the snapshot the running filesystem would commit; None: not running
    phase     \* "idle", "committing" or "flipped" (stable already replaced)

vars == <<stable, mem, phase>>

TypeOK ==
    /\ stable \in Snapshots \cup {None}
    /\ mem \in Snapshots \cup {None}
    /\ phase \in {"idle", "committing", "flipped"}

Init == stable = None /\ mem = None /\ phase = "idle"

Mutate ==
    /\ phase = "idle" /\ mem # None
    /\ mem' \in Snapshots
    /\ UNCHANGED <<stable, phase>>

Format ==
    /\ phase = "idle" /\ mem = None /\ stable = None
    /\ mem' \in Snapshots
    /\ phase' = "committing"
    /\ UNCHANGED stable

Begin ==
    /\ phase = "idle" /\ mem # None
    /\ phase' = "committing"
    /\ UNCHANGED <<stable, mem>>

Flip ==
    /\ phase = "committing"
    /\ stable' = mem
    /\ phase' = "flipped"
    /\ UNCHANGED mem

\* After the flip the caller's memory may move on at once (deferred frees are
\* applied); mem' = None: a format returns without mounting.
ReturnOk ==
    /\ phase \in {"committing", "flipped"}
    /\ stable' = mem
    /\ mem' \in Snapshots \cup {None}
    /\ phase' = "idle"

ReturnErr ==
    /\ phase = "committing"
    /\ mem' \in {mem, None}
    /\ phase' = "idle"
    /\ UNCHANGED stable

Crash ==
    /\ mem' = None
    /\ phase' = "idle"
    /\ UNCHANGED stable

Mount ==
    /\ phase = "idle" /\ mem = None /\ stable # None
    /\ mem' = stable
    /\ UNCHANGED <<stable, phase>>

Next ==
    \/ Mutate \/ Format \/ Begin \/ Flip \/ ReturnOk \/ ReturnErr
    \/ Crash \/ Mount

Spec == Init /\ [][Next]_vars
=============================================================================
