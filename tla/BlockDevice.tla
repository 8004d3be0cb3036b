---------------------------- MODULE BlockDevice ----------------------------
(***************************************************************************)
(* The disk as the filesystem sees it (src/rust/bloomfs-block): an array   *)
(* of blocks behind a write-back cache.  write_block only reaches the      *)
(* cache (buffered I/O); sync makes everything written so far durable; in  *)
(* between the system may persist any cached block, in any order.          *)
(*                                                                         *)
(* What the device does on its own (Writeback, PowerLoss, FailedSync) is   *)
(* the operating system and the drive, not code of the repository.         *)
(***************************************************************************)
CONSTANTS
    Junk,   \* the content of a block never written, or torn by a power loss
    None    \* "no unsynced write" in the cache

VARIABLES
    disk,   \* disk[a]: what is durable at block a
    cache   \* cache[a]: the last write to a that was not made durable, or None

devVars == <<disk, cache>>

Dirty == {a \in DOMAIN disk : cache[a] # None}

\* read_block: the reader sees the cached write when there is one.
ReadBlock(a) == IF cache[a] = None THEN disk[a] ELSE cache[a]

Image == [a \in DOMAIN disk |-> ReadBlock(a)]

\* A successful write_block for every block of a set: w[a] is a's new content.
WriteBlocks(w) ==
    /\ cache' = [a \in DOMAIN disk |-> IF a \in DOMAIN w THEN w[a] ELSE cache[a]]
    /\ UNCHANGED disk

\* A successful sync.
Sync ==
    /\ disk' = Image
    /\ cache' = [a \in DOMAIN disk |-> None]

\* The system persists one cached block of its own accord.
WritebackBlock(a) ==
    /\ a \in Dirty
    /\ disk' = [disk EXCEPT ![a] = cache[a]]
    /\ cache' = [cache EXCEPT ![a] = None]

\* Power fails: every unsynced write is lost, the blocks of torn half-written.
LosePower(torn) ==
    /\ torn \subseteq Dirty
    /\ disk' = [a \in DOMAIN disk |-> IF a \in torn THEN Junk ELSE disk[a]]
    /\ cache' = [a \in DOMAIN disk |-> None]
=============================================================================
