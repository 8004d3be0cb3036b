------------------------------- MODULE Bitmap -------------------------------
(***************************************************************************)
(* The free-space allocator (src/rust/bloomfs-alloc) at the grain of its   *)
(* loops: the scan of alloc takes one step per cluster, so that what it    *)
(* returns can be compared with the first-fit run it is meant to find,     *)
(* and the counters kept beside the bits can be compared with the bits.    *)
(* BlockStore uses the allocator through the operators FirstFit and        *)
(* NoSpace, which this module shows the scan to compute.                   *)
(*                                                                         *)
(* The caller frees or defers only runs it was handed, each once: owned    *)
(* is the set of runs it holds.                                            *)
(***************************************************************************)
EXTENDS Naturals, Sequences, FiniteSets

CONSTANTS
    Total,      \* number of clusters
    DataStart   \* the first clusters, reserved at format time

ASSUME BitmapAssumption == Total \in Nat /\ DataStart \in Nat

VARIABLES
    bits,       \* the clusters whose bit is set
    used,       \* the counter kept beside the bits
    deferred,   \* the runs to be freed after the next commit
    owned,      \* the runs the caller holds
    pc,         \* "idle", or "scan" inside alloc
    i, run, start, count,   \* the locals of alloc
    result      \* what the last alloc returned: "none", "ok" (start), "err"

loopVars == <<pc, i, run, start, count, result>>
vars == <<bits, used, deferred, owned, pc, i, run, start, count, result>>

Addr == 0 .. Total - 1
ClusterRange == [start : Addr, count : 1 .. Total]

Clusters(r) == r.start .. r.start + r.count - 1

----------------------------------------------------------------------------
\* A loop over [s, s+n) that stops at the end of the device.
Span(s, n) == {a \in Addr : s <= a /\ a < s + n}

\* Slip: the counter is not adjusted.
FreeUncounted(rs) ==
    LET span == {a \in Addr : \E r \in rs : a \in Span(r.start, r.count)}
    IN  bits' = bits \ span /\ used' = used

\* free: clear every set bit of the spans of a set of runs and count it.
Free(rs) ==
    LET span == {a \in Addr : \E r \in rs : a \in Span(r.start, r.count)}
    IN  /\ bits' = bits \ span
        /\ used' = used - Cardinality(span \cap bits)

\* new, then reserve(0, data_start).
Init ==
    /\ bits = Span(0, DataStart)
    /\ used = Cardinality(Span(0, DataStart))
    /\ deferred = << >> /\ owned = {}
    /\ pc = "idle" /\ result = "none"
    /\ i = 0 /\ run = 0 /\ start = 0 /\ count = 0

AllocZero ==
    /\ pc = "idle"
    /\ result' = "err" /\ count' = 0
    /\ UNCHANGED <<bits, used, deferred, owned, pc, i, run, start>>

AllocStart(n) ==
    /\ pc = "idle"
    /\ pc' = "scan" /\ count' = n
    /\ i' = 0 /\ run' = 0 /\ start' = 0 /\ result' = "none"
    /\ UNCHANGED <<bits, used, deferred, owned>>

\* Slip: the streak is not reset at a used cluster.
ScanUsedNoReset ==
    /\ pc = "scan" /\ i < Total /\ i \in bits
    /\ i' = i + 1
    /\ UNCHANGED <<bits, used, deferred, owned, pc, run, start, count, result>>

ScanUsed ==
    /\ pc = "scan" /\ i < Total /\ i \in bits
    /\ run' = 0 /\ i' = i + 1
    /\ UNCHANGED <<bits, used, deferred, owned, pc, start, count, result>>

RunStart == IF run = 0 THEN i ELSE start

ScanFree ==
    /\ pc = "scan" /\ i < Total /\ i \notin bits /\ run + 1 # count
    /\ start' = RunStart
    /\ run' = run + 1 /\ i' = i + 1
    /\ UNCHANGED <<bits, used, deferred, owned, pc, count, result>>

ScanFound ==
    /\ pc = "scan" /\ i < Total /\ i \notin bits /\ run + 1 = count
    /\ start' = RunStart
    /\ run' = run + 1
    /\ bits' = bits \cup RunStart .. RunStart + count - 1
    /\ used' = used + count
    /\ owned' = owned \cup {[start |-> RunStart, count |-> count]}
    /\ pc' = "idle" /\ result' = "ok"
    /\ UNCHANGED <<deferred, i, count>>

ScanEnd ==
    /\ pc = "scan" /\ i = Total
    /\ pc' = "idle" /\ result' = "err"
    /\ UNCHANGED <<bits, used, deferred, owned, i, run, start, count>>

\* The rollback of a failed write: the run becomes free at once.
FreeRun(r) ==
    /\ pc = "idle" /\ r \in owned
    /\ Free({r})
    /\ owned' = owned \ {r}
    /\ result' = "none"
    /\ UNCHANGED <<deferred, pc, i, run, start, count>>

Defer(r) ==
    /\ pc = "idle" /\ r \in owned
    /\ deferred' = Append(deferred, r)
    /\ owned' = owned \ {r}
    /\ result' = "none"
    /\ UNCHANGED <<bits, used, pc, i, run, start, count>>

DeferredRuns == {deferred[j] : j \in DOMAIN deferred}

\* Slip: the list is kept, so that its runs are freed again later.
ApplyDeferredKeeps ==
    /\ pc = "idle"
    /\ Free(DeferredRuns)
    /\ result' = "none"
    /\ UNCHANGED <<deferred, owned, pc, i, run, start, count>>

ApplyDeferred ==
    /\ pc = "idle"
    /\ Free(DeferredRuns)
    /\ deferred' = << >>
    /\ result' = "none"
    /\ UNCHANGED <<owned, pc, i, run, start, count>>

\* marshal, then unmarshal at the next mount: the bits survive, the counter is
\* recomputed, the deferred runs are gone.
Reload ==
    /\ pc = "idle"
    /\ used' = Cardinality(bits)
    /\ deferred' = << >>
    /\ result' = "none"
    /\ UNCHANGED <<bits, owned, pc, i, run, start, count>>

Next ==
    \/ AllocZero
    \/ \E n \in 1 .. Total : AllocStart(n)
    \/ ScanUsed \/ ScanFree \/ ScanFound \/ ScanEnd
    \/ \E r \in owned : FreeRun(r) \/ Defer(r)
    \/ ApplyDeferred \/ Reload

Spec == Init /\ [][Next]_vars

----------------------------------------------------------------------------
(* Properties. *)

\* Every variable holds a value of its type.
TypeOK ==
    /\ bits \subseteq Addr
    /\ used \in Nat
    /\ deferred \in Seq(ClusterRange)
    /\ owned \subseteq ClusterRange
    /\ pc \in {"idle", "scan"}
    /\ i \in 0 .. Total /\ run \in 0 .. Total /\ start \in 0 .. Total
    /\ count \in 0 .. Total
    /\ result \in {"none", "ok", "err"}

\* A free run of n clusters starts at s, in a bitmap b.
RunFree(b, s, n) == s + n <= Total /\ \A a \in s .. s + n - 1 : a \notin b

\* alloc returns the first contiguous free run that is long enough and marks
\* exactly that run; it fails only when the bitmap has none: an interrupted
\* streak is not counted on, the last clusters of the device are not missed.
AllocIsFirstFit ==
    [][/\ (pc = "scan" /\ result' = "ok") =>
            /\ RunFree(bits, start', count)
            /\ bits' = bits \cup Clusters([start |-> start', count |-> count])
            /\ \A s \in 0 .. start' - 1 : ~RunFree(bits, s, count)
       /\ (pc = "scan" /\ result' = "err") =>
            \A s \in Addr : ~RunFree(bits, s, count)]_vars

\* The counter statfs reports from is the number of set bits, so that
\* available() = total - used cannot underflow.
UsedExact == used = Cardinality(bits) /\ used <= Total

\* Runs handed out and runs awaiting their free never overlap, nor does any of
\* them include a reserved cluster; all of them are marked used.
RunsDisjoint ==
    /\ \A r \in owned \cup DeferredRuns :
          Clusters(r) \subseteq bits /\ Clusters(r) \cap Span(0, DataStart) = {}
    /\ \A r, q \in owned \cup DeferredRuns :
          r # q => Clusters(r) \cap Clusters(q) = {}
    /\ owned \cap DeferredRuns = {}
    /\ \A j, k \in DOMAIN deferred : j # k => deferred[j] # deferred[k]
=============================================================================
