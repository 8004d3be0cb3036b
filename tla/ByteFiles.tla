----------------------------- MODULE ByteFiles -----------------------------
(***************************************************************************)
(* What the data operations promise, without records, block maps or        *)
(* references: every file is a sequence of bytes that an operation changes *)
(* as a whole or not at all, and a crash returns to bytes that all files   *)
(* had at one moment.                                                      *)
(***************************************************************************)
EXTENDS Naturals, Sequences

CONSTANTS Files, Chunks, Blobs, MaxSize

VARIABLES
    data,      \* the bytes of each file
    durable    \* the bytes a crash returns to

vars == <<data, durable>>

\* Position p (from 0) of b, or zero past its end.
ByteAt(b, p) == IF p < Len(b) THEN b[p + 1] ELSE 0

\* d laid over b from offset off; a gap before off reads as zeros.
Overlaid(b, off, d) ==
    LET end == off + Len(d)
    IN [q \in 1 .. (IF end > Len(b) THEN end ELSE Len(b)) |->
           IF q > off /\ q <= end THEN d[q - off] ELSE ByteAt(b, q - 1)]

Resized(b, n) == [q \in 1 .. n |-> ByteAt(b, q - 1)]

\* What one operation may make of the bytes b.
Results(b) ==
    Blobs \cup {Resized(b, n) : n \in 0 .. MaxSize}
          \cup {Overlaid(b, off, d) : off \in 0 .. MaxSize, d \in Chunks}

\* The operation succeeds or fails; a commit inside it makes durable what was
\* there before it.
Operate(f) ==
    /\ data'[f] = data[f] \/ data'[f] \in Results(data[f])
    /\ \A g \in Files \ {f} : data'[g] = data[g]
    /\ durable' \in {durable, data}

Commit == durable' = data /\ UNCHANGED data

Crash == data' = durable /\ UNCHANGED durable

Init ==
    /\ data = [f \in Files |-> <<>>]
    /\ durable = data

Next == (\E f \in Files : Operate(f)) \/ Commit \/ Crash

Spec == Init /\ [][Next]_vars
=============================================================================
