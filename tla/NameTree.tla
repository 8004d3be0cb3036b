------------------------------ MODULE NameTree ------------------------------
(***************************************************************************)
(* What the namespace promises, without inodes, pages or caches: a set of  *)
(* bindings <<directory, name, inode>> that every operation changes in one *)
(* step, and a durable copy that is always one whole namespace the running *)
(* filesystem had, to which a crash returns.                               *)
(***************************************************************************)
CONSTANTS Ids, Names   \* inodes and names of directory entries

VARIABLES
    tree,      \* the bindings of the running filesystem
    durable    \* the bindings a crash returns to

vars == <<tree, durable>>

Bindings == Ids \X Names \X Ids

Place(b) == <<b[1], b[2]>>

\* A name that was not bound gets an inode.
Bind(b) ==
    /\ \A x \in tree : Place(x) # Place(b)
    /\ tree' = tree \cup {b}

Unbind(b) == tree' = tree \ {b}

\* The inode of binding b is bound at c instead; what c bound before goes.
Move(b, c) ==
    /\ c[3] = b[3]
    /\ tree' = {x \in tree \ {b} : Place(x) # Place(c)} \cup {c}

\* The tree changes by one whole operation, or not at all; a commit inside the
\* operation makes durable what was there before it or what is there after it.
Operate ==
    /\ \/ tree' = tree
       \/ \E b \in tree \ tree' : Unbind(b) \/ \E c \in tree' \ tree : Move(b, c)
       \/ \E c \in tree' \ tree : Bind(c)
    /\ durable' = durable \/ durable' = tree \/ durable' = tree'

Crash ==
    /\ tree' = durable
    /\ UNCHANGED durable

Init == tree = {} /\ durable = {}

Next == Operate \/ Crash

Spec == Init /\ [][Next]_vars
=============================================================================
