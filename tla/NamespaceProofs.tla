--------------------------- MODULE NamespaceProofs --------------------------
(***************************************************************************)
(* What TLAPS proves of the namespace, for any names, inodes, handles and  *)
(* sizes of pages and caches: resident directories mirror the table, link  *)
(* counts and the reuse stack agree with the tree, the tree has no loop,   *)
(* a handle keeps its file, and the whole implements NameTree through      *)
(* failures, commits and crashes.                                          *)
(*                                                                         *)
(* The invariant speaks of the names as one set of bindings <<directory,   *)
(* name, inode>>: it is a forest whose edges an operation adds, takes away *)
(* or moves, and "no loop" is that no binding starts below where it ends.  *)
(* Pages, working copies and the cache only carry that set around.         *)
(***************************************************************************)
EXTENDS Namespace, InductionFacts, FiniteSetTheorems

----------------------------------------------------------------------------
(* The names as a set of bindings <<directory, name, inode>>. *)

Closed(T, S) == \A e \in T : e[1] \in S => e[3] \in S

\* What can be reached from r along the bindings T.
Below(T, r) == {x \in Ids : \A S \in SUBSET Ids : r \in S /\ Closed(T, S) => x \in S}

NamesIn(T, i) == {e \in T : e[3] = i}
SubdirsIn(T, D, d) == {e \in T : e[1] = d /\ e[3] \in D}

Bindings == Ids \X Names \X Ids

\* The bindings T and the directories D, all below nx, form a forest with one
\* tree for the root.
Forest(T, D, nx) ==
    /\ T \in SUBSET Bindings /\ D \in SUBSET Ids
    /\ \A e \in T : e[1] \in D /\ e[3] < nx /\ e[3] # Root
    /\ \A i \in D : i < nx
    /\ Root \in D
    /\ \A e, f \in T : e[3] = f[3] /\ e[3] \in D => e = f
    /\ \A e \in T : e[1] \notin Below(T, e[3])

\* No file has more names than links, and a directory counts its subdirectories.
Counted(T, D, L) ==
    /\ L \in [Ids -> Nat]
    /\ \A i \in Ids \ D : Cardinality(NamesIn(T, i)) <= L[i]
    /\ "move_dir" \notin Ops =>
          \A i \in D : L[i] = 2 + Cardinality(SubdirsIn(T, D, i))

\* With room on the device the counts are exact and nothing is out of reach, but
\* for the inodes in E, which an operation is about to bind.
Exact(T, D, L, nx, E) ==
    ~NoSpace =>
        \A i \in Ids \ E :
            /\ i \notin D => Cardinality(NamesIn(T, i)) = L[i]
            /\ i < nx => (i \notin D /\ L[i] = 0) \/ i \in Below(T, Root)

Sound(T, D, L, nx, E) ==
    nx \in Nat /\ Forest(T, D, nx) /\ Counted(T, D, L) /\ Exact(T, D, L, nx, E)

LEMMA IdsFacts == IsFiniteSet(Ids) /\ Cardinality(Ids) = InodeCap /\ Root \in Ids /\ Ids \in SUBSET Nat
<1>1. InodeCap \in Nat \ {0}
  BY NamespaceAssumption
<1>2. IsFiniteSet(0 .. InodeCap - 1) /\ Cardinality(0 .. InodeCap - 1) = InodeCap
  BY <1>1, FS_Interval
<1>3. QED
  BY <1>1, <1>2 DEF Ids, Root

LEMMA BindingsFinite ==
  ASSUME NEW T \in SUBSET Bindings
  PROVE  IsFiniteSet(T)
<1>1. IsFiniteSet(Names \X Ids)
  BY IdsFacts, NamespaceAssumption, FS_Product
<1>2. IsFiniteSet(Ids \X Names)
  BY IdsFacts, NamespaceAssumption, FS_Product
<1>3. IsFiniteSet(Bindings)
  <2>1. IsFiniteSet((Ids \X Names) \X Ids)
    BY <1>2, IdsFacts, FS_Product
  <2> DEFINE F == [x \in (Ids \X Names) \X Ids |-> <<x[1][1], x[1][2], x[2]>>]
  <2>2. F \in Surjection((Ids \X Names) \X Ids, Bindings)
    <3>1. ASSUME NEW x \in (Ids \X Names) \X Ids PROVE F[x] \in Bindings
      BY DEF Bindings
    <3>2. ASSUME NEW b \in Bindings PROVE \E x \in (Ids \X Names) \X Ids : F[x] = b
      <4>1. <<<<b[1], b[2]>>, b[3]>> \in (Ids \X Names) \X Ids
        BY DEF Bindings
      <4>2. F[<<<<b[1], b[2]>>, b[3]>>] = <<b[1], b[2], b[3]>>
        BY <4>1
      <4>3. <<b[1], b[2], b[3]>> = b
        BY DEF Bindings
      <4>4. QED
        BY <4>1, <4>2, <4>3
    <3>3. QED
      BY <3>1, <3>2 DEF Surjection
  <2>3. QED
    BY <2>1, <2>2, FS_Surjection
<1>4. QED
  BY <1>3, FS_Subset

----------------------------------------------------------------------------
(* What lies below an inode. *)

LEMMA BelowFacts ==
  ASSUME NEW T \in SUBSET Bindings, NEW r \in Ids
  PROVE  Below(T, r) \in SUBSET Ids /\ r \in Below(T, r) /\ Closed(T, Below(T, r))
<1>1. Below(T, r) \in SUBSET Ids /\ r \in Below(T, r)
  BY DEF Below
<1>2. ASSUME NEW e \in T, e[1] \in Below(T, r) PROVE e[3] \in Below(T, r)
  <2>1. e[3] \in Ids
    BY DEF Bindings
  <2>2. ASSUME NEW S \in SUBSET Ids, r \in S, Closed(T, S) PROVE e[3] \in S
    BY <1>2, <2>2 DEF Below, Closed
  <2>3. QED
    BY <2>1, <2>2 DEF Below
<1>3. QED
  BY <1>1, <1>2 DEF Closed

LEMMA BelowLeast ==
  ASSUME NEW T, NEW r, NEW S \in SUBSET Ids, r \in S, Closed(T, S)
  PROVE  Below(T, r) \subseteq S
BY DEF Below

\* Fewer bindings, less below.
LEMMA BelowShrinks ==
  ASSUME NEW T \in SUBSET Bindings, NEW U \in SUBSET T, NEW r \in Ids
  PROVE  Below(U, r) \subseteq Below(T, r)
<1>1. Closed(U, Below(T, r))
  BY BelowFacts DEF Closed
<1>2. QED
  BY <1>1, BelowFacts, BelowLeast

\* An inode without entries has nothing else below it.
LEMMA BelowLeaf ==
  ASSUME NEW T \in SUBSET Bindings, NEW r \in Ids, \A e \in T : e[1] # r
  PROVE  Below(T, r) = {r}
<1>1. Closed(T, {r})
  BY DEF Closed
<1>2. QED
  BY <1>1, BelowFacts, BelowLeast

\* What is below something below r is below r.
LEMMA BelowTransitive ==
  ASSUME NEW T \in SUBSET Bindings, NEW r \in Ids, NEW s \in Below(T, r)
  PROVE  Below(T, s) \subseteq Below(T, r)
BY BelowFacts, BelowLeast

Acyclic(T) == \A e \in T : e[1] \notin Below(T, e[3])

LEMMA AcyclicShrinks ==
  ASSUME NEW T \in SUBSET Bindings, NEW U \in SUBSET T, Acyclic(T)
  PROVE  Acyclic(U)
<1> SUFFICES ASSUME NEW e \in U PROVE e[1] \notin Below(U, e[3])
  BY DEF Acyclic
<1>1. e \in T /\ e[3] \in Ids
  BY DEF Bindings
<1>2. Below(U, e[3]) \subseteq Below(T, e[3])
  BY <1>1, BelowShrinks
<1>3. QED
  BY <1>1, <1>2 DEF Acyclic

\* A binding whose directory is not below its inode closes no loop.
LEMMA AcyclicGrows ==
  ASSUME NEW T \in SUBSET Bindings, NEW b \in Bindings, Acyclic(T), b[1] \notin Below(T, b[3])
  PROVE  Acyclic(T \cup {b})
<1> DEFINE U == T \cup {b}
           B == Below(T, b[3])
<1>1. U \in SUBSET Bindings /\ b[3] \in Ids
  BY DEF Bindings
<1>2. B \in SUBSET Ids /\ b[3] \in B /\ Closed(T, B)
  BY <1>1, BelowFacts
<1> SUFFICES ASSUME NEW e \in U PROVE e[1] \notin Below(U, e[3])
  BY DEF Acyclic
<1>3. e[1] \in Ids /\ e[3] \in Ids
  BY <1>1 DEF Bindings
<1> DEFINE C == Below(T, e[3])
<1>4. C \in SUBSET Ids /\ e[3] \in C /\ Closed(T, C)
  BY <1>3, BelowFacts
<1>5. e # b => e[1] \notin C
  BY DEF Acyclic
<1> HIDE DEF B, C
<1>6. CASE b[1] \notin C
  <2>1. Closed(U, C)
    BY <1>4, <1>6 DEF Closed
  <2>2. Below(U, e[3]) \subseteq C
    BY <1>4, <2>1, BelowLeast
  <2>3. e[1] \notin C
    BY <1>5, <1>6
  <2>4. QED
    BY <2>2, <2>3
<1>7. CASE b[1] \in C
  <2>1. Closed(U, C \cup B)
    BY <1>2, <1>4 DEF Closed
  <2>2. Below(U, e[3]) \subseteq C \cup B
    BY <1>2, <1>4, <2>1, BelowLeast
  <2>3. e # b
    BY <1>7 DEF B, C
  <2>4. e[1] \notin B
    <3> SUFFICES ASSUME e[1] \in B PROVE FALSE
      OBVIOUS
    <3>1. e[3] \in B
      BY <1>2, <2>3 DEF Closed
    <3>2. C \subseteq B
      BY <1>1, <3>1, BelowTransitive DEF B, C
    <3>3. QED
      BY <1>7, <3>2 DEF B
  <2>5. QED
    BY <1>5, <2>2, <2>3, <2>4
<1>8. QED
  BY <1>6, <1>7

----------------------------------------------------------------------------
(* Counting bindings. *)

LEMMA NamesAdded ==
  ASSUME NEW T \in SUBSET Bindings, NEW b \in Bindings, b \notin T, NEW i
  PROVE  /\ i # b[3] => NamesIn(T \cup {b}, i) = NamesIn(T, i)
         /\ Cardinality(NamesIn(T \cup {b}, b[3])) = Cardinality(NamesIn(T, b[3])) + 1
<1>1. i # b[3] => NamesIn(T \cup {b}, i) = NamesIn(T, i)
  BY DEF NamesIn
<1>2. NamesIn(T \cup {b}, b[3]) = NamesIn(T, b[3]) \cup {b}
  BY DEF NamesIn
<1>3. IsFiniteSet(NamesIn(T, b[3])) /\ b \notin NamesIn(T, b[3])
  <2>1. NamesIn(T, b[3]) \in SUBSET Bindings /\ b \notin NamesIn(T, b[3])
    BY DEF NamesIn
  <2>2. QED
    BY <2>1, BindingsFinite
<1>4. PICK S : S = NamesIn(T, b[3])
  OBVIOUS
<1>5. Cardinality(S \cup {b}) = Cardinality(S) + 1
  BY <1>3, <1>4, FS_AddElement
<1>6. QED
  BY <1>1, <1>2, <1>4, <1>5

LEMMA NamesFinite ==
  ASSUME NEW T \in SUBSET Bindings, NEW i
  PROVE  IsFiniteSet(NamesIn(T, i)) /\ Cardinality(NamesIn(T, i)) \in Nat
<1>1. NamesIn(T, i) \in SUBSET Bindings
  BY DEF NamesIn
<1>2. IsFiniteSet(NamesIn(T, i))
  BY <1>1, BindingsFinite
<1>3. QED
  BY <1>2, FS_CardinalityType

LEMMA NamesRemoved ==
  ASSUME NEW T \in SUBSET Bindings, NEW b \in T, NEW i
  PROVE  /\ i # b[3] => NamesIn(T \ {b}, i) = NamesIn(T, i)
         /\ Cardinality(NamesIn(T, b[3])) = Cardinality(NamesIn(T \ {b}, b[3])) + 1
<1>1. i # b[3] => NamesIn(T \ {b}, i) = NamesIn(T, i)
  BY DEF NamesIn
<1> DEFINE U == T \ {b}
<1>2. U \in SUBSET Bindings /\ b \in Bindings /\ b \notin U /\ U \cup {b} = T
  OBVIOUS
<1> HIDE DEF U
<1>3. Cardinality(NamesIn(U \cup {b}, b[3])) = Cardinality(NamesIn(U, b[3])) + 1
  BY <1>2, NamesAdded
<1>4. QED
  BY <1>1, <1>2, <1>3 DEF U

LEMMA SubdirsFinite ==
  ASSUME NEW T \in SUBSET Bindings, NEW D, NEW d
  PROVE  IsFiniteSet(SubdirsIn(T, D, d)) /\ Cardinality(SubdirsIn(T, D, d)) \in Nat
<1>1. SubdirsIn(T, D, d) \in SUBSET Bindings
  BY DEF SubdirsIn
<1>2. IsFiniteSet(SubdirsIn(T, D, d))
  BY <1>1, BindingsFinite
<1>3. QED
  BY <1>2, FS_CardinalityType

LEMMA SubdirsAdded ==
  ASSUME NEW T \in SUBSET Bindings, NEW D, NEW b \in Bindings, b \notin T, NEW d
  PROVE  /\ d # b[1] \/ b[3] \notin D => SubdirsIn(T \cup {b}, D, d) = SubdirsIn(T, D, d)
         /\ b[3] \in D => Cardinality(SubdirsIn(T \cup {b}, D, b[1]))
                            = Cardinality(SubdirsIn(T, D, b[1])) + 1
<1>1. d # b[1] \/ b[3] \notin D => SubdirsIn(T \cup {b}, D, d) = SubdirsIn(T, D, d)
  BY DEF SubdirsIn
<1>2. b[3] \in D => SubdirsIn(T \cup {b}, D, b[1]) = SubdirsIn(T, D, b[1]) \cup {b}
  BY DEF SubdirsIn
<1>3. b \notin SubdirsIn(T, D, b[1])
  BY DEF SubdirsIn
<1>4. IsFiniteSet(SubdirsIn(T, D, b[1]))
  BY SubdirsFinite
<1>5. PICK S : S = SubdirsIn(T, D, b[1])
  OBVIOUS
<1>6. Cardinality(S \cup {b}) = Cardinality(S) + 1
  BY <1>3, <1>4, <1>5, FS_AddElement
<1>7. QED
  BY <1>1, <1>2, <1>5, <1>6

LEMMA SubdirsRemoved ==
  ASSUME NEW T \in SUBSET Bindings, NEW D, NEW b \in T, NEW d
  PROVE  /\ d # b[1] \/ b[3] \notin D => SubdirsIn(T \ {b}, D, d) = SubdirsIn(T, D, d)
         /\ b[3] \in D => Cardinality(SubdirsIn(T, D, b[1]))
                            = Cardinality(SubdirsIn(T \ {b}, D, b[1])) + 1
<1>1. d # b[1] \/ b[3] \notin D => SubdirsIn(T \ {b}, D, d) = SubdirsIn(T, D, d)
  BY DEF SubdirsIn
<1> DEFINE U == T \ {b}
<1>2. U \in SUBSET Bindings /\ b \in Bindings /\ b \notin U /\ U \cup {b} = T
  OBVIOUS
<1> HIDE DEF U
<1>3. b[3] \in D => Cardinality(SubdirsIn(U \cup {b}, D, b[1]))
                            = Cardinality(SubdirsIn(U, D, b[1])) + 1
  BY <1>2, SubdirsAdded
<1>4. QED
  BY <1>1, <1>2, <1>3 DEF U

----------------------------------------------------------------------------
(* What an operation does to a sound tree. *)

\* The premises of binding b: its inode has a link to spare.
MayBind(T, D, L, nx, b) ==
    /\ b \in Bindings \ T /\ b[1] \in D /\ b[3] < nx /\ b[3] # Root
    /\ b[1] \notin Below(T, b[3])
    /\ b[3] \in D => NamesIn(T, b[3]) = {}
    /\ b[3] \notin D => /\ Cardinality(NamesIn(T, b[3])) + 1 <= L[b[3]]
                        /\ ~NoSpace => Cardinality(NamesIn(T, b[3])) + 1 = L[b[3]]

LEMMA SoundBind ==
  ASSUME NEW T, NEW D, NEW L, NEW nx, NEW E, NEW b, Sound(T, D, L, nx, E),
         MayBind(T, D, L, nx, b), E \subseteq {b[3]}
  PROVE  Sound(T \cup {b}, D, IF b[3] \in D THEN [L EXCEPT ![b[1]] = @ + 1] ELSE L, nx, {})
<1> DEFINE U == T \cup {b}
           M == IF b[3] \in D THEN [L EXCEPT ![b[1]] = @ + 1] ELSE L
<1>1. /\ nx \in Nat /\ T \in SUBSET Bindings /\ D \in SUBSET Ids
      /\ b \in Bindings /\ b \notin T /\ b[1] \in D /\ b[3] < nx /\ b[3] # Root
      /\ b[1] \in Ids /\ b[3] \in Ids /\ Root \in Ids
      /\ U \in SUBSET Bindings
      /\ L \in [Ids -> Nat]
  BY IdsFacts DEF Sound, Forest, MayBind, Bindings, Counted
<1>2. Acyclic(U)
  BY <1>1, AcyclicGrows DEF Sound, Forest, Acyclic, MayBind
<1>3. \A e, f \in U : e[3] = f[3] /\ e[3] \in D => e = f
  <2>1. \A e, f \in T : e[3] = f[3] /\ e[3] \in D => e = f
    BY DEF Sound, Forest
  <2>2. \A e \in T : b[3] \in D => e[3] # b[3]
    BY DEF MayBind, NamesIn
  <2>3. QED
    BY <2>1, <2>2
<1>4. Forest(U, D, nx)
  BY <1>1, <1>2, <1>3 DEF Sound, Forest, Acyclic
<1>5. M \in [Ids -> Nat] /\ (\A i \in Ids : i # b[1] => M[i] = L[i])
      /\ (b[3] \in D => M[b[1]] = L[b[1]] + 1) /\ (b[3] \notin D => M = L)
  BY <1>1
<1> HIDE DEF M
<1>6. ASSUME NEW i \in Ids \ D PROVE
        /\ Cardinality(NamesIn(U, i)) <= M[i]
        /\ ~NoSpace /\ (i \notin E \/ i = b[3]) => Cardinality(NamesIn(U, i)) = M[i]
  <2>1. i # b[1] /\ M[i] = L[i] /\ L[i] \in Nat
    BY <1>1, <1>5
  <2>2. CASE i # b[3]
    <3>1. NamesIn(U, i) = NamesIn(T, i)
      BY <1>1, <2>2, NamesAdded
    <3>2. Cardinality(NamesIn(T, i)) <= L[i]
      BY DEF Sound, Counted
    <3>3. ~NoSpace /\ i \notin E => Cardinality(NamesIn(T, i)) = L[i]
      BY DEF Sound, Exact
    <3>4. QED
      BY <2>1, <2>2, <3>1, <3>2, <3>3
  <2>3. CASE i = b[3]
    <3>1. Cardinality(NamesIn(U, b[3])) = Cardinality(NamesIn(T, b[3])) + 1
      BY <1>1, NamesAdded
    <3>2. QED
      BY <2>1, <2>3, <3>1 DEF MayBind
  <2>4. QED
    BY <2>2, <2>3
<1>7. ASSUME "move_dir" \notin Ops, NEW i \in D PROVE M[i] = 2 + Cardinality(SubdirsIn(U, D, i))
  <2>1. L[i] = 2 + Cardinality(SubdirsIn(T, D, i)) /\ i \in Ids
    BY <1>1, <1>7 DEF Sound, Counted
  <2>2. CASE i # b[1] \/ b[3] \notin D
    <3>1. SubdirsIn(U, D, i) = SubdirsIn(T, D, i)
      BY <1>1, <2>2, SubdirsAdded
    <3>2. M[i] = L[i]
      BY <1>5, <2>1, <2>2
    <3>3. QED
      BY <2>1, <3>1, <3>2
  <2>3. CASE i = b[1] /\ b[3] \in D
    <3>1. Cardinality(SubdirsIn(U, D, b[1])) = Cardinality(SubdirsIn(T, D, b[1])) + 1
      BY <1>1, <2>3, SubdirsAdded
    <3>2. Cardinality(SubdirsIn(T, D, b[1])) \in Nat
      BY <1>1, SubdirsFinite
    <3>3. QED
      BY <1>5, <2>1, <2>3, <3>1, <3>2
  <2>4. QED
    BY <2>2, <2>3
<1>8. Counted(U, D, M)
  BY <1>5, <1>6, <1>7 DEF Counted
<1>9. ASSUME ~NoSpace, NEW i \in Ids, i < nx
      PROVE  (i \notin D /\ M[i] = 0) \/ i \in Below(U, Root)
  <2>1. Below(T, Root) \subseteq Below(U, Root) /\ Closed(U, Below(U, Root))
    BY <1>1, BelowShrinks, BelowFacts
  <2>2. CASE i # b[3]
    <3>1. i \notin E
      BY <2>2
    <3>2. (i \notin D /\ L[i] = 0) \/ i \in Below(T, Root)
      BY <1>9, <3>1 DEF Sound, Exact
    <3>3. QED
      BY <1>1, <1>5, <2>1, <3>2
  <2>3. CASE i = b[3]
    <3>1. b[1] # b[3]
      BY <1>1, BelowFacts DEF MayBind
    <3>2. b[1] \notin E /\ b[1] < nx
      BY <1>1, <3>1 DEF Sound, Forest
    <3>3. b[1] \in Below(T, Root)
      BY <1>1, <1>9, <3>2 DEF Sound, Exact
    <3>4. QED
      BY <2>1, <2>3, <3>3 DEF Closed
  <2>4. QED
    BY <2>2, <2>3
<1>10. Exact(U, D, M, nx, {})
  <2>1. ASSUME ~NoSpace, NEW i \in Ids, i \notin D PROVE Cardinality(NamesIn(U, i)) = M[i]
    <3>1. i \in Ids \ D /\ (i \notin E \/ i = b[3])
      BY <2>1
    <3>2. QED
      BY <1>6, <2>1, <3>1
  <2>2. QED
    BY <1>9, <2>1 DEF Exact
<1>11. QED
  BY <1>1, <1>4, <1>8, <1>10 DEF Sound, M

\* An inode without names gets a new kind and its first links.
LEMMA SoundFresh ==
  ASSUME NEW T, NEW D, NEW L, NEW nx, NEW ny \in Nat, NEW id \in Ids \ D, NEW C \in SUBSET {id},
         Sound(T, D, L, nx, {}), NamesIn(T, id) = {},
         nx <= ny, id < ny, \A i \in Ids : i < ny => i < nx \/ i = id
  PROVE  Sound(T, D \cup C, [L EXCEPT ![id] = IF C = {} THEN 1 ELSE 2], ny, {id})
<1> DEFINE F == D \cup C
           M == [L EXCEPT ![id] = IF C = {} THEN 1 ELSE 2]
<1>1. /\ nx \in Nat /\ T \in SUBSET Bindings /\ D \in SUBSET Ids /\ L \in [Ids -> Nat]
      /\ F \in SUBSET Ids /\ Ids \in SUBSET Nat
  BY IdsFacts DEF Sound, Forest, Counted
<1>2. /\ M \in [Ids -> Nat] /\ M[id] = IF C = {} THEN 1 ELSE 2
      /\ \A i \in Ids : i # id => M[i] = L[i]
  BY <1>1
<1>3. \A e \in T : e[3] # id /\ e[1] # id
  BY DEF NamesIn, Sound, Forest
<1> HIDE DEF M
<1>4. Forest(T, F, ny)
  <2>1. \A e \in T : e[1] \in F /\ e[3] < ny /\ e[3] # Root
    <3>1. \A e \in T : e[1] \in D /\ e[3] < nx /\ e[3] # Root /\ e[3] \in Nat
      BY <1>1 DEF Sound, Forest, Bindings
    <3>2. QED
      BY <1>1, <3>1
  <2>2. \A i \in F : i < ny
    <3>1. \A i \in D : i < nx /\ i \in Nat
      BY <1>1 DEF Sound, Forest
    <3>2. QED
      BY <1>1, <3>1
  <2>3. \A e, f \in T : e[3] = f[3] /\ e[3] \in F => e = f
    BY <1>3 DEF Sound, Forest
  <2>4. QED
    BY <1>1, <2>1, <2>2, <2>3 DEF Sound, Forest
<1>5. Counted(T, F, M)
  <2>1. ASSUME NEW i \in Ids \ F PROVE Cardinality(NamesIn(T, i)) <= M[i]
    <3>1. CASE i = id
      <4>1. Cardinality(NamesIn(T, i)) = 0
        BY <3>1, FS_EmptySet
      <4>2. QED
        BY <1>2, <3>1, <4>1
    <3>2. CASE i # id
      BY <1>2, <3>2 DEF Sound, Counted
    <3>3. QED
      BY <3>1, <3>2
  <2>2. ASSUME "move_dir" \notin Ops, NEW i \in F PROVE M[i] = 2 + Cardinality(SubdirsIn(T, F, i))
    <3>1. CASE i = id
      <4>1. SubdirsIn(T, F, i) = {}
        BY <1>3, <3>1 DEF SubdirsIn
      <4>2. C # {}
        BY <3>1
      <4>3. Cardinality(SubdirsIn(T, F, i)) = 0
        BY <4>1, FS_EmptySet
      <4>4. QED
        BY <1>2, <3>1, <4>2, <4>3
    <3>2. CASE i # id
      <4>1. SubdirsIn(T, F, i) = SubdirsIn(T, D, i)
        BY <1>3 DEF SubdirsIn
      <4>2. i \in D /\ i \in Ids
        BY <1>1, <3>2
      <4>3. QED
        BY <1>2, <2>2, <3>2, <4>1, <4>2 DEF Sound, Counted
    <3>3. QED
      BY <3>1, <3>2
  <2>3. QED
    BY <1>2, <2>1, <2>2 DEF Counted
<1>6. Exact(T, F, M, ny, {id})
  <2> SUFFICES ASSUME ~NoSpace, NEW i \in Ids, i # id
               PROVE  /\ i \notin F => Cardinality(NamesIn(T, i)) = M[i]
                      /\ i < ny => (i \notin F /\ M[i] = 0) \/ i \in Below(T, Root)
    BY DEF Exact
  <2>1. /\ i \notin D => Cardinality(NamesIn(T, i)) = L[i]
        /\ i < nx => (i \notin D /\ L[i] = 0) \/ i \in Below(T, Root)
    BY DEF Sound, Exact
  <2>2. M[i] = L[i] /\ (i \in F <=> i \in D) /\ (i < ny => i < nx)
    BY <1>2
  <2>3. QED
    BY <2>1, <2>2
<1>7. QED
  BY <1>4, <1>5, <1>6 DEF Sound, M

\* A file gets a link before it gets the name.
LEMMA SoundLinked ==
  ASSUME NEW T, NEW D, NEW L, NEW nx, NEW id \in Ids \ D, Sound(T, D, L, nx, {})
  PROVE  Sound(T, D, [L EXCEPT ![id] = @ + 1], nx, {id})
<1> DEFINE M == [L EXCEPT ![id] = @ + 1]
<1>1. /\ nx \in Nat /\ T \in SUBSET Bindings /\ D \in SUBSET Ids /\ L \in [Ids -> Nat]
  BY DEF Sound, Forest, Counted
<1>2. M \in [Ids -> Nat] /\ M[id] = L[id] + 1 /\ \A i \in Ids : i # id => M[i] = L[i]
  BY <1>1
<1> HIDE DEF M
<1>3. Counted(T, D, M)
  <2>1. ASSUME NEW i \in Ids \ D PROVE Cardinality(NamesIn(T, i)) <= M[i]
    <3>1. Cardinality(NamesIn(T, i)) <= L[i] /\ Cardinality(NamesIn(T, i)) \in Nat /\ L[i] \in Nat
      BY <1>1, NamesFinite DEF Sound, Counted
    <3>2. QED
      BY <1>2, <3>1
  <2>2. ASSUME "move_dir" \notin Ops, NEW i \in D PROVE M[i] = 2 + Cardinality(SubdirsIn(T, D, i))
    BY <1>1, <1>2, <2>2 DEF Sound, Counted
  <2>3. QED
    BY <1>2, <2>1, <2>2 DEF Counted
<1>4. Exact(T, D, M, nx, {id})
  BY <1>2 DEF Sound, Exact
<1>5. QED
  BY <1>3, <1>4 DEF Sound, M

\* A file loses a name and a link.
LEMMA SoundUnbind ==
  ASSUME NEW T, NEW D, NEW L, NEW nx, NEW b \in T, b[3] \notin D, Sound(T, D, L, nx, {})
  PROVE  Sound(T \ {b}, D, [L EXCEPT ![b[3]] = @ - 1], nx, {}) /\ L[b[3]] > 0
<1> DEFINE U == T \ {b}
           id == b[3]
           M == [L EXCEPT ![id] = @ - 1]
<1>1. /\ nx \in Nat /\ T \in SUBSET Bindings /\ D \in SUBSET Ids /\ L \in [Ids -> Nat]
      /\ U \in SUBSET Bindings /\ U \in SUBSET T /\ id \in Ids /\ b \in Bindings
      /\ Root \in D /\ Root \in Ids
  BY DEF Sound, Forest, Counted, Bindings
<1>2. Cardinality(NamesIn(T, id)) = Cardinality(NamesIn(U, id)) + 1
  BY <1>1, NamesRemoved
<1>3. Cardinality(NamesIn(U, id)) \in Nat /\ L[id] \in Nat /\ Cardinality(NamesIn(T, id)) <= L[id]
  BY <1>1, NamesFinite DEF Sound, Counted
<1>4. L[id] > 0 /\ L[id] - 1 \in Nat
  BY <1>2, <1>3
<1>5. M \in [Ids -> Nat] /\ M[id] = L[id] - 1 /\ \A i \in Ids : i # id => M[i] = L[i]
  BY <1>1, <1>4
<1> HIDE DEF M
<1>6. Forest(U, D, nx)
  <2>1. Acyclic(U)
    BY <1>1, AcyclicShrinks DEF Sound, Forest, Acyclic
  <2>2. QED
    BY <1>1, <2>1 DEF Sound, Forest, Acyclic
<1>7. \A i \in Ids : i # id => NamesIn(U, i) = NamesIn(T, i)
  BY <1>1, NamesRemoved
<1>8. Counted(U, D, M)
  <2>1. ASSUME NEW i \in Ids \ D PROVE Cardinality(NamesIn(U, i)) <= M[i]
    <3>1. CASE i = id
      BY <1>2, <1>3, <1>5, <3>1
    <3>2. CASE i # id
      BY <1>5, <1>7, <3>2 DEF Sound, Counted
    <3>3. QED
      BY <3>1, <3>2
  <2>2. ASSUME "move_dir" \notin Ops, NEW i \in D PROVE M[i] = 2 + Cardinality(SubdirsIn(U, D, i))
    <3>1. SubdirsIn(U, D, i) = SubdirsIn(T, D, i)
      BY <1>1, SubdirsRemoved
    <3>2. i \in Ids /\ i # id
      BY <1>1
    <3>3. QED
      BY <1>5, <2>2, <3>1, <3>2 DEF Sound, Counted
  <2>3. QED
    BY <1>5, <2>1, <2>2 DEF Counted
<1>9. ASSUME NEW x \in Below(T, Root), x # id PROVE x \in Below(U, Root)
  <2> DEFINE S == Below(U, Root) \cup {id}
  <2>1. Below(U, Root) \in SUBSET Ids /\ Root \in Below(U, Root) /\ Closed(U, Below(U, Root))
    BY <1>1, BelowFacts
  <2>2. \A e \in T : e[1] # id
    BY DEF Sound, Forest
  <2>3. Closed(T, S)
    BY <2>1, <2>2 DEF Closed
  <2>4. S \in SUBSET Ids /\ Root \in S
    BY <1>1, <2>1
  <2>5. Below(T, Root) \subseteq S
    BY <2>3, <2>4, BelowLeast
  <2>6. QED
    BY <1>9, <2>5
<1>10. Exact(U, D, M, nx, {})
  <2> SUFFICES ASSUME ~NoSpace, NEW i \in Ids
               PROVE  /\ i \notin D => Cardinality(NamesIn(U, i)) = M[i]
                      /\ i < nx => (i \notin D /\ M[i] = 0) \/ i \in Below(U, Root)
    BY DEF Exact
  <2>1. /\ i \notin D => Cardinality(NamesIn(T, i)) = L[i]
        /\ i < nx => (i \notin D /\ L[i] = 0) \/ i \in Below(T, Root)
    BY DEF Sound, Exact
  <2>2. CASE i # id
    BY <1>5, <1>7, <1>9, <2>1, <2>2
  <2>3. CASE i = id
    <3>1. Cardinality(NamesIn(U, id)) = M[id]
      BY <1>2, <1>3, <1>5, <2>1, <2>3
    <3>2. CASE M[id] = 0
      BY <2>3, <3>1, <3>2
    <3>3. CASE M[id] # 0
      <4>1. NamesIn(U, id) # {}
        BY <3>1, <3>3, FS_EmptySet
      <4>2. PICK e \in U : e[3] = id
        BY <4>1 DEF NamesIn
      <4>3. e[1] \in D /\ e[1] \in Ids /\ e[1] < nx /\ e[1] # id
        BY <1>1, <4>2 DEF Sound, Forest
      <4>4. e[1] \in Below(T, Root)
        BY <4>3 DEF Sound, Exact
      <4>5. e[1] \in Below(U, Root)
        BY <1>9, <4>3, <4>4
      <4>6. id \in Below(U, Root)
        BY <1>1, <4>2, <4>5, BelowFacts DEF Closed
      <4>7. QED
        BY <2>3, <3>1, <4>6
    <3>4. QED
      BY <3>2, <3>3
  <2>4. QED
    BY <2>2, <2>3
<1>11. QED
  BY <1>1, <1>4, <1>6, <1>8, <1>10 DEF Sound, M

\* An empty directory loses its name and becomes an inode without links.
LEMMA SoundRemove ==
  ASSUME NEW T, NEW D, NEW L, NEW nx, NEW b \in T, b[3] \in D, \A e \in T : e[1] # b[3],
         Sound(T, D, L, nx, {})
  PROVE  Sound(T \ {b}, D \ {b[3]}, [L EXCEPT ![b[1]] = Less(@), ![b[3]] = 0], nx, {})
<1> DEFINE U == T \ {b}
           id == b[3]
           d == b[1]
           F == D \ {id}
           M == [L EXCEPT ![d] = Less(@), ![id] = 0]
<1>1. /\ nx \in Nat /\ T \in SUBSET Bindings /\ D \in SUBSET Ids /\ L \in [Ids -> Nat]
      /\ U \in SUBSET Bindings /\ U \in SUBSET T /\ id \in Ids /\ b \in Bindings /\ d \in Ids
      /\ Root \in D /\ Root \in Ids /\ d # id /\ id # Root /\ d \in D
  BY DEF Sound, Forest, Counted, Bindings
<1>2. M \in [Ids -> Nat] /\ M[id] = 0 /\ M[d] = Less(L[d])
      /\ \A i \in Ids : i # id /\ i # d => M[i] = L[i]
  BY <1>1 DEF Less
<1> HIDE DEF M
<1>3. \A e \in U : e[3] # id
  BY <1>1 DEF Sound, Forest
<1>4. Forest(U, F, nx)
  <2>1. Acyclic(U)
    BY <1>1, AcyclicShrinks DEF Sound, Forest, Acyclic
  <2>2. \A e \in U : e[1] \in F
    BY <1>1 DEF Sound, Forest
  <2>3. QED
    BY <1>1, <2>1, <2>2 DEF Sound, Forest, Acyclic
<1>5. \A i \in Ids : i # id => NamesIn(U, i) = NamesIn(T, i)
  BY <1>1, NamesRemoved
<1>6. Cardinality(NamesIn(U, id)) = 0
  <2>1. NamesIn(U, id) = {}
    BY <1>3 DEF NamesIn
  <2>2. QED
    BY <2>1, FS_EmptySet
<1>7. Counted(U, F, M)
  <2>1. ASSUME NEW i \in Ids \ F PROVE Cardinality(NamesIn(U, i)) <= M[i]
    <3>1. CASE i = id
      BY <1>2, <1>6, <3>1
    <3>2. CASE i # id
      BY <1>1, <1>2, <1>5, <3>2 DEF Sound, Counted
    <3>3. QED
      BY <3>1, <3>2
  <2>2. ASSUME "move_dir" \notin Ops, NEW i \in F PROVE M[i] = 2 + Cardinality(SubdirsIn(U, F, i))
    <3>1. SubdirsIn(U, F, i) = SubdirsIn(U, D, i)
      BY <1>3 DEF SubdirsIn
    <3>2. L[i] = 2 + Cardinality(SubdirsIn(T, D, i)) /\ i \in Ids /\ i # id
      BY <1>1, <2>2 DEF Sound, Counted
    <3>3. CASE i # d
      <4>1. SubdirsIn(U, D, i) = SubdirsIn(T, D, i)
        BY <1>1, <3>3, SubdirsRemoved
      <4>2. QED
        BY <1>2, <3>1, <3>2, <3>3, <4>1
    <3>4. CASE i = d
      <4>1. Cardinality(SubdirsIn(T, D, d)) = Cardinality(SubdirsIn(U, D, d)) + 1
        BY <1>1, SubdirsRemoved
      <4>2. Cardinality(SubdirsIn(U, D, d)) \in Nat
        BY <1>1, SubdirsFinite
      <4>3. M[d] = L[d] - 1
        BY <1>2, <3>2, <3>4, <4>1, <4>2 DEF Less
      <4>4. QED
        BY <3>1, <3>2, <3>4, <4>1, <4>2, <4>3
    <3>5. QED
      BY <3>3, <3>4
  <2>3. QED
    BY <1>2, <2>1, <2>2 DEF Counted
<1>8. ASSUME NEW x \in Below(T, Root), x # id PROVE x \in Below(U, Root)
  <2> DEFINE S == Below(U, Root) \cup {id}
  <2>1. Below(U, Root) \in SUBSET Ids /\ Root \in Below(U, Root) /\ Closed(U, Below(U, Root))
    BY <1>1, BelowFacts
  <2>2. Closed(T, S)
    BY <2>1 DEF Closed
  <2>3. S \in SUBSET Ids /\ Root \in S
    BY <1>1, <2>1
  <2>4. Below(T, Root) \subseteq S
    BY <2>2, <2>3, BelowLeast
  <2>5. QED
    BY <1>8, <2>4
<1>9. Exact(U, F, M, nx, {})
  <2> SUFFICES ASSUME ~NoSpace, NEW i \in Ids
               PROVE  /\ i \notin F => Cardinality(NamesIn(U, i)) = M[i]
                      /\ i < nx => (i \notin F /\ M[i] = 0) \/ i \in Below(U, Root)
    BY DEF Exact
  <2>1. /\ i \notin D => Cardinality(NamesIn(T, i)) = L[i]
        /\ i < nx => (i \notin D /\ L[i] = 0) \/ i \in Below(T, Root)
    BY DEF Sound, Exact
  <2>2. CASE i # id
    BY <1>1, <1>2, <1>5, <1>8, <2>1, <2>2
  <2>3. CASE i = id
    BY <1>2, <1>6, <2>3
  <2>4. QED
    BY <2>2, <2>3
<1>10. QED
  BY <1>1, <1>4, <1>7, <1>9 DEF Sound, M

\* A binding moves: its inode stays what it is and keeps what is below it.
MayMove(T, D, b, c) ==
    /\ b \in T /\ c \in Bindings \ T /\ c[3] = b[3] /\ c[1] \in D
    /\ c[1] \notin Below(T, b[3])
    /\ b[3] \in D /\ "move_dir" \notin Ops => c[1] = b[1]

LEMMA SoundMove ==
  ASSUME NEW T, NEW D, NEW L, NEW nx, NEW b, NEW c, MayMove(T, D, b, c), Sound(T, D, L, nx, {})
  PROVE  Sound((T \ {b}) \cup {c}, D, L, nx, {})
<1> DEFINE V == T \ {b}
           U == V \cup {c}
           id == b[3]
           B == Below(T, id)
<1>1. /\ nx \in Nat /\ T \in SUBSET Bindings /\ D \in SUBSET Ids /\ L \in [Ids -> Nat]
      /\ V \in SUBSET Bindings /\ V \in SUBSET T /\ U \in SUBSET Bindings
      /\ id \in Ids /\ b \in Bindings /\ c \in Bindings /\ b \in T /\ c \notin T /\ c \notin V
      /\ Root \in D /\ Root \in Ids /\ c[3] = id /\ c[1] \in D /\ c[1] \in Ids /\ id # Root
      /\ id < nx /\ b[1] \in D /\ c[1] \notin B /\ b[1] \notin B
      /\ (id \in D /\ "move_dir" \notin Ops => c[1] = b[1])
  BY DEF Sound, Forest, Counted, Bindings, MayMove
<1>2. Acyclic(U)
  <2>1. Acyclic(V)
    BY <1>1, AcyclicShrinks DEF Sound, Forest, Acyclic
  <2>2. Below(V, id) \subseteq B
    BY <1>1, BelowShrinks
  <2>3. c[1] \notin Below(V, c[3])
    BY <1>1, <2>2
  <2> HIDE DEF V
  <2>4. QED
    BY <1>1, <2>1, <2>3, AcyclicGrows
<1>3. Forest(U, D, nx)
  <2>1. \A e \in U : e[1] \in D /\ e[3] < nx /\ e[3] # Root
    BY <1>1 DEF Sound, Forest
  <2>2. \A e, f \in U : e[3] = f[3] /\ e[3] \in D => e = f
    <3>1. \A e, f \in T : e[3] = f[3] /\ e[3] \in D => e = f
      BY DEF Sound, Forest
    <3>2. QED
      BY <1>1, <3>1
  <2>3. QED
    BY <1>1, <1>2, <2>1, <2>2 DEF Sound, Forest, Acyclic
<1>4. \A i \in Ids : Cardinality(NamesIn(U, i)) = Cardinality(NamesIn(T, i))
  <2> TAKE i \in Ids
  <2>1. CASE i # id
    <3>1. NamesIn(V, i) = NamesIn(T, i)
      BY <1>1, <2>1, NamesRemoved
    <3>2. NamesIn(U, i) = NamesIn(V, i)
      BY <1>1, <2>1 DEF NamesIn
    <3>3. QED
      BY <3>1, <3>2
  <2>2. CASE i = id
    <3>1. Cardinality(NamesIn(T, id)) = Cardinality(NamesIn(V, id)) + 1
      BY <1>1, NamesRemoved
    <3> HIDE DEF V
    <3>2. Cardinality(NamesIn(V \cup {c}, c[3])) = Cardinality(NamesIn(V, c[3])) + 1
      BY <1>1, NamesAdded
    <3>3. QED
      BY <1>1, <2>2, <3>1, <3>2
  <2>3. QED
    BY <2>1, <2>2
<1>5. ASSUME "move_dir" \notin Ops, NEW i \in D
      PROVE  Cardinality(SubdirsIn(U, D, i)) = Cardinality(SubdirsIn(T, D, i))
  <2>1. CASE id \notin D \/ i # b[1]
    <3>1. SubdirsIn(V, D, i) = SubdirsIn(T, D, i)
      BY <1>1, <2>1, SubdirsRemoved
    <3>2. SubdirsIn(U, D, i) = SubdirsIn(V, D, i)
      BY <1>1, <1>5, <2>1 DEF SubdirsIn
    <3>3. QED
      BY <3>1, <3>2
  <2>2. CASE id \in D /\ i = b[1]
    <3>1. Cardinality(SubdirsIn(T, D, b[1])) = Cardinality(SubdirsIn(V, D, b[1])) + 1
      BY <1>1, <2>2, SubdirsRemoved
    <3>2. c[1] = b[1] /\ c[3] \in D
      BY <1>1, <1>5, <2>2
    <3> HIDE DEF V
    <3>3. Cardinality(SubdirsIn(V \cup {c}, D, c[1])) = Cardinality(SubdirsIn(V, D, c[1])) + 1
      BY <1>1, <3>2, SubdirsAdded
    <3>4. QED
      BY <1>1, <2>2, <3>1, <3>2, <3>3
  <2>3. QED
    BY <2>1, <2>2
<1>6. Counted(U, D, L)
  BY <1>1, <1>4, <1>5 DEF Sound, Counted
<1>7. ASSUME ~NoSpace, NEW x \in Below(T, Root) PROVE x \in Below(U, Root)
  <2> DEFINE S == Below(U, Root)
  <2>1. S \in SUBSET Ids /\ Root \in S /\ Closed(U, S)
    BY <1>1, BelowFacts
  <2>2. B \in SUBSET Ids /\ id \in B /\ Closed(T, B)
    BY <1>1, BelowFacts
  <2> HIDE DEF S, B
  <2>3. Closed(T, S \cup B)
    <3> SUFFICES ASSUME NEW e \in T, e[1] \in S \cup B PROVE e[3] \in S \cup B
      BY DEF Closed
    <3>1. CASE e[1] \in B
      BY <2>2, <3>1 DEF Closed
    <3>2. CASE e = b
      BY <2>2, <3>2
    <3>3. CASE e[1] \in S /\ e # b
      <4>1. e \in U
        BY <3>3
      <4>2. QED
        BY <2>1, <3>3, <4>1 DEF Closed
    <3>4. QED
      BY <3>1, <3>2, <3>3
  <2>4. Below(T, Root) \subseteq S \cup B
    BY <2>1, <2>2, <2>3, BelowLeast
  <2>5. c[1] \in S
    <3>1. c[1] < nx
      BY <1>1 DEF Sound, Forest
    <3>2. c[1] \in Below(T, Root)
      BY <1>1, <1>7, <3>1 DEF Sound, Exact
    <3>3. QED
      BY <1>1, <2>4, <3>2
  <2>6. id \in S
    BY <1>1, <2>1, <2>5 DEF Closed
  <2>7. Closed(T, S \cap B)
    <3> SUFFICES ASSUME NEW e \in T, e[1] \in S, e[1] \in B PROVE e[3] \in S /\ e[3] \in B
      BY DEF Closed
    <3>1. e[3] \in B
      BY <2>2 DEF Closed
    <3>2. e # b
      BY <1>1
    <3>3. e \in U
      BY <3>2
    <3>4. QED
      BY <2>1, <3>1, <3>3 DEF Closed
  <2>8. B \subseteq S \cap B
    BY <1>1, <2>1, <2>2, <2>6, <2>7, BelowLeast DEF B
  <2>9. QED
    BY <2>4, <2>8 DEF S
<1>8. Exact(U, D, L, nx, {})
  <2> SUFFICES ASSUME ~NoSpace, NEW i \in Ids
               PROVE  /\ i \notin D => Cardinality(NamesIn(U, i)) = L[i]
                      /\ i < nx => (i \notin D /\ L[i] = 0) \/ i \in Below(U, Root)
    BY DEF Exact
  <2>1. /\ i \notin D => Cardinality(NamesIn(T, i)) = L[i]
        /\ i < nx => (i \notin D /\ L[i] = 0) \/ i \in Below(T, Root)
    BY DEF Sound, Exact
  <2>2. QED
    BY <1>4, <1>7, <2>1
<1>9. QED
  BY <1>1, <1>3, <1>6, <1>8 DEF Sound

----------------------------------------------------------------------------
(* Directories as pages of entries. *)

\* Some page binds n to i.
At(ps, n, i) == \E k \in DOMAIN ps : n \in DOMAIN ps[k] /\ ps[k][n] = i

\* No name is on two pages.
Single(ps) == \A j, k \in DOMAIN ps : \A n \in DOMAIN ps[j] : n \in DOMAIN ps[k] => j = k

Work == [in : Inode, pages : Seq(Page), dirty : SUBSET Nat]

\* A working copy differs from its inode on the dirty pages only.
Working(h) ==
    /\ h \in Work /\ Single(h.pages)
    /\ Len(h.in.pages) <= Len(h.pages) /\ h.dirty \subseteq 1 .. Len(h.pages)
    /\ \A k \in 1 .. Len(h.pages) :
          k \notin h.dirty => k <= Len(h.in.pages) /\ h.pages[k] = h.in.pages[k]

LEMMA PageFacts ==
  ASSUME NEW p \in Page
  PROVE  DOMAIN p \in SUBSET Names /\ p \in [DOMAIN p -> Ids]
BY DEF Page

LEMMA PageIs ==
  ASSUME NEW S \in SUBSET Names, NEW p \in [S -> Ids]
  PROVE  p \in Page
BY DEF Page

LEMMA FindFacts ==
  ASSUME NEW ps \in Seq(Page), Single(ps), NEW n
  PROVE  /\ \A i : At(ps, n, i) <=> Has(ps, n) /\ Find(ps, n) = i
         /\ Has(ps, n) => /\ PageOf(ps, n) \in DOMAIN ps /\ n \in DOMAIN ps[PageOf(ps, n)]
                          /\ n \in Names /\ Find(ps, n) \in Ids
         /\ \A k \in DOMAIN ps : n \in DOMAIN ps[k] => k = PageOf(ps, n)
<1>1. Has(ps, n) => PageOf(ps, n) \in DOMAIN ps /\ n \in DOMAIN ps[PageOf(ps, n)]
  BY DEF Has, PageOf
<1>2. \A k \in DOMAIN ps : n \in DOMAIN ps[k] => Has(ps, n) /\ k = PageOf(ps, n)
  BY <1>1 DEF Has, Single
<1>3. \A k \in DOMAIN ps : ps[k] \in Page
  OBVIOUS
<1>4. Has(ps, n) => n \in Names /\ Find(ps, n) \in Ids
  <2> SUFFICES ASSUME Has(ps, n) PROVE n \in Names /\ Find(ps, n) \in Ids
    OBVIOUS
  <2>1. PICK p : p = ps[PageOf(ps, n)]
    OBVIOUS
  <2>2. p \in Page /\ n \in DOMAIN p
    BY <1>1, <1>3, <2>1
  <2>3. n \in Names /\ p[n] \in Ids
    BY <2>2, PageFacts
  <2>4. QED
    BY <2>1, <2>3 DEF Find
<1>5. \A i : At(ps, n, i) <=> Has(ps, n) /\ Find(ps, n) = i
  BY <1>1, <1>2 DEF At, Find
<1>6. QED
  BY <1>1, <1>2, <1>4, <1>5

LEMMA SlotFacts ==
  ASSUME NEW ps \in Seq(Page)
  PROVE  Slot(ps) \in 1 .. Len(ps) + 1
<1>1. Len(ps) \in Nat /\ DOMAIN ps = 1 .. Len(ps)
  OBVIOUS
<1>2. CASE Rooms(ps) = {}
  BY <1>1, <1>2 DEF Slot
<1>3. CASE Rooms(ps) # {}
  <2>1. Rooms(ps) \in SUBSET Nat /\ Rooms(ps) \in SUBSET (1 .. Len(ps))
    BY <1>1 DEF Rooms
  <2>2. \E m \in Rooms(ps) : \A k \in Rooms(ps) : ~(k < m)
    BY <1>3, <2>1, Smallest
  <2>3. \E m \in Rooms(ps) : \A k \in Rooms(ps) : m <= k
    BY <2>1, <2>2
  <2>4. Slot(ps) \in Rooms(ps)
    BY <1>3, <2>3 DEF Slot
  <2>5. QED
    BY <1>1, <2>1, <2>4
<1>4. QED
  BY <1>2, <1>3

\* The pages qs are ps with the page p replaced, or added at the end.
Replaced(ps, qs, p, new) ==
    /\ ps \in Seq(Page) /\ qs \in Seq(Page) /\ new \in Page
    /\ p \in 1 .. Len(ps) + 1
    /\ Len(qs) = IF p = Len(ps) + 1 THEN Len(ps) + 1 ELSE Len(ps)
    /\ qs[p] = new
    /\ \A k \in 1 .. Len(ps) : k # p => qs[k] = ps[k]

LEMMA ReplacedIs ==
  ASSUME NEW ps \in Seq(Page), NEW p \in 1 .. Len(ps) + 1, NEW new \in Page
  PROVE  Replaced(ps, IF p \in DOMAIN ps THEN [ps EXCEPT ![p] = new] ELSE Append(ps, new), p, new)
<1>1. Len(ps) \in Nat /\ DOMAIN ps = 1 .. Len(ps)
  OBVIOUS
<1>2. CASE p \in DOMAIN ps
  <2> DEFINE qs == [ps EXCEPT ![p] = new]
  <2>1. qs \in Seq(Page) /\ Len(qs) = Len(ps) /\ qs[p] = new /\ \A k \in 1 .. Len(ps) : k # p => qs[k] = ps[k]
    BY <1>1, <1>2
  <2>2. p # Len(ps) + 1
    BY <1>1, <1>2
  <2> HIDE DEF qs
  <2>3. Replaced(ps, qs, p, new)
    BY <2>1, <2>2 DEF Replaced
  <2>4. QED
    BY <1>2, <2>3 DEF qs
<1>3. CASE p \notin DOMAIN ps
  <2> DEFINE qs == Append(ps, new)
  <2>1. p = Len(ps) + 1
    BY <1>1, <1>3
  <2>2. qs \in Seq(Page) /\ Len(qs) = Len(ps) + 1 /\ qs[p] = new /\ \A k \in 1 .. Len(ps) : k # p => qs[k] = ps[k]
    BY <1>1, <2>1
  <2> HIDE DEF qs
  <2>3. Replaced(ps, qs, p, new)
    BY <2>1, <2>2 DEF Replaced
  <2>4. QED
    BY <1>3, <2>3 DEF qs
<1>4. QED
  BY <1>2, <1>3

\* What replacing a page does to the working copy.
Edits(h, qs, p, new) == Working(h) /\ Replaced(h.pages, qs, p, new) /\ Single(qs)
Edited(h, qs, p) == [h EXCEPT !.pages = qs, !.dirty = @ \cup {p}]

LEMMA WorkReplaced ==
  ASSUME NEW h, NEW p, NEW new, NEW qs, Edits(h, qs, p, new)
  PROVE  /\ Working(Edited(h, qs, p)) /\ Edited(h, qs, p).in = h.in
         /\ Edited(h, qs, p).pages = qs /\ Edited(h, qs, p).dirty = h.dirty \cup {p}
<1> DEFINE g == Edited(h, qs, p)
<1> Working(h) /\ Replaced(h.pages, qs, p, new) /\ Single(qs)
  BY DEF Edits
<1>1. h \in Work /\ h.pages \in Seq(Page) /\ h.in \in Inode /\ h.dirty \in SUBSET Nat
  BY DEF Working, Work
<1>2. qs \in Seq(Page) /\ p \in Nat /\ p \in 1 .. Len(h.pages) + 1
      /\ Len(qs) = (IF p = Len(h.pages) + 1 THEN Len(h.pages) + 1 ELSE Len(h.pages))
      /\ \A k \in 1 .. Len(h.pages) : k # p => qs[k] = h.pages[k]
  BY <1>1 DEF Replaced
<1>3. g \in Work /\ g.in = h.in /\ g.pages = qs /\ g.dirty = h.dirty \cup {p}
  BY <1>1, <1>2 DEF Work, Edited
<1> HIDE DEF g
<1>4. Len(h.pages) \in Nat /\ h.in.pages \in Seq(Page) /\ Len(h.in.pages) \in Nat
  BY <1>1 DEF Inode
<1>5. /\ Len(h.in.pages) <= Len(h.pages) /\ h.dirty \subseteq 1 .. Len(h.pages)
      /\ \A k \in 1 .. Len(h.pages) :
            k \notin h.dirty => k <= Len(h.in.pages) /\ h.pages[k] = h.in.pages[k]
  BY DEF Working
<1>6. Len(h.in.pages) <= Len(qs) /\ h.dirty \cup {p} \subseteq 1 .. Len(qs)
  BY <1>2, <1>4, <1>5
<1>7. ASSUME NEW k \in 1 .. Len(qs), k \notin h.dirty \cup {p}
      PROVE  k <= Len(h.in.pages) /\ qs[k] = h.in.pages[k]
  <2>1. k \in 1 .. Len(h.pages) /\ k # p
    BY <1>2, <1>4, <1>7
  <2>2. QED
    BY <1>2, <1>5, <1>7, <2>1
<1>8. QED
  BY <1>3, <1>6, <1>7 DEF Working, g

\* An added name is bound once more, on the page with room.
LEMMA AddFacts ==
  ASSUME NEW h, Working(h), NEW n \in Names, NEW i \in Ids, ~Has(h.pages, n)
  PROVE  /\ Working(Add(h, n, i)) /\ Add(h, n, i).in = h.in
         /\ Add(h, n, i).dirty = h.dirty \cup {Slot(h.pages)}
         /\ \A m, j : At(Add(h, n, i).pages, m, j) <=> At(h.pages, m, j) \/ (m = n /\ j = i)
<1> DEFINE ps == h.pages
           p == Slot(ps)
           old == IF p \in DOMAIN ps THEN ps[p] ELSE <<>>
           new == With(old, n, i)
           qs == IF p \in DOMAIN ps THEN [ps EXCEPT ![p] = new] ELSE Append(ps, new)
<1>1. h \in Work /\ ps \in Seq(Page) /\ Single(ps) /\ p \in 1 .. Len(ps) + 1 /\ DOMAIN ps = 1 .. Len(ps)
  BY SlotFacts DEF Working, Work
<1>2. Add(h, n, i) = Edited(h, qs, p)
  BY <1>1 DEF Add, Work, Edited
<1>3. ~Has(ps, n) /\ Len(ps) \in Nat
  BY <1>1
<1> HIDE DEF ps, p
<1>4. DOMAIN old \in SUBSET Names /\ n \notin DOMAIN old /\ \A m \in DOMAIN old : old[m] \in Ids
  <2>1. CASE p \in DOMAIN ps
    <3>1. old = ps[p] /\ ps[p] \in Page
      BY <1>1, <2>1
    <3>2. n \notin DOMAIN ps[p]
      BY <1>3, <2>1 DEF Has
    <3>3. QED
      BY <3>1, <3>2, PageFacts
  <2>2. CASE p \notin DOMAIN ps
    BY <2>2
  <2>3. QED
    BY <2>1, <2>2
<1>5. \A k : p \notin DOMAIN ps => DOMAIN old = {}
  OBVIOUS
<1>6. p \in DOMAIN ps => old = ps[p]
  OBVIOUS
<1> HIDE DEF old
<1>7. /\ DOMAIN new = DOMAIN old \cup {n} /\ new[n] = i
      /\ \A m \in DOMAIN old : new[m] = old[m]
      /\ new \in [DOMAIN old \cup {n} -> Ids]
  BY <1>4 DEF With
<1>8. new \in Page
  <2>1. DOMAIN old \cup {n} \in SUBSET Names
    BY <1>4
  <2>2. QED
    BY <1>7, <2>1, PageIs
<1> HIDE DEF new
<1>9. Replaced(ps, qs, p, new)
  BY <1>1, <1>8, ReplacedIs
<1> HIDE DEF qs
<1>10. qs \in Seq(Page) /\ qs[p] = new /\ DOMAIN qs = DOMAIN ps \cup {p}
       /\ \A k \in DOMAIN ps : k # p => qs[k] = ps[k]
  <2>1. /\ qs \in Seq(Page) /\ qs[p] = new
        /\ Len(qs) = IF p = Len(ps) + 1 THEN Len(ps) + 1 ELSE Len(ps)
        /\ \A k \in 1 .. Len(ps) : k # p => qs[k] = ps[k]
    BY <1>9 DEF Replaced
  <2>2. DOMAIN qs = 1 .. Len(qs)
    BY <2>1
  <2>3. 1 .. Len(qs) = (1 .. Len(ps)) \cup {p}
    BY <1>1, <1>3, <2>1
  <2>4. QED
    BY <1>1, <2>1, <2>2, <2>3
<1>11. Single(qs)
  <2> SUFFICES ASSUME NEW j \in DOMAIN qs, NEW k \in DOMAIN qs, NEW m \in DOMAIN qs[j],
                      m \in DOMAIN qs[k], j # k
               PROVE  FALSE
    BY DEF Single
  <2>1. \A x \in DOMAIN ps : n \notin DOMAIN ps[x]
    BY <1>3 DEF Has
  <2>2. ASSUME NEW x \in DOMAIN ps, x # p, m \in DOMAIN qs[x], m \in DOMAIN new PROVE FALSE
    <3>1. m \in DOMAIN ps[x] /\ m # n
      BY <1>10, <2>1, <2>2
    <3>2. m \in DOMAIN old /\ p \in DOMAIN ps
      BY <1>5, <1>7, <2>2, <3>1
    <3>3. m \in DOMAIN ps[p]
      BY <1>6, <3>2
    <3>4. QED
      BY <1>1, <2>2, <3>1, <3>2, <3>3 DEF Single
  <2>3. CASE j = p
    BY <1>10, <2>2, <2>3
  <2>4. CASE k = p
    BY <1>10, <2>2, <2>4
  <2>5. CASE j # p /\ k # p
    <3>1. j \in DOMAIN ps /\ k \in DOMAIN ps /\ qs[j] = ps[j] /\ qs[k] = ps[k]
      BY <1>10, <2>5
    <3>2. QED
      BY <1>1, <3>1 DEF Single
  <2>6. QED
    BY <2>3, <2>4, <2>5
<1>12. \A m, j : At(qs, m, j) <=> At(ps, m, j) \/ (m = n /\ j = i)
  <2> TAKE m, j
  <2>1. ASSUME At(qs, m, j) PROVE At(ps, m, j) \/ (m = n /\ j = i)
    <3>1. PICK k \in DOMAIN qs : m \in DOMAIN qs[k] /\ qs[k][m] = j
      BY <2>1 DEF At
    <3>2. CASE k = p
      <4>1. CASE m = n
        BY <1>7, <1>10, <3>1, <3>2, <4>1
      <4>2. CASE m # n
        <5>1. m \in DOMAIN old /\ old[m] = j /\ p \in DOMAIN ps
          BY <1>5, <1>7, <1>10, <3>1, <3>2, <4>2
        <5>2. QED
          BY <1>6, <5>1 DEF At
      <4>3. QED
        BY <4>1, <4>2
    <3>3. CASE k # p
      BY <1>10, <3>1, <3>3 DEF At
    <3>4. QED
      BY <3>2, <3>3
  <2>2. ASSUME At(ps, m, j) PROVE At(qs, m, j)
    <3>1. PICK k \in DOMAIN ps : m \in DOMAIN ps[k] /\ ps[k][m] = j
      BY <2>2 DEF At
    <3>2. CASE k = p
      BY <1>6, <1>7, <1>10, <3>1, <3>2 DEF At
    <3>3. CASE k # p
      BY <1>10, <3>1, <3>3 DEF At
    <3>4. QED
      BY <3>2, <3>3
  <2>3. ASSUME m = n, j = i PROVE At(qs, m, j)
    BY <1>7, <1>10, <2>3 DEF At
  <2>4. QED
    BY <2>1, <2>2, <2>3
<1> DEFINE g == Edited(h, qs, p)
<1>13. Working(g) /\ g.in = h.in /\ g.pages = qs /\ g.dirty = h.dirty \cup {p}
  <2>1. Edits(h, qs, p, new)
    BY <1>9, <1>11 DEF ps, Edits
  <2>2. QED
    BY <2>1, WorkReplaced
<1> HIDE DEF g
<1>14. Add(h, n, i) = g
  BY <1>2 DEF g
<1>15. QED
  BY <1>12, <1>13, <1>14 DEF ps, p

\* A deleted name is bound no more, and no other is touched.
LEMMA DelFacts ==
  ASSUME NEW h, Working(h), NEW n, Has(h.pages, n)
  PROVE  /\ Working(Del(h, n)) /\ Del(h, n).in = h.in
         /\ Del(h, n).dirty = h.dirty \cup {PageOf(h.pages, n)}
         /\ \A m, j : At(Del(h, n).pages, m, j) <=> At(h.pages, m, j) /\ m # n
<1> DEFINE ps == h.pages
           p == PageOf(ps, n)
           new == Without(ps[p], n)
           qs == [ps EXCEPT ![p] = new]
<1>1. h \in Work /\ ps \in Seq(Page) /\ Single(ps) /\ DOMAIN ps = 1 .. Len(ps)
  BY DEF Working, Work
<1>2. p \in DOMAIN ps /\ n \in DOMAIN ps[p] /\ \A k \in DOMAIN ps : n \in DOMAIN ps[k] => k = p
  BY <1>1, FindFacts
<1>3. Del(h, n) = Edited(h, qs, p)
  BY DEF Del, Edited
<1> HIDE DEF ps, p
<1>4. ps[p] \in Page
  BY <1>1, <1>2
<1>5. DOMAIN new = DOMAIN ps[p] \ {n} /\ (\A m \in DOMAIN new : new[m] = ps[p][m]) /\ new \in Page
  <2>1. DOMAIN ps[p] \in SUBSET Names /\ ps[p] \in [DOMAIN ps[p] -> Ids]
    BY <1>4, PageFacts
  <2>2. new \in [DOMAIN ps[p] \ {n} -> Ids] /\ DOMAIN ps[p] \ {n} \in SUBSET Names
    BY <2>1 DEF Without
  <2>3. new \in Page
    BY <2>2, PageIs
  <2>4. QED
    BY <2>3 DEF Without
<1> HIDE DEF new
<1>6. Replaced(ps, qs, p, new)
  <2>1. p \in 1 .. Len(ps) + 1
    BY <1>1, <1>2
  <2>2. Replaced(ps, IF p \in DOMAIN ps THEN [ps EXCEPT ![p] = new] ELSE Append(ps, new), p, new)
    BY <1>1, <1>5, <2>1, ReplacedIs
  <2>3. QED
    BY <1>2, <2>2
<1>7. DOMAIN qs = DOMAIN ps /\ qs[p] = new /\ \A k \in DOMAIN ps : k # p => qs[k] = ps[k]
  BY <1>1, <1>2
<1> HIDE DEF qs
<1>8. \A k \in DOMAIN ps : DOMAIN qs[k] = DOMAIN ps[k] \ {n} /\ \A m \in DOMAIN qs[k] : qs[k][m] = ps[k][m]
  BY <1>2, <1>5, <1>7
<1>9. Single(qs)
  BY <1>1, <1>7, <1>8 DEF Single
<1>10. \A m, j : At(qs, m, j) <=> At(ps, m, j) /\ m # n
  BY <1>7, <1>8 DEF At
<1> DEFINE g == Edited(h, qs, p)
<1>11. Working(g) /\ g.in = h.in /\ g.pages = qs /\ g.dirty = h.dirty \cup {p}
  <2>1. Edits(h, qs, p, new)
    BY <1>6, <1>9 DEF ps, Edits
  <2>2. QED
    BY <2>1, WorkReplaced
<1> HIDE DEF g
<1>12. Del(h, n) = g
  BY <1>3 DEF g
<1>13. QED
  BY <1>10, <1>11, <1>12 DEF ps, p

----------------------------------------------------------------------------
(* Storing a working copy. *)

Stored(t, d, h) == [t EXCEPT ![d] = [h.in EXCEPT !.pages = h.pages]]

LEMMA MergedAll ==
  ASSUME NEW h, Working(h)
  PROVE  Merged(h, h.dirty) = h.pages
<1>1. h \in Work /\ h.pages \in Seq(Page) /\ h.in \in Inode /\ h.in.pages \in Seq(Page)
  BY DEF Working, Work, Inode
<1>2. /\ Len(h.in.pages) <= Len(h.pages) /\ h.dirty \subseteq 1 .. Len(h.pages)
      /\ \A k \in 1 .. Len(h.pages) :
            k \notin h.dirty => k <= Len(h.in.pages) /\ h.pages[k] = h.in.pages[k]
  BY DEF Working
<1> DEFINE N == IF \E p \in h.dirty : p > Len(h.in.pages) THEN Len(h.pages) ELSE Len(h.in.pages)
           a == Len(h.pages)
           b == Len(h.in.pages)
<1>3. a \in Nat /\ b \in Nat
  BY <1>1
<1>4. N = a
  <2>1. CASE \E p \in h.dirty : p > b
    BY <2>1
  <2>2. CASE ~\E p \in h.dirty : p > b
    <3>1. N = b
      BY <2>2
    <3> SUFFICES ASSUME b # a PROVE FALSE
      BY <3>1
    <3>2. a \in 1 .. a /\ a > b
      BY <1>2, <1>3
    <3>3. a \notin h.dirty
      BY <2>2, <3>2
    <3>4. QED
      BY <1>2, <1>3, <3>2, <3>3
  <2>3. QED
    BY <2>1, <2>2
<1>5. Merged(h, h.dirty) = [k \in 1 .. N |-> IF k \in h.dirty THEN h.pages[k] ELSE h.in.pages[k]]
  BY DEF Merged
<1>6. \A k \in 1 .. a : (IF k \in h.dirty THEN h.pages[k] ELSE h.in.pages[k]) = h.pages[k]
  BY <1>2
<1>7. h.pages = [k \in 1 .. a |-> h.pages[k]]
  BY <1>1
<1> HIDE DEF N, a
<1>8. QED
  BY <1>4, <1>5, <1>6, <1>7

\* A flush that changes one page, or meets no full device, stores the whole
\* working copy or nothing; a commit in its middle sees the table before it.
LEMMA FlushFacts ==
  ASSUME NEW t, NEW img, NEW nx, NEW d, NEW h, Working(h), h.dirty # {},
         NoSpace => \E p : h.dirty = {p},
         NEW f \in Flushes(t, img, nx, d, h)
  PROVE  /\ f.ok \in BOOLEAN
         /\ f.ok => f.ino = Stored(t, d, h)
         /\ ~f.ok => f.ino = t /\ NoSpace
         /\ f.image \in {img, [ino |-> t, next |-> nx]}
         /\ ~NoSpace => f.image = img
<1> DEFINE Ims(done) == {img} \cup {[ino |-> PutDir(t, d, h, mid), next |-> nx] :
                               mid \in IF NoSpace THEN (SUBSET done) \ {h.dirty} ELSE {}}
<1>0. PICK done \in IF NoSpace THEN SUBSET h.dirty ELSE {h.dirty} :
         f \in {[ino |-> PutDir(t, d, h, done), image |-> im, ok |-> done = h.dirty] : im \in Ims(done)}
  BY DEF Flushes
<1>1. PICK im \in Ims(done) :
        f = [ino |-> PutDir(t, d, h, done), image |-> im, ok |-> done = h.dirty]
  BY <1>0
<1>2. f.ino = PutDir(t, d, h, done) /\ f.image = im /\ f.ok = (done = h.dirty)
  BY <1>1
<1>3. done = {} \/ done = h.dirty
  <2>1. CASE NoSpace
    <3>1. PICK p : h.dirty = {p}
      BY <2>1
    <3>2. done \in SUBSET h.dirty
      BY <2>1
    <3>3. QED
      BY <3>1, <3>2
  <2>2. CASE ~NoSpace
    BY <2>2
  <2>3. QED
    BY <2>1, <2>2
<1>4. PutDir(t, d, h, {}) = t
  BY DEF PutDir
<1>5. PutDir(t, d, h, h.dirty) = Stored(t, d, h)
  BY MergedAll DEF PutDir, Stored
<1>6. ~NoSpace => done = h.dirty /\ im = img
  OBVIOUS
<1>7. im = img \/ im = [ino |-> t, next |-> nx]
  <2>1. CASE NoSpace
    <3>1. PICK p : h.dirty = {p}
      BY <2>1
    <3>2. \A mid \in (SUBSET done) \ {h.dirty} : mid = {}
      BY <1>3, <3>1
    <3>3. QED
      BY <1>4, <2>1, <3>2
  <2>2. QED
    BY <1>6, <2>1
<1> DEFINE q == done = h.dirty
<1>8. q \in BOOLEAN /\ f.ok = q
  BY <1>2
<1>9. QED
  BY <1>2, <1>3, <1>4, <1>5, <1>6, <1>7

----------------------------------------------------------------------------
(* The bindings of a table. *)

Dirs(t) == {i \in Ids : t[i].kind = "dir"}
Links(t) == [i \in Ids |-> t[i].nlink]

Paged(t) ==
    /\ t \in [Ids -> Inode]
    /\ \A d \in Ids : Single(t[d].pages) /\ (t[d].kind # "dir" => t[d].pages = <<>>)

Table(t, nx, E) == Paged(t) /\ Sound(Entries(t), Dirs(t), Links(t), nx, E)

LEMMA InodeFacts ==
  ASSUME NEW in \in Inode
  PROVE  /\ in.kind \in {"file", "dir", "link"} /\ in.nlink \in Nat /\ in.gen \in Nat
         /\ in.data \in BOOLEAN /\ in.pages \in Seq(Page)
BY DEF Inode

LEMMA EntryIff ==
  ASSUME NEW t, Paged(t)
  PROVE  /\ Entries(t) \in SUBSET Bindings
         /\ \A d, n, i : <<d, n, i>> \in Entries(t) <=> d \in Ids /\ At(t[d].pages, n, i)
<1>1. \A d \in Ids : t[d].pages \in Seq(Page) /\ Single(t[d].pages)
  BY InodeFacts DEF Paged
<1>2. ASSUME NEW d, NEW n, NEW i, d \in Ids, At(t[d].pages, n, i)
      PROVE  <<d, n, i>> \in Entries(t)
  <2>1. Has(t[d].pages, n) /\ Find(t[d].pages, n) = i /\ n \in Names
    BY <1>1, <1>2, FindFacts
  <2> DEFINE y == <<d, n>>
  <2>2. y \in Ids \X Names /\ y[1] = d /\ y[2] = n
    BY <1>2, <2>1
  <2> HIDE DEF y
  <2>3. Has(t[y[1]].pages, y[2])
    BY <2>1, <2>2
  <2>4. <<y[1], y[2], Find(t[y[1]].pages, y[2])>> \in Entries(t)
    BY <2>2, <2>3 DEF Entries
  <2>5. QED
    BY <2>1, <2>2, <2>4
<1>3. ASSUME NEW e \in Entries(t)
      PROVE  /\ e \in Bindings /\ e[1] \in Ids /\ At(t[e[1]].pages, e[2], e[3])
             /\ e = <<e[1], e[2], e[3]>>
  <2>1. PICK x \in Ids \X Names : Has(t[x[1]].pages, x[2])
                        /\ e = <<x[1], x[2], Find(t[x[1]].pages, x[2])>>
    BY DEF Entries
  <2>2. e[1] = x[1] /\ e[2] = x[2] /\ e[3] = Find(t[x[1]].pages, x[2]) /\ x[1] \in Ids /\ x[2] \in Names
    BY <2>1
  <2>3. At(t[x[1]].pages, x[2], e[3]) /\ e[3] \in Ids
    <3>1. PICK q : q = t[x[1]].pages
      OBVIOUS
    <3>2. q \in Seq(Page) /\ Single(q) /\ Has(q, x[2])
      BY <1>1, <2>1, <2>2, <3>1
    <3>3. At(q, x[2], Find(q, x[2])) /\ Find(q, x[2]) \in Ids
      BY <3>2, FindFacts
    <3>4. QED
      BY <2>2, <3>1, <3>3
  <2>4. QED
    BY <2>1, <2>2, <2>3 DEF Bindings
<1>4. QED
  BY <1>2, <1>3

\* The bindings are what the pages say.
Shows(t, T) == T \in SUBSET Bindings /\ \A d \in Ids : \A n, i : <<d, n, i>> \in T <=> At(t[d].pages, n, i)

LEMMA EntriesAre ==
  ASSUME NEW t, Paged(t), NEW T, Shows(t, T)
  PROVE  Entries(t) = T
<1>1. /\ Entries(t) \in SUBSET Bindings
      /\ \A d, n, i : <<d, n, i>> \in Entries(t) <=> d \in Ids /\ At(t[d].pages, n, i)
  BY EntryIff
<1>2. \A e \in Bindings : e[1] \in Ids /\ e = <<e[1], e[2], e[3]>>
  BY DEF Bindings
<1>3. \A e \in Bindings : e \in Entries(t) <=> e \in T
  BY <1>1, <1>2 DEF Shows
<1>4. T \in SUBSET Bindings
  BY DEF Shows
<1>5. QED
  BY <1>1, <1>3, <1>4

\* The inode in replaces slot id of the table t.
Puts(t, u, id, in) ==
    /\ Paged(t) /\ id \in Ids /\ in \in Inode
    /\ Single(in.pages) /\ (in.kind # "dir" => in.pages = <<>>)
    /\ u = [t EXCEPT ![id] = in]

LEMMA PutFacts ==
  ASSUME NEW t, NEW u, NEW id, NEW in, Puts(t, u, id, in)
  PROVE  /\ Paged(u) /\ u[id] = in /\ \A i \in Ids : i # id => u[i] = t[i]
         /\ Dirs(u) = IF in.kind = "dir" THEN Dirs(t) \cup {id} ELSE Dirs(t) \ {id}
         /\ Links(u) = [Links(t) EXCEPT ![id] = in.nlink]
<1>1. /\ Paged(t) /\ id \in Ids /\ in \in Inode
      /\ Single(in.pages) /\ (in.kind # "dir" => in.pages = <<>>)
      /\ u = [t EXCEPT ![id] = in] /\ t \in [Ids -> Inode]
  BY DEF Puts, Paged
<1>2. u \in [Ids -> Inode] /\ u[id] = in /\ \A i \in Ids : i # id => u[i] = t[i]
  BY <1>1
<1>3. Paged(u)
  BY <1>1, <1>2 DEF Paged
<1>4. Dirs(u) = IF in.kind = "dir" THEN Dirs(t) \cup {id} ELSE Dirs(t) \ {id}
  BY <1>1, <1>2 DEF Dirs
<1>5. Links(u) = [Links(t) EXCEPT ![id] = in.nlink]
  BY <1>1, <1>2 DEF Links
<1>6. QED
  BY <1>2, <1>3, <1>4, <1>5

\* The new slot binds the same names.
SameView(t, id, in) == \A m, j : At(in.pages, m, j) <=> At(t[id].pages, m, j)

\* The new slot binds n to i besides.
BoundView(t, id, in, n, i) ==
    \A m, j : At(in.pages, m, j) <=> At(t[id].pages, m, j) \/ (m = n /\ j = i)

\* The new slot does not bind n, which was bound to i.
UnboundView(t, id, in, n, i) ==
    /\ At(t[id].pages, n, i)
    /\ \A m, j : At(in.pages, m, j) <=> At(t[id].pages, m, j) /\ m # n

LEMMA PutSame ==
  ASSUME NEW t, NEW u, NEW id, NEW in, Puts(t, u, id, in), SameView(t, id, in)
  PROVE  Entries(u) = Entries(t)
<1>1. Paged(u) /\ u[id] = in /\ \A i \in Ids : i # id => u[i] = t[i]
  BY PutFacts
<1>2. /\ Entries(t) \in SUBSET Bindings
      /\ \A d, n, i : <<d, n, i>> \in Entries(t) <=> d \in Ids /\ At(t[d].pages, n, i)
  BY EntryIff DEF Puts
<1>3. ASSUME NEW d \in Ids, NEW n, NEW i PROVE At(u[d].pages, n, i) <=> At(t[d].pages, n, i)
  BY <1>1 DEF SameView
<1>4. Shows(u, Entries(t))
  BY <1>2, <1>3 DEF Shows
<1>5. QED
  BY <1>1, <1>4, EntriesAre

LEMMA PutBound ==
  ASSUME NEW t, NEW u, NEW id, NEW in, NEW n \in Names, NEW i \in Ids,
         Puts(t, u, id, in), BoundView(t, id, in, n, i)
  PROVE  Entries(u) = Entries(t) \cup {<<id, n, i>>}
<1> DEFINE T == Entries(t) \cup {<<id, n, i>>}
<1>0. id \in Ids
  BY DEF Puts
<1>1. Paged(u) /\ u[id] = in /\ id \in Ids /\ \A d \in Ids : d # id => u[d] = t[d]
  BY <1>0, PutFacts
<1>2. /\ Entries(t) \in SUBSET Bindings
      /\ \A d, m, j : <<d, m, j>> \in Entries(t) <=> d \in Ids /\ At(t[d].pages, m, j)
  BY EntryIff DEF Puts
<1>3. ASSUME NEW d \in Ids, NEW m, NEW j PROVE <<d, m, j>> \in T <=> At(u[d].pages, m, j)
  <2>1. <<d, m, j>> \in T <=> <<d, m, j>> \in Entries(t) \/ (d = id /\ m = n /\ j = i)
    OBVIOUS
  <2>2. CASE d = id
    BY <1>1, <1>2, <2>1, <2>2 DEF BoundView
  <2>3. CASE d # id
    BY <1>1, <1>2, <2>1, <2>3
  <2>4. QED
    BY <2>2, <2>3
<1>4. T \in SUBSET Bindings
  BY <1>1, <1>2 DEF Bindings
<1> HIDE DEF T
<1>5. Shows(u, T)
  BY <1>3, <1>4 DEF Shows
<1>6. Entries(u) = T
  BY <1>1, <1>5, EntriesAre
<1>7. QED
  BY <1>6 DEF T

LEMMA PutUnbound ==
  ASSUME NEW t, NEW u, NEW id, NEW in, NEW n, NEW i,
         Puts(t, u, id, in), UnboundView(t, id, in, n, i)
  PROVE  Entries(u) = Entries(t) \ {<<id, n, i>>} /\ <<id, n, i>> \in Entries(t)
<1> DEFINE T == Entries(t) \ {<<id, n, i>>}
<1>1. /\ Paged(u) /\ u[id] = in /\ id \in Ids /\ t[id].pages \in Seq(Page) /\ Single(t[id].pages)
      /\ \A d \in Ids : d # id => u[d] = t[d]
  BY PutFacts, InodeFacts DEF Puts, Paged
<1>2. /\ Entries(t) \in SUBSET Bindings
      /\ \A d, m, j : <<d, m, j>> \in Entries(t) <=> d \in Ids /\ At(t[d].pages, m, j)
  BY EntryIff DEF Puts
<1>3. \A j : At(t[id].pages, n, j) => j = i
  <2>1. PICK q : q = t[id].pages
    OBVIOUS
  <2>2. \A j : At(q, n, j) <=> Has(q, n) /\ Find(q, n) = j
    BY <1>1, <2>1, FindFacts
  <2>3. QED
    BY <2>1, <2>2 DEF UnboundView
<1>4. ASSUME NEW d \in Ids, NEW m, NEW j PROVE <<d, m, j>> \in T <=> At(u[d].pages, m, j)
  <2>1. <<d, m, j>> \in T <=> <<d, m, j>> \in Entries(t) /\ ~(d = id /\ m = n /\ j = i)
    OBVIOUS
  <2>2. CASE d = id
    BY <1>1, <1>2, <1>3, <2>1, <2>2 DEF UnboundView
  <2>3. CASE d # id
    BY <1>1, <1>2, <2>1, <2>3
  <2>4. QED
    BY <2>2, <2>3
<1>5. T \in SUBSET Bindings
  BY <1>1, <1>2 DEF Bindings
<1> HIDE DEF T
<1>6. Shows(u, T)
  BY <1>4, <1>5 DEF Shows
<1>7. Entries(u) = T
  BY <1>1, <1>6, EntriesAre
<1>8. QED
  BY <1>1, <1>2, <1>7 DEF T, UnboundView

\* A slot whose pages and directory bit stay.
Kept(t, u, id, in) ==
    /\ Paged(t) /\ id \in Ids /\ in \in Inode /\ in.pages = t[id].pages
    /\ in.kind = "dir" <=> t[id].kind = "dir"
    /\ u = [t EXCEPT ![id] = in]

LEMMA PutKept ==
  ASSUME NEW t, NEW u, NEW id, NEW in, Kept(t, u, id, in)
  PROVE  /\ Paged(u) /\ Entries(u) = Entries(t) /\ Dirs(u) = Dirs(t)
         /\ Links(u) = [Links(t) EXCEPT ![id] = in.nlink]
         /\ u[id] = in /\ \A i \in Ids : i # id => u[i] = t[i]
<1>1. Puts(t, u, id, in)
  BY DEF Puts, Paged, Kept
<1>2. SameView(t, id, in)
  BY DEF SameView, Kept
<1>3. Entries(u) = Entries(t)
  BY <1>1, <1>2, PutSame
<1>4. /\ Paged(u) /\ Links(u) = [Links(t) EXCEPT ![id] = in.nlink]
      /\ Dirs(u) = IF in.kind = "dir" THEN Dirs(t) \cup {id} ELSE Dirs(t) \ {id}
      /\ u[id] = in /\ \A i \in Ids : i # id => u[i] = t[i]
  BY <1>1, PutFacts
<1>5. Dirs(u) = Dirs(t)
  BY <1>4 DEF Dirs, Kept
<1>6. QED
  BY <1>3, <1>4, <1>5

----------------------------------------------------------------------------
(* The resident directories. *)

Resident == [id : Ids, pages : Seq(Page)]

\* The cache c holds copies of directories of t, each once and none of those in X.
Mirrors(c, t, X) ==
    /\ c \in Seq(Resident) /\ Len(c) <= CacheCap
    /\ \A k \in DOMAIN c : /\ t[c[k].id].kind = "dir" /\ c[k].pages = t[c[k].id].pages
                           /\ c[k].id \notin X
    /\ \A j, k \in DOMAIN c : c[j].id = c[k].id => j = k

LEMMA MirrorsIs == TypeOK => (CacheMirrors <=> Mirrors(cache, ino, {}))
BY DEF TypeOK, CacheMirrors, Mirrors, Resident

LEMMA DropFacts ==
  ASSUME NEW c, NEW t, NEW X, Mirrors(c, t, X), NEW d
  PROVE  /\ Mirrors(Drop(c, d), t, X \cup {d})
         /\ Cached(c, d) => Len(Drop(c, d)) + 1 = Len(c)
<1>1. /\ c \in Seq(Resident) /\ Len(c) <= CacheCap /\ Len(c) \in Nat /\ DOMAIN c = 1 .. Len(c)
      /\ \A k \in DOMAIN c : c[k] \in Resident
      /\ CacheCap \in Nat
  BY NamespaceAssumption DEF Mirrors
<1>2. CASE ~Cached(c, d)
  <2>1. Drop(c, d) = c
    BY <1>2 DEF Drop
  <2>2. \A k \in DOMAIN c : c[k].id # d
    BY <1>2 DEF Cached
  <2>3. QED
    BY <1>2, <2>1, <2>2 DEF Mirrors
<1>3. CASE Cached(c, d)
  <2> DEFINE p == PlaceIn(c, d)
             N == Len(c) - 1
             q == [j \in 1 .. N |-> IF j < p THEN c[j] ELSE c[j + 1]]
             w(j) == IF j < p THEN j ELSE j + 1
  <2>1. p \in DOMAIN c /\ c[p].id = d
    BY <1>3 DEF Cached, PlaceIn
  <2>2. Drop(c, d) = q
    BY <1>3 DEF Drop
  <2> HIDE DEF p
  <2>3. p \in 1 .. Len(c) /\ N \in Nat
    BY <1>1, <2>1
  <2>4. ASSUME NEW j \in 1 .. N PROVE w(j) \in DOMAIN c /\ w(j) # p /\ q[j] = c[w(j)]
    BY <1>1, <2>3
  <2>5. ASSUME NEW j \in 1 .. N, NEW k \in 1 .. N, w(j) = w(k) PROVE j = k
    BY <2>3, <2>5
  <2>6. \A j \in 1 .. N : q[j] \in Resident
    BY <1>1, <2>4
  <2>7. q \in Seq(Resident) /\ Len(q) = N /\ DOMAIN q = 1 .. N
    <3> DEFINE v == [j \in 1 .. N |-> q[j]]
    <3>1. q = v
      OBVIOUS
    <3> HIDE DEF q
    <3>2. QED
      BY <2>3, <2>6, <3>1
  <2> HIDE DEF q, w
  <2>8. \A k \in 1 .. N : /\ t[q[k].id].kind = "dir" /\ q[k].pages = t[q[k].id].pages
                          /\ q[k].id \notin X \cup {d}
    BY <2>1, <2>4 DEF Mirrors
  <2>9. \A j, k \in 1 .. N : q[j].id = q[k].id => j = k
    BY <2>4, <2>5 DEF Mirrors
  <2>10. N <= CacheCap
    BY <1>1, <2>3
  <2>11. N + 1 = Len(c)
    BY <1>1
  <2> HIDE DEF N
  <2>12. QED
    BY <2>2, <2>7, <2>8, <2>9, <2>10, <2>11 DEF Mirrors
<1>4. QED
  BY <1>2, <1>3

\* Directories that are not in X keep their pages.
SameDirs(t, u, X) ==
    \A i \in Ids \ X : t[i].kind = "dir" => u[i].kind = "dir" /\ u[i].pages = t[i].pages

LEMMA MirrorsKept ==
  ASSUME NEW c, NEW t, NEW u, NEW X, Mirrors(c, t, X), SameDirs(t, u, X)
  PROVE  Mirrors(c, u, X)
<1>1. \A k \in DOMAIN c : c[k].id \in Ids
  <2>1. \A k \in DOMAIN c : c[k] \in Resident
    BY DEF Mirrors
  <2>2. QED
    BY <2>1 DEF Resident
<1>2. QED
  BY <1>1 DEF Mirrors, SameDirs

LEMMA InsertFacts ==
  ASSUME NEW c, NEW t, NEW X, Mirrors(c, t, X), NEW d \in Ids, NEW ps \in Seq(Page),
         t[d].kind = "dir", ps = t[d].pages
  PROVE  Mirrors(Insert(c, d, ps), t, X \ {d})
<1> DEFINE kept == IF ~Cached(c, d) /\ Len(c) >= CacheCap THEN Tail(c) ELSE Drop(c, d)
           r == [id |-> d, pages |-> ps]
<1>1. c \in Seq(Resident) /\ Len(c) \in Nat /\ Len(c) <= CacheCap /\ CacheCap \in Nat \ {0}
  BY NamespaceAssumption DEF Mirrors
<1>2. Mirrors(kept, t, X) /\ Len(kept) < CacheCap /\ \A k \in DOMAIN kept : kept[k].id # d
  <2>1. CASE ~Cached(c, d) /\ Len(c) >= CacheCap
    <3>1. kept = Tail(c) /\ c # <<>>
      BY <1>1, <2>1
    <3>2. Tail(c) \in Seq(Resident) /\ Len(Tail(c)) = Len(c) - 1
          /\ \A k \in DOMAIN Tail(c) : k + 1 \in DOMAIN c /\ Tail(c)[k] = c[k + 1] /\ k \in Nat
      BY <1>1, <3>1
    <3>3. \A k \in DOMAIN c : c[k].id # d
      BY <2>1 DEF Cached
    <3> HIDE DEF kept
    <3>4. QED
      <4>1. Len(kept) < CacheCap
        BY <1>1, <3>1, <3>2
      <4>2. \A k \in DOMAIN kept : kept[k].id # d
        BY <3>1, <3>2, <3>3
      <4>3. \A j, k \in DOMAIN kept : kept[j].id = kept[k].id => j = k
        BY <3>1, <3>2 DEF Mirrors
      <4>4. \A k \in DOMAIN kept : /\ t[kept[k].id].kind = "dir" /\ kept[k].pages = t[kept[k].id].pages
                                   /\ kept[k].id \notin X
        BY <3>1, <3>2 DEF Mirrors
      <4>5. QED
        BY <1>1, <3>1, <3>2, <4>1, <4>2, <4>3, <4>4 DEF Mirrors
  <2>2. CASE Cached(c, d) \/ Len(c) < CacheCap
    <3>1. kept = Drop(c, d)
      BY <1>1, <2>2
    <3>2. Mirrors(Drop(c, d), t, X \cup {d}) /\ (Cached(c, d) => Len(Drop(c, d)) + 1 = Len(c))
      BY DropFacts
    <3>3. Len(Drop(c, d)) \in Nat
      BY <3>2 DEF Mirrors
    <3>4. ~Cached(c, d) => Drop(c, d) = c
      BY DEF Drop
    <3>5. Len(Drop(c, d)) < CacheCap
      BY <1>1, <2>2, <3>2, <3>3, <3>4
    <3> HIDE DEF kept
    <3>6. QED
      BY <3>1, <3>2, <3>5 DEF Mirrors
  <2>3. QED
    BY <1>1, <2>1, <2>2
<1>3. Insert(c, d, ps) = Append(kept, r)
  BY DEF Insert
<1>4. r \in Resident /\ r.id = d /\ r.pages = ps
  BY DEF Resident
<1> HIDE DEF kept, r
<1>5. kept \in Seq(Resident)
  BY <1>2 DEF Mirrors
<1> DEFINE q == Append(kept, r)
<1>6. /\ q \in Seq(Resident) /\ Len(q) = Len(kept) + 1 /\ Len(kept) \in Nat
      /\ DOMAIN q = DOMAIN kept \cup {Len(kept) + 1} /\ q[Len(kept) + 1] = r
      /\ \A k \in DOMAIN kept : q[k] = kept[k]
  BY <1>4, <1>5
<1> HIDE DEF q
<1>7. \A k \in DOMAIN q : /\ t[q[k].id].kind = "dir" /\ q[k].pages = t[q[k].id].pages
                          /\ q[k].id \notin X \ {d}
  BY <1>2, <1>4, <1>6 DEF Mirrors
<1>8. \A j, k \in DOMAIN q : q[j].id = q[k].id => j = k
  BY <1>2, <1>4, <1>6 DEF Mirrors
<1>9. Len(q) <= CacheCap
  BY <1>1, <1>2, <1>6
<1>10. Mirrors(q, t, X \ {d})
  BY <1>6, <1>7, <1>8, <1>9 DEF Mirrors
<1>11. QED
  BY <1>3, <1>10 DEF q

\* A directory that is checked out is one, and is what the table stores.
LEMMA CheckoutFacts ==
  ASSUME Mirrors(cache, ino, {}), Paged(ino), NEW d \in Ids, CanCheckout(d)
  PROVE  /\ ino[d].kind = "dir" /\ ino[d] \in Inode
         /\ Working(Checkout(d))
         /\ Checkout(d).in = ino[d] /\ Checkout(d).pages = ino[d].pages /\ Checkout(d).dirty = {}
         /\ Cached(cache, d) => PagesIn(cache, d) = ino[d].pages
<1>1. Cached(cache, d) => ino[d].kind = "dir" /\ PagesIn(cache, d) = ino[d].pages
  <2> SUFFICES ASSUME Cached(cache, d) PROVE ino[d].kind = "dir" /\ PagesIn(cache, d) = ino[d].pages
    OBVIOUS
  <2>1. PlaceIn(cache, d) \in DOMAIN cache /\ cache[PlaceIn(cache, d)].id = d
    BY DEF Cached, PlaceIn
  <2>2. QED
    BY <2>1 DEF Mirrors, PagesIn
<1>2. ino[d].kind = "dir"
  BY <1>1 DEF CanCheckout
<1>3. ino[d] \in Inode /\ Single(ino[d].pages)
  BY DEF Paged
<1>4. ino[d].pages \in Seq(Page)
  BY <1>3, InodeFacts
<1>5. Checkout(d) = [in |-> ino[d], pages |-> ino[d].pages, dirty |-> {}]
  BY <1>1 DEF Checkout
<1> DEFINE h == Checkout(d)
<1>6. h.in = ino[d] /\ h.pages = ino[d].pages /\ h.dirty = {} /\ h \in Work
  BY <1>3, <1>4, <1>5 DEF Work
<1> HIDE DEF h
<1>7. Working(h)
  <2>1. Len(h.in.pages) <= Len(h.pages)
    BY <1>4, <1>6
  <2>2. \A k \in 1 .. Len(h.pages) : k <= Len(h.in.pages) /\ h.pages[k] = h.in.pages[k]
    BY <1>4, <1>6
  <2>3. QED
    BY <1>3, <1>6, <2>1, <2>2 DEF Working
<1>8. QED
  BY <1>1, <1>2, <1>3, <1>6, <1>7 DEF h

----------------------------------------------------------------------------
(* rebuild_free_inodes. *)

Scanning(t, n, f) ==
    f = [k \in 0 .. n |-> IF k = 0 THEN <<>>
                          ELSE IF t[k - 1].nlink = 0 THEN Append(f[k - 1], k - 1)
                          ELSE f[k - 1]]

LEMMA ScanningExists ==
  ASSUME NEW t, NEW n \in Nat
  PROVE  \E f : Scanning(t, n, f)
<1> DEFINE A == {k \in Nat : \E f : Scanning(t, k, f)}
<1>1. 0 \in A
  <2> DEFINE f == [k \in 0 .. 0 |-> <<>>]
  <2>1. Scanning(t, 0, f)
    BY DEF Scanning
  <2> HIDE DEF f
  <2>2. QED
    BY <2>1
<1>2. ASSUME NEW k \in A PROVE k + 1 \in A
  <2>1. k \in Nat
    OBVIOUS
  <2>2. PICK f : Scanning(t, k, f)
    OBVIOUS
  <2> DEFINE g == [j \in 0 .. k + 1 |-> IF j = k + 1
                     THEN IF t[k].nlink = 0 THEN Append(f[k], k) ELSE f[k]
                     ELSE f[j]]
             r(j) == IF j = 0 THEN <<>>
                     ELSE IF t[j - 1].nlink = 0 THEN Append(g[j - 1], j - 1) ELSE g[j - 1]
  <2>3. \A j \in 0 .. k : f[j] = IF j = 0 THEN <<>>
                     ELSE IF t[j - 1].nlink = 0 THEN Append(f[j - 1], j - 1) ELSE f[j - 1]
    BY <2>2 DEF Scanning
  <2>4. \A j \in 0 .. k : g[j] = f[j]
    BY <2>1
  <2>5. g[k + 1] = IF t[k].nlink = 0 THEN Append(f[k], k) ELSE f[k]
    BY <2>1
  <2>6. g = [j \in 0 .. k + 1 |-> g[j]]
    OBVIOUS
  <2> HIDE DEF g
  <2>7. ASSUME NEW j \in 0 .. k + 1 PROVE g[j] = r(j)
    <3>1. CASE j = k + 1
      <4>1. j # 0 /\ j - 1 = k /\ k \in 0 .. k
        BY <2>1, <3>1
      <4>2. g[k] = f[k]
        BY <2>4, <4>1
      <4>3. QED
        BY <2>5, <3>1, <4>1, <4>2
    <3>2. CASE j # k + 1
      <4>1. j \in 0 .. k /\ (j # 0 => j - 1 \in 0 .. k)
        BY <2>1, <3>2
      <4>2. g[j] = f[j] /\ (j # 0 => g[j - 1] = f[j - 1])
        BY <2>4, <4>1
      <4>3. QED
        BY <2>3, <4>1, <4>2
    <3>3. QED
      BY <3>1, <3>2
  <2>8. g = [j \in 0 .. k + 1 |-> r(j)]
    <3> HIDE DEF r
    <3>1. QED
      BY <2>6, <2>7
  <2>9. Scanning(t, k + 1, g)
    BY <2>8 DEF Scanning
  <2>10. QED
    BY <2>1, <2>9
<1> HIDE DEF A
<1>3. A \in SUBSET Nat
  BY DEF A
<1>4. n \in A
  BY <1>1, <1>2, <1>3, SetInduction
<1>5. QED
  BY <1>4 DEF A

\* The stack q holds each of the inodes below n without links once.
Unlinkeds(t, n, q) ==
    /\ q \in Seq(Nat)
    /\ \A k \in DOMAIN q : q[k] < n /\ t[q[k]].nlink = 0
    /\ \A i \in Nat : i < n /\ t[i].nlink = 0 => \E k \in DOMAIN q : q[k] = i
    /\ \A j, k \in DOMAIN q : q[j] = q[k] => j = k

LEMMA ScanFacts ==
  ASSUME NEW t, NEW n \in Nat
  PROVE  Unlinkeds(t, n, ZeroLinks(t, n))
<1> DEFINE f == CHOOSE g : g = [k \in 0 .. n |-> IF k = 0 THEN <<>>
                          ELSE IF t[k - 1].nlink = 0 THEN Append(g[k - 1], k - 1)
                          ELSE g[k - 1]]
           A == {k \in Nat : k <= n => Unlinkeds(t, k, f[k])}
<1>1. ZeroLinks(t, n) = f[n]
  BY DEF ZeroLinks, Scanned
<1>2. f = CHOOSE g : Scanning(t, n, g)
  BY DEF Scanning
<1> HIDE DEF f
<1>3. Scanning(t, n, f)
  BY <1>2, ScanningExists
<1>4. \A k \in 0 .. n : f[k] = IF k = 0 THEN <<>>
                          ELSE IF t[k - 1].nlink = 0 THEN Append(f[k - 1], k - 1)
                          ELSE f[k - 1]
  BY <1>3 DEF Scanning
<1>5. 0 \in A
  <2>1. f[0] = <<>>
    BY <1>4
  <2>2. <<>> \in Seq(Nat) /\ DOMAIN <<>> = {} /\ \A i \in Nat : ~(i < 0)
    OBVIOUS
  <2>3. Unlinkeds(t, 0, f[0])
    BY <2>1, <2>2 DEF Unlinkeds
  <2>4. QED
    BY <2>3
<1>6. ASSUME NEW k \in A, k < n PROVE k + 1 \in A
  <2>1. k \in Nat /\ Unlinkeds(t, k, f[k])
    BY <1>6
  <2>2. k + 1 \in 0 .. n /\ k + 1 # 0 /\ (k + 1) - 1 = k
    BY <1>6, <2>1
  <2>3. f[k + 1] = IF t[k].nlink = 0 THEN Append(f[k], k) ELSE f[k]
    BY <1>4, <2>2
  <2>4. PICK q : q = f[k]
    OBVIOUS
  <2>5. Unlinkeds(t, k, q) /\ q \in Seq(Nat)
    BY <2>1, <2>4 DEF Unlinkeds
  <2>6. CASE t[k].nlink = 0
    <3> DEFINE w == Append(q, k)
    <3>1. /\ w \in Seq(Nat) /\ DOMAIN w = DOMAIN q \cup {Len(q) + 1} /\ w[Len(q) + 1] = k
          /\ \A j \in DOMAIN q : w[j] = q[j]
          /\ Len(q) + 1 \notin DOMAIN q
      BY <2>1, <2>5
    <3> HIDE DEF w
    <3>2. \A j \in DOMAIN q : q[j] < k /\ q[j] \in Nat
      BY <2>5 DEF Unlinkeds
    <3>3. \A j \in DOMAIN w : w[j] < k + 1 /\ t[w[j]].nlink = 0
      BY <2>1, <2>5, <2>6, <3>1, <3>2 DEF Unlinkeds
    <3>4. ASSUME NEW i \in Nat, i < k + 1, t[i].nlink = 0 PROVE \E j \in DOMAIN w : w[j] = i
      <4>1. i = k \/ i < k
        BY <2>1, <3>4
      <4>2. i < k => \E j \in DOMAIN q : q[j] = i
        BY <2>5, <3>4 DEF Unlinkeds
      <4>3. QED
        BY <3>1, <4>1, <4>2
    <3>5. \A i, j \in DOMAIN w : w[i] = w[j] => i = j
      <4>1. \A i \in DOMAIN q : w[i] # k
        BY <2>1, <3>1, <3>2
      <4>2. \A i, j \in DOMAIN q : w[i] = w[j] => i = j
        BY <2>5, <3>1 DEF Unlinkeds
      <4>3. QED
        BY <3>1, <4>1, <4>2
    <3>6. Unlinkeds(t, k + 1, w)
      BY <3>1, <3>3, <3>4, <3>5 DEF Unlinkeds
    <3>7. f[k + 1] = w
      BY <2>3, <2>4, <2>6 DEF w
    <3>8. QED
      BY <2>1, <3>6, <3>7
  <2>7. CASE t[k].nlink # 0
    <3>1. f[k + 1] = q
      BY <2>3, <2>4, <2>7
    <3>2. \A j \in DOMAIN q : q[j] < k + 1 /\ t[q[j]].nlink = 0
      BY <2>1, <2>5 DEF Unlinkeds
    <3>3. ASSUME NEW i \in Nat, i < k + 1, t[i].nlink = 0 PROVE \E j \in DOMAIN q : q[j] = i
      <4>1. i # k
        BY <2>7, <3>3
      <4>2. i < k
        BY <2>1, <3>3, <4>1
      <4>3. QED
        BY <2>5, <3>3, <4>2 DEF Unlinkeds
    <3>4. Unlinkeds(t, k + 1, q)
      BY <2>5, <3>2, <3>3 DEF Unlinkeds
    <3>5. QED
      BY <2>1, <3>1, <3>4
  <2>8. QED
    BY <2>6, <2>7
<1> HIDE DEF A
<1>7. A \in SUBSET Nat
  BY DEF A
<1>8. n \in A
  BY <1>5, <1>6, <1>7, SetInduction
<1>9. QED
  BY <1>1, <1>8 DEF A

----------------------------------------------------------------------------
(* dir_subtree_contains. *)

\* One more level of the walk.
Deeper(t, W) == W \cup UNION {Children(t, d) : d \in {x \in W : t[x].kind = "dir"}}

Walking(t, root, n, f) ==
    f = [k \in 0 .. n |-> IF k = 0 THEN {root} ELSE Deeper(t, f[k - 1])]

LEMMA WalkingExists ==
  ASSUME NEW t, NEW root, NEW n \in Nat
  PROVE  \E f : Walking(t, root, n, f)
<1> DEFINE A == {k \in Nat : \E f : Walking(t, root, k, f)}
<1>1. 0 \in A
  <2> DEFINE f == [k \in 0 .. 0 |-> {root}]
  <2>1. Walking(t, root, 0, f)
    BY DEF Walking
  <2> HIDE DEF f
  <2>2. QED
    BY <2>1
<1>2. ASSUME NEW k \in A PROVE k + 1 \in A
  <2>1. k \in Nat
    OBVIOUS
  <2>2. PICK f : Walking(t, root, k, f)
    OBVIOUS
  <2> DEFINE g == [j \in 0 .. k + 1 |-> IF j = k + 1 THEN Deeper(t, f[k]) ELSE f[j]]
             r(j) == IF j = 0 THEN {root} ELSE Deeper(t, g[j - 1])
  <2>3. \A j \in 0 .. k : f[j] = IF j = 0 THEN {root} ELSE Deeper(t, f[j - 1])
    BY <2>2 DEF Walking
  <2>4. \A j \in 0 .. k : g[j] = f[j]
    BY <2>1
  <2>5. g[k + 1] = Deeper(t, f[k])
    BY <2>1
  <2>6. g = [j \in 0 .. k + 1 |-> g[j]]
    OBVIOUS
  <2> HIDE DEF g
  <2>7. ASSUME NEW j \in 0 .. k + 1 PROVE g[j] = r(j)
    <3>1. CASE j = k + 1
      <4>1. j # 0 /\ j - 1 = k /\ k \in 0 .. k
        BY <2>1, <3>1
      <4>2. g[k] = f[k]
        BY <2>4, <4>1
      <4>3. QED
        BY <2>5, <3>1, <4>1, <4>2
    <3>2. CASE j # k + 1
      <4>1. j \in 0 .. k /\ (j # 0 => j - 1 \in 0 .. k)
        BY <2>1, <3>2
      <4>2. g[j] = f[j] /\ (j # 0 => g[j - 1] = f[j - 1])
        BY <2>4, <4>1
      <4>3. QED
        BY <2>3, <4>1, <4>2
    <3>3. QED
      BY <3>1, <3>2
  <2>8. g = [j \in 0 .. k + 1 |-> r(j)]
    <3> HIDE DEF r
    <3>1. QED
      BY <2>6, <2>7
  <2>9. Walking(t, root, k + 1, g)
    BY <2>8 DEF Walking
  <2>10. QED
    BY <2>1, <2>9
<1> HIDE DEF A
<1>3. A \in SUBSET Nat
  BY DEF A
<1>4. n \in A
  BY <1>1, <1>2, <1>3, SetInduction
<1>5. QED
  BY <1>4 DEF A

LEMMA DeeperFacts ==
  ASSUME NEW t, Paged(t), NEW W \in SUBSET Ids
  PROVE  Deeper(t, W) = W \cup {e[3] : e \in {x \in Entries(t) : x[1] \in W}}
<1>1. /\ Entries(t) \in SUBSET Bindings
      /\ \A d, n, i : <<d, n, i>> \in Entries(t) <=> d \in Ids /\ At(t[d].pages, n, i)
  BY EntryIff
<1>2. ASSUME NEW d \in Ids, NEW c PROVE c \in Children(t, d) <=> \E e \in Entries(t) : e[1] = d /\ e[3] = c
  <2>1. PICK q : q = t[d].pages
    OBVIOUS
  <2>2. q \in Seq(Page) /\ Single(q)
    BY <2>1, InodeFacts DEF Paged
  <2>3. \A n, i : At(q, n, i) <=> Has(q, n) /\ Find(q, n) = i
    BY <2>2, FindFacts
  <2>4. ASSUME NEW n \in Names, Has(q, n), c = Find(q, n) PROVE \E e \in Entries(t) : e[1] = d /\ e[3] = c
    <3>1. <<d, n, c>> \in Entries(t)
      BY <1>1, <2>1, <2>3, <2>4
    <3>2. QED
      BY <3>1
  <2>5. ASSUME NEW e \in Entries(t), e[1] = d, e[3] = c
        PROVE  \E n \in Names : Has(q, n) /\ c = Find(q, n)
    <3>1. e = <<d, e[2], c>> /\ e[2] \in Names
      BY <1>1, <2>5 DEF Bindings
    <3>2. At(q, e[2], c)
      BY <1>1, <2>1, <3>1
    <3>3. QED
      BY <2>3, <3>1, <3>2
  <2>6. c \in Children(t, d) <=> \E n \in Names : Has(q, n) /\ c = Find(q, n)
    BY <2>1 DEF Children
  <2>7. QED
    BY <2>4, <2>5, <2>6
<1>3. ASSUME NEW e \in Entries(t) PROVE t[e[1]].kind = "dir" /\ e[1] \in Ids
  <2>1. e = <<e[1], e[2], e[3]>> /\ e[1] \in Ids
    BY <1>1 DEF Bindings
  <2>2. At(t[e[1]].pages, e[2], e[3])
    BY <1>1, <2>1
  <2>3. t[e[1]].pages # <<>>
    BY <2>2 DEF At
  <2>4. QED
    BY <2>1, <2>3 DEF Paged
<1>4. QED
  BY <1>2, <1>3 DEF Deeper

LEMMA SubtreeFacts ==
  ASSUME NEW t, Paged(t), NEW root \in Ids
  PROVE  Subtree(t, root) = Below(Entries(t), root)
<1> DEFINE f == CHOOSE g : g = [k \in 0 .. InodeCap |-> IF k = 0 THEN {root} ELSE g[k - 1] \cup
                     UNION {Children(t, d) : d \in {x \in g[k - 1] : t[x].kind = "dir"}}]
           T == Entries(t)
           B == Below(T, root)
           A == {k \in Nat : k <= InodeCap =>
                   /\ f[k] \in SUBSET Ids /\ root \in f[k] /\ f[k] \subseteq B
                   /\ Closed(T, f[k]) \/ Cardinality(f[k]) > k}
<1>1. Subtree(t, root) = f[InodeCap]
  BY DEF Subtree
<1>2. f = CHOOSE g : Walking(t, root, InodeCap, g)
  BY DEF Walking, Deeper
<1> HIDE DEF f
<1>3. InodeCap \in Nat
  BY NamespaceAssumption
<1>4. Walking(t, root, InodeCap, f)
  BY <1>2, <1>3, WalkingExists
<1>5. \A k \in 0 .. InodeCap : f[k] = IF k = 0 THEN {root} ELSE Deeper(t, f[k - 1])
  BY <1>4 DEF Walking
<1>6. T \in SUBSET Bindings /\ B \in SUBSET Ids /\ root \in B /\ Closed(T, B)
  BY EntryIff, BelowFacts
<1> HIDE DEF B, T
<1>7. 0 \in A
  <2>1. f[0] = {root}
    BY <1>3, <1>5
  <2>2. Cardinality({root}) = 1
    BY FS_Singleton
  <2>3. QED
    BY <1>6, <2>1, <2>2
<1>8. ASSUME NEW k \in A, k < InodeCap PROVE k + 1 \in A
  <2>1. /\ k \in Nat /\ f[k] \in SUBSET Ids /\ root \in f[k] /\ f[k] \subseteq B
        /\ Closed(T, f[k]) \/ Cardinality(f[k]) > k
    BY <1>3, <1>8
  <2>2. k + 1 \in 0 .. InodeCap /\ k + 1 # 0 /\ (k + 1) - 1 = k
    BY <1>3, <1>8, <2>1
  <2>3. f[k + 1] = Deeper(t, f[k])
    BY <1>5, <2>2
  <2>4. PICK W : W = f[k]
    OBVIOUS
  <2>5. PICK V : V = f[k + 1]
    OBVIOUS
  <2>6. V = W \cup {e[3] : e \in {x \in T : x[1] \in W}}
    BY <2>1, <2>3, <2>4, <2>5, DeeperFacts DEF T
  <2>7. V \in SUBSET Ids /\ root \in V /\ V \subseteq B /\ W \subseteq V
    <3>1. \A e \in T : e[1] \in W => e[3] \in B
      BY <1>6, <2>1, <2>4 DEF Closed
    <3>2. QED
      BY <1>6, <2>1, <2>4, <2>6, <3>1
  <2>8. CASE Closed(T, W)
    <3>1. V = W
      BY <2>6, <2>8 DEF Closed
    <3>2. f[k + 1] \in SUBSET Ids /\ root \in f[k + 1] /\ f[k + 1] \subseteq B /\ Closed(T, f[k + 1])
      BY <2>5, <2>7, <2>8, <3>1
    <3>3. k + 1 \in Nat
      BY <2>1
    <3>4. QED
      BY <3>2, <3>3
  <2>9. CASE ~Closed(T, W)
    <3>1. PICK e \in T : e[1] \in W /\ e[3] \notin W
      BY <2>9 DEF Closed
    <3>2. e[3] \in V
      BY <2>6, <3>1
    <3>3. V # W
      BY <3>1, <3>2
    <3>4. IsFiniteSet(V) /\ IsFiniteSet(W)
      BY <2>1, <2>4, <2>7, IdsFacts, FS_Subset
    <3>5. Cardinality(W) < Cardinality(V)
      <4>1. Cardinality(W) <= Cardinality(V) /\ (Cardinality(V) = Cardinality(W) => V = W)
        BY <2>7, <3>4, FS_Subset
      <4>2. Cardinality(W) \in Nat /\ Cardinality(V) \in Nat
        BY <3>4, FS_CardinalityType
      <4>3. QED
        BY <3>3, <4>1, <4>2
    <3>6. Cardinality(W) \in Nat /\ Cardinality(V) \in Nat /\ Cardinality(W) > k
      BY <2>1, <2>4, <2>9, <3>4, FS_CardinalityType
    <3>7. Cardinality(V) > k + 1
      BY <2>1, <3>5, <3>6
    <3>8. QED
      BY <2>1, <2>5, <2>7, <3>7
  <2>10. QED
    BY <2>8, <2>9
<1> HIDE DEF A
<1>9. A \in SUBSET Nat
  BY DEF A
<1>10. InodeCap \in A
  BY <1>3, <1>7, <1>8, <1>9, SetInduction
<1>11. PICK W : W = f[InodeCap]
  OBVIOUS
<1>12. /\ W \in SUBSET Ids /\ root \in W /\ W \subseteq B
       /\ Closed(T, W) \/ Cardinality(W) > InodeCap
  BY <1>3, <1>10, <1>11 DEF A
<1>13. Cardinality(W) \in Nat /\ Cardinality(W) <= InodeCap
  <2>1. IsFiniteSet(W) /\ Cardinality(W) <= Cardinality(Ids)
    BY <1>12, IdsFacts, FS_Subset
  <2>2. QED
    BY <2>1, IdsFacts, FS_CardinalityType
<1>14. Closed(T, W)
  BY <1>3, <1>12, <1>13
<1>15. B \subseteq W
  BY <1>12, <1>14, BelowLeast DEF B
<1>16. QED
  BY <1>1, <1>11, <1>12, <1>15 DEF B, T

----------------------------------------------------------------------------
(* The inductive invariant. *)

\* The calls for which it holds.  Each exclusion has a counterexample: a stale
\* id that is opened, a directory that is replaced or leaves its links behind at
\* a mount, and a rename that a full device stops in the middle.
Supported ==
    /\ "open" \in Ops => ~Races
    /\ "replace_dir" \notin Ops
    /\ "rename" \in Ops => ~NoSpace
    /\ "move_dir" \in Ops => "commit" \notin Ops

Opened(hs, i) == \E h \in Handles : hs[h] # None /\ hs[h][1] = i
HandlesOn(hs, i) == {h \in Handles : hs[h] # None /\ hs[h][1] = i}

\* An id on the reuse stack q is there once and is no directory, and neither a
\* name nor a handle refers to it.
Stack(q, t, nx, hs) ==
    /\ q \in Seq(Ids)
    /\ \A j, k \in DOMAIN q : q[j] = q[k] => j = k
    /\ \A k \in DOMAIN q : /\ q[k] < nx /\ q[k] \notin Dirs(t)
                           /\ NamesIn(Entries(t), q[k]) = {} /\ ~Opened(hs, q[k])

\* A file without links is kept by a handle, or can be reused.
Zero(q, t, nx, hs) ==
    \A i \in Ids \ Dirs(t) :
        i < nx /\ t[i].nlink = 0 => Opened(hs, i) \/ \E k \in DOMAIN q : q[k] = i

\* A handle refers to the file it was opened on, and handles are counted.
Keeps(t, nx, o, hs) ==
    /\ \A h \in Handles : hs[h] # None =>
          /\ t[hs[h][1]].kind = "file" /\ t[hs[h][1]].gen = hs[h][2] /\ hs[h][1] < nx
    /\ \A i \in Ids : o[i] = Cardinality(HandlesOn(hs, i))

HandlesType == [Handles -> (Ids \X Nat) \cup {None}]

Good(t, nx, q, o, c, hs) ==
    /\ nx \in 1 .. InodeCap /\ o \in [Ids -> Nat] /\ hs \in HandlesType
    /\ Mirrors(c, t, {}) /\ Table(t, nx, {})
    /\ Stack(q, t, nx, hs) /\ Zero(q, t, nx, hs) /\ Keeps(t, nx, o, hs)

Snapshots == [ino : [Ids -> Inode], next : 1 .. InodeCap]

Snap(img) == img \in Snapshots /\ Table(img.ino, img.next, {})

IInv ==
    /\ Good(ino, next, free, opens, cache, handles)
    /\ Snap(image)
    /\ held \in (Ids \X Nat) \cup {None}

LEMMA Full ==
  ASSUME NEW t, NEW nx, NEW E, Table(t, nx, E), NoSpace
  PROVE  Table(t, nx, {})
BY DEF Table, Sound, Exact

LEMMA SnapMid ==
  ASSUME NEW t, NEW nx \in 1 .. InodeCap, Table(t, nx, {})
  PROVE  Snap([ino |-> t, next |-> nx])
<1>1. t \in [Ids -> Inode]
  BY DEF Table, Paged
<1> DEFINE im == [ino |-> t, next |-> nx]
<1>2. im \in Snapshots /\ im.ino = t /\ im.next = nx
  BY <1>1 DEF Snapshots
<1> HIDE DEF im
<1>3. Snap(im)
  BY <1>2 DEF Snap
<1>4. QED
  BY <1>3 DEF im

----------------------------------------------------------------------------
(* Storing a directory, with its place in the cache. *)

\* The inode a flush leaves in the table.
Filled(g) == [g.in EXCEPT !.pages = g.pages]

LEMMA StoredFacts ==
  ASSUME NEW t, Paged(t), NEW d \in Ids, NEW g, Working(g), g.in.kind = "dir"
  PROVE  /\ Puts(t, Stored(t, d, g), d, Filled(g))
         /\ Filled(g).kind = "dir" /\ Filled(g).pages = g.pages /\ Filled(g).nlink = g.in.nlink
         /\ Filled(g).gen = g.in.gen
<1>1. g.in \in Inode /\ g.pages \in Seq(Page) /\ Single(g.pages)
  BY DEF Working, Work
<1>2. /\ Filled(g) \in Inode /\ Filled(g).kind = "dir" /\ Filled(g).pages = g.pages
      /\ Filled(g).nlink = g.in.nlink /\ Filled(g).gen = g.in.gen
  BY <1>1 DEF Filled, Inode
<1>3. Stored(t, d, g) = [t EXCEPT ![d] = Filled(g)]
  BY DEF Stored, Filled
<1>4. QED
  BY <1>1, <1>2, <1>3 DEF Puts

LEMMA MirrorsLess ==
  ASSUME NEW c, NEW t, NEW X, Mirrors(c, t, X)
  PROVE  Mirrors(c, t, {})
BY DEF Mirrors

\* The cache after commit_dir, when the directories in X are out of it.
LEMMA ReturnedFacts ==
  ASSUME NEW c, NEW t, NEW X, Mirrors(c, t, X), Paged(t), NEW d \in X, d \in Ids,
         NEW g, Working(g), g.in.kind = "dir"
  PROVE  /\ Mirrors(Returned(c, d, g, TRUE), Stored(t, d, g), X \ {d})
         /\ Mirrors(Returned(c, d, g, FALSE), t, X)
<1>1. /\ Puts(t, Stored(t, d, g), d, Filled(g))
      /\ Filled(g).kind = "dir" /\ Filled(g).pages = g.pages
  BY StoredFacts
<1>2. PICK u : u = Stored(t, d, g)
  OBVIOUS
<1>3. u[d] = Filled(g) /\ \A i \in Ids : i # d => u[i] = t[i]
  BY <1>1, <1>2, PutFacts
<1>4. SameDirs(t, u, X)
  BY <1>3 DEF SameDirs
<1>5. Mirrors(c, u, X)
  BY <1>4, MirrorsKept
<1>6. g.pages \in Seq(Page) /\ u[d].kind = "dir" /\ g.pages = u[d].pages
  BY <1>1, <1>3 DEF Working, Work
<1>7. Mirrors(Insert(c, d, g.pages), u, X \ {d})
  <2>1. PICK ps : ps = g.pages
    OBVIOUS
  <2>2. Mirrors(Insert(c, d, ps), u, X \ {d})
    BY <1>5, <1>6, <2>1, InsertFacts
  <2>3. QED
    BY <2>1, <2>2
<1>8. QED
  BY <1>2, <1>7 DEF Returned

Relinked(h, k) == [h EXCEPT !.in.nlink = k]

LEMMA WorkLinked ==
  ASSUME NEW h, Working(h), NEW k \in Nat
  PROVE  /\ Working(Relinked(h, k)) /\ Relinked(h, k).pages = h.pages
         /\ Relinked(h, k).dirty = h.dirty
         /\ Relinked(h, k).in.kind = h.in.kind /\ Relinked(h, k).in.nlink = k
         /\ Relinked(h, k).in.gen = h.in.gen /\ Relinked(h, k).in.pages = h.in.pages
<1>1. h \in Work /\ h.in \in Inode
  BY DEF Working, Work
<1>2. PICK g : g = Relinked(h, k)
  OBVIOUS
<1>3. /\ g \in Work /\ g.pages = h.pages /\ g.dirty = h.dirty
      /\ g.in = [h.in EXCEPT !.nlink = k]
  BY <1>1, <1>2 DEF Work, Inode, Relinked
<1>4. g.in.kind = h.in.kind /\ g.in.nlink = k /\ g.in.gen = h.in.gen /\ g.in.pages = h.in.pages
  BY <1>1, <1>3 DEF Inode
<1>5. Working(g)
  BY <1>3, <1>4 DEF Working
<1>6. QED
  BY <1>2, <1>3, <1>4, <1>5

LEMMA RelinkedIs ==
  ASSUME NEW h, Working(h)
  PROVE  /\ [h EXCEPT !.in.nlink = @ + 1] = Relinked(h, h.in.nlink + 1)
         /\ LoseSubdir(h) = Relinked(h, Less(h.in.nlink))
BY DEF Relinked, LoseSubdir

----------------------------------------------------------------------------
(* Allocating an inode id. *)

LEMMA AllocFacts ==
  ASSUME Good(ino, next, free, opens, cache, handles), CanAlloc
  PROVE  /\ NewId \in Ids /\ NewId \notin Dirs(ino) /\ NamesIn(Entries(ino), NewId) = {}
         /\ ~Opened(handles, NewId)
         /\ NextAfter \in 1 .. InodeCap /\ next <= NextAfter /\ NewId < NextAfter
         /\ \A i \in Ids : i < NextAfter => i < next \/ i = NewId
         /\ FreeAfter \in Seq(Ids)
         /\ \A k \in DOMAIN FreeAfter : k \in DOMAIN free /\ FreeAfter[k] = free[k] /\ free[k] # NewId
         /\ \A k \in DOMAIN free : free[k] # NewId => k \in DOMAIN FreeAfter
<1>1. /\ next \in 1 .. InodeCap /\ InodeCap \in Nat
      /\ Stack(free, ino, next, handles) /\ Table(ino, next, {})
      /\ Keeps(ino, next, opens, handles)
  BY NamespaceAssumption DEF Good
<1>2. free \in Seq(Ids) /\ Len(free) \in Nat /\ DOMAIN free = 1 .. Len(free)
  BY <1>1 DEF Stack
<1>3. CASE free # <<>>
  <2>1. /\ NewId = free[Len(free)] /\ NextAfter = next
        /\ FreeAfter = SubSeq(free, 1, Len(free) - 1)
    BY <1>3 DEF NewId, NextAfter, FreeAfter
  <2>2. Len(free) \in DOMAIN free /\ Len(free) - 1 \in Nat
    BY <1>2, <1>3
  <2>3. /\ NewId \in Ids /\ NewId < next /\ NewId \notin Dirs(ino)
        /\ NamesIn(Entries(ino), NewId) = {} /\ ~Opened(handles, NewId)
    BY <1>1, <1>2, <2>1, <2>2 DEF Stack
  <2>4. /\ FreeAfter \in Seq(Ids) /\ DOMAIN FreeAfter = 1 .. Len(free) - 1
        /\ \A k \in 1 .. Len(free) - 1 : FreeAfter[k] = free[k]
    BY <1>2, <2>1, <2>2
  <2>5. \A k \in 1 .. Len(free) - 1 : k \in DOMAIN free /\ k # Len(free)
    <3>1. PICK m \in Nat : m = Len(free) /\ DOMAIN free = 1 .. m
      BY <1>2
    <3>2. \A k \in 1 .. m - 1 : k \in 1 .. m /\ k # m
      OBVIOUS
    <3>3. QED
      BY ONLY <3>1, <3>2
  <2>6. \A k \in 1 .. Len(free) - 1 : free[k] # NewId
    BY <1>1, <2>1, <2>2, <2>5 DEF Stack
  <2>7. \A k \in DOMAIN free : free[k] # NewId => k \in 1 .. Len(free) - 1
    BY <1>2, <2>1
  <2>8. \A i \in Ids : i < NextAfter => i < next \/ i = NewId
    BY <2>1
  <2>9. NextAfter \in 1 .. InodeCap /\ next <= NextAfter /\ NewId < NextAfter
    BY <1>1, <2>1, <2>3
  <2>10. QED
    BY <2>3, <2>4, <2>5, <2>6, <2>7, <2>8, <2>9
<1>4. CASE free = <<>>
  <2>1. NewId = next /\ NextAfter = next + 1 /\ FreeAfter = free /\ next < InodeCap
    BY <1>4 DEF NewId, NextAfter, FreeAfter, CanAlloc
  <2>2. next \in Ids /\ next + 1 \in 1 .. InodeCap /\ next < next + 1 /\ next <= next + 1
        /\ \A i \in Ids : i < next + 1 => i < next \/ i = next
    BY <1>1, <2>1 DEF Ids
  <2>3. next \notin Dirs(ino) /\ NamesIn(Entries(ino), next) = {}
    <3>1. \A i \in Dirs(ino) : i < next
      BY <1>1 DEF Table, Sound, Forest
    <3>2. \A e \in Entries(ino) : e[3] < next
      BY <1>1 DEF Table, Sound, Forest
    <3>3. ~(next < next)
      BY <1>1
    <3>4. QED
      BY <3>1, <3>2, <3>3 DEF NamesIn
  <2>4. ~Opened(handles, next)
    <3>1. ~(next < next)
      BY <1>1
    <3>2. QED
      BY <1>1, <3>1 DEF Keeps, Opened
  <2>5. DOMAIN free = {}
    BY <1>2, <1>4
  <2>6. QED
    BY <1>2, <2>1, <2>2, <2>3, <2>4, <2>5
<1>5. QED
  BY <1>3, <1>4

----------------------------------------------------------------------------
(* The reuse stack and the handles, when some inodes change. *)

Rest(q, t, nx, o, hs) == Stack(q, t, nx, hs) /\ Zero(q, t, nx, hs) /\ Keeps(t, nx, o, hs)

\* Outside X, inodes keep their kind, their generation and, unless they are
\* directories, their links; and one without names gets none.
Outside(t, u, X) ==
    /\ t \in [Ids -> Inode] /\ u \in [Ids -> Inode]
    /\ \A i \in Ids \ X :
          /\ u[i].kind = t[i].kind /\ u[i].gen = t[i].gen
          /\ t[i].kind # "dir" => u[i].nlink = t[i].nlink
          /\ NamesIn(Entries(t), i) = {} => NamesIn(Entries(u), i) = {}

LEMMA HandleOf ==
  ASSUME NEW hs \in HandlesType, NEW h \in Handles, hs[h] # None
  PROVE  hs[h] \in Ids \X Nat /\ hs[h][1] \in Ids /\ hs[h][2] \in Nat
BY DEF HandlesType

LEMMA RestSame ==
  ASSUME NEW q, NEW t, NEW u, NEW nx, NEW o, NEW hs \in HandlesType,
         Rest(q, t, nx, o, hs), Outside(t, u, {})
  PROVE  Rest(q, u, nx, o, hs)
<1>1. Dirs(u) = Dirs(t) /\ \A i \in Ids \ Dirs(t) : u[i].nlink = t[i].nlink
  BY DEF Outside, Dirs
<1>2. \A i \in Ids : NamesIn(Entries(t), i) = {} => NamesIn(Entries(u), i) = {}
  BY DEF Outside
<1>3. q \in Seq(Ids) /\ \A k \in DOMAIN q : q[k] \in Ids
  BY DEF Rest, Stack
<1>4. Stack(q, u, nx, hs)
  BY <1>1, <1>2, <1>3 DEF Rest, Stack
<1>5. Zero(q, u, nx, hs)
  BY <1>1 DEF Rest, Zero
<1>6. Keeps(u, nx, o, hs)
  BY HandleOf DEF Rest, Keeps, Outside
<1>7. QED
  BY <1>4, <1>5, <1>6 DEF Rest

\* An inode outside the stack, which gets or keeps a link or a handle.
LEMMA RestUsed ==
  ASSUME NEW q, NEW t, NEW u, NEW nx, NEW o, NEW hs \in HandlesType, NEW id \in Ids,
         Rest(q, t, nx, o, hs), Outside(t, u, {id}),
         u[id].kind = t[id].kind, u[id].gen = t[id].gen,
         u[id].nlink = 0 => Opened(hs, id),
         \A k \in DOMAIN q : q[k] # id
  PROVE  Rest(q, u, nx, o, hs)
<1>1. Dirs(u) = Dirs(t) /\ \A i \in Ids \ Dirs(t) : i # id => u[i].nlink = t[i].nlink
  BY DEF Outside, Dirs
<1>2. \A i \in Ids : i # id /\ NamesIn(Entries(t), i) = {} => NamesIn(Entries(u), i) = {}
  BY DEF Outside
<1>3. q \in Seq(Ids) /\ \A k \in DOMAIN q : q[k] \in Ids
  BY DEF Rest, Stack
<1>4. Stack(q, u, nx, hs)
  BY <1>1, <1>2, <1>3 DEF Rest, Stack
<1>5. Zero(q, u, nx, hs)
  BY <1>1 DEF Rest, Zero
<1>6. Keeps(u, nx, o, hs)
  BY HandleOf DEF Rest, Keeps, Outside
<1>7. QED
  BY <1>4, <1>5, <1>6 DEF Rest

\* All but id of the inodes without links are kept by a handle, or can be reused.
ZeroBut(q, t, nx, hs, id) ==
    \A i \in Ids \ Dirs(t) :
        i # id /\ i < nx /\ t[i].nlink = 0 => Opened(hs, i) \/ \E k \in DOMAIN q : q[k] = i

\* An inode that is reclaimed: nothing refers to it any more.
LEMMA RestReclaimedBut ==
  ASSUME NEW q, NEW t, NEW u, NEW nx, NEW o, NEW hs \in HandlesType, NEW id \in Ids,
         Stack(q, t, nx, hs), ZeroBut(q, t, nx, hs, id), Keeps(t, nx, o, hs), Outside(t, u, {id}),
         u[id].kind = "file", NamesIn(Entries(u), id) = {}, id < nx, ~Opened(hs, id),
         \A k \in DOMAIN q : q[k] # id
  PROVE  Rest(Append(q, id), u, nx, o, hs)
<1>1. /\ Dirs(u) \subseteq Dirs(t) /\ Dirs(t) \subseteq Dirs(u) \cup {id} /\ id \notin Dirs(u)
      /\ \A i \in Ids \ Dirs(u) : i # id => u[i].nlink = t[i].nlink
  BY DEF Outside, Dirs
<1>2. \A i \in Ids : i # id /\ NamesIn(Entries(t), i) = {} => NamesIn(Entries(u), i) = {}
  BY DEF Outside
<1>3. q \in Seq(Ids) /\ \A k \in DOMAIN q : q[k] \in Ids
  BY DEF Stack
<1>4. PICK p : p = Append(q, id)
  OBVIOUS
<1>5. /\ p \in Seq(Ids) /\ Len(p) = Len(q) + 1 /\ DOMAIN p = 1 .. Len(q) + 1 /\ DOMAIN q = 1 .. Len(q)
      /\ Len(q) \in Nat /\ p[Len(q) + 1] = id /\ \A k \in 1 .. Len(q) : p[k] = q[k]
  BY <1>3, <1>4
<1>6. PICK m \in Nat : m = Len(q)
  BY <1>5
<1>7. /\ DOMAIN p = 1 .. m + 1 /\ DOMAIN q = 1 .. m /\ p[m + 1] = id
      /\ \A k \in 1 .. m : p[k] = q[k]
  BY <1>5, <1>6
<1>8. \A k \in 1 .. m + 1 : k = m + 1 \/ k \in 1 .. m
  OBVIOUS
<1>9. \A k \in DOMAIN p : k = m + 1 \/ (k \in DOMAIN q /\ p[k] = q[k] /\ p[k] # id)
  BY <1>7, <1>8
<1>10. m + 1 \in DOMAIN p /\ \A k \in DOMAIN q : k \in DOMAIN p /\ p[k] = q[k]
  BY <1>7
<1>11. \A k \in DOMAIN p : \/ p[k] = id
                           \/ k \in DOMAIN q /\ p[k] = q[k] /\ p[k] # id /\ p[k] \in Ids
  BY <1>3, <1>7, <1>9
<1>12. Stack(p, u, nx, hs)
  <2>1. \A j, k \in DOMAIN p : p[j] = p[k] => j = k
    BY <1>7, <1>9 DEF Stack
  <2>2. \A k \in DOMAIN p : /\ p[k] < nx /\ p[k] \notin Dirs(u)
                            /\ NamesIn(Entries(u), p[k]) = {} /\ ~Opened(hs, p[k])
    BY <1>1, <1>2, <1>11 DEF Stack
  <2>3. QED
    BY <1>5, <2>1, <2>2 DEF Stack
<1>13. Zero(p, u, nx, hs)
  <2>1. \A i \in Ids \ Dirs(u) : i # id => i \in Ids \ Dirs(t)
    BY <1>1
  <2>2. QED
    BY <1>1, <1>7, <1>10, <2>1 DEF Zero, ZeroBut
<1>14. Keeps(u, nx, o, hs)
  <2>1. \A h \in Handles : hs[h] # None => hs[h][1] \in Ids \ {id}
    BY HandleOf DEF Opened
  <2>2. QED
    BY <2>1 DEF Keeps, Outside
<1>15. QED
  BY <1>4, <1>12, <1>13, <1>14 DEF Rest

LEMMA RestReclaimed ==
  ASSUME NEW q, NEW t, NEW u, NEW nx, NEW o, NEW hs \in HandlesType, NEW id \in Ids,
         Rest(q, t, nx, o, hs), Outside(t, u, {id}),
         u[id].kind = "file", NamesIn(Entries(u), id) = {}, id < nx, ~Opened(hs, id),
         \A k \in DOMAIN q : q[k] # id
  PROVE  Rest(Append(q, id), u, nx, o, hs)
<1>1. Stack(q, t, nx, hs) /\ ZeroBut(q, t, nx, hs, id) /\ Keeps(t, nx, o, hs)
  BY DEF Rest, Zero, ZeroBut
<1>2. QED
  BY <1>1, RestReclaimedBut

\* An inode that is allocated, with a link.
LEMMA RestFresh ==
  ASSUME Good(ino, next, free, opens, cache, handles), CanAlloc,
         NEW u, Outside(ino, u, {NewId}), u[NewId].nlink > 0
  PROVE  Rest(FreeAfter, u, NextAfter, opens, handles)
<1>1. PICK id : id = NewId
  OBVIOUS
<1>2. PICK ny : ny = NextAfter
  OBVIOUS
<1>3. PICK p : p = FreeAfter
  OBVIOUS
<1>4. /\ id \in Ids /\ id \notin Dirs(ino) /\ ~Opened(handles, id)
      /\ ny \in 1 .. InodeCap /\ next <= ny
      /\ \A i \in Ids : i < ny => i < next \/ i = id
      /\ p \in Seq(Ids)
      /\ \A k \in DOMAIN p : k \in DOMAIN free /\ p[k] = free[k] /\ free[k] # id
      /\ \A k \in DOMAIN free : free[k] # id => k \in DOMAIN p
  BY <1>1, <1>2, <1>3, AllocFacts
<1>5. /\ Stack(free, ino, next, handles) /\ Zero(free, ino, next, handles)
      /\ Keeps(ino, next, opens, handles) /\ handles \in HandlesType
      /\ next \in 1 .. InodeCap /\ InodeCap \in Nat
  BY NamespaceAssumption DEF Good
<1>6. /\ Dirs(u) \subseteq Dirs(ino) \cup {id} /\ Dirs(ino) \subseteq Dirs(u) \cup {id}
      /\ \A i \in Ids \ Dirs(u) : i # id => u[i].nlink = ino[i].nlink
  BY <1>1 DEF Outside, Dirs
<1>7. \A i \in Ids : i # id /\ NamesIn(Entries(ino), i) = {} => NamesIn(Entries(u), i) = {}
  BY <1>1 DEF Outside
<1>8. \A i \in Ids : i < next => i < ny
  BY <1>4, <1>5, IdsFacts
<1>9. \A k \in DOMAIN p : p[k] \in Ids
  BY <1>4
<1>10. Stack(p, u, ny, handles)
  <2>1. \A j, k \in DOMAIN p : p[j] = p[k] => j = k
    BY <1>4, <1>5 DEF Stack
  <2>2. \A k \in DOMAIN p : /\ p[k] < ny /\ p[k] \notin Dirs(u)
                            /\ NamesIn(Entries(u), p[k]) = {} /\ ~Opened(handles, p[k])
    BY <1>4, <1>5, <1>6, <1>7, <1>8, <1>9 DEF Stack
  <2>3. QED
    BY <1>4, <2>1, <2>2 DEF Stack
<1>11. Zero(p, u, ny, handles)
  <2> SUFFICES ASSUME NEW i \in Ids \ Dirs(u), i < ny, u[i].nlink = 0
               PROVE  Opened(handles, i) \/ \E k \in DOMAIN p : p[k] = i
    BY DEF Zero
  <2>1. i # id
    BY <1>1
  <2>2. i \in Ids \ Dirs(ino) /\ i < next /\ ino[i].nlink = 0
    BY <1>4, <1>6, <2>1
  <2>3. QED
    BY <1>4, <1>5, <2>1, <2>2 DEF Zero
<1>12. Keeps(u, ny, opens, handles)
  <2>1. \A h \in Handles : handles[h] # None => handles[h][1] \in Ids \ {id}
    BY <1>4, <1>5, HandleOf DEF Opened
  <2>2. QED
    BY <1>1, <1>5, <1>8, <2>1 DEF Keeps, Outside
<1>13. QED
  BY <1>2, <1>3, <1>10, <1>11, <1>12 DEF Rest

----------------------------------------------------------------------------
(* What a step does to the names. *)

\* One binding comes, goes, or takes another place.
Changed(T, U) ==
    \/ U = T
    \/ \E b \in T \ U : U = T \ {b}
    \/ \E b \in T \ U, c \in U \ T :
          /\ c[3] = b[3]
          /\ U = {x \in T \ {b} : <<x[1], x[2]>> # <<c[1], c[2]>>} \cup {c}
    \/ \E c \in U \ T : U = T \cup {c} /\ \A x \in T : <<x[1], x[2]>> # <<c[1], c[2]>>

TreeStep ==
    \/ /\ Changed(Entries(ino), Entries(ino'))
       /\ Entries(image'.ino) \in {Entries(image.ino), Entries(ino), Entries(ino')}
    \/ /\ Entries(ino') = Entries(image.ino)
       /\ Entries(image'.ino) = Entries(image.ino)

\* A snapshot that the operation may leave.
Imaged(im) ==
    \/ im = image
    \/ Snap(im) /\ Entries(im.ino) = Entries(ino)

LEMMA Advance ==
  ASSUME Good(ino', next', free', opens', cache', handles'), Snap(image'),
         held' \in (Ids \X Nat) \cup {None}
  PROVE  IInv'
BY DEF IInv

LEMMA GoodIs ==
  ASSUME NEW t, NEW nx \in 1 .. InodeCap, NEW q, NEW o \in [Ids -> Nat], NEW c,
         NEW hs \in HandlesType, Mirrors(c, t, {}), Table(t, nx, {}), Rest(q, t, nx, o, hs)
  PROVE  Good(t, nx, q, o, c, hs)
BY DEF Good, Rest

LEMMA GoodHas ==
  ASSUME NEW t, NEW nx, NEW q, NEW o, NEW c, NEW hs, Good(t, nx, q, o, c, hs)
  PROVE  /\ nx \in 1 .. InodeCap /\ o \in [Ids -> Nat] /\ hs \in HandlesType
         /\ Mirrors(c, t, {}) /\ Table(t, nx, {}) /\ Rest(q, t, nx, o, hs)
         /\ Paged(t) /\ t \in [Ids -> Inode] /\ nx \in Nat
         /\ Sound(Entries(t), Dirs(t), Links(t), nx, {})
<1>1. InodeCap \in Nat
  BY NamespaceAssumption
<1>2. QED
  BY <1>1 DEF Good, Rest, Table, Paged

LEMMA SoundHas ==
  ASSUME NEW T, NEW D, NEW L, NEW nx, NEW E, Sound(T, D, L, nx, E)
  PROVE  /\ T \in SUBSET Bindings /\ D \in SUBSET Ids /\ Root \in D /\ L \in [Ids -> Nat]
         /\ \A e \in T : /\ e \in Bindings /\ e[1] \in D /\ e[1] \in Ids /\ e[3] \in Ids
                         /\ e[3] < nx /\ e[3] # Root /\ e[1] \notin Below(T, e[3])
         /\ \A i \in D : i < nx
BY DEF Sound, Forest, Counted, Bindings

----------------------------------------------------------------------------
(* Working copies that are ready to be stored. *)

Editing(g) ==
    /\ Working(g) /\ g.in.kind = "dir" /\ g.dirty # {}
    /\ NoSpace => \E p : g.dirty = {p}

LEMMA Storing ==
  ASSUME NEW t, NEW img, NEW nx, NEW d \in Ids, NEW g, NEW c, NEW X, d \in X,
         Mirrors(c, t, X), Paged(t), Editing(g), NEW f \in Flushes(t, img, nx, d, g)
  PROVE  /\ f.ok \in BOOLEAN
         /\ f.ok => /\ f.ino = Stored(t, d, g)
                    /\ Mirrors(Returned(c, d, g, f.ok), f.ino, X \ {d})
         /\ ~f.ok => /\ f.ino = t /\ NoSpace
                     /\ Mirrors(Returned(c, d, g, f.ok), f.ino, X)
         /\ f.image \in {img, [ino |-> t, next |-> nx]}
         /\ ~NoSpace => f.image = img /\ f.ok
<1>1. /\ Working(g) /\ g.in.kind = "dir" /\ g.dirty # {}
      /\ NoSpace => \E p : g.dirty = {p}
  BY DEF Editing
<1>2. /\ f.ok \in BOOLEAN
      /\ f.ok => f.ino = Stored(t, d, g)
      /\ ~f.ok => f.ino = t /\ NoSpace
      /\ f.image \in {img, [ino |-> t, next |-> nx]}
      /\ ~NoSpace => f.image = img
  BY <1>1, FlushFacts
<1>3. /\ Mirrors(Returned(c, d, g, TRUE), Stored(t, d, g), X \ {d})
      /\ Mirrors(Returned(c, d, g, FALSE), t, X)
  BY <1>1, ReturnedFacts
<1>4. CASE f.ok
  <2>1. f.ok = TRUE
    BY <1>2, <1>4
  <2>2. QED
    BY <1>2, <1>3, <1>4, <2>1
<1>5. CASE ~f.ok
  <2>1. f.ok = FALSE
    BY <1>2, <1>5
  <2>2. QED
    BY <1>2, <1>3, <1>5, <2>1
<1>6. QED
  BY <1>4, <1>5

\* A commit in the middle of the operation that stores d.
LEMMA MidImaged ==
  ASSUME NEW t, NEW nx \in 1 .. InodeCap, NEW im \in {image, [ino |-> t, next |-> nx]},
         im = image \/ (Table(t, nx, {}) /\ Entries(t) = Entries(ino))
  PROVE  Imaged(im)
<1>1. CASE im = image
  BY <1>1 DEF Imaged
<1>2. CASE im # image
  <2>1. im = [ino |-> t, next |-> nx] /\ Table(t, nx, {}) /\ Entries(t) = Entries(ino)
    BY <1>2
  <2>2. Snap(im)
    BY <2>1, SnapMid
  <2>3. im.ino = t
    BY <2>1
  <2>4. QED
    BY <2>1, <2>2, <2>3 DEF Imaged
<1>3. QED
  BY <1>1, <1>2

----------------------------------------------------------------------------
(* Steps that change the cache only. *)

LEMMA CacheOnly ==
  ASSUME IInv, Mirrors(cache', ino, {}), held' \in (Ids \X Nat) \cup {None},
         UNCHANGED <<ino, next, free, opens, image, handles>>
  PROVE  IInv' /\ TreeStep
<1>1. /\ ino' = ino /\ next' = next /\ free' = free /\ opens' = opens /\ image' = image
      /\ handles' = handles
  OBVIOUS
<1>2. Good(ino, next, free, opens, cache', handles)
  BY DEF IInv, Good
<1>3. Snap(image)
  BY DEF IInv
<1>4. IInv'
  BY <1>1, <1>2, <1>3, Advance
<1>5. TreeStep
  BY <1>1 DEF TreeStep, Changed
<1>6. QED
  BY <1>4, <1>5

LEMMA FailsKeeps ==
  ASSUME IInv, NEW d \in Ids, Fails(d)
  PROVE  IInv' /\ TreeStep
<1>1. Mirrors(cache, ino, {}) /\ held \in (Ids \X Nat) \cup {None}
  BY DEF IInv, Good
<1>2. Mirrors(Drop(cache, d), ino, {} \cup {d})
  BY <1>1, DropFacts
<1>3. Mirrors(Drop(cache, d), ino, {})
  BY <1>2, MirrorsLess
<1>4. /\ cache' = Drop(cache, d) /\ held' = held
      /\ UNCHANGED <<ino, next, free, opens, image, handles>>
  BY DEF Fails, NoChange
<1>5. Mirrors(cache', ino, {}) /\ held' \in (Ids \X Nat) \cup {None}
  BY <1>1, <1>3, <1>4
<1>6. QED
  BY <1>4, <1>5, CacheOnly

LEMMA LookupKeeps ==
  ASSUME IInv, NEW d \in Ids, NEW n \in Names, Lookup(d, n)
  PROVE  IInv' /\ TreeStep
<1>1. Good(ino, next, free, opens, cache, handles)
  BY DEF IInv
<1>2. Mirrors(cache, ino, {}) /\ Paged(ino) /\ ino \in [Ids -> Inode]
  BY <1>1, GoodHas
<1>3. CanCheckout(d) /\ cache' = Peek(cache, d)
      /\ UNCHANGED <<ino, next, free, opens, image, handles>>
  BY DEF Lookup
<1>4. /\ ino[d].kind = "dir" /\ ino[d] \in Inode /\ Checkout(d).pages = ino[d].pages
      /\ Cached(cache, d) => PagesIn(cache, d) = ino[d].pages
  BY <1>2, <1>3, CheckoutFacts
<1>5. PICK ps : ps = ino[d].pages
  OBVIOUS
<1>6. ps \in Seq(Page) /\ Single(ps)
  BY <1>2, <1>4, <1>5, InodeFacts DEF Paged
<1>7. Mirrors(Insert(cache, d, ps), ino, {} \ {d})
  BY <1>2, <1>4, <1>5, <1>6, InsertFacts
<1>8. cache' = Insert(cache, d, ps)
  BY <1>3, <1>4, <1>5 DEF Peek
<1>9. Mirrors(cache', ino, {})
  BY <1>7, <1>8, MirrorsLess
<1>10. held' \in (Ids \X Nat) \cup {None}
  <2>1. held' = IF Races /\ Has(ps, n) THEN <<Find(ps, n), ino[Find(ps, n)].gen>> ELSE None
    BY <1>4, <1>5 DEF Lookup
  <2>2. Has(ps, n) => Find(ps, n) \in Ids
    BY <1>6, FindFacts
  <2>3. Has(ps, n) => ino[Find(ps, n)].gen \in Nat
    BY <1>2, <2>2, InodeFacts
  <2>4. QED
    BY <2>1, <2>2, <2>3
<1>11. QED
  BY <1>3, <1>9, <1>10, CacheOnly

LEMMA ResetKeeps ==
  ASSUME IInv, ResetCache
  PROVE  IInv' /\ TreeStep
<1>1. cache' = <<>> /\ held' = held /\ UNCHANGED <<ino, next, free, opens, image, handles>>
  BY DEF ResetCache, NoChange
<1>2. Mirrors(<<>>, ino, {})
  BY NamespaceAssumption DEF Mirrors
<1>3. Mirrors(cache', ino, {}) /\ held' \in (Ids \X Nat) \cup {None}
  BY <1>1, <1>2 DEF IInv
<1>4. QED
  BY <1>1, <1>3, CacheOnly

----------------------------------------------------------------------------
(* create_node. *)

Child(kind) ==
    [Blank(ino[NewId].gen) EXCEPT !.kind = kind, !.nlink = IF kind = "dir" THEN 2 ELSE 1]

\* The table with the new inode, which no directory names yet.
Fresh(kind) == [ino EXCEPT ![NewId] = Child(kind)]

\* The working copy with the new name.
Bearer(d, n, kind) ==
    LET h == Add(Checkout(d), n, NewId)
    IN IF kind = "dir" THEN [h EXCEPT !.in.nlink = @ + 1] ELSE h

LEMMA NodesIs ==
  ASSUME NEW d, NEW n, NEW kind, NEW o \in Nodes(d, n, kind)
  PROVE  o.h = Bearer(d, n, kind) /\ o.f \in Flushes(Fresh(kind), image, NextAfter, d, Bearer(d, n, kind))
<1>1. PICK x \in Flushes(Fresh(kind), image, NextAfter, d, Bearer(d, n, kind)) :
               o = [f |-> x, h |-> Bearer(d, n, kind)]
  BY DEF Nodes, Bearer, Fresh, Child
<1>2. QED
  BY <1>1

LEMMA FreshFacts ==
  ASSUME Good(ino, next, free, opens, cache, handles), CanAlloc,
         NEW kind \in {"file", "dir", "link"}, NEW id, id = NewId, NEW t, t = Fresh(kind)
  PROVE  /\ Paged(t) /\ Entries(t) = Entries(ino) /\ Dirs(ino) \subseteq Dirs(t)
         /\ t[id].kind = kind /\ t[id].pages = <<>> /\ t[id].nlink = (IF kind = "dir" THEN 2 ELSE 1)
         /\ \A i \in Ids : i # id => t[i] = ino[i]
         /\ Sound(Entries(ino), Dirs(t), Links(t), NextAfter, {id})
<1>1. PICK ny : ny = NextAfter
  OBVIOUS
<1>2. /\ id \in Ids /\ id \notin Dirs(ino) /\ NamesIn(Entries(ino), id) = {}
      /\ ny \in 1 .. InodeCap /\ next <= ny /\ id < ny
      /\ \A i \in Ids : i < ny => i < next \/ i = id
  BY <1>1, AllocFacts
<1>3. Paged(ino) /\ Sound(Entries(ino), Dirs(ino), Links(ino), next, {}) /\ ino[id] \in Inode
  BY <1>2, GoodHas
<1>4. PICK in : in = Child(kind)
  OBVIOUS
<1>5. /\ in \in Inode /\ in.kind = kind /\ in.pages = <<>>
      /\ in.nlink = IF kind = "dir" THEN 2 ELSE 1
  <2>1. ino[id].gen \in Nat
    BY <1>3, InodeFacts
  <2>2. in = [kind |-> kind, nlink |-> IF kind = "dir" THEN 2 ELSE 1, gen |-> ino[id].gen,
              data |-> FALSE, pages |-> <<>>]
    BY <1>4 DEF Child, Blank
  <2>3. <<>> \in Seq(Page)
    OBVIOUS
  <2>4. QED
    BY <2>1, <2>2, <2>3 DEF Inode
<1>6. Single(<<>>)
  BY DEF Single
<1>7. Puts(ino, t, id, in)
  BY <1>2, <1>3, <1>4, <1>5, <1>6 DEF Puts, Fresh
<1>8. /\ Paged(t) /\ t[id] = in /\ \A i \in Ids : i # id => t[i] = ino[i]
      /\ Dirs(t) = IF in.kind = "dir" THEN Dirs(ino) \cup {id} ELSE Dirs(ino) \ {id}
      /\ Links(t) = [Links(ino) EXCEPT ![id] = in.nlink]
  BY <1>7, PutFacts
<1>9. Entries(t) = Entries(ino)
  <2>1. ino[id].pages = <<>>
    BY <1>2, <1>3 DEF Paged, Dirs
  <2>2. SameView(ino, id, in)
    BY <1>5, <2>1 DEF SameView
  <2>3. QED
    BY <1>7, <2>2, PutSame
<1>10. Sound(Entries(ino), Dirs(t), Links(t), ny, {id})
  <2>1. PICK C \in SUBSET {id} : C = IF kind = "dir" THEN {id} ELSE {}
    OBVIOUS
  <2>2. ny \in Nat /\ id \in Ids \ Dirs(ino)
    BY <1>2, NamespaceAssumption
  <2>3. Sound(Entries(ino), Dirs(ino) \cup C, [Links(ino) EXCEPT ![id] = IF C = {} THEN 1 ELSE 2], ny, {id})
    BY <1>2, <1>3, <2>1, <2>2, SoundFresh
  <2>4. Dirs(t) = Dirs(ino) \cup C /\ Links(t) = [Links(ino) EXCEPT ![id] = IF C = {} THEN 1 ELSE 2]
    BY <1>2, <1>5, <1>8, <2>1
  <2>5. QED
    BY <2>3, <2>4
<1>11. Dirs(ino) \subseteq Dirs(t)
  BY <1>2, <1>8
<1>12. QED
  BY <1>1, <1>5, <1>8, <1>9, <1>10, <1>11

LEMMA BearerFacts ==
  ASSUME Good(ino, next, free, opens, cache, handles), NEW d \in Ids, NEW n \in Names,
         NEW kind \in {"file", "dir", "link"}, CanCheckout(d), CanCreate(d, n),
         NEW g, g = Bearer(d, n, kind), NEW id, id = NewId
  PROVE  /\ Editing(g) /\ ino[d].kind = "dir"
         /\ \A m, j : At(g.pages, m, j) <=> At(ino[d].pages, m, j) \/ (m = n /\ j = id)
         /\ \A j : ~At(ino[d].pages, n, j)
         /\ g.in.nlink = IF kind = "dir" THEN ino[d].nlink + 1 ELSE ino[d].nlink
         /\ g.in.gen = ino[d].gen
<1>1. CanAlloc /\ ~Has(Checkout(d).pages, n)
  BY DEF CanCreate
<1>2. id \in Ids
  BY <1>1, AllocFacts
<1>3. Mirrors(cache, ino, {}) /\ Paged(ino) /\ ino \in [Ids -> Inode]
  BY GoodHas
<1>4. PICK h : h = Checkout(d)
  OBVIOUS
<1>5. /\ ino[d].kind = "dir" /\ ino[d] \in Inode /\ Working(h)
      /\ h.in = ino[d] /\ h.pages = ino[d].pages /\ h.dirty = {}
  BY <1>3, <1>4, CheckoutFacts
<1>6. PICK a : a = Add(h, n, id)
  OBVIOUS
<1>7. /\ Working(a) /\ a.in = h.in /\ a.dirty = h.dirty \cup {Slot(h.pages)}
      /\ \A m, j : At(a.pages, m, j) <=> At(h.pages, m, j) \/ (m = n /\ j = id)
  BY <1>1, <1>2, <1>4, <1>5, <1>6, AddFacts
<1>8. \A j : ~At(ino[d].pages, n, j)
  BY <1>1, <1>4, <1>5 DEF At, Has
<1>9. PICK k : k = a.in.nlink + 1
  OBVIOUS
<1>10. k \in Nat /\ ino[d].nlink \in Nat
  BY <1>5, <1>7, <1>9, InodeFacts
<1>11. /\ Working(Relinked(a, k)) /\ Relinked(a, k).pages = a.pages
       /\ Relinked(a, k).dirty = a.dirty
       /\ Relinked(a, k).in.kind = a.in.kind /\ Relinked(a, k).in.nlink = k
       /\ Relinked(a, k).in.gen = a.in.gen
  BY <1>7, <1>10, WorkLinked
<1>12. g = IF kind = "dir" THEN Relinked(a, k) ELSE a
  <2>1. [a EXCEPT !.in.nlink = @ + 1] = Relinked(a, k)
    BY <1>7, <1>9, RelinkedIs
  <2>2. QED
    BY <1>4, <1>6, <2>1 DEF Bearer
<1>13. /\ Working(g) /\ g.pages = a.pages /\ g.dirty = {Slot(h.pages)} /\ g.in.kind = "dir"
       /\ g.in.nlink = IF kind = "dir" THEN ino[d].nlink + 1 ELSE ino[d].nlink
       /\ g.in.gen = ino[d].gen
  BY <1>5, <1>7, <1>9, <1>11, <1>12
<1>14. QED
  BY <1>5, <1>7, <1>8, <1>13 DEF Editing

\* What create_node leaves, when its flush succeeds and when it fails.
LEMMA NodeFacts ==
  ASSUME Good(ino, next, free, opens, cache, handles), NEW d \in Ids, NEW n \in Names,
         NEW kind \in {"file", "dir", "link"}, CanCheckout(d), CanCreate(d, n),
         NEW o \in Nodes(d, n, kind)
  PROVE  /\ o.f.ok \in BOOLEAN
         /\ Mirrors(Returned(Drop(cache, d), d, o.h, o.f.ok), o.f.ino, {})
         /\ Table(o.f.ino, NextAfter, {}) /\ Outside(ino, o.f.ino, {NewId})
         /\ o.f.ino[NewId].kind = kind /\ o.f.ino[NewId].nlink > 0
         /\ Changed(Entries(ino), Entries(o.f.ino)) /\ Imaged(o.f.image)
         /\ ~NoSpace => o.f.image = image
<1>1. CanAlloc
  BY DEF CanCreate
<1>2. PICK id : id = NewId
  OBVIOUS
<1>3. PICK ny : ny = NextAfter
  OBVIOUS
<1>4. PICK t : t = Fresh(kind)
  OBVIOUS
<1>5. PICK g : g = Bearer(d, n, kind)
  OBVIOUS
<1>6. PICK f : f = o.f
  OBVIOUS
<1>7. o.h = g /\ f \in Flushes(t, image, ny, d, g)
  BY <1>3, <1>4, <1>5, <1>6, NodesIs
<1>8. /\ id \in Ids /\ id \notin Dirs(ino) /\ NamesIn(Entries(ino), id) = {}
      /\ ny \in 1 .. InodeCap /\ id < ny
  BY <1>1, <1>2, <1>3, AllocFacts
<1>9. /\ Paged(t) /\ Entries(t) = Entries(ino) /\ Dirs(ino) \subseteq Dirs(t)
      /\ t[id].kind = kind /\ t[id].pages = <<>> /\ t[id].nlink = (IF kind = "dir" THEN 2 ELSE 1)
      /\ \A i \in Ids : i # id => t[i] = ino[i]
      /\ Sound(Entries(ino), Dirs(t), Links(t), ny, {id})
  BY <1>1, <1>2, <1>3, <1>4, FreshFacts
<1>10. /\ Editing(g) /\ ino[d].kind = "dir"
       /\ \A m, j : At(g.pages, m, j) <=> At(ino[d].pages, m, j) \/ (m = n /\ j = id)
       /\ \A j : ~At(ino[d].pages, n, j)
       /\ g.in.nlink = IF kind = "dir" THEN ino[d].nlink + 1 ELSE ino[d].nlink
       /\ g.in.gen = ino[d].gen
  BY <1>2, <1>5, BearerFacts
<1>11. Mirrors(cache, ino, {}) /\ Paged(ino) /\ ino \in [Ids -> Inode]
       /\ Sound(Entries(ino), Dirs(ino), Links(ino), next, {})
  BY GoodHas
<1>12. d # id /\ t[d] = ino[d] /\ d \in Dirs(ino)
  BY <1>8, <1>9, <1>10 DEF Dirs
<1>13. PICK c : c = Drop(cache, d)
  OBVIOUS
<1>14. Mirrors(c, t, {d})
  <2>1. Mirrors(c, ino, {} \cup {d})
    BY <1>11, <1>13, DropFacts
  <2>2. SameDirs(ino, t, {d})
    BY <1>8, <1>9 DEF SameDirs, Dirs
  <2>3. {} \cup {d} = {d}
    OBVIOUS
  <2>4. Mirrors(c, ino, {d})
    BY <2>1, <2>3
  <2>5. QED
    BY <2>2, <2>4, MirrorsKept
<1>15. /\ f.ok \in BOOLEAN
       /\ f.ok => f.ino = Stored(t, d, g) /\ Mirrors(Returned(c, d, g, f.ok), f.ino, {d} \ {d})
       /\ ~f.ok => f.ino = t /\ NoSpace /\ Mirrors(Returned(c, d, g, f.ok), f.ino, {d})
       /\ f.image \in {image, [ino |-> t, next |-> ny]}
       /\ ~NoSpace => f.image = image
  <2>1. PICK X : X = {d}
    OBVIOUS
  <2>2. d \in X /\ Mirrors(c, t, X) /\ Paged(t) /\ Editing(g) /\ f \in Flushes(t, image, ny, d, g)
    BY <1>7, <1>9, <1>10, <1>14, <2>1
  <2>3. /\ f.ok \in BOOLEAN
        /\ f.ok => /\ f.ino = Stored(t, d, g)
                   /\ Mirrors(Returned(c, d, g, f.ok), f.ino, X \ {d})
        /\ ~f.ok => /\ f.ino = t /\ NoSpace
                    /\ Mirrors(Returned(c, d, g, f.ok), f.ino, X)
        /\ f.image \in {image, [ino |-> t, next |-> ny]}
        /\ ~NoSpace => f.image = image /\ f.ok
    BY <2>2, Storing
  <2>4. QED
    BY <2>1, <2>3
<1>16. Mirrors(Returned(c, d, g, f.ok), f.ino, {})
  BY <1>15, MirrorsLess
<1>17. NoSpace => Table(t, ny, {})
  <2>1. Table(t, ny, {id})
    BY <1>9 DEF Table
  <2>2. QED
    BY <2>1, Full
<1>18. Imaged(f.image)
  BY <1>8, <1>9, <1>15, <1>17, MidImaged
<1>19. t[id].nlink > 0
  BY <1>9
<1>20. t \in [Ids -> Inode]
  BY <1>9 DEF Paged
<1>21. CASE ~f.ok
  <2>1. Outside(ino, t, {id})
    BY <1>9, <1>11, <1>20 DEF Outside
  <2>2. Changed(Entries(ino), Entries(t))
    BY <1>9 DEF Changed
  <2>3. QED
    BY <1>2, <1>3, <1>6, <1>7, <1>9, <1>13, <1>15, <1>16, <1>17, <1>18, <1>19, <1>21, <2>1, <2>2
<1>22. CASE f.ok
  <2>1. PICK u : u = f.ino
    OBVIOUS
  <2>2. PICK in : in = Filled(g)
    OBVIOUS
  <2>3. /\ Puts(t, u, d, in) /\ in.kind = "dir" /\ in.pages = g.pages
        /\ in.nlink = g.in.nlink /\ in.gen = g.in.gen
    BY <1>9, <1>10, <1>15, <1>22, <2>1, <2>2, StoredFacts DEF Editing
  <2>4. BoundView(t, d, in, n, id)
    BY <1>10, <1>12, <2>3 DEF BoundView
  <2>5. Entries(u) = Entries(t) \cup {<<d, n, id>>}
    BY <1>8, <2>3, <2>4, PutBound
  <2>6. PICK b : b = <<d, n, id>>
    OBVIOUS
  <2>7. /\ Paged(u) /\ u[d] = in /\ \A i \in Ids : i # d => u[i] = t[i]
        /\ Dirs(u) = IF in.kind = "dir" THEN Dirs(t) \cup {d} ELSE Dirs(t) \ {d}
        /\ Links(u) = [Links(t) EXCEPT ![d] = in.nlink]
    BY <2>3, PutFacts
  <2>8. b \in Bindings /\ b[1] = d /\ b[2] = n /\ b[3] = id
    BY <1>8, <2>6 DEF Bindings
  <2>9. Entries(u) = Entries(ino) \cup {b} /\ Dirs(u) = Dirs(t)
    BY <1>9, <1>12, <2>3, <2>5, <2>6, <2>7
  <2>10. Links(t)[id] = (IF kind = "dir" THEN 2 ELSE 1) /\ (id \in Dirs(t) <=> kind = "dir")
         /\ Links(t)[d] = ino[d].nlink /\ Links(t) \in [Ids -> Nat]
    <3>1. Links(t) \in [Ids -> Nat]
      BY <1>9, SoundHas
    <3>2. QED
      BY <1>8, <1>9, <1>12, <3>1 DEF Links, Dirs
  <2>11. Links(u) = IF b[3] \in Dirs(t) THEN [Links(t) EXCEPT ![b[1]] = @ + 1] ELSE Links(t)
    <3>1. kind = "dir" => Links(u) = [Links(t) EXCEPT ![d] = @ + 1]
      BY <1>10, <2>3, <2>7, <2>10
    <3>2. kind # "dir" => Links(u) = Links(t)
      BY <1>10, <2>3, <2>7, <2>10
    <3>3. QED
      BY <2>8, <2>10, <3>1, <3>2
  <2>12. \A x \in Entries(ino) : <<x[1], x[2]>> # <<b[1], b[2]>>
    <3> SUFFICES ASSUME NEW x \in Entries(ino), x[1] = d, x[2] = n PROVE FALSE
      BY <2>8
    <3>1. x \in Bindings
      BY <1>11, EntryIff
    <3>2. x = <<d, n, x[3]>>
      BY <3>1 DEF Bindings
    <3>3. At(ino[d].pages, n, x[3])
      BY <1>11, <3>2, EntryIff
    <3>4. QED
      BY <1>10, <3>3
  <2>13. b \notin Entries(ino)
    BY <2>12
  <2>14. b[1] \notin Below(Entries(ino), b[3])
    <3>1. \A e \in Entries(ino) : e[1] # id
      <4>1. \A e \in Entries(ino) : e[1] \in Dirs(ino)
        BY <1>11, SoundHas
      <4>2. QED
        BY <1>8, <4>1
    <3>2. Entries(ino) \in SUBSET Bindings
      BY <1>11, EntryIff
    <3>3. Below(Entries(ino), id) = {id}
      BY <1>8, <3>1, <3>2, BelowLeaf
    <3>4. QED
      BY <1>12, <2>8, <3>3
  <2>15. MayBind(Entries(ino), Dirs(t), Links(t), ny, b)
    <3>1. Cardinality({}) = 0
      BY FS_EmptySet
    <3>2. id # Root /\ d \in Dirs(t)
      BY <1>8, <1>9, <1>11, <1>12, SoundHas
    <3>3. id \notin Dirs(t) => Cardinality(NamesIn(Entries(ino), id)) + 1 = Links(t)[id]
      BY <1>8, <2>10, <3>1
    <3>4. id \notin Dirs(t) => Cardinality(NamesIn(Entries(ino), id)) + 1 <= Links(t)[id]
      BY <1>8, <2>10, <3>1
    <3>5. QED
      BY <1>8, <2>8, <2>13, <2>14, <3>2, <3>3, <3>4 DEF MayBind
  <2>16. Sound(Entries(u), Dirs(u), Links(u), ny, {})
    <3>1. {id} \subseteq {b[3]}
      BY <2>8
    <3>2. Sound(Entries(ino) \cup {b}, Dirs(t), IF b[3] \in Dirs(t) THEN [Links(t) EXCEPT ![b[1]] = @ + 1] ELSE Links(t), ny, {})
      BY <1>9, <2>15, <3>1, SoundBind
    <3>3. QED
      BY <2>9, <2>11, <3>2
  <2>17. Table(u, ny, {})
    BY <2>7, <2>16 DEF Table
  <2>18. Outside(ino, u, {id})
    <3>1. u \in [Ids -> Inode]
      BY <2>7 DEF Paged
    <3>2. \A i \in Ids \ {id} : NamesIn(Entries(u), i) = NamesIn(Entries(ino), i)
      BY <2>8, <2>9 DEF NamesIn
    <3>3. \A i \in Ids \ {id} : /\ u[i].kind = ino[i].kind /\ u[i].gen = ino[i].gen
                                /\ ino[i].kind # "dir" => u[i].nlink = ino[i].nlink
      BY <1>9, <1>10, <2>3, <2>7
    <3>4. QED
      BY <1>11, <3>1, <3>2, <3>3 DEF Outside
  <2>19. Changed(Entries(ino), Entries(u))
    <3>1. b \in Entries(u) \ Entries(ino)
      BY <2>9, <2>13
    <3>2. QED
      BY <2>9, <2>12, <3>1 DEF Changed
  <2>20. u[id] = t[id]
    BY <1>8, <1>12, <2>7
  <2>21. QED
    BY <1>2, <1>3, <1>6, <1>7, <1>9, <1>13, <1>15, <1>16, <1>18, <1>19, <1>22, <2>1, <2>17, <2>18, <2>19, <2>20
<1>23. QED
  BY <1>15, <1>21, <1>22

\* The durable names afterwards, when the table becomes t.
Durable(im, t) == Snap(im) /\ Entries(im.ino) \in {Entries(image.ino), Entries(ino), Entries(t)}

LEMMA ImagedDurable ==
  ASSUME IInv, NEW im, Imaged(im), NEW t
  PROVE  Durable(im, t)
BY DEF IInv, Imaged, Durable

\* The end of every operation on a table that became t.
LEMMA Ends ==
  ASSUME IInv, NEW t, ino' = t, Good(t, next', free', opens', cache', handles'),
         Changed(Entries(ino), Entries(t)), Durable(image', t),
         held' \in (Ids \X Nat) \cup {None}
  PROVE  IInv' /\ TreeStep
<1>1. Good(ino', next', free', opens', cache', handles') /\ Snap(image')
  BY DEF Durable
<1>2. IInv'
  BY <1>1, Advance
<1>3. TreeStep
  BY DEF TreeStep, Durable
<1>4. QED
  BY <1>2, <1>3

LEMMA Allocates ==
  ASSUME IInv, CanAlloc, NEW u, ino' = u, Mirrors(cache', u, {}), Table(u, NextAfter, {}),
         Outside(ino, u, {NewId}), u[NewId].nlink > 0, Changed(Entries(ino), Entries(u)),
         Durable(image', u), next' = NextAfter, free' = FreeAfter, UNCHANGED <<opens, held, handles>>
  PROVE  IInv' /\ TreeStep
<1>1. Good(ino, next, free, opens, cache, handles) /\ held' \in (Ids \X Nat) \cup {None}
  BY DEF IInv
<1>2. opens \in [Ids -> Nat] /\ handles \in HandlesType /\ NextAfter \in 1 .. InodeCap
  BY <1>1, GoodHas, AllocFacts
<1>3. Rest(FreeAfter, u, NextAfter, opens, handles)
  BY <1>1, RestFresh
<1>4. Good(u, NextAfter, FreeAfter, opens, cache', handles)
  BY <1>2, <1>3, GoodIs
<1>5. Good(u, next', free', opens', cache', handles')
  BY <1>4
<1>6. QED
  BY <1>1, <1>5, Ends

LEMMA CreateKeeps ==
  ASSUME IInv, NEW d \in Ids, NEW n \in Names, NEW kind \in {"file", "dir"}, Create(d, n, kind)
  PROVE  IInv' /\ TreeStep
<1>1. CASE ~CanCreate(d, n) /\ Fails(d)
  BY <1>1, FailsKeeps
<1>2. CASE CanCreate(d, n) /\ ~(~CanCreate(d, n) /\ Fails(d))
  <2>1. PICK o \in Nodes(d, n, kind) :
               /\ ino' = o.f.ino /\ image' = o.f.image
               /\ cache' = Returned(Drop(cache, d), d, o.h, o.f.ok)
    BY <1>2 DEF Create
  <2>2. CanCheckout(d) /\ next' = NextAfter /\ free' = FreeAfter /\ UNCHANGED <<opens, held, handles>>
    BY <1>2 DEF Create
  <2>3. Good(ino, next, free, opens, cache, handles) /\ CanAlloc /\ kind \in {"file", "dir", "link"}
    BY <1>2 DEF IInv, CanCreate
  <2>4. /\ Mirrors(Returned(Drop(cache, d), d, o.h, o.f.ok), o.f.ino, {})
        /\ Table(o.f.ino, NextAfter, {}) /\ Outside(ino, o.f.ino, {NewId})
        /\ o.f.ino[NewId].nlink > 0
        /\ Changed(Entries(ino), Entries(o.f.ino)) /\ Imaged(o.f.image)
    BY <1>2, <2>2, <2>3, NodeFacts
  <2>5. PICK u : u = o.f.ino
    OBVIOUS
  <2>6. /\ ino' = u /\ Mirrors(cache', u, {}) /\ Table(u, NextAfter, {})
        /\ Outside(ino, u, {NewId}) /\ u[NewId].nlink > 0
        /\ Changed(Entries(ino), Entries(u)) /\ Imaged(image')
    BY <2>1, <2>4, <2>5
  <2>7. Durable(image', u)
    BY <2>6, ImagedDurable
  <2>8. QED
    BY <2>2, <2>3, <2>6, <2>7, Allocates
<1>3. QED
  BY <1>1, <1>2 DEF Create

----------------------------------------------------------------------------
(* A file or symbolic link gets its data. *)

Filling(t, id, b) == [t EXCEPT ![id].data = b]

LEMMA DataFacts ==
  ASSUME NEW t, NEW nx, NEW E, Table(t, nx, E), NEW id \in Ids, t[id].kind # "dir",
         NEW b \in BOOLEAN, NEW v, v = Filling(t, id, b)
  PROVE  /\ Table(v, nx, E) /\ Entries(v) = Entries(t) /\ Outside(t, v, {}) /\ SameDirs(t, v, {})
         /\ v[id].nlink = t[id].nlink /\ v[id].kind = t[id].kind /\ v[id].gen = t[id].gen
         /\ \A i \in Ids : i # id => v[i] = t[i]
<1>1. Paged(t) /\ t \in [Ids -> Inode] /\ t[id] \in Inode
  BY DEF Table, Paged
<1>2. PICK in : in = [t[id] EXCEPT !.data = b]
  OBVIOUS
<1>3. /\ in \in Inode /\ in.pages = t[id].pages /\ in.kind = t[id].kind /\ in.nlink = t[id].nlink
      /\ in.gen = t[id].gen
  BY <1>1, <1>2 DEF Inode
<1>4. v = [t EXCEPT ![id] = in]
  BY <1>1, <1>2 DEF Filling
<1>5. Kept(t, v, id, in)
  BY <1>1, <1>3, <1>4 DEF Kept
<1>6. /\ Paged(v) /\ Entries(v) = Entries(t) /\ Dirs(v) = Dirs(t)
      /\ Links(v) = [Links(t) EXCEPT ![id] = in.nlink]
      /\ v[id] = in /\ \A i \in Ids : i # id => v[i] = t[i]
  BY <1>5, PutKept
<1>7. Links(v) = Links(t)
  BY <1>3, <1>6 DEF Links
<1>8. Table(v, nx, E)
  BY <1>6, <1>7 DEF Table
<1>9. v \in [Ids -> Inode]
  BY <1>6 DEF Paged
<1>10. \A i \in Ids : v[i].kind = t[i].kind /\ v[i].gen = t[i].gen /\ v[i].nlink = t[i].nlink
                      /\ v[i].pages = t[i].pages
  BY <1>3, <1>6
<1>11. Outside(t, v, {}) /\ SameDirs(t, v, {})
  BY <1>1, <1>6, <1>9, <1>10 DEF Outside, SameDirs
<1>12. QED
  BY <1>3, <1>6, <1>8, <1>11

LEMMA OutsideMore ==
  ASSUME NEW t, NEW u, NEW v, NEW X, Outside(t, u, X), Outside(u, v, {})
  PROVE  Outside(t, v, X)
BY DEF Outside

LEMMA SymlinkKeeps ==
  ASSUME IInv, NEW d \in Ids, NEW n \in Names, Symlink(d, n)
  PROVE  IInv' /\ TreeStep
<1>1. CASE ~CanCreate(d, n) /\ Fails(d)
  BY <1>1, FailsKeeps
<1>2. CASE CanCreate(d, n) /\ ~(~CanCreate(d, n) /\ Fails(d))
  <2>1. PICK o \in Nodes(d, n, "link") :
                /\ \/ ~o.f.ok /\ ino' = o.f.ino /\ image' = o.f.image
                   \/ /\ o.f.ok
                      /\ image' \in MidImages(o.f.ino, o.f.image, NextAfter)
                      /\ \/ ino' = [o.f.ino EXCEPT ![NewId].data = TRUE]
                         \/ NoSpace /\ ino' = o.f.ino
                /\ cache' = Returned(Drop(cache, d), d, o.h, o.f.ok)
    BY <1>2 DEF Symlink
  <2>2. CanCheckout(d) /\ next' = NextAfter /\ free' = FreeAfter /\ UNCHANGED <<opens, held, handles>>
    BY <1>2 DEF Symlink
  <2>3. Good(ino, next, free, opens, cache, handles) /\ CanAlloc
    BY <1>2 DEF IInv, CanCreate
  <2>4. PICK kind : kind = "link"
    OBVIOUS
  <2>5. kind \in {"file", "dir", "link"} /\ kind # "dir" /\ o \in Nodes(d, n, kind)
    BY <2>1, <2>4
  <2>6. /\ Mirrors(Returned(Drop(cache, d), d, o.h, o.f.ok), o.f.ino, {})
        /\ Table(o.f.ino, NextAfter, {}) /\ Outside(ino, o.f.ino, {NewId})
        /\ o.f.ino[NewId].kind = kind /\ o.f.ino[NewId].nlink > 0
        /\ Changed(Entries(ino), Entries(o.f.ino)) /\ Imaged(o.f.image)
    BY <1>2, <2>2, <2>3, <2>5, NodeFacts
  <2>7. PICK u : u = o.f.ino
    OBVIOUS
  <2>8. PICK id : id = NewId
    OBVIOUS
  <2>9. PICK ny : ny = NextAfter
    OBVIOUS
  <2>10. id \in Ids /\ ny \in 1 .. InodeCap
    BY <2>3, <2>8, <2>9, AllocFacts
  <2>11. /\ Mirrors(cache', u, {}) /\ Table(u, ny, {})
         /\ Outside(ino, u, {id}) /\ u[id].nlink > 0 /\ u[id].kind # "dir"
         /\ Changed(Entries(ino), Entries(u)) /\ Imaged(o.f.image)
    BY <2>1, <2>5, <2>6, <2>7, <2>8, <2>9
  <2>12. PICK v : v = Filling(u, id, TRUE)
    OBVIOUS
  <2>13. /\ Table(v, ny, {}) /\ Entries(v) = Entries(u) /\ Outside(u, v, {}) /\ SameDirs(u, v, {})
         /\ v[id].nlink = u[id].nlink
    <3>1. PICK b \in BOOLEAN : b = TRUE
      OBVIOUS
    <3>2. v = Filling(u, id, b)
      BY <2>12, <3>1
    <3>3. QED
      BY <2>10, <2>11, <3>2, DataFacts
  <2>14. Mirrors(cache', v, {}) /\ Outside(ino, v, {id})
    BY <2>11, <2>13, MirrorsKept, OutsideMore
  <2>15. ino' \in {u, v}
    BY <2>1, <2>7, <2>8, <2>12 DEF Filling
  <2>16. image' = o.f.image \/ image' = [ino |-> u, next |-> ny]
    BY <2>1, <2>7, <2>9 DEF MidImages
  <2>17. PICK w : w = ino'
    OBVIOUS
  <2>18. /\ Mirrors(cache', w, {}) /\ Table(w, ny, {}) /\ Outside(ino, w, {id}) /\ w[id].nlink > 0
         /\ Changed(Entries(ino), Entries(w)) /\ Entries(w) = Entries(u)
    BY <2>11, <2>13, <2>14, <2>15, <2>17
  <2>19. Durable(image', w)
    <3>1. CASE image' = o.f.image
      BY <2>11, <3>1, ImagedDurable
    <3>2. CASE image' = [ino |-> u, next |-> ny]
      <4>1. Snap(image') /\ image'.ino = u
        BY <2>10, <2>11, <3>2, SnapMid
      <4>2. QED
        BY <2>18, <4>1 DEF Durable
    <3>3. QED
      BY <2>16, <3>1, <3>2
  <2>20. QED
    BY <2>2, <2>3, <2>8, <2>9, <2>17, <2>18, <2>19, Allocates
<1>3. QED
  BY <1>1, <1>2 DEF Symlink

LEMMA SetDataKeeps ==
  ASSUME IInv, NEW id \in Ids, NEW b \in BOOLEAN, SetData(id, b)
  PROVE  IInv' /\ TreeStep
<1>1. Good(ino, next, free, opens, cache, handles) /\ held \in (Ids \X Nat) \cup {None}
  BY DEF IInv
<1>2. /\ next \in 1 .. InodeCap /\ opens \in [Ids -> Nat] /\ handles \in HandlesType
      /\ Mirrors(cache, ino, {}) /\ Table(ino, next, {}) /\ Rest(free, ino, next, opens, handles)
  BY <1>1, GoodHas
<1>3. /\ ino[id].kind # "dir" /\ image' \in MidImages(ino, image, next)
      /\ ino' \in {Filling(ino, id, b), ino}
      /\ UNCHANGED <<next, free, opens, cache, held, handles>>
  BY DEF SetData, MidImages, Filling
<1>4. PICK v : v = Filling(ino, id, b)
  OBVIOUS
<1>5. Table(v, next, {}) /\ Entries(v) = Entries(ino) /\ Outside(ino, v, {}) /\ SameDirs(ino, v, {})
  BY <1>2, <1>3, <1>4, DataFacts
<1>6. Rest(free, v, next, opens, handles) /\ Mirrors(cache, v, {})
  BY <1>2, <1>5, RestSame, MirrorsKept
<1>7. Good(v, next, free, opens, cache, handles)
  BY <1>2, <1>5, <1>6, GoodIs
<1>8. PICK w : w = ino'
  OBVIOUS
<1>9. w \in {v, ino}
  BY <1>3, <1>4, <1>8
<1>10. Good(w, next, free, opens, cache, handles) /\ Entries(w) = Entries(ino)
  BY <1>1, <1>5, <1>7, <1>9
<1>11. Imaged(image')
  <2>1. image' \in {image, [ino |-> ino, next |-> next]}
    BY <1>3 DEF MidImages
  <2>2. QED
    BY <1>2, <2>1, MidImaged
<1>12. Durable(image', w)
  BY <1>11, ImagedDurable
<1>13. Good(w, next', free', opens', cache', handles') /\ held' \in (Ids \X Nat) \cup {None}
  BY <1>1, <1>3, <1>10
<1>14. Changed(Entries(ino), Entries(w))
  BY <1>10 DEF Changed
<1>15. QED
  BY <1>8, <1>12, <1>13, <1>14, Ends

----------------------------------------------------------------------------
(* Taking a name out of a directory. *)

LEMMA OpensIff ==
  ASSUME NEW q, NEW t, NEW nx, NEW o, NEW hs \in HandlesType, Rest(q, t, nx, o, hs), NEW i \in Ids
  PROVE  o[i] = 0 <=> ~Opened(hs, i)
<1>1. PICK S : S = HandlesOn(hs, i)
  OBVIOUS
<1>2. IsFiniteSet(Handles) /\ S \subseteq Handles
  BY <1>1, NamespaceAssumption DEF HandlesOn
<1>3. IsFiniteSet(S)
  BY <1>2, FS_Subset
<1>4. Cardinality(S) = 0 <=> S = {}
  BY <1>3, FS_EmptySet
<1>5. o[i] = Cardinality(S)
  BY <1>1 DEF Rest, Keeps
<1>6. S = {} <=> ~Opened(hs, i)
  BY <1>1 DEF HandlesOn, Opened
<1>7. QED
  BY <1>4, <1>5, <1>6

\* An inode with a name is not on the stack.
LEMMA NamedNotFree ==
  ASSUME NEW q, NEW t, NEW nx, NEW o, NEW hs, Rest(q, t, nx, o, hs), NEW b \in Entries(t)
  PROVE  \A k \in DOMAIN q : q[k] # b[3]
<1>1. b \in NamesIn(Entries(t), b[3])
  BY DEF NamesIn
<1>2. QED
  BY <1>1 DEF Rest, Stack

\* A name is taken out of the working copy of d.
LEMMA TakeEdits ==
  ASSUME Good(ino, next, free, opens, cache, handles), NEW d \in Ids, NEW n,
         CanCheckout(d), NEW h, h = Checkout(d), Has(h.pages, n), NEW id, id = Find(h.pages, n),
         NEW g, g = Del(h, n)
  PROVE  /\ Editing(g) /\ g.in = ino[d] /\ ino[d].kind = "dir"
         /\ n \in Names /\ id \in Ids /\ <<d, n, id>> \in Entries(ino) /\ d # id
         /\ id < next /\ id # Root
<1>1. /\ Mirrors(cache, ino, {}) /\ Paged(ino) /\ ino \in [Ids -> Inode]
      /\ Sound(Entries(ino), Dirs(ino), Links(ino), next, {})
  BY GoodHas
<1>2. /\ ino[d].kind = "dir" /\ ino[d] \in Inode /\ Working(h)
      /\ h.in = ino[d] /\ h.pages = ino[d].pages /\ h.dirty = {}
  BY <1>1, CheckoutFacts
<1>3. h.pages \in Seq(Page) /\ Single(h.pages)
  BY <1>2 DEF Working, Work
<1>4. n \in Names /\ id \in Ids /\ At(h.pages, n, id)
  BY <1>3, FindFacts
<1>5. Working(g) /\ g.in = h.in /\ g.dirty = h.dirty \cup {PageOf(h.pages, n)}
  BY <1>2, DelFacts
<1>6. Editing(g)
  BY <1>2, <1>5 DEF Editing
<1>7. PICK b : b = <<d, n, id>>
  OBVIOUS
<1>8. b \in Entries(ino) /\ b[1] = d /\ b[3] = id
  BY <1>1, <1>2, <1>4, <1>7, EntryIff
<1>9. id < next /\ id # Root /\ d \notin Below(Entries(ino), id) /\ Entries(ino) \in SUBSET Bindings
  BY <1>1, <1>8, SoundHas
<1>10. id \in Below(Entries(ino), id)
  BY <1>4, <1>9, BelowFacts
<1>11. QED
  BY <1>2, <1>4, <1>5, <1>6, <1>7, <1>8, <1>9, <1>10

LEMMA TakeFacts ==
  ASSUME Good(ino, next, free, opens, cache, handles), NEW d \in Ids, NEW n,
         CanCheckout(d), NEW h, h = Checkout(d), Has(h.pages, n), NEW id, id = Find(h.pages, n),
         NEW g, g = Del(h, n)
  PROVE  /\ Editing(g) /\ g.in = ino[d] /\ ino[d].kind = "dir" /\ d \in Dirs(ino)
         /\ n \in Names /\ id \in Ids /\ <<d, n, id>> \in Entries(ino) /\ d # id
         /\ UnboundView(ino, d, Filled(g), n, id)
         /\ id < next /\ id # Root
         /\ \A k \in DOMAIN free : free[k] # id
<1>1. /\ Mirrors(cache, ino, {}) /\ Paged(ino) /\ ino \in [Ids -> Inode]
      /\ Rest(free, ino, next, opens, handles)
  BY GoodHas
<1>2. /\ Editing(g) /\ g.in = ino[d] /\ ino[d].kind = "dir"
      /\ n \in Names /\ id \in Ids /\ <<d, n, id>> \in Entries(ino) /\ d # id
      /\ id < next /\ id # Root
  BY TakeEdits
<1>3. Working(h) /\ h.pages = ino[d].pages
  BY <1>1, CheckoutFacts
<1>4. \A m, j : At(g.pages, m, j) <=> At(h.pages, m, j) /\ m # n
  BY <1>3, DelFacts
<1>5. Filled(g).pages = g.pages
  BY <1>1, <1>2, StoredFacts DEF Editing
<1>6. At(h.pages, n, id)
  BY <1>1, <1>2, <1>3, EntryIff
<1>7. UnboundView(ino, d, Filled(g), n, id)
  BY <1>3, <1>4, <1>5, <1>6 DEF UnboundView
<1>8. PICK b : b = <<d, n, id>>
  OBVIOUS
<1>9. b \in Entries(ino) /\ b[3] = id
  BY <1>2, <1>8
<1>10. \A k \in DOMAIN free : free[k] # id
  BY <1>1, <1>9, NamedNotFree
<1>11. d \in Dirs(ino)
  BY <1>2 DEF Dirs
<1>12. QED
  BY <1>2, <1>7, <1>10, <1>11

\* The slot of an inode that lost a name.
Slotted(id, in) == IF Less(in.nlink) = 0 /\ opens[id] = 0 THEN Blank(in.gen + 1) ELSE LinkLost(in)

LEMMA DropLinkIs ==
  ASSUME NEW r, NEW id, NEW in
  PROVE  IF Less(in.nlink) = 0 /\ opens[id] = 0
         THEN DropLink(r, id, in) = [ino |-> [r.ino EXCEPT ![id] = Slotted(id, in)],
                                     free |-> Append(r.free, id), cache |-> Drop(r.cache, id)]
         ELSE DropLink(r, id, in) = [r EXCEPT !.ino = [@ EXCEPT ![id] = Slotted(id, in)]]
BY DEF DropLink, Reclaimed, Slotted

LEMMA SlottedFacts ==
  ASSUME NEW id \in Ids, NEW in \in Inode, in.kind # "dir", in.pages = <<>>, in.nlink > 0
  PROVE  /\ Slotted(id, in) \in Inode /\ Slotted(id, in).pages = <<>>
         /\ Slotted(id, in).kind # "dir" /\ Slotted(id, in).nlink = in.nlink - 1
         /\ Less(in.nlink) = in.nlink - 1
         /\ IF in.nlink - 1 = 0 /\ opens[id] = 0 THEN Slotted(id, in).kind = "file"
            ELSE Slotted(id, in).kind = in.kind /\ Slotted(id, in).gen = in.gen
<1>1. in.nlink \in Nat /\ in.gen \in Nat
  BY InodeFacts
<1>2. Less(in.nlink) = in.nlink - 1
  BY <1>1 DEF Less
<1>3. PICK k \in Nat : k = in.nlink - 1
  BY <1>1
<1>4. CASE k = 0 /\ opens[id] = 0
  <2>1. Slotted(id, in) = Blank(in.gen + 1)
    BY <1>2, <1>3, <1>4 DEF Slotted
  <2>2. Blank(in.gen + 1) \in Inode /\ Blank(in.gen + 1).nlink = 0 /\ Blank(in.gen + 1).kind = "file"
        /\ Blank(in.gen + 1).pages = <<>>
    BY <1>1 DEF Blank, Inode
  <2>3. QED
    BY <1>2, <1>3, <1>4, <2>1, <2>2
<1>5. CASE ~(k = 0 /\ opens[id] = 0)
  <2>1. Slotted(id, in) = LinkLost(in)
    BY <1>2, <1>3, <1>5 DEF Slotted
  <2>2. LinkLost(in) = [in EXCEPT !.nlink = k]
    BY <1>2, <1>3 DEF LinkLost
  <2>3. [in EXCEPT !.nlink = k] \in Inode /\ [in EXCEPT !.nlink = k].nlink = k
        /\ [in EXCEPT !.nlink = k].kind = in.kind /\ [in EXCEPT !.nlink = k].pages = in.pages
        /\ [in EXCEPT !.nlink = k].gen = in.gen
    BY DEF Inode
  <2>4. QED
    BY <1>2, <1>3, <1>5, <2>1, <2>2, <2>3
<1>6. QED
  BY <1>4, <1>5

FreeLost(id) == IF Less(ino[id].nlink) = 0 /\ opens[id] = 0 THEN Append(free, id) ELSE free

\* The table once inode id lost a name.
Losing(t, id) == [t EXCEPT ![id] = Slotted(id, ino[id])]

LEMMA MirrorsSub ==
  ASSUME NEW c, NEW t, NEW X, NEW Y \in SUBSET X, Mirrors(c, t, X)
  PROVE  Mirrors(c, t, Y)
BY DEF Mirrors

LEMMA LostFacts ==
  ASSUME NEW t, Paged(t), NEW c, NEW X, Mirrors(c, t, X), NEW id \in Ids,
         t[id] = ino[id], ino[id].kind # "dir", ino[id].nlink > 0,
         NEW r, r = [ino |-> t, free |-> free, cache |-> c],
         NEW v, v = Losing(t, id)
  PROVE  /\ DropLink(r, id, ino[id]).ino = v /\ DropLink(r, id, ino[id]).free = FreeLost(id)
         /\ Mirrors(DropLink(r, id, ino[id]).cache, v, X)
         /\ Paged(v) /\ Entries(v) = Entries(t) /\ Dirs(v) = Dirs(t)
         /\ Links(v) = [Links(t) EXCEPT ![id] = @ - 1]
         /\ v[id] = Slotted(id, ino[id]) /\ \A i \in Ids : i # id => v[i] = t[i]
<1>1. PICK in : in = ino[id]
  OBVIOUS
<1>2. in \in Inode /\ in.kind # "dir" /\ in.pages = <<>> /\ in.nlink > 0
  BY <1>1 DEF Paged
<1>3. PICK s : s = Slotted(id, in)
  OBVIOUS
<1>4. s \in Inode /\ s.pages = <<>> /\ s.kind # "dir" /\ s.nlink = in.nlink - 1
  BY <1>2, <1>3, SlottedFacts
<1>5. Kept(t, v, id, s)
  BY <1>1, <1>2, <1>3, <1>4 DEF Kept, Losing
<1>6. /\ Paged(v) /\ Entries(v) = Entries(t) /\ Dirs(v) = Dirs(t)
      /\ Links(v) = [Links(t) EXCEPT ![id] = s.nlink]
      /\ v[id] = s /\ \A i \in Ids : i # id => v[i] = t[i]
  BY <1>5, PutKept
<1>7. Links(v) = [Links(t) EXCEPT ![id] = @ - 1]
  <2>1. Links(t)[id] = in.nlink /\ id \in DOMAIN Links(t)
    BY <1>1 DEF Links
  <2>2. QED
    BY <1>4, <1>6, <2>1
<1>8. SameDirs(t, v, X)
  BY <1>1, <1>2, <1>6 DEF SameDirs
<1>9. Mirrors(c, v, X)
  BY <1>8, MirrorsKept
<1>10. Mirrors(Drop(c, id), v, X)
  <2>1. Mirrors(Drop(c, id), v, X \cup {id})
    BY <1>9, DropFacts
  <2>2. PICK Y : Y = X \cup {id}
    OBVIOUS
  <2>3. X \in SUBSET Y /\ Mirrors(Drop(c, id), v, Y)
    BY <2>1, <2>2
  <2>4. QED
    BY <2>3, MirrorsSub
<1>11. PICK R : R = DropLink(r, id, in)
  OBVIOUS
<1>12. R.ino = v /\ R.free = FreeLost(id) /\ R.cache \in {c, Drop(c, id)}
  <2>1. CASE Less(in.nlink) = 0 /\ opens[id] = 0
    <3>1. R = [ino |-> v, free |-> Append(free, id), cache |-> Drop(c, id)]
      BY <1>1, <1>11, <2>1, DropLinkIs DEF Losing
    <3>2. FreeLost(id) = Append(free, id)
      BY <1>1, <2>1 DEF FreeLost
    <3>3. QED
      BY <3>1, <3>2
  <2>2. CASE ~(Less(in.nlink) = 0 /\ opens[id] = 0)
    <3>1. R = [r EXCEPT !.ino = [@ EXCEPT ![id] = Slotted(id, in)]]
      BY <1>11, <2>2, DropLinkIs
    <3>2. R.ino = v /\ R.free = free /\ R.cache = c
      BY <1>1, <3>1 DEF Losing
    <3>3. FreeLost(id) = free
      BY <1>1, <2>2 DEF FreeLost
    <3>4. QED
      BY <3>2, <3>3
  <2>3. QED
    BY <2>1, <2>2
<1>13. Mirrors(R.cache, v, X)
  BY <1>9, <1>10, <1>12
<1>14. QED
  BY <1>1, <1>3, <1>6, <1>7, <1>11, <1>12, <1>13

LEMMA LostRest ==
  ASSUME Good(ino, next, free, opens, cache, handles), NEW id \in Ids,
         ino[id].kind # "dir", ino[id].nlink > 0, id < next, \A k \in DOMAIN free : free[k] # id,
         NEW w, Outside(ino, w, {id}), w[id] = Slotted(id, ino[id]), Table(w, next, {})
  PROVE  Rest(FreeLost(id), w, next, opens, handles)
<1>1. Rest(free, ino, next, opens, handles) /\ handles \in HandlesType /\ Paged(ino)
  BY GoodHas
<1>2. PICK in : in = ino[id]
  OBVIOUS
<1>3. in \in Inode /\ in.kind # "dir" /\ in.pages = <<>> /\ in.nlink > 0
  BY <1>1, <1>2 DEF Paged
<1>4. /\ w[id].kind # "dir" /\ w[id].nlink = in.nlink - 1 /\ Less(in.nlink) = in.nlink - 1
      /\ IF in.nlink - 1 = 0 /\ opens[id] = 0 THEN w[id].kind = "file"
         ELSE w[id].kind = in.kind /\ w[id].gen = in.gen
  BY <1>2, <1>3, SlottedFacts
<1>5. opens[id] = 0 <=> ~Opened(handles, id)
  BY <1>1, OpensIff
<1>6. CASE in.nlink - 1 = 0 /\ opens[id] = 0
  <2>1. FreeLost(id) = Append(free, id)
    BY <1>2, <1>4, <1>6 DEF FreeLost
  <2>2. NamesIn(Entries(w), id) = {}
    <3>1. PICK S : S = NamesIn(Entries(w), id)
      OBVIOUS
    <3>2. Cardinality(S) <= w[id].nlink /\ Entries(w) \in SUBSET Bindings
      <4>1. id \in Ids \ Dirs(w) /\ Links(w)[id] = w[id].nlink
        BY <1>4 DEF Dirs, Links
      <4>2. QED
        BY <3>1, <4>1 DEF Table, Sound, Counted, Forest
    <3>3. IsFiniteSet(S) /\ Cardinality(S) \in Nat
      BY <3>1, <3>2, NamesFinite
    <3>4. Cardinality(S) = 0
      BY <1>4, <1>6, <3>2, <3>3
    <3>5. S = {}
      BY <3>3, <3>4, FS_EmptySet
    <3>6. QED
      BY <3>1, <3>5
  <2>3. Rest(Append(free, id), w, next, opens, handles)
    BY <1>1, <1>4, <1>5, <1>6, <2>2, RestReclaimed
  <2>4. QED
    BY <2>1, <2>3
<1>7. CASE ~(in.nlink - 1 = 0 /\ opens[id] = 0)
  <2>1. FreeLost(id) = free
    BY <1>2, <1>4, <1>7 DEF FreeLost
  <2>2. w[id].nlink = 0 => Opened(handles, id)
    BY <1>4, <1>5, <1>7
  <2>3. Rest(free, w, next, opens, handles)
    BY <1>1, <1>2, <1>4, <1>7, <2>2, RestUsed
  <2>4. QED
    BY <2>1, <2>3
<1>8. QED
  BY <1>6, <1>7

LEMMA RamIs ==
  ASSUME NEW t, NEW c
  PROVE  [Ram EXCEPT !.ino = t, !.cache = c] = [ino |-> t, free |-> free, cache |-> c]
<1>1. PICK R : R = Ram
  OBVIOUS
<1>2. R = [ino |-> ino, free |-> free, cache |-> cache]
  BY <1>1 DEF Ram
<1>3. R \in [ino : {ino, t}, free : {free}, cache : {cache, c}]
  BY <1>2
<1>4. PICK Q : Q = [R EXCEPT !.ino = t, !.cache = c]
  OBVIOUS
<1>5. /\ Q \in [ino : {ino, t}, free : {free}, cache : {cache, c}]
      /\ Q.ino = t /\ Q.free = R.free /\ Q.cache = c
  BY <1>3, <1>4
<1>6. Q = [ino |-> Q.ino, free |-> Q.free, cache |-> Q.cache]
  BY <1>5
<1>7. QED
  BY <1>1, <1>2, <1>4, <1>5, <1>6

LEMMA StoreOne ==
  ASSUME Good(ino, next, free, opens, cache, handles), NEW d \in Ids, NEW t, Paged(t),
         SameDirs(ino, t, {d}), NEW g, Editing(g), NEW nx, NEW f \in Flushes(t, image, nx, d, g)
  PROVE  /\ f.ok \in BOOLEAN
         /\ f.ok => f.ino = Stored(t, d, g)
         /\ ~f.ok => f.ino = t /\ NoSpace
         /\ Mirrors(Returned(Drop(cache, d), d, g, f.ok), f.ino, {})
         /\ f.image \in {image, [ino |-> t, next |-> nx]}
         /\ ~NoSpace => f.image = image /\ f.ok
<1>1. PICK c : c = Drop(cache, d)
  OBVIOUS
<1>2. PICK X : X = {d}
  OBVIOUS
<1>3. Mirrors(c, t, X)
  <2>1. Mirrors(cache, ino, {})
    BY GoodHas
  <2>2. Mirrors(c, ino, {} \cup {d})
    BY <1>1, <2>1, DropFacts
  <2>3. {} \cup {d} = X
    BY <1>2
  <2>4. Mirrors(c, ino, X) /\ SameDirs(ino, t, X)
    BY <1>2, <2>2, <2>3
  <2>5. QED
    BY <2>4, MirrorsKept
<1>4. d \in X
  BY <1>2
<1>5. /\ f.ok \in BOOLEAN
      /\ f.ok => /\ f.ino = Stored(t, d, g)
                 /\ Mirrors(Returned(c, d, g, f.ok), f.ino, X \ {d})
      /\ ~f.ok => /\ f.ino = t /\ NoSpace
                  /\ Mirrors(Returned(c, d, g, f.ok), f.ino, X)
      /\ f.image \in {image, [ino |-> t, next |-> nx]}
      /\ ~NoSpace => f.image = image /\ f.ok
  BY <1>3, <1>4, Storing
<1>6. Mirrors(Returned(c, d, g, f.ok), f.ino, {})
  BY <1>5, MirrorsLess
<1>7. QED
  BY <1>1, <1>5, <1>6

\* A directory that is stored, its name count untouched.
LEMMA StoredSame ==
  ASSUME NEW t, Paged(t), NEW d \in Ids, NEW g, Editing(g), g.in.nlink = t[d].nlink,
         t[d].kind = "dir", NEW u, u = Stored(t, d, g)
  PROVE  /\ Puts(t, u, d, Filled(g)) /\ Paged(u) /\ Dirs(u) = Dirs(t) /\ Links(u) = Links(t)
         /\ u[d].gen = g.in.gen /\ u[d].kind = "dir" /\ \A i \in Ids : i # d => u[i] = t[i]
<1>1. /\ Puts(t, u, d, Filled(g))
      /\ Filled(g).kind = "dir" /\ Filled(g).nlink = g.in.nlink /\ Filled(g).gen = g.in.gen
  BY StoredFacts DEF Editing
<1>2. PICK in : in = Filled(g)
  OBVIOUS
<1>3. /\ Paged(u) /\ u[d] = in /\ \A i \in Ids : i # d => u[i] = t[i]
      /\ Dirs(u) = IF in.kind = "dir" THEN Dirs(t) \cup {d} ELSE Dirs(t) \ {d}
      /\ Links(u) = [Links(t) EXCEPT ![d] = in.nlink]
  BY <1>1, <1>2, PutFacts
<1>4. Dirs(u) = Dirs(t)
  BY <1>1, <1>2, <1>3 DEF Dirs
<1>5. Links(u) = Links(t)
  BY <1>1, <1>2, <1>3 DEF Links
<1>6. QED
  BY <1>1, <1>2, <1>3, <1>4, <1>5

\* An operation that a full device stopped before it changed anything.
LEMMA Stopped ==
  ASSUME IInv, ino' = ino, free' = free, Mirrors(cache', ino, {}), Imaged(image'),
         UNCHANGED <<next, opens, held, handles>>
  PROVE  IInv' /\ TreeStep
<1>1. Good(ino, next, free, opens, cache, handles) /\ held' \in (Ids \X Nat) \cup {None}
  BY DEF IInv
<1>2. Good(ino, next, free, opens, cache', handles)
  BY <1>1 DEF Good
<1>3. Good(ino, next', free', opens', cache', handles')
  BY <1>2
<1>4. Changed(Entries(ino), Entries(ino))
  BY DEF Changed
<1>5. Durable(image', ino)
  BY ImagedDurable
<1>6. QED
  BY <1>1, <1>3, <1>4, <1>5, Ends

LEMMA UnlinkKeeps ==
  ASSUME IInv, NEW d \in Ids, NEW n \in Names, Unlink(d, n)
  PROVE  IInv' /\ TreeStep
<1>1. PICK h : h = Checkout(d)
  OBVIOUS
<1>2. PICK id : id = Find(h.pages, n)
  OBVIOUS
<1>3. PICK g : g = Del(h, n)
  OBVIOUS
<1>4. CASE ~(Has(h.pages, n) /\ ino[id].kind # "dir")
  <2>1. Fails(d)
    BY <1>1, <1>2, <1>4 DEF Unlink
  <2>2. QED
    BY <2>1, FailsKeeps
<1>5. CASE Has(h.pages, n) /\ ino[id].kind # "dir"
  <2>1. CanCheckout(d)
    BY DEF Unlink
  <2>2. PICK f \in Flushes(ino, image, next, d, g) :
              /\ Becomes(UnlinkRest([Ram EXCEPT !.ino = f.ino,
                                       !.cache = Returned(Drop(cache, d), d, g, f.ok)],
                                    id, ino[id], f.ok))
              /\ image' = f.image
    BY <1>1, <1>2, <1>3, <1>5 DEF Unlink
  <2>3. UNCHANGED <<next, opens, held, handles>>
    BY <1>1, <1>2, <1>5 DEF Unlink
  <2>4. PICK C : C = Returned(Drop(cache, d), d, g, f.ok)
    OBVIOUS
  <2>5. PICK r : r = [ino |-> f.ino, free |-> free, cache |-> C]
    OBVIOUS
  <2>6. [Ram EXCEPT !.ino = f.ino, !.cache = C] = r
    BY <2>5, RamIs
  <2>7. Becomes(UnlinkRest(r, id, ino[id], f.ok)) /\ image' = f.image
    BY <2>2, <2>4, <2>6
  <2>8. Good(ino, next, free, opens, cache, handles) /\ held \in (Ids \X Nat) \cup {None}
    BY DEF IInv
  <2>9. /\ next \in 1 .. InodeCap /\ opens \in [Ids -> Nat] /\ handles \in HandlesType
        /\ Table(ino, next, {}) /\ Paged(ino) /\ ino \in [Ids -> Inode]
        /\ Sound(Entries(ino), Dirs(ino), Links(ino), next, {})
    BY <2>8, GoodHas
  <2>10. /\ Editing(g) /\ g.in = ino[d] /\ ino[d].kind = "dir" /\ d \in Dirs(ino)
         /\ id \in Ids /\ <<d, n, id>> \in Entries(ino) /\ d # id
         /\ UnboundView(ino, d, Filled(g), n, id)
         /\ id < next /\ id # Root
         /\ \A k \in DOMAIN free : free[k] # id
    BY <1>1, <1>2, <1>3, <1>5, <2>1, <2>8, TakeFacts
  <2>11. SameDirs(ino, ino, {d})
    BY DEF SameDirs
  <2>12. /\ f.ok \in BOOLEAN
         /\ f.ok => f.ino = Stored(ino, d, g)
         /\ ~f.ok => f.ino = ino /\ NoSpace
         /\ Mirrors(Returned(Drop(cache, d), d, g, f.ok), f.ino, {})
         /\ f.image \in {image, [ino |-> ino, next |-> next]}
         /\ ~NoSpace => f.image = image /\ f.ok
    BY <2>8, <2>9, <2>10, <2>11, StoreOne
  <2>13. Mirrors(C, f.ino, {})
    BY <2>4, <2>12
  <2>14. Imaged(image')
    BY <2>7, <2>9, <2>12, MidImaged
  <2>15. CASE ~f.ok
    <3>1. UnlinkRest(r, id, ino[id], f.ok) = r
      BY <2>15 DEF UnlinkRest
    <3>2. ino' = ino /\ free' = free /\ cache' = C
      BY <2>5, <2>7, <2>12, <2>15, <3>1 DEF Becomes
    <3>3. Mirrors(cache', ino, {})
      BY <2>12, <2>13, <2>15, <3>2
    <3>4. QED
      BY <2>3, <2>14, <3>2, <3>3, Stopped
  <2>16. CASE f.ok
    <3>1. PICK u : u = Stored(ino, d, g)
      OBVIOUS
    <3>2. f.ino = u
      BY <2>12, <2>16, <3>1
    <3>3. PICK v : v = Losing(u, id)
      OBVIOUS
    <3>4. PICK b : b = <<d, n, id>>
      OBVIOUS
    <3>5. b \in Entries(ino) /\ b[1] = d /\ b[2] = n /\ b[3] = id
      BY <2>10, <3>4
    <3>6. /\ Puts(ino, u, d, Filled(g)) /\ Paged(u) /\ Dirs(u) = Dirs(ino) /\ Links(u) = Links(ino)
          /\ u[d].gen = ino[d].gen /\ u[d].kind = "dir" /\ \A i \in Ids : i # d => u[i] = ino[i]
      BY <2>9, <2>10, <3>1, StoredSame
    <3>7. Entries(u) = Entries(ino) \ {b}
      BY <2>10, <3>4, <3>6, PutUnbound
    <3>8. id \notin Dirs(ino) /\ Links(ino)[id] = ino[id].nlink
      BY <1>5, <2>10 DEF Dirs, Links
    <3>9. /\ Sound(Entries(ino) \ {b}, Dirs(ino), [Links(ino) EXCEPT ![b[3]] = @ - 1], next, {})
          /\ Links(ino)[b[3]] > 0
      BY <2>9, <3>5, <3>8, SoundUnbind
    <3>10. ino[id].nlink > 0 /\ u[id] = ino[id]
      BY <2>10, <3>5, <3>6, <3>8, <3>9
    <3>11. Mirrors(C, u, {}) /\ r = [ino |-> u, free |-> free, cache |-> C]
      BY <2>5, <2>13, <3>2
    <3>12. PICK R : R = DropLink(r, id, ino[id])
      OBVIOUS
    <3>13. /\ R.ino = v /\ R.free = FreeLost(id) /\ Mirrors(R.cache, v, {})
           /\ Paged(v) /\ Entries(v) = Entries(u) /\ Dirs(v) = Dirs(u)
           /\ Links(v) = [Links(u) EXCEPT ![id] = @ - 1]
           /\ v[id] = Slotted(id, ino[id]) /\ \A i \in Ids : i # id => v[i] = u[i]
      BY <1>5, <2>10, <3>3, <3>6, <3>10, <3>11, <3>12, LostFacts
    <3>14. Table(v, next, {})
      <4>1. Links(v) = [Links(ino) EXCEPT ![b[3]] = @ - 1]
        BY <3>5, <3>6, <3>13
      <4>2. QED
        BY <3>6, <3>7, <3>9, <3>13, <4>1 DEF Table
    <3>15. Outside(ino, v, {id})
      <4>1. v \in [Ids -> Inode]
        BY <3>13 DEF Paged
      <4>2. \A i \in Ids \ {id} : NamesIn(Entries(v), i) = NamesIn(Entries(ino), i)
        BY <3>5, <3>7, <3>13 DEF NamesIn
      <4>3. \A i \in Ids \ {id} : /\ v[i].kind = ino[i].kind /\ v[i].gen = ino[i].gen
                                  /\ ino[i].kind # "dir" => v[i].nlink = ino[i].nlink
        BY <2>10, <3>6, <3>13
      <4>4. QED
        BY <2>9, <4>1, <4>2, <4>3 DEF Outside
    <3>16. Rest(FreeLost(id), v, next, opens, handles)
      BY <1>5, <2>8, <2>10, <3>10, <3>13, <3>14, <3>15, LostRest
    <3>17. Good(v, next, FreeLost(id), opens, R.cache, handles)
      <4>1. PICK cc : cc = R.cache
        OBVIOUS
      <4>2. Mirrors(cc, v, {})
        BY <3>13, <4>1
      <4>3. Good(v, next, FreeLost(id), opens, cc, handles)
        BY <2>9, <3>14, <3>16, <4>2, GoodIs
      <4>4. QED
        BY <4>1, <4>3
    <3>18. ino' = v /\ free' = FreeLost(id) /\ cache' = R.cache
      BY <2>7, <2>16, <3>12, <3>13 DEF Becomes, UnlinkRest
    <3>19. Good(v, next', free', opens', cache', handles') /\ held' \in (Ids \X Nat) \cup {None}
      BY <2>3, <2>8, <3>17, <3>18
    <3>20. Changed(Entries(ino), Entries(v))
      <4>1. Entries(v) = Entries(ino) \ {b} /\ b \in Entries(ino) \ Entries(v)
        BY <3>5, <3>7, <3>13
      <4>2. QED
        BY <4>1 DEF Changed
    <3>21. Durable(image', v)
      BY <2>14, ImagedDurable
    <3>22. QED
      BY <3>18, <3>19, <3>20, <3>21, Ends
  <2>17. QED
    BY <2>15, <2>16
<1>6. QED
  BY <1>4, <1>5

\* The working copy of rmdir: a name less, and a subdirectory less.
LEMMA ParentFacts ==
  ASSUME NEW t, Paged(t), NEW d \in Ids, NEW a, Editing(a), a.in = t[d], NEW n, NEW id,
         UnboundView(t, d, Filled(a), n, id), NEW g, g = LoseSubdir(a)
  PROVE  /\ Editing(g) /\ g.in.nlink = Less(t[d].nlink) /\ g.in.gen = t[d].gen
         /\ UnboundView(t, d, Filled(g), n, id)
<1>1. Working(a) /\ a.in.kind = "dir" /\ a.dirty # {} /\ (NoSpace => \E p : a.dirty = {p})
  BY DEF Editing
<1>2. a.in \in Inode
  BY <1>1 DEF Working, Work
<1>3. PICK k : k = Less(a.in.nlink)
  OBVIOUS
<1>4. k \in Nat
  BY <1>2, <1>3, InodeFacts DEF Less
<1>5. g = Relinked(a, k)
  BY <1>1, <1>3, RelinkedIs
<1>6. /\ Working(g) /\ g.pages = a.pages /\ g.dirty = a.dirty /\ g.in.kind = a.in.kind
      /\ g.in.nlink = k /\ g.in.gen = a.in.gen
  BY <1>1, <1>4, <1>5, WorkLinked
<1>7. Editing(g)
  BY <1>1, <1>6 DEF Editing
<1>8. Filled(g).pages = g.pages
  BY <1>1, <1>6, StoredFacts
<1>9. Filled(a).pages = a.pages
  BY <1>1, StoredFacts
<1>10. UnboundView(t, d, Filled(g), n, id)
  BY <1>6, <1>8, <1>9 DEF UnboundView
<1>11. QED
  BY <1>3, <1>6, <1>7, <1>10

LEMMA RmdirKeeps ==
  ASSUME IInv, NEW d \in Ids, NEW n \in Names, Rmdir(d, n)
  PROVE  IInv' /\ TreeStep
<1>1. PICK h : h = Checkout(d)
  OBVIOUS
<1>2. PICK id : id = Find(h.pages, n)
  OBVIOUS
<1>3. PICK a : a = Del(h, n)
  OBVIOUS
<1>4. PICK g : g = LoseSubdir(a)
  OBVIOUS
<1>5. CASE ~(Has(h.pages, n) /\ ino[id].kind = "dir" /\ IsEmpty(ino[id].pages))
  <2>1. Fails(d)
    BY <1>1, <1>2, <1>5 DEF Rmdir
  <2>2. QED
    BY <2>1, FailsKeeps
<1>6. CASE Has(h.pages, n) /\ ino[id].kind = "dir" /\ IsEmpty(ino[id].pages)
  <2>1. CanCheckout(d)
    BY DEF Rmdir
  <2>2. PICK f \in Flushes(ino, image, next, d, g) :
              /\ LET r == [Ram EXCEPT !.ino = f.ino,
                              !.cache = Returned(Drop(cache, d), d, g, f.ok)]
                 IN Becomes(IF f.ok THEN Reclaimed(r, id, ino[id].gen) ELSE r)
              /\ image' = f.image
    BY <1>1, <1>2, <1>3, <1>4, <1>6 DEF Rmdir
  <2>3. UNCHANGED <<next, opens, held, handles>>
    BY <1>1, <1>2, <1>6 DEF Rmdir
  <2>4. PICK C : C = Returned(Drop(cache, d), d, g, f.ok)
    OBVIOUS
  <2>5. PICK r : r = [ino |-> f.ino, free |-> free, cache |-> C]
    OBVIOUS
  <2>6. [Ram EXCEPT !.ino = f.ino, !.cache = C] = r
    BY <2>5, RamIs
  <2>7. Becomes(IF f.ok THEN Reclaimed(r, id, ino[id].gen) ELSE r) /\ image' = f.image
    BY <2>2, <2>4, <2>6
  <2>8. Good(ino, next, free, opens, cache, handles) /\ held \in (Ids \X Nat) \cup {None}
    BY DEF IInv
  <2>9. /\ next \in 1 .. InodeCap /\ opens \in [Ids -> Nat] /\ handles \in HandlesType
        /\ Table(ino, next, {}) /\ Paged(ino) /\ ino \in [Ids -> Inode]
        /\ Sound(Entries(ino), Dirs(ino), Links(ino), next, {})
        /\ Rest(free, ino, next, opens, handles)
    BY <2>8, GoodHas
  <2>10. /\ Editing(a) /\ a.in = ino[d] /\ ino[d].kind = "dir" /\ d \in Dirs(ino)
         /\ id \in Ids /\ <<d, n, id>> \in Entries(ino) /\ d # id
         /\ UnboundView(ino, d, Filled(a), n, id)
         /\ id < next /\ id # Root
         /\ \A k \in DOMAIN free : free[k] # id
    BY <1>1, <1>2, <1>3, <1>6, <2>1, <2>8, TakeFacts
  <2>11. /\ Editing(g) /\ g.in.nlink = Less(ino[d].nlink) /\ g.in.gen = ino[d].gen
         /\ UnboundView(ino, d, Filled(g), n, id)
    BY <1>4, <2>9, <2>10, ParentFacts
  <2>12. SameDirs(ino, ino, {d})
    BY DEF SameDirs
  <2>13. /\ f.ok \in BOOLEAN
         /\ f.ok => f.ino = Stored(ino, d, g)
         /\ ~f.ok => f.ino = ino /\ NoSpace
         /\ Mirrors(Returned(Drop(cache, d), d, g, f.ok), f.ino, {})
         /\ f.image \in {image, [ino |-> ino, next |-> next]}
         /\ ~NoSpace => f.image = image /\ f.ok
    BY <2>8, <2>9, <2>11, <2>12, StoreOne
  <2>14. Mirrors(C, f.ino, {})
    BY <2>4, <2>13
  <2>15. Imaged(image')
    BY <2>7, <2>9, <2>13, MidImaged
  <2>16. CASE ~f.ok
    <3>1. ino' = ino /\ free' = free /\ cache' = C
      BY <2>5, <2>7, <2>13, <2>16 DEF Becomes
    <3>2. Mirrors(cache', ino, {})
      BY <2>13, <2>14, <2>16, <3>1
    <3>3. QED
      BY <2>3, <2>15, <3>1, <3>2, Stopped
  <2>17. CASE f.ok
    <3>1. PICK u : u = Stored(ino, d, g)
      OBVIOUS
    <3>2. f.ino = u
      BY <2>13, <2>17, <3>1
    <3>3. PICK s : s = Blank(ino[id].gen + 1)
      OBVIOUS
    <3>4. PICK v : v = [u EXCEPT ![id] = s]
      OBVIOUS
    <3>5. PICK b : b = <<d, n, id>>
      OBVIOUS
    <3>6. b \in Entries(ino) /\ b[1] = d /\ b[2] = n /\ b[3] = id
      BY <2>10, <3>5
    <3>7. PICK in : in = Filled(g)
      OBVIOUS
    <3>8. Puts(ino, u, d, in) /\ in.kind = "dir" /\ in.nlink = g.in.nlink /\ in.gen = g.in.gen
      BY <2>9, <2>11, <3>1, <3>7, StoredFacts DEF Editing
    <3>9. /\ Paged(u) /\ u[d] = in /\ \A i \in Ids : i # d => u[i] = ino[i]
          /\ Dirs(u) = IF in.kind = "dir" THEN Dirs(ino) \cup {d} ELSE Dirs(ino) \ {d}
          /\ Links(u) = [Links(ino) EXCEPT ![d] = in.nlink]
      BY <3>8, PutFacts
    <3>10. Entries(u) = Entries(ino) \ {b}
      BY <2>11, <3>5, <3>7, <3>8, PutUnbound
    <3>11. u[id] = ino[id] /\ Dirs(u) = Dirs(ino)
      BY <2>10, <3>8, <3>9
    <3>12. s \in Inode /\ s.kind = "file" /\ s.nlink = 0 /\ s.pages = <<>>
      <4>1. ino[id].gen \in Nat
        BY <2>9, <2>10, InodeFacts
      <4>2. QED
        BY <3>3, <4>1 DEF Blank, Inode
    <3>13. Puts(u, v, id, s)
      <4>1. Single(<<>>)
        BY DEF Single
      <4>2. QED
        BY <2>10, <3>4, <3>9, <3>12, <4>1 DEF Puts
    <3>14. /\ Paged(v) /\ v[id] = s /\ \A i \in Ids : i # id => v[i] = u[i]
           /\ Dirs(v) = IF s.kind = "dir" THEN Dirs(u) \cup {id} ELSE Dirs(u) \ {id}
           /\ Links(v) = [Links(u) EXCEPT ![id] = s.nlink]
      BY <3>13, PutFacts
    <3>15. \A m, j : ~At(ino[id].pages, m, j)
      BY <1>6 DEF IsEmpty, At
    <3>16. Entries(v) = Entries(ino) \ {b}
      <4>1. SameView(u, id, s)
        <5>1. DOMAIN <<>> = {}
          OBVIOUS
        <5>2. \A m, j : ~At(s.pages, m, j)
          BY <3>12, <5>1 DEF At
        <5>3. \A m, j : ~At(u[id].pages, m, j)
          BY <3>11, <3>15
        <5>4. QED
          BY <5>2, <5>3 DEF SameView
      <4>2. QED
        BY <3>10, <3>13, <4>1, PutSame
    <3>17. \A e \in Entries(ino) : e[1] # id
      <4> SUFFICES ASSUME NEW e \in Entries(ino), e[1] = id PROVE FALSE
        OBVIOUS
      <4>1. e \in Bindings
        BY <2>9, EntryIff
      <4>2. e = <<id, e[2], e[3]>>
        BY <4>1 DEF Bindings
      <4>3. At(ino[id].pages, e[2], e[3])
        BY <2>9, <4>2, EntryIff
      <4>4. QED
        BY <3>15, <4>3
    <3>18. Sound(Entries(ino) \ {b}, Dirs(ino) \ {b[3]}, [Links(ino) EXCEPT ![b[1]] = Less(@), ![b[3]] = 0], next, {})
      <4>1. b[3] \in Dirs(ino) /\ \A e \in Entries(ino) : e[1] # b[3]
        BY <1>6, <2>10, <3>6, <3>17 DEF Dirs
      <4>2. QED
        BY <2>9, <3>6, <4>1, SoundRemove
    <3>19. Table(v, next, {})
      <4>1. Dirs(v) = Dirs(ino) \ {b[3]}
        BY <3>6, <3>11, <3>12, <3>14
      <4>2. Links(ino)[d] = ino[d].nlink /\ d \in DOMAIN Links(ino)
        BY DEF Links
      <4>3. Links(v) = [Links(ino) EXCEPT ![b[1]] = Less(@), ![b[3]] = 0]
        BY <2>11, <3>6, <3>8, <3>9, <3>12, <3>14, <4>2
      <4>4. QED
        BY <3>14, <3>16, <3>18, <4>1, <4>3 DEF Table
    <3>20. Outside(ino, v, {id})
      <4>1. v \in [Ids -> Inode]
        BY <3>14 DEF Paged
      <4>2. \A i \in Ids \ {id} : NamesIn(Entries(v), i) = NamesIn(Entries(ino), i)
        BY <3>6, <3>16 DEF NamesIn
      <4>3. \A i \in Ids \ {id} : /\ v[i].kind = ino[i].kind /\ v[i].gen = ino[i].gen
                                  /\ ino[i].kind # "dir" => v[i].nlink = ino[i].nlink
        BY <2>10, <2>11, <3>8, <3>9, <3>14
      <4>4. QED
        BY <2>9, <4>1, <4>2, <4>3 DEF Outside
    <3>21. Rest(Append(free, id), v, next, opens, handles)
      <4>1. NamesIn(Entries(v), id) = {}
        <5>1. \A e \in Entries(ino) : e[3] = id => e = b
          BY <1>6, <2>9, <2>10, <3>6 DEF Sound, Forest, Dirs
        <5>2. QED
          BY <3>16, <5>1 DEF NamesIn
      <4>2. ~Opened(handles, id)
        BY <1>6, <2>9 DEF Rest, Keeps, Opened
      <4>3. QED
        BY <2>9, <2>10, <3>12, <3>14, <3>20, <4>1, <4>2, RestReclaimed
    <3>22. Mirrors(Drop(C, id), v, {})
      <4>1. Mirrors(C, u, {})
        BY <2>14, <3>2
      <4>2. Mirrors(Drop(C, id), u, {} \cup {id})
        BY <4>1, DropFacts
      <4>3. PICK X : X = {} \cup {id}
        OBVIOUS
      <4>4. SameDirs(u, v, X)
        BY <3>14, <4>3 DEF SameDirs
      <4>5. Mirrors(Drop(C, id), v, X)
        BY <4>2, <4>3, <4>4, MirrorsKept
      <4>6. QED
        BY <4>5, MirrorsLess
    <3>23. Good(v, next, Append(free, id), opens, Drop(C, id), handles)
      BY <2>9, <3>19, <3>21, <3>22, GoodIs
    <3>24. ino' = v /\ free' = Append(free, id) /\ cache' = Drop(C, id)
      <4>1. Becomes(Reclaimed(r, id, ino[id].gen))
        BY <2>7, <2>17
      <4>2. r.ino = u /\ r.free = free /\ r.cache = C
        BY <2>5, <3>2
      <4>3. QED
        BY <3>3, <3>4, <4>1, <4>2 DEF Becomes, Reclaimed
    <3>25. Good(v, next', free', opens', cache', handles') /\ held' \in (Ids \X Nat) \cup {None}
      BY <2>3, <2>8, <3>23, <3>24
    <3>26. Changed(Entries(ino), Entries(v))
      <4>1. b \in Entries(ino) \ Entries(v)
        BY <3>6, <3>16
      <4>2. QED
        BY <3>16, <4>1 DEF Changed
    <3>27. Durable(image', v)
      BY <2>15, ImagedDurable
    <3>28. QED
      BY <3>24, <3>25, <3>26, <3>27, Ends
  <2>18. QED
    BY <2>16, <2>17
<1>7. QED
  BY <1>5, <1>6

----------------------------------------------------------------------------
(* Hard links. *)

\* An inode that has a name or a handle.
LEMMA UsedFacts ==
  ASSUME Good(ino, next, free, opens, cache, handles), NEW id \in Ids, Named(id) \/ Open(id)
  PROVE  id < next /\ \A k \in DOMAIN free : free[k] # id
<1>1. /\ Sound(Entries(ino), Dirs(ino), Links(ino), next, {})
      /\ Rest(free, ino, next, opens, handles)
  BY GoodHas
<1>2. CASE Named(id)
  <2>1. PICK b \in Entries(ino) : b[3] = id
    BY <1>2 DEF Named
  <2>2. b[3] < next
    BY <1>1, SoundHas
  <2>3. \A k \in DOMAIN free : free[k] # b[3]
    BY <1>1, NamedNotFree
  <2>4. QED
    BY <2>1, <2>2, <2>3
<1>3. CASE Open(id)
  BY <1>1, <1>3 DEF Open, Rest, Keeps, Stack, Opened
<1>4. QED
  BY <1>2, <1>3

LEMMA LinkedFacts ==
  ASSUME Good(ino, next, free, opens, cache, handles), NEW id \in Ids, ino[id].kind # "dir",
         NEW t, t = Linked(id)
  PROVE  /\ Paged(t) /\ Entries(t) = Entries(ino) /\ Dirs(t) = Dirs(ino)
         /\ Links(t) = [Links(ino) EXCEPT ![id] = @ + 1]
         /\ t[id].kind = ino[id].kind /\ t[id].gen = ino[id].gen /\ t[id].nlink > 0
         /\ \A i \in Ids : i # id => t[i] = ino[i]
<1>1. Paged(ino) /\ ino \in [Ids -> Inode] /\ ino[id] \in Inode
  BY GoodHas
<1>2. PICK k \in Nat : k = ino[id].nlink
  BY <1>1, InodeFacts
<1>3. PICK in : in = [ino[id] EXCEPT !.nlink = k + 1]
  OBVIOUS
<1>4. /\ in \in Inode /\ in.pages = ino[id].pages /\ in.kind = ino[id].kind /\ in.nlink = k + 1
      /\ in.gen = ino[id].gen
  <2>1. PICK j \in Nat : j = k + 1
    OBVIOUS
  <2>2. PICK x \in Inode : x = ino[id]
    BY <1>1
  <2>3. in = [x EXCEPT !.nlink = j]
    BY <1>3, <2>1, <2>2
  <2>4. in \in Inode /\ in.pages = x.pages /\ in.kind = x.kind /\ in.nlink = j /\ in.gen = x.gen
    BY <2>3 DEF Inode
  <2>5. QED
    BY <2>1, <2>2, <2>4
<1>5. t = [ino EXCEPT ![id] = in]
  BY <1>1, <1>2, <1>3 DEF Linked
<1>6. Kept(ino, t, id, in)
  BY <1>1, <1>4, <1>5 DEF Kept
<1>7. /\ Paged(t) /\ Entries(t) = Entries(ino) /\ Dirs(t) = Dirs(ino)
      /\ Links(t) = [Links(ino) EXCEPT ![id] = in.nlink]
      /\ t[id] = in /\ \A i \in Ids : i # id => t[i] = ino[i]
  BY <1>6, PutKept
<1>8. Links(ino)[id] = k /\ id \in DOMAIN Links(ino)
  BY <1>2 DEF Links
<1>9. Links(t) = [Links(ino) EXCEPT ![id] = @ + 1]
  BY <1>4, <1>7, <1>8
<1>10. in.nlink > 0
  BY <1>4
<1>11. QED
  BY <1>4, <1>7, <1>9, <1>10

\* A file has nothing below it.
LEMMA FileLeaf ==
  ASSUME NEW T, NEW D, NEW L, NEW nx, NEW E, Sound(T, D, L, nx, E), NEW id \in Ids \ D, NEW d \in D
  PROVE  d \notin Below(T, id)
<1>1. T \in SUBSET Bindings /\ \A e \in T : e[1] # id
  BY SoundHas
<1>2. Below(T, id) = {id}
  BY <1>1, BelowLeaf
<1>3. QED
  BY <1>2

LEMMA LinkKeeps ==
  ASSUME IInv, NEW d \in Ids, NEW n \in Names, NEW id \in Ids, Link(d, n, id)
  PROVE  IInv' /\ TreeStep
<1>1. PICK h : h = Checkout(d)
  OBVIOUS
<1>2. PICK g : g = Add(h, n, id)
  OBVIOUS
<1>3. CASE Has(h.pages, n)
  <2>1. Fails(d)
    BY <1>1, <1>3 DEF Link
  <2>2. QED
    BY <2>1, FailsKeeps
<1>4. CASE ~Has(h.pages, n)
  <2>1. CanCheckout(d) /\ ino[id].kind # "dir" /\ (Named(id) \/ Open(id))
    BY DEF Link
  <2>2. PICK t : t = Linked(id)
    OBVIOUS
  <2>3. PICK f \in Flushes(t, image, next, d, g) :
              /\ ino' = f.ino /\ image' = f.image
              /\ cache' = Returned(Drop(cache, d), d, g, f.ok)
    BY <1>1, <1>2, <1>4, <2>2 DEF Link
  <2>4. UNCHANGED <<next, free, opens, held, handles>>
    BY <1>1, <1>4 DEF Link
  <2>5. Good(ino, next, free, opens, cache, handles) /\ held \in (Ids \X Nat) \cup {None}
    BY DEF IInv
  <2>6. /\ next \in 1 .. InodeCap /\ opens \in [Ids -> Nat] /\ handles \in HandlesType
        /\ Mirrors(cache, ino, {}) /\ Paged(ino) /\ ino \in [Ids -> Inode]
        /\ Sound(Entries(ino), Dirs(ino), Links(ino), next, {})
        /\ Rest(free, ino, next, opens, handles)
    BY <2>5, GoodHas
  <2>7. /\ ino[d].kind = "dir" /\ ino[d] \in Inode /\ Working(h)
        /\ h.in = ino[d] /\ h.pages = ino[d].pages /\ h.dirty = {}
    BY <1>1, <2>1, <2>6, CheckoutFacts
  <2>8. /\ Working(g) /\ g.in = h.in /\ g.dirty = h.dirty \cup {Slot(h.pages)}
        /\ \A m, j : At(g.pages, m, j) <=> At(h.pages, m, j) \/ (m = n /\ j = id)
    BY <1>2, <1>4, <2>7, AddFacts
  <2>9. Editing(g)
    BY <2>7, <2>8 DEF Editing
  <2>10. id < next /\ \A k \in DOMAIN free : free[k] # id
    BY <2>1, <2>5, UsedFacts
  <2>11. /\ Paged(t) /\ Entries(t) = Entries(ino) /\ Dirs(t) = Dirs(ino)
         /\ Links(t) = [Links(ino) EXCEPT ![id] = @ + 1]
         /\ t[id].kind = ino[id].kind /\ t[id].gen = ino[id].gen /\ t[id].nlink > 0
         /\ \A i \in Ids : i # id => t[i] = ino[i]
    BY <2>1, <2>2, <2>5, LinkedFacts
  <2>12. id \in Ids \ Dirs(ino) /\ d \in Dirs(ino) /\ d # id
    BY <2>1, <2>7 DEF Dirs
  <2>13. Sound(Entries(ino), Dirs(ino), Links(t), next, {id})
    <3>1. Sound(Entries(ino), Dirs(ino), [Links(ino) EXCEPT ![id] = @ + 1], next, {id})
      BY <2>6, <2>12, SoundLinked
    <3>2. QED
      BY <2>11, <3>1
  <2>14. SameDirs(ino, t, {d})
    BY <2>1, <2>11 DEF SameDirs
  <2>15. /\ f.ok \in BOOLEAN
         /\ f.ok => f.ino = Stored(t, d, g)
         /\ ~f.ok => f.ino = t /\ NoSpace
         /\ Mirrors(Returned(Drop(cache, d), d, g, f.ok), f.ino, {})
         /\ f.image \in {image, [ino |-> t, next |-> next]}
         /\ ~NoSpace => f.image = image /\ f.ok
    <3>1. Paged(t) /\ Editing(g) /\ SameDirs(ino, t, {d})
      BY <2>9, <2>11, <2>14
    <3>2. QED
      BY <2>5, <3>1, StoreOne
  <2>16. NoSpace => Table(t, next, {})
    <3>1. Table(t, next, {id})
      BY <2>11, <2>13 DEF Table
    <3>2. QED
      BY <3>1, Full
  <2>17. Imaged(image')
    <3>1. f.image = image \/ (Table(t, next, {}) /\ Entries(t) = Entries(ino))
      BY <2>11, <2>15, <2>16
    <3>2. Imaged(f.image)
      BY <2>6, <2>15, <3>1, MidImaged
    <3>3. QED
      BY <2>3, <3>2
  <2>18. PICK w : w = f.ino
    OBVIOUS
  <2>19. /\ Table(w, next, {}) /\ Outside(ino, w, {id}) /\ w[id] = t[id]
         /\ Changed(Entries(ino), Entries(w))
    <3>1. CASE ~f.ok
      <4>1. w = t /\ Table(w, next, {})
        BY <2>15, <2>16, <2>18, <3>1
      <4>2. w \in [Ids -> Inode]
        BY <2>11, <4>1 DEF Paged
      <4>3. Outside(ino, w, {id})
        BY <2>6, <2>11, <4>1, <4>2 DEF Outside
      <4>4. QED
        BY <2>11, <4>1, <4>3 DEF Changed
    <3>2. CASE f.ok
      <4>1. w = Stored(t, d, g)
        BY <2>15, <2>18, <3>2
      <4>2. t[d] = ino[d] /\ t[d].kind = "dir" /\ g.in.nlink = t[d].nlink /\ g.in.gen = ino[d].gen
        BY <2>7, <2>8, <2>11, <2>12
      <4>3. /\ Puts(t, w, d, Filled(g)) /\ Paged(w) /\ Dirs(w) = Dirs(t) /\ Links(w) = Links(t)
            /\ w[d].gen = g.in.gen /\ w[d].kind = "dir" /\ \A i \in Ids : i # d => w[i] = t[i]
        <5>1. Paged(t)
          BY <2>11
        <5>2. QED
          BY <2>9, <4>1, <4>2, <5>1, StoredSame
      <4>4. Filled(g).pages = g.pages
        BY <2>7, <2>8, <2>11, StoredFacts
      <4>5. BoundView(t, d, Filled(g), n, id)
        BY <2>7, <2>8, <4>2, <4>4 DEF BoundView
      <4>6. PICK b : b = <<d, n, id>>
        OBVIOUS
      <4>7. Entries(w) = Entries(ino) \cup {b}
        <5>1. Entries(w) = Entries(t) \cup {<<d, n, id>>}
          BY <4>3, <4>5, PutBound
        <5>2. QED
          BY <2>11, <4>6, <5>1
      <4>8. b \in Bindings /\ b[1] = d /\ b[2] = n /\ b[3] = id
        BY <4>6 DEF Bindings
      <4>9. \A x \in Entries(ino) : <<x[1], x[2]>> # <<b[1], b[2]>>
        <5> SUFFICES ASSUME NEW x \in Entries(ino), x[1] = d, x[2] = n PROVE FALSE
          BY <4>8
        <5>1. x \in Bindings
          BY <2>6, EntryIff
        <5>2. x = <<d, n, x[3]>>
          BY <5>1 DEF Bindings
        <5>3. At(ino[d].pages, n, x[3])
          BY <2>6, <5>2, EntryIff
        <5>4. QED
          BY <1>4, <2>7, <5>3 DEF At, Has
      <4>10. b \notin Entries(ino)
        BY <4>9
      <4>11. MayBind(Entries(ino), Dirs(ino), Links(t), next, b)
        <5>1. d \notin Below(Entries(ino), id)
          BY <2>6, <2>12, FileLeaf
        <5>2. id # Root /\ Links(ino) \in [Ids -> Nat] /\ Entries(ino) \in SUBSET Bindings
          BY <2>6, <2>12, SoundHas
        <5>3. PICK k : k = Cardinality(NamesIn(Entries(ino), id))
          OBVIOUS
        <5>4. k \in Nat
          BY <5>2, <5>3, NamesFinite
        <5>5. k <= Links(ino)[id] /\ (~NoSpace => k = Links(ino)[id])
          BY <2>6, <2>12, <5>3 DEF Sound, Counted, Exact
        <5>6. Links(t)[id] = Links(ino)[id] + 1 /\ Links(ino)[id] \in Nat
          BY <2>11, <5>2
        <5>7. k + 1 <= Links(t)[id] /\ (~NoSpace => k + 1 = Links(t)[id])
          BY <5>4, <5>5, <5>6
        <5>8. QED
          BY <2>10, <2>12, <4>8, <4>10, <5>1, <5>2, <5>3, <5>7 DEF MayBind
      <4>12. Sound(Entries(ino) \cup {b}, Dirs(ino), Links(t), next, {})
        <5>1. {id} \subseteq {b[3]} /\ b[3] \notin Dirs(ino)
          BY <2>12, <4>8
        <5>2. Sound(Entries(ino) \cup {b}, Dirs(ino), IF b[3] \in Dirs(ino) THEN [Links(t) EXCEPT ![b[1]] = @ + 1] ELSE Links(t), next, {})
          BY <2>13, <4>11, <5>1, SoundBind
        <5>3. QED
          BY <5>1, <5>2
      <4>13. Table(w, next, {})
        BY <2>11, <4>3, <4>7, <4>12 DEF Table
      <4>14. Outside(ino, w, {id})
        <5>1. w \in [Ids -> Inode]
          BY <4>3 DEF Paged
        <5>2. \A i \in Ids \ {id} : NamesIn(Entries(w), i) = NamesIn(Entries(ino), i)
          BY <4>7, <4>8 DEF NamesIn
        <5>3. \A i \in Ids \ {id} : /\ w[i].kind = ino[i].kind /\ w[i].gen = ino[i].gen
                                    /\ ino[i].kind # "dir" => w[i].nlink = ino[i].nlink
          BY <2>7, <2>11, <4>2, <4>3
        <5>4. QED
          BY <2>6, <5>1, <5>2, <5>3 DEF Outside
      <4>15. Changed(Entries(ino), Entries(w))
        <5>1. b \in Entries(w) \ Entries(ino)
          BY <4>7, <4>10
        <5>2. QED
          BY <4>7, <4>9, <5>1 DEF Changed
      <4>16. QED
        BY <2>12, <4>3, <4>13, <4>14, <4>15
    <3>3. QED
      BY <2>15, <3>1, <3>2
  <2>20. Rest(free, w, next, opens, handles)
    <3>1. w[id].kind = ino[id].kind /\ w[id].gen = ino[id].gen /\ w[id].nlink # 0
      BY <2>11, <2>19
    <3>2. QED
      BY <2>6, <2>10, <2>19, <3>1, RestUsed
  <2>21. Mirrors(cache', w, {}) /\ ino' = w
    BY <2>3, <2>15, <2>18
  <2>22. Good(w, next, free, opens, cache', handles)
    BY <2>6, <2>19, <2>20, <2>21, GoodIs
  <2>23. Good(w, next', free', opens', cache', handles') /\ held' \in (Ids \X Nat) \cup {None}
    BY <2>4, <2>5, <2>22
  <2>24. Durable(image', w)
    BY <2>17, ImagedDurable
  <2>25. QED
    BY <2>19, <2>21, <2>23, <2>24, Ends
<1>5. QED
  BY <1>3, <1>4

----------------------------------------------------------------------------
(* Handles. *)

LEMMA HandlesFinite ==
  ASSUME NEW hs, NEW i
  PROVE  IsFiniteSet(HandlesOn(hs, i)) /\ Cardinality(HandlesOn(hs, i)) \in Nat
<1>1. PICK S : S = HandlesOn(hs, i)
  OBVIOUS
<1>2. IsFiniteSet(Handles) /\ S \subseteq Handles
  BY <1>1, NamespaceAssumption DEF HandlesOn
<1>3. IsFiniteSet(S)
  BY <1>2, FS_Subset
<1>4. Cardinality(S) \in Nat
  BY <1>3, FS_CardinalityType
<1>5. QED
  BY <1>1, <1>3, <1>4

Turned(hs, h, x) == [hs EXCEPT ![h] = x]

\* One more handle.
LEMMA HandleAdded ==
  ASSUME NEW hs \in HandlesType, NEW h \in Handles, hs[h] = None, NEW id \in Ids, NEW gen \in Nat,
         NEW x, x = <<id, gen>>, NEW ks, ks = Turned(hs, h, x)
  PROVE  /\ ks \in HandlesType /\ ks[h] = <<id, gen>> /\ \A k \in Handles : k # h => ks[k] = hs[k]
         /\ \A i \in Ids : Opened(ks, i) <=> Opened(hs, i) \/ i = id
         /\ \A i \in Ids : i # id => HandlesOn(ks, i) = HandlesOn(hs, i)
         /\ Cardinality(HandlesOn(ks, id)) = Cardinality(HandlesOn(hs, id)) + 1
<1>1. <<id, gen>> \in Ids \X Nat /\ <<id, gen>> # None
  BY NamespaceAssumption
<1>2. /\ ks \in HandlesType /\ ks[h] = <<id, gen>> /\ \A k \in Handles : k # h => ks[k] = hs[k]
  BY <1>1 DEF HandlesType, Turned
<1>3. <<id, gen>>[1] = id
  OBVIOUS
<1>4. \A i \in Ids : Opened(ks, i) <=> Opened(hs, i) \/ i = id
  BY <1>1, <1>2, <1>3 DEF Opened
<1>5. \A i \in Ids : i # id => HandlesOn(ks, i) = HandlesOn(hs, i)
  BY <1>1, <1>2, <1>3 DEF HandlesOn
<1>6. PICK S : S = HandlesOn(hs, id)
  OBVIOUS
<1>7. HandlesOn(ks, id) = S \cup {h} /\ h \notin S
  BY <1>1, <1>2, <1>3, <1>6 DEF HandlesOn
<1>8. IsFiniteSet(S)
  BY <1>6, HandlesFinite
<1>9. Cardinality(S \cup {h}) = Cardinality(S) + 1
  BY <1>7, <1>8, FS_AddElement
<1>10. QED
  BY <1>2, <1>4, <1>5, <1>6, <1>7, <1>9

LEMMA OpenKeeps ==
  ASSUME IInv, Supported, NEW h \in Handles, NEW id \in Ids, NEW gen \in 0 .. MaxGen,
         OpenFile(h, id, gen)
  PROVE  IInv' /\ TreeStep
<1>1. ~Races
  BY DEF OpenFile, Supported
<1>2. /\ handles[h] = None /\ Named(id) /\ ino[id].gen = gen /\ ino[id].kind = "file"
      /\ opens' = [opens EXCEPT ![id] = @ + 1] /\ handles' = [handles EXCEPT ![h] = <<id, gen>>]
      /\ held' = None /\ UNCHANGED <<ino, next, free, cache, image>>
  BY <1>1 DEF OpenFile
<1>3. Good(ino, next, free, opens, cache, handles) /\ Snap(image)
  BY DEF IInv
<1>4. /\ next \in 1 .. InodeCap /\ opens \in [Ids -> Nat] /\ handles \in HandlesType
      /\ Mirrors(cache, ino, {}) /\ Table(ino, next, {}) /\ Rest(free, ino, next, opens, handles)
  BY <1>3, GoodHas
<1>5. id < next /\ \A k \in DOMAIN free : free[k] # id
  BY <1>2, <1>3, UsedFacts
<1>6. gen \in Nat
  BY NamespaceAssumption
<1>6a. PICK x : x = <<id, gen>>
  OBVIOUS
<1>7. PICK ks : ks = Turned(handles, h, x)
  OBVIOUS
<1>8. /\ ks \in HandlesType /\ ks[h] = <<id, gen>> /\ \A k \in Handles : k # h => ks[k] = handles[k]
      /\ \A i \in Ids : Opened(ks, i) <=> Opened(handles, i) \/ i = id
      /\ \A i \in Ids : i # id => HandlesOn(ks, i) = HandlesOn(handles, i)
      /\ Cardinality(HandlesOn(ks, id)) = Cardinality(HandlesOn(handles, id)) + 1
  BY <1>2, <1>4, <1>6, <1>6a, <1>7, HandleAdded
<1>9. PICK o : o = [opens EXCEPT ![id] = @ + 1]
  OBVIOUS
<1>10. o \in [Ids -> Nat] /\ o[id] = opens[id] + 1 /\ \A i \in Ids : i # id => o[i] = opens[i]
  BY <1>4, <1>9
<1>11. Stack(free, ino, next, ks)
  <2>1. \A k \in DOMAIN free : free[k] \in Ids
    BY <1>4 DEF Rest, Stack
  <2>2. QED
    BY <1>4, <1>5, <1>8, <2>1 DEF Rest, Stack
<1>12. Zero(free, ino, next, ks)
  BY <1>4, <1>8 DEF Rest, Zero
<1>13. Keeps(ino, next, o, ks)
  <2>1. <<id, gen>>[1] = id /\ <<id, gen>>[2] = gen
    OBVIOUS
  <2>2. \A k \in Handles : ks[k] # None =>
          /\ ino[ks[k][1]].kind = "file" /\ ino[ks[k][1]].gen = ks[k][2] /\ ks[k][1] < next
    BY <1>2, <1>4, <1>5, <1>8, <2>1 DEF Rest, Keeps
  <2>3. \A i \in Ids : o[i] = Cardinality(HandlesOn(ks, i))
    BY <1>4, <1>8, <1>10 DEF Rest, Keeps
  <2>4. QED
    BY <2>2, <2>3 DEF Keeps
<1>14. Good(ino, next, free, o, cache, ks)
  BY <1>4, <1>8, <1>10, <1>11, <1>12, <1>13 DEF Good
<1>15. Good(ino, next', free', opens', cache', handles') /\ ino' = ino
  BY <1>2, <1>6a, <1>7, <1>9, <1>14 DEF Turned
<1>16. Changed(Entries(ino), Entries(ino)) /\ Durable(image', ino)
  BY <1>2, <1>3 DEF Changed, Durable
<1>17. held' \in (Ids \X Nat) \cup {None}
  BY <1>2
<1>18. QED
  BY <1>15, <1>16, <1>17, Ends

\* One handle less.
LEMMA HandleRemoved ==
  ASSUME NEW hs \in HandlesType, NEW h \in Handles, hs[h] # None, NEW id, id = hs[h][1],
         NEW ks, ks = Turned(hs, h, None)
  PROVE  /\ ks \in HandlesType /\ ks[h] = None /\ \A k \in Handles : k # h => ks[k] = hs[k]
         /\ \A i \in Ids : i # id => (Opened(ks, i) <=> Opened(hs, i))
         /\ \A i \in Ids : Opened(ks, i) => Opened(hs, i)
         /\ \A i \in Ids : i # id => HandlesOn(ks, i) = HandlesOn(hs, i)
         /\ Cardinality(HandlesOn(hs, id)) = Cardinality(HandlesOn(ks, id)) + 1
<1>1. /\ ks \in HandlesType /\ ks[h] = None /\ \A k \in Handles : k # h => ks[k] = hs[k]
  BY DEF HandlesType, Turned
<1>2. \A i \in Ids : i # id => (Opened(ks, i) <=> Opened(hs, i))
  BY <1>1 DEF Opened
<1>3. \A i \in Ids : Opened(ks, i) => Opened(hs, i)
  BY <1>1 DEF Opened
<1>4. \A i \in Ids : i # id => HandlesOn(ks, i) = HandlesOn(hs, i)
  BY <1>1 DEF HandlesOn
<1>5. PICK S : S = HandlesOn(ks, id)
  OBVIOUS
<1>6. HandlesOn(hs, id) = S \cup {h} /\ h \notin S
  BY <1>1, <1>5 DEF HandlesOn
<1>7. IsFiniteSet(S)
  BY <1>5, HandlesFinite
<1>8. Cardinality(S \cup {h}) = Cardinality(S) + 1
  BY <1>6, <1>7, FS_AddElement
<1>9. QED
  BY <1>1, <1>2, <1>3, <1>4, <1>5, <1>6, <1>8

\* A file that lost its last handle and has no links is reclaimed.
LEMMA DeadFacts ==
  ASSUME Good(ino, next, free, opens, cache, handles), NEW id \in Ids, ino[id].kind = "file",
         ino[id].nlink = 0, id < next, \A k \in DOMAIN free : free[k] # id,
         NEW o \in [Ids -> Nat], NEW ks \in HandlesType,
         Stack(free, ino, next, ks), ZeroBut(free, ino, next, ks, id), Keeps(ino, next, o, ks),
         ~Opened(ks, id), NEW r, r = Reclaimed(Ram, id, ino[id].gen)
  PROVE  Good(r.ino, next, r.free, o, r.cache, ks) /\ Entries(r.ino) = Entries(ino)
<1>1. /\ next \in 1 .. InodeCap /\ Paged(ino) /\ ino \in [Ids -> Inode] /\ ino[id] \in Inode
      /\ Mirrors(cache, ino, {}) /\ Table(ino, next, {})
      /\ Sound(Entries(ino), Dirs(ino), Links(ino), next, {})
  BY GoodHas
<1>2. PICK s : s = Blank(ino[id].gen + 1)
  OBVIOUS
<1>3. s \in Inode /\ s.kind = "file" /\ s.nlink = 0 /\ s.pages = <<>>
  <2>1. ino[id].gen \in Nat
    BY <1>1, InodeFacts
  <2>2. QED
    BY <1>2, <2>1 DEF Blank, Inode
<1>4. PICK v : v = [ino EXCEPT ![id] = s]
  OBVIOUS
<1>5. ino[id].pages = <<>>
  BY <1>1 DEF Paged
<1>6. Kept(ino, v, id, s)
  BY <1>1, <1>3, <1>4, <1>5 DEF Kept
<1>7. /\ Paged(v) /\ Entries(v) = Entries(ino) /\ Dirs(v) = Dirs(ino)
      /\ Links(v) = [Links(ino) EXCEPT ![id] = s.nlink]
      /\ v[id] = s /\ \A i \in Ids : i # id => v[i] = ino[i]
  BY <1>6, PutKept
<1>8. Links(v) = Links(ino)
  BY <1>3, <1>7 DEF Links
<1>9. Table(v, next, {})
  BY <1>1, <1>7, <1>8 DEF Table
<1>10. NamesIn(Entries(v), id) = {}
  <2>1. PICK S : S = NamesIn(Entries(ino), id)
    OBVIOUS
  <2>2. id \in Ids \ Dirs(ino) /\ Links(ino)[id] = 0
    BY DEF Dirs, Links
  <2>3. Cardinality(S) <= 0 /\ Entries(ino) \in SUBSET Bindings
    BY <1>1, <2>1, <2>2 DEF Sound, Counted, Forest
  <2>4. IsFiniteSet(S) /\ Cardinality(S) \in Nat
    BY <2>1, <2>3, NamesFinite
  <2>5. Cardinality(S) = 0
    BY <2>3, <2>4
  <2>6. S = {}
    BY <2>4, <2>5, FS_EmptySet
  <2>7. QED
    BY <1>7, <2>1, <2>6
<1>11. v \in [Ids -> Inode]
  BY <1>7 DEF Paged
<1>12. Outside(ino, v, {id})
  BY <1>1, <1>7, <1>11 DEF Outside
<1>13. Rest(Append(free, id), v, next, o, ks)
  BY <1>3, <1>7, <1>10, <1>12, RestReclaimedBut
<1>14. Mirrors(Drop(cache, id), v, {})
  <2>1. SameDirs(ino, v, {})
    BY <1>7 DEF SameDirs
  <2>2. Mirrors(cache, v, {})
    BY <1>1, <2>1, MirrorsKept
  <2>3. Mirrors(Drop(cache, id), v, {} \cup {id})
    BY <2>2, DropFacts
  <2>4. QED
    BY <2>3, MirrorsLess
<1>15. Good(v, next, Append(free, id), o, Drop(cache, id), ks)
  BY <1>1, <1>9, <1>13, <1>14, GoodIs
<1>16. r.ino = v /\ r.free = Append(free, id) /\ r.cache = Drop(cache, id)
  BY <1>2, <1>4 DEF Reclaimed, Ram
<1>17. QED
  BY <1>7, <1>15, <1>16

LEMMA CloseKeeps ==
  ASSUME IInv, NEW h \in Handles, Close(h)
  PROVE  IInv' /\ TreeStep
<1>1. PICK id : id = handles[h][1]
  OBVIOUS
<1>2. PICK left : left = Less(opens[id])
  OBVIOUS
<1>3. /\ handles[h] # None /\ opens' = [opens EXCEPT ![id] = left]
      /\ Becomes(IF Dead(id, left) THEN Reclaimed(Ram, id, ino[id].gen) ELSE Ram)
      /\ handles' = [handles EXCEPT ![h] = None] /\ UNCHANGED <<next, image, held>>
  BY <1>1, <1>2 DEF Close
<1>4. Good(ino, next, free, opens, cache, handles) /\ Snap(image) /\ held \in (Ids \X Nat) \cup {None}
  BY DEF IInv
<1>5. /\ next \in 1 .. InodeCap /\ opens \in [Ids -> Nat] /\ handles \in HandlesType
      /\ Mirrors(cache, ino, {}) /\ Table(ino, next, {}) /\ Rest(free, ino, next, opens, handles)
  BY <1>4, GoodHas
<1>6. id \in Ids
  BY <1>1, <1>3, <1>5, HandleOf
<1>7. ino[id].kind = "file" /\ id < next /\ \A k \in DOMAIN free : free[k] # id
  <2>1. Opened(handles, id)
    BY <1>1, <1>3 DEF Opened
  <2>2. QED
    BY <1>1, <1>3, <1>5, <2>1 DEF Rest, Keeps, Stack
<1>8. PICK ks : ks = Turned(handles, h, None)
  OBVIOUS
<1>9. /\ ks \in HandlesType /\ ks[h] = None /\ \A k \in Handles : k # h => ks[k] = handles[k]
      /\ \A i \in Ids : i # id => (Opened(ks, i) <=> Opened(handles, i))
      /\ \A i \in Ids : Opened(ks, i) => Opened(handles, i)
      /\ \A i \in Ids : i # id => HandlesOn(ks, i) = HandlesOn(handles, i)
      /\ Cardinality(HandlesOn(handles, id)) = Cardinality(HandlesOn(ks, id)) + 1
  BY <1>1, <1>3, <1>5, <1>8, HandleRemoved
<1>10. PICK o : o = [opens EXCEPT ![id] = left]
  OBVIOUS
<1>11. PICK k : k = Cardinality(HandlesOn(ks, id))
  OBVIOUS
<1>12. left = k /\ k \in Nat
  <2>1. k \in Nat
    BY <1>11, HandlesFinite
  <2>2. opens[id] = k + 1
    BY <1>5, <1>6, <1>9, <1>11 DEF Rest, Keeps
  <2>3. QED
    BY <1>2, <2>1, <2>2 DEF Less
<1>13. o \in [Ids -> Nat] /\ o[id] = k /\ \A i \in Ids : i # id => o[i] = opens[i]
  BY <1>5, <1>6, <1>10, <1>12
<1>14. Stack(free, ino, next, ks)
  <2>1. \A j \in DOMAIN free : free[j] \in Ids
    BY <1>5 DEF Rest, Stack
  <2>2. QED
    BY <1>5, <1>9, <2>1 DEF Rest, Stack
<1>15. ZeroBut(free, ino, next, ks, id)
  BY <1>5, <1>9 DEF Rest, Zero, ZeroBut
<1>16. Keeps(ino, next, o, ks)
  <2>1. \A j \in Handles : ks[j] # None =>
          /\ ino[ks[j][1]].kind = "file" /\ ino[ks[j][1]].gen = ks[j][2] /\ ks[j][1] < next
    BY <1>5, <1>9 DEF Rest, Keeps
  <2>2. \A i \in Ids : o[i] = Cardinality(HandlesOn(ks, i))
    BY <1>5, <1>9, <1>11, <1>13 DEF Rest, Keeps
  <2>3. QED
    BY <2>1, <2>2 DEF Keeps
<1>17. k = 0 <=> ~Opened(ks, id)
  <2>1. PICK S : S = HandlesOn(ks, id)
    OBVIOUS
  <2>2. IsFiniteSet(S)
    BY <2>1, HandlesFinite
  <2>3. Cardinality(S) = 0 <=> S = {}
    BY <2>2, FS_EmptySet
  <2>4. S = {} <=> ~Opened(ks, id)
    BY <2>1 DEF HandlesOn, Opened
  <2>5. QED
    BY <1>11, <2>1, <2>3, <2>4
<1>18. PICK r : r = IF Dead(id, left) THEN Reclaimed(Ram, id, ino[id].gen) ELSE Ram
  OBVIOUS
<1>19. Good(r.ino, next, r.free, o, r.cache, ks) /\ Entries(r.ino) = Entries(ino)
  <2>1. CASE Dead(id, left)
    <3>1. ino[id].nlink = 0 /\ ~Opened(ks, id)
      BY <1>12, <1>17, <2>1 DEF Dead
    <3>2. r = Reclaimed(Ram, id, ino[id].gen)
      BY <1>18, <2>1
    <3>3. QED
      BY <1>4, <1>6, <1>7, <1>9, <1>13, <1>14, <1>15, <1>16, <3>1, <3>2, DeadFacts
  <2>2. CASE ~Dead(id, left)
    <3>1. ino[id].nlink = 0 => Opened(ks, id)
      BY <1>12, <1>17, <2>2 DEF Dead
    <3>2. Zero(free, ino, next, ks)
      BY <1>15, <3>1 DEF Zero, ZeroBut
    <3>3. Good(ino, next, free, o, cache, ks)
      BY <1>5, <1>9, <1>13, <1>14, <1>16, <3>2 DEF Good
    <3>4. r.ino = ino /\ r.free = free /\ r.cache = cache
      BY <1>18, <2>2 DEF Ram
    <3>5. QED
      BY <3>3, <3>4
  <2>3. QED
    BY <2>1, <2>2
<1>20. ino' = r.ino /\ free' = r.free /\ cache' = r.cache
  BY <1>3, <1>18 DEF Becomes
<1>21. PICK t : t = r.ino
  OBVIOUS
<1>22. Good(t, next', free', opens', cache', handles') /\ ino' = t /\ held' \in (Ids \X Nat) \cup {None}
  BY <1>3, <1>4, <1>8, <1>10, <1>19, <1>20, <1>21 DEF Turned
<1>23. Changed(Entries(ino), Entries(t)) /\ Durable(image', t)
  BY <1>3, <1>4, <1>19, <1>21 DEF Changed, Durable
<1>24. QED
  BY <1>22, <1>23, Ends

----------------------------------------------------------------------------
(* Commits and mounts. *)

LEMMA CommitKeeps ==
  ASSUME IInv, Commit
  PROVE  IInv' /\ TreeStep
<1>1. /\ image' = [ino |-> ino, next |-> next]
      /\ UNCHANGED <<ino, next, free, opens, cache, held, handles>>
  BY DEF Commit
<1>2. Good(ino, next, free, opens, cache, handles) /\ held \in (Ids \X Nat) \cup {None}
  BY DEF IInv
<1>3. next \in 1 .. InodeCap /\ Table(ino, next, {})
  BY <1>2, GoodHas
<1>4. Snap([ino |-> ino, next |-> next])
  BY <1>3, SnapMid
<1>5. Snap(image') /\ image'.ino = ino
  BY <1>1, <1>4
<1>6. Durable(image', ino) /\ Changed(Entries(ino), Entries(ino))
  BY <1>5 DEF Durable, Changed
<1>7. Good(ino, next', free', opens', cache', handles') /\ ino' = ino /\ held' \in (Ids \X Nat) \cup {None}
  BY <1>1, <1>2
<1>8. QED
  BY <1>6, <1>7, Ends

LEMMA SeqNarrow ==
  ASSUME NEW q \in Seq(Nat), \A k \in DOMAIN q : q[k] \in Ids
  PROVE  q \in Seq(Ids)
<1>1. q \in [1 .. Len(q) -> Ids] /\ Len(q) \in Nat
  OBVIOUS
<1>2. QED
  BY <1>1

\* What a mount finds: rebuild_free_inodes takes every slot without links.
LEMMA Mounted ==
  ASSUME Supported, "commit" \in Ops, NEW t, NEW nx \in 1 .. InodeCap, Table(t, nx, {}),
         NEW q, q = ZeroLinks(t, nx), NEW o, o = [id \in Ids |-> 0],
         NEW hs, hs = [h \in Handles |-> None]
  PROVE  Good(t, nx, q, o, <<>>, hs)
<1>1. nx \in Nat /\ InodeCap \in Nat /\ CacheCap \in Nat
  BY NamespaceAssumption
<1>2. Unlinkeds(t, nx, q)
  BY <1>1, ScanFacts
<1>3. /\ Paged(t) /\ Sound(Entries(t), Dirs(t), Links(t), nx, {}) /\ Counted(Entries(t), Dirs(t), Links(t))
      /\ Entries(t) \in SUBSET Bindings
  BY DEF Table, Sound, Forest
<1>4. \A k \in DOMAIN q : q[k] \in Ids /\ q[k] < nx /\ t[q[k]].nlink = 0
  <2>1. \A k \in DOMAIN q : q[k] \in Nat /\ q[k] < nx /\ t[q[k]].nlink = 0
    BY <1>2 DEF Unlinkeds
  <2>2. \A i \in Nat : i < nx => i \in Ids
    BY <1>1 DEF Ids
  <2>3. QED
    BY <2>1, <2>2
<1>5. q \in Seq(Ids)
  BY <1>2, <1>4, SeqNarrow DEF Unlinkeds
<1>6. \A i \in Ids : ~Opened(hs, i) /\ HandlesOn(hs, i) = {}
  BY DEF Opened, HandlesOn
<1>7. \A i \in Ids : Links(t)[i] = t[i].nlink
  BY DEF Links
<1>8. \A i \in Dirs(t) : t[i].nlink # 0
  <2> SUFFICES ASSUME NEW i \in Dirs(t), t[i].nlink = 0 PROVE FALSE
    OBVIOUS
  <2>1. "move_dir" \notin Ops
    BY DEF Supported
  <2>2. PICK j : j = Cardinality(SubdirsIn(Entries(t), Dirs(t), i))
    OBVIOUS
  <2>3. j \in Nat
    BY <1>3, <2>2, SubdirsFinite
  <2>4. i \in Ids /\ Links(t)[i] = 2 + j
    BY <1>3, <2>1, <2>2 DEF Counted, Dirs
  <2>5. t[i].nlink = 2 + j
    BY <1>7, <2>4
  <2>6. QED
    BY <2>3, <2>5
<1>9. \A i \in Ids : i \notin Dirs(t) /\ t[i].nlink = 0 => NamesIn(Entries(t), i) = {}
  <2> SUFFICES ASSUME NEW i \in Ids, i \notin Dirs(t), t[i].nlink = 0 PROVE NamesIn(Entries(t), i) = {}
    OBVIOUS
  <2>1. PICK S : S = NamesIn(Entries(t), i)
    OBVIOUS
  <2>2. Cardinality(S) <= Links(t)[i]
    BY <1>3, <2>1 DEF Counted
  <2>3. IsFiniteSet(S) /\ Cardinality(S) \in Nat
    BY <1>3, <2>1, NamesFinite
  <2>4. Cardinality(S) = 0
    BY <1>7, <2>2, <2>3
  <2>5. S = {}
    BY <2>3, <2>4, FS_EmptySet
  <2>6. QED
    BY <2>1, <2>5
<1>10. Stack(q, t, nx, hs)
  <2>1. \A j, k \in DOMAIN q : q[j] = q[k] => j = k
    BY <1>2 DEF Unlinkeds
  <2>2. QED
    BY <1>4, <1>5, <1>6, <1>8, <1>9, <2>1 DEF Stack
<1>11. Zero(q, t, nx, hs)
  BY <1>2, IdsFacts DEF Zero, Unlinkeds
<1>12. Keeps(t, nx, o, hs)
  <2>1. Cardinality({}) = 0
    BY FS_EmptySet
  <2>2. \A i \in Ids : o[i] = Cardinality(HandlesOn(hs, i))
    BY <1>6, <2>1
  <2>3. QED
    BY <2>2 DEF Keeps
<1>13. Mirrors(<<>>, t, {})
  BY <1>1 DEF Mirrors
<1>14. o \in [Ids -> Nat] /\ hs \in HandlesType
  BY DEF HandlesType
<1>15. QED
  BY <1>10, <1>11, <1>12, <1>13, <1>14 DEF Good

LEMMA RemountKeeps ==
  ASSUME IInv, Supported, Remount
  PROVE  IInv' /\ TreeStep
<1>1. PICK t : t = image.ino
  OBVIOUS
<1>2. PICK nx : nx = image.next
  OBVIOUS
<1>3. /\ "commit" \in Ops /\ ino' = t /\ next' = nx /\ free' = ZeroLinks(t, nx)
      /\ opens' = [id \in Ids |-> 0] /\ cache' = <<>> /\ held' = None
      /\ handles' = [h \in Handles |-> None] /\ image' = image
  BY <1>1, <1>2 DEF Remount
<1>4. Snap(image)
  BY DEF IInv
<1>5. nx \in 1 .. InodeCap /\ Table(t, nx, {})
  BY <1>1, <1>2, <1>4 DEF Snap, Snapshots
<1>6. PICK o : o = [id \in Ids |-> 0]
  OBVIOUS
<1>7. PICK hs : hs = [h \in Handles |-> None]
  OBVIOUS
<1>8. PICK q : q = ZeroLinks(t, nx)
  OBVIOUS
<1>9. Good(t, nx, q, o, <<>>, hs)
  BY <1>3, <1>5, <1>6, <1>7, <1>8, Mounted
<1>10. Good(ino', next', free', opens', cache', handles')
  BY <1>3, <1>6, <1>7, <1>8, <1>9
<1>11. Snap(image') /\ held' \in (Ids \X Nat) \cup {None}
  BY <1>3, <1>4
<1>12. IInv'
  BY <1>10, <1>11, Advance
<1>13. TreeStep
  BY <1>1, <1>3 DEF TreeStep
<1>14. QED
  BY <1>12, <1>13

----------------------------------------------------------------------------
(* format. *)

LEMMA InitHolds ==
  ASSUME Init
  PROVE  IInv /\ Entries(ino) = {} /\ Entries(image.ino) = {}
<1>1. /\ next = 1 /\ free = <<>> /\ opens = [id \in Ids |-> 0] /\ cache = <<>>
      /\ image = [ino |-> ino, next |-> next] /\ held = None /\ handles = [h \in Handles |-> None]
  BY DEF Init
<1>2. InodeCap \in Nat \ {0} /\ CacheCap \in Nat /\ Root \in Ids
  BY NamespaceAssumption, IdsFacts
<1>3. PICK z : z = Blank(0)
  OBVIOUS
<1>4. z \in Inode /\ z.kind = "file" /\ z.nlink = 0 /\ z.pages = <<>>
  BY <1>3 DEF Blank, Inode
<1>5. PICK y : y = [z EXCEPT !.kind = "dir", !.nlink = 2]
  OBVIOUS
<1>6. y \in Inode /\ y.kind = "dir" /\ y.nlink = 2 /\ y.pages = <<>>
  BY <1>4, <1>5 DEF Inode
<1>7. PICK t : t = ino
  OBVIOUS
<1>8. t = [id \in Ids |-> IF id = Root THEN y ELSE z]
  BY <1>3, <1>5, <1>7 DEF Init
<1>9. t \in [Ids -> Inode] /\ \A i \in Ids : t[i].pages = <<>> /\ t[i] = (IF i = Root THEN y ELSE z)
  BY <1>4, <1>6, <1>8
<1>10. Paged(t)
  <2>1. Single(<<>>)
    BY DEF Single
  <2>2. QED
    BY <1>9, <2>1 DEF Paged
<1>11. Entries(t) = {}
  <2>1. DOMAIN <<>> = {}
    OBVIOUS
  <2>2. \A m, j : ~At(<<>>, m, j)
    BY <2>1 DEF At
  <2>3. PICK T : T = {}
    OBVIOUS
  <2>4. Shows(t, T)
    BY <1>9, <2>2, <2>3 DEF Shows
  <2>5. Entries(t) = T
    BY <1>10, <2>4, EntriesAre
  <2>6. QED
    BY <2>3, <2>5
<1>12. Dirs(t) = {Root}
  BY <1>2, <1>4, <1>6, <1>9 DEF Dirs
<1>13. Links(t) \in [Ids -> Nat] /\ \A i \in Ids : Links(t)[i] = IF i = Root THEN 2 ELSE 0
  BY <1>4, <1>6, <1>9 DEF Links
<1>14. Cardinality({}) = 0
  BY FS_EmptySet
<1>15. Sound({}, {Root}, Links(t), 1, {})
  <2>1. Forest({}, {Root}, 1)
    BY <1>2 DEF Forest, Root
  <2>2. Counted({}, {Root}, Links(t))
    <3>1. \A i \in Ids : NamesIn({}, i) = {} /\ SubdirsIn({}, {Root}, i) = {}
      BY DEF NamesIn, SubdirsIn
    <3>2. \A i \in Ids \ {Root} : Cardinality(NamesIn({}, i)) <= Links(t)[i]
      BY <1>13, <1>14, <3>1
    <3>3. \A i \in {Root} : Links(t)[i] = 2 + Cardinality(SubdirsIn({}, {Root}, i))
      <4>1. Cardinality(SubdirsIn({}, {Root}, Root)) = 0
        BY <1>2, <1>14, <3>1
      <4>2. Links(t)[Root] = 2
        BY <1>2, <1>13
      <4>3. PICK k : k = Cardinality(SubdirsIn({}, {Root}, Root))
        OBVIOUS
      <4>4. Links(t)[Root] = 2 + k
        BY <4>1, <4>2, <4>3
      <4>5. QED
        BY <4>3, <4>4
    <3>4. QED
      BY <1>13, <3>2, <3>3 DEF Counted
  <2>3. Exact({}, {Root}, Links(t), 1, {})
    <3>1. \A i \in Ids : NamesIn({}, i) = {}
      BY DEF NamesIn
    <3>2. \A i \in Ids : i \notin {Root} => Cardinality(NamesIn({}, i)) = Links(t)[i]
      BY <1>13, <1>14, <3>1
    <3>3. Root \in Below({}, Root)
      BY <1>2 DEF Below
    <3>4. \A i \in Ids : i < 1 => i = Root
      BY <1>2 DEF Ids, Root
    <3>5. QED
      BY <3>2, <3>3, <3>4 DEF Exact
  <2>4. QED
    BY <2>1, <2>2, <2>3 DEF Sound
<1>16. Table(t, 1, {})
  BY <1>10, <1>11, <1>12, <1>15 DEF Table
<1>17. PICK nx : nx = 1
  OBVIOUS
<1>18. nx \in 1 .. InodeCap /\ Table(t, nx, {})
  BY <1>2, <1>16, <1>17
<1>19. Snap(image) /\ image.ino = t
  <2>1. Snap([ino |-> t, next |-> nx])
    BY <1>18, SnapMid
  <2>2. image = [ino |-> t, next |-> nx]
    BY <1>1, <1>7, <1>17
  <2>3. QED
    BY <2>1, <2>2
<1>20. PICK q : q = <<>>
  OBVIOUS
<1>21. q \in Seq(Ids) /\ DOMAIN q = {}
  BY <1>20
<1>22. PICK hs : hs = [h \in Handles |-> None]
  OBVIOUS
<1>23. Stack(q, t, nx, hs)
  BY <1>21 DEF Stack
<1>24. Zero(q, t, nx, hs)
  <2>1. \A i \in Ids \ Dirs(t) : ~(i < nx)
    BY <1>2, <1>12, <1>17 DEF Ids, Root
  <2>2. QED
    BY <2>1 DEF Zero
<1>25. PICK o : o = [id \in Ids |-> 0]
  OBVIOUS
<1>26. Keeps(t, nx, o, hs)
  <2>1. \A i \in Ids : HandlesOn(hs, i) = {}
    BY <1>22 DEF HandlesOn
  <2>2. \A i \in Ids : o[i] = Cardinality(HandlesOn(hs, i))
    BY <1>14, <1>25, <2>1
  <2>3. \A h \in Handles : hs[h] = None
    BY <1>22
  <2>4. QED
    BY <2>2, <2>3 DEF Keeps
<1>27. Mirrors(<<>>, t, {})
  BY <1>2 DEF Mirrors
<1>28. o \in [Ids -> Nat] /\ hs \in HandlesType
  BY <1>22, <1>25 DEF HandlesType
<1>29. Good(t, nx, q, o, <<>>, hs)
  BY <1>18, <1>23, <1>24, <1>26, <1>27, <1>28 DEF Good
<1>30. Good(ino, next, free, opens, cache, handles)
  BY <1>1, <1>7, <1>17, <1>20, <1>22, <1>25, <1>29
<1>31. IInv
  BY <1>1, <1>19, <1>30 DEF IInv
<1>32. QED
  BY <1>7, <1>11, <1>19, <1>31

----------------------------------------------------------------------------
(* Rename. *)

\* The bindings of other places than name m of directory e.
Elsewhere(T, e, m) == {y \in T : <<y[1], y[2]>> # <<e, m>>}

LEMMA PutEntries ==
  ASSUME NEW t, NEW u, NEW id, NEW in, Puts(t, u, id, in)
  PROVE  \A d, n, i : <<d, n, i>> \in Entries(u) <=>
                        IF d = id THEN At(in.pages, n, i) ELSE <<d, n, i>> \in Entries(t)
<1>1. Paged(u) /\ u[id] = in /\ \A i \in Ids : i # id => u[i] = t[i]
  BY PutFacts
<1>2. Paged(t) /\ id \in Ids
  BY DEF Puts
<1>3. \A d, n, i : <<d, n, i>> \in Entries(u) <=> d \in Ids /\ At(u[d].pages, n, i)
  BY <1>1, EntryIff
<1>4. \A d, n, i : <<d, n, i>> \in Entries(t) <=> d \in Ids /\ At(t[d].pages, n, i)
  BY <1>2, EntryIff
<1>5. QED
  BY <1>1, <1>2, <1>3, <1>4

\* A name is bound to one inode.
LEMMA OneInode ==
  ASSUME NEW t, Paged(t), NEW d, NEW n, NEW i, NEW j, <<d, n, i>> \in Entries(t), <<d, n, j>> \in Entries(t)
  PROVE  i = j
<1>1. d \in Ids /\ At(t[d].pages, n, i) /\ At(t[d].pages, n, j)
  BY EntryIff
<1>2. PICK ps : ps = t[d].pages
  OBVIOUS
<1>3. ps \in Seq(Page) /\ Single(ps)
  BY <1>1, <1>2, InodeFacts DEF Paged
<1>4. At(ps, n, i) /\ At(ps, n, j)
  BY <1>1, <1>2
<1>5. \A x : At(ps, n, x) <=> Has(ps, n) /\ Find(ps, n) = x
  BY <1>3, FindFacts
<1>6. QED
  BY <1>4, <1>5

\* The file that a rename overwrites loses a link before anything is stored.
Overwrites(e, m, k) ==
    /\ Good(ino, next, free, opens, cache, handles) /\ e \in Ids /\ m \in Names
    /\ CanCheckout(e) /\ k = Checkout(e)
    /\ Has(k.pages, m) => ino[Find(k.pages, m)].kind # "dir"

LEMMA OverFacts ==
  ASSUME NEW e, NEW m, NEW k, Overwrites(e, m, k), NEW C, NEW X, Mirrors(C, ino, X),
         NEW r, r = [ino |-> ino, free |-> free, cache |-> C], NEW R, R = Unlinked(r, k, m)
  PROVE  /\ Paged(R.ino) /\ Entries(R.ino) = Entries(ino) /\ Dirs(R.ino) = Dirs(ino)
         /\ Mirrors(R.cache, R.ino, X)
         /\ Sound(Elsewhere(Entries(ino), e, m), Dirs(ino), Links(R.ino), next, {})
         /\ \A i \in Dirs(ino) : R.ino[i] = ino[i]
<1>1. /\ Good(ino, next, free, opens, cache, handles) /\ e \in Ids /\ m \in Names
      /\ CanCheckout(e) /\ k = Checkout(e)
      /\ Has(k.pages, m) => ino[Find(k.pages, m)].kind # "dir"
  BY DEF Overwrites
<1>2. /\ Mirrors(cache, ino, {}) /\ Paged(ino) /\ Sound(Entries(ino), Dirs(ino), Links(ino), next, {})
  BY <1>1, GoodHas
<1>3. CASE Has(k.pages, m)
  <2>1. PICK x : x = Find(k.pages, m)
    OBVIOUS
  <2>2. PICK g : g = Del(k, m)
    OBVIOUS
  <2>3. x \in Ids /\ <<e, m, x>> \in Entries(ino)
    BY <1>1, <1>3, <2>1, <2>2, TakeFacts
  <2>4. PICK b : b = <<e, m, x>>
    OBVIOUS
  <2>5. b \in Entries(ino) /\ b[1] = e /\ b[2] = m /\ b[3] = x
    BY <2>3, <2>4
  <2>6. x \notin Dirs(ino) /\ Links(ino)[x] = ino[x].nlink /\ ino[x].kind # "dir"
    BY <1>1, <1>3, <2>1, <2>3 DEF Dirs, Links
  <2>7. /\ Sound(Entries(ino) \ {b}, Dirs(ino), [Links(ino) EXCEPT ![b[3]] = @ - 1], next, {})
        /\ Links(ino)[b[3]] > 0
    BY <1>2, <2>5, <2>6, SoundUnbind
  <2>8. PICK v : v = Losing(ino, x)
    OBVIOUS
  <2>9. PICK Q : Q = DropLink(r, x, ino[x])
    OBVIOUS
  <2>10. ino[x].nlink > 0
    BY <2>5, <2>6, <2>7
  <2>11. /\ Q.ino = v /\ Mirrors(Q.cache, v, X)
         /\ Paged(v) /\ Entries(v) = Entries(ino) /\ Dirs(v) = Dirs(ino)
         /\ Links(v) = [Links(ino) EXCEPT ![x] = @ - 1]
         /\ \A i \in Ids : i # x => v[i] = ino[i]
    BY <1>2, <2>3, <2>6, <2>8, <2>9, <2>10, LostFacts
  <2>12. R = Q
    BY <1>3, <2>1, <2>9 DEF Unlinked
  <2>13. Elsewhere(Entries(ino), e, m) = Entries(ino) \ {b}
    <3>1. \A y \in Entries(ino) : <<y[1], y[2]>> = <<e, m>> => y = b
      <4> SUFFICES ASSUME NEW y \in Entries(ino), y[1] = e, y[2] = m PROVE y = b
        OBVIOUS
      <4>1. y \in Bindings
        BY <1>2, EntryIff
      <4>2. y = <<e, m, y[3]>>
        BY <4>1 DEF Bindings
      <4>3. PICK j : j = y[3]
        OBVIOUS
      <4>4. <<e, m, j>> \in Entries(ino)
        BY <4>2, <4>3
      <4>5. j = x
        BY <1>2, <2>3, <4>4, OneInode
      <4>6. QED
        BY <2>4, <4>2, <4>3, <4>5
    <3>2. QED
      BY <2>5, <3>1 DEF Elsewhere
  <2>14. Links(v) = [Links(ino) EXCEPT ![b[3]] = @ - 1]
    BY <2>5, <2>11
  <2>15. Sound(Elsewhere(Entries(ino), e, m), Dirs(ino), Links(v), next, {})
    BY <2>7, <2>13, <2>14
  <2>16. \A i \in Dirs(ino) : v[i] = ino[i]
    BY <2>6, <2>11 DEF Dirs
  <2>17. QED
    BY <2>11, <2>12, <2>15, <2>16
<1>4. CASE ~Has(k.pages, m)
  <2>1. R.ino = ino /\ R.cache = C
    BY <1>4 DEF Unlinked
  <2>2. Checkout(e).pages = ino[e].pages
    BY <1>1, <1>2, CheckoutFacts
  <2>3. Elsewhere(Entries(ino), e, m) = Entries(ino)
    <3> SUFFICES ASSUME NEW y \in Entries(ino), y[1] = e, y[2] = m PROVE FALSE
      BY DEF Elsewhere
    <3>1. y \in Bindings
      BY <1>2, EntryIff
    <3>2. y = <<e, m, y[3]>>
      BY <3>1 DEF Bindings
    <3>3. At(ino[e].pages, m, y[3])
      BY <1>2, <3>2, EntryIff
    <3>4. QED
      BY <1>1, <1>4, <2>2, <3>3 DEF At, Has
  <2>4. QED
    BY <1>2, <2>1, <2>3
<1>5. QED
  BY <1>3, <1>4

\* The reuse stack and the handles at the end of the rename.
LEMMA OverRest ==
  ASSUME NEW e, NEW m, NEW k, Overwrites(e, m, k), NEW C, NEW X, Mirrors(C, ino, X),
         NEW r, r = [ino |-> ino, free |-> free, cache |-> C], NEW R, R = Unlinked(r, k, m),
         NEW w, Table(w, next, {}),
         \A i \in Ids : w[i].kind = R.ino[i].kind /\ w[i].gen = R.ino[i].gen,
         \A i \in Ids \ Dirs(ino) : w[i] = R.ino[i],
         \A i \in Ids : NamesIn(Entries(ino), i) = {} => NamesIn(Entries(w), i) = {}
  PROVE  Rest(R.free, w, next, opens, handles)
<1>1. /\ Good(ino, next, free, opens, cache, handles) /\ e \in Ids /\ m \in Names
      /\ CanCheckout(e) /\ k = Checkout(e)
      /\ Has(k.pages, m) => ino[Find(k.pages, m)].kind # "dir"
  BY DEF Overwrites
<1>2. /\ Mirrors(cache, ino, {}) /\ Paged(ino) /\ Sound(Entries(ino), Dirs(ino), Links(ino), next, {})
      /\ Rest(free, ino, next, opens, handles) /\ handles \in HandlesType
  BY <1>1, GoodHas
<1>3. ino \in [Ids -> Inode] /\ w \in [Ids -> Inode]
  BY <1>2 DEF Paged, Table
<1>4. CASE Has(k.pages, m)
  <2>1. PICK x : x = Find(k.pages, m)
    OBVIOUS
  <2>2. PICK g : g = Del(k, m)
    OBVIOUS
  <2>3. x \in Ids /\ <<e, m, x>> \in Entries(ino) /\ x < next /\ \A j \in DOMAIN free : free[j] # x
    BY <1>1, <1>4, <2>1, <2>2, TakeFacts
  <2>4. PICK b : b = <<e, m, x>>
    OBVIOUS
  <2>5. b \in Entries(ino) /\ b[3] = x
    BY <2>3, <2>4
  <2>6. x \notin Dirs(ino) /\ Links(ino)[x] = ino[x].nlink /\ ino[x].kind # "dir"
    BY <1>1, <1>4, <2>1, <2>3 DEF Dirs, Links
  <2>7. Links(ino)[b[3]] > 0
    BY <1>2, <2>5, <2>6, SoundUnbind
  <2>8. PICK v : v = Losing(ino, x)
    OBVIOUS
  <2>9. PICK Q : Q = DropLink(r, x, ino[x])
    OBVIOUS
  <2>10. ino[x].nlink > 0
    BY <2>5, <2>6, <2>7
  <2>11. /\ Q.ino = v /\ Q.free = FreeLost(x)
         /\ v[x] = Slotted(x, ino[x]) /\ \A i \in Ids : i # x => v[i] = ino[i]
    BY <1>2, <2>3, <2>6, <2>8, <2>9, <2>10, LostFacts
  <2>12. R = Q
    BY <1>4, <2>1, <2>9 DEF Unlinked
  <2>13. w[x] = Slotted(x, ino[x])
    BY <2>3, <2>6, <2>11, <2>12
  <2>14. Outside(ino, w, {x})
    <3>1. \A i \in Ids \ {x} : w[i].kind = ino[i].kind /\ w[i].gen = ino[i].gen
      BY <2>11, <2>12
    <3>2. \A i \in Ids \ {x} : ino[i].kind # "dir" => w[i].nlink = ino[i].nlink
      <4> SUFFICES ASSUME NEW i \in Ids \ {x}, ino[i].kind # "dir" PROVE w[i].nlink = ino[i].nlink
        OBVIOUS
      <4>1. i \in Ids \ Dirs(ino)
        BY DEF Dirs
      <4>2. w[i] = R.ino[i]
        BY <4>1
      <4>3. QED
        BY <2>11, <2>12, <4>2
    <3>3. QED
      BY <1>3, <3>1, <3>2 DEF Outside
  <2>15. Rest(FreeLost(x), w, next, opens, handles)
    BY <1>1, <2>3, <2>6, <2>10, <2>13, <2>14, LostRest
  <2>16. QED
    BY <2>11, <2>12, <2>15
<1>5. CASE ~Has(k.pages, m)
  <2>1. R.ino = ino /\ R.free = free
    BY <1>5 DEF Unlinked
  <2>2. Outside(ino, w, {})
    BY <1>3, <2>1 DEF Outside, Dirs
  <2>3. Rest(free, w, next, opens, handles)
    BY <1>2, <2>2, RestSame
  <2>4. QED
    BY <2>1, <2>3
<1>6. QED
  BY <1>4, <1>5

\* The working copy of the destination.
LEMMA PlacedFacts ==
  ASSUME NEW e, NEW m, NEW k, Overwrites(e, m, k), NEW id \in Ids,
         NEW g, g = Add(Cleared(k, m), m, id)
  PROVE  /\ Working(g) /\ g.in = ino[e] /\ ino[e].kind = "dir" /\ g.dirty # {}
         /\ \A q, i : At(g.pages, q, i) <=> (At(ino[e].pages, q, i) /\ q # m) \/ (q = m /\ i = id)
<1>1. Good(ino, next, free, opens, cache, handles) /\ e \in Ids /\ m \in Names
      /\ CanCheckout(e) /\ k = Checkout(e)
  BY DEF Overwrites
<1>2. Mirrors(cache, ino, {}) /\ Paged(ino)
  BY <1>1, GoodHas
<1>3. /\ ino[e].kind = "dir" /\ Working(k) /\ k.in = ino[e] /\ k.pages = ino[e].pages
  BY <1>1, <1>2, CheckoutFacts
<1>4. PICK a : a = Cleared(k, m)
  OBVIOUS
<1>5. Working(a) /\ a.in = ino[e] /\ \A q, i : At(a.pages, q, i) <=> At(ino[e].pages, q, i) /\ q # m
  <2>1. CASE Has(k.pages, m)
    <3>1. a = Del(k, m)
      BY <1>4, <2>1 DEF Cleared
    <3>2. /\ Working(a) /\ a.in = k.in
          /\ \A q, i : At(a.pages, q, i) <=> At(k.pages, q, i) /\ q # m
      BY <1>3, <2>1, <3>1, DelFacts
    <3>3. QED
      BY <1>3, <3>2
  <2>2. CASE ~Has(k.pages, m)
    <3>1. a = k
      BY <1>4, <2>2 DEF Cleared
    <3>2. \A i : ~At(k.pages, m, i)
      BY <2>2 DEF At, Has
    <3>3. QED
      BY <1>3, <3>1, <3>2
  <2>3. QED
    BY <2>1, <2>2
<1>6. ~Has(a.pages, m)
  <2>1. a.pages \in Seq(Page) /\ Single(a.pages)
    BY <1>5 DEF Working, Work
  <2>2. PICK ps : ps = a.pages
    OBVIOUS
  <2>3. \A i : At(ps, m, i) <=> Has(ps, m) /\ Find(ps, m) = i
    BY <2>1, <2>2, FindFacts
  <2>4. \A i : ~At(ps, m, i)
    BY <1>5, <2>2
  <2>5. QED
    BY <2>2, <2>3, <2>4
<1>7. /\ Working(g) /\ g.in = a.in /\ g.dirty = a.dirty \cup {Slot(a.pages)}
      /\ \A q, i : At(g.pages, q, i) <=> At(a.pages, q, i) \/ (q = m /\ i = id)
  BY <1>1, <1>4, <1>5, <1>6, AddFacts
<1>8. QED
  BY <1>3, <1>5, <1>7

\* A rename that takes place, on a device that is not full.
Renames(d, n, e, m, h, k, id) ==
    /\ Overwrites(e, m, k) /\ d \in Ids /\ n \in Names /\ id \in Ids
    /\ CanCheckout(d) /\ h = Checkout(d) /\ Has(h.pages, n) /\ id = Find(h.pages, n)
    /\ ~(Has(k.pages, m) /\ Find(k.pages, m) = id)
    /\ ~Loops(d, id, e)
    /\ ino[id].kind = "dir" /\ d # e => "move_dir" \in Ops
    /\ ~NoSpace

\* The bindings afterwards.
Renamed(T, d, n, e, m, id) == (Elsewhere(T, e, m) \ {<<d, n, id>>}) \cup {<<e, m, id>>}

LEMMA Retree ==
  ASSUME NEW d, NEW n, NEW e, NEW m, NEW h, NEW k, NEW id, Renames(d, n, e, m, h, k, id),
         NEW L, Sound(Elsewhere(Entries(ino), e, m), Dirs(ino), L, next, {})
  PROVE  /\ Sound(Renamed(Entries(ino), d, n, e, m, id), Dirs(ino), L, next, {})
         /\ Changed(Entries(ino), Renamed(Entries(ino), d, n, e, m, id))
         /\ <<d, n, id>> \in Entries(ino) /\ <<e, m, id>> \notin Entries(ino)
         /\ d \in Dirs(ino) /\ e \in Dirs(ino) /\ ~(d = e /\ n = m)
         /\ \A i \in Ids : NamesIn(Entries(ino), i) = {} => NamesIn(Renamed(Entries(ino), d, n, e, m, id), i) = {}
<1>0. PICK U : U = Renamed(Entries(ino), d, n, e, m, id)
  OBVIOUS
<1>1. /\ Good(ino, next, free, opens, cache, handles) /\ e \in Ids /\ m \in Names
      /\ CanCheckout(e) /\ k = Checkout(e) /\ d \in Ids /\ n \in Names /\ id \in Ids
      /\ CanCheckout(d) /\ h = Checkout(d) /\ Has(h.pages, n) /\ id = Find(h.pages, n)
      /\ ~(Has(k.pages, m) /\ Find(k.pages, m) = id) /\ ~Loops(d, id, e)
      /\ ino[id].kind = "dir" /\ d # e => "move_dir" \in Ops
  BY DEF Renames, Overwrites
<1>2. /\ Mirrors(cache, ino, {}) /\ Paged(ino) /\ Sound(Entries(ino), Dirs(ino), Links(ino), next, {})
  BY <1>1, GoodHas
<1>3. PICK T : T = Entries(ino)
  OBVIOUS
<1>4. PICK D : D = Dirs(ino)
  OBVIOUS
<1>5. PICK g : g = Del(h, n)
  OBVIOUS
<1>6. d \in D /\ <<d, n, id>> \in T
  BY <1>1, <1>3, <1>4, <1>5, TakeFacts
<1>7. /\ ino[e].kind = "dir" /\ k.pages = ino[e].pages /\ Working(k)
  BY <1>1, <1>2, CheckoutFacts
<1>8. e \in D
  BY <1>1, <1>4, <1>7 DEF Dirs
<1>9. <<e, m, id>> \notin T
  <2> SUFFICES ASSUME <<e, m, id>> \in T PROVE FALSE
    OBVIOUS
  <2>1. At(k.pages, m, id)
    BY <1>2, <1>3, <1>7, EntryIff
  <2>2. PICK ps : ps = k.pages
    OBVIOUS
  <2>3. ps \in Seq(Page) /\ Single(ps)
    BY <1>7, <2>2 DEF Working, Work
  <2>4. \A i : At(ps, m, i) <=> Has(ps, m) /\ Find(ps, m) = i
    BY <2>3, FindFacts
  <2>5. QED
    BY <1>1, <2>1, <2>2, <2>4
<1>10. PICK b : b = <<d, n, id>>
  OBVIOUS
<1>11. PICK c : c = <<e, m, id>>
  OBVIOUS
<1>12. /\ b \in T /\ b[1] = d /\ b[2] = n /\ b[3] = id
       /\ c \notin T /\ c \in Bindings /\ c[1] = e /\ c[2] = m /\ c[3] = id
  BY <1>1, <1>6, <1>9, <1>10, <1>11 DEF Bindings
<1>13. ~(d = e /\ n = m)
  BY <1>6, <1>9
<1>14. PICK V : V = Elsewhere(T, e, m)
  OBVIOUS
<1>15. V \in SUBSET T /\ b \in V /\ c \notin V /\ U = (V \ {b}) \cup {c}
  <2>1. <<b[1], b[2]>> # <<e, m>>
    BY <1>12, <1>13
  <2>2. QED
    BY <1>0, <1>3, <1>10, <1>11, <1>12, <1>14, <2>1 DEF Elsewhere, Renamed
<1>16. T \in SUBSET Bindings /\ Sound(T, D, Links(ino), next, {}) /\ D \in SUBSET Ids
       /\ \A y \in T : y[1] \notin Below(T, y[3])
  BY <1>2, <1>3, <1>4, SoundHas
<1>17. e \notin Below(T, id)
  <2>1. CASE d = e
    BY <1>12, <1>16, <2>1
  <2>2. CASE d # e /\ ino[id].kind = "dir"
    <3>1. e \notin Subtree(ino, id)
      BY <1>1, <2>2 DEF Loops
    <3>2. Subtree(ino, id) = Below(T, id)
      BY <1>1, <1>2, <1>3, SubtreeFacts
    <3>3. QED
      BY <3>1, <3>2
  <2>3. CASE d # e /\ ino[id].kind # "dir"
    <3>1. id \in Ids \ D
      BY <1>1, <1>4, <2>3 DEF Dirs
    <3>2. QED
      BY <1>8, <1>16, <3>1, FileLeaf
  <2>4. QED
    BY <2>1, <2>2, <2>3
<1>18. e \notin Below(V, id)
  BY <1>1, <1>15, <1>16, <1>17, BelowShrinks
<1>19. MayMove(V, D, b, c)
  <2>1. b[3] \in D /\ "move_dir" \notin Ops => c[1] = b[1]
    BY <1>1, <1>4, <1>12 DEF Dirs
  <2>2. QED
    BY <1>8, <1>12, <1>15, <1>18, <2>1 DEF MayMove
<1>20. Sound(U, D, L, next, {})
  <2>1. Sound(V, D, L, next, {})
    BY <1>3, <1>4, <1>14
  <2>2. Sound((V \ {b}) \cup {c}, D, L, next, {})
    BY <1>19, <2>1, SoundMove
  <2>3. QED
    BY <1>15, <2>2
<1>21. Changed(T, U)
  <2>1. b \in T \ U /\ c \in U \ T
    BY <1>12, <1>15
  <2>2. U = {x \in T \ {b} : <<x[1], x[2]>> # <<c[1], c[2]>>} \cup {c}
    BY <1>12, <1>14, <1>15 DEF Elsewhere
  <2>3. QED
    BY <1>12, <2>1, <2>2 DEF Changed
<1>22. \A i \in Ids : NamesIn(T, i) = {} => NamesIn(U, i) = {}
  BY <1>12, <1>15 DEF NamesIn
<1>23. QED
  BY <1>0, <1>3, <1>4, <1>6, <1>8, <1>9, <1>13, <1>20, <1>21, <1>22

LEMMA RetreeOver ==
  ASSUME NEW d, NEW n, NEW e, NEW m, NEW h, NEW k, NEW id, Renames(d, n, e, m, h, k, id),
         NEW C, NEW X, Mirrors(C, ino, X),
         NEW r, r = [ino |-> ino, free |-> free, cache |-> C], NEW R, R = Unlinked(r, k, m),
         NEW U, U = Renamed(Entries(ino), d, n, e, m, id)
  PROVE  /\ Sound(U, Dirs(ino), Links(R.ino), next, {}) /\ Changed(Entries(ino), U)
         /\ \A i \in Ids : NamesIn(Entries(ino), i) = {} => NamesIn(U, i) = {}
<1>1. Overwrites(e, m, k)
  BY DEF Renames
<1>2. Sound(Elsewhere(Entries(ino), e, m), Dirs(ino), Links(R.ino), next, {})
  BY <1>1, OverFacts
<1>3. PICK L : L = Links(R.ino)
  OBVIOUS
<1>4. Sound(Elsewhere(Entries(ino), e, m), Dirs(ino), L, next, {})
  BY <1>2, <1>3
<1>5. /\ Sound(Renamed(Entries(ino), d, n, e, m, id), Dirs(ino), L, next, {})
      /\ Changed(Entries(ino), Renamed(Entries(ino), d, n, e, m, id))
      /\ \A i \in Ids : NamesIn(Entries(ino), i) = {} => NamesIn(Renamed(Entries(ino), d, n, e, m, id), i) = {}
  BY <1>4, Retree
<1>6. QED
  BY <1>3, <1>5

\* The end of a rename whose table is w, after the overwritten file lost its link.
LEMMA RenameEnds ==
  ASSUME IInv, NEW d, NEW n, NEW e, NEW m, NEW h, NEW k, NEW id, Renames(d, n, e, m, h, k, id),
         NEW C, NEW X, Mirrors(C, ino, X),
         NEW r, r = [ino |-> ino, free |-> free, cache |-> C], NEW R, R = Unlinked(r, k, m),
         NEW w, Paged(w), Entries(w) = Renamed(Entries(ino), d, n, e, m, id),
         Dirs(w) = Dirs(ino), Links(w) = Links(R.ino),
         \A i \in Ids : w[i].kind = R.ino[i].kind /\ w[i].gen = R.ino[i].gen,
         \A i \in Ids \ Dirs(ino) : w[i] = R.ino[i],
         ino' = w, free' = R.free, Mirrors(cache', w, {}), image' = image,
         UNCHANGED <<next, opens, held, handles>>
  PROVE  IInv' /\ TreeStep
<1>1. Overwrites(e, m, k)
  BY DEF Renames
<1>3. PICK U : U = Renamed(Entries(ino), d, n, e, m, id)
  OBVIOUS
<1>5. /\ Sound(U, Dirs(ino), Links(R.ino), next, {}) /\ Changed(Entries(ino), U)
      /\ \A i \in Ids : NamesIn(Entries(ino), i) = {} => NamesIn(U, i) = {}
  BY <1>3, RetreeOver
<1>6. Table(w, next, {})
  BY <1>3, <1>5 DEF Table
<1>7. \A i \in Ids : NamesIn(Entries(ino), i) = {} => NamesIn(Entries(w), i) = {}
  BY <1>3, <1>5
<1>8. Rest(R.free, w, next, opens, handles)
  BY <1>1, <1>6, <1>7, OverRest
<1>9. Good(ino, next, free, opens, cache, handles) /\ Snap(image) /\ held \in (Ids \X Nat) \cup {None}
  BY DEF IInv
<1>10. next \in 1 .. InodeCap /\ opens \in [Ids -> Nat] /\ handles \in HandlesType
  BY <1>9, GoodHas
<1>11. Rest(free', w, next, opens, handles)
  BY <1>8
<1>12. Good(w, next, free', opens, cache', handles)
  BY <1>6, <1>10, <1>11, GoodIs
<1>13. Good(w, next', free', opens', cache', handles') /\ held' \in (Ids \X Nat) \cup {None}
  BY <1>9, <1>12
<1>14. Changed(Entries(ino), Entries(w))
  BY <1>3, <1>5
<1>15. Durable(image', w)
  BY <1>9 DEF Durable
<1>16. QED
  BY <1>13, <1>14, <1>15, Ends

LEMMA SameBindings ==
  ASSUME NEW A \in SUBSET Bindings, NEW B \in SUBSET Bindings,
         \A p, q, i : <<p, q, i>> \in A <=> <<p, q, i>> \in B
  PROVE  A = B
<1>1. \A y \in Bindings : y = <<y[1], y[2], y[3]>>
  BY DEF Bindings
<1>2. QED
  BY <1>1

LEMMA RenamedIs ==
  ASSUME NEW T \in SUBSET Bindings, NEW d, NEW n, NEW e \in Ids, NEW m \in Names, NEW id \in Ids
  PROVE  /\ Renamed(T, d, n, e, m, id) \in SUBSET Bindings
         /\ \A p, q, i : <<p, q, i>> \in Renamed(T, d, n, e, m, id) <=>
               \/ <<p, q, i>> \in T /\ ~(p = e /\ q = m) /\ ~(p = d /\ q = n /\ i = id)
               \/ p = e /\ q = m /\ i = id
<1>1. \A p, q, i : <<p, q, i>> \in Elsewhere(T, e, m) <=> <<p, q, i>> \in T /\ ~(p = e /\ q = m)
  <2>1. \A p, q, i : <<p, q, i>>[1] = p /\ <<p, q, i>>[2] = q
    OBVIOUS
  <2>2. QED
    BY <2>1 DEF Elsewhere
<1>2. <<e, m, id>> \in Bindings /\ Elsewhere(T, e, m) \in SUBSET Bindings
  BY DEF Bindings, Elsewhere
<1>3. QED
  BY <1>1, <1>2 DEF Renamed

LEMMA RamCache ==
  ASSUME NEW c
  PROVE  [Ram EXCEPT !.cache = c] = [ino |-> ino, free |-> free, cache |-> c]
<1>1. PICK R : R = Ram
  OBVIOUS
<1>2. R = [ino |-> ino, free |-> free, cache |-> cache]
  BY <1>1 DEF Ram
<1>3. R \in [ino : {ino}, free : {free}, cache : {cache, c}]
  BY <1>2
<1>4. PICK Q : Q = [R EXCEPT !.cache = c]
  OBVIOUS
<1>5. /\ Q \in [ino : {ino}, free : {free}, cache : {cache, c}]
      /\ Q.ino = R.ino /\ Q.free = R.free /\ Q.cache = c
  BY <1>3, <1>4
<1>6. Q = [ino |-> Q.ino, free |-> Q.free, cache |-> Q.cache]
  BY <1>5
<1>7. QED
  BY <1>1, <1>2, <1>4, <1>5, <1>6

\* The three fields that reclaim changes.
Three(R) == R = [ino |-> R.ino, free |-> R.free, cache |-> R.cache]

LEMMA OverThree ==
  ASSUME NEW C, NEW r, r = [ino |-> ino, free |-> free, cache |-> C], NEW k, NEW m
  PROVE  Three(Unlinked(r, k, m))
<1>1. Three(r)
  BY DEF Three
<1>2. \A x, in : Three(DropLink(r, x, in))
  <2> SUFFICES ASSUME NEW x, NEW in PROVE Three(DropLink(r, x, in))
    OBVIOUS
  <2>1. PICK Q : Q = DropLink(r, x, in)
    OBVIOUS
  <2>2. CASE Less(in.nlink) = 0 /\ opens[x] = 0
    <3>1. Q = Reclaimed(r, x, in.gen)
      BY <2>1, <2>2 DEF DropLink
    <3>2. PICK v : v = [r.ino EXCEPT ![x] = Blank(in.gen + 1)]
      OBVIOUS
    <3>3. PICK q : q = Append(r.free, x)
      OBVIOUS
    <3>4. PICK c : c = Drop(r.cache, x)
      OBVIOUS
    <3>5. Q = [ino |-> v, free |-> q, cache |-> c]
      BY <3>1, <3>2, <3>3, <3>4 DEF Reclaimed
    <3>6. Three(Q)
      BY <3>5 DEF Three
    <3>7. QED
      BY <2>1, <3>6
  <2>3. CASE ~(Less(in.nlink) = 0 /\ opens[x] = 0)
    <3>1. PICK v : v = [r.ino EXCEPT ![x] = Slotted(x, in)]
      OBVIOUS
    <3>2. Q = [r EXCEPT !.ino = v]
      BY <2>1, <2>3, <3>1, DropLinkIs
    <3>3. Q \in [ino : {v}, free : {free}, cache : {C}]
      BY <3>2
    <3>4. Three(Q)
      BY <3>3 DEF Three
    <3>5. QED
      BY <2>1, <3>4
  <2>4. QED
    BY <2>2, <2>3
<1>3. QED
  BY <1>1, <1>2 DEF Unlinked

LEMMA BecomesIs ==
  ASSUME NEW R, Three(R), NEW t, NEW c, Becomes([R EXCEPT !.ino = t, !.cache = c])
  PROVE  ino' = t /\ free' = R.free /\ cache' = c
<1>1. PICK Q : Q = [R EXCEPT !.ino = t, !.cache = c]
  OBVIOUS
<1>2. Q.ino = t /\ Q.free = R.free /\ Q.cache = c
  BY <1>1 DEF Three
<1>3. QED
  BY <1>1, <1>2 DEF Becomes

\* A rename onto m leaves every inode that is not a directory as reclaim left it.
Leaves(k, m) ==
    \E r, R : /\ \E C : r = [ino |-> ino, free |-> free, cache |-> C]
              /\ R = Unlinked(r, k, m)
              /\ free' = R.free /\ image' = image /\ handles' = handles
              /\ Dirs(ino') = Dirs(ino) /\ \A i \in Ids \ Dirs(ino) : ino'[i] = R.ino[i]

LEMMA WithinKeeps ==
  ASSUME IInv, NEW d, NEW n, NEW m, NEW h, NEW id, Renames(d, n, d, m, h, h, id),
         RenameWithin(d, n, m, id), UNCHANGED <<next, opens, held, handles>>
  PROVE  IInv' /\ TreeStep /\ Leaves(h, m)
<1>1. /\ Overwrites(d, m, h) /\ d \in Ids /\ n \in Names /\ m \in Names /\ id \in Ids /\ ~NoSpace
      /\ h = Checkout(d) /\ Good(ino, next, free, opens, cache, handles) /\ CanCheckout(d)
  BY DEF Renames, Overwrites
<1>2. Mirrors(cache, ino, {}) /\ Paged(ino)
  BY <1>1, GoodHas
<1>3. PICK C : C = Drop(cache, d)
  OBVIOUS
<1>4. PICK X : X = {d}
  OBVIOUS
<1>5. Mirrors(C, ino, X)
  <2>1. Mirrors(C, ino, {} \cup {d})
    BY <1>2, <1>3, DropFacts
  <2>2. {} \cup {d} = X
    BY <1>4
  <2>3. QED
    BY <2>1, <2>2
<1>6. PICK r : r = [ino |-> ino, free |-> free, cache |-> C]
  OBVIOUS
<1>7. PICK R : R = Unlinked(r, h, m)
  OBVIOUS
<1>8. /\ Paged(R.ino) /\ Entries(R.ino) = Entries(ino) /\ Dirs(R.ino) = Dirs(ino)
      /\ Mirrors(R.cache, R.ino, X)
      /\ Sound(Elsewhere(Entries(ino), d, m), Dirs(ino), Links(R.ino), next, {})
      /\ \A i \in Dirs(ino) : R.ino[i] = ino[i]
  BY <1>1, <1>5, <1>6, <1>7, OverFacts
<1>9. PICK L : L = Links(R.ino)
  OBVIOUS
<1>10. /\ <<d, n, id>> \in Entries(ino) /\ <<d, m, id>> \notin Entries(ino)
       /\ d \in Dirs(ino) /\ ~(d = d /\ n = m)
  <2>1. Sound(Elsewhere(Entries(ino), d, m), Dirs(ino), L, next, {})
    BY <1>8, <1>9
  <2>2. QED
    BY <2>1, Retree
<1>11. PICK a : a = Add(Cleared(h, m), m, id)
  OBVIOUS
<1>12. /\ Working(a) /\ a.in = ino[d] /\ ino[d].kind = "dir" /\ a.dirty # {}
       /\ \A q, i : At(a.pages, q, i) <=> (At(ino[d].pages, q, i) /\ q # m) \/ (q = m /\ i = id)
  BY <1>1, <1>11, PlacedFacts
<1>13. PICK g : g = Del(a, n)
  OBVIOUS
<1>14. \A p, q, i : <<p, q, i>> \in Entries(ino) <=> p \in Ids /\ At(ino[p].pages, q, i)
  BY <1>2, EntryIff
<1>15. Has(a.pages, n)
  <2>1. At(a.pages, n, id)
    BY <1>1, <1>10, <1>12, <1>14
  <2>2. QED
    BY <2>1 DEF At, Has
<1>16. /\ Working(g) /\ g.in = a.in /\ g.dirty = a.dirty \cup {PageOf(a.pages, n)}
       /\ \A q, i : At(g.pages, q, i) <=> At(a.pages, q, i) /\ q # n
  BY <1>12, <1>13, <1>15, DelFacts
<1>17. Editing(g) /\ g.in = ino[d]
  BY <1>1, <1>12, <1>16 DEF Editing
<1>18. PICK f \in Flushes(R.ino, image, next, d, g) :
             /\ Becomes([R EXCEPT !.ino = f.ino, !.cache = Returned(R.cache, d, g, f.ok)])
             /\ image' = f.image
  <2>1. [Ram EXCEPT !.cache = Drop(@, d)] = r
    <3>1. [Ram EXCEPT !.cache = Drop(@, d)] = [Ram EXCEPT !.cache = C]
      BY <1>3 DEF Ram
    <3>2. QED
      BY <1>6, <3>1, RamCache
  <2>2. QED
    BY <1>1, <1>7, <1>11, <1>13, <2>1 DEF RenameWithin
<1>19. PICK v : v = R.ino
  OBVIOUS
<1>20. PICK c : c = R.cache
  OBVIOUS
<1>21. /\ d \in X /\ Mirrors(c, v, X) /\ Paged(v) /\ f \in Flushes(v, image, next, d, g)
  BY <1>4, <1>8, <1>19, <1>20
<1>22. /\ f.ok \in BOOLEAN
       /\ f.ok => /\ f.ino = Stored(v, d, g)
                  /\ Mirrors(Returned(c, d, g, f.ok), f.ino, X \ {d})
       /\ ~f.ok => /\ f.ino = v /\ NoSpace
                   /\ Mirrors(Returned(c, d, g, f.ok), f.ino, X)
       /\ f.image \in {image, [ino |-> v, next |-> next]}
       /\ ~NoSpace => f.image = image /\ f.ok
  BY <1>1, <1>17, <1>21, Storing
<1>23. PICK w : w = Stored(v, d, g)
  OBVIOUS
<1>24. f.ino = w /\ f.image = image /\ Mirrors(Returned(c, d, g, f.ok), w, X \ {d})
  BY <1>1, <1>22, <1>23
<1>25. Mirrors(Returned(c, d, g, f.ok), w, {})
  BY <1>24, MirrorsLess
<1>26. ino' = w /\ free' = R.free /\ cache' = Returned(c, d, g, f.ok) /\ image' = image
  <2>1. Three(R)
    BY <1>6, <1>7, OverThree
  <2>2. PICK cc : cc = Returned(c, d, g, f.ok)
    OBVIOUS
  <2>3. Becomes([R EXCEPT !.ino = w, !.cache = cc])
    BY <1>18, <1>20, <1>24, <2>2
  <2>4. ino' = w /\ free' = R.free /\ cache' = cc
    BY <2>1, <2>3, BecomesIs
  <2>5. QED
    BY <1>18, <1>24, <2>2, <2>4
<1>27. v[d] = ino[d]
  BY <1>8, <1>10, <1>19
<1>28. /\ Puts(v, w, d, Filled(g)) /\ Paged(w) /\ Dirs(w) = Dirs(v) /\ Links(w) = Links(v)
       /\ w[d].gen = g.in.gen /\ w[d].kind = "dir" /\ \A i \in Ids : i # d => w[i] = v[i]
  BY <1>1, <1>12, <1>17, <1>21, <1>23, <1>27, StoredSame
<1>29. Entries(w) = Renamed(Entries(ino), d, n, d, m, id)
  <2>1. PICK in : in = Filled(g)
    OBVIOUS
  <2>2. in.pages = g.pages
    BY <1>1, <1>17, <1>21, <2>1, StoredFacts DEF Editing
  <2>3. \A p, q, i : <<p, q, i>> \in Entries(w) <=>
                        IF p = d THEN At(in.pages, q, i) ELSE <<p, q, i>> \in Entries(v)
    <3>1. Puts(v, w, d, in)
      BY <1>28, <2>1
    <3>2. QED
      BY <3>1, PutEntries
  <2>4. PICK T : T = Entries(ino)
    OBVIOUS
  <2>5. T \in SUBSET Bindings
    BY <1>2, <2>4, EntryIff
  <2>6. PICK U : U = Renamed(T, d, n, d, m, id)
    OBVIOUS
  <2>7. /\ U \in SUBSET Bindings
        /\ \A p, q, i : <<p, q, i>> \in U <=>
              \/ <<p, q, i>> \in T /\ ~(p = d /\ q = m) /\ ~(p = d /\ q = n /\ i = id)
              \/ p = d /\ q = m /\ i = id
    BY <1>1, <2>5, <2>6, RenamedIs
  <2>8. \A p, q, i : <<p, q, i>> \in Entries(w) <=>
           IF p = d THEN ((<<d, q, i>> \in T /\ q # m) \/ (q = m /\ i = id)) /\ q # n
           ELSE <<p, q, i>> \in T
    BY <1>1, <1>8, <1>12, <1>14, <1>16, <1>19, <2>2, <2>3, <2>4
  <2>9. \A i : <<d, n, i>> \in T => i = id
    BY <1>2, <1>10, <2>4, OneInode
  <2>10. \A p, q, i : <<p, q, i>> \in Entries(w) <=> <<p, q, i>> \in U
    <3>1. n # m
      BY <1>10
    <3>2. \A q, i : <<d, q, i>> \in Entries(w) <=> <<d, q, i>> \in U
      BY <2>7, <2>8, <2>9, <3>1
    <3>3. \A p, q, i : p # d => (<<p, q, i>> \in Entries(w) <=> <<p, q, i>> \in U)
      BY <2>7, <2>8
    <3>4. QED
      BY <3>2, <3>3
  <2>11. Entries(w) \in SUBSET Bindings
    BY <1>28, EntryIff
  <2>12. Entries(w) = U
    BY <2>7, <2>10, <2>11, SameBindings
  <2>13. QED
    BY <2>4, <2>6, <2>12
<1>30. \A i \in Ids : w[i].kind = R.ino[i].kind /\ w[i].gen = R.ino[i].gen
  BY <1>12, <1>17, <1>19, <1>27, <1>28
<1>31. \A i \in Ids \ Dirs(ino) : w[i] = R.ino[i]
  BY <1>10, <1>19, <1>28
<1>32. Dirs(w) = Dirs(ino) /\ Links(w) = Links(R.ino) /\ Mirrors(cache', w, {})
  BY <1>8, <1>19, <1>25, <1>26, <1>28
<1>33. Leaves(h, m)
  BY <1>6, <1>7, <1>26, <1>31, <1>32 DEF Leaves
<1>34. IInv' /\ TreeStep
  BY <1>5, <1>6, <1>7, <1>26, <1>28, <1>29, <1>30, <1>31, <1>32, RenameEnds
<1>35. QED
  BY <1>33, <1>34

\* The names once both directories are stored.
LEMMA AcrossNames ==
  ASSUME NEW d, NEW n, NEW e, NEW m, NEW h, NEW k, NEW id, Renames(d, n, e, m, h, k, id), d # e,
         <<d, n, id>> \in Entries(ino),
         NEW v, Paged(v), Entries(v) = Entries(ino),
         NEW a, Puts(v, a[1], e, a[2]),
         \A q, i : At(a[2].pages, q, i) <=> (At(ino[e].pages, q, i) /\ q # m) \/ (q = m /\ i = id),
         NEW b, Puts(a[1], b[1], d, b[2]),
         \A q, i : At(b[2].pages, q, i) <=> At(ino[d].pages, q, i) /\ q # n
  PROVE  Entries(b[1]) = Renamed(Entries(ino), d, n, e, m, id)
<1>1. PICK y : y = a[1]
  OBVIOUS
<1>2. PICK w : w = b[1]
  OBVIOUS
<1>3. PICK p1 : p1 = a[2]
  OBVIOUS
<1>4. PICK p2 : p2 = b[2]
  OBVIOUS
<1>5. Puts(v, y, e, p1) /\ Puts(y, w, d, p2)
  BY <1>1, <1>2, <1>3, <1>4
<1>6. \A p, q, i : <<p, q, i>> \in Entries(y) <=>
                     IF p = e THEN At(p1.pages, q, i) ELSE <<p, q, i>> \in Entries(v)
  BY <1>5, PutEntries
<1>7. \A p, q, i : <<p, q, i>> \in Entries(w) <=>
                     IF p = d THEN At(p2.pages, q, i) ELSE <<p, q, i>> \in Entries(y)
  BY <1>5, PutEntries
<1>8. Overwrites(e, m, k) /\ d \in Ids /\ id \in Ids
  BY DEF Renames
<1>9. Good(ino, next, free, opens, cache, handles) /\ e \in Ids /\ m \in Names
  BY <1>8 DEF Overwrites
<1>10. Paged(ino)
  BY <1>9, GoodHas
<1>11. PICK T : T = Entries(ino)
  OBVIOUS
<1>12. /\ T \in SUBSET Bindings
       /\ \A p, q, i : <<p, q, i>> \in T <=> p \in Ids /\ At(ino[p].pages, q, i)
  BY <1>10, <1>11, EntryIff
<1>13. \A q, i : At(p1.pages, q, i) <=> (<<e, q, i>> \in T /\ q # m) \/ (q = m /\ i = id)
  BY <1>3, <1>9, <1>12
<1>14. \A q, i : At(p2.pages, q, i) <=> <<d, q, i>> \in T /\ q # n
  BY <1>4, <1>8, <1>12
<1>15. PICK U : U = Renamed(T, d, n, e, m, id)
  OBVIOUS
<1>16. /\ U \in SUBSET Bindings
       /\ \A p, q, i : <<p, q, i>> \in U <=>
             \/ <<p, q, i>> \in T /\ ~(p = e /\ q = m) /\ ~(p = d /\ q = n /\ i = id)
             \/ p = e /\ q = m /\ i = id
  BY <1>8, <1>9, <1>12, <1>15, RenamedIs
<1>17. \A i : <<d, n, i>> \in T => i = id
  BY <1>10, <1>11, OneInode
<1>18. \A q, i : <<d, q, i>> \in Entries(w) <=> <<d, q, i>> \in U
  BY <1>7, <1>14, <1>16, <1>17
<1>19. \A q, i : <<e, q, i>> \in Entries(w) <=> <<e, q, i>> \in U
  BY <1>6, <1>7, <1>13, <1>16
<1>20. \A p, q, i : p # d /\ p # e => (<<p, q, i>> \in Entries(w) <=> <<p, q, i>> \in U)
  BY <1>6, <1>7, <1>11, <1>16
<1>21. \A p, q, i : <<p, q, i>> \in Entries(w) <=> <<p, q, i>> \in U
  BY <1>18, <1>19, <1>20
<1>22. Entries(w) \in SUBSET Bindings
  <2>1. Paged(w)
    BY <1>5, PutFacts
  <2>2. QED
    BY <2>1, EntryIff
<1>23. Entries(w) = U
  BY <1>16, <1>21, <1>22, SameBindings
<1>24. QED
  BY <1>2, <1>11, <1>15, <1>23

LEMMA AcrossKeeps ==
  ASSUME IInv, NEW d, NEW n, NEW e, NEW m, NEW h, NEW k, NEW id, Renames(d, n, e, m, h, k, id),
         d # e, RenameAcross(d, n, e, m, id), UNCHANGED <<next, opens, held, handles>>
  PROVE  IInv' /\ TreeStep /\ Leaves(k, m)
<1>1. /\ Overwrites(e, m, k) /\ d \in Ids /\ e \in Ids /\ n \in Names /\ m \in Names /\ id \in Ids
      /\ ~NoSpace /\ h = Checkout(d) /\ k = Checkout(e)
      /\ Good(ino, next, free, opens, cache, handles)
      /\ CanCheckout(d) /\ CanCheckout(e) /\ Has(h.pages, n) /\ id = Find(h.pages, n)
  BY DEF Renames, Overwrites
<1>2. Mirrors(cache, ino, {}) /\ Paged(ino)
  BY <1>1, GoodHas
<1>3. PICK C : C = Drop(Drop(cache, d), e)
  OBVIOUS
<1>4. PICK X : X = {d, e}
  OBVIOUS
<1>5. Mirrors(C, ino, X)
  <2>1. PICK B : B = Drop(cache, d)
    OBVIOUS
  <2>2. PICK Y : Y = {} \cup {d}
    OBVIOUS
  <2>3. Mirrors(B, ino, Y)
    BY <1>2, <2>1, <2>2, DropFacts
  <2>4. Mirrors(Drop(B, e), ino, Y \cup {e})
    BY <2>3, DropFacts
  <2>5. Y \cup {e} = X
    BY <1>4, <2>2
  <2>6. QED
    BY <1>3, <2>1, <2>4, <2>5
<1>6. PICK r : r = [ino |-> ino, free |-> free, cache |-> C]
  OBVIOUS
<1>7. PICK R : R = Unlinked(r, k, m)
  OBVIOUS
<1>8. /\ Paged(R.ino) /\ Entries(R.ino) = Entries(ino) /\ Dirs(R.ino) = Dirs(ino)
      /\ Mirrors(R.cache, R.ino, X)
      /\ Sound(Elsewhere(Entries(ino), e, m), Dirs(ino), Links(R.ino), next, {})
      /\ \A i \in Dirs(ino) : R.ino[i] = ino[i]
  BY <1>1, <1>5, <1>6, <1>7, OverFacts
<1>9. PICK L : L = Links(R.ino)
  OBVIOUS
<1>10. /\ <<d, n, id>> \in Entries(ino) /\ d \in Dirs(ino) /\ e \in Dirs(ino)
  <2>1. Sound(Elsewhere(Entries(ino), e, m), Dirs(ino), L, next, {})
    BY <1>8, <1>9
  <2>2. QED
    BY <2>1, Retree
<1>11. PICK a : a = Add(Cleared(k, m), m, id)
  OBVIOUS
<1>12. /\ Working(a) /\ a.in = ino[e] /\ ino[e].kind = "dir" /\ a.dirty # {}
       /\ \A q, i : At(a.pages, q, i) <=> (At(ino[e].pages, q, i) /\ q # m) \/ (q = m /\ i = id)
  BY <1>1, <1>11, PlacedFacts
<1>13. Editing(a)
  BY <1>1, <1>12 DEF Editing
<1>14. PICK g : g = Del(h, n)
  OBVIOUS
<1>15. Editing(g) /\ g.in = ino[d] /\ ino[d].kind = "dir"
  <2>1. /\ Good(ino, next, free, opens, cache, handles) /\ d \in Ids /\ CanCheckout(d)
        /\ h = Checkout(d) /\ Has(h.pages, n) /\ id = Find(h.pages, n) /\ g = Del(h, n)
    BY <1>1, <1>14
  <2>2. Editing(g)
    BY <2>1, TakeEdits
  <2>3. g.in = ino[d]
    <3>1. Working(h) /\ h.in = ino[d]
      BY <1>1, <1>2, CheckoutFacts
    <3>2. g.in = h.in
      BY <2>1, <3>1, DelFacts
    <3>3. QED
      BY <3>1, <3>2
  <2>4. ino[d].kind = "dir"
    BY <2>1, TakeEdits
  <2>5. QED
    BY <2>2, <2>3, <2>4
<1>16. \A q, i : At(g.pages, q, i) <=> At(ino[d].pages, q, i) /\ q # n
  <2>1. Working(h) /\ h.pages = ino[d].pages
    BY <1>1, <1>2, CheckoutFacts
  <2>2. \A q, i : At(g.pages, q, i) <=> At(h.pages, q, i) /\ q # n
    BY <1>1, <1>14, <2>1, DelFacts
  <2>3. QED
    BY <2>1, <2>2
<1>17. StoreTwo(R, e, a, d, g)
  <2>1. [Ram EXCEPT !.cache = Drop(Drop(@, d), e)] = r
    <3>1. [Ram EXCEPT !.cache = Drop(Drop(@, d), e)] = [Ram EXCEPT !.cache = C]
      BY <1>3 DEF Ram
    <3>2. QED
      BY <1>6, <3>1, RamCache
  <2>2. QED
    BY <1>1, <1>7, <1>11, <1>14, <2>1 DEF RenameAcross, StoreRenamed
<1>18. PICK v : v = R.ino
  OBVIOUS
<1>19. PICK c : c = R.cache
  OBVIOUS
<1>20. PICK y : y = Stored(v, e, a)
  OBVIOUS
<1>21. PICK w : w = Stored(y, d, g)
  OBVIOUS
<1>22. \A f \in Flushes(v, image, next, e, a) :
          f.ok = TRUE /\ f.ino = y /\ f.image = image /\ Mirrors(Returned(c, e, a, TRUE), y, X \ {e})
  <2> SUFFICES ASSUME NEW f \in Flushes(v, image, next, e, a)
               PROVE  /\ f.ok = TRUE /\ f.ino = y /\ f.image = image
                      /\ Mirrors(Returned(c, e, a, TRUE), y, X \ {e})
    OBVIOUS
  <2>1. e \in X /\ Mirrors(c, v, X) /\ Paged(v)
    BY <1>4, <1>8, <1>18, <1>19
  <2>2. /\ f.ok \in BOOLEAN
        /\ f.ok => /\ f.ino = Stored(v, e, a)
                   /\ Mirrors(Returned(c, e, a, f.ok), f.ino, X \ {e})
        /\ ~NoSpace => f.image = image /\ f.ok
    BY <1>1, <1>13, <2>1, Storing
  <2>3. f.ok = TRUE
    BY <1>1, <2>2
  <2>4. QED
    BY <1>1, <1>20, <2>2, <2>3
<1>23. PICK c1 : c1 = Returned(c, e, a, TRUE)
  OBVIOUS
<1>24. PICK f \in Flushes(v, image, next, e, a) :
          /\ f.ok
          /\ \E z \in Flushes(f.ino, f.image, next, d, g) :
                /\ Becomes([R EXCEPT !.ino = z.ino, !.cache = Returned(Returned(@, e, a, TRUE), d, g, z.ok)])
                /\ image' = z.image
  BY <1>17, <1>18, <1>22 DEF StoreTwo
<1>25. f.ino = y /\ f.image = image /\ Mirrors(c1, y, X \ {e})
  BY <1>22, <1>23
<1>26. PICK z \in Flushes(y, image, next, d, g) :
          /\ Becomes([R EXCEPT !.ino = z.ino, !.cache = Returned(c1, d, g, z.ok)])
          /\ image' = z.image
  BY <1>19, <1>23, <1>24, <1>25
<1>27. /\ v[e] = ino[e] /\ v[d] = ino[d]
  BY <1>8, <1>10, <1>18
<1>28. /\ Puts(v, y, e, Filled(a)) /\ Paged(y) /\ Dirs(y) = Dirs(v) /\ Links(y) = Links(v)
       /\ y[e].gen = a.in.gen /\ y[e].kind = "dir" /\ \A i \in Ids : i # e => y[i] = v[i]
  <2>1. Paged(v) /\ a.in.nlink = v[e].nlink /\ v[e].kind = "dir"
    BY <1>8, <1>12, <1>18, <1>27
  <2>2. QED
    BY <1>1, <1>13, <1>20, <2>1, StoredSame
<1>29. y[d] = ino[d]
  BY <1>1, <1>27, <1>28
<1>30. /\ Puts(y, w, d, Filled(g)) /\ Paged(w) /\ Dirs(w) = Dirs(y) /\ Links(w) = Links(y)
       /\ w[d].gen = g.in.gen /\ w[d].kind = "dir" /\ \A i \in Ids : i # d => w[i] = y[i]
  <2>1. Paged(y) /\ g.in.nlink = y[d].nlink /\ y[d].kind = "dir"
    BY <1>15, <1>28, <1>29
  <2>2. QED
    BY <1>1, <1>15, <1>21, <2>1, StoredSame
<1>31. /\ z.ino = w /\ z.image = image /\ Mirrors(Returned(c1, d, g, z.ok), w, {})
  <2>1. PICK Y : Y = X \ {e}
    OBVIOUS
  <2>2. d \in Y /\ Mirrors(c1, y, Y) /\ Paged(y)
    BY <1>4, <1>25, <1>28, <2>1
  <2>3. /\ z.ok \in BOOLEAN
        /\ z.ok => /\ z.ino = Stored(y, d, g)
                   /\ Mirrors(Returned(c1, d, g, z.ok), z.ino, Y \ {d})
        /\ ~NoSpace => z.image = image /\ z.ok
    BY <1>1, <1>15, <2>2, Storing
  <2>4. z.ino = w /\ z.image = image /\ Mirrors(Returned(c1, d, g, z.ok), w, Y \ {d})
    BY <1>1, <1>21, <2>3
  <2>5. QED
    BY <2>4, MirrorsLess
<1>32. ino' = w /\ free' = R.free /\ cache' = Returned(c1, d, g, z.ok) /\ image' = image
  <2>1. Three(R)
    BY <1>6, <1>7, OverThree
  <2>2. PICK cc : cc = Returned(c1, d, g, z.ok)
    OBVIOUS
  <2>3. Becomes([R EXCEPT !.ino = w, !.cache = cc])
    BY <1>26, <1>31, <2>2
  <2>4. ino' = w /\ free' = R.free /\ cache' = cc
    BY <2>1, <2>3, BecomesIs
  <2>5. QED
    BY <1>26, <1>31, <2>2, <2>4
<1>33. Entries(w) = Renamed(Entries(ino), d, n, e, m, id)
  <2>1. PICK p : p = <<y, Filled(a)>>
    OBVIOUS
  <2>2. PICK q : q = <<w, Filled(g)>>
    OBVIOUS
  <2>3. p[1] = y /\ p[2] = Filled(a) /\ q[1] = w /\ q[2] = Filled(g)
    BY <2>1, <2>2
  <2>4. Filled(a).pages = a.pages /\ Filled(g).pages = g.pages
    BY <1>1, <1>8, <1>13, <1>15, <1>18, <1>28, StoredFacts DEF Editing
  <2>5. Paged(v) /\ Entries(v) = Entries(ino) /\ Puts(v, p[1], e, p[2]) /\ Puts(p[1], q[1], d, q[2])
    BY <1>8, <1>18, <1>28, <1>30, <2>3
  <2>6. \A x, i : At(p[2].pages, x, i) <=> (At(ino[e].pages, x, i) /\ x # m) \/ (x = m /\ i = id)
    BY <1>12, <2>3, <2>4
  <2>7. \A x, i : At(q[2].pages, x, i) <=> At(ino[d].pages, x, i) /\ x # n
    BY <1>16, <2>3, <2>4
  <2>8. Entries(q[1]) = Renamed(Entries(ino), d, n, e, m, id)
    BY <1>10, <2>5, <2>6, <2>7, AcrossNames
  <2>9. QED
    BY <2>3, <2>8
<1>34. \A i \in Ids : w[i].kind = R.ino[i].kind /\ w[i].gen = R.ino[i].gen
  BY <1>12, <1>15, <1>18, <1>27, <1>28, <1>30
<1>35. \A i \in Ids \ Dirs(ino) : w[i] = R.ino[i]
  BY <1>10, <1>18, <1>28, <1>30
<1>36. Dirs(w) = Dirs(ino) /\ Links(w) = Links(R.ino) /\ Mirrors(cache', w, {})
  BY <1>8, <1>18, <1>28, <1>30, <1>31, <1>32
<1>37. Leaves(k, m)
  BY <1>6, <1>7, <1>32, <1>35, <1>36 DEF Leaves
<1>38. IInv' /\ TreeStep
  BY <1>5, <1>6, <1>7, <1>30, <1>32, <1>33, <1>34, <1>35, <1>36, RenameEnds
<1>39. QED
  BY <1>37, <1>38

\* What a rename onto m of e does to the inodes: nothing, or what Leaves says.
RenameShape(e, m) ==
    \/ UNCHANGED <<ino, free, handles, image>>
    \/ \E k : Overwrites(e, m, k) /\ Leaves(k, m)

LEMMA RenameKeeps ==
  ASSUME IInv, Supported, NEW d \in Ids, NEW n \in Names, NEW e \in Ids, NEW m \in Names,
         Rename(d, n, e, m)
  PROVE  IInv' /\ TreeStep /\ RenameShape(e, m)
<1>1. PICK h : h = Checkout(d)
  OBVIOUS
<1>2. PICK k : k = Checkout(e)
  OBVIOUS
<1>3. PICK id : id = Find(h.pages, n)
  OBVIOUS
<1>4. PICK self : self = (Has(k.pages, m) /\ Find(k.pages, m) = id)
  OBVIOUS
<1>5. PICK moves : moves = (Has(h.pages, n) /\ ~Loops(d, id, e) /\ CanCheckout(e))
  OBVIOUS
<1>6. /\ CanCheckout(d)
      /\ IF Has(h.pages, n) THEN RenameOps(d, id, e, m) \subseteq Ops ELSE "rename" \in Ops
      /\ \/ ~moves /\ Fails(d)
         \/ moves /\ self /\ cache' = Drop(Drop(cache, d), e) /\ NoChange
         \/ /\ moves /\ ~self /\ d = e /\ RenameWithin(d, n, m, id)
            /\ UNCHANGED <<next, opens, held, handles>>
         \/ /\ moves /\ ~self /\ d # e /\ RenameAcross(d, n, e, m, id)
            /\ UNCHANGED <<next, opens, held, handles>>
  BY <1>1, <1>2, <1>3, <1>4, <1>5 DEF Rename
<1>7. /\ Good(ino, next, free, opens, cache, handles) /\ held \in (Ids \X Nat) \cup {None}
  BY DEF IInv
<1>8. Mirrors(cache, ino, {}) /\ Paged(ino)
  BY <1>7, GoodHas
<1>9. CASE ~moves /\ Fails(d)
  <2>1. RenameShape(e, m)
    BY <1>9 DEF RenameShape, Fails, NoChange
  <2>2. QED
    BY <1>9, <2>1, FailsKeeps
<1>10. CASE moves /\ self /\ cache' = Drop(Drop(cache, d), e) /\ NoChange
  <2>1. PICK B : B = Drop(cache, d)
    OBVIOUS
  <2>2. PICK Y : Y = {} \cup {d}
    OBVIOUS
  <2>3. Mirrors(B, ino, Y)
    BY <1>8, <2>1, <2>2, DropFacts
  <2>4. PICK Z : Z = Y \cup {e}
    OBVIOUS
  <2>5. PICK D : D = Drop(B, e)
    OBVIOUS
  <2>6. Mirrors(D, ino, Z)
    BY <2>3, <2>4, <2>5, DropFacts
  <2>7. Mirrors(D, ino, {})
    BY <2>6, MirrorsLess
  <2>8. Mirrors(cache', ino, {})
    BY <1>10, <2>1, <2>5, <2>7
  <2>9. UNCHANGED <<ino, next, free, opens, image, handles>> /\ held' \in (Ids \X Nat) \cup {None}
    BY <1>7, <1>10 DEF NoChange
  <2>10. IInv' /\ TreeStep
    BY <2>8, <2>9, CacheOnly
  <2>11. QED
    BY <2>9, <2>10 DEF RenameShape
<1>11. CASE moves /\ ~self /\ UNCHANGED <<next, opens, held, handles>>
            /\ IF d = e THEN RenameWithin(d, n, m, id) ELSE RenameAcross(d, n, e, m, id)
  <2>1. /\ Has(h.pages, n) /\ ~Loops(d, id, e) /\ CanCheckout(e)
        /\ ~(Has(k.pages, m) /\ Find(k.pages, m) = id)
    BY <1>4, <1>5, <1>11
  <2>2. RenameOps(d, id, e, m) \subseteq Ops
    BY <1>6, <2>1
  <2>3. "rename" \in Ops
    BY <2>2 DEF RenameOps
  <2>4. ino[id].kind = "dir" /\ d # e => "move_dir" \in Ops
    BY <2>2 DEF RenameOps
  <2>5. ~NoSpace
    BY <2>3 DEF Supported
  <2>6. id \in Ids
    <3>1. PICK g : g = Del(h, n)
      OBVIOUS
    <3>2. /\ Good(ino, next, free, opens, cache, handles) /\ d \in Ids /\ CanCheckout(d)
          /\ h = Checkout(d) /\ Has(h.pages, n) /\ id = Find(h.pages, n) /\ g = Del(h, n)
      BY <1>1, <1>3, <1>6, <1>7, <2>1, <3>1
    <3>3. QED
      BY <3>2, TakeEdits
  <2>7. ASSUME Has(k.pages, m)
        PROVE  ino[Find(k.pages, m)].kind # "dir"
    <3>1. PICK x : x = Find(k.pages, m)
      OBVIOUS
    <3>2. PICK g : g = Del(k, m)
      OBVIOUS
    <3>3. /\ Good(ino, next, free, opens, cache, handles) /\ e \in Ids /\ CanCheckout(e)
          /\ k = Checkout(e) /\ Has(k.pages, m) /\ x = Find(k.pages, m) /\ g = Del(k, m)
      BY <1>2, <1>7, <2>1, <2>7, <3>1, <3>2
    <3>4. <<e, m, x>> \in Entries(ino)
      BY <3>3, TakeEdits
    <3>5. SUFFICES ASSUME ino[x].kind = "dir" PROVE FALSE
      BY <3>1
    <3>6. \E y \in Entries(ino) : y[1] = e /\ y[2] = m /\ ino[y[3]].kind = "dir"
      BY <3>4, <3>5
    <3>7. "replace_dir" \in Ops
      BY <2>2, <3>6 DEF RenameOps
    <3>8. QED
      BY <3>7 DEF Supported
  <2>8. Overwrites(e, m, k)
    BY <1>2, <1>7, <2>1, <2>7 DEF Overwrites
  <2>9. Renames(d, n, e, m, h, k, id)
    BY <1>1, <1>3, <1>6, <2>1, <2>4, <2>5, <2>6, <2>8 DEF Renames
  <2>10. CASE d = e
    <3>1. h = k
      BY <1>1, <1>2, <2>10
    <3>2. Renames(d, n, d, m, h, h, id)
      BY <2>9, <2>10, <3>1
    <3>3. RenameWithin(d, n, m, id) /\ UNCHANGED <<next, opens, held, handles>>
      BY <1>11, <2>10
    <3>4. IInv' /\ TreeStep /\ Leaves(h, m)
      BY <3>2, <3>3, WithinKeeps
    <3>5. QED
      BY <2>8, <3>1, <3>4 DEF RenameShape
  <2>11. CASE d # e
    <3>1. RenameAcross(d, n, e, m, id) /\ UNCHANGED <<next, opens, held, handles>>
      BY <1>11, <2>11
    <3>2. IInv' /\ TreeStep /\ Leaves(k, m)
      BY <2>9, <2>11, <3>1, AcrossKeeps
    <3>3. QED
      BY <2>8, <3>2 DEF RenameShape
  <2>12. QED
    BY <2>10, <2>11
<1>12. QED
  BY <1>6, <1>9, <1>10, <1>11

----------------------------------------------------------------------------
(* Every step. *)

LEMMA Step ==
  ASSUME IInv, Supported, [Next]_vars
  PROVE  IInv' /\ (TreeStep \/ UNCHANGED vars)
<1>1. CASE UNCHANGED vars
  BY <1>1 DEF vars, IInv
<1>2. ASSUME NEW d \in Ids, NEW n \in Names,
             \/ Lookup(d, n) \/ Symlink(d, n) \/ Unlink(d, n) \/ Rmdir(d, n)
             \/ \E kind \in {"file", "dir"} : Create(d, n, kind)
             \/ \E id \in Ids : Link(d, n, id)
             \/ \E e \in Ids, m \in Names : Rename(d, n, e, m)
      PROVE  IInv' /\ TreeStep
  <2>1. CASE Lookup(d, n)
    BY <2>1, LookupKeeps
  <2>2. CASE Symlink(d, n)
    BY <2>2, SymlinkKeeps
  <2>3. CASE Unlink(d, n)
    BY <2>3, UnlinkKeeps
  <2>4. CASE Rmdir(d, n)
    BY <2>4, RmdirKeeps
  <2>5. ASSUME NEW kind \in {"file", "dir"}, Create(d, n, kind) PROVE IInv' /\ TreeStep
    BY <2>5, CreateKeeps
  <2>6. ASSUME NEW id \in Ids, Link(d, n, id) PROVE IInv' /\ TreeStep
    BY <2>6, LinkKeeps
  <2>7. ASSUME NEW e \in Ids, NEW m \in Names, Rename(d, n, e, m) PROVE IInv' /\ TreeStep
    BY <2>7, RenameKeeps
  <2>8. QED
    BY <1>2, <2>1, <2>2, <2>3, <2>4, <2>5, <2>6, <2>7
<1>3. ASSUME NEW id \in Ids, NEW data \in BOOLEAN, SetData(id, data) PROVE IInv' /\ TreeStep
  BY <1>3, SetDataKeeps
<1>4. ASSUME NEW h \in Handles, NEW id \in Ids, NEW gen \in 0 .. MaxGen, OpenFile(h, id, gen)
      PROVE  IInv' /\ TreeStep
  BY <1>4, OpenKeeps
<1>5. ASSUME NEW h \in Handles, Close(h) PROVE IInv' /\ TreeStep
  BY <1>5, CloseKeeps
<1>6. CASE Commit
  BY <1>6, CommitKeeps
<1>7. CASE Remount
  BY <1>7, RemountKeeps
<1>8. CASE ResetCache
  BY <1>8, ResetKeeps
<1>9. QED
  BY <1>1, <1>2, <1>3, <1>4, <1>5, <1>6, <1>7, <1>8 DEF Next

\* The inductive invariant holds: whatever sequence of calls, failed stores, reuses of
\* an id, commits and mounts led here.
THEOREM Invariance == ASSUME Supported PROVE Spec => []IInv
<1>1. Init => IInv
  BY InitHolds
<1>2. IInv /\ [Next]_vars => IInv'
  BY Step
<1>3. QED
  BY <1>1, <1>2, PTL DEF Spec

----------------------------------------------------------------------------
(* What the invariant says. *)

LEMMA IInvHas ==
  ASSUME IInv
  PROVE  /\ Good(ino, next, free, opens, cache, handles) /\ Snap(image)
         /\ Paged(ino) /\ ino \in [Ids -> Inode] /\ next \in 1 .. InodeCap
         /\ Mirrors(cache, ino, {}) /\ Sound(Entries(ino), Dirs(ino), Links(ino), next, {})
         /\ Stack(free, ino, next, handles) /\ Zero(free, ino, next, handles)
         /\ Keeps(ino, next, opens, handles)
BY DEF IInv, Good, Table, Paged

LEMMA IInvTypes ==
  ASSUME IInv
  PROVE  TypeOK
BY IInvHas DEF IInv, Good, Snap, Snapshots, HandlesType, Mirrors, Resident, Stack, TypeOK

LEMMA IInvMirrors ==
  ASSUME IInv
  PROVE  CacheMirrors
BY IInvTypes, IInvHas, MirrorsIs

LEMMA NamesOfIs ==
  ASSUME NEW t, NEW i
  PROVE  NamesOf(t, i) = NamesIn(Entries(t), i)
BY DEF NamesOf, NamesIn

LEMMA IInvNames ==
  ASSUME IInv
  PROVE  NamesCounted
<1>1. ASSUME NEW t, NEW nx, Table(t, nx, {}), NEW i \in Ids, t[i].kind # "dir"
      PROVE  Cardinality(NamesOf(t, i)) <= t[i].nlink
  <2>1. Counted(Entries(t), Dirs(t), Links(t))
    BY <1>1 DEF Table, Sound
  <2>2. i \in Ids \ Dirs(t) /\ Links(t)[i] = t[i].nlink
    BY <1>1 DEF Dirs, Links
  <2>3. Cardinality(NamesIn(Entries(t), i)) <= Links(t)[i]
    BY <2>1, <2>2 DEF Counted
  <2>4. QED
    BY <2>2, <2>3, NamesOfIs
<1>2. Table(ino, next, {}) /\ Table(image.ino, image.next, {})
  BY DEF IInv, Good, Snap
<1>3. QED
  BY <1>1, <1>2 DEF NamesCounted

LEMMA IInvHandles ==
  ASSUME IInv
  PROVE  HandleKeepsFile
BY IInvHas DEF Keeps, HandlesOn, HandleKeepsFile

LEMMA IInvNoDirLoop ==
  ASSUME IInv
  PROVE  NoDirLoop
<1> SUFFICES ASSUME NEW d \in Ids, ino[d].kind = "dir", NEW c \in Children(ino, d)
             PROVE  d \notin Subtree(ino, c)
  BY DEF NoDirLoop
<1>1. Paged(ino) /\ Sound(Entries(ino), Dirs(ino), Links(ino), next, {})
  BY IInvHas
<1>2. PICK n \in Names : Has(ino[d].pages, n) /\ c = Find(ino[d].pages, n)
  BY DEF Children
<1>3. PICK b : b = <<d, n, c>>
  OBVIOUS
<1>4. b[1] = d /\ b[3] = c
  BY <1>3
<1>5. b \in Entries(ino)
  <2>1. PICK x : x = <<d, n>>
    OBVIOUS
  <2>2. x \in Ids \X Names /\ x[1] = d /\ x[2] = n
    BY <2>1
  <2>3. b = <<x[1], x[2], Find(ino[x[1]].pages, x[2])>> /\ Has(ino[x[1]].pages, x[2])
    BY <1>2, <1>3, <2>2
  <2>4. QED
    BY <2>2, <2>3 DEF Entries
<1>6. b[1] \notin Below(Entries(ino), b[3]) /\ b[3] \in Ids
  BY <1>1, <1>5, SoundHas
<1>7. Subtree(ino, c) = Below(Entries(ino), c)
  BY <1>1, <1>4, <1>6, SubtreeFacts
<1>8. QED
  BY <1>4, <1>6, <1>7

LEMMA IInvFree ==
  ASSUME IInv
  PROVE  FreeUnused
<1>1. Stack(free, ino, next, handles) /\ Sound(Entries(ino), Dirs(ino), Links(ino), next, {})
  BY IInvHas
<1>2. Root \in Dirs(ino)
  BY <1>1, SoundHas
<1>3. \A i : Opened(handles, i) <=> Open(i)
  BY DEF Opened, Open
<1>4. \A i : NamesIn(Entries(ino), i) = {} => ~Named(i)
  BY DEF NamesIn, Named
<1>5. QED
  BY <1>1, <1>2, <1>3, <1>4 DEF Stack, FreeUnused

\* What is reached from r, and is not r, has a name.
LEMMA BelowNamed ==
  ASSUME NEW T \in SUBSET Bindings, NEW r \in Ids, NEW i \in Below(T, r), i # r
  PROVE  NamesIn(T, i) # {}
<1> SUFFICES ASSUME NamesIn(T, i) = {} PROVE FALSE
  OBVIOUS
<1>1. PICK S : S = Ids \ {i}
  OBVIOUS
<1>2. S \in SUBSET Ids /\ r \in S
  BY <1>1
<1>3. Closed(T, S)
  <2>1. \A e \in T : e[3] \in Ids /\ e[3] # i
    BY DEF NamesIn, Bindings
  <2>2. QED
    BY <1>1, <2>1 DEF Closed
<1>4. Below(T, r) \subseteq S
  BY <1>2, <1>3, BelowLeast
<1>5. QED
  BY <1>1, <1>4

LEMMA IInvLinks ==
  ASSUME IInv, ~NoSpace, "move_dir" \notin Ops
  PROVE  LinksExact
<1> SUFFICES ASSUME NEW id \in Ids
             PROVE  ino[id].nlink = IF ino[id].kind = "dir" THEN 2 + Cardinality(Subdirs(ino, id))
                                    ELSE Cardinality(NamesOf(ino, id))
  BY DEF LinksExact
<1>1. /\ Counted(Entries(ino), Dirs(ino), Links(ino))
      /\ Exact(Entries(ino), Dirs(ino), Links(ino), next, {})
      /\ Entries(ino) \in SUBSET Bindings
  BY IInvHas DEF Sound, Forest
<1>2. Links(ino)[id] = ino[id].nlink /\ (id \in Dirs(ino) <=> ino[id].kind = "dir")
  BY DEF Links, Dirs
<1>3. CASE ino[id].kind = "dir"
  <2>1. Subdirs(ino, id) = SubdirsIn(Entries(ino), Dirs(ino), id)
    <3>1. \A e \in Entries(ino) : e[3] \in Ids
      BY <1>1 DEF Bindings
    <3>2. QED
      BY <3>1 DEF Subdirs, SubdirsIn, Dirs
  <2>2. Links(ino)[id] = 2 + Cardinality(SubdirsIn(Entries(ino), Dirs(ino), id))
    BY <1>1, <1>2, <1>3 DEF Counted
  <2>3. QED
    BY <1>2, <1>3, <2>1, <2>2
<1>4. CASE ino[id].kind # "dir"
  <2>1. Cardinality(NamesIn(Entries(ino), id)) = Links(ino)[id]
    BY <1>1, <1>2, <1>4 DEF Exact
  <2>2. QED
    BY <1>2, <1>4, <2>1, NamesOfIs
<1>5. QED
  BY <1>3, <1>4

LEMMA IInvConnected ==
  ASSUME IInv, ~NoSpace
  PROVE  Connected
<1> SUFFICES ASSUME NEW id \in 0 .. next - 1
             PROVE  \/ \E k \in DOMAIN free : free[k] = id
                    \/ Open(id) /\ ino[id].nlink = 0
                    \/ /\ id \in Subtree(ino, Root)
                       /\ ino[id].kind = "dir" /\ id # Root => Cardinality(NamesOf(ino, id)) = 1
  BY DEF Connected
<1>1. PICK T : T = Entries(ino)
  OBVIOUS
<1>2. PICK D : D = Dirs(ino)
  OBVIOUS
<1>3. /\ Exact(T, D, Links(ino), next, {}) /\ Zero(free, ino, next, handles)
      /\ T \in SUBSET Bindings /\ Paged(ino) /\ next \in 1 .. InodeCap
      /\ \A e, f \in T : e[3] = f[3] /\ e[3] \in D => e = f
  BY <1>1, <1>2, IInvHas DEF Sound, Forest
<1>4. InodeCap \in Nat
  BY NamespaceAssumption
<1>5. id \in Ids /\ id < next
  BY <1>3, <1>4 DEF Ids
<1>6. Links(ino)[id] = ino[id].nlink
  BY <1>5 DEF Links
<1>7. (id \notin D /\ ino[id].nlink = 0) \/ id \in Below(T, Root)
  BY <1>3, <1>5, <1>6 DEF Exact
<1>8. CASE id \notin D /\ ino[id].nlink = 0
  <2>1. Opened(handles, id) \/ \E k \in DOMAIN free : free[k] = id
    BY <1>2, <1>3, <1>5, <1>8 DEF Zero
  <2>2. QED
    BY <1>8, <2>1 DEF Opened, Open
<1>9. CASE id \in Below(T, Root)
  <2>1. Root \in Ids
    BY IdsFacts
  <2>2. id \in Subtree(ino, Root)
    BY <1>1, <1>3, <1>9, <2>1, SubtreeFacts
  <2>3. ASSUME ino[id].kind = "dir", id # Root
        PROVE  Cardinality(NamesOf(ino, id)) = 1
    <3>1. PICK S : S = NamesIn(T, id)
      OBVIOUS
    <3>2. S # {}
      BY <1>3, <1>9, <2>1, <2>3, <3>1, BelowNamed
    <3>3. PICK b : b \in S
      BY <3>2
    <3>4. id \in D
      BY <1>2, <1>5, <2>3 DEF Dirs
    <3>5. S = {b}
      BY <1>3, <3>1, <3>3, <3>4 DEF NamesIn
    <3>6. Cardinality({b}) = 1
      BY FS_Singleton
    <3>7. QED
      BY <1>1, <3>1, <3>5, <3>6, NamesOfIs
  <2>4. QED
    BY <2>2, <2>3
<1>10. QED
  BY <1>7, <1>8, <1>9

----------------------------------------------------------------------------
(* The theorems: for every Names, InodeCap, PageCap, CacheCap, Handles and   *)
(* MaxGen, and for the callers and the environment that Supported describes. *)

\* Every variable keeps its type: the ids in directories, cache, reuse stack and
\* handles are slots of the table, and each page gives a name one inode.
THEOREM TypeCorrect == ASSUME Supported PROVE Spec => []TypeOK
<1>1. Spec => []IInv
  BY Invariance
<1>2. IInv => TypeOK
  BY IInvTypes
<1>3. QED
  BY <1>1, <1>2, PTL

\* dir_cache never holds a stale directory: a resident copy is what the table
\* stores, also after a commit_dir that failed, a rename that took two
\* directories out, and the reuse of a directory's id.
THEOREM CacheIsCoherent == ASSUME Supported PROVE Spec => []CacheMirrors
<1>1. Spec => []IInv
  BY Invariance
<1>2. IInv => CacheMirrors
  BY IInvMirrors
<1>3. QED
  BY <1>1, <1>2, PTL

\* No file has more names than links, in memory or in what the next mount would
\* read: the unlink of one name never reclaims an inode that another name uses.
THEOREM NamesAreCounted == ASSUME Supported PROVE Spec => []NamesCounted
<1>1. Spec => []IInv
  BY Invariance
<1>2. IInv => NamesCounted
  BY IInvNames
<1>3. QED
  BY <1>1, <1>2, PTL

\* The reuse stack holds no inode that a name or a handle uses, no directory and
\* no id twice: create_node never gives out an inode in use, also after
\* rebuild_free_inodes.
THEOREM ReuseIsSafe == ASSUME Supported PROVE Spec => []FreeUnused
<1>1. Spec => []IInv
  BY Invariance
<1>2. IInv => FreeUnused
  BY IInvFree
<1>3. QED
  BY <1>1, <1>2, PTL

\* A handle keeps the file its caller looked up, and open_count counts the
\* handles: unlink, rename and the reuse of ids leave an open file alone.
THEOREM HandlesKeepTheirFile == ASSUME Supported PROVE Spec => []HandleKeepsFile
<1>1. Spec => []IInv
  BY Invariance
<1>2. IInv => HandleKeepsFile
  BY IInvHandles
<1>3. QED
  BY <1>1, <1>2, PTL

\* dir_subtree_contains keeps every directory out of its own subtree, for any
\* shape of tree, so its own walk always ends.
THEOREM TreeHasNoLoop == ASSUME Supported PROVE Spec => []NoDirLoop
<1>1. Spec => []IInv
  BY Invariance
<1>2. IInv => NoDirLoop
  BY IInvNoDirLoop
<1>3. QED
  BY <1>1, <1>2, PTL

\* The state an fsck would accept: with room on the device and directories that
\* stay under their parent, link counts are exact, nothing in use is out of
\* reach and every directory has one parent, through crashes and mounts.
THEOREM StaysConsistent ==
  ASSUME Supported, ~NoSpace, "move_dir" \notin Ops
  PROVE  Spec => []Consistent
<1>1. Spec => []IInv
  BY Invariance
<1>2. IInv => Consistent
  BY IInvTypes, IInvMirrors, IInvLinks, IInvFree, IInvConnected DEF Consistent
<1>3. QED
  BY <1>1, <1>2, PTL

LEMMA TreeSteps ==
  ASSUME TreeStep
  PROVE  Tree!Next
<1>1. PICK T : T = Entries(ino)
  OBVIOUS
<1>2. PICK U : U = Entries(ino')
  OBVIOUS
<1>3. CASE /\ Changed(T, U)
           /\ Entries(image'.ino) \in {Entries(image.ino), T, U}
  <2>1. \/ U = T
        \/ \E b \in T \ U : Tree!Unbind(b) \/ \E c \in U \ T : Tree!Move(b, c)
        \/ \E c \in U \ T : Tree!Bind(c)
    BY <1>1, <1>2, <1>3 DEF Changed, Tree!Unbind, Tree!Move, Tree!Bind, Tree!Place
  <2>2. Tree!Operate
    BY <1>1, <1>2, <1>3, <2>1 DEF Tree!Operate
  <2>3. QED
    BY <2>2 DEF Tree!Next
<1>4. CASE Entries(ino') = Entries(image.ino) /\ Entries(image'.ino) = Entries(image.ino)
  BY <1>4 DEF Tree!Next, Tree!Crash
<1>5. QED
  BY <1>1, <1>2, <1>3, <1>4 DEF TreeStep

\* The namespace implements NameTree: in one step the names visible to the
\* callers gain, lose or move one binding, the image takes the names as they
\* were before or after it, and a crash goes back to the image.
THEOREM RefinesNameTree == ASSUME Supported PROVE Spec => ImplementsNameTree
<1>1. Spec => []IInv
  BY Invariance
<1>2. Init => Tree!Init
  BY InitHolds DEF Tree!Init
<1>3. IInv /\ [Next]_vars => [Tree!Next]_(Tree!vars)
  <2>1. UNCHANGED vars => UNCHANGED Tree!vars
    BY DEF vars, Tree!vars
  <2>2. QED
    BY <2>1, Step, TreeSteps
<1>4. QED
  BY <1>1, <1>2, <1>3, PTL DEF Spec, ImplementsNameTree, Tree!Spec

----------------------------------------------------------------------------
(* What a slot without links holds. *)

\* Inode in of slot i, with the handles hs and the table o of the last commit: no
\* data without a link, unless a handle keeps it or the commit has it like that.
Fit(in, i, hs, o) == in.kind # "dir" /\ in.nlink = 0 /\ in.data => Opened(hs, i) \/ in = o[i]

Lean(t, hs, o) == \A i \in Ids : Fit(t[i], i, hs, o)

Spare == Lean(ino, handles, image.ino)

LEMMA FitDir ==
  ASSUME NEW in, in.kind = "dir", NEW i, NEW hs, NEW o
  PROVE  Fit(in, i, hs, o)
BY DEF Fit

LEMMA FitBlank ==
  ASSUME NEW in, in.data = FALSE, NEW i, NEW hs, NEW o
  PROVE  Fit(in, i, hs, o)
BY DEF Fit

LEMMA FitLinked ==
  ASSUME NEW in, in.nlink # 0, NEW i, NEW hs, NEW o
  PROVE  Fit(in, i, hs, o)
BY DEF Fit

LEMMA LeanSelf ==
  ASSUME NEW t, NEW hs
  PROVE  Lean(t, hs, t)
BY DEF Lean, Fit

LEMMA LeanPut ==
  ASSUME NEW t, NEW hs, NEW o, Lean(t, hs, o), NEW x \in Ids, NEW u, Fit(u[x], x, hs, o),
         \A i \in Ids : i # x => u[i] = t[i]
  PROVE  Lean(u, hs, o)
BY DEF Lean

\* A directory is stored, perhaps with a commit of the table t before.
LEMMA LeanStore ==
  ASSUME NEW t, Paged(t), Lean(t, handles, image.ino), NEW d \in Ids, NEW g, Editing(g),
         NEW nx, NEW f \in Flushes(t, image, nx, d, g)
  PROVE  /\ Lean(f.ino, handles, f.image.ino) /\ Paged(f.ino)
         /\ \A i \in Ids : i # d => f.ino[i] = t[i]
<1>1. Working(g) /\ g.in.kind = "dir" /\ g.dirty # {} /\ (NoSpace => \E p : g.dirty = {p})
  BY DEF Editing
<1>2. /\ f.ok \in BOOLEAN
      /\ f.ok => f.ino = Stored(t, d, g)
      /\ ~f.ok => f.ino = t /\ NoSpace
      /\ f.image \in {image, [ino |-> t, next |-> nx]}
  BY <1>1, FlushFacts
<1>3. PICK o : o = f.image.ino
  OBVIOUS
<1>4. Lean(t, handles, o)
  <2>1. o = image.ino \/ o = t
    BY <1>2, <1>3
  <2>2. QED
    BY <2>1, LeanSelf
<1>5. CASE ~f.ok
  BY <1>2, <1>3, <1>4, <1>5
<1>6. CASE f.ok
  <2>1. PICK u : u = Stored(t, d, g)
    OBVIOUS
  <2>2. PICK in : in = Filled(g)
    OBVIOUS
  <2>3. Puts(t, u, d, in) /\ in.kind = "dir"
    BY <1>1, <2>1, <2>2, StoredFacts
  <2>4. Paged(u) /\ u[d] = in /\ \A i \in Ids : i # d => u[i] = t[i]
    BY <2>3, PutFacts
  <2>5. Fit(u[d], d, handles, o)
    BY <2>3, <2>4, FitDir
  <2>6. Lean(u, handles, o)
    BY <1>4, <2>4, <2>5, LeanPut
  <2>7. f.ino = u
    BY <1>2, <1>6, <2>1
  <2>8. QED
    BY <1>3, <2>4, <2>6, <2>7
<1>7. QED
  BY <1>5, <1>6

LEMMA SpareEnds ==
  ASSUME Lean(ino', handles, image'.ino), handles' = handles
  PROVE  Spare'
BY DEF Spare

LEMMA SpareSame ==
  ASSUME Spare, UNCHANGED <<ino, handles, image>>
  PROVE  Spare'
BY DEF Spare

LEMMA SpareFails ==
  ASSUME Spare, NEW d, Fails(d)
  PROVE  Spare'
BY SpareSame DEF Fails, NoChange

\* The new inode holds nothing, and its directory is stored.
LEMMA NodeSpare ==
  ASSUME IInv, Spare, NEW d \in Ids, NEW n \in Names, NEW kind \in {"file", "dir", "link"},
         CanCheckout(d), CanCreate(d, n), NEW o \in Nodes(d, n, kind)
  PROVE  /\ Lean(o.f.ino, handles, o.f.image.ino)
         /\ NewId \in Ids /\ o.f.ino[NewId] = Child(kind) /\ Paged(o.f.ino)
<1>1. Good(ino, next, free, opens, cache, handles) /\ CanAlloc
  BY DEF IInv, CanCreate
<1>2. PICK id : id = NewId
  OBVIOUS
<1>3. id \in Ids /\ id \notin Dirs(ino)
  BY <1>1, <1>2, AllocFacts
<1>4. PICK t : t = Fresh(kind)
  OBVIOUS
<1>5. Paged(t)
  BY <1>1, <1>2, <1>4, FreshFacts
<1>6. ino \in [Ids -> Inode]
  BY IInvHas
<1>7. \A i \in Ids : i # id => t[i] = ino[i]
  BY <1>2, <1>4, <1>6 DEF Fresh
<1>8. t[id] = Child(kind) /\ Child(kind).data = FALSE
  BY <1>2, <1>3, <1>4, <1>6 DEF Fresh, Child, Blank
<1>9. PICK a : a = image.ino
  OBVIOUS
<1>10. Fit(t[id], id, handles, a)
  BY <1>8, FitBlank
<1>11. Lean(ino, handles, a)
  BY <1>9 DEF Spare
<1>12. Lean(t, handles, a)
  BY <1>3, <1>7, <1>10, <1>11, LeanPut
<1>13. PICK g : g = Bearer(d, n, kind)
  OBVIOUS
<1>14. Editing(g) /\ ino[d].kind = "dir"
  BY <1>1, <1>2, <1>13, BearerFacts
<1>15. id # d
  BY <1>3, <1>14 DEF Dirs
<1>16. PICK f : f = o.f
  OBVIOUS
<1>17. PICK nx : nx = NextAfter
  OBVIOUS
<1>18. f \in Flushes(t, image, nx, d, g)
  BY <1>4, <1>13, <1>16, <1>17, NodesIs
<1>19. /\ Lean(f.ino, handles, f.image.ino) /\ Paged(f.ino)
       /\ \A i \in Ids : i # d => f.ino[i] = t[i]
  BY <1>5, <1>9, <1>12, <1>14, <1>18, LeanStore
<1>20. QED
  BY <1>2, <1>3, <1>8, <1>15, <1>16, <1>19

LEMMA CreateSpare ==
  ASSUME IInv, Spare, NEW d \in Ids, NEW n \in Names, NEW kind \in {"file", "dir"},
         Create(d, n, kind)
  PROVE  Spare'
<1>1. CASE ~CanCreate(d, n) /\ Fails(d)
  BY <1>1, SpareFails
<1>2. CASE CanCreate(d, n) /\ ~(~CanCreate(d, n) /\ Fails(d))
  <2>1. PICK o \in Nodes(d, n, kind) : ino' = o.f.ino /\ image' = o.f.image
    BY <1>2 DEF Create
  <2>2. CanCheckout(d) /\ handles' = handles
    BY <1>2 DEF Create
  <2>3. kind \in {"file", "dir", "link"}
    OBVIOUS
  <2>4. Lean(o.f.ino, handles, o.f.image.ino)
    BY <1>2, <2>2, <2>3, NodeSpare
  <2>5. QED
    BY <2>1, <2>2, <2>4, SpareEnds
<1>3. QED
  BY <1>1, <1>2 DEF Create

LEMMA SymlinkSpare ==
  ASSUME IInv, Spare, NEW d \in Ids, NEW n \in Names, Symlink(d, n)
  PROVE  Spare'
<1>1. CASE ~CanCreate(d, n) /\ Fails(d)
  BY <1>1, SpareFails
<1>2. CASE CanCreate(d, n) /\ ~(~CanCreate(d, n) /\ Fails(d))
  <2>1. PICK o \in Nodes(d, n, "link") :
                \/ ~o.f.ok /\ ino' = o.f.ino /\ image' = o.f.image
                \/ /\ o.f.ok
                   /\ image' \in MidImages(o.f.ino, o.f.image, NextAfter)
                   /\ \/ ino' = [o.f.ino EXCEPT ![NewId].data = TRUE]
                      \/ NoSpace /\ ino' = o.f.ino
    BY <1>2 DEF Symlink
  <2>2. CanCheckout(d) /\ handles' = handles
    BY <1>2 DEF Symlink
  <2>3. PICK kind : kind = "link"
    OBVIOUS
  <2>4. kind \in {"file", "dir", "link"} /\ o \in Nodes(d, n, kind)
    BY <2>1, <2>3
  <2>5. PICK u : u = o.f.ino
    OBVIOUS
  <2>6. PICK id : id = NewId
    OBVIOUS
  <2>7. /\ Lean(o.f.ino, handles, o.f.image.ino)
        /\ NewId \in Ids /\ o.f.ino[NewId] = Child(kind) /\ Paged(o.f.ino)
    BY <1>2, <2>2, <2>4, NodeSpare
  <2>8. PICK a : a = image'.ino
    OBVIOUS
  <2>9. Lean(u, handles, a)
    <3>1. a = o.f.image.ino \/ a = u
      BY <2>1, <2>5, <2>8 DEF MidImages
    <3>2. QED
      BY <2>5, <2>7, <3>1, LeanSelf
  <2>10. id \in Ids /\ id \in DOMAIN u /\ u[id].nlink = 1
    BY <2>3, <2>5, <2>6, <2>7 DEF Child, Blank, Paged
  <2>11. PICK v : v = Filling(u, id, TRUE)
    OBVIOUS
  <2>12. \A i \in Ids : i # id => v[i] = u[i]
    BY <2>10, <2>11 DEF Filling
  <2>13. Fit(v[id], id, handles, a)
    <3>1. v[id] = [u[id] EXCEPT !.data = TRUE]
      BY <2>10, <2>11 DEF Filling
    <3>2. v[id].nlink = u[id].nlink
      BY <2>5, <2>6, <2>7, <3>1 DEF Child, Blank
    <3>3. QED
      BY <2>10, <3>2, FitLinked
  <2>14. Lean(v, handles, a)
    BY <2>9, <2>10, <2>12, <2>13, LeanPut
  <2>15. ino' \in {u, v}
    BY <2>1, <2>5, <2>6, <2>11 DEF Filling
  <2>16. QED
    BY <2>2, <2>8, <2>9, <2>14, <2>15, SpareEnds
<1>3. QED
  BY <1>1, <1>2 DEF Symlink

\* An inode loses a name in table t.
LEMMA LosingSpare ==
  ASSUME IInv, NEW id \in Ids, ino[id].kind # "dir", ino[id].nlink > 0,
         NEW t, Paged(t), NEW o, Lean(t, handles, o), t[id] = ino[id], NEW v, v = Losing(t, id)
  PROVE  Lean(v, handles, o) /\ \A i \in Ids : i # id => v[i] = t[i]
<1>1. PICK in : in = ino[id]
  OBVIOUS
<1>2. in \in Inode /\ in.kind # "dir" /\ in.pages = <<>> /\ in.nlink > 0
  BY <1>1 DEF Paged
<1>3. PICK s : s = Slotted(id, in)
  OBVIOUS
<1>4. s \in Inode /\ s.pages = <<>> /\ s.kind # "dir" /\ s.nlink = in.nlink - 1 /\ Less(in.nlink) = in.nlink - 1
  BY <1>2, <1>3, SlottedFacts
<1>5. Kept(t, v, id, s)
  BY <1>1, <1>2, <1>3, <1>4 DEF Kept, Losing
<1>6. v[id] = s /\ \A i \in Ids : i # id => v[i] = t[i]
  BY <1>5, PutKept
<1>7. Fit(s, id, handles, o)
  <2>1. CASE Less(in.nlink) = 0 /\ opens[id] = 0
    <3>1. s = Blank(in.gen + 1)
      BY <1>3, <2>1 DEF Slotted
    <3>2. s.data = FALSE
      BY <3>1 DEF Blank
    <3>3. QED
      BY <3>2, FitBlank
  <2>2. CASE ~(Less(in.nlink) = 0 /\ opens[id] = 0)
    <3>1. CASE s.nlink # 0
      BY <3>1, FitLinked
    <3>2. CASE s.nlink = 0
      <4>1. Good(ino, next, free, opens, cache, handles)
        BY IInvHas
      <4>2. handles \in HandlesType /\ Rest(free, ino, next, opens, handles)
        BY <4>1, GoodHas
      <4>3. opens[id] # 0
        BY <1>4, <2>2, <3>2
      <4>4. Opened(handles, id)
        BY <4>2, <4>3, OpensIff
      <4>5. QED
        BY <4>4 DEF Fit
    <3>3. QED
      BY <3>1, <3>2
  <2>3. QED
    BY <2>1, <2>2
<1>8. Lean(v, handles, o)
  BY <1>6, <1>7, LeanPut
<1>9. QED
  BY <1>6, <1>8

\* What reclaim leaves of the table.
LEMMA DropLost ==
  ASSUME NEW t, NEW c, NEW r, r = [ino |-> t, free |-> free, cache |-> c], NEW id
  PROVE  DropLink(r, id, ino[id]).ino = Losing(t, id)
<1>1. PICK in : in = ino[id]
  OBVIOUS
<1>2. PICK R : R = DropLink(r, id, in)
  OBVIOUS
<1>3. CASE Less(in.nlink) = 0 /\ opens[id] = 0
  <2>1. R = Reclaimed(r, id, in.gen)
    BY <1>2, <1>3 DEF DropLink
  <2>2. R.ino = Losing(t, id)
    BY <1>1, <1>3, <2>1 DEF Reclaimed, Losing, Slotted
  <2>3. QED
    BY <1>1, <1>2, <2>2
<1>4. CASE ~(Less(in.nlink) = 0 /\ opens[id] = 0)
  <2>1. R = [r EXCEPT !.ino = [@ EXCEPT ![id] = Slotted(id, in)]]
    BY <1>2, <1>4, DropLinkIs
  <2>2. R.ino = Losing(t, id)
    BY <1>1, <2>1 DEF Losing
  <2>3. QED
    BY <1>1, <1>2, <2>2
<1>5. QED
  BY <1>3, <1>4

\* The name of d that is taken away.
LEMMA TakenFacts ==
  ASSUME IInv, NEW d \in Ids, NEW n, CanCheckout(d), NEW h, h = Checkout(d), Has(h.pages, n),
         NEW id, id = Find(h.pages, n), NEW g, g = Del(h, n)
  PROVE  /\ Editing(g) /\ id \in Ids /\ d # id
         /\ ino[id].kind # "dir" => ino[id].nlink > 0
<1>1. Good(ino, next, free, opens, cache, handles)
  BY DEF IInv
<1>2. Editing(g)
  BY <1>1, TakeEdits
<1>3. id \in Ids /\ d # id /\ <<d, n, id>> \in Entries(ino)
  BY <1>1, TakeEdits
<1>4. PICK b : b = <<d, n, id>>
  OBVIOUS
<1>5. b \in Entries(ino) /\ b[3] = id
  BY <1>3, <1>4
<1>6. ASSUME ino[id].kind # "dir" PROVE ino[id].nlink > 0
  <2>1. Sound(Entries(ino), Dirs(ino), Links(ino), next, {})
    BY IInvHas
  <2>2. b[3] \notin Dirs(ino)
    BY <1>5, <1>6 DEF Dirs
  <2>3. Links(ino)[b[3]] > 0
    BY <1>5, <2>1, <2>2, SoundUnbind
  <2>4. QED
    BY <1>3, <1>5, <2>3 DEF Links
<1>7. QED
  BY <1>2, <1>3, <1>6

LEMMA UnlinkSpare ==
  ASSUME IInv, Spare, NEW d \in Ids, NEW n \in Names, Unlink(d, n)
  PROVE  Spare'
<1>1. PICK h : h = Checkout(d)
  OBVIOUS
<1>2. PICK id : id = Find(h.pages, n)
  OBVIOUS
<1>3. PICK g : g = Del(h, n)
  OBVIOUS
<1>4. CASE ~(Has(h.pages, n) /\ ino[id].kind # "dir")
  <2>1. Fails(d)
    BY <1>1, <1>2, <1>4 DEF Unlink
  <2>2. QED
    BY <2>1, SpareFails
<1>5. CASE Has(h.pages, n) /\ ino[id].kind # "dir"
  <2>1. CanCheckout(d) /\ handles' = handles
    BY <1>1, <1>2, <1>5 DEF Unlink
  <2>2. PICK f \in Flushes(ino, image, next, d, g) :
              /\ Becomes(UnlinkRest([Ram EXCEPT !.ino = f.ino,
                                       !.cache = Returned(Drop(cache, d), d, g, f.ok)],
                                    id, ino[id], f.ok))
              /\ image' = f.image
    BY <1>1, <1>2, <1>3, <1>5 DEF Unlink
  <2>3. PICK C : C = Returned(Drop(cache, d), d, g, f.ok)
    OBVIOUS
  <2>4. PICK r : r = [ino |-> f.ino, free |-> free, cache |-> C]
    OBVIOUS
  <2>5. [Ram EXCEPT !.ino = f.ino, !.cache = C] = r
    BY <2>4, RamIs
  <2>6. Becomes(UnlinkRest(r, id, ino[id], f.ok)) /\ image' = f.image
    BY <2>2, <2>3, <2>5
  <2>7. Editing(g) /\ id \in Ids /\ d # id /\ ino[id].nlink > 0
    BY <1>1, <1>2, <1>3, <1>5, <2>1, TakenFacts
  <2>8. Paged(ino) /\ Lean(ino, handles, image.ino)
    BY IInvHas DEF Spare
  <2>9. /\ Lean(f.ino, handles, f.image.ino) /\ Paged(f.ino)
        /\ \A i \in Ids : i # d => f.ino[i] = ino[i]
    BY <2>7, <2>8, LeanStore
  <2>10. CASE ~f.ok
    <3>1. ino' = f.ino
      BY <2>4, <2>6, <2>10 DEF Becomes, UnlinkRest
    <3>2. QED
      BY <2>1, <2>6, <2>9, <3>1, SpareEnds
  <2>11. CASE f.ok
    <3>1. PICK t : t = f.ino
      OBVIOUS
    <3>2. PICK v : v = Losing(t, id)
      OBVIOUS
    <3>3. PICK o : o = f.image.ino
      OBVIOUS
    <3>4. Lean(v, handles, o)
      <4>1. Paged(t) /\ Lean(t, handles, o) /\ t[id] = ino[id]
        BY <2>7, <2>9, <3>1, <3>3
      <4>2. QED
        BY <1>5, <2>7, <3>2, <4>1, LosingSpare
    <3>5. PICK Q : Q = DropLink(r, id, ino[id])
      OBVIOUS
    <3>6. Q.ino = v
      BY <2>4, <3>1, <3>2, <3>5, DropLost
    <3>7. ino' = v
      BY <2>6, <2>11, <3>5, <3>6 DEF Becomes, UnlinkRest
    <3>8. QED
      BY <2>1, <2>6, <3>3, <3>4, <3>7, SpareEnds
  <2>12. QED
    BY <2>10, <2>11
<1>6. QED
  BY <1>4, <1>5

LEMMA SetDataSpare ==
  ASSUME IInv, Spare, NEW id \in Ids, NEW b \in BOOLEAN, SetData(id, b)
  PROVE  Spare'
<1>1. /\ Named(id) \/ Open(id)
      /\ ino[id].kind = "file" /\ image' \in MidImages(ino, image, next)
      /\ ino' \in {Filling(ino, id, b), ino} /\ handles' = handles
  BY DEF SetData, MidImages, Filling
<1>2. ino \in [Ids -> Inode] /\ Sound(Entries(ino), Dirs(ino), Links(ino), next, {})
  BY IInvHas
<1>3. PICK o : o = image'.ino
  OBVIOUS
<1>4. Lean(ino, handles, o)
  <2>1. o = image.ino \/ o = ino
    BY <1>1, <1>3 DEF MidImages
  <2>2. QED
    BY <2>1, LeanSelf DEF Spare
<1>5. ino[id].nlink = 0 => Opened(handles, id)
  <2> SUFFICES ASSUME Named(id), ino[id].nlink = 0 PROVE FALSE
    BY DEF SetData, Open, Opened
  <2>1. PICK e \in Entries(ino) : e[3] = id
    BY DEF Named
  <2>2. e[3] \notin Dirs(ino)
    BY <1>1, <2>1 DEF Dirs
  <2>3. Links(ino)[e[3]] > 0
    BY <1>2, <2>2, SoundUnbind
  <2>4. QED
    BY <2>1, <2>3 DEF Links
<1>6. PICK v : v = Filling(ino, id, b)
  OBVIOUS
<1>7. PICK in \in Inode : in = ino[id]
  BY <1>2
<1>8. v[id] = [in EXCEPT !.data = b] /\ \A i \in Ids : i # id => v[i] = ino[i]
  BY <1>2, <1>6, <1>7 DEF Filling
<1>9. v[id].nlink = in.nlink
  BY <1>8 DEF Inode
<1>10. Fit(v[id], id, handles, o)
  BY <1>5, <1>7, <1>9 DEF Fit
<1>11. Lean(v, handles, o)
  BY <1>4, <1>8, <1>10, LeanPut
<1>12. QED
  BY <1>1, <1>3, <1>4, <1>6, <1>11, SpareEnds

LEMMA RmdirSpare ==
  ASSUME IInv, Spare, NEW d \in Ids, NEW n \in Names, Rmdir(d, n)
  PROVE  Spare'
<1>1. PICK h : h = Checkout(d)
  OBVIOUS
<1>2. PICK id : id = Find(h.pages, n)
  OBVIOUS
<1>3. PICK a : a = Del(h, n)
  OBVIOUS
<1>4. PICK g : g = LoseSubdir(a)
  OBVIOUS
<1>5. CASE ~(Has(h.pages, n) /\ ino[id].kind = "dir" /\ IsEmpty(ino[id].pages))
  <2>1. Fails(d)
    BY <1>1, <1>2, <1>5 DEF Rmdir
  <2>2. QED
    BY <2>1, SpareFails
<1>6. CASE Has(h.pages, n) /\ ino[id].kind = "dir" /\ IsEmpty(ino[id].pages)
  <2>1. CanCheckout(d) /\ handles' = handles
    BY <1>1, <1>2, <1>6 DEF Rmdir
  <2>2. PICK f \in Flushes(ino, image, next, d, g) :
              /\ LET r == [Ram EXCEPT !.ino = f.ino,
                              !.cache = Returned(Drop(cache, d), d, g, f.ok)]
                 IN Becomes(IF f.ok THEN Reclaimed(r, id, ino[id].gen) ELSE r)
              /\ image' = f.image
    BY <1>1, <1>2, <1>3, <1>4, <1>6 DEF Rmdir
  <2>3. PICK C : C = Returned(Drop(cache, d), d, g, f.ok)
    OBVIOUS
  <2>4. PICK r : r = [ino |-> f.ino, free |-> free, cache |-> C]
    OBVIOUS
  <2>5. [Ram EXCEPT !.ino = f.ino, !.cache = C] = r
    BY <2>4, RamIs
  <2>6. Becomes(IF f.ok THEN Reclaimed(r, id, ino[id].gen) ELSE r) /\ image' = f.image
    BY <2>2, <2>3, <2>5
  <2>7. Editing(a) /\ id \in Ids
    BY <1>1, <1>2, <1>3, <1>6, <2>1, TakenFacts
  <2>8. Paged(ino) /\ Lean(ino, handles, image.ino)
    BY IInvHas DEF Spare
  <2>9. Editing(g)
    <3>1. Working(a) /\ a.in.kind = "dir" /\ a.dirty # {} /\ (NoSpace => \E p : a.dirty = {p})
      BY <2>7 DEF Editing
    <3>2. PICK k : k = Less(a.in.nlink)
      OBVIOUS
    <3>3. a.in \in Inode
      BY <3>1 DEF Working, Work
    <3>4. k \in Nat
      BY <3>2, <3>3, InodeFacts DEF Less
    <3>5. g = Relinked(a, k)
      BY <1>4, <3>1, <3>2, RelinkedIs
    <3>6. Working(g) /\ g.dirty = a.dirty /\ g.in.kind = a.in.kind
      BY <3>1, <3>4, <3>5, WorkLinked
    <3>7. QED
      BY <3>1, <3>6 DEF Editing
  <2>10. Lean(f.ino, handles, f.image.ino) /\ Paged(f.ino)
    BY <2>7, <2>8, <2>9, LeanStore
  <2>11. CASE ~f.ok
    <3>1. ino' = f.ino
      BY <2>4, <2>6, <2>11 DEF Becomes
    <3>2. QED
      BY <2>1, <2>6, <2>10, <3>1, SpareEnds
  <2>12. CASE f.ok
    <3>1. PICK t : t = f.ino
      OBVIOUS
    <3>2. PICK s : s = Blank(ino[id].gen + 1)
      OBVIOUS
    <3>3. PICK v : v = [t EXCEPT ![id] = s]
      OBVIOUS
    <3>4. PICK o : o = f.image.ino
      OBVIOUS
    <3>5. ino' = v
      BY <2>4, <2>6, <2>12, <3>1, <3>2, <3>3 DEF Becomes, Reclaimed
    <3>6. v[id] = s /\ \A i \in Ids : i # id => v[i] = t[i]
      BY <2>7, <2>10, <3>1, <3>3 DEF Paged
    <3>7. s.data = FALSE
      BY <3>2 DEF Blank
    <3>8. Fit(v[id], id, handles, o)
      BY <3>6, <3>7, FitBlank
    <3>9. Lean(t, handles, o)
      BY <2>10, <3>1, <3>4
    <3>10. Lean(v, handles, o)
      BY <2>7, <3>6, <3>8, <3>9, LeanPut
    <3>11. QED
      BY <2>1, <2>6, <3>4, <3>5, <3>10, SpareEnds
  <2>13. QED
    BY <2>11, <2>12
<1>7. QED
  BY <1>5, <1>6

LEMMA LinkSpare ==
  ASSUME IInv, Spare, NEW d \in Ids, NEW n \in Names, NEW id \in Ids, Link(d, n, id)
  PROVE  Spare'
<1>1. PICK h : h = Checkout(d)
  OBVIOUS
<1>2. PICK g : g = Add(h, n, id)
  OBVIOUS
<1>3. CASE Has(h.pages, n)
  <2>1. Fails(d)
    BY <1>1, <1>3 DEF Link
  <2>2. QED
    BY <2>1, SpareFails
<1>4. CASE ~Has(h.pages, n)
  <2>1. CanCheckout(d) /\ ino[id].kind # "dir" /\ (Named(id) \/ Open(id))
    BY DEF Link
  <2>2. PICK t : t = Linked(id)
    OBVIOUS
  <2>3. PICK f \in Flushes(t, image, next, d, g) : ino' = f.ino /\ image' = f.image
    BY <1>1, <1>2, <1>4, <2>2 DEF Link
  <2>4. handles' = handles
    BY <1>1, <1>4 DEF Link
  <2>5. Good(ino, next, free, opens, cache, handles) /\ Paged(ino) /\ ino \in [Ids -> Inode]
        /\ Mirrors(cache, ino, {})
    BY IInvHas
  <2>6. /\ ino[d].kind = "dir" /\ Working(h) /\ h.in = ino[d] /\ h.dirty = {}
    BY <1>1, <2>1, <2>5, CheckoutFacts
  <2>7. /\ Working(g) /\ g.in = h.in /\ g.dirty = h.dirty \cup {Slot(h.pages)}
    BY <1>2, <1>4, <2>6, AddFacts
  <2>8. Editing(g)
    BY <2>6, <2>7 DEF Editing
  <2>9. Paged(t) /\ \A i \in Ids : i # id => t[i] = ino[i]
    BY <2>1, <2>2, <2>5, LinkedFacts
  <2>10. PICK in \in Inode : in = ino[id]
    BY <2>5
  <2>11. t[id] = [in EXCEPT !.nlink = in.nlink + 1]
    BY <2>2, <2>5, <2>10 DEF Linked
  <2>12. t[id].nlink # 0
    <3>1. in.nlink \in Nat
      BY InodeFacts
    <3>2. PICK k : k = in.nlink + 1
      OBVIOUS
    <3>3. t[id] = [in EXCEPT !.nlink = k] /\ k # 0
      BY <2>11, <3>1, <3>2
    <3>4. QED
      BY <3>3 DEF Inode
  <2>13. PICK a : a = image.ino
    OBVIOUS
  <2>14. Fit(t[id], id, handles, a)
    BY <2>12, FitLinked
  <2>15. Lean(ino, handles, a)
    BY <2>13 DEF Spare
  <2>16. Lean(t, handles, a)
    BY <2>9, <2>14, <2>15, LeanPut
  <2>17. Lean(f.ino, handles, f.image.ino)
    <3>1. Paged(t)
      BY <2>9
    <3>2. QED
      BY <2>8, <2>13, <2>16, <3>1, LeanStore
  <2>18. QED
    BY <2>3, <2>4, <2>17, SpareEnds
<1>5. QED
  BY <1>3, <1>4

LEMMA OpenSpare ==
  ASSUME IInv, Spare, NEW h \in Handles, NEW id \in Ids, NEW gen \in 0 .. MaxGen,
         OpenFile(h, id, gen)
  PROVE  Spare'
<1>1. /\ handles[h] = None /\ handles' = [handles EXCEPT ![h] = <<id, gen>>]
      /\ UNCHANGED <<ino, image>>
  BY DEF OpenFile
<1>2. handles \in HandlesType
  BY DEF IInv, Good
<1>3. \A i : Opened(handles, i) => Opened(handles', i)
  BY <1>1, <1>2 DEF Opened, HandlesType
<1>4. Lean(ino, handles', image.ino)
  BY <1>3 DEF Spare, Lean, Fit
<1>5. QED
  BY <1>1, <1>4 DEF Spare

LEMMA CommitSpare ==
  ASSUME Commit
  PROVE  Spare'
<1>1. handles' = handles /\ image'.ino = ino /\ ino' = ino
  BY DEF Commit
<1>2. Lean(ino, handles, ino)
  BY LeanSelf
<1>3. QED
  BY <1>1, <1>2, SpareEnds

LEMMA RemountSpare ==
  ASSUME Remount
  PROVE  Spare'
<1>1. PICK t : t = image.ino
  OBVIOUS
<1>2. ino' = t /\ image'.ino = t
  BY <1>1 DEF Remount
<1>3. PICK hs : hs = handles'
  OBVIOUS
<1>4. Lean(t, hs, t)
  BY LeanSelf
<1>5. QED
  BY <1>2, <1>3, <1>4 DEF Spare

LEMMA InitSpare ==
  ASSUME Init
  PROVE  Spare
<1>1. image.ino = ino
  BY DEF Init
<1>2. QED
  BY <1>1, LeanSelf DEF Spare

LEMMA CloseSpare ==
  ASSUME IInv, Spare, NEW h \in Handles, Close(h)
  PROVE  Spare'
<1>1. PICK id : id = handles[h][1]
  OBVIOUS
<1>2. PICK left : left = Less(opens[id])
  OBVIOUS
<1>3. /\ handles[h] # None
      /\ Becomes(IF Dead(id, left) THEN Reclaimed(Ram, id, ino[id].gen) ELSE Ram)
      /\ handles' = Turned(handles, h, None) /\ image' = image
  BY <1>1, <1>2 DEF Close, Turned
<1>4. PICK o : o = image.ino
  OBVIOUS
<1>5. Good(ino, next, free, opens, cache, handles) /\ ino \in [Ids -> Inode]
      /\ Lean(ino, handles, o)
  BY <1>4, IInvHas DEF Spare
<1>6. handles \in HandlesType /\ Rest(free, ino, next, opens, handles)
  BY <1>5, GoodHas
<1>7. id \in Ids
  BY <1>1, <1>3, <1>6, HandleOf
<1>8. PICK ks : ks = Turned(handles, h, None)
  OBVIOUS
<1>9. /\ \A i \in Ids : i # id => (Opened(ks, i) <=> Opened(handles, i))
      /\ Cardinality(HandlesOn(handles, id)) = Cardinality(HandlesOn(ks, id)) + 1
  BY <1>1, <1>3, <1>6, <1>8, HandleRemoved
<1>10. \A i \in Ids : i # id => Fit(ino[i], i, ks, o)
  BY <1>5, <1>9 DEF Lean, Fit
<1>11. Lean(ino', ks, o)
  <2>1. CASE Dead(id, left)
    <3>1. PICK s : s = Blank(ino[id].gen + 1)
      OBVIOUS
    <3>2. PICK v : v = [ino EXCEPT ![id] = s]
      OBVIOUS
    <3>3. ino' = v
      BY <1>3, <2>1, <3>1, <3>2 DEF Becomes, Reclaimed, Ram
    <3>4. v[id] = s /\ \A i \in Ids : i # id => v[i] = ino[i]
      BY <1>5, <1>7, <3>2
    <3>5. s.data = FALSE
      BY <3>1 DEF Blank
    <3>6. Fit(v[id], id, ks, o)
      BY <3>4, <3>5, FitBlank
    <3>7. Lean(v, ks, o)
      BY <1>10, <3>4, <3>6 DEF Lean
    <3>8. QED
      BY <3>3, <3>7
  <2>2. CASE ~Dead(id, left)
    <3>1. ino' = ino
      BY <1>3, <2>2 DEF Becomes, Ram
    <3>2. ino[id].nlink = 0 => Opened(ks, id)
      <4> SUFFICES ASSUME ino[id].nlink = 0, ~Opened(ks, id) PROVE FALSE
        OBVIOUS
      <4>1. PICK S : S = HandlesOn(ks, id)
        OBVIOUS
      <4>2. S = {}
        BY <4>1 DEF HandlesOn, Opened
      <4>3. Cardinality({}) = 0
        BY FS_EmptySet
      <4>4. Cardinality(S) = 0
        BY <4>2, <4>3
      <4>5. opens[id] = 1
        BY <1>6, <1>7, <1>9, <4>1, <4>4 DEF Rest, Keeps
      <4>6. left = 0
        BY <1>2, <4>5 DEF Less
      <4>7. QED
        BY <2>2, <4>6 DEF Dead
    <3>3. Fit(ino[id], id, ks, o)
      BY <3>2 DEF Fit
    <3>4. Lean(ino, ks, o)
      BY <1>10, <3>3 DEF Lean
    <3>5. QED
      BY <3>1, <3>4
  <2>3. QED
    BY <2>1, <2>2
<1>12. handles' = ks
  BY <1>3, <1>8
<1>13. QED
  BY <1>3, <1>4, <1>11, <1>12 DEF Spare

\* The inodes that a rename onto m of e leaves.
LEMMA LeavesSpare ==
  ASSUME IInv, Spare, NEW e, NEW m, NEW k, Overwrites(e, m, k), Leaves(k, m)
  PROVE  Spare'
<1>1. PICK r, R : /\ \E C : r = [ino |-> ino, free |-> free, cache |-> C]
                  /\ R = Unlinked(r, k, m)
                  /\ image' = image /\ handles' = handles
                  /\ Dirs(ino') = Dirs(ino) /\ \A i \in Ids \ Dirs(ino) : ino'[i] = R.ino[i]
  BY DEF Leaves
<1>2. PICK C : r = [ino |-> ino, free |-> free, cache |-> C]
  BY <1>1
<1>3. PICK o : o = image.ino
  OBVIOUS
<1>4. Paged(ino) /\ Lean(ino, handles, o)
  BY <1>3, IInvHas DEF Spare
<1>5. Lean(R.ino, handles, o)
  <2>1. CASE ~Has(k.pages, m)
    <3>1. R = r
      BY <1>1, <2>1 DEF Unlinked
    <3>2. QED
      BY <1>2, <1>4, <3>1
  <2>2. CASE Has(k.pages, m)
    <3>1. PICK x : x = Find(k.pages, m)
      OBVIOUS
    <3>2. PICK g : g = Del(k, m)
      OBVIOUS
    <3>3. e \in Ids /\ CanCheckout(e) /\ k = Checkout(e) /\ ino[x].kind # "dir"
      BY <2>2, <3>1 DEF Overwrites
    <3>4. x \in Ids /\ ino[x].nlink > 0
      BY <2>2, <3>1, <3>2, <3>3, TakenFacts
    <3>5. PICK t : t = ino
      OBVIOUS
    <3>6. PICK v : v = Losing(t, x)
      OBVIOUS
    <3>7. Lean(v, handles, o)
      <4>1. Paged(t) /\ Lean(t, handles, o) /\ t[x] = ino[x]
        BY <1>4, <3>5
      <4>2. QED
        BY <3>3, <3>4, <3>6, <4>1, LosingSpare
    <3>8. PICK Q : Q = DropLink(r, x, ino[x])
      OBVIOUS
    <3>9. Q.ino = v
      BY <1>2, <3>5, <3>6, <3>8, DropLost
    <3>10. R = Q
      BY <1>1, <2>2, <3>1, <3>8 DEF Unlinked
    <3>11. QED
      BY <3>7, <3>9, <3>10
  <2>3. QED
    BY <2>1, <2>2
<1>6. Lean(ino', handles, o)
  <2> SUFFICES ASSUME NEW i \in Ids PROVE Fit(ino'[i], i, handles, o)
    BY DEF Lean
  <2>1. CASE i \in Dirs(ino)
    <3>1. ino'[i].kind = "dir"
      BY <1>1, <2>1 DEF Dirs
    <3>2. QED
      BY <3>1, FitDir
  <2>2. CASE i \notin Dirs(ino)
    BY <1>1, <1>5, <2>2 DEF Lean
  <2>3. QED
    BY <2>1, <2>2
<1>7. QED
  BY <1>1, <1>3, <1>6, SpareEnds

LEMMA RenameSpare ==
  ASSUME IInv, Supported, Spare, NEW d \in Ids, NEW n \in Names, NEW e \in Ids,
         NEW m \in Names, Rename(d, n, e, m)
  PROVE  Spare'
<1>1. RenameShape(e, m)
  BY RenameKeeps
<1>2. CASE UNCHANGED <<ino, free, handles, image>>
  BY <1>2, SpareSame
<1>3. CASE \E k : Overwrites(e, m, k) /\ Leaves(k, m)
  BY <1>3, LeavesSpare
<1>4. QED
  BY <1>1, <1>2, <1>3 DEF RenameShape

LEMMA SpareStep ==
  ASSUME IInv, Supported, Spare, [Next]_vars
  PROVE  Spare'
<1>1. CASE UNCHANGED vars
  BY <1>1, SpareSame DEF vars
<1>2. ASSUME NEW d \in Ids, NEW n \in Names,
             \/ Lookup(d, n) \/ Symlink(d, n) \/ Unlink(d, n) \/ Rmdir(d, n)
             \/ \E kind \in {"file", "dir"} : Create(d, n, kind)
             \/ \E id \in Ids : Link(d, n, id)
             \/ \E e \in Ids, m \in Names : Rename(d, n, e, m)
      PROVE  Spare'
  <2>1. CASE Lookup(d, n)
    BY <2>1, SpareSame DEF Lookup
  <2>2. CASE Symlink(d, n)
    BY <2>2, SymlinkSpare
  <2>3. CASE Unlink(d, n)
    BY <2>3, UnlinkSpare
  <2>4. CASE Rmdir(d, n)
    BY <2>4, RmdirSpare
  <2>5. ASSUME NEW kind \in {"file", "dir"}, Create(d, n, kind) PROVE Spare'
    BY <2>5, CreateSpare
  <2>6. ASSUME NEW id \in Ids, Link(d, n, id) PROVE Spare'
    BY <2>6, LinkSpare
  <2>7. ASSUME NEW e \in Ids, NEW m \in Names, Rename(d, n, e, m) PROVE Spare'
    BY <2>7, RenameSpare
  <2>8. QED
    BY <1>2, <2>1, <2>2, <2>3, <2>4, <2>5, <2>6, <2>7
<1>3. ASSUME NEW id \in Ids, NEW data \in BOOLEAN, SetData(id, data) PROVE Spare'
  BY <1>3, SetDataSpare
<1>4. ASSUME NEW h \in Handles, NEW id \in Ids, NEW gen \in 0 .. MaxGen, OpenFile(h, id, gen)
      PROVE  Spare'
  BY <1>4, OpenSpare
<1>5. ASSUME NEW h \in Handles, Close(h) PROVE Spare'
  BY <1>5, CloseSpare
<1>6. CASE Commit
  BY <1>6, CommitSpare
<1>7. CASE Remount
  BY <1>7, RemountSpare
<1>8. CASE ResetCache
  BY <1>8, SpareSame DEF ResetCache, NoChange
<1>9. QED
  BY <1>1, <1>2, <1>3, <1>4, <1>5, <1>6, <1>7, <1>8 DEF Next

LEMMA SpareHolds ==
  ASSUME Spare
  PROVE  \A id \in Ids : ino[id].kind # "dir" /\ ino[id].data /\ ino[id].nlink = 0 =>
            Open(id) \/ ino[id] = image.ino[id]
BY DEF Spare, Lean, Fit, Opened, Open

\* A file without a name holds data only while a handle keeps it open, or because
\* the last commit made it durable like that: unlink, a rename over it, rmdir and
\* the last close give back everything (reclaim), in any order with writes to the
\* open file, commits and crashes.
THEOREM DeadFilesHoldNothing == ASSUME Supported PROVE Spec => []NoDeadData
<1>1. Spec => []IInv
  BY Invariance
<1>2. Init => Spare
  BY InitSpare
<1>3. IInv /\ Spare /\ [Next]_vars => Spare'
  BY SpareStep
<1>4. Spare => NoDeadData
  BY SpareHolds DEF NoDeadData
<1>5. QED
  BY <1>1, <1>2, <1>3, <1>4, PTL DEF Spec

=============================================================================
