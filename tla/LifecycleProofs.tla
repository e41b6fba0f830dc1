-------------------------- MODULE LifecycleProofs --------------------------
(***************************************************************************)
(* A table and its index, for every set of files, number of commits and    *)
(* days: a sync counts each file once, simulated expiries keep what they   *)
(* promise, and health and what-if projections follow the metrics.         *)
(***************************************************************************)
EXTENDS TableLifecycle, FiniteSetTheorems, TLAPS

-----------------------------------------------------------------------------
(* Sums: a sum of weights counts units, so that facts about cardinalities  *)
(* carry over to it.                                                       *)

(* A set with as many elements as the sum of w over S.                     *)
Units(w, S) == {p \in S \X Nat : 1 <= p[2] /\ p[2] <= w[p[1]]}

SumStep(w, g, s) ==
  IF s = {} THEN 0
  ELSE w[CHOOSE x \in s : TRUE] + g[s \ {CHOOSE x \in s : TRUE}]

IsSum(w, g) == g = [s \in SUBSET DOMAIN w |-> SumStep(w, g, s)]

(* SumFunction picks the function that IsSum describes.                    *)
LEMMA SumIsChosen ==
  ASSUME NEW w
  PROVE  SumFunction(w) = (CHOOSE g : IsSum(w, g))[DOMAIN w]
BY DEF SumFunction, SumFunctionOnSet, FoldFunctionOnSet, MapThenFoldSet,
       IsSum, SumStep

(* An element of weight n has n units.                                     *)
LEMMA UnitsOfOne ==
  ASSUME NEW x, NEW n \in Nat
  PROVE  IsFiniteSet({x} \X (1..n)) /\ Cardinality({x} \X (1..n)) = n
<1>1. IsFiniteSet({x}) /\ Cardinality({x}) = 1
  BY FS_Singleton
<1>2. IsFiniteSet(1..n) /\ Cardinality(1..n) = n
  BY FS_Interval
<1> DEFINE A == {x}
           B == 1..n
<1> HIDE DEF A, B
<1>3. /\ IsFiniteSet(A \X B)
      /\ Cardinality(A \X B) = Cardinality(A) * Cardinality(B)
  BY <1>1, <1>2, FS_Product DEF A, B
<1>4. Cardinality(A) = 1 /\ Cardinality(B) = n
  BY <1>1, <1>2 DEF A, B
<1> QED  BY <1>3, <1>4 DEF A, B

(* A finite set has finitely many units.                                   *)
LEMMA UnitsFinite ==
  ASSUME NEW S, IsFiniteSet(S), NEW w \in [S -> Nat]
  PROVE  IsFiniteSet(Units(w, S))
<1> DEFINE f == [x \in S |-> {x} \X (1..w[x])]
           U == {f[x] : x \in S}
<1>1. IsFiniteSet(U)
  <2>1. f \in Surjection(S, U)
    BY DEF Surjection
  <2> QED  BY <2>1, FS_Surjection
<1>2. \A T \in U : IsFiniteSet(T)
  <2> SUFFICES ASSUME NEW x \in S PROVE IsFiniteSet(f[x])
    OBVIOUS
  <2>1. f[x] = {x} \X (1..w[x]) /\ w[x] \in Nat
    OBVIOUS
  <2> QED  BY <2>1, UnitsOfOne
<1>3. Units(w, S) \subseteq UNION U
  <2> SUFFICES ASSUME NEW p \in Units(w, S) PROVE p \in UNION U
    OBVIOUS
  <2>1. p[1] \in S /\ p[2] \in 1..w[p[1]] /\ p = <<p[1], p[2]>>
    BY DEF Units
  <2>2. p \in f[p[1]] /\ f[p[1]] \in U
    BY <2>1
  <2> QED  BY <2>2
<1>4. IsFiniteSet(UNION U)
  BY <1>1, <1>2, FS_UNION
<1> QED  BY <1>3, <1>4, FS_Subset

(* Units without those of one element.                                     *)
LEMMA UnitsStep ==
  ASSUME NEW S, IsFiniteSet(S), NEW w \in [S -> Nat], NEW T \in SUBSET S,
         NEW x \in T
  PROVE  Cardinality(Units(w, T)) = w[x] + Cardinality(Units(w, T \ {x}))
<1> DEFINE own == {x} \X (1..w[x])
           rest == Units(w, T \ {x})
<1>1. IsFiniteSet(own) /\ Cardinality(own) = w[x]
  BY UnitsOfOne
<1>2. IsFiniteSet(rest) /\ Cardinality(rest) \in Nat
  <2>1. IsFiniteSet(Units(w, S))
    BY UnitsFinite
  <2>2. rest \subseteq Units(w, S)
    BY DEF Units
  <2> QED  BY <2>1, <2>2, FS_Subset, FS_CardinalityType
<1>3. own \cap rest = {}
  BY DEF Units
<1>4. Units(w, T) = own \cup rest
  <2>1. own \subseteq Units(w, T)
    BY DEF Units
  <2>2. rest \subseteq Units(w, T)
    BY DEF Units
  <2>3. ASSUME NEW p \in Units(w, T) PROVE p \in own \cup rest
    <3>1. p[1] \in T /\ p[2] \in Nat /\ p = <<p[1], p[2]>>
          /\ 1 <= p[2] /\ p[2] <= w[p[1]] /\ p \in T \X Nat
      BY DEF Units
    <3>2. CASE p[1] = x
      BY <3>1, <3>2
    <3>3. CASE p[1] # x
      BY <3>1, <3>3 DEF Units
    <3> QED  BY <3>2, <3>3
  <2> QED  BY <2>1, <2>2, <2>3
<1> HIDE DEF own, rest
<1>5. Cardinality(own \cup rest) = Cardinality(own) + Cardinality(rest)
  <2>1. Cardinality(own \cap rest) = 0
    BY <1>3, FS_EmptySet
  <2>2. Cardinality(own) \in Nat /\ Cardinality(rest) \in Nat
    BY <1>1, <1>2
  <2>3. Cardinality(own \cup rest)
          = Cardinality(own) + Cardinality(rest) - Cardinality(own \cap rest)
    BY <1>1, <1>2, FS_Union
  <2> QED  BY <2>1, <2>2, <2>3
<1> QED  BY <1>1, <1>2, <1>4, <1>5 DEF rest

(* Counting units is a way to sum.                                         *)
LEMMA UnitsAreASum ==
  ASSUME NEW S, IsFiniteSet(S), NEW w \in [S -> Nat]
  PROVE  IsSum(w, [s \in SUBSET S |-> Cardinality(Units(w, s))])
<1> DEFINE g == [s \in SUBSET S |-> Cardinality(Units(w, s))]
<1> SUFFICES ASSUME NEW s \in SUBSET S PROVE g[s] = SumStep(w, g, s)
  BY DEF IsSum
<1>1. CASE s = {}
  <2>1. Units(w, s) = {}
    BY <1>1 DEF Units
  <2> QED  BY <1>1, <2>1, FS_EmptySet DEF SumStep
<1>2. CASE s # {}
  <2> DEFINE x == CHOOSE x \in s : TRUE
  <2>1. x \in s
    BY <1>2
  <2>2. SumStep(w, g, s) = w[x] + g[s \ {x}]
    BY <1>2 DEF SumStep
  <2> HIDE DEF x
  <2>3. g[s \ {x}] = Cardinality(Units(w, s \ {x}))
    OBVIOUS
  <2> QED  BY <2>1, <2>2, <2>3, UnitsStep
<1> QED  BY <1>1, <1>2

(* There is only one way to sum (by induction over finite subsets).        *)
LEMMA SumsAgree ==
  ASSUME NEW S, IsFiniteSet(S), NEW w \in [S -> Nat], NEW g, IsSum(w, g),
         NEW T \in SUBSET S
  PROVE  g[T] = Cardinality(Units(w, T))
<1> DEFINE Bad == {s \in SUBSET S : g[s] # Cardinality(Units(w, s))}
<1> SUFFICES ASSUME Bad # {} PROVE FALSE
  OBVIOUS
<1>1. PICK s \in Bad : \A r \in Bad : <<r, s>> \notin StrictSubsetOrdering(S)
  <2>1. IsWellFoundedOn(StrictSubsetOrdering(S), SUBSET S)
    BY FS_StrictSubsetOrderingWellFounded, FS_FiniteSubsetsOfFinite
  <2>2. Bad \subseteq SUBSET S
    OBVIOUS
  <2> HIDE DEF Bad
  <2> QED  BY <2>1, <2>2, WFMin
<1>2. g[s] = SumStep(w, g, s)
  BY DEF IsSum
<1>3. CASE s = {}
  <2>1. Units(w, s) = {}
    BY <1>3 DEF Units
  <2> QED  BY <1>2, <1>3, <2>1, FS_EmptySet DEF SumStep
<1>4. CASE s # {}
  <2> DEFINE x == CHOOSE x \in s : TRUE
  <2>1. x \in s
    BY <1>4
  <2>2. g[s] = w[x] + g[s \ {x}]
    BY <1>2, <1>4 DEF SumStep
  <2> HIDE DEF x
  <2>3. g[s \ {x}] = Cardinality(Units(w, s \ {x}))
    <3>1. s \ {x} \in SUBSET S /\ s \ {x} \subseteq s /\ s \ {x} # s
      BY <2>1
    <3>2. <<s \ {x}, s>> \in StrictSubsetOrdering(S)
      BY <3>1 DEF StrictSubsetOrdering
    <3> QED  BY <1>1, <3>1, <3>2
  <2> QED  BY <2>1, <2>2, <2>3, UnitsStep
<1> QED  BY <1>3, <1>4

(* A sum of weights is the number of their units, and a number.            *)
LEMMA SumCounts ==
  ASSUME NEW S, IsFiniteSet(S), NEW w \in [S -> Nat]
  PROVE  /\ SumFunction(w) = Cardinality(Units(w, S))
         /\ SumFunction(w) \in Nat
<1> DEFINE g == CHOOSE g : IsSum(w, g)
<1>1. IsSum(w, g)
  BY UnitsAreASum
<1>2. SumFunction(w) = g[S]
  BY SumIsChosen
<1> HIDE DEF g
<1>3. S \in SUBSET S
  OBVIOUS
<1>4. g[S] = Cardinality(Units(w, S))
  BY <1>1, <1>3, SumsAgree
<1> QED  BY <1>2, <1>4, UnitsFinite, FS_CardinalityType

Over(F, T) == UNION {F[p] : p \in T}

(* A finite union of finite sets is finite.                                *)
LEMMA OverFinite ==
  ASSUME NEW P, IsFiniteSet(P), NEW F, \A p \in P : IsFiniteSet(F[p]),
         NEW T \in SUBSET P
  PROVE  IsFiniteSet(Over(F, T))
<1> DEFINE f == [p \in T |-> F[p]]
           U == {F[p] : p \in T}
<1>1. IsFiniteSet(T)
  BY FS_Subset
<1>2. f \in Surjection(T, U)
  BY DEF Surjection
<1>3. IsFiniteSet(U)
  BY <1>1, <1>2, FS_Surjection
<1>4. \A V \in U : IsFiniteSet(V)
  OBVIOUS
<1> HIDE DEF U
<1>5. IsFiniteSet(UNION U)
  BY <1>3, <1>4, FS_UNION
<1> QED  BY <1>5 DEF Over, U

(* The sizes of disjoint sets add up to the size of their union.           *)
LEMMA DisjointCount ==
  ASSUME NEW P, IsFiniteSet(P), NEW F, \A p \in P : IsFiniteSet(F[p]),
         \A p, q \in P : p # q => F[p] \cap F[q] = {},
         NEW w, w = [p \in P |-> Cardinality(F[p])], NEW T \in SUBSET P
  PROVE  Cardinality(Units(w, T)) = Cardinality(Over(F, T))
<1> DEFINE Bad == {t \in SUBSET P :
                     Cardinality(Units(w, t)) # Cardinality(Over(F, t))}
<1> SUFFICES ASSUME Bad # {} PROVE FALSE
  OBVIOUS
<1>1. PICK t \in Bad : \A r \in Bad : <<r, t>> \notin StrictSubsetOrdering(P)
  <2>1. IsWellFoundedOn(StrictSubsetOrdering(P), SUBSET P)
    BY FS_StrictSubsetOrderingWellFounded, FS_FiniteSubsetsOfFinite
  <2>2. Bad \subseteq SUBSET P
    OBVIOUS
  <2> HIDE DEF Bad
  <2> QED  BY <2>1, <2>2, WFMin
<1>2. w \in [P -> Nat]
  BY FS_CardinalityType
<1>3. CASE t = {}
  <2>1. Units(w, t) = {} /\ Over(F, t) = {}
    BY <1>3 DEF Units, Over
  <2> QED  BY <1>3, <2>1
<1>4. CASE t # {}
  <2>1. PICK x \in t : TRUE
    BY <1>4
  <2> DEFINE r == t \ {x}
  <2>2. Cardinality(Units(w, t)) = w[x] + Cardinality(Units(w, r))
    BY <1>2, UnitsStep
  <2>3. Cardinality(Units(w, r)) = Cardinality(Over(F, r))
    <3>1. r \in SUBSET P /\ r \subseteq t /\ r # t
      OBVIOUS
    <3>2. <<r, t>> \in StrictSubsetOrdering(P)
      BY <3>1 DEF StrictSubsetOrdering
    <3> QED  BY <1>1, <3>1, <3>2
  <2>4. /\ Over(F, t) = F[x] \cup Over(F, r)
        /\ F[x] \cap Over(F, r) = {}
    BY DEF Over
  <2>5. /\ IsFiniteSet(F[x]) /\ IsFiniteSet(Over(F, r))
        /\ w[x] = Cardinality(F[x])
        /\ Cardinality(F[x]) \in Nat /\ Cardinality(Over(F, r)) \in Nat
    <3>1. r \in SUBSET P /\ x \in P
      OBVIOUS
    <3> QED  BY <3>1, OverFinite, FS_CardinalityType
  <2> HIDE DEF r
  <2>6. Cardinality(F[x] \cup Over(F, r))
          = Cardinality(F[x]) + Cardinality(Over(F, r))
    <3>1. Cardinality(F[x] \cap Over(F, r)) = 0
      BY <2>4, FS_EmptySet
    <3>2. Cardinality(F[x] \cup Over(F, r))
            = Cardinality(F[x]) + Cardinality(Over(F, r))
                - Cardinality(F[x] \cap Over(F, r))
      BY <2>5, FS_Union
    <3> QED  BY <2>5, <3>1, <3>2
  <2> QED  BY <2>2, <2>3, <2>4, <2>5, <2>6
<1> QED  BY <1>3, <1>4

(* The same for the sum of their sizes.                                    *)
LEMMA DisjointSum ==
  ASSUME NEW P, IsFiniteSet(P), NEW F, \A p \in P : IsFiniteSet(F[p]),
         \A p, q \in P : p # q => F[p] \cap F[q] = {},
         NEW w, w = [p \in P |-> Cardinality(F[p])]
  PROVE  SumFunction(w) = Cardinality(Over(F, P))
<1>1. w \in [P -> Nat]
  BY FS_CardinalityType
<1>2. SumFunction(w) = Cardinality(Units(w, P))
  BY <1>1, SumCounts
<1>3. P \in SUBSET P
  OBVIOUS
<1> QED  BY <1>2, <1>3, DisjointCount

(* A sum does not depend on the names of what it sums.                     *)
LEMMA SameSum ==
  ASSUME NEW S, IsFiniteSet(S), NEW T, IsFiniteSet(T),
         NEW w \in [S -> Nat], NEW v \in [T -> Nat],
         NEW f \in Bijection(S, T), \A x \in S : v[f[x]] = w[x]
  PROVE  SumFunction(w) = SumFunction(v)
<1> DEFINE h == [p \in Units(w, S) |-> <<f[p[1]], p[2]>>]
<1>1. h \in Bijection(Units(w, S), Units(v, T))
  <2>0. /\ f \in [S -> T]
        /\ \A x, y \in S : f[x] = f[y] => x = y
        /\ \A y \in T : \E x \in S : f[x] = y
    BY DEF Bijection, Injection, Surjection, IsInjective
  <2>1. \A p \in Units(w, S) :
          /\ p[1] \in S /\ p[2] \in Nat /\ p = <<p[1], p[2]>>
          /\ 1 <= p[2] /\ p[2] <= w[p[1]]
    BY DEF Units
  <2>2. h \in [Units(w, S) -> Units(v, T)]
    <3> SUFFICES ASSUME NEW p \in Units(w, S) PROVE h[p] \in Units(v, T)
      OBVIOUS
    <3>1. f[p[1]] \in T /\ v[f[p[1]]] = w[p[1]]
      BY <2>0, <2>1
    <3> QED  BY <2>1, <3>1 DEF Units
  <2>3. \A p, q \in Units(w, S) : h[p] = h[q] => p = q
    BY <2>0, <2>1
  <2>4. \A q \in Units(v, T) : \E p \in Units(w, S) : h[p] = q
    <3> SUFFICES ASSUME NEW q \in Units(v, T)
                 PROVE  \E p \in Units(w, S) : h[p] = q
      OBVIOUS
    <3>1. /\ q[1] \in T /\ q[2] \in Nat /\ q = <<q[1], q[2]>>
          /\ 1 <= q[2] /\ q[2] <= v[q[1]]
      BY DEF Units
    <3>2. PICK x \in S : f[x] = q[1]
      BY <2>0, <3>1
    <3>3. <<x, q[2]>> \in Units(w, S)
      BY <3>1, <3>2 DEF Units
    <3>4. h[<<x, q[2]>>] = q
      BY <3>1, <3>2, <3>3
    <3> QED  BY <3>3, <3>4
  <2> HIDE DEF h
  <2> QED  BY <2>2, <2>3, <2>4 DEF Bijection, Injection, Surjection, IsInjective
<1>2. IsFiniteSet(Units(w, S))
  BY UnitsFinite
<1> HIDE DEF h
<1>3. Cardinality(Units(w, S)) = Cardinality(Units(v, T))
  BY <1>1, <1>2, FS_Bijection DEF ExistsBijection
<1> QED  BY <1>3, SumCounts

-----------------------------------------------------------------------------
-----------------------------------------------------------------------------
(* The rows of an index.                                                   *)
Entry == [file : File, entry_status : EntryStatus]
EntryRow == [by : SnapshotId, entry : Entry]

(* There are finitely many rows and manifests.                             *)
LEMMA FiniteRows == IsFiniteSet(EntryRow) /\ IsFiniteSet(Manifest(SnapshotId))
<1>1. IsFiniteSet(SnapshotId) /\ IsFiniteSet(EntryStatus) /\ IsFiniteSet(File)
  <2>1. IsFiniteSet(1..MaxCommits)
    BY TableLifecycleAssumption, FS_Interval
  <2>2. IsFiniteSet({"ADDED"} \cup {"EXISTING"} \cup {"DELETED"})
    BY FS_Singleton, FS_Union
  <2>3. EntryStatus = {"ADDED"} \cup {"EXISTING"} \cup {"DELETED"}
    BY DEF EntryStatus
  <2> QED  BY <2>1, <2>2, <2>3, TableLifecycleAssumption DEF SnapshotId
<1>2. IsFiniteSet(Entry)
  <2> DEFINE f == [p \in File \X EntryStatus |->
                     [file |-> p[1], entry_status |-> p[2]]]
  <2>1. IsFiniteSet(File \X EntryStatus)
    BY <1>1, FS_Product
  <2>2. f \in Surjection(File \X EntryStatus, Entry)
    <3>1. f \in [File \X EntryStatus -> Entry]
      BY DEF Entry
    <3>2. ASSUME NEW e \in Entry
          PROVE  \E p \in File \X EntryStatus : f[p] = e
      <4>1. <<e.file, e.entry_status>> \in File \X EntryStatus
        BY DEF Entry
      <4>2. f[<<e.file, e.entry_status>>] = e
        BY <4>1 DEF Entry
      <4> QED  BY <4>1, <4>2
    <3> QED  BY <3>1, <3>2 DEF Surjection
  <2> HIDE DEF f
  <2> QED  BY <2>1, <2>2, FS_Surjection
<1>3. IsFiniteSet(EntryRow)
  <2> DEFINE f == [p \in SnapshotId \X Entry |-> [by |-> p[1], entry |-> p[2]]]
  <2>1. IsFiniteSet(SnapshotId \X Entry)
    BY <1>1, <1>2, FS_Product
  <2>2. f \in Surjection(SnapshotId \X Entry, EntryRow)
    <3>1. f \in [SnapshotId \X Entry -> EntryRow]
      BY DEF EntryRow
    <3>2. ASSUME NEW e \in EntryRow
          PROVE  \E p \in SnapshotId \X Entry : f[p] = e
      <4>1. <<e.by, e.entry>> \in SnapshotId \X Entry
        BY DEF EntryRow
      <4>2. f[<<e.by, e.entry>>] = e
        BY <4>1 DEF EntryRow
      <4> QED  BY <4>1, <4>2
    <3> QED  BY <3>1, <3>2 DEF Surjection
  <2> HIDE DEF f
  <2> QED  BY <2>1, <2>2, FS_Surjection
<1>4. IsFiniteSet(Manifest(SnapshotId))
  <2> DEFINE f == [p \in SnapshotId \X SUBSET Entry |->
                     [by |-> p[1], entries |-> p[2]]]
  <2>1. IsFiniteSet(SnapshotId \X SUBSET Entry)
    BY <1>1, <1>2, FS_Product, FS_SUBSET
  <2>2. f \in Surjection(SnapshotId \X SUBSET Entry, Manifest(SnapshotId))
    <3>1. Manifest(SnapshotId) = [by : SnapshotId, entries : SUBSET Entry]
      BY DEF Manifest, Entry
    <3>2. f \in [SnapshotId \X SUBSET Entry -> Manifest(SnapshotId)]
      BY <3>1
    <3>3. ASSUME NEW e \in Manifest(SnapshotId)
          PROVE  \E p \in SnapshotId \X SUBSET Entry : f[p] = e
      <4>1. <<e.by, e.entries>> \in SnapshotId \X SUBSET Entry
        BY <3>1
      <4>2. f[<<e.by, e.entries>>] = e
        BY <3>1, <4>1
      <4> QED  BY <4>1, <4>2
    <3> QED  BY <3>2, <3>3 DEF Surjection
  <2> HIDE DEF f
  <2> QED  BY <2>1, <2>2, FS_Surjection
<1> QED  BY <1>3, <1>4

(* The rows of one partition.                                              *)
Group(D, k) == {r \in D : r.entry.file.part = k}

(* The partition rows, one for each partition that current has.            *)
Groups(P, current) ==
  /\ {p.partition : p \in P} = {r.entry.file.part : r \in current}
  /\ \A p, q \in P : p.partition = q.partition => p = q
  /\ IsFiniteSet(P)

(* Counting by partition counts each row once.                             *)
LEMMA GroupedCount ==
  ASSUME NEW current, IsFiniteSet(current), NEW P, Groups(P, current),
         NEW D \in SUBSET current, NEW w,
         w = [p \in P |-> Cardinality(Group(D, p.partition))]
  PROVE  SumFunction(w) = Cardinality(D)
<1> DEFINE F == [p \in P |-> Group(D, p.partition)]
<1>1. \A p \in P : IsFiniteSet(F[p])
  <2> SUFFICES ASSUME NEW p \in P PROVE IsFiniteSet(F[p])
    OBVIOUS
  <2>1. F[p] \subseteq current
    BY DEF Group
  <2> QED  BY <2>1, FS_Subset
<1>2. \A p, q \in P : p # q => F[p] \cap F[q] = {}
  BY DEF Group, Groups
<1>3. w = [p \in P |-> Cardinality(F[p])]
  OBVIOUS
<1>4. Over(F, P) = D
  BY DEF Over, Group, Groups
<1>5. IsFiniteSet(P)
  BY DEF Groups
<1> HIDE DEF F
<1> QED  BY <1>1, <1>2, <1>3, <1>4, <1>5, DisjointSum

(* Summing by partition sums each row once.                                *)
LEMMA GroupedSum ==
  ASSUME NEW current, IsFiniteSet(current), NEW P, Groups(P, current),
         NEW D \in SUBSET current, NEW v \in [D -> Nat], NEW w,
         w = [p \in P |-> SumFunction([r \in Group(D, p.partition) |-> v[r]])]
  PROVE  SumFunction(w) = SumFunction(v)
<1> DEFINE F == [p \in P |-> Units(v, Group(D, p.partition))]
<1>0. IsFiniteSet(D) /\ IsFiniteSet(Units(v, D))
  BY FS_Subset, UnitsFinite
<1>1. \A p \in P : IsFiniteSet(F[p])
  <2> SUFFICES ASSUME NEW p \in P PROVE IsFiniteSet(F[p])
    OBVIOUS
  <2>1. F[p] \subseteq Units(v, D)
    BY DEF Group, Units
  <2> QED  BY <1>0, <2>1, FS_Subset
<1>2. \A p, q \in P : p # q => F[p] \cap F[q] = {}
  BY DEF Group, Groups, Units
<1>3. w = [p \in P |-> Cardinality(F[p])]
  <2> SUFFICES ASSUME NEW p \in P
               PROVE  SumFunction([r \in Group(D, p.partition) |-> v[r]])
                        = Cardinality(F[p])
    OBVIOUS
  <2> DEFINE G == Group(D, p.partition)
             u == [r \in G |-> v[r]]
  <2>1. G \subseteq D
    BY DEF Group
  <2>2. IsFiniteSet(G) /\ u \in [G -> Nat]
    BY <1>0, <2>1, FS_Subset
  <2>3. Units(u, G) = Units(v, G)
    BY DEF Units
  <2> HIDE DEF G, u
  <2>4. SumFunction(u) = Cardinality(Units(v, G))
    BY <2>2, <2>3, SumCounts
  <2> QED  BY <2>4 DEF G, u
<1>4. Over(F, P) = Units(v, D)
  <2>1. \A r \in D : \E p \in P : r \in Group(D, p.partition)
    BY DEF Group, Groups
  <2>2. \A p \in P : Group(D, p.partition) \subseteq D
    BY DEF Group
  <2>3. \A x \in Units(v, D) : \E p \in P : x \in F[p]
    <3> SUFFICES ASSUME NEW x \in Units(v, D) PROVE \E p \in P : x \in F[p]
      OBVIOUS
    <3>1. x \in D \X Nat /\ x[1] \in D /\ x[2] \in Nat /\ x = <<x[1], x[2]>>
          /\ 1 <= x[2] /\ x[2] <= v[x[1]]
      BY DEF Units
    <3>2. PICK p \in P : x[1] \in Group(D, p.partition)
      BY <2>1, <3>1
    <3>3. x \in F[p]
      BY <3>1, <3>2 DEF Units
    <3> QED  BY <3>3
  <2>4. \A p \in P : F[p] \subseteq Units(v, D)
    BY <2>2 DEF Units
  <2> HIDE DEF F
  <2> QED  BY <2>3, <2>4 DEF Over
<1>5. IsFiniteSet(P)
  BY DEF Groups
<1> HIDE DEF F
<1>6. SumFunction(w) = Cardinality(Units(v, D))
  BY <1>1, <1>2, <1>3, <1>4, <1>5, DisjointSum
<1> QED  BY <1>0, <1>6, SumCounts

-----------------------------------------------------------------------------
-----------------------------------------------------------------------------
(* What a sync writes.                                                     *)
TableRecord ==
  [head : 0..MaxCommits, snapshots : SUBSET SnapshotId,
   day : [SnapshotId -> Day],
   manifests : [SnapshotId -> SUBSET Manifest(SnapshotId)],
   refs : SUBSET Ref(SnapshotId), main_ages : BOOLEAN]

IndexRecord(ix) ==
  /\ ix = [metrics |-> ix.metrics, snapshots |-> ix.snapshots,
           day |-> ix.day, refs |-> ix.refs, partitions |-> ix.partitions,
           marks |-> ix.marks]
  /\ ix.metrics \in Metric
  /\ ix.metrics.small <= ix.metrics.file_count
  /\ ix.snapshots \subseteq SnapshotId
  /\ ix.day \in [ix.snapshots -> Day]
  /\ \A r \in ix.refs : r.snapshot \in SnapshotId
  /\ ix.marks \subseteq {"parse_errors", "metadata_parse_error"}

Data(current) == {r \in current : r.entry.file.content = "DATA"}

SizeOf(D) == [r \in D |-> r.entry.file.size]
RowsOf(D) == [r \in D |-> r.entry.file.rows]

(* The rows that a sync reads have their type.                             *)
LEMMA RowsTyped ==
  ASSUME NEW t \in TableRecord, NEW listed, NEW lost
  PROVE  /\ ManifestRows(t, listed) \subseteq Manifest(SnapshotId)
         /\ Current(FileRows(t, listed, lost)) \subseteq EntryRow
<1>1. ManifestRows(t, listed) \subseteq Manifest(SnapshotId)
  <2> CASE t.head # 0 /\ listed
    <3>1. t.head \in SnapshotId
      BY TableLifecycleAssumption DEF TableRecord, SnapshotId
    <3>2. t.manifests[t.head] \in SUBSET Manifest(SnapshotId)
      BY <3>1 DEF TableRecord
    <3> QED  BY <3>2 DEF ManifestRows
  <2> CASE ~(t.head # 0 /\ listed)
    BY DEF ManifestRows
  <2> QED  OBVIOUS
<1>2. \A m \in ManifestRows(t, listed) :
        \A e \in m.entries : [by |-> m.by, entry |-> e] \in EntryRow
  BY <1>1 DEF Manifest, EntryRow, Entry
<1>3. FileRows(t, listed, lost) \subseteq EntryRow
  BY <1>2 DEF FileRows
<1> QED  BY <1>1, <1>3 DEF Current

(* So have the files they name,                                            *)
LEMMA FileTyped ==
  ASSUME NEW r \in EntryRow
  PROVE  /\ r.entry.file \in File
         /\ r.entry.file.size \in Nat /\ r.entry.file.rows \in Nat
<1>1. r.entry.file \in File
  BY DEF EntryRow, Entry
<1> QED  BY <1>1, TableLifecycleAssumption

(* and their sizes and numbers of records.                                 *)
LEMMA WeightsTyped ==
  ASSUME NEW D \in SUBSET EntryRow
  PROVE  SizeOf(D) \in [D -> Nat] /\ RowsOf(D) \in [D -> Nat]
BY FileTyped DEF SizeOf, RowsOf

(* Metrics are numbers, and small files are data files.                    *)
LEMMA MetricsTyped ==
  ASSUME NEW t \in TableRecord, NEW man \in SUBSET Manifest(SnapshotId),
         NEW current \in SUBSET EntryRow
  PROVE  /\ Metrics(t, man, current) \in Metric
         /\ Metrics(t, man, current).small
              <= Metrics(t, man, current).file_count
<1> DEFINE data == Data(current)
           tiny == {r \in data : r.entry.file.size < Target}
<1>1. IsFiniteSet(current) /\ IsFiniteSet(man) /\ IsFiniteSet(t.snapshots)
  <2>1. t.snapshots \subseteq SnapshotId /\ IsFiniteSet(SnapshotId)
    BY TableLifecycleAssumption, FS_Interval DEF TableRecord, SnapshotId
  <2> QED  BY <2>1, FiniteRows, FS_Subset
<1>2. data \subseteq current /\ current \ data \subseteq current
      /\ tiny \subseteq data
  BY DEF Data
<1>3. IsFiniteSet(data) /\ IsFiniteSet(current \ data)
  BY <1>1, <1>2, FS_Subset
<1>4. IsFiniteSet(tiny) /\ Cardinality(tiny) <= Cardinality(data)
  BY <1>2, <1>3, FS_Subset
<1>5. SumFunction(SizeOf(data)) \in Nat /\ SumFunction(RowsOf(data)) \in Nat
  <2>1. SizeOf(data) \in [data -> Nat] /\ RowsOf(data) \in [data -> Nat]
    BY <1>2, WeightsTyped
  <2> QED  BY <1>3, <2>1, SumCounts
<1>6. Metrics(t, man, current) =
        [file_count |-> Cardinality(data),
         data_size |-> SumFunction(SizeOf(data)),
         record_count |-> SumFunction(RowsOf(data)),
         delete_file_count |-> Cardinality(current \ data),
         snapshot_count |-> Cardinality(t.snapshots),
         manifest_count |-> Cardinality(man),
         small |-> Cardinality(tiny)]
  BY DEF Metrics, Data, SizeOf, RowsOf
<1> HIDE DEF data, tiny
<1>7. /\ Cardinality(data) \in Nat /\ Cardinality(tiny) \in Nat
      /\ Cardinality(current \ data) \in Nat /\ Cardinality(man) \in Nat
      /\ Cardinality(t.snapshots) \in Nat
  BY <1>1, <1>3, <1>4, FS_CardinalityType
<1> QED  BY <1>4, <1>5, <1>6, <1>7 DEF Metric

(* What a sync writes has its type.                                        *)
LEMMA IndexedTyped ==
  ASSUME NEW t \in TableRecord, NEW listed, NEW lost
  PROVE  IndexRecord(Indexed(t, listed, lost))
<1> DEFINE current == Current(FileRows(t, listed, lost))
           man == ManifestRows(t, listed)
           ix == Indexed(t, listed, lost)
<1>1. /\ ix.metrics = Metrics(t, man, current)
      /\ ix.snapshots = t.snapshots
      /\ ix.day = [s \in t.snapshots |-> t.day[s]]
      /\ ix.refs = RefRows(t)
      /\ ix.marks = {} \/ ix.marks = {"parse_errors"}
      /\ ix = [metrics |-> ix.metrics, snapshots |-> ix.snapshots,
               day |-> ix.day, refs |-> ix.refs, partitions |-> ix.partitions,
               marks |-> ix.marks]
  BY DEF Indexed
<1>2. ix.metrics \in Metric /\ ix.metrics.small <= ix.metrics.file_count
  BY <1>1, RowsTyped, MetricsTyped
<1>3. t.snapshots \subseteq SnapshotId
      /\ [s \in t.snapshots |-> t.day[s]] \in [t.snapshots -> Day]
  BY DEF TableRecord
<1>4. \A r \in RefRows(t) : r.snapshot \in SnapshotId
  BY DEF RefRows, TableRecord, Ref
<1> HIDE DEF ix
<1>5. ix.marks \subseteq {"parse_errors", "metadata_parse_error"}
  BY <1>1
<1> QED  BY <1>1, <1>2, <1>3, <1>4, <1>5 DEF IndexRecord, ix

Summary(current, k) ==
  [partition         |-> k,
   file_count        |-> Cardinality(Group(Data(current), k)),
   record_count      |-> SumFunction(RowsOf(Group(Data(current), k))),
   total_size        |-> SumFunction(SizeOf(Group(Data(current), k))),
   delete_file_count |-> Cardinality(Group(current \ Data(current), k))]

(* A partition summary is that of a group of the rows.                     *)
LEMMA SummariesAreGroups ==
  ASSUME NEW current
  PROVE  PartitionSummaries(current) =
           {Summary(current, k) : k \in {r.entry.file.part : r \in current}}
<1>1. \A k : /\ {r \in Group(current, k) : r.entry.file.content = "DATA"}
                  = Group(Data(current), k)
             /\ Group(current, k) \ Group(Data(current), k)
                  = Group(current \ Data(current), k)
  BY DEF Group, Data
<1> DEFINE S(k) ==
  LET of == {r \in current : r.entry.file.part = k}
      data == {r \in of : r.entry.file.content = "DATA"}
  IN [partition         |-> k,
      file_count        |-> Cardinality(data),
      record_count      |-> SumFunction([r \in data |-> r.entry.file.rows]),
      total_size        |-> SumFunction([r \in data |-> r.entry.file.size]),
      delete_file_count |-> Cardinality(of \ data)]
<1>2. ASSUME NEW k PROVE S(k) = Summary(current, k)
  <2>1. S(k) =
    [partition         |-> k,
     file_count |->
       Cardinality({r \in Group(current, k) : r.entry.file.content = "DATA"}),
     record_count |->
       SumFunction(RowsOf({r \in Group(current, k) :
                             r.entry.file.content = "DATA"})),
     total_size |->
       SumFunction(SizeOf({r \in Group(current, k) :
                             r.entry.file.content = "DATA"})),
     delete_file_count |->
       Cardinality(Group(current, k)
                     \ {r \in Group(current, k) :
                          r.entry.file.content = "DATA"})]
    BY DEF Group, SizeOf, RowsOf
  <2> HIDE DEF S
  <2> QED  BY <1>1, <2>1 DEF Summary
<1>3. PartitionSummaries(current) =
        {S(k) : k \in {r.entry.file.part : r \in current}}
  BY DEF PartitionSummaries
<1> HIDE DEF S
<1> QED  BY <1>2, <1>3

(* The partition summaries group the rows.                                 *)
LEMMA SummariesGroup ==
  ASSUME NEW current, IsFiniteSet(current)
  PROVE  Groups(PartitionSummaries(current), current)
<1> DEFINE P == PartitionSummaries(current)
           f == [r \in current |-> Summary(current, r.entry.file.part)]
<1>1. P = {Summary(current, k) : k \in {r.entry.file.part : r \in current}}
  BY SummariesAreGroups
<1>2. \A k : Summary(current, k).partition = k
  BY DEF Summary
<1>3. \A p \in P : p = Summary(current, p.partition)
  BY <1>1, <1>2
<1> HIDE DEF P
<1>4. f \in Surjection(current, P)
  BY <1>1 DEF Surjection
<1>5. IsFiniteSet(P)
  BY <1>4, FS_Surjection
<1>6. {p.partition : p \in P} = {r.entry.file.part : r \in current}
  BY <1>1, <1>2
<1>7. \A p, q \in P : p.partition = q.partition => p = q
  BY <1>3
<1> QED  BY <1>5, <1>6, <1>7 DEF Groups, P

(* Whatever a sync could read, its partition summaries add up to its metrics *)
(* (live_metadata.py:204-248).                                             *)
LEMMA SummariesAddUp ==
  ASSUME NEW t \in TableRecord, NEW listed, NEW lost
  PROVE  LET ix == Indexed(t, listed, lost)
         IN  SummedUp(ix.partitions) = Shown(ix.metrics)
<1> DEFINE current == Current(FileRows(t, listed, lost))
           man == ManifestRows(t, listed)
           P == PartitionSummaries(current)
           D == Data(current)
<1>1. current \in SUBSET EntryRow /\ IsFiniteSet(current)
  BY RowsTyped, FiniteRows, FS_Subset
<1>2. Groups(P, current)
  BY <1>1, SummariesGroup
<1>3. \A p \in P :
        /\ p.file_count = Cardinality(Group(D, p.partition))
        /\ p.record_count = SumFunction(RowsOf(Group(D, p.partition)))
        /\ p.total_size = SumFunction(SizeOf(Group(D, p.partition)))
        /\ p.delete_file_count = Cardinality(Group(current \ D, p.partition))
  <2>1. P = {Summary(current, k) : k \in {r.entry.file.part : r \in current}}
    BY SummariesAreGroups
  <2> SUFFICES ASSUME NEW k PROVE
        LET p == Summary(current, k) IN
        /\ p.file_count = Cardinality(Group(D, p.partition))
        /\ p.record_count = SumFunction(RowsOf(Group(D, p.partition)))
        /\ p.total_size = SumFunction(SizeOf(Group(D, p.partition)))
        /\ p.delete_file_count = Cardinality(Group(current \ D, p.partition))
    <3> HIDE DEF P, D, current
    <3> QED  BY <2>1
  <2> HIDE DEF P, current
  <2> QED  BY DEF Summary
<1>4. D \in SUBSET current /\ current \ D \in SUBSET current
  BY DEF Data
<1>5. SizeOf(D) \in [D -> Nat] /\ RowsOf(D) \in [D -> Nat]
  BY <1>1, <1>4, WeightsTyped
<1>6. Shown(Indexed(t, listed, lost).metrics) =
        [file_count |-> Cardinality(D),
         data_size |-> SumFunction(SizeOf(D)),
         record_count |-> SumFunction(RowsOf(D)),
         delete_file_count |-> Cardinality(current \ D)]
  BY DEF Indexed, Metrics, Shown, Data, SizeOf, RowsOf
<1>7. Indexed(t, listed, lost).partitions = P
  BY DEF Indexed
<1> HIDE DEF P, D, current
<1>8. SumFunction([p \in P |-> p.file_count]) = Cardinality(D)
  <2>1. [p \in P |-> p.file_count] =
          [p \in P |-> Cardinality(Group(D, p.partition))]
    BY <1>3
  <2> QED  BY <1>1, <1>2, <1>4, <2>1, GroupedCount
<1>9. SumFunction([p \in P |-> p.delete_file_count]) = Cardinality(current \ D)
  <2> DEFINE E == current \ D
  <2>1. [p \in P |-> p.delete_file_count] =
          [p \in P |-> Cardinality(Group(E, p.partition))]
    BY <1>3
  <2>2. E \in SUBSET current
    OBVIOUS
  <2> HIDE DEF E
  <2>3. SumFunction([p \in P |-> p.delete_file_count]) = Cardinality(E)
    BY <1>1, <1>2, <2>1, <2>2, GroupedCount
  <2> QED  BY <2>3 DEF E
<1>10. SumFunction([p \in P |-> p.total_size]) = SumFunction(SizeOf(D))
  <2>1. \A k : SizeOf(Group(D, k)) = [r \in Group(D, k) |-> SizeOf(D)[r]]
    BY DEF SizeOf, Group
  <2>2. [p \in P |-> p.total_size] =
          [p \in P |-> SumFunction([r \in Group(D, p.partition) |->
                                      SizeOf(D)[r]])]
    BY <1>3, <2>1
  <2> QED  BY <1>1, <1>2, <1>4, <1>5, <2>2, GroupedSum
<1>11. SumFunction([p \in P |-> p.record_count]) = SumFunction(RowsOf(D))
  <2>1. \A k : RowsOf(Group(D, k)) = [r \in Group(D, k) |-> RowsOf(D)[r]]
    BY DEF RowsOf, Group
  <2>2. [p \in P |-> p.record_count] =
          [p \in P |-> SumFunction([r \in Group(D, p.partition) |->
                                      RowsOf(D)[r]])]
    BY <1>3, <2>1
  <2> QED  BY <1>1, <1>2, <1>4, <1>5, <2>2, GroupedSum
<1> QED  BY <1>6, <1>7, <1>8, <1>9, <1>10, <1>11 DEF SummedUp

-----------------------------------------------------------------------------
-----------------------------------------------------------------------------
(* The files of a table and the manifests of its head.                     *)
Live(m) == {e \in m.entries : e.entry_status # "DELETED"}

(* A row is that of a live entry of m.                                     *)
LiveRow(m, r) == r = [by |-> m.by, entry |-> r.entry] /\ r.entry \in Live(m)

(* The rows of a whole read are the live entries of the manifests.         *)
LEMMA LiveRows ==
  ASSUME NEW t, NEW r
  PROVE  r \in Current(FileRows(t, TRUE, {})) <=>
           \E m \in ManifestRows(t, TRUE) : LiveRow(m, r)
<1> DEFINE All(m) == {[by |-> m.by, entry |-> e] : e \in m.entries}
<1>1. \A m : r \in All(m) <=>
        r = [by |-> m.by, entry |-> r.entry] /\ r.entry \in m.entries
  OBVIOUS
<1>2. FileRows(t, TRUE, {}) = UNION {All(m) : m \in ManifestRows(t, TRUE)}
  <2>1. ManifestRows(t, TRUE) \ {} = ManifestRows(t, TRUE)
    OBVIOUS
  <2> QED  BY <2>1, Zenon DEF FileRows
<1> HIDE DEF All
<1>3. r \in FileRows(t, TRUE, {}) <=>
        \E m \in ManifestRows(t, TRUE) : r \in All(m)
  BY <1>2
<1>4. \A m : LiveRow(m, r) <=>
        r \in All(m) /\ r.entry.entry_status # "DELETED"
  BY <1>1 DEF LiveRow, Live
<1> QED  BY <1>3, <1>4 DEF Current

(* The manifests name the files fs, each in one live entry.                *)
Names(manifests, fs) ==
  /\ \A m, n \in manifests : \A d \in Live(m), e \in Live(n) :
       d.file = e.file => m = n /\ d = e
  /\ \A m \in manifests : \A e \in Live(m) : e.file \in fs
  /\ \A f \in fs : \E m \in manifests : \E e \in Live(m) : e.file = f

(* No file is named twice.                                                 *)
LEMMA OneEntry ==
  ASSUME NEW K, NEW fs, Names(K, fs), NEW m \in K, NEW n \in K,
         NEW d \in Live(m), NEW e \in Live(n), d.file = e.file
  PROVE  m = n /\ d = e
BY Zenon DEF Names

(* A sync that reads everything counts the files that the manifests name,  *)
(* each once.                                                              *)
LEMMA NamedFilesAreCounted ==
  ASSUME NEW t \in TableRecord, NEW fs,
         Names(ManifestRows(t, TRUE), fs)
  PROVE  Shown(Indexed(t, TRUE, {}).metrics) = Counted(fs)
<1> DEFINE current == Current(FileRows(t, TRUE, {}))
           D == Data(current)
           f == [r \in current |-> r.entry.file]
           G == {x \in fs : x.content = "DATA"}
<1>1. current \in SUBSET EntryRow /\ IsFiniteSet(current)
  BY RowsTyped, FiniteRows, FS_Subset
<1>2. \A r : r \in current <=>
        \E m \in ManifestRows(t, TRUE) : LiveRow(m, r)
  BY LiveRows
<1>3. f \in [current -> fs] /\ \A x \in fs : \E r \in current : f[r] = x
  <2> HIDE DEF current
  <2>1. ASSUME NEW r \in current PROVE r.entry.file \in fs
    BY <1>2 DEF Names, LiveRow
  <2>2. ASSUME NEW x \in fs PROVE \E r \in current : r.entry.file = x
    <3>1. PICK m \in ManifestRows(t, TRUE) : \E e \in Live(m) : e.file = x
      BY DEF Names
    <3>2. PICK e \in Live(m) : e.file = x
      BY <3>1
    <3>3. LiveRow(m, [by |-> m.by, entry |-> e])
      BY DEF LiveRow
    <3> DEFINE r == [by |-> m.by, entry |-> e]
    <3>4. r.entry.file = x
      BY <3>2
    <3> HIDE DEF r
    <3>5. r \in current
      BY <1>2, <3>1, <3>3 DEF r
    <3> QED  BY <3>4, <3>5
  <2> QED  BY <2>1, <2>2
<1>4. \A r, q \in current : f[r] = f[q] => r = q
  <2> HIDE DEF current
  <2> SUFFICES ASSUME NEW r \in current, NEW q \in current, f[r] = f[q]
               PROVE  r = q
    OBVIOUS
  <2>1. PICK m \in ManifestRows(t, TRUE) : LiveRow(m, r)
    BY <1>2
  <2>2. PICK n \in ManifestRows(t, TRUE) : LiveRow(n, q)
    BY <1>2
  <2>3. r.entry.file = q.entry.file
    OBVIOUS
  <2>4. r.entry \in Live(m) /\ q.entry \in Live(n)
    BY <2>1, <2>2 DEF LiveRow
  <2>5. m = n /\ r.entry = q.entry
    BY <2>3, <2>4, OneEntry
  <2> QED  BY <2>1, <2>2, <2>5 DEF LiveRow
<1>5. /\ D \subseteq current /\ current \ D \subseteq current
      /\ \A r \in current : r \in D <=> f[r] \in G
  BY <1>3 DEF Data
<1>6. Shown(Indexed(t, TRUE, {}).metrics) =
        [file_count |-> Cardinality(D),
         data_size |-> SumFunction(SizeOf(D)),
         record_count |-> SumFunction(RowsOf(D)),
         delete_file_count |-> Cardinality(current \ D)]
  BY DEF Indexed, Metrics, Shown, Data, SizeOf, RowsOf
<1>7. /\ SizeOf(D) \in [D -> Nat] /\ RowsOf(D) \in [D -> Nat]
      /\ IsFiniteSet(D) /\ IsFiniteSet(current \ D)
  BY <1>1, <1>5, WeightsTyped, FS_Subset
<1>8. \A r \in D : /\ SizeOf(D)[r] = f[r].size
                   /\ RowsOf(D)[r] = f[r].rows
  BY <1>5 DEF SizeOf, RowsOf
<1>9. Counted(fs) =
        [file_count |-> Cardinality(G),
         data_size |-> SumFunction([x \in G |-> x.size]),
         record_count |-> SumFunction([x \in G |-> x.rows]),
         delete_file_count |-> Cardinality(fs \ G)]
  BY DEF Counted
<1>10. G \subseteq fs
  OBVIOUS
<1> HIDE DEF current, D, f, G
<1> DEFINE g == [r \in D |-> f[r]]
           h == [r \in current \ D |-> f[r]]
<1>11. g \in Bijection(D, G)
  BY <1>3, <1>4, <1>5, <1>10 DEF Bijection, Injection, Surjection, IsInjective
<1>12. h \in Bijection(current \ D, fs \ G)
  BY <1>3, <1>4, <1>5, <1>10 DEF Bijection, Injection, Surjection, IsInjective
<1>13. /\ IsFiniteSet(G) /\ Cardinality(G) = Cardinality(D)
       /\ Cardinality(fs \ G) = Cardinality(current \ D)
  BY <1>7, <1>11, <1>12, FS_Bijection DEF ExistsBijection
<1>14. \A r \in D : g[r] \in G /\ \E x \in D : g[x] = g[r]
  BY <1>11 DEF Bijection, Injection
<1>15. /\ [x \in G |-> x.size] \in [G -> Nat]
       /\ [x \in G |-> x.rows] \in [G -> Nat]
  <2> SUFFICES ASSUME NEW x \in G PROVE x.size \in Nat /\ x.rows \in Nat
    OBVIOUS
  <2>1. PICK r \in D : g[r] = x
    BY <1>11 DEF Bijection, Surjection
  <2>2. x.size = SizeOf(D)[r] /\ x.rows = RowsOf(D)[r]
    BY <1>8, <2>1
  <2> QED  BY <1>7, <2>2
<1>16. /\ \A r \in D : [x \in G |-> x.size][g[r]] = SizeOf(D)[r]
       /\ \A r \in D : [x \in G |-> x.rows][g[r]] = RowsOf(D)[r]
  BY <1>8, <1>14
<1> HIDE DEF g
<1> DEFINE sizes == [x \in G |-> x.size]
           rows == [x \in G |-> x.rows]
<1>17. /\ sizes \in [G -> Nat] /\ rows \in [G -> Nat]
       /\ \A r \in D : sizes[g[r]] = SizeOf(D)[r]
       /\ \A r \in D : rows[g[r]] = RowsOf(D)[r]
  BY <1>15, <1>16
<1> HIDE DEF sizes, rows
<1>18. SumFunction(SizeOf(D)) = SumFunction(sizes)
  BY <1>7, <1>11, <1>13, <1>17, SameSum
<1>19. SumFunction(RowsOf(D)) = SumFunction(rows)
  BY <1>7, <1>11, <1>13, <1>17, SameSum
<1> QED  BY <1>6, <1>9, <1>13, <1>18, <1>19 DEF sizes, rows

-----------------------------------------------------------------------------
(* The invariant.                                                          *)

(* A table t on the day now: commits are numbered without gaps, and their  *)
(* days never decrease.                                                    *)
TableHolds(t, now) ==
  /\ t \in TableRecord
  /\ \A s \in SnapshotId : t.manifests[s] # {} <=> s <= t.head
  /\ t.snapshots \subseteq 1..t.head
  /\ \A r, s \in 1..t.head : r <= s => t.day[r] <= t.day[s]
  /\ \A s \in 1..t.head : t.day[s] <= now
  /\ now \in Day

(* A reader who has seen these snapshots misses only newer ones.           *)
Seen(t, seen) ==
  /\ seen \subseteq 1..t.head
  /\ \A s \in t.snapshots \ seen : \A r \in seen : r < s

IndexHolds(t, ix) ==
  /\ IndexRecord(ix) /\ Seen(t, ix.snapshots)
  /\ \A s \in ix.snapshots : ix.day[s] = t.day[s]

NewerIn(S, s) == Cardinality({r \in S : r > s})

(* Not among the newest n of S.                                            *)
NotRetained(S, n, s) ==
  ~(NewerIn(S, s) < IF n >= 0 THEN n ELSE Cardinality(S) + n)

PlanHolds(t, p) ==
  /\ p.request \in Request /\ Seen(t, p.seen) /\ p.expiring \subseteq p.seen
  /\ \A s \in p.expiring :
       /\ t.day[s] < p.request.older_than
       /\ NotRetained(p.seen, p.request.retain_last, s)

LifecycleInv ==
  /\ TableHolds(table, today)
  /\ files \subseteq used /\ used \subseteq File
  /\ Names(ManifestRows(table, TRUE), files)
  /\ index # None => IndexHolds(table, index)
  /\ plan # None => PlanHolds(table, plan)
  /\ IndexIsOneSnapshot

(* What any step of a writer leaves to those who have read the table.      *)
Extends(t, u) ==
  /\ t.head <= u.head
  /\ \A s \in 1..t.head : u.day[s] = t.day[s]
  /\ \A s \in u.snapshots \ t.snapshots : t.head < s

(* An index and a plan outlive the steps of writers.                       *)
LEMMA ReadersHold ==
  ASSUME NEW t, NEW u, NEW now, NEW later,
         TableHolds(t, now), TableHolds(u, later), Extends(t, u)
  PROVE  /\ \A ix : IndexHolds(t, ix) => IndexHolds(u, ix)
         /\ \A p : PlanHolds(t, p) => PlanHolds(u, p)
<1>1. t.head \in Nat /\ u.head \in Nat
  BY TableLifecycleAssumption DEF TableHolds, TableRecord
<1>2. ASSUME NEW S, Seen(t, S) PROVE Seen(u, S)
  <2>1. S \subseteq 1..u.head
    BY <1>1, <1>2 DEF Seen, Extends
  <2>2. ASSUME NEW s \in u.snapshots \ S, NEW r \in S PROVE r < s
    <3>1. r \in 1..t.head /\ s \in 1..u.head
      BY <1>2 DEF Seen, TableHolds
    <3>2. CASE s \in t.snapshots
      BY <1>2, <3>2 DEF Seen
    <3>3. CASE s \notin t.snapshots
      BY <1>1, <3>1, <3>3 DEF Extends
    <3> QED  BY <3>2, <3>3
  <2> QED  BY <2>1, <2>2 DEF Seen
<1>3. ASSUME NEW S, Seen(t, S) PROVE \A s \in S : u.day[s] = t.day[s]
  BY <1>3 DEF Seen, Extends
<1>4. ASSUME NEW ix, IndexHolds(t, ix) PROVE IndexHolds(u, ix)
  BY <1>2, <1>3, <1>4 DEF IndexHolds
<1>5. ASSUME NEW p, PlanHolds(t, p) PROVE PlanHolds(u, p)
  BY <1>2, <1>3, <1>5 DEF PlanHolds
<1> QED  BY <1>4, <1>5

(* Nothing but main is committed to: its head is the last commit.          *)
LEMMA LastIsHead ==
  ASSUME TableHolds(table, today) PROVE LastCommit = table.head
<1>1. table.head \in 0..MaxCommits /\ MaxCommits \in Nat
  BY TableLifecycleAssumption DEF TableHolds, TableRecord
<1>2. {s \in SnapshotId : table.manifests[s] # {}} = 1..table.head
  BY <1>1 DEF TableHolds, SnapshotId
<1>3. Cardinality(1..table.head) = table.head
  BY <1>1, FS_Interval
<1> QED  BY <1>2, <1>3 DEF LastCommit

(* A commit extends the table.                                             *)
LEMMA CommitHolds ==
  ASSUME TableHolds(table, today), LastCommit < MaxCommits,
         NEW K \in SUBSET Manifest(SnapshotId), K # {}
  PROVE  /\ TableHolds(Committed(K), today)
         /\ Extends(table, Committed(K))
         /\ ManifestRows(Committed(K), TRUE) = K
<1> DEFINE s == table.head + 1
           u == Committed(K)
           refs == (table.refs \ {Main(table.head, table.main_ages)})
                     \cup {Main(s, table.main_ages)}
<1>1. LastCommit = table.head
  BY LastIsHead
<1>2. /\ table.head \in 0..MaxCommits /\ MaxCommits \in Nat
      /\ s \in SnapshotId /\ s \in 1..MaxCommits /\ s # 0
      /\ table \in TableRecord /\ today \in Day
  BY <1>1, TableLifecycleAssumption DEF TableHolds, TableRecord, SnapshotId
<1>3. u = [table EXCEPT !.head = s,
             !.snapshots = table.snapshots \cup {s},
             !.day = [table.day EXCEPT ![s] = today],
             !.manifests = [table.manifests EXCEPT ![s] = K],
             !.refs = refs]
  BY <1>1 DEF Committed
<1>4. refs \subseteq Ref(SnapshotId)
  <2>1. table.main_ages \in BOOLEAN /\ table.refs \subseteq Ref(SnapshotId)
    BY <1>2 DEF TableRecord
  <2>2. Main(s, table.main_ages) \in Ref(SnapshotId)
    BY <1>2, <2>1 DEF Main, Ref
  <2> QED  BY <2>1, <2>2
<1> HIDE DEF refs
<1>5. /\ u.head = s /\ u.snapshots = table.snapshots \cup {s}
      /\ u.day = [table.day EXCEPT ![s] = today]
      /\ u.manifests = [table.manifests EXCEPT ![s] = K]
      /\ u \in TableRecord
  <2> DEFINE days == [table.day EXCEPT ![s] = today]
             lists == [table.manifests EXCEPT ![s] = K]
             snapshots == table.snapshots \cup {s}
  <2>1. /\ days \in [SnapshotId -> Day]
        /\ lists \in [SnapshotId -> SUBSET Manifest(SnapshotId)]
        /\ snapshots \in SUBSET SnapshotId
    BY <1>2 DEF TableRecord
  <2>2. u = [table EXCEPT !.head = s, !.snapshots = snapshots, !.day = days,
                          !.manifests = lists, !.refs = refs]
    BY <1>3
  <2> HIDE DEF days, lists, snapshots, u
  <2>3. /\ u.head = s /\ u.snapshots = snapshots /\ u.day = days
        /\ u.manifests = lists /\ u \in TableRecord
    <3>1. s \in 0..MaxCommits
      BY <1>2
    <3> HIDE DEF s
    <3> QED  BY <1>2, <1>4, <2>1, <2>2, <3>1 DEF TableRecord
  <2> QED  BY <2>3 DEF days, lists, snapshots
<1>6. /\ \A r \in SnapshotId : u.day[r] = IF r = s THEN today ELSE table.day[r]
      /\ \A r \in SnapshotId :
           u.manifests[r] = IF r = s THEN K ELSE table.manifests[r]
  BY <1>2, <1>5 DEF TableRecord
<1> HIDE DEF u
<1>7. 1..u.head = (1..table.head) \cup {s} /\ 1..u.head \subseteq SnapshotId
      /\ 1..table.head \subseteq SnapshotId
  BY <1>2, <1>5 DEF SnapshotId
<1>8. \A r \in SnapshotId : u.manifests[r] # {} <=> r <= u.head
  BY <1>2, <1>5, <1>6 DEF TableHolds, SnapshotId
<1>9. \A r \in 1..table.head : table.day[r] <= today /\ table.day[r] \in Day
  BY <1>2, <1>7 DEF TableHolds, TableRecord
<1>10. \A q, r \in 1..u.head : q <= r => u.day[q] <= u.day[r]
  <2> SUFFICES ASSUME NEW q \in 1..u.head, NEW r \in 1..u.head, q <= r
               PROVE  u.day[q] <= u.day[r]
    OBVIOUS
  <2>1. CASE r = s
    BY <1>2, <1>6, <1>7, <1>9, <2>1, TableLifecycleAssumption DEF Day
  <2>2. CASE r # s
    <3>1. q \in 1..table.head /\ r \in 1..table.head /\ q # s
      BY <1>2, <1>7, <2>2
    <3> QED  BY <1>6, <1>7, <2>2, <3>1 DEF TableHolds
  <2> QED  BY <2>1, <2>2
<1>11. \A r \in 1..u.head : u.day[r] <= today
  BY <1>2, <1>6, <1>7, <1>9, TableLifecycleAssumption DEF Day
<1>12. TableHolds(u, today)
  BY <1>2, <1>5, <1>7, <1>8, <1>10, <1>11 DEF TableHolds
<1>13. Extends(table, u)
  BY <1>2, <1>5, <1>6, <1>7 DEF Extends
<1>14. ManifestRows(u, TRUE) = K
  BY <1>2, <1>5, <1>6 DEF ManifestRows
<1> QED  BY <1>12, <1>13, <1>14 DEF u

(* Changes of references and snapshots.                                    *)
LEMMA RefsHold ==
  ASSUME NEW t, NEW now, TableHolds(t, now), NEW R \in SUBSET Ref(SnapshotId)
  PROVE  LET u == [t EXCEPT !.refs = R] IN
         /\ TableHolds(u, now) /\ Extends(t, u)
         /\ ManifestRows(u, TRUE) = ManifestRows(t, TRUE)
<1> DEFINE u == [t EXCEPT !.refs = R]
<1>1. /\ u \in TableRecord
      /\ u.head = t.head /\ u.snapshots = t.snapshots /\ u.day = t.day
      /\ u.manifests = t.manifests
  BY DEF TableHolds, TableRecord
<1> HIDE DEF u
<1>2. TableHolds(u, now)
  BY <1>1 DEF TableHolds
<1>3. Extends(t, u)
  BY <1>1 DEF Extends, TableRecord
<1>4. ManifestRows(u, TRUE) = ManifestRows(t, TRUE)
  BY <1>1 DEF ManifestRows
<1> QED  BY <1>2, <1>3, <1>4 DEF u

(* So does an expiry.                                                      *)
LEMMA ExpiryHolds ==
  ASSUME NEW t, NEW now, TableHolds(t, now), NEW S \in SUBSET t.snapshots
  PROVE  LET u == [t EXCEPT !.snapshots = S] IN
         /\ TableHolds(u, now) /\ Extends(t, u)
         /\ ManifestRows(u, TRUE) = ManifestRows(t, TRUE)
<1> DEFINE u == [t EXCEPT !.snapshots = S]
<1>1. /\ u \in TableRecord
      /\ u.head = t.head /\ u.snapshots = S /\ u.day = t.day
      /\ u.manifests = t.manifests
  BY DEF TableHolds, TableRecord
<1> HIDE DEF u
<1>2. TableHolds(u, now)
  BY <1>1 DEF TableHolds
<1>3. Extends(t, u)
  BY <1>1 DEF Extends, TableRecord
<1>4. ManifestRows(u, TRUE) = ManifestRows(t, TRUE)
  BY <1>1 DEF ManifestRows
<1> QED  BY <1>2, <1>3, <1>4 DEF u

(* A manifest with one live entry adds its file.                           *)
LEMMA NamesOneMore ==
  ASSUME NEW K, NEW fs, Names(K, fs), NEW f, f \notin fs,
         NEW n, NEW e, Live(n) = {e}, e.file = f
  PROVE  Names(K \cup {n}, fs \cup {f})
<1>1. \A m \in K : \A d \in Live(m) : d.file # f
  BY DEF Names
<1>2. ASSUME NEW m1 \in K \cup {n}, NEW m2 \in K \cup {n},
             NEW d1 \in Live(m1), NEW d2 \in Live(m2), d1.file = d2.file
      PROVE  m1 = m2 /\ d1 = d2
  <2>1. CASE m1 \in K /\ m2 \in K
    BY <1>2, <2>1, OneEntry
  <2>2. CASE m1 = n /\ m2 = n
    BY <1>2, <2>2
  <2>3. CASE m1 = n /\ m2 \in K
    BY <1>1, <1>2, <2>3
  <2>4. CASE m2 = n /\ m1 \in K
    BY <1>1, <1>2, <2>4
  <2> QED  BY <2>1, <2>2, <2>3, <2>4
<1>3. \A m \in K \cup {n} : \A d \in Live(m) : d.file \in fs \cup {f}
  BY DEF Names
<1>4. \A x \in fs \cup {f} : \E m \in K \cup {n} : \E d \in Live(m) : d.file = x
  BY DEF Names
<1> QED  BY <1>2, <1>3, <1>4 DEF Names

(* The new manifest of a commit.                                           *)
Added(f) == [by |-> LastCommit + 1,
             entries |-> {[file |-> f, entry_status |-> "ADDED"]}]

(* It has one live entry,                                                  *)
LEMMA AddedLive ==
  ASSUME NEW f
  PROVE  Live(Added(f)) = {[file |-> f, entry_status |-> "ADDED"]}
BY DEF Added, Live

(* and its type.                                                           *)
LEMMA AddedTyped ==
  ASSUME NEW f \in File, TableHolds(table, today), LastCommit < MaxCommits
  PROVE  Added(f) \in Manifest(SnapshotId)
<1>1. LastCommit + 1 \in SnapshotId
  BY LastIsHead, TableLifecycleAssumption
  DEF TableHolds, TableRecord, SnapshotId
<1> QED  BY <1>1 DEF Added, Manifest, EntryStatus

(* What a commit to the table leaves.                                      *)
LEMMA CommitKeepsInv ==
  ASSUME LifecycleInv, LastCommit < MaxCommits,
         NEW K \in SUBSET Manifest(SnapshotId), K # {}, NEW fs, Names(K, fs),
         fs \subseteq used', used' \subseteq File,
         table' = Committed(K), files' = fs,
         UNCHANGED <<index, plan, today, synced>>
  PROVE  LifecycleInv'
<1>1. /\ TableHolds(table', today') /\ Extends(table, table')
      /\ ManifestRows(table', TRUE) = K
  BY CommitHolds DEF LifecycleInv
<1>2. /\ index' # None => IndexHolds(table', index')
      /\ plan' # None => PlanHolds(table', plan')
  BY <1>1, ReadersHold DEF LifecycleInv
<1>3. IndexIsOneSnapshot'
  BY DEF LifecycleInv, IndexIsOneSnapshot
<1> QED  BY <1>1, <1>2, <1>3 DEF LifecycleInv

(* A commit starts from the manifests of the head.                         *)
LEMMA KeptTyped ==
  ASSUME TableHolds(table, today)
  PROVE  Kept = ManifestRows(table, TRUE) /\ Kept \subseteq Manifest(SnapshotId)
BY RowsTyped DEF Kept, ManifestRows, TableHolds

-----------------------------------------------------------------------------
(* Each action keeps the invariant.                                        *)
LEMMA AppendKeeps ==
  ASSUME LifecycleInv, NEW f \in File, AppendFile(f)
  PROVE  LifecycleInv'
<1> DEFINE K == Kept \cup {Added(f)}
<1>1. /\ LastCommit < MaxCommits /\ f \notin files /\ table' = Committed(K)
      /\ files' = files \cup {f}
      /\ files' \subseteq used' /\ used' \subseteq File
      /\ UNCHANGED <<index, plan, today, synced>>
  BY DEF AppendFile, LifecycleInv, Added
<1>2. K \in SUBSET Manifest(SnapshotId) /\ K # {}
  BY <1>1, KeptTyped, AddedTyped DEF LifecycleInv
<1>3. Names(K, files \cup {f})
  <2> DEFINE e == [file |-> f, entry_status |-> "ADDED"]
  <2>1. Live(Added(f)) = {e} /\ e.file = f
    BY AddedLive
  <2>2. Names(Kept, files)
    BY KeptTyped DEF LifecycleInv
  <2> HIDE DEF e
  <2> QED  BY <1>1, <2>1, <2>2, NamesOneMore
<1> HIDE DEF K
<1> QED  BY <1>1, <1>2, <1>3, CommitKeepsInv

Touched(old, m) ==
  \E e \in m.entries : e.file \in old /\ e.entry_status # "DELETED"

Replaced(old, m) == IF Touched(old, m) THEN Rewritten(old, m) ELSE m

(* The live entries of a rewritten manifest are those of the other files.  *)
Renewed(e) == [file |-> e.file, entry_status |-> "EXISTING"]

LEMMA RewrittenLive ==
  ASSUME NEW old, NEW m
  PROVE  /\ \A e \in Live(m) :
              e.file \notin old => Renewed(e) \in Live(Rewritten(old, m))
         /\ \A d \in Live(Rewritten(old, m)) :
              \E e \in Live(m) : e.file \notin old /\ d = Renewed(e)
<1> DEFINE new(e) == [file |-> e.file,
                      entry_status |-> IF e.file \in old THEN "DELETED"
                                       ELSE "EXISTING"]
<1>1. Rewritten(old, m).entries = {new(e) : e \in Live(m)}
  BY DEF Rewritten, Live
<1>2. \A e : e.file \notin old =>
        new(e) = Renewed(e) /\ new(e).entry_status # "DELETED"
  BY DEF Renewed
<1>3. \A e : e.file \in old => new(e).entry_status = "DELETED"
  OBVIOUS
<1> HIDE DEF new
<1> QED  BY <1>1, <1>2, <1>3 DEF Live

(* Rewriting manifests loses and invents no file.                          *)
LEMMA NamesRewritten ==
  ASSUME NEW K, NEW fs, Names(K, fs), NEW old,
         NEW Q, Q = {Replaced(old, m) : m \in {m \in K : Live(m) # {}}}
  PROVE  Names(Q, fs \ old)
<1>1. ASSUME NEW q \in Q
      PROVE  \E m \in K : /\ q = Replaced(old, m)
                          /\ \A d \in Live(q) : \E e \in Live(m) :
                               /\ d.file = e.file /\ e.file \notin old
                               /\ d = IF Touched(old, m) THEN Renewed(e) ELSE e
  <2>1. PICK m \in K : Live(m) # {} /\ q = Replaced(old, m)
    OBVIOUS
  <2>2. CASE Touched(old, m)
    <3>1. q = Rewritten(old, m)
      BY <2>1, <2>2 DEF Replaced
    <3>2. \A d \in Live(q) : \E e \in Live(m) :
            e.file \notin old /\ d = Renewed(e)
      BY <3>1, RewrittenLive
    <3>3. \A e : Renewed(e).file = e.file
      BY DEF Renewed
    <3> QED  BY <2>1, <2>2, <3>2, <3>3
  <2>3. CASE ~Touched(old, m)
    <3>1. q = m /\ \A e \in Live(m) : e.file \notin old
      BY <2>1, <2>3 DEF Replaced, Touched, Live
    <3> QED  BY <2>1, <2>3, <3>1
  <2> QED  BY <2>2, <2>3
<1>2. ASSUME NEW m1 \in Q, NEW m2 \in Q, NEW d1 \in Live(m1),
             NEW d2 \in Live(m2), d1.file = d2.file
      PROVE  m1 = m2 /\ d1 = d2
  <2>1. PICK n1 \in K : /\ m1 = Replaced(old, n1)
                        /\ \E e \in Live(n1) :
                             /\ d1.file = e.file
                             /\ d1 = IF Touched(old, n1) THEN Renewed(e) ELSE e
    BY <1>1
  <2>2. PICK n2 \in K : /\ m2 = Replaced(old, n2)
                        /\ \E e \in Live(n2) :
                             /\ d2.file = e.file
                             /\ d2 = IF Touched(old, n2) THEN Renewed(e) ELSE e
    BY <1>1
  <2>3. PICK e1 \in Live(n1) :
          /\ d1.file = e1.file
          /\ d1 = IF Touched(old, n1) THEN Renewed(e1) ELSE e1
    BY <2>1
  <2>4. PICK e2 \in Live(n2) :
          /\ d2.file = e2.file
          /\ d2 = IF Touched(old, n2) THEN Renewed(e2) ELSE e2
    BY <2>2
  <2>5. e1.file = e2.file
    BY <1>2, <2>3, <2>4
  <2>6. n1 = n2 /\ e1 = e2
    BY <2>5, OneEntry
  <2> QED  BY <2>1, <2>2, <2>3, <2>4, <2>6
<1>3. ASSUME NEW q \in Q, NEW d \in Live(q) PROVE d.file \in fs \ old
  <2>1. PICK m \in K : \E e \in Live(m) : d.file = e.file /\ e.file \notin old
    BY <1>1
  <2> QED  BY <2>1 DEF Names
<1>4. ASSUME NEW x \in fs \ old
      PROVE  \E q \in Q : \E d \in Live(q) : d.file = x
  <2>1. PICK m \in K : \E e \in Live(m) : e.file = x
    BY DEF Names
  <2>2. PICK e \in Live(m) : e.file = x
    BY <2>1
  <2>3. Replaced(old, m) \in Q
    BY <2>2
  <2>4. CASE Touched(old, m)
    <3>1. Renewed(e) \in Live(Replaced(old, m))
      BY <2>2, <2>4, RewrittenLive DEF Replaced
    <3>2. Renewed(e).file = x
      BY <2>2 DEF Renewed
    <3> QED  BY <2>3, <3>1, <3>2
  <2>5. CASE ~Touched(old, m)
    BY <2>2, <2>3, <2>5 DEF Replaced
  <2> QED  BY <2>4, <2>5
<1> QED  BY <1>2, <1>3, <1>4 DEF Names

(* A rewritten manifest has its type.                                      *)
LEMMA RewrittenTyped ==
  ASSUME NEW m \in Manifest(SnapshotId), NEW old,
         TableHolds(table, today), LastCommit < MaxCommits
  PROVE  Replaced(old, m) \in Manifest(SnapshotId)
<1>1. LastCommit + 1 \in SnapshotId
  BY LastIsHead, TableLifecycleAssumption
  DEF TableHolds, TableRecord, SnapshotId
<1> DEFINE new(e) == [file |-> e.file,
                      entry_status |-> IF e.file \in old THEN "DELETED"
                                       ELSE "EXISTING"]
<1>2. \A e \in m.entries : new(e) \in Entry
  BY DEF Manifest, Entry, EntryStatus
<1>3. Rewritten(old, m) =
        [by |-> LastCommit + 1,
         entries |-> {new(e) : e \in {e \in m.entries :
                                        e.entry_status # "DELETED"}}]
  BY DEF Rewritten
<1> HIDE DEF new
<1>4. Rewritten(old, m) \in [by : SnapshotId, entries : SUBSET Entry]
  BY <1>1, <1>2, <1>3
<1> QED  BY <1>4 DEF Replaced, Manifest, Entry

LEMMA CompactKeeps ==
  ASSUME LifecycleInv, NEW old \in SUBSET files, NEW f \in File, Compact(old, f)
  PROVE  LifecycleInv'
<1> DEFINE Q == {Replaced(old, m) : m \in {m \in Kept : Live(m) # {}}}
           K == Q \cup {Added(f)}
           fs == (files \ old) \cup {f}
<1>1. /\ LastCommit < MaxCommits /\ f \notin files \ old
      /\ files' = fs /\ files' \subseteq used' /\ used' \subseteq File
      /\ UNCHANGED <<index, plan, today, synced>>
  BY DEF Compact, LifecycleInv
<1>2. table' = Committed(K)
  <2> DEFINE touched(m) == \E e \in m.entries :
                             e.file \in old /\ e.entry_status # "DELETED"
             live(m) == \E e \in m.entries : e.entry_status # "DELETED"
             R == {IF touched(m) THEN Rewritten(old, m) ELSE m
                     : m \in {m \in Kept : live(m)}}
  <2>1. table' = Committed(R \cup {Added(f)})
    BY DEF Compact, Added
  <2>2. \A m : live(m) <=> Live(m) # {}
    BY DEF Live
  <2>3. \A m : (IF touched(m) THEN Rewritten(old, m) ELSE m) = Replaced(old, m)
    BY DEF Replaced, Touched
  <2>4. R = Q
    <3> HIDE DEF touched, live
    <3> QED  BY <2>2, <2>3
  <2> QED  BY <2>1, <2>4
<1>3. K \in SUBSET Manifest(SnapshotId) /\ K # {}
  BY <1>1, KeptTyped, AddedTyped, RewrittenTyped DEF LifecycleInv
<1>4. Names(K, fs)
  <2> DEFINE e == [file |-> f, entry_status |-> "ADDED"]
  <2>1. Live(Added(f)) = {e} /\ e.file = f
    BY AddedLive
  <2>2. Names(Q, files \ old)
    BY KeptTyped, NamesRewritten DEF LifecycleInv
  <2> HIDE DEF e, Q
  <2> QED  BY <1>1, <2>1, <2>2, NamesOneMore
<1>5. fs \subseteq used'
  BY <1>1
<1> HIDE DEF K, fs
<1> QED  BY <1>1, <1>2, <1>3, <1>4, <1>5, CommitKeepsInv

(* What leaves the manifests of the head as they are.                      *)
LEMMA QuietKeeps ==
  ASSUME LifecycleInv, TableHolds(table', today'), Extends(table, table'),
         ManifestRows(table', TRUE) = ManifestRows(table, TRUE),
         UNCHANGED <<index, files, used, synced>>,
         plan' = plan \/ plan' = None
  PROVE  LifecycleInv'
<1>1. /\ index' # None => IndexHolds(table', index')
      /\ plan' # None => PlanHolds(table', plan')
  BY ReadersHold DEF LifecycleInv
<1>2. IndexIsOneSnapshot'
  BY DEF LifecycleInv, IndexIsOneSnapshot
<1> QED  BY <1>1, <1>2 DEF LifecycleInv

LEMMA NameSnapshotKeeps ==
  ASSUME LifecycleInv, NEW r \in Ref(table.snapshots), NameSnapshot(r)
  PROVE  LifecycleInv'
<1>1. TableHolds(table, today)
  BY DEF LifecycleInv
<1>2. r \in Ref(SnapshotId)
  BY <1>1 DEF TableHolds, TableRecord, Ref
<1> DEFINE R == table.refs \cup {r}
<1>3. R \in SUBSET Ref(SnapshotId)
  BY <1>1, <1>2 DEF TableHolds, TableRecord
<1>4. table' = [table EXCEPT !.refs = R]
      /\ UNCHANGED <<index, plan, today, files, used, synced>>
  BY DEF NameSnapshot, history
<1> HIDE DEF R
<1> QED  BY <1>1, <1>3, <1>4, RefsHold, QuietKeeps

LEMMA DropRefKeeps ==
  ASSUME LifecycleInv, NEW r, DropRef(r)
  PROVE  LifecycleInv'
<1>1. TableHolds(table, today)
  BY DEF LifecycleInv
<1> DEFINE R == table.refs \ {r}
<1>2. R \in SUBSET Ref(SnapshotId)
  BY <1>1 DEF TableHolds, TableRecord
<1>3. table' = [table EXCEPT !.refs = R]
      /\ UNCHANGED <<index, plan, today, files, used, synced>>
  BY DEF DropRef, history
<1> HIDE DEF R
<1> QED  BY <1>1, <1>2, <1>3, RefsHold, QuietKeeps

LEMMA ExpireKeeps ==
  ASSUME LifecycleInv, Expire
  PROVE  LifecycleInv'
<1>1. TableHolds(table, today)
  BY DEF LifecycleInv
<1> DEFINE S == table.snapshots
                  \ (plan.expiring \ {r.snapshot : r \in table.refs})
<1>2. S \in SUBSET table.snapshots
  OBVIOUS
<1>3. table' = [table EXCEPT !.snapshots = S] /\ plan' = None
      /\ UNCHANGED <<index, today, files, used, synced>>
  BY DEF Expire, history
<1> HIDE DEF S
<1> QED  BY <1>1, <1>2, <1>3, ExpiryHolds, QuietKeeps

LEMMA NextDayKeeps ==
  ASSUME LifecycleInv, NextDay
  PROVE  LifecycleInv'
<1>1. TableHolds(table, today) /\ today < MaxDay /\ today' = today + 1
      /\ UNCHANGED <<table, index, plan, files, used, synced>>
  BY DEF LifecycleInv, NextDay, history
<1>2. today' \in Day /\ today <= today' /\ today \in Nat
  BY <1>1, TableLifecycleAssumption DEF TableHolds, Day
<1>3. \A s \in 1..table.head : table.day[s] \in Int
  <2>1. 1..table.head \subseteq SnapshotId /\ table.day \in [SnapshotId -> Day]
    BY <1>1, TableLifecycleAssumption DEF TableHolds, TableRecord, SnapshotId
  <2> QED  BY <2>1 DEF Day
<1>4. TableHolds(table', today')
  BY <1>1, <1>2, <1>3 DEF TableHolds
<1>5. Extends(table, table')
  BY <1>1, TableLifecycleAssumption DEF Extends, TableHolds, TableRecord
<1> QED  BY <1>1, <1>4, <1>5, QuietKeeps

(* A sync copies a table that holds.                                       *)
LEMMA IndexedHolds ==
  ASSUME NEW t, NEW now, TableHolds(t, now), NEW listed, NEW lost
  PROVE  IndexHolds(t, Indexed(t, listed, lost))
<1> DEFINE ix == Indexed(t, listed, lost)
<1>1. IndexRecord(ix)
  BY IndexedTyped DEF TableHolds
<1>2. ix.snapshots = t.snapshots /\ ix.day = [s \in t.snapshots |-> t.day[s]]
  BY DEF Indexed
<1> HIDE DEF ix
<1>3. Seen(t, ix.snapshots)
  BY <1>2 DEF Seen, TableHolds
<1> QED  BY <1>1, <1>2, <1>3 DEF IndexHolds, ix

LEMMA SyncKeeps ==
  ASSUME LifecycleInv, NEW listed \in BOOLEAN, NEW lost \in SUBSET Kept,
         Sync(listed, lost)
  PROVE  LifecycleInv'
<1>1. TableHolds(table, today) /\ Names(Kept, files)
  BY KeptTyped DEF LifecycleInv
<1>2. /\ index' = Indexed(table, listed, lost)
      /\ ~listed => table.head # 0 /\ lost = {}
      /\ synced' = IF listed /\ lost = {}
                   THEN [files |-> files, whole |-> TRUE] ELSE Partial
      /\ UNCHANGED <<table, plan, today, files, used>>
  BY DEF Sync, history
<1>3. IndexHolds(table', index')
  BY <1>1, <1>2, IndexedHolds
<1>4. IndexIsOneSnapshot'
  <2> DEFINE ix == Indexed(table, listed, lost)
  <2>1. SummedUp(ix.partitions) = Shown(ix.metrics)
    BY <1>1, SummariesAddUp DEF TableHolds
  <2>2. ix.marks = {} <=> ~ParseErrors(table, listed, lost)
    BY DEF Indexed
  <2>3. ParseErrors(table, listed, lost) <=> ~(listed /\ lost = {})
    BY <1>2 DEF ParseErrors, ManifestRows, Kept
  <2>4. synced'.whole <=> listed /\ lost = {}
    BY <1>2 DEF Partial
  <2>5. ASSUME listed /\ lost = {}
        PROVE  Shown(ix.metrics) = Counted(synced'.files)
    <3>1. ix = Indexed(table, TRUE, {}) /\ synced'.files = files
      BY <1>2, <2>5
    <3>2. Shown(Indexed(table, TRUE, {}).metrics) = Counted(files)
      BY <1>1, KeptTyped, NamedFilesAreCounted DEF TableHolds
    <3> QED  BY <3>1, <3>2
  <2> HIDE DEF ix
  <2>6. index' = ix
    BY <1>2 DEF ix
  <2> QED  BY <2>1, <2>2, <2>3, <2>4, <2>5, <2>6 DEF IndexIsOneSnapshot
<1> QED  BY <1>2, <1>3, <1>4 DEF LifecycleInv

(* A new row has no partitions, and sums of 0.                             *)
LEMMA EmptySums == SumFunction([p \in {} |-> p.file_count]) = 0
                   /\ SumFunction([p \in {} |-> p.total_size]) = 0
                   /\ SumFunction([p \in {} |-> p.record_count]) = 0
                   /\ SumFunction([p \in {} |-> p.delete_file_count]) = 0
<1>1. ASSUME NEW w, w \in [{} -> Nat] PROVE SumFunction(w) = 0
  <2>1. SumFunction(w) = Cardinality(Units(w, {}))
    BY <1>1, FS_EmptySet, SumCounts
  <2>2. Units(w, {}) = {}
    BY DEF Units
  <2> QED  BY <2>1, <2>2, FS_EmptySet
<1>2. /\ [p \in {} |-> p.file_count] \in [{} -> Nat]
      /\ [p \in {} |-> p.total_size] \in [{} -> Nat]
      /\ [p \in {} |-> p.record_count] \in [{} -> Nat]
      /\ [p \in {} |-> p.delete_file_count] \in [{} -> Nat]
  OBVIOUS
<1> QED  BY <1>1, <1>2

(* A first sync that fails writes an empty row.                            *)
LEMMA NewRowHolds ==
  ASSUME NEW t
  PROVE  /\ IndexHolds(t, NewRow)
         /\ SummedUp(NewRow.partitions) = Shown(NewRow.metrics)
<1>1. IndexRecord(NewRow)
  BY DEF IndexRecord, NewRow, NoMetrics, Metric
<1>2. Seen(t, NewRow.snapshots)
  BY DEF Seen, NewRow
<1>3. SummedUp(NewRow.partitions) = Shown(NewRow.metrics)
  BY EmptySums DEF SummedUp, Shown, NewRow, NoMetrics
<1>4. NewRow.snapshots = {}
  BY DEF NewRow
<1> QED  BY <1>1, <1>2, <1>3, <1>4 DEF IndexHolds

LEMMA SyncFailsKeeps ==
  ASSUME LifecycleInv, SyncFails
  PROVE  LifecycleInv'
<1> DEFINE old == IF index = None THEN NewRow ELSE index
           marks == old.marks \cup {"metadata_parse_error"}
<1>1. /\ index' = [old EXCEPT !.marks = marks] /\ synced' = Partial
      /\ UNCHANGED <<table, plan, today, files, used>>
  BY DEF SyncFails, history
<1>2. /\ IndexHolds(table, old)
      /\ SummedUp(old.partitions) = Shown(old.metrics)
  BY NewRowHolds DEF LifecycleInv, IndexIsOneSnapshot
<1>3. marks \subseteq {"parse_errors", "metadata_parse_error"} /\ marks # {}
  BY <1>2 DEF IndexHolds, IndexRecord
<1> HIDE DEF old, marks
<1>4. /\ index'.metrics = old.metrics /\ index'.snapshots = old.snapshots
      /\ index'.day = old.day /\ index'.refs = old.refs
      /\ index'.partitions = old.partitions /\ index'.marks = marks
      /\ index' = [metrics |-> old.metrics, snapshots |-> old.snapshots,
                   day |-> old.day, refs |-> old.refs,
                   partitions |-> old.partitions, marks |-> marks]
  BY <1>1, <1>2 DEF IndexHolds, IndexRecord
<1>5. IndexHolds(table', index')
  <2>1. IndexRecord(index')
    BY <1>2, <1>3, <1>4 DEF IndexHolds, IndexRecord
  <2> QED  BY <1>1, <1>2, <1>4, <2>1 DEF IndexHolds
<1>6. IndexIsOneSnapshot'
  BY <1>1, <1>2, <1>3, <1>4 DEF IndexIsOneSnapshot, Partial
<1> QED  BY <1>1, <1>5, <1>6 DEF LifecycleInv

LEMMA SimulateKeeps ==
  ASSUME LifecycleInv, NEW q \in Request, SimulateRetention(q)
  PROVE  LifecycleInv'
<1> DEFINE found == SimulateExpire(index, q).expiring
           p == [request |-> q, seen |-> index.snapshots, expiring |-> found]
<1>1. /\ index # None /\ plan' = p
      /\ UNCHANGED <<table, index, today, files, used, synced>>
  BY DEF SimulateRetention, history
<1>2. IndexHolds(table, index)
  BY <1>1 DEF LifecycleInv
<1>3. found = Window(index, q) \ Protected(index)
  BY DEF SimulateExpire
<1>4. \A s \in found : /\ s \in index.snapshots
                       /\ index.day[s] < q.older_than
                       /\ s \notin Retained(index, q.retain_last)
  BY <1>3 DEF Window
<1>5. \A s \in index.snapshots : s \notin Retained(index, q.retain_last) =>
        NotRetained(index.snapshots, q.retain_last, s)
  BY DEF Retained, NotRetained, Newer, NewerIn
<1> HIDE DEF found
<1>6. PlanHolds(table, p)
  BY <1>2, <1>4, <1>5 DEF PlanHolds, IndexHolds
<1>7. IndexIsOneSnapshot'
  BY <1>1 DEF LifecycleInv, IndexIsOneSnapshot
<1> HIDE DEF p
<1> QED  BY <1>1, <1>6, <1>7 DEF LifecycleInv

LEMMA InitHolds == Init => LifecycleInv
<1> SUFFICES ASSUME Init PROVE LifecycleInv
  OBVIOUS
<1>1. PICK ages \in MainAges : table = [NoTable EXCEPT !.main_ages = ages]
  BY DEF Init
<1>2. /\ table.head = 0 /\ table.snapshots = {}
      /\ table.manifests = [s \in SnapshotId |-> {}]
      /\ table \in TableRecord
  BY <1>1, TableLifecycleAssumption DEF NoTable, TableRecord, Day
<1>3. today = 0 /\ 0 \in Day
  BY TableLifecycleAssumption DEF Init, Day
<1>4. TableHolds(table, today)
  BY <1>2, <1>3, TableLifecycleAssumption DEF TableHolds, SnapshotId
<1>5. ManifestRows(table, TRUE) = {} /\ files = {}
  BY <1>2 DEF ManifestRows, Init
<1>6. Names({}, {})
  BY DEF Names
<1> QED  BY <1>4, <1>5, <1>6 DEF LifecycleInv, Init, IndexIsOneSnapshot

(* Init establishes the invariant and every step keeps it.                 *)
LEMMA StepHolds == LifecycleInv /\ Next => LifecycleInv'
<1> SUFFICES ASSUME LifecycleInv, Next PROVE LifecycleInv'
  OBVIOUS
<1>1. ASSUME NEW f \in File, AppendFile(f) PROVE LifecycleInv'
  BY <1>1, AppendKeeps
<1>2. ASSUME NEW old \in SUBSET files, NEW f \in File, Compact(old, f)
      PROVE  LifecycleInv'
  BY <1>2, CompactKeeps
<1>3. ASSUME NEW r \in Ref(table.snapshots), NameSnapshot(r) PROVE LifecycleInv'
  BY <1>3, NameSnapshotKeeps
<1>4. ASSUME NEW r \in table.refs, DropRef(r) PROVE LifecycleInv'
  BY <1>4, DropRefKeeps
<1>5. ASSUME NEW listed \in BOOLEAN, NEW lost \in SUBSET Kept,
             Sync(listed, lost)
      PROVE  LifecycleInv'
  BY <1>5, SyncKeeps
<1>6. ASSUME NEW q \in Request, SimulateRetention(q) PROVE LifecycleInv'
  BY <1>6, SimulateKeeps
<1> QED  BY <1>1, <1>2, <1>3, <1>4, <1>5, <1>6, ExpireKeeps, NextDayKeeps,
            SyncFailsKeeps DEF Next

(* The invariant holds throughout.                                         *)
THEOREM LifecycleHolds == Spec => []LifecycleInv
<1>1. LifecycleInv /\ UNCHANGED vars => LifecycleInv'
  BY DEF vars, LifecycleInv, IndexIsOneSnapshot
<1> QED  BY <1>1, InitHolds, StepHolds, PTL DEF Spec

-----------------------------------------------------------------------------
(* The properties.                                                         *)
(* The properties follow from it.                                          *)
LEMMA InvTypes == LifecycleInv => TypeOK
<1> SUFFICES ASSUME LifecycleInv PROVE TypeOK
  OBVIOUS
<1>1. TypeOfTable
  BY TableLifecycleAssumption
  DEF LifecycleInv, TableHolds, TableRecord, TypeOfTable, SnapshotId
<1>2. index # None => TypeOfIndex
  BY DEF LifecycleInv, IndexHolds, IndexRecord, TypeOfIndex
<1>3. plan # None => plan.expiring \subseteq SnapshotId
  <2>1. 1..table.head \subseteq SnapshotId
    BY TableLifecycleAssumption
    DEF LifecycleInv, TableHolds, TableRecord, SnapshotId
  <2> QED  BY <2>1 DEF LifecycleInv, PlanHolds, Seen
<1> QED  BY <1>1, <1>2, <1>3 DEF LifecycleInv, TableHolds, TypeOK

(* Every variable has its type, whatever the writers do and a sync can read. *)
THEOREM LifecycleTyped == Spec => []TypeOK
BY LifecycleHolds, InvTypes, PTL

(* An index row without a mark counts exactly the files of the table it was *)
(* synced from, whatever was rewritten or could not be read                *)
(* (live_metadata.py:204-248, iceberg/service.py:705-711).                 *)
THEOREM IndexStaysOneSnapshot == Spec => []IndexIsOneSnapshot
<1>1. LifecycleInv => IndexIsOneSnapshot
  BY DEF LifecycleInv
<1> QED  BY <1>1, LifecycleHolds, PTL

(* Newer snapshots never bring an old one among the newest n.              *)
LEMMA StaysNotRetained ==
  ASSUME NEW S \in SUBSET SnapshotId, NEW T \in SUBSET SnapshotId,
         S \subseteq T, \A s \in T \ S : \A r \in S : r < s,
         NEW n \in Int, NEW s \in S, NotRetained(S, n, s)
  PROVE  NotRetained(T, n, s)
<1> DEFINE A == {r \in S : r > s}
           B == {r \in T : r > s}
           C == T \ S
<1>1. IsFiniteSet(T) /\ IsFiniteSet(S)
  <2>1. IsFiniteSet(SnapshotId)
    BY TableLifecycleAssumption, FS_Interval DEF SnapshotId
  <2> QED  BY <2>1, FS_Subset
<1>2. IsFiniteSet(A) /\ IsFiniteSet(C) /\ IsFiniteSet(B)
  <2>1. A \subseteq S /\ C \subseteq T /\ B \subseteq T
    OBVIOUS
  <2> QED  BY <1>1, <2>1, FS_Subset
<1>3. B = A \cup C /\ A \cap C = {} /\ T = S \cup C /\ S \cap C = {}
  BY DEF SnapshotId
<1>4. /\ Cardinality(A) \in Nat /\ Cardinality(B) \in Nat
      /\ Cardinality(C) \in Nat /\ Cardinality(S) \in Nat
      /\ Cardinality(T) \in Nat /\ Cardinality({}) = 0
  BY <1>1, <1>2, FS_CardinalityType, FS_EmptySet
<1> HIDE DEF A, B, C
<1>5. Cardinality(A \cup C)
        = Cardinality(A) + Cardinality(C) - Cardinality(A \cap C)
  BY <1>2, FS_Union
<1>6. Cardinality(S \cup C)
        = Cardinality(S) + Cardinality(C) - Cardinality(S \cap C)
  BY <1>1, <1>2, FS_Union
<1>7. /\ Cardinality(B) = Cardinality(A) + Cardinality(C)
      /\ Cardinality(T) = Cardinality(S) + Cardinality(C)
  <2>1. Cardinality(A \cap C) = 0 /\ Cardinality(S \cap C) = 0
    BY <1>3, <1>4
  <2>2. /\ Cardinality(A \cup C) = Cardinality(B)
        /\ Cardinality(S \cup C) = Cardinality(T)
    BY <1>3
  <2> QED  BY <1>4, <1>5, <1>6, <2>1, <2>2
<1>8. NewerIn(S, s) = Cardinality(A) /\ NewerIn(T, s) = Cardinality(B)
  BY DEF NewerIn, A, B
<1> QED  BY <1>4, <1>7, <1>8 DEF NotRetained

LEMMA InvPlans == LifecycleInv => PlanStaysValid
<1> DEFINE fresh == Indexed(table, TRUE, {})
<1> SUFFICES ASSUME LifecycleInv, plan # None,
                    plan.seen \subseteq table.snapshots,
                    NEW s \in plan.expiring \ Protected(fresh)
             PROVE  s \in SimulateExpire(fresh, plan.request).expiring
  BY DEF PlanStaysValid
<1>1. /\ PlanHolds(table, plan) /\ TableHolds(table, today)
      /\ plan.request.retain_last \in Int
  BY TableLifecycleAssumption DEF LifecycleInv, PlanHolds, Request
<1>2. /\ fresh.snapshots = table.snapshots
      /\ \A r \in table.snapshots : fresh.day[r] = table.day[r]
  BY DEF Indexed
<1> HIDE DEF fresh
<1>3. s \in plan.seen /\ s \in table.snapshots
      /\ table.day[s] < plan.request.older_than
  BY <1>1 DEF PlanHolds
<1>4. NotRetained(table.snapshots, plan.request.retain_last, s)
  <2>1. /\ table.snapshots \in SUBSET SnapshotId
        /\ plan.seen \in SUBSET SnapshotId
        /\ \A x \in table.snapshots \ plan.seen : \A r \in plan.seen : r < x
        /\ NotRetained(plan.seen, plan.request.retain_last, s)
    BY <1>1, <1>3 DEF TableHolds, TableRecord, PlanHolds, Seen
  <2> QED  BY <1>1, <1>3, <2>1, StaysNotRetained
<1>5. s \notin Retained(fresh, plan.request.retain_last)
  BY <1>2, <1>4 DEF Retained, NotRetained, Newer, NewerIn
<1> QED  BY <1>2, <1>3, <1>5 DEF SimulateExpire, Window

(* A simulated expiry stays one while the snapshots it was found among are *)
(* there: no later one makes it retained (retention/service.py:48-72).     *)
THEOREM PlansStayValid == Spec => []PlanStaysValid
BY LifecycleHolds, InvPlans, PTL

(* An expiry leaves nothing that the same request would expire.            *)
LEMMA ExpiriesAreWhole ==
  ASSUME NEW ix, IndexRecord(ix),
         \A r, s \in ix.snapshots : r <= s => ix.day[r] <= ix.day[s],
         NEW q, q.retain_last \in Nat
  PROVE  ExpiryIsWhole(ix, q)
<1> DEFINE left == After(ix, q)
           shown == SimulateExpire(ix, q)
           newer(s) == {r \in ix.snapshots : r > s}
<1>1. /\ left.snapshots = ix.snapshots \ shown.expiring
      /\ left.refs = ix.refs
      /\ \A s \in left.snapshots : left.day[s] = ix.day[s]
  BY DEF After, IndexRecord
<1>2. shown.expiring = Window(ix, q) \ Protected(ix)
      /\ shown.retained_count = Cardinality(ix.snapshots \ shown.expiring)
      /\ shown.earliest = EarliestOf(ix, ix.snapshots \ shown.expiring)
  BY DEF SimulateExpire
<1>3. IsFiniteSet(ix.snapshots)
  <2>1. IsFiniteSet(SnapshotId)
    BY TableLifecycleAssumption, FS_Interval DEF SnapshotId
  <2> QED  BY <2>1, FS_Subset DEF IndexRecord
<1>4. SimulateExpire(left, q).expiring = Window(left, q) \ Protected(left)
  BY DEF SimulateExpire
<1> HIDE DEF left, shown
<1>5. SimulateExpire(left, q).expiring = {}
  <2> SUFFICES ASSUME NEW s \in Window(left, q) \ Protected(left) PROVE FALSE
    BY <1>4
  <2>1. /\ s \in left.snapshots /\ left.day[s] < q.older_than
        /\ s \notin Retained(left, q.retain_last) /\ s \notin Protected(ix)
    BY <1>1 DEF Window, Protected
  <2>2. Newer(left, s) <= Newer(ix, s) /\ Newer(left, s) \in Nat
        /\ Newer(ix, s) \in Nat
    <3>1. {r \in left.snapshots : r > s} \subseteq newer(s)
          /\ newer(s) \subseteq ix.snapshots
      BY <1>1
    <3>2. IsFiniteSet(newer(s)) /\ IsFiniteSet({r \in left.snapshots : r > s})
          /\ Cardinality({r \in left.snapshots : r > s})
               <= Cardinality(newer(s))
      BY <1>3, <3>1, FS_Subset
    <3> QED  BY <3>2, FS_CardinalityType DEF Newer
  <2>3. ~(Newer(left, s) < q.retain_last)
    BY <2>1 DEF Retained
  <2>4. s \notin Retained(ix, q.retain_last)
    BY <2>2, <2>3 DEF Retained
  <2>5. s \in Window(ix, q)
    BY <1>1, <2>1, <2>4 DEF Window
  <2> QED  BY <1>1, <1>2, <2>1, <2>5
<1>6. Cardinality(left.snapshots) = shown.retained_count
  BY <1>1, <1>2
<1>7. \A s \in left.snapshots : \A d \in shown.earliest : d <= ix.day[s]
  BY <1>1, <1>2 DEF EarliestOf
<1>8. ASSUME NEW s \in ix.snapshots,
             \/ Cardinality(newer(s)) < q.retain_last
             \/ \E r \in ix.refs : r.snapshot = s /\ r.ref_type = "tag"
      PROVE  s \in left.snapshots
  <2>1. CASE Cardinality(newer(s)) < q.retain_last
    <3>1. s \in Retained(ix, q.retain_last)
      BY <2>1 DEF Retained, Newer
    <3> QED  BY <1>1, <1>2, <3>1 DEF Window
  <2>2. CASE \E r \in ix.refs : r.snapshot = s /\ r.ref_type = "tag"
    <3>1. s \in Protected(ix)
      BY <2>2 DEF Protected
    <3> QED  BY <1>1, <1>2, <3>1
  <2> QED  BY <1>8, <2>1, <2>2
<1> QED  BY <1>5, <1>6, <1>7, <1>8 DEF ExpiryIsWhole, left, shown

LEMMA InvExpiries == LifecycleInv => ExpiryKeepsItsPromise
<1> SUFFICES ASSUME LifecycleInv, index # None, NEW q \in Request,
                    q.retain_last >= 0
             PROVE  ExpiryIsWhole(index, q)
  BY DEF ExpiryKeepsItsPromise
<1>1. q.retain_last \in Nat
  <2>1. q.retain_last \in RetainLast
    BY DEF Request
  <2>2. RetainLast \subseteq Int
    BY TableLifecycleAssumption
  <2>3. q.retain_last \in Int
    BY <2>1, <2>2
  <2> DEFINE n == q.retain_last
  <2>4. n \in Int /\ n >= 0
    BY <2>3
  <2> HIDE DEF n
  <2>5. n \in Nat
    BY <2>4
  <2> QED  BY <2>5 DEF n
<1>2. IndexHolds(table, index) /\ TableHolds(table, today)
  BY DEF LifecycleInv
<1>3. \A r, s \in index.snapshots : r <= s => index.day[r] <= index.day[s]
  BY <1>2 DEF IndexHolds, Seen, TableHolds
<1> QED  BY <1>1, <1>2, <1>3, ExpiriesAreWhole DEF IndexHolds

(* A simulated expiry is the whole of it (retention/service.py:48-79).     *)
THEOREM ExpiriesKeepTheirPromise == Spec => []ExpiryKeepsItsPromise
BY LifecycleHolds, InvExpiries, PTL

-----------------------------------------------------------------------------
(* Integer division.                                                       *)
LEMMA Division ==
  ASSUME NEW a \in Int, NEW n \in Nat \ {0}
  PROVE  /\ a \div n \in Int
         /\ n * (a \div n) <= a
         /\ a < n * (a \div n) + n
OBVIOUS

(* It rises with what is divided.                                          *)
LEMMA DivisionRises ==
  ASSUME NEW a \in Int, NEW b \in Int, NEW n \in Nat \ {0}, a <= b
  PROVE  a \div n <= b \div n
<1> DEFINE p == a \div n
           q == b \div n
<1>1. p \in Int /\ n * p <= a
  BY Division
<1>2. q \in Int /\ b < n * q + n
  BY Division
<1> HIDE DEF p, q
<1>3. \A d \in Nat : n * (q + 1 + d) = n * q + n + n * d /\ n * d >= 0
  BY <1>2
<1>4. ASSUME p > q PROVE FALSE
  <2>1. PICK d \in Nat : p = q + 1 + d
    <3>1. p - q - 1 \in Nat /\ p = q + 1 + (p - q - 1)
      BY <1>1, <1>2, <1>4
    <3> QED  BY <3>1
  <2> QED  BY <1>1, <1>2, <1>3, <2>1
<1> QED  BY <1>1, <1>2, <1>4 DEF p, q

(* A multiple is divided without rest.                                     *)
LEMMA DivisionOfMultiple ==
  ASSUME NEW k \in Nat, NEW n \in Nat \ {0}
  PROVE  (k * n) \div n = k
OBVIOUS

(* Division, rounded up.                                                   *)
LEMMA Ceiling ==
  ASSUME NEW a \in Int, NEW n \in Nat \ {0}
  PROVE  /\ Ceil(a, n) \in Int
         /\ a <= n * Ceil(a, n)
         /\ n * Ceil(a, n) < a + n
<1> DEFINE k == (-a) \div n
<1>1. k \in Int /\ n * k <= -a /\ -a < n * k + n
  BY Division
<1>2. Ceil(a, n) = -k
  BY DEF Ceil
<1> HIDE DEF k
<1>3. n * (-k) = -(n * k)
  BY <1>1
<1> QED  BY <1>1, <1>2, <1>3

(* It rises with what is divided,                                          *)
LEMMA CeilRises ==
  ASSUME NEW a \in Int, NEW b \in Int, NEW n \in Nat \ {0}, a <= b
  PROVE  Ceil(a, n) <= Ceil(b, n)
<1>1. -b \in Int /\ -a \in Int /\ -b <= -a
  OBVIOUS
<1>2. (-b) \div n <= (-a) \div n
  BY <1>1, DivisionRises
<1>3. (-b) \div n \in Int /\ (-a) \div n \in Int
  BY <1>1, Division
<1> QED  BY <1>2, <1>3 DEF Ceil

(* divides a multiple without rest,                                        *)
LEMMA CeilOfMultiple ==
  ASSUME NEW k \in Nat, NEW n \in Nat \ {0}
  PROVE  Ceil(k * n, n) = k
<1> DEFINE c == Ceil(k * n, n)
<1>1. c \in Int /\ k * n <= n * c /\ n * c < k * n + n
  BY Ceiling
<1> HIDE DEF c
<1>2. ASSUME c < k PROVE FALSE
  <2>1. PICK d \in Nat : k = c + 1 + d
    <3>1. k - c - 1 \in Nat /\ k = c + 1 + (k - c - 1)
      BY <1>1, <1>2
    <3> QED  BY <3>1
  <2>2. k * n = n * c + n + n * d /\ n * d >= 0
    BY <1>1, <2>1
  <2> QED  BY <1>1, <2>2
<1>3. ASSUME c > k PROVE FALSE
  <2>1. PICK d \in Nat : c = k + 1 + d
    <3>1. c - k - 1 \in Nat /\ c = k + 1 + (c - k - 1)
      BY <1>1, <1>3
    <3> QED  BY <3>1
  <2>2. n * c = k * n + n + n * d /\ n * d >= 0
    BY <1>1, <2>1
  <2> QED  BY <1>1, <2>2
<1> QED  BY <1>1, <1>2, <1>3 DEF c

(* and falls when the divisor rises.                                       *)
LEMMA CeilFalls ==
  ASSUME NEW a \in Nat, NEW m \in Nat \ {0}, NEW n \in Nat \ {0}, m <= n
  PROVE  Ceil(a, n) <= Ceil(a, m)
<1> DEFINE c == Ceil(a, m)
           d == Ceil(a, n)
<1>1. c \in Int /\ a <= m * c /\ m * c < a + m
  BY Ceiling
<1>2. d \in Int /\ a <= n * d /\ n * d < a + n
  BY Ceiling
<1> HIDE DEF c, d
<1>3. c >= 0
  <2>1. ASSUME c < 0 PROVE FALSE
    <3>1. PICK e \in Nat : c = -(1 + e)
      <4>1. -c - 1 \in Nat /\ c = -(1 + (-c - 1))
        BY <1>1, <2>1
      <4> QED  BY <4>1
    <3>2. m * c = -m - m * e /\ m * e >= 0
      BY <3>1
    <3> QED  BY <1>1, <3>2
  <2> QED  BY <1>1, <2>1
<1>4. ASSUME d > c PROVE FALSE
  <2>1. PICK e \in Nat : d = c + 1 + e
    <3>1. d - c - 1 \in Nat /\ d = c + 1 + (d - c - 1)
      BY <1>1, <1>2, <1>4
    <3> QED  BY <3>1
  <2>2. n * d = n * c + n + n * e /\ n * e >= 0
    BY <1>1, <2>1
  <2>3. PICK g \in Nat : n = m + g
    <3>1. n - m \in Nat /\ n = m + (n - m)
      OBVIOUS
    <3> QED  BY <3>1
  <2>4. n * c = m * c + g * c /\ g * c >= 0
    BY <1>1, <1>3, <2>3
  <2> QED  BY <1>1, <1>2, <2>2, <2>4
<1> QED  BY <1>1, <1>2, <1>4 DEF c, d

(* Rounding in any unit.                                                   *)
LEMMA Rounded ==
  ASSUME NEW a \in Int, NEW n \in Nat \ {0}
  PROVE  /\ Round(a, n) \in Int
         /\ Round(a, n) = a \div n \/ Round(a, n) = a \div n + 1
BY Division DEF Round

(* Rounding rises with what is rounded,                                    *)
LEMMA RoundRises ==
  ASSUME NEW a \in Int, NEW b \in Int, NEW n \in Nat \ {0}, a <= b
  PROVE  Round(a, n) <= Round(b, n)
<1> DEFINE p == a \div n
           q == b \div n
           r == a % n
           s == b % n
<1>1. p \in Int /\ q \in Int /\ p <= q
  BY Division, DivisionRises
<1>2. /\ r \in Int /\ s \in Int /\ a = n * p + r /\ b = n * q + s
  OBVIOUS
<1>3. CASE p = q
  <2>1. r <= s
    BY <1>1, <1>2, <1>3
  <2>2. Round(a, n) = IF 2 * r > n \/ (2 * r = n /\ p % 2 = 1) THEN p + 1 ELSE p
    BY DEF Round
  <2>3. Round(b, n) = IF 2 * s > n \/ (2 * s = n /\ q % 2 = 1) THEN q + 1 ELSE q
    BY DEF Round
  <2> HIDE DEF p, q, r, s
  <2> QED  BY <1>1, <1>2, <1>3, <2>1, <2>2, <2>3
<1>4. CASE p < q
  <2>1. p + 1 <= q
    BY <1>1, <1>4
  <2>2. /\ Round(a, n) \in Int /\ Round(b, n) \in Int
        /\ Round(a, n) = p \/ Round(a, n) = p + 1
        /\ Round(b, n) = q \/ Round(b, n) = q + 1
    BY Rounded
  <2> HIDE DEF p, q
  <2> QED  BY <1>1, <2>1, <2>2
<1> QED  BY <1>1, <1>3, <1>4

(* leaves a multiple as it is,                                             *)
LEMMA RoundOfMultiple ==
  ASSUME NEW k \in Nat, NEW n \in Nat \ {0}
  PROVE  Round(k * n, n) = k
<1>1. (k * n) \div n = k
  BY DivisionOfMultiple
<1>2. (k * n) % n = 0
  OBVIOUS
<1> QED  BY <1>1, <1>2 DEF Round

(* and keeps a share of k times n between 0 and k.                         *)
LEMMA RoundOfShare ==
  ASSUME NEW a \in Nat, NEW n \in Nat \ {0}, NEW k \in Nat, a <= k * n
  PROVE  Round(a, n) \in Nat /\ Round(a, n) <= k
<1>1. /\ 0 \in Nat /\ 0 * n = 0 /\ 0 \in Int
      /\ k * n \in Int /\ 0 <= a /\ a \in Int
  OBVIOUS
<1>2. Round(0, n) = 0 /\ Round(k * n, n) = k
  BY <1>1, RoundOfMultiple
<1>3. Round(0, n) <= Round(a, n) /\ Round(a, n) <= Round(k * n, n)
  BY <1>1, RoundRises
<1>4. Round(a, n) \in Int
  BY <1>1, Rounded
<1> QED  BY <1>2, <1>3, <1>4

(* Rounding moves a number by half a unit at most.                         *)
LEMMA RoundIsNear ==
  ASSUME NEW a \in Int, NEW n \in Nat \ {0}
  PROVE  /\ 2 * (n * Round(a, n)) - 2 * a <= n
         /\ 2 * a - 2 * (n * Round(a, n)) <= n
<1> DEFINE q == a \div n
           r == a % n
<1>1. q \in Int /\ r \in Int /\ 0 <= r /\ r < n /\ a = n * q + r
  BY Division
<1>2. Round(a, n) = IF 2 * r > n \/ (2 * r = n /\ q % 2 = 1) THEN q + 1 ELSE q
  BY DEF Round
<1> HIDE DEF q, r
<1>3. n * (q + 1) = n * q + n /\ n * q \in Int
  BY <1>1
<1>4. CASE 2 * r > n \/ (2 * r = n /\ q % 2 = 1)
  <2>1. Round(a, n) = q + 1
    BY <1>2, <1>4
  <2> QED  BY <1>1, <1>3, <1>4, <2>1
<1>5. CASE ~(2 * r > n \/ (2 * r = n /\ q % 2 = 1))
  <2>1. Round(a, n) = q
    BY <1>2, <1>5
  <2>2. 2 * r <= n
    BY <1>1, <1>5
  <2> QED  BY <1>1, <1>3, <2>1, <2>2
<1> QED  BY <1>4, <1>5

(* The metrics that only a worse table has.                                *)
NoBetter(m, n) ==
  /\ n.file_count = m.file_count /\ n.small >= m.small
  /\ n.delete_file_count >= m.delete_file_count
  /\ n.manifest_count >= m.manifest_count
  /\ n.snapshot_count >= m.snapshot_count

Countable(m) ==
  /\ m.file_count \in Nat /\ m.small \in Nat /\ m.small <= m.file_count
  /\ m.delete_file_count \in Nat
  /\ m.manifest_count \in Nat /\ m.snapshot_count \in Nat

(* A share of a whole is between 0 and 100 and rises with what is shared.  *)
LEMMA ShareOfWhole ==
  ASSUME NEW a \in Nat, NEW b \in Nat, NEW n \in Nat \ {0}, a <= b, b <= n
  PROVE  /\ (100 * a) \div n \in 0..100 /\ (100 * b) \div n \in 0..100
         /\ (100 * a) \div n <= (100 * b) \div n
<1>1. 0 \div n = 0 /\ (100 * n) \div n = 100
  BY DivisionOfMultiple
<1>2. 0 \div n <= (100 * a) \div n
  BY DivisionRises
<1>3. (100 * a) \div n <= (100 * b) \div n
  BY DivisionRises
<1>4. (100 * b) \div n <= (100 * n) \div n
  BY DivisionRises
<1>5. (100 * a) \div n \in Int /\ (100 * b) \div n \in Int
  BY Division
<1> DEFINE p == (100 * a) \div n
           q == (100 * b) \div n
<1> SUFFICES p \in 0..100 /\ q \in 0..100 /\ p <= q
  OBVIOUS
<1>6. 0 <= p /\ p <= q /\ q <= 100 /\ p \in Int /\ q \in Int
  BY <1>1, <1>2, <1>3, <1>4, <1>5
<1> HIDE DEF p, q
<1> QED  BY <1>6

(* The share of files that are not small (health/service.py:33-40).        *)
LEMMA FileScoreFalls ==
  ASSUME NEW m, NEW n, Countable(m), Countable(n), NoBetter(m, n)
  PROVE  /\ FileScore(m) \in 0..100 /\ FileScore(n) \in 0..100
         /\ FileScore(n) <= FileScore(m)
<1>1. CASE m.file_count = 0
  BY <1>1 DEF FileScore, NoBetter
<1>2. CASE m.file_count # 0
  <2> DEFINE a == n.file_count - n.small
             b == m.file_count - m.small
             k == m.file_count
             p == (100 * a) \div k
             q == (100 * b) \div k
  <2>1. a \in Nat /\ b \in Nat /\ k \in Nat \ {0} /\ a <= b /\ b <= k
    BY <1>2 DEF Countable, NoBetter
  <2>2. FileScore(n) = Most(0, p) /\ FileScore(m) = Most(0, q)
    BY <1>2 DEF FileScore, NoBetter
  <2> HIDE DEF a, b, k
  <2>3. p \in 0..100 /\ q \in 0..100 /\ p <= q
    BY <2>1, ShareOfWhole
  <2> HIDE DEF p, q
  <2> QED  BY <2>2, <2>3 DEF Most
<1> QED  BY <1>1, <1>2

(* The share of files without deletes.                                     *)
LEMMA DeleteScoreFalls ==
  ASSUME NEW m, NEW n, Countable(m), Countable(n), NoBetter(m, n)
  PROVE  /\ DeleteScore(m) \in 0..100 /\ DeleteScore(n) \in 0..100
         /\ DeleteScore(n) <= DeleteScore(m)
<1> DEFINE k == Most(m.file_count, 1)
           a == k - Least(n.delete_file_count, k)
           b == k - Least(m.delete_file_count, k)
<1>1. k \in Nat \ {0}
  BY DEF Countable, Most
<1>2. DeleteScore(n) = (100 * a) \div k /\ DeleteScore(m) = (100 * b) \div k
  BY DEF DeleteScore, NoBetter
<1> HIDE DEF k
<1>3. a \in Nat /\ b \in Nat /\ a <= b /\ b <= k
  BY <1>1 DEF Countable, NoBetter, Least
<1> HIDE DEF a, b
<1> QED  BY <1>1, <1>2, <1>3, ShareOfWhole

(* Points for few manifests and snapshots.                                 *)
LEMMA CountScoresFall ==
  ASSUME NEW m, NEW n, Countable(m), Countable(n), NoBetter(m, n)
  PROVE  /\ MetadataScore(m) \in 0..100 /\ MetadataScore(n) \in 0..100
         /\ MetadataScore(n) <= MetadataScore(m)
         /\ SnapshotScore(m) \in 0..100 /\ SnapshotScore(n) \in 0..100
         /\ SnapshotScore(n) <= SnapshotScore(m)
BY DEF Countable, NoBetter, MetadataScore, SnapshotScore, Floor100, Most

(* The weighted sum that a health score rounds.                            *)
Weighted(m, owned, format_version) ==
  25 * FileScore(m) + 20 * DeleteScore(m) + 20 * MetadataScore(m)
    + 15 * SnapshotScore(m) + 10 * (IF owned THEN 100 ELSE 30)
    + 10 * (IF format_version = 3 THEN 70 ELSE 90)

(* A row that no sync gave a score has the rounded sum.                    *)
LEMMA HealthIsWeighted ==
  ASSUME NEW m, NEW owned, NEW v, Weighted(m, owned, v) \in Int
  PROVE  HealthScore(m, owned, v, 0) = Round(Weighted(m, owned, v), 100)
<1> DEFINE w == Round(Weighted(m, owned, v), 100)
<1>1. HealthScore(m, owned, v, 0) = Least(w, w)
  BY DEF HealthScore, Weighted
<1> HIDE DEF w
<1>2. Least(w, w) = w
  BY DEF Least
<1> QED  BY <1>1, <1>2 DEF w

(* The weights add up to 100.                                              *)
LEMMA WeightsRise ==
  ASSUME NEW f \in Nat, NEW d \in Nat, NEW k \in Nat, NEW s \in Nat,
         NEW ff \in Nat, NEW dd \in Nat, NEW kk \in Nat, NEW ss \in Nat,
         NEW o \in Nat, NEW u \in Nat, o <= 100, u <= 100,
         f <= ff, d <= dd, k <= kk, s <= ss,
         ff <= 100, dd <= 100, kk <= 100, ss <= 100,
         NEW a, a = 25 * f + 20 * d + 20 * k + 15 * s + 10 * o + 10 * u,
         NEW b, b = 25 * ff + 20 * dd + 20 * kk + 15 * ss + 10 * o + 10 * u
  PROVE  a \in Nat /\ b \in Nat /\ a <= b /\ b <= 10000
OBVIOUS

(* Health never rises when the metrics get worse.                          *)
LEMMA HealthFalls ==
  ASSUME NEW m, NEW n, Countable(m), Countable(n), NoBetter(m, n),
         NEW owned, NEW v
  PROVE  /\ HealthScore(m, owned, v, 0) <= 100
         /\ HealthScore(n, owned, v, 0) \in 0..HealthScore(m, owned, v, 0)
<1> DEFINE a == Weighted(n, owned, v)
           b == Weighted(m, owned, v)
           o == IF owned THEN 100 ELSE 30
           u == IF v = 3 THEN 70 ELSE 90
<1>1. a \in Nat /\ b \in Nat /\ a <= b /\ b <= 10000
  <2>1. /\ FileScore(m) \in Nat /\ FileScore(n) \in Nat
        /\ FileScore(n) <= FileScore(m) /\ FileScore(m) <= 100
    BY FileScoreFalls
  <2>2. /\ DeleteScore(m) \in Nat /\ DeleteScore(n) \in Nat
        /\ DeleteScore(n) <= DeleteScore(m) /\ DeleteScore(m) <= 100
    BY DeleteScoreFalls
  <2>3. /\ MetadataScore(m) \in Nat /\ MetadataScore(n) \in Nat
        /\ MetadataScore(n) <= MetadataScore(m) /\ MetadataScore(m) <= 100
        /\ SnapshotScore(m) \in Nat /\ SnapshotScore(n) \in Nat
        /\ SnapshotScore(n) <= SnapshotScore(m) /\ SnapshotScore(m) <= 100
    BY CountScoresFall
  <2>4. o \in Nat /\ u \in Nat /\ o <= 100 /\ u <= 100
    OBVIOUS
  <2>5. /\ a = 25 * FileScore(n) + 20 * DeleteScore(n) + 20 * MetadataScore(n)
                 + 15 * SnapshotScore(n) + 10 * o + 10 * u
        /\ b = 25 * FileScore(m) + 20 * DeleteScore(m) + 20 * MetadataScore(m)
                 + 15 * SnapshotScore(m) + 10 * o + 10 * u
    BY DEF Weighted
  <2> HIDE DEF a, b, o, u
  <2> QED  BY <2>1, <2>2, <2>3, <2>4, <2>5, WeightsRise
<1> HIDE DEF a, b
<1>2. HealthScore(n, owned, v, 0) = Round(a, 100)
      /\ HealthScore(m, owned, v, 0) = Round(b, 100)
  <2>1. a \in Int /\ b \in Int
    BY <1>1
  <2> QED  BY <2>1, HealthIsWeighted DEF a, b
<1>0. 100 \in Nat \ {0} /\ 100 \in Nat
  OBVIOUS
<1>3. Round(a, 100) <= Round(b, 100)
  BY <1>0, <1>1, RoundRises
<1>4. a <= 100 * 100 /\ b <= 100 * 100
  BY <1>1
<1>5. /\ Round(a, 100) \in Nat /\ Round(b, 100) \in Nat
      /\ Round(b, 100) <= 100
  BY <1>0, <1>1, <1>4, RoundOfShare
<1> QED  BY <1>2, <1>3, <1>5

(* What each operation is recommended for.                                 *)
LEMMA RecommendedFor ==
  ASSUME NEW m, NEW v
  PROVE  /\ Recommended(m, v) \subseteq
              {"rewrite_data_files", "rewrite_position_deletes",
               "expire_snapshots", "upgrade_format"}
         /\ "rewrite_data_files" \in Recommended(m, v)
              <=> m.file_count > 0 /\ 10 * m.small >= 4 * m.file_count
         /\ "rewrite_position_deletes" \in Recommended(m, v)
              <=> 2 * m.delete_file_count >= Most(m.file_count, 1)
         /\ "expire_snapshots" \in Recommended(m, v) <=> m.snapshot_count >= 100
         /\ "upgrade_format" \in Recommended(m, v) <=> v = 3
BY Zenon DEF Recommended

(* Worse metrics take no recommendation back.                              *)
LEMMA AdviceStays ==
  ASSUME NEW m, NEW n, Countable(m), Countable(n), NoBetter(m, n), NEW v
  PROVE  Recommended(m, v) \subseteq Recommended(n, v)
<1>1. m.file_count > 0 /\ 10 * m.small >= 4 * m.file_count
        => n.file_count > 0 /\ 10 * n.small >= 4 * n.file_count
  BY DEF Countable, NoBetter
<1>2. 2 * m.delete_file_count >= Most(m.file_count, 1)
        => 2 * n.delete_file_count >= Most(n.file_count, 1)
  BY DEF Countable, NoBetter, Most
<1>3. m.snapshot_count >= 100 => n.snapshot_count >= 100
  BY DEF Countable, NoBetter
<1> QED  BY <1>1, <1>2, <1>3, RecommendedFor

(* What the property varies are metrics that only a worse table has.       *)
LEMMA WorseIsNoBetter ==
  ASSUME NEW m \in Metric, m.small <= m.file_count, NEW n \in Worse(m)
  PROVE  Countable(m) /\ Countable(n) /\ NoBetter(m, n)
<1>1. Countable(m)
  BY DEF Metric, Countable
<1>2. CASE n = [m EXCEPT !.small = Least(@ + 1, m.file_count)]
  <2>1. Least(m.small + 1, m.file_count) \in m.small..m.file_count
    BY <1>1 DEF Least, Countable
  <2>2. /\ n.small = Least(m.small + 1, m.file_count)
        /\ n.file_count = m.file_count
        /\ n.delete_file_count = m.delete_file_count
        /\ n.manifest_count = m.manifest_count
        /\ n.snapshot_count = m.snapshot_count
    BY <1>2 DEF Metric
  <2> QED  BY <1>1, <2>1, <2>2 DEF Countable, NoBetter
<1>3. CASE n = [m EXCEPT !.delete_file_count = @ + 1]
  BY <1>1, <1>3 DEF Metric, Countable, NoBetter
<1>4. CASE n = [m EXCEPT !.manifest_count = @ + 105]
  BY <1>1, <1>4 DEF Metric, Countable, NoBetter
<1>5. CASE n = [m EXCEPT !.snapshot_count = @ + 55]
  BY <1>1, <1>5 DEF Metric, Countable, NoBetter
<1>6. CASE n = [m EXCEPT !.manifest_count = @ + 610,
                         !.snapshot_count = @ + 460]
  BY <1>1, <1>6 DEF Metric, Countable, NoBetter
<1> QED  BY <1>1, <1>2, <1>3, <1>4, <1>5, <1>6 DEF Worse

(* Both, for the metrics of one index row.                                 *)
LEMMA HealthFollows ==
  ASSUME NEW m \in Metric, m.small <= m.file_count, NEW owned, NEW v
  PROVE  /\ HealthScore(m, owned, v, 0) <= 100
         /\ \A n \in Worse(m) :
              /\ HealthScore(n, owned, v, 0) \in 0..HealthScore(m, owned, v, 0)
              /\ Recommended(m, v) \subseteq Recommended(n, v)
<1>1. HealthScore(m, owned, v, 0) <= 100
  <2>1. Countable(m) /\ NoBetter(m, m)
    BY DEF Metric, Countable, NoBetter
  <2> QED  BY <2>1, HealthFalls
<1>2. ASSUME NEW n \in Worse(m)
      PROVE  /\ HealthScore(n, owned, v, 0) \in 0..HealthScore(m, owned, v, 0)
             /\ Recommended(m, v) \subseteq Recommended(n, v)
  BY WorseIsNoBetter, HealthFalls, AdviceStays
<1> QED  BY <1>1, <1>2

(* Health follows the metrics (health/service.py:33-66), for every table.  *)
THEOREM HealthStaysConsistent == Spec => []HealthFollowsMetrics
<1>1. LifecycleInv => HealthFollowsMetrics
  <2> SUFFICES ASSUME LifecycleInv, index # None, NEW owned \in Owned,
                      NEW v \in FormatVersion
               PROVE  /\ HealthScore(index.metrics, owned, v, 0) <= 100
                      /\ \A m \in Worse(index.metrics) :
                           /\ HealthScore(m, owned, v, 0)
                                \in 0..HealthScore(index.metrics, owned, v, 0)
                           /\ Recommended(index.metrics, v)
                                \subseteq Recommended(m, v)
    BY Zenon DEF HealthFollowsMetrics
  <2>1. /\ index.metrics \in Metric
        /\ index.metrics.small <= index.metrics.file_count
    BY DEF LifecycleInv, IndexHolds, IndexRecord
  <2> QED  BY <2>1, HealthFollows
<1> QED  BY <1>1, LifecycleHolds, PTL

-----------------------------------------------------------------------------
(* The advice for a table of the index (layout/, tuning/), whatever its    *)
(* schema and sort order. Lines are those of layout/whatif_service.py.     *)

(* The profile of a table with whatever number of files.                   *)
SoundProfile(p) ==
  p.file_count \in Nat /\ p.avg_file_size \in Nat

(* Any change that a client may ask for: the schema of the request knows   *)
(* three kinds, and a target size is any number or, as 0, none.            *)
SoundChange(change) ==
  \/ change.kind \in {"resort", "repartition"}
  \/ change.kind = "refile_size" /\ change.to \in Int

(* A query touches one file at least, also of an empty table.              *)
LEMMA SomeFiles ==
  ASSUME NEW p, SoundProfile(p)
  PROVE  Files(p) \in Nat \ {0}
BY DEF SoundProfile, Files, Most

(* Present files are some, and no more than there are (lines 87-97).       *)
LEMMA CurrentInRange ==
  ASSUME NEW p, SoundProfile(p), NEW column, DepthOf(p, column) \in Nat
  PROVE  /\ CurrentFiles(p, column) \in Nat /\ 1 <= CurrentFiles(p, column)
         /\ CurrentFiles(p, column) <= Files(p)
<1> DEFINE F == Files(p)
           d == Least(100000, DepthOf(p, column))
           k == 100000
<1>1. F \in Nat \ {0}
  BY SomeFiles
<1>2. d \in Nat /\ d <= k
  BY DEF Least
<1>3. CurrentFiles(p, column) = Most(1, Ceil(F * d, k))
  BY DEF CurrentFiles
<1>4. k \in Nat \ {0}
  OBVIOUS
<1> HIDE DEF F, d, k
<1>5. F * d \in Int /\ F * k \in Int /\ F * d <= F * k
  <2>1. PICK e \in Nat : k = d + e
    <3>1. k - d \in Nat /\ k = d + (k - d)
      BY <1>2, <1>4
    <3> QED  BY <3>1
  <2>2. F * k = F * d + F * e /\ F * e >= 0
    BY <1>1, <1>2, <2>1
  <2> QED  BY <1>1, <1>2, <1>4, <2>2
<1>6. Ceil(F * d, k) <= Ceil(F * k, k) /\ Ceil(F * k, k) = F
  BY <1>1, <1>4, <1>5, CeilRises, CeilOfMultiple
<1>7. Ceil(F * d, k) \in Int
  BY <1>4, <1>5, Ceiling
<1> QED  BY <1>1, <1>3, <1>6, <1>7 DEF Most, F

(* Projected files are a number,                                           *)
LEMMA UnclampedTyped ==
  ASSUME NEW p, SoundProfile(p), NEW change, SoundChange(change),
         NEW query, query.selectivity \in Int, NEW current \in Nat,
         NEW target \in Nat \ {0}
  PROVE  Unclamped(p, change, query, current, target) \in Int
<1> DEFINE F == Files(p)
<1>1. F \in Nat \ {0} /\ p.avg_file_size \in Nat
  BY SomeFiles DEF SoundProfile
<1>2. \A a \in Int, n \in Nat \ {0} : Most(1, Ceil(a, n)) \in Nat
  BY Ceiling DEF Most
<1>3. CASE change.kind = "resort"
  <2> DEFINE a == query.selectivity * F
  <2>1. Unclamped(p, change, query, current, target) = Most(1, Ceil(a, 100))
    BY <1>3 DEF Unclamped
  <2>2. a \in Int /\ 100 \in Nat \ {0}
    BY <1>1
  <2> HIDE DEF a
  <2> QED  BY <1>2, <2>1, <2>2
<1>4. CASE change.kind = "repartition"
  <2> DEFINE f == Granularity(change.to)
  <2> DEFINE a == current * f[2]
             n == f[1]
  <2>1. Unclamped(p, change, query, current, target) = Most(1, Ceil(a, n))
    BY <1>4 DEF Unclamped
  <2>2. f[2] \in Nat /\ n \in Nat \ {0}
    BY DEF Granularity
  <2> HIDE DEF f
  <2>3. a \in Int
    BY <2>2
  <2> HIDE DEF a, n
  <2> QED  BY <1>2, <2>1, <2>2, <2>3
<1>5. CASE change.kind = "refile_size" /\ change.to \in Int
  <2> DEFINE g == Given(change.to, target)
             n == IF g < 0 THEN 1 ELSE Most(1, Ceil(F * p.avg_file_size, g))
  <2>1. Unclamped(p, change, query, current, target)
          = Most(1, Ceil(current * n, F))
    BY <1>5 DEF Unclamped
  <2>2. g \in Int /\ g # 0
    BY <1>5 DEF Given
  <2>3. F * p.avg_file_size \in Int
    BY <1>1
  <2> HIDE DEF F, g
  <2>4. n \in Nat
    BY <1>2, <2>2, <2>3
  <2> HIDE DEF n
  <2>5. current * n \in Int
    BY <2>4
  <2> QED  BY <1>1, <1>2, <2>1, <2>5
<1> QED  BY <1>3, <1>4, <1>5 DEF SoundChange

(* cut to the files there are (lines 99-119 and 70).                       *)
LEMMA ProjectedInRange ==
  ASSUME NEW p, SoundProfile(p), NEW change, SoundChange(change),
         NEW query, query.selectivity \in Int, NEW current \in Nat,
         NEW target \in Nat \ {0}
  PROVE  LET q == ProjectedFiles(p, change, query, current, target)
         IN q \in Nat /\ 1 <= q /\ q <= Files(p)
<1>1. Unclamped(p, change, query, current, target) \in Int
  BY UnclampedTyped
<1>2. Files(p) \in Nat \ {0}
  BY SomeFiles
<1> QED  BY <1>1, <1>2 DEF ProjectedFiles, Most, Least

(* A share in tenths of a percent.                                         *)
Share(x) == x \in 0..1000

(* A cut of one number to another is a share of it (lines 150-153),        *)
LEMMA ReductionInRange ==
  ASSUME NEW current \in Nat, NEW projected \in Nat
  PROVE  Share(Reduction(current, projected))
<1>1. CASE current <= 0 \/ projected >= current
  BY <1>1 DEF Reduction, Share
<1>2. CASE ~(current <= 0 \/ projected >= current)
  <2> DEFINE a == 1000 * (current - projected)
  <2>1. a \in Nat /\ a <= 1000 * current /\ current \in Nat \ {0}
    BY <1>2
  <2>2. Reduction(current, projected) = Round(a, current)
    BY <1>2 DEF Reduction
  <2> HIDE DEF a
  <2>3. Round(a, current) \in Nat /\ Round(a, current) <= 1000
    BY <2>1, RoundOfShare
  <2> QED  BY <2>2, <2>3 DEF Share
<1> QED  BY <1>1, <1>2

(* for bytes too.                                                          *)
LEMMA BytesInRange ==
  ASSUME NEW c \in Nat, NEW avg \in Nat, NEW r \in Nat, NEW size \in Nat
  PROVE  Share(Reduction(c * avg, r * size))
<1>1. c * avg \in Nat /\ r * size \in Nat
  OBVIOUS
<1> QED  BY <1>1, ReductionInRange, Zenon

(* All that a projection says of one query (lines 57-85).                  *)
LEMMA QueryInRange ==
  ASSUME NEW p, SoundProfile(p), NEW change, SoundChange(change),
         NEW query, query.selectivity \in Int,
         DepthOf(p, query.column) \in Nat, NEW target \in Nat \ {0}
  PROVE  LET q == ProjectQuery(p, change, query, target)
         IN /\ q.current_files \in 1..Files(p)
            /\ q.projected_files \in 1..Files(p)
            /\ Share(q.files_reduction)
            /\ ~BelowZero(change) => Share(q.bytes_reduction)
<1> DEFINE c == CurrentFiles(p, query.column)
           r == ProjectedFiles(p, change, query, c, target)
           size == IF change.kind = "refile_size"
                   THEN Given(change.to, p.avg_file_size) ELSE p.avg_file_size
           q == ProjectQuery(p, change, query, target)
<1>1. q = [current_files |-> c, projected_files |-> r,
           files_reduction |-> Reduction(c, r),
           bytes_reduction |-> Reduction(c * p.avg_file_size, r * size)]
  BY DEF ProjectQuery
<1>2. c \in Nat /\ 1 <= c /\ c <= Files(p)
  BY CurrentInRange
<1>3. r \in Nat /\ 1 <= r /\ r <= Files(p)
  <2> HIDE DEF c
  <2> QED  BY <1>2, ProjectedInRange
<1>4. /\ p.avg_file_size \in Nat
      /\ ~BelowZero(change) => size \in Nat
  BY DEF SoundChange, SoundProfile, Given, BelowZero
<1> HIDE DEF c, r, size
<1>0. q.bytes_reduction = Reduction(c * p.avg_file_size, r * size)
  BY <1>1
<1> HIDE DEF q
<1>5. Share(Reduction(c, r))
  BY <1>2, <1>3, ReductionInRange
<1>6. ~BelowZero(change) => Share(Reduction(c * p.avg_file_size, r * size))
  BY <1>2, <1>3, <1>4, BytesInRange
<1>7. Files(p) \in Nat
  BY SomeFiles
<1>8. c \in 1..Files(p) /\ r \in 1..Files(p)
  BY <1>2, <1>3, <1>7
<1>9. /\ q.current_files = c /\ q.projected_files = r
      /\ q.files_reduction = Reduction(c, r)
  BY <1>1
<1>10. /\ Share(q.files_reduction)
       /\ ~BelowZero(change) => Share(q.bytes_reduction)
  BY <1>0, <1>5, <1>6, <1>9
<1> QED  BY <1>8, <1>9, <1>10 DEF q

(* Depths of the profile of any table.                                     *)
SoundMetrics(m) ==
  /\ m.file_count \in Nat /\ m.small \in Nat /\ m.data_size \in Nat
  /\ m.small <= m.file_count

(* The ratio of small files is a share, in ten-thousandths.                *)
LEMMA SmallRatioInRange ==
  ASSUME NEW m, SoundMetrics(m)
  PROVE  SmallRatio(m) \in Nat /\ SmallRatio(m) <= 10000
<1>1. CASE m.file_count = 0
  BY <1>1 DEF SmallRatio
<1>2. CASE m.file_count # 0
  <2> DEFINE a == 10000 * m.small
             n == m.file_count
  <2>1. a \in Nat /\ n \in Nat \ {0} /\ a <= 10000 * n
    BY <1>2 DEF SoundMetrics
  <2>2. SmallRatio(m) = Round(a, n)
    BY <1>2 DEF SmallRatio
  <2> HIDE DEF a, n
  <2> QED  BY <2>1, <2>2, RoundOfShare
<1> QED  BY <1>1, <1>2

(* A sorted column is never deeper than an unsorted one.                   *)
LEMMA SortedIsShallower ==
  ASSUME NEW m, SoundMetrics(m)
  PROVE  /\ SortedDepth(m) \in Nat /\ UnsortedDepth(m) \in Nat
         /\ SortedDepth(m) <= UnsortedDepth(m)
<1>1. CASE m.file_count = 0
  BY <1>1 DEF SortedDepth, UnsortedDepth
<1>2. CASE m.file_count # 0
  <2> DEFINE n == m.file_count
             a == 100 * n + 200 * m.small
             b == 200 * n + 800 * m.small
  <2>1. /\ a \in Nat /\ b \in Nat /\ n \in Nat \ {0} /\ a <= b
        /\ a <= 300 * n /\ b <= 1000 * n
    BY <1>2 DEF SoundMetrics
  <2>2. SortedDepth(m) = Round(a, n) /\ UnsortedDepth(m) = Round(b, n)
    BY <1>2 DEF SortedDepth, UnsortedDepth
  <2> HIDE DEF a, b, n
  <2>3. Round(a, n) \in Nat /\ Round(b, n) \in Nat
    BY <2>1, RoundOfShare
  <2>4. Round(a, n) <= Round(b, n)
    BY <2>1, RoundRises
  <2> QED  BY <2>2, <2>3, <2>4
<1> QED  BY <1>1, <1>2

(* A depth from the rounded ratio is a hundredth off that from the exact   *)
(* one, or none.                                                           *)
LEMMA ProjectedIsNear ==
  ASSUME NEW m, SoundMetrics(m), NEW p, p.small_ratio = SmallRatio(m)
  PROVE  /\ ProjectedDepth(p) \in Int
         /\ ProjectedDepth(p) <= SortedDepth(m) + 1
         /\ SortedDepth(m) <= ProjectedDepth(p) + 1
<1> DEFINE n == m.file_count
           k == m.small
           r == SmallRatio(m)
           a == 100 * n + 200 * k
           b == 1000000 + 200 * r
           d == SortedDepth(m)
           e == ProjectedDepth(p)
<1>1. n \in Nat /\ k \in Nat /\ k <= n /\ r \in Nat /\ d \in Nat
  BY SmallRatioInRange, SortedIsShallower DEF SoundMetrics
<1>2. e = Round(b, 10000) /\ b \in Int
  BY <1>1 DEF ProjectedDepth
<1>3. e \in Int /\ 20000 * e - 2 * b <= 10000 /\ 2 * b - 20000 * e <= 10000
  <2> HIDE DEF b, e
  <2>1. 10000 \in Nat \ {0}
    OBVIOUS
  <2>2. e \in Int
    BY <1>2, <2>1, Rounded
  <2>3. /\ 2 * (10000 * Round(b, 10000)) - 2 * b <= 10000
        /\ 2 * b - 2 * (10000 * Round(b, 10000)) <= 10000
    BY <1>2, <2>1, RoundIsNear
  <2> QED  BY <1>2, <2>2, <2>3
<1>4. CASE n = 0
  <2>1. r = 0 /\ d = 100
    BY <1>4 DEF SmallRatio, SortedDepth
  <2> HIDE DEF r, d, e
  <2> QED  BY <1>3, <2>1 DEF d, e
<1>5. CASE n # 0
  <2>1. n \in Nat \ {0} /\ a \in Int /\ 10000 * k \in Int
    BY <1>1, <1>5
  <2>2. d = Round(a, n) /\ r = Round(10000 * k, n)
    BY <1>5 DEF SortedDepth, SmallRatio
  <2>3. 2 * (n * d) - 2 * a <= n /\ 2 * a - 2 * (n * d) <= n
    BY <2>1, <2>2, RoundIsNear
  <2>4. /\ 2 * (n * r) - 2 * (10000 * k) <= n
        /\ 2 * (10000 * k) - 2 * (n * r) <= n
    BY <2>1, <2>2, RoundIsNear
  <2>5. /\ 20000 * (n * e) - 2000000 * n - 400 * (n * r) <= 10000 * n
        /\ 2000000 * n + 400 * (n * r) - 20000 * (n * e) <= 10000 * n
    <3>1. 20000 * e - 2000000 - 400 * r <= 10000
          /\ 2000000 + 400 * r - 20000 * e <= 10000
      BY <1>1, <1>3
    <3> HIDE DEF n, r, e
    <3>2. /\ n * (20000 * e - 2000000 - 400 * r) <= n * 10000
          /\ n * (2000000 + 400 * r - 20000 * e) <= n * 10000
      BY <1>1, <1>3, <3>1
    <3> QED  BY <1>1, <1>3, <3>2
  <2> HIDE DEF n, k, r, d, e
  <2>6. n * d \in Int /\ n * e \in Int /\ n * r \in Int
    BY <1>1, <1>3
  <2>7. /\ 100 * (n * e) - 100 * (n * d) <= 101 * n
        /\ 100 * (n * d) - 100 * (n * e) <= 101 * n
    BY <1>1, <2>3, <2>4, <2>5, <2>6
  <2>8. e <= d + 1
    <3>1. SUFFICES ASSUME e >= d + 2 PROVE FALSE
      BY <1>1, <1>3
    <3>2. n * e >= n * d + 2 * n
      BY <1>1, <1>3, <3>1
    <3> QED  BY <1>1, <2>1, <2>6, <2>7, <3>2
  <2>9. d <= e + 1
    <3>1. SUFFICES ASSUME d >= e + 2 PROVE FALSE
      BY <1>1, <1>3
    <3>2. n * d >= n * e + 2 * n
      BY <1>1, <1>3, <3>1
    <3> QED  BY <1>1, <2>1, <2>6, <2>7, <3>2
  <2> QED  BY <1>3, <2>8, <2>9 DEF d, e
<1> QED  BY <1>4, <1>5

(* The first of at most six candidates.                                    *)
FirstOf(S) == CHOOSE i \in S : \A j \in S : i <= j

(* It is one of them.                                                      *)
LEMMA FirstIsThere ==
  ASSUME NEW S, S # {}, NEW n \in Nat, n <= 6, S \subseteq 1..n
  PROVE  FirstOf(S) \in S
<1>1. \A j \in S : j = 1 \/ j = 2 \/ j = 3 \/ j = 4 \/ j = 5 \/ j = 6
  OBVIOUS
<1>2. \E i \in S : \A j \in S : i <= j
  <2>1. CASE 1 \in S
    BY <1>1, <2>1
  <2>2. CASE 1 \notin S /\ 2 \in S
    BY <1>1, <2>2
  <2>3. CASE 1 \notin S /\ 2 \notin S /\ 3 \in S
    BY <1>1, <2>3
  <2>4. CASE 1 \notin S /\ 2 \notin S /\ 3 \notin S /\ 4 \in S
    BY <1>1, <2>4
  <2>5. CASE /\ 1 \notin S /\ 2 \notin S /\ 3 \notin S /\ 4 \notin S
             /\ 5 \in S
    BY <1>1, <2>5
  <2>6. CASE /\ 1 \notin S /\ 2 \notin S /\ 3 \notin S /\ 4 \notin S
             /\ 5 \notin S
    <3>1. 6 \in S
      BY <1>1, <2>6
    <3> QED  BY <1>1, <2>6, <3>1
  <2> QED  BY <2>1, <2>2, <2>3, <2>4, <2>5, <2>6
<1> QED  BY <1>2, Zenon DEF FirstOf

(* The candidates that a profile has for a column.                         *)
CandidatesOf(columns, column) ==
  {i \in 1..Least(Len(columns), 6) : columns[i].name = column}

(* The depth that a projection finds for a column (lines 87-94).           *)
LEMMA DepthOfProfile ==
  ASSUME NEW m, SoundMetrics(m), NEW T, NEW columns \in Seq(T),
         NEW sort_fields, NEW column
  PROVE  LET p == Profile(m, columns, sort_fields)
             at == CandidatesOf(columns, column)
         IN DepthOf(p, column) =
              IF at = {} THEN 20000 + 8 * SmallRatio(m)
              ELSE IF column \in SortColumns(sort_fields)
                   THEN 100 * SortedDepth(m) ELSE 100 * UnsortedDepth(m)
<1> DEFINE p == Profile(m, columns, sort_fields)
           at == CandidatesOf(columns, column)
           c == Candidates(m, columns, sort_fields)
           D == 1..Least(Len(columns), 6)
<1>1. p.clustering = c /\ p.small_ratio = SmallRatio(m)
  BY DEF Profile
<1>2. /\ DOMAIN c = D
      /\ \A i \in D :
           /\ c[i].column = columns[i].name
           /\ c[i].depth = IF columns[i].name \in SortColumns(sort_fields)
                           THEN SortedDepth(m) ELSE UnsortedDepth(m)
  BY DEF Candidates
<1>3. {i \in DOMAIN p.clustering : p.clustering[i].column = column} = at
  BY <1>1, <1>2 DEF CandidatesOf
<1>4. DepthOf(p, column) = IF at = {} THEN 20000 + 8 * SmallRatio(m)
                           ELSE 100 * c[FirstOf(at)].depth
  <2> DEFINE of == {i \in DOMAIN p.clustering :
                      p.clustering[i].column = column}
  <2>1. DepthOf(p, column) = IF of = {} THEN 20000 + 8 * p.small_ratio
                             ELSE 100 * p.clustering[FirstOf(of)].depth
    BY DEF DepthOf, FirstOf
  <2>2. of = at
    BY <1>3
  <2> HIDE DEF of, at, p, c
  <2> QED  BY <1>1, <2>1, <2>2
<1>5. ASSUME at # {}
      PROVE  FirstOf(at) \in D /\ columns[FirstOf(at)].name = column
  <2>1. Least(Len(columns), 6) \in Nat /\ Least(Len(columns), 6) <= 6
    BY DEF Least
  <2>2. at \subseteq D /\ \A i \in at : columns[i].name = column
    BY DEF CandidatesOf
  <2>3. FirstOf(at) \in at
    BY <1>5, <2>1, <2>2, FirstIsThere
  <2> QED  BY <2>2, <2>3
<1> HIDE DEF p, c, D, at
<1> QED  BY <1>2, <1>4, <1>5 DEF p, at

(* It is a number in any case.                                             *)
LEMMA DepthIsANumber ==
  ASSUME NEW m, SoundMetrics(m), NEW T, NEW columns \in Seq(T),
         NEW sort_fields, NEW column
  PROVE  DepthOf(Profile(m, columns, sort_fields), column) \in Nat
<1> DEFINE p == Profile(m, columns, sort_fields)
<1>1. /\ SmallRatio(m) \in Nat /\ SortedDepth(m) \in Nat
      /\ UnsortedDepth(m) \in Nat
  BY SmallRatioInRange, SortedIsShallower
<1>2. \/ DepthOf(p, column) = 20000 + 8 * SmallRatio(m)
      \/ DepthOf(p, column) = 100 * SortedDepth(m)
      \/ DepthOf(p, column) = 100 * UnsortedDepth(m)
  BY DepthOfProfile
<1> HIDE DEF p
<1>3. DepthOf(p, column) \in Nat
  BY <1>1, <1>2
<1> QED  BY <1>3 DEF p

(* What a profile takes from the metrics.                                  *)
LEMMA ProfileIsSound ==
  ASSUME NEW m, SoundMetrics(m), NEW columns, NEW sort_fields
  PROVE  LET p == Profile(m, columns, sort_fields)
         IN SoundProfile(p) /\ p.file_count = m.file_count
            /\ p.small_ratio = SmallRatio(m)
<1> DEFINE p == Profile(m, columns, sort_fields)
<1>1. /\ p.file_count = m.file_count /\ p.small_ratio = SmallRatio(m)
      /\ p.avg_file_size = IF m.file_count = 0 THEN 0
                           ELSE m.data_size \div m.file_count
  BY DEF Profile
<1>2. m.file_count # 0 => m.data_size \div m.file_count \in Nat
  <2> SUFFICES ASSUME m.file_count # 0
               PROVE  m.data_size \div m.file_count \in Nat
    OBVIOUS
  <2>1. /\ m.data_size \in Int /\ 0 <= m.data_size /\ 0 \in Int
        /\ m.file_count \in Nat \ {0}
    BY DEF SoundMetrics
  <2>2. 0 \div m.file_count <= m.data_size \div m.file_count
        /\ m.data_size \div m.file_count \in Int
    BY <2>1, DivisionRises, Division
  <2>3. 0 \div m.file_count = 0
    BY <2>1
  <2> QED  BY <2>2, <2>3
<1> HIDE DEF p
<1> QED  BY <1>1, <1>2 DEF SoundProfile, SoundMetrics, p

(* A sort order by a column sorts that column.                             *)
LEMMA SortsItself ==
  ASSUME NEW column
  PROVE  column \in SortColumns({[source |-> column]})
<1> DEFINE f == [source |-> column]
<1>1. f.source = column /\ "source" \in DOMAIN f
  OBVIOUS
<1> HIDE DEF f
<1>2. f \in {g \in {f} : "source" \in DOMAIN g}
  BY <1>1
<1>3. column \in SortColumns({f})
  BY <1>1, <1>2 DEF SortColumns
<1> QED  BY <1>3 DEF f

(* Sorting by a column never makes it deeper.                              *)
LEMMA SortingHelps ==
  ASSUME NEW m, SoundMetrics(m), NEW T, NEW columns \in Seq(T),
         NEW sort_fields, NEW column
  PROVE  DepthOf(Profile(m, columns, {[source |-> column]}), column)
           <= DepthOf(Profile(m, columns, sort_fields), column)
<1> DEFINE at == CandidatesOf(columns, column)
           a == DepthOf(Profile(m, columns, {[source |-> column]}), column)
           b == DepthOf(Profile(m, columns, sort_fields), column)
<1>1. column \in SortColumns({[source |-> column]})
  BY SortsItself
<1>2. a = IF at = {} THEN 20000 + 8 * SmallRatio(m) ELSE 100 * SortedDepth(m)
  BY <1>1, DepthOfProfile
<1>3. b = IF at = {} THEN 20000 + 8 * SmallRatio(m)
          ELSE IF column \in SortColumns(sort_fields)
               THEN 100 * SortedDepth(m) ELSE 100 * UnsortedDepth(m)
  BY DepthOfProfile
<1>4. /\ SmallRatio(m) \in Nat /\ SortedDepth(m) \in Nat
      /\ UnsortedDepth(m) \in Nat /\ SortedDepth(m) <= UnsortedDepth(m)
  BY SmallRatioInRange, SortedIsShallower
<1> HIDE DEF a, b, at
<1>5. a <= b
  BY <1>2, <1>3, <1>4
<1> QED  BY <1>5 DEF a, b

(* A larger target size never touches more files: a larger file holds      *)
(* more,                                                                   *)
LEMMA LargerFilesAreFewer ==
  ASSUME NEW p, SoundProfile(p), NEW query, NEW current \in Nat,
         NEW target \in Nat \ {0},
         NEW a \in Nat \ {0}, NEW b \in Nat \ {0}, a <= b
  PROVE  ProjectedFiles(p, [kind |-> "refile_size", to |-> b], query,
                        current, target)
           <= ProjectedFiles(p, [kind |-> "refile_size", to |-> a], query,
                             current, target)
<1> DEFINE F == Files(p)
           v == F * p.avg_file_size
           m == Most(1, Ceil(v, a))
           n == Most(1, Ceil(v, b))
           c == [kind |-> "refile_size", to |-> a]
           d == [kind |-> "refile_size", to |-> b]
           x == Unclamped(p, c, query, current, target)
           y == Unclamped(p, d, query, current, target)
<1>1. F \in Nat \ {0} /\ v \in Nat
  BY SomeFiles DEF SoundProfile
<1>2. c.kind = "refile_size" /\ d.kind = "refile_size" /\ c.to = a /\ d.to = b
  OBVIOUS
<1> HIDE DEF c, d
<1>3. x = Most(1, Ceil(current * m, F)) /\ y = Most(1, Ceil(current * n, F))
  BY <1>2 DEF Unclamped, Given
<1> HIDE DEF F, v, x, y
<1>4. Ceil(v, b) <= Ceil(v, a) /\ Ceil(v, a) \in Int /\ Ceil(v, b) \in Int
  BY <1>1, CeilFalls, Ceiling
<1>5. m \in Nat /\ n \in Nat /\ n <= m
  BY <1>4 DEF Most
<1> HIDE DEF m, n
<1>6. /\ current * m \in Int /\ current * n \in Int
      /\ current * n <= current * m
  <2>1. PICK e \in Nat : m = n + e
    <3>1. m - n \in Nat /\ m = n + (m - n)
      BY <1>5
    <3> QED  BY <3>1
  <2>2. current * m = current * n + current * e /\ current * e >= 0
    BY <1>5, <2>1
  <2> QED  BY <1>5, <2>2
<1>7. Ceil(current * n, F) <= Ceil(current * m, F)
      /\ Ceil(current * n, F) \in Int /\ Ceil(current * m, F) \in Int
  BY <1>1, <1>6, CeilRises, Ceiling
<1>8. x \in Int /\ y \in Int /\ y <= x
  BY <1>3, <1>7 DEF Most
<1>9. Most(1, Least(y, F)) <= Most(1, Least(x, F))
  BY <1>1, <1>8 DEF Most, Least
<1> QED  BY <1>9 DEF ProjectedFiles, F, x, y, c, d

(* a target of the size that the files have touches as many as before,     *)
LEMMA SameSizeChangesNothing ==
  ASSUME NEW p, SoundProfile(p), p.avg_file_size > 0, NEW query,
         NEW current \in Nat, 1 <= current, current <= Files(p),
         NEW target \in Nat \ {0}
  PROVE  ProjectedFiles(p, [kind |-> "refile_size", to |-> p.avg_file_size],
                        query, current, target) = current
<1> DEFINE F == Files(p)
           g == p.avg_file_size
           c == [kind |-> "refile_size", to |-> g]
           x == Unclamped(p, c, query, current, target)
<1>1. F \in Nat \ {0} /\ g \in Nat \ {0}
  BY SomeFiles DEF SoundProfile
<1>2. c.kind = "refile_size" /\ c.to = g
  OBVIOUS
<1> HIDE DEF c
<1>3. x = Most(1, Ceil(current * Most(1, Ceil(F * g, g)), F))
  BY <1>1, <1>2 DEF Unclamped, Given
<1> HIDE DEF F, g, x
<1>4. Ceil(F * g, g) = F
  BY <1>1, CeilOfMultiple
<1>5. Most(1, F) = F
  BY <1>1 DEF Most
<1>6. Ceil(current * F, F) = current
  BY <1>1, CeilOfMultiple
<1>7. x = current
  BY <1>3, <1>4, <1>5, <1>6 DEF Most
<1>8. Most(1, Least(x, F)) = current
  BY <1>1, <1>7 DEF Most, Least, F
<1> QED  BY <1>8 DEF ProjectedFiles, F, x, c, g

(* and a finer partitioning never touches more than a coarser one.         *)
Finer == {<<"hour", "day">>, <<"day", "week">>, <<"week", "month">>}

(* From hours to months, the files of a query never get fewer.             *)
LEMMA FinerIsFewer ==
  ASSUME NEW p, SoundProfile(p), NEW query, NEW current \in Nat,
         NEW target \in Nat \ {0}, NEW g \in Finer
  PROVE  ProjectedFiles(p, [kind |-> "repartition", to |-> g[1]], query,
                        current, target)
           <= ProjectedFiles(p, [kind |-> "repartition", to |-> g[2]], query,
                             current, target)
<1> DEFINE by(to) == Granularity(to)
           of(to) == Ceil(current * by(to)[2], by(to)[1])
           x(to) == Unclamped(p, [kind |-> "repartition", to |-> to], query,
                              current, target)
<1>1. /\ of("hour") = Ceil(current, 24) /\ of("day") = Ceil(current, 7)
      /\ of("week") = Ceil(current, 4) /\ of("month") = Ceil(current * 4, 1)
  BY DEF Granularity
<1>2. /\ Ceil(current, 24) \in Int /\ Ceil(current, 7) \in Int
      /\ Ceil(current, 4) \in Int
  BY Ceiling
<1>3. Ceil(current, 24) <= Ceil(current, 7)
      /\ Ceil(current, 7) <= Ceil(current, 4)
  BY CeilFalls
<1>4. Ceil(current * 4, 1) = current * 4 /\ Ceil(current, 4) <= current * 4
  BY DEF Ceil
<1>5. of(g[1]) \in Int /\ of(g[2]) \in Int /\ of(g[1]) <= of(g[2])
  BY <1>1, <1>2, <1>3, <1>4 DEF Finer
<1>6. \A to : x(to) = Most(1, of(to))
  BY DEF Unclamped
<1> HIDE DEF x, of
<1>7. x(g[1]) \in Int /\ x(g[2]) \in Int /\ x(g[1]) <= x(g[2])
  BY <1>5, <1>6 DEF Most
<1>8. Files(p) \in Nat
  BY SomeFiles
<1>9. Most(1, Least(x(g[1]), Files(p))) <= Most(1, Least(x(g[2]), Files(p)))
  BY <1>7, <1>8 DEF Most, Least
<1> QED  BY <1>9 DEF ProjectedFiles, x

(* The metrics of the index are sound.                                     *)
LEMMA IndexedIsSound ==
  LifecycleInv /\ index # None => SoundMetrics(index.metrics)
<1> SUFFICES ASSUME LifecycleInv, index # None
             PROVE  SoundMetrics(index.metrics)
  OBVIOUS
<1>1. /\ index.metrics \in Metric
      /\ index.metrics.small <= index.metrics.file_count
  BY DEF LifecycleInv, IndexHolds, IndexRecord
<1> QED  BY <1>1 DEF Metric, SoundMetrics

(* What a what-if projection promises of one query.                        *)
Plausible(p, change, query, target) ==
  LET q == ProjectQuery(p, change, query, target)
  IN /\ q.current_files \in 1..Files(p)
     /\ q.projected_files \in 1..Files(p)
     /\ Share(q.files_reduction)
     /\ ~BelowZero(change) => Share(q.bytes_reduction)

(* Whatever change and query a client sends, no projection over an indexed *)
(* table touches no file or more files than there are, and none promises   *)
(* a cut below 0 or above 100 percent (layout/whatif_service.py:57-119),   *)
(* but for the bytes of a target size below zero.                          *)
THEOREM ProjectionsStayInRange ==
  ASSUME NEW T, NEW columns \in Seq(T), NEW sort_fields,
         NEW change, SoundChange(change),
         NEW query, query.selectivity \in Int, NEW target \in Nat \ {0}
  PROVE  Spec => [](index # None =>
                      Plausible(Profile(index.metrics, columns, sort_fields),
                                change, query, target))
<1>1. LifecycleInv => (index # None =>
                         Plausible(Profile(index.metrics, columns,
                                           sort_fields),
                                   change, query, target))
  <2> SUFFICES ASSUME LifecycleInv, index # None
               PROVE  Plausible(Profile(index.metrics, columns, sort_fields),
                                change, query, target)
    OBVIOUS
  <2> DEFINE p == Profile(index.metrics, columns, sort_fields)
  <2>1. SoundMetrics(index.metrics)
    BY IndexedIsSound
  <2>2. SoundProfile(p) /\ DepthOf(p, query.column) \in Nat
    BY <2>1, ProfileIsSound, DepthIsANumber
  <2> HIDE DEF p
  <2>3. Plausible(p, change, query, target)
    BY <2>2, QueryInRange DEF Plausible
  <2> QED  BY <2>3 DEF p
<1> QED  BY <1>1, LifecycleHolds, PTL

(* How many files a change of the layout makes one query touch.            *)
AfterChange(p, kind, to, query, target) ==
  ProjectQuery(p, [kind |-> kind, to |-> to], query, target).projected_files

(* A projection over a profile follows the target that is asked for        *)
(* (layout/whatif_service.py:99-119): larger files never make a query      *)
(* touch more of them, a finer partitioning never more than a coarser one, *)
(* and a target of the present size changes nothing.                       *)
FollowsTarget(p, query, target) ==
  /\ \A a, b \in Nat \ {0} :
       a <= b => AfterChange(p, "refile_size", b, query, target)
                   <= AfterChange(p, "refile_size", a, query, target)
  /\ \A g \in Finer :
       AfterChange(p, "repartition", g[1], query, target)
         <= AfterChange(p, "repartition", g[2], query, target)
  /\ p.avg_file_size > 0 =>
       AfterChange(p, "refile_size", p.avg_file_size, query, target)
         = CurrentFiles(p, query.column)

LEMMA ProfileFollows ==
  ASSUME NEW p, SoundProfile(p), NEW query,
         DepthOf(p, query.column) \in Nat, NEW target \in Nat \ {0}
  PROVE  FollowsTarget(p, query, target)
<1> DEFINE c == CurrentFiles(p, query.column)
<1>1. c \in Nat /\ 1 <= c /\ c <= Files(p)
  BY CurrentInRange
<1>2. \A kind, to : AfterChange(p, kind, to, query, target)
                      = ProjectedFiles(p, [kind |-> kind, to |-> to], query,
                                       c, target)
  BY DEF AfterChange, ProjectQuery
<1> HIDE DEF c
<1>3. ASSUME NEW a \in Nat \ {0}, NEW b \in Nat \ {0}, a <= b
      PROVE  AfterChange(p, "refile_size", b, query, target)
               <= AfterChange(p, "refile_size", a, query, target)
  <2>1. ProjectedFiles(p, [kind |-> "refile_size", to |-> b], query, c, target)
          <= ProjectedFiles(p, [kind |-> "refile_size", to |-> a], query,
                            c, target)
    BY <1>1, <1>3, LargerFilesAreFewer
  <2> QED  BY <1>2, <2>1
<1>4. ASSUME NEW g \in Finer
      PROVE  AfterChange(p, "repartition", g[1], query, target)
               <= AfterChange(p, "repartition", g[2], query, target)
  <2>1. ProjectedFiles(p, [kind |-> "repartition", to |-> g[1]], query,
                       c, target)
          <= ProjectedFiles(p, [kind |-> "repartition", to |-> g[2]], query,
                            c, target)
    BY <1>1, FinerIsFewer
  <2> QED  BY <1>2, <2>1
<1>5. ASSUME p.avg_file_size > 0
      PROVE  AfterChange(p, "refile_size", p.avg_file_size, query, target) = c
  <2>1. ProjectedFiles(p, [kind |-> "refile_size", to |-> p.avg_file_size],
                       query, c, target) = c
    BY <1>1, <1>5, SameSizeChangesNothing
  <2> QED  BY <1>2, <2>1
<1> QED  BY <1>3, <1>4, <1>5 DEF FollowsTarget, c

(* and with them those over every indexed table                            *)
(* (layout/whatif_service.py:99-119).                                      *)
THEOREM ProjectionsFollowTheirTarget ==
  ASSUME NEW T, NEW columns \in Seq(T), NEW sort_fields,
         NEW query, NEW target \in Nat \ {0}
  PROVE  Spec => [](index # None =>
                      FollowsTarget(Profile(index.metrics, columns,
                                            sort_fields), query, target))
<1>1. LifecycleInv => (index # None =>
                         FollowsTarget(Profile(index.metrics, columns,
                                               sort_fields), query, target))
  <2> SUFFICES ASSUME LifecycleInv, index # None
               PROVE  FollowsTarget(Profile(index.metrics, columns,
                                            sort_fields), query, target)
    OBVIOUS
  <2> DEFINE p == Profile(index.metrics, columns, sort_fields)
  <2>1. SoundMetrics(index.metrics)
    BY IndexedIsSound
  <2>2. SoundProfile(p) /\ DepthOf(p, query.column) \in Nat
    BY <2>1, ProfileIsSound, DepthIsANumber
  <2> HIDE DEF p
  <2>3. FollowsTarget(p, query, target)
    BY <2>2, ProfileFollows
  <2> QED  BY <2>3 DEF p
<1> QED  BY <1>1, LifecycleHolds, PTL

(* Sorting an indexed table by one column never makes the profile say that *)
(* a query on it reads deeper (layout/service.py:116-153).                 *)
THEOREM SortingNeverDeepens ==
  ASSUME NEW T, NEW columns \in Seq(T), NEW sort_fields, NEW column
  PROVE  Spec => [](index # None =>
                      DepthOf(Profile(index.metrics, columns,
                                      {[source |-> column]}), column)
                        <= DepthOf(Profile(index.metrics, columns,
                                           sort_fields), column))
<1>1. LifecycleInv => (index # None =>
                         DepthOf(Profile(index.metrics, columns,
                                         {[source |-> column]}), column)
                           <= DepthOf(Profile(index.metrics, columns,
                                              sort_fields), column))
  BY IndexedIsSound, SortingHelps
<1> QED  BY <1>1, LifecycleHolds, PTL

-----------------------------------------------------------------------------
(* Sorting, and what is said of several queries or columns at once.        *)

(* The indices in S that come before i.                                    *)
Below(S, key, i) == {j \in S : Before(key, j, i)}

(* They are fewer the earlier i comes.                                     *)
LEMMA EarlierHasFewer ==
  ASSUME NEW S \in SUBSET Int, IsFiniteSet(S), NEW key,
         \A i \in S : key[i] \in Int
  PROVE  /\ \A i \in S : /\ Cardinality(Below(S, key, i)) \in Nat
                         /\ Cardinality(Below(S, key, i)) < Cardinality(S)
         /\ \A i, j \in S : Before(key, i, j) =>
              Cardinality(Below(S, key, i)) < Cardinality(Below(S, key, j))
<1>1. ASSUME NEW T, NEW U, IsFiniteSet(U), T \subseteq U, T # U
      PROVE  /\ Cardinality(T) \in Nat /\ Cardinality(U) \in Nat
             /\ Cardinality(T) < Cardinality(U)
  <2>1. /\ IsFiniteSet(T) /\ Cardinality(T) <= Cardinality(U)
        /\ Cardinality(U) # Cardinality(T)
    BY <1>1, FS_Subset
  <2> QED  BY <1>1, <2>1, FS_CardinalityType
<1>2. \A i \in S : i \notin Below(S, key, i) /\ Below(S, key, i) \subseteq S
  BY DEF Below, Before
<1>3. \A i \in S : IsFiniteSet(Below(S, key, i))
  BY <1>2, FS_Subset
<1>4. ASSUME NEW i \in S, NEW j \in S, Before(key, i, j)
      PROVE  /\ Below(S, key, i) \subseteq Below(S, key, j)
             /\ i \in Below(S, key, j)
  <2>1. \A h \in S : Before(key, h, i) => Before(key, h, j)
    <3> SUFFICES ASSUME NEW h \in S, Before(key, h, i)
                 PROVE  Before(key, h, j)
      OBVIOUS
    <3>1. h \in Int /\ i \in Int /\ j \in Int
      OBVIOUS
    <3>2. key[h] \in Int /\ key[i] \in Int /\ key[j] \in Int
      OBVIOUS
    <3> QED  BY <1>4, <3>1, <3>2 DEF Before
  <2> QED  BY <1>4, <2>1 DEF Below
<1>5. ASSUME NEW i \in S
      PROVE  /\ Cardinality(Below(S, key, i)) \in Nat
             /\ Cardinality(Below(S, key, i)) < Cardinality(S)
  BY <1>1, <1>2
<1>6. ASSUME NEW i \in S, NEW j \in S, Before(key, i, j)
      PROVE  Cardinality(Below(S, key, i)) < Cardinality(Below(S, key, j))
  BY <1>1, <1>2, <1>3, <1>4, <1>6
<1> QED  BY <1>5, <1>6

(* Every place from 0 on is taken by one of them.                          *)
LEMMA EveryPlaceIsTaken ==
  ASSUME NEW S \in SUBSET Int, IsFiniteSet(S), NEW key,
         \A i \in S : key[i] \in Int,
         NEW k \in 0..(Cardinality(S) - 1)
  PROVE  \E i \in S : Cardinality(Below(S, key, i)) = k
<1> DEFINE n == Cardinality(S)
           D == 0..(n - 1)
           f == [i \in S |-> Cardinality(Below(S, key, i))]
<1>1. n \in Nat
  BY FS_CardinalityType
<1>2. f \in [S -> D]
  <2>1. \A i \in S : /\ Cardinality(Below(S, key, i)) \in Nat
                     /\ Cardinality(Below(S, key, i)) < n
    BY EarlierHasFewer
  <2> QED  BY <1>1, <2>1
<1>3. \A i, j \in S : i # j => f[i] # f[j]
  <2> SUFFICES ASSUME NEW i \in S, NEW j \in S, i # j
               PROVE  f[i] # f[j]
    OBVIOUS
  <2>1. Before(key, i, j) \/ Before(key, j, i)
    BY DEF Before
  <2>2. f[i] < f[j] \/ f[j] < f[i]
    BY <2>1, EarlierHasFewer
  <2>3. f[i] \in Int /\ f[j] \in Int
    BY <1>1, <1>2
  <2> QED  BY <2>2, <2>3
<1>4. DOMAIN f = S
  OBVIOUS
<1>5. f \in Injection(S, D)
  <2> HIDE DEF f, D
  <2> QED  BY <1>2, <1>3, <1>4 DEF Injection, IsInjective
<1>6. IsFiniteSet(D) /\ Cardinality(D) = n
  BY <1>1, FS_Interval
<1>7. f \in Surjection(S, D)
  BY <1>5, <1>6, FS_Injection
<1>8. \E i \in S : f[i] = k
  BY <1>7 DEF Surjection
<1> QED  BY <1>8

(* What sorting returns: indices of S, by rising key.                      *)
LEMMA InOrderRises ==
  ASSUME NEW S \in SUBSET Int, IsFiniteSet(S), NEW key,
         \A i \in S : key[i] \in Int
  PROVE  LET o == InOrder(S, key)
             D == 1..Cardinality(S)
         IN /\ o \in [D -> S]
            /\ \A a, b \in D : a <= b => key[o[a]] <= key[o[b]]
<1> DEFINE o == InOrder(S, key)
           D == 1..Cardinality(S)
           at(n) == CHOOSE i \in S : Cardinality(Below(S, key, i)) = n - 1
<1>1. Cardinality(S) \in Nat
  BY FS_CardinalityType
<1>2. o = [n \in D |-> at(n)]
  BY DEF InOrder, Below
<1>3. ASSUME NEW n \in D
      PROVE  at(n) \in S /\ Cardinality(Below(S, key, at(n))) = n - 1
  <2>1. n - 1 \in 0..(Cardinality(S) - 1)
    BY <1>1
  <2>2. \E i \in S : Cardinality(Below(S, key, i)) = n - 1
    BY <2>1, EveryPlaceIsTaken
  <2> QED  BY <2>2, Zenon
<1> HIDE DEF o, at
<1>4. o \in [D -> S]
  BY <1>2, <1>3
<1>5. ASSUME NEW a \in D, NEW b \in D, a <= b
      PROVE  key[o[a]] <= key[o[b]]
  <2> DEFINE i == at(a)
             j == at(b)
  <2>1. o[a] = i /\ o[b] = j /\ i \in S /\ j \in S
    BY <1>2, <1>3
  <2>2. Cardinality(Below(S, key, i)) = a - 1
        /\ Cardinality(Below(S, key, j)) = b - 1
    BY <1>3
  <2> HIDE DEF i, j
  <2>3. Before(key, j, i) => b - 1 < a - 1
    BY <2>1, <2>2, EarlierHasFewer
  <2>4. ~ Before(key, j, i)
    BY <1>1, <1>5, <2>3
  <2> QED  BY <2>1, <2>4 DEF Before
<1> QED  BY <1>4, <1>5 DEF o

(* A share is a number.                                                    *)
LEMMA ShareIsANumber ==
  ASSUME NEW x, Share(x)
  PROVE  x \in Nat /\ x <= 1000 /\ x \in Int
BY DEF Share

(* A sorted sequence of numbers rises and has the same numbers.            *)
LEMMA SortedRises ==
  ASSUME NEW n \in Nat, NEW v \in [1..n -> Int]
  PROVE  LET s == Sorted(v)
         IN /\ \A k \in 1..n : \E i \in 1..n : s[k] = v[i]
            /\ \A a, b \in 1..n : a <= b => s[a] <= s[b]
<1> DEFINE D == 1..n
           o == InOrder(D, v)
           s == Sorted(v)
<1>1. D \in SUBSET Int /\ IsFiniteSet(D) /\ Cardinality(D) = n
  BY FS_Interval
<1>2. \A i \in D : v[i] \in Int
  OBVIOUS
<1>3. DOMAIN v = D
  OBVIOUS
<1> HIDE DEF D
<1>4. /\ o \in [1..n -> D]
      /\ \A a, b \in 1..n : a <= b => v[o[a]] <= v[o[b]]
  BY <1>1, <1>2, InOrderRises
<1>5. s = [k \in 1..n |-> v[o[k]]]
  BY <1>3, <1>4 DEF Sorted
<1> HIDE DEF o, s
<1>6. \A k \in 1..n : o[k] \in D /\ s[k] = v[o[k]]
  BY <1>4, <1>5
<1>7. \A k \in 1..n : \E i \in D : s[k] = v[i]
  BY <1>6
<1>8. \A a, b \in 1..n : a <= b => s[a] <= s[b]
  BY <1>4, <1>6
<1> QED  BY <1>7, <1>8 DEF s, D

(* The mean of two numbers is between them, rounded too.                   *)
LEMMA MeanIsBetween ==
  ASSUME NEW a \in Nat, NEW b \in Nat, a <= b
  PROVE  /\ Round(a + b, 2) \in Int
         /\ a <= Round(a + b, 2) /\ Round(a + b, 2) <= b
<1>1. /\ a * 2 \in Int /\ b * 2 \in Int /\ a + b \in Int /\ 2 \in Nat \ {0}
      /\ a * 2 <= a + b /\ a + b <= b * 2
  OBVIOUS
<1>2. Round(a * 2, 2) = a /\ Round(b * 2, 2) = b
  BY <1>1, RoundOfMultiple
<1>3. Round(a * 2, 2) <= Round(a + b, 2) /\ Round(a + b, 2) <= Round(b * 2, 2)
  BY <1>1, RoundRises
<1>4. Round(a + b, 2) \in Int
  BY <1>1, Rounded
<1> QED  BY <1>2, <1>3, <1>4

(* The median of some shares is one, between the least and the largest     *)
(* (layout/whatif_service.py:156-163).                                     *)
LEMMA MedianIsBetween ==
  ASSUME NEW n \in Nat \ {0}, NEW v \in [1..n -> Int],
         \A i \in 1..n : Share(v[i])
  PROVE  LET s == Sorted(v)
         IN /\ Share(Median(v))
            /\ s[1] <= Median(v) /\ Median(v) <= s[n]
<1> DEFINE s == Sorted(v)
           h == n \div 2
<1>1. /\ \A k \in 1..n : \E i \in 1..n : s[k] = v[i]
      /\ \A a, b \in 1..n : a <= b => s[a] <= s[b]
  BY SortedRises
<1>2. \A k \in 1..n : Share(s[k])
  BY <1>1
<1>3. /\ v # <<>> /\ Len(v) = n
  OBVIOUS
<1> HIDE DEF s
<1>4. Median(v) = IF n % 2 = 1 THEN s[h + 1] ELSE Round(s[h] + s[h + 1], 2)
  BY <1>3 DEF Median, s
<1>5. /\ \A k \in 1..n : s[k] \in Nat /\ s[k] <= 1000
  BY <1>2, ShareIsANumber
<1>6. 1 \in 1..n /\ n \in 1..n
  OBVIOUS
<1>7. CASE n % 2 = 1
  <2>1. h + 1 \in 1..n /\ 1 <= h + 1 /\ h + 1 <= n
    BY <1>7
  <2> HIDE DEF h
  <2>2. s[1] <= s[h + 1] /\ s[h + 1] <= s[n]
    BY <1>1, <1>6, <2>1
  <2>3. Median(v) = s[h + 1] /\ Share(s[h + 1])
    BY <1>2, <1>4, <1>7, <2>1
  <2> QED  BY <2>2, <2>3 DEF s
<1>8. CASE n % 2 # 1
  <2>1. /\ h \in 1..n /\ h + 1 \in 1..n
        /\ 1 <= h /\ h <= h + 1 /\ h + 1 <= n
    BY <1>8
  <2> DEFINE a == s[h]
             b == s[h + 1]
             m == Round(a + b, 2)
  <2>2. Median(v) = m
    BY <1>4, <1>8
  <2>3. /\ s[1] <= a /\ a <= b /\ b <= s[n]
        /\ a \in Nat /\ b \in Nat /\ b <= 1000
    <3> HIDE DEF h
    <3>1. s[1] <= s[h] /\ s[h] <= s[h + 1] /\ s[h + 1] <= s[n]
      BY <1>1, <1>6, <2>1
    <3> QED  BY <1>5, <2>1, <3>1
  <2>4. s[1] \in Nat /\ s[n] \in Nat
    BY <1>5, <1>6
  <2> HIDE DEF a, b
  <2>5. m \in Int /\ a <= m /\ m <= b
    BY <2>3, MeanIsBetween
  <2> HIDE DEF m
  <2>6. s[1] <= m /\ m <= s[n] /\ m \in Nat /\ m <= 1000
    BY <2>3, <2>4, <2>5
  <2>7. Share(m)
    BY <2>6 DEF Share
  <2> QED  BY <2>2, <2>6, <2>7 DEF s
<1> QED  BY <1>7, <1>8

(* A question that a simulation can answer.                                *)
SoundQuery(p, query) ==
  query.selectivity \in Int /\ DepthOf(p, query.column) \in Nat

(* What a simulation says of n queries together.                           *)
SummedUpRight(p, change, queries, n, target) ==
  LET r == Simulate(p, change, queries, target)
  IN /\ \A i \in 1..n :
          r.queries[i] = ProjectQuery(p, change, queries[i], target)
     /\ Share(r.typical)
     /\ r.worst <= r.typical /\ r.typical <= r.best

(* It has every answer, and their median between the worst and the best    *)
(* (layout/whatif_service.py:31-51).                                       *)
LEMMA SimulationInRange ==
  ASSUME NEW p, SoundProfile(p), NEW change, SoundChange(change),
         NEW n \in Nat, NEW T, NEW queries \in [1..n -> T],
         \A i \in 1..n : SoundQuery(p, queries[i]),
         NEW target \in Nat \ {0}
  PROVE  SummedUpRight(p, change, queries, n, target)
<1> DEFINE of == [i \in 1..n |-> ProjectQuery(p, change, queries[i], target)]
           cut == [i \in 1..n |-> of[i].files_reduction]
           r == Simulate(p, change, queries, target)
<1>1. DOMAIN queries = 1..n /\ DOMAIN of = 1..n
  OBVIOUS
<1>2. /\ r.queries = of /\ r.typical = Median(cut)
      /\ r.best = IF cut = <<>> THEN 0 ELSE Sorted(cut)[Len(cut)]
      /\ r.worst = IF cut = <<>> THEN 0 ELSE Sorted(cut)[1]
  BY <1>1 DEF Simulate
<1>3. \A i \in 1..n : Share(of[i].files_reduction)
  BY QueryInRange DEF SoundQuery
<1>4. \A i \in 1..n : of[i] = ProjectQuery(p, change, queries[i], target)
  OBVIOUS
<1> HIDE DEF of, r
<1>5. cut \in [1..n -> Int] /\ \A i \in 1..n : Share(cut[i])
  <2>1. \A i \in 1..n : of[i].files_reduction \in Int
    BY <1>3, ShareIsANumber
  <2> QED  BY <1>3, <2>1
<1> HIDE DEF cut
<1>6. CASE n = 0
  <2>1. cut = <<>>
    BY <1>5, <1>6
  <2>2. r.typical = 0 /\ r.best = 0 /\ r.worst = 0
    BY <1>2, <2>1 DEF Median
  <2> QED  BY <1>2, <1>4, <2>2 DEF r, Share, SummedUpRight
<1>7. CASE n # 0
  <2>1. n \in Nat \ {0} /\ cut # <<>> /\ Len(cut) = n
    BY <1>5, <1>7
  <2>2. /\ Share(Median(cut))
        /\ Sorted(cut)[1] <= Median(cut) /\ Median(cut) <= Sorted(cut)[n]
    BY <1>5, <2>1, MedianIsBetween
  <2>3. /\ r.best = Sorted(cut)[n] /\ r.worst = Sorted(cut)[1]
    BY <1>2, <2>1
  <2> QED  BY <1>2, <1>4, <2>2, <2>3 DEF r, SummedUpRight
<1> QED  BY <1>6, <1>7

(* A column of the schema as the profile shows it.                         *)
SchemaColumn ==
  [name : {"region", "at", "user_id"}, cardinality : {"low", "medium", "high"}]

LEMMA SchemasTyped == \A columns \in Schemas : columns \in Seq(SchemaColumn)
<1> DEFINE a == Column("region", "low")
           b == Column("at", "medium")
           c == Column("user_id", "high")
<1>1. a \in SchemaColumn /\ b \in SchemaColumn /\ c \in SchemaColumn
  BY DEF Column, SchemaColumn
<1>2. Schemas = {<<>>, <<a, b, c>>}
  BY DEF Schemas
<1> HIDE DEF a, b, c
<1>3. <<a, b, c>> \in Seq(SchemaColumn)
  BY <1>1
<1>4. <<>> \in Seq(SchemaColumn)
  OBVIOUS
<1> QED  BY <1>2, <1>3, <1>4, Zenon

(* The questions that a client asks are sound, and so are the changes.     *)
LEMMA ChangesAreSound == \A change \in Change : SoundChange(change)
BY DEF Change, SoundChange, GoodSize

LEMMA QueriesAreSound ==
  ASSUME NEW m, SoundMetrics(m), NEW T, NEW columns \in Seq(T),
         NEW sort_fields, NEW queries \in Queries(columns)
  PROVE  \E n \in Nat : \E U :
           /\ queries \in [1..n -> U]
           /\ \A i \in 1..n :
                SoundQuery(Profile(m, columns, sort_fields), queries[i])
<1> DEFINE p == Profile(m, columns, sort_fields)
<1>1. \A column : DepthOf(p, column) \in Nat
  BY DepthIsANumber
<1> HIDE DEF p
<1>2. \A s \in Selectivity : s \in Int
  BY DEF Selectivity
<1>3. CASE \E s \in Selectivity : queries = <<[column |-> "other",
                                                selectivity |-> s]>>
  <2>1. PICK s \in Selectivity : queries = <<[column |-> "other",
                                              selectivity |-> s]>>
    BY <1>3
  <2> DEFINE q == [column |-> "other", selectivity |-> s]
  <2>2. SoundQuery(p, q)
    BY <1>1, <1>2 DEF SoundQuery
  <2> HIDE DEF q
  <2>3. <<q>> \in [1..1 -> {q}] /\ \A i \in 1..1 : <<q>>[i] = q
    OBVIOUS
  <2>4. queries = <<q>>
    BY <2>1 DEF q
  <2> QED  BY <2>2, <2>3, <2>4 DEF p
<1>4. CASE \E s \in Selectivity :
             queries = [i \in DOMAIN columns |->
                          [column |-> columns[i].name, selectivity |-> s]]
  <2>1. PICK s \in Selectivity :
             queries = [i \in DOMAIN columns |->
                          [column |-> columns[i].name, selectivity |-> s]]
    BY <1>4
  <2> DEFINE q(i) == [column |-> columns[i].name, selectivity |-> s]
             n == Len(columns)
             U == {q(i) : i \in 1..n}
  <2>2. \A i : SoundQuery(p, q(i))
    BY <1>1, <1>2 DEF SoundQuery
  <2>3. DOMAIN columns = 1..n /\ n \in Nat
    OBVIOUS
  <2>4. queries = [i \in 1..n |-> q(i)]
    BY <2>1, <2>3
  <2> HIDE DEF q, n
  <2>5. queries \in [1..n -> U]
    BY <2>4
  <2>6. \A i \in 1..n : SoundQuery(p, queries[i])
    BY <2>2, <2>4
  <2> QED  BY <2>3, <2>5, <2>6 DEF p
<1> QED  BY <1>3, <1>4 DEF Queries

(* So every projection is in range, and its summary ordered,               *)
LEMMA ProjectionsAreInRange ==
  ASSUME NEW m, SoundMetrics(m), NEW T, NEW columns \in Seq(T),
         NEW sort_fields, NEW change, SoundChange(change),
         NEW queries \in Queries(columns)
  PROVE  ProjectionInRange(Profile(m, columns, sort_fields), change, queries)
<1> DEFINE p == Profile(m, columns, sort_fields)
           r == Simulate(p, change, queries, GoodSize)
<1>1. SoundProfile(p)
  BY ProfileIsSound
<1>2a. PICK n \in Nat : \E U :
            /\ queries \in [1..n -> U]
            /\ \A i \in 1..n : SoundQuery(p, queries[i])
  BY QueriesAreSound
<1>2. PICK U :
           /\ queries \in [1..n -> U]
           /\ \A i \in 1..n : SoundQuery(p, queries[i])
  BY <1>2a
<1>3. GoodSize \in Nat \ {0}
  BY DEF GoodSize
<1> HIDE DEF p
<1>4. /\ \A i \in 1..n :
           r.queries[i] = ProjectQuery(p, change, queries[i], GoodSize)
      /\ r.worst <= r.typical /\ r.typical <= r.best
  <2>1. SummedUpRight(p, change, queries, n, GoodSize)
    BY <1>1, <1>2, <1>3, SimulationInRange
  <2> QED  BY <2>1 DEF SummedUpRight
<1> HIDE DEF r
<1>5. ASSUME NEW i \in DOMAIN queries
      PROVE  LET q == r.queries[i] IN
             /\ q.current_files \in 1..Files(p)
             /\ q.projected_files \in 1..Files(p)
             /\ Share(q.files_reduction)
             /\ ~BelowZero(change) => Share(q.bytes_reduction)
  <2>1. i \in 1..n
    BY <1>2
  <2> DEFINE q == ProjectQuery(p, change, queries[i], GoodSize)
  <2>2. SoundQuery(p, queries[i])
    BY <1>2, <2>1
  <2>3. /\ q.current_files \in 1..Files(p)
        /\ q.projected_files \in 1..Files(p)
        /\ Share(q.files_reduction)
        /\ ~BelowZero(change) => Share(q.bytes_reduction)
    BY <1>1, <1>3, <2>2, QueryInRange DEF SoundQuery
  <2>4. r.queries[i] = q
    BY <1>4, <2>1
  <2> HIDE DEF q
  <2> QED  BY <2>3, <2>4
<1> QED  BY <1>4, <1>5 DEF ProjectionInRange, Share, r, p

(* follows its target,                                                     *)
LEMMA ProjectionsFollow ==
  ASSUME NEW m, SoundMetrics(m), NEW T, NEW columns \in Seq(T),
         NEW sort_fields, NEW column
  PROVE  ProjectionFollowsGoodSize(Profile(m, columns, sort_fields), column)
<1> DEFINE p == Profile(m, columns, sort_fields)
           query == [column |-> column, selectivity |-> 5]
           of(kind, to) == FilesOf(p, kind, to, column)
           after(kind, to) == AfterChange(p, kind, to, query, GoodSize)
<1>1. SoundProfile(p) /\ DepthOf(p, column) \in Nat
  BY ProfileIsSound, DepthIsANumber
<1>2. GoodSize \in Nat \ {0} /\ GoodSize = 4
  BY DEF GoodSize
<1>3. query.column = column
  OBVIOUS
<1>4. \A kind, to : of(kind, to).projected_files = after(kind, to)
  BY DEF FilesOf, AfterChange
<1> HIDE DEF p, query
<1>5. FollowsTarget(p, query, GoodSize)
  BY <1>1, <1>2, <1>3, ProfileFollows
<1>6. ASSUME p.avg_file_size > 0
      PROVE  LET same == of("refile_size", p.avg_file_size)
             IN same.files_reduction = 0 /\ same.bytes_reduction = 0
  <2> DEFINE g == p.avg_file_size
             change == [kind |-> "refile_size", to |-> g]
             c == CurrentFiles(p, query.column)
             r == ProjectedFiles(p, change, query, c, GoodSize)
             same == ProjectQuery(p, change, query, GoodSize)
  <2>1. of("refile_size", g) = same
    BY DEF FilesOf, query
  <2>2. g \in Nat \ {0} /\ c \in Nat
    BY <1>1, <1>3, <1>6, CurrentInRange DEF SoundProfile
  <2>3. change.kind = "refile_size" /\ Given(change.to, g) = g
    BY DEF Given
  <2>4. /\ same.projected_files = r
        /\ same.files_reduction = Reduction(c, r)
        /\ same.bytes_reduction = Reduction(c * g, r * g)
    BY <2>3 DEF ProjectQuery
  <2>5. same.projected_files = c
    BY <1>5, <1>6 DEF FollowsTarget, AfterChange
  <2>6. \A k \in Int : Reduction(k, k) = 0
    BY DEF Reduction
  <2>7. c * g \in Int
    BY <2>2
  <2> HIDE DEF same, c, r, g, change
  <2> QED  BY <2>1, <2>2, <2>4, <2>5, <2>6, <2>7 DEF g
<1>7. \A a, b \in {1, GoodSize, 3 * GoodSize} :
        a < b => after("refile_size", b) <= after("refile_size", a)
  BY <1>2, <1>5 DEF FollowsTarget
<1>8. \A g \in Finer : after("repartition", g[1]) <= after("repartition", g[2])
  BY <1>5 DEF FollowsTarget
<1> HIDE DEF after
<1>9. /\ \A a, b \in {1, GoodSize, 3 * GoodSize} :
           a < b => of("refile_size", b).projected_files
                      <= of("refile_size", a).projected_files
      /\ \A g \in Finer : of("repartition", g[1]).projected_files
                            <= of("repartition", g[2]).projected_files
  BY <1>4, <1>7, <1>8
<1> QED  BY <1>6, <1>9 DEF ProjectionFollowsGoodSize, Finer, p

(* The candidates of a profile, each with a depth.                         *)
CandidatesIn(p) == {p.clustering[i] : i \in DOMAIN p.clustering}

SoundCandidates(p, n) ==
  /\ DOMAIN p.clustering = 1..n
  /\ \A c \in CandidatesIn(p) : c.depth \in Nat

(* Ranking returns some of them, as many as it was given                   *)
(* (advisor/service.py:31-35).                                             *)
LEMMA RankedAreCandidates ==
  ASSUME NEW p, NEW n \in Nat, SoundCandidates(p, n),
         NEW S \in SUBSET (1..n), NEW filter
  PROVE  /\ Cardinality(S) \in Nat
         /\ Ranked(p, S, filter) \in [1..Cardinality(S) -> CandidatesIn(p)]
<1> DEFINE spared == [i \in DOMAIN p.clustering |->
                        -Score(p.clustering[i], filter)]
           o == InOrder(S, spared)
           k == Cardinality(S)
<1>1. /\ DOMAIN p.clustering = 1..n
      /\ \A i \in 1..n : /\ p.clustering[i] \in CandidatesIn(p)
                         /\ p.clustering[i].depth \in Nat
  BY DEF SoundCandidates, CandidatesIn
<1>2. S \in SUBSET Int /\ IsFiniteSet(S) /\ k \in Nat
  <2>1. IsFiniteSet(1..n)
    BY FS_Interval
  <2>2. IsFiniteSet(S)
    BY <2>1, FS_Subset
  <2> QED  BY <2>2, FS_CardinalityType
<1>3. \A c : c.depth \in Nat => -Score(c, filter) \in Int
  <2> SUFFICES ASSUME NEW c, c.depth \in Nat
               PROVE  -Score(c, filter) \in Int
    OBVIOUS
  <2> DEFINE w == CardinalityWeight(c.cardinality)
             f == IF c.column \in filter THEN 10 ELSE 3
  <2>1. w \in Nat /\ f \in Nat
    BY DEF CardinalityWeight
  <2>2. Score(c, filter) = f * w * c.depth
    BY DEF Score
  <2> HIDE DEF w, f
  <2>3. f * w \in Nat
    BY <2>1
  <2> QED  BY <2>2, <2>3
<1>4. \A i \in S : spared[i] \in Int
  BY <1>1, <1>3
<1> HIDE DEF spared, k
<1>5. o \in [1..k -> S]
  BY <1>2, <1>4, InOrderRises DEF k
<1> HIDE DEF o
<1>6. Ranked(p, S, filter) = [i \in 1..k |-> p.clustering[o[i]]]
  BY <1>5 DEF Ranked, o, spared
<1>7. \A i \in 1..k : p.clustering[o[i]] \in CandidatesIn(p)
  BY <1>1, <1>5
<1> QED  BY <1>2, <1>6, <1>7 DEF k

(* What the advice chooses, and what it asks about it.                     *)
Chosen(p, filter) ==
  LET all == DOMAIN p.clustering
      ranked == Ranked(p, all, filter)
      multi == Ranked(p, {i \in all : p.clustering[i].column \in filter},
                      filter)
  IN IF Len(multi) >= 2 THEN SubSeq(multi, 1, Least(Len(multi), 3))
     ELSE <<ranked[1]>>

AskedOf(chosen) ==
  [i \in DOMAIN chosen |-> [column |-> chosen[i].column, selectivity |-> 5]]

(* The advice of any table with a candidate names one                      *)
(* (advisor/service.py:56-81).                                             *)
LEMMA ChosenAreCandidates ==
  ASSUME NEW p, NEW n \in Nat \ {0}, SoundCandidates(p, n), NEW filter
  PROVE  \E h \in Nat \ {0} : Chosen(p, filter) \in [1..h -> CandidatesIn(p)]
<1> DEFINE all == DOMAIN p.clustering
           some == {i \in all : p.clustering[i].column \in filter}
           ranked == Ranked(p, all, filter)
           multi == Ranked(p, some, filter)
           k == Cardinality(some)
           C == CandidatesIn(p)
<1>1. all = 1..n /\ some \in SUBSET (1..n)
  BY DEF SoundCandidates
<1>2. Cardinality(all) = n
  BY <1>1, FS_Interval
<1>0. Chosen(p, filter) = IF Len(multi) >= 2
                          THEN SubSeq(multi, 1, Least(Len(multi), 3))
                          ELSE <<ranked[1]>>
  BY DEF Chosen
<1> HIDE DEF all, some
<1>3. ranked \in [1..n -> C]
  BY <1>1, <1>2, RankedAreCandidates
<1>4. k \in Nat /\ multi \in [1..k -> C]
  BY <1>1, RankedAreCandidates
<1> HIDE DEF ranked, multi, k, C
<1>5. multi \in Seq(C) /\ Len(multi) = k
  BY <1>4
<1>6. CASE k >= 2
  <2> DEFINE h == Least(k, 3)
  <2>1. h \in Nat \ {0} /\ h <= k /\ 1 <= h
    BY <1>4, <1>6 DEF Least
  <2>2. Chosen(p, filter) = SubSeq(multi, 1, h)
    BY <1>0, <1>5, <1>6
  <2> HIDE DEF h
  <2>3. SubSeq(multi, 1, h) \in [1..h -> C]
    <3>1. 1 \in 1..(Len(multi) + 1) /\ h \in 0..Len(multi)
      BY <1>4, <1>5, <2>1
    <3>2. SubSeq(multi, 1, h) \in Seq(C) /\ Len(SubSeq(multi, 1, h)) = h
      BY <1>5, <2>1, <3>1
    <3>3. \A s \in Seq(C) : s \in [1..Len(s) -> C]
      OBVIOUS
    <3> QED  BY <3>2, <3>3, Zenon
  <2> QED  BY <2>1, <2>2, <2>3 DEF C
<1>7. CASE ~(k >= 2)
  <2>1. Chosen(p, filter) = <<ranked[1]>>
    BY <1>0, <1>5, <1>7
  <2>2. ranked[1] \in C
    BY <1>3
  <2>3. <<ranked[1]>> \in [1..1 -> C]
    BY <2>2
  <2> QED  BY <2>1, <2>3 DEF C
<1> QED  BY <1>6, <1>7

(* The candidates of the profile of any table.                             *)
LEMMA ProfileCandidates ==
  ASSUME NEW m, SoundMetrics(m), NEW T, NEW columns \in Seq(T),
         NEW sort_fields
  PROVE  LET p == Profile(m, columns, sort_fields)
         IN /\ SoundCandidates(p, Least(Len(columns), 6))
            /\ \A c \in CandidatesIn(p) :
                 /\ CandidatesOf(columns, c.column) # {}
                 /\ SortedDepth(m) <= c.depth
<1> DEFINE p == Profile(m, columns, sort_fields)
           D == 1..Least(Len(columns), 6)
           k == Candidates(m, columns, sort_fields)
<1>1. p.clustering = k
  BY DEF Profile
<1>2. /\ DOMAIN k = D
      /\ \A i \in D :
           /\ k[i].column = columns[i].name
           /\ k[i].depth = IF columns[i].name \in SortColumns(sort_fields)
                           THEN SortedDepth(m) ELSE UnsortedDepth(m)
  BY DEF Candidates
<1>3. /\ SortedDepth(m) \in Nat /\ UnsortedDepth(m) \in Nat
      /\ SortedDepth(m) <= UnsortedDepth(m)
  BY SortedIsShallower
<1> HIDE DEF p, k
<1>4. \A i \in D : /\ k[i].depth \in Nat /\ SortedDepth(m) <= k[i].depth
                   /\ i \in CandidatesOf(columns, k[i].column)
  BY <1>2, <1>3 DEF CandidatesOf
<1>5. \A c \in CandidatesIn(p) : \E i \in D : c = k[i]
  BY <1>1, <1>2 DEF CandidatesIn
<1>6. SoundCandidates(p, Least(Len(columns), 6))
  BY <1>1, <1>2, <1>4, <1>5 DEF SoundCandidates
<1>7. \A c \in CandidatesIn(p) : /\ CandidatesOf(columns, c.column) # {}
                                 /\ SortedDepth(m) <= c.depth
  BY <1>4, <1>5
<1> QED  BY <1>6, <1>7 DEF p

(* The advised depth comes true, and promises no more than all             *)
(* (advisor/service.py:76-101).                                            *)
LEMMA AdviceIsTrue ==
  ASSUME NEW m, SoundMetrics(m), NEW T, NEW columns \in Seq(T),
         columns # <<>>, NEW sort_fields, NEW filter
  PROVE  AdviceComesTrue(m, columns, sort_fields, filter)
<1> DEFINE p == Profile(m, columns, sort_fields)
           n == Least(Len(columns), 6)
           chosen == Chosen(p, filter)
           queries == AskedOf(chosen)
           change == [kind |-> "resort", to |-> "sort"]
           a == ClusteringAdvice(p, filter, GoodSize)
           column == chosen[1].column
           later == Profile(m, columns, {[source |-> column]})
<1>1. n \in Nat \ {0}
  BY DEF Least
<1>2. /\ SoundCandidates(p, n)
      /\ \A c \in CandidatesIn(p) : /\ CandidatesOf(columns, c.column) # {}
                                    /\ SortedDepth(m) <= c.depth
  BY ProfileCandidates
<1>3. SoundProfile(p) /\ \A col : DepthOf(p, col) \in Nat
  BY ProfileIsSound, DepthIsANumber
<1>4. /\ a.projected_depth = ProjectedDepth(p)
      /\ a.current_depth = chosen[1].depth
      /\ a.columns = [i \in DOMAIN chosen |-> chosen[i].column]
      /\ a.scan_reduction = Simulate(p, change, queries, GoodSize).typical
  BY DEF ClusteringAdvice, Chosen, AskedOf
<1> HIDE DEF p, n
<1>5. PICK h \in Nat \ {0} : chosen \in [1..h -> CandidatesIn(p)]
  BY <1>1, <1>2, ChosenAreCandidates
<1> HIDE DEF chosen, a
<1>6. chosen[1] \in CandidatesIn(p) /\ DOMAIN chosen = 1..h /\ 1 \in 1..h
  BY <1>5
<1>7. a.columns[1] = column
  BY <1>4, <1>6
<1>8. DepthOf(later, column) = 100 * SortedDepth(m)
  <2> HIDE DEF later, column
  <2>1. CandidatesOf(columns, column) # {}
    BY <1>2, <1>6 DEF column
  <2> QED  BY <2>1, SortsItself, DepthOfProfile DEF later
<1>9. Share(a.scan_reduction)
  <2> DEFINE q(i) == [column |-> chosen[i].column, selectivity |-> 5]
             U == {q(i) : i \in 1..h}
  <2>1. queries = [i \in 1..h |-> q(i)]
    BY <1>6 DEF AskedOf
  <2>2. \A i : SoundQuery(p, q(i))
    BY <1>3 DEF SoundQuery
  <2>3. SoundChange(change) /\ GoodSize \in Nat \ {0}
    BY DEF SoundChange, GoodSize
  <2> HIDE DEF q, queries, change
  <2>4. queries \in [1..h -> U] /\ \A i \in 1..h : SoundQuery(p, queries[i])
    BY <2>1, <2>2
  <2> HIDE DEF U
  <2>5. SummedUpRight(p, change, queries, h, GoodSize)
    BY <1>3, <2>3, <2>4, SimulationInRange
  <2> QED  BY <1>4, <2>5 DEF SummedUpRight
<1>9a. /\ ProjectedDepth(p) \in Int /\ SortedDepth(m) \in Nat
       /\ ProjectedDepth(p) <= SortedDepth(m) + 1
       /\ SortedDepth(m) <= ProjectedDepth(p) + 1
  BY ProfileIsSound, ProjectedIsNear, SortedIsShallower DEF p
<1>9b. chosen[1].depth \in Nat /\ SortedDepth(m) <= chosen[1].depth
  BY <1>2, <1>6 DEF SoundCandidates
<1>10. a.projected_depth <= a.current_depth + 1
  BY <1>4, <1>9a, <1>9b
<1> HIDE DEF later, column
<1>11. /\ DepthOf(later, column) <= 100 * (a.projected_depth + 1)
       /\ 100 * a.projected_depth <= DepthOf(later, column) + 100
  BY <1>4, <1>8, <1>9a
<1> QED  BY <1>7, <1>9, <1>10, <1>11
     DEF AdviceComesTrue, Share, a, p, later

(* A reduction by distribution is a share (tuning/service.py).             *)
LEMMA DistributionInRange ==
  ASSUME NEW m, SoundMetrics(m), NEW columns, NEW sort_fields, NEW partitioned
  PROVE  Share(DistributionAdvice(Profile(m, columns, sort_fields),
                                  partitioned).reduction)
<1> DEFINE p == Profile(m, columns, sort_fields)
           a == p.small_ratio * 80
           r == DistributionAdvice(p, partitioned).reduction
<1>1. SmallRatio(m) \in Nat /\ SmallRatio(m) <= 10000
      /\ p.small_ratio = SmallRatio(m)
  BY SmallRatioInRange, ProfileIsSound
<1> HIDE DEF p
<1>2. a \in Nat /\ a <= 800 * 1000 /\ 1000 \in Nat \ {0} /\ 800 \in Nat
  BY <1>1
<1>3. r = 700 \/ r = Round(a, 1000) \/ r = 0
  BY DEF DistributionAdvice
<1> HIDE DEF a, r
<1>4. Round(a, 1000) \in Nat /\ Round(a, 1000) <= 800
  BY <1>2, RoundOfShare
<1>5. r \in Nat /\ r <= 1000
  BY <1>3, <1>4
<1>6. Share(r)
  BY <1>5 DEF Share
<1> QED  BY <1>6 DEF r, p

(* All advice holds for all metrics that an index may hold.                *)
LEMMA AllAdviceHolds ==
  ASSUME NEW m, SoundMetrics(m)
  PROVE  AdviceHolds(m)
<1> SUFFICES ASSUME NEW columns \in Schemas, NEW sort_fields \in SortFields
             PROVE  AdviceHoldsFor(m, columns, sort_fields)
  BY Zenon DEF AdviceHolds
<1> DEFINE p == Profile(m, columns, sort_fields)
<1>1. columns \in Seq(SchemaColumn)
  BY SchemasTyped
<1>2. \A change \in Change, queries \in Queries(columns) :
        ProjectionInRange(p, change, queries)
  BY <1>1, ChangesAreSound, ProjectionsAreInRange, Zenon
<1>3. \A i \in DOMAIN columns : ProjectionFollowsGoodSize(p, columns[i].name)
  BY <1>1, ProjectionsFollow, Zenon
<1>4. columns # <<>> =>
        \A filter : AdviceComesTrue(m, columns, sort_fields, filter)
  BY <1>1, AdviceIsTrue, Zenon
<1>5. DistributionAdvice(p, TRUE).reduction \in 0..1000
  <2>1. \A s : SoundMetrics(s) =>
               Share(DistributionAdvice(Profile(s, columns, sort_fields),
                                        TRUE).reduction)
    BY DistributionInRange, Zenon
  <2> QED  BY <2>1, Zenon DEF Share
<1> QED  BY <1>2, <1>3, <1>4, <1>5, Zenon DEF AdviceHoldsFor

(* The bounded metrics of the runs are such metrics.                       *)
LEMMA ShapesAreSound == \A m \in Shape : SoundMetrics(m)
<1> SUFFICES ASSUME NEW m \in Shape
             PROVE  SoundMetrics(m)
  OBVIOUS
<1>1. CASE /\ m.file_count \in 0..3 /\ m.small \in 0..3
           /\ m.data_size \in 0..(6 * GoodSize)
           /\ m.small <= m.file_count
  BY <1>1 DEF SoundMetrics, GoodSize
<1>2. CASE m = [file_count |-> 252, small |-> 17, data_size |-> 252 * GoodSize]
  BY <1>2 DEF SoundMetrics, GoodSize
<1> QED  BY <1>1, <1>2 DEF Shape

(* Advice is consistent, whatever the table, its commits and its syncs:    *)
(* projections are in range and follow their target, and the advisor says  *)
(* what the profile would show, to a hundredth                             *)
(* (layout/whatif_service.py:31-119, advisor/service.py:56-105).           *)
THEOREM AdviceStaysConsistent == Spec => []AdviceIsConsistent
<1>1. LifecycleInv => AdviceIsConsistent
  <2>1. AdviceHoldsOnShape
    BY ShapesAreSound, AllAdviceHolds, Zenon DEF AdviceHoldsOnShape
  <2>2. LifecycleInv /\ index # None => AdviceHolds(index.metrics)
    BY IndexedIsSound, AllAdviceHolds, Zenon
  <2> QED  BY <2>1, <2>2 DEF AdviceIsConsistent
<1> QED  BY <1>1, LifecycleHolds, PTL

(* Nor does it depend on the bounds: whatever the schema of an indexed     *)
(* table, its sort order and the columns that its users filter by, what    *)
(* the advisor projects is what the profile will show, and no deeper than  *)
(* now, both up to the hundredth that its second rounding may cost         *)
(* (advisor/service.py:24-105, layout/service.py:101,141).                 *)
THEOREM AdviceAlwaysComesTrue ==
  ASSUME NEW T, NEW columns \in Seq(T), columns # <<>>, NEW sort_fields,
         NEW filter
  PROVE  Spec => [](index # None =>
                      AdviceComesTrue(index.metrics, columns, sort_fields,
                                      filter))
<1>1. LifecycleInv =>
        (index # None =>
           AdviceComesTrue(index.metrics, columns, sort_fields, filter))
  BY IndexedIsSound, AdviceIsTrue
<1> QED  BY <1>1, LifecycleHolds, PTL

(* However many queries a client sends, the cut a simulation calls typical *)
(* is a share, between the worst and the best of them                      *)
(* (layout/whatif_service.py:31-51,156-163).                               *)
THEOREM SimulationsSumUp ==
  ASSUME NEW T, NEW columns \in Seq(T), NEW sort_fields,
         NEW change, SoundChange(change), NEW n \in Nat, NEW U,
         NEW queries \in [1..n -> U],
         \A i \in 1..n : queries[i].selectivity \in Int,
         NEW target \in Nat \ {0}
  PROVE  Spec => [](index # None =>
                      SummedUpRight(Profile(index.metrics, columns,
                                            sort_fields),
                                    change, queries, n, target))
<1>1. LifecycleInv =>
        (index # None =>
           SummedUpRight(Profile(index.metrics, columns, sort_fields),
                         change, queries, n, target))
  <2> SUFFICES ASSUME LifecycleInv, index # None
               PROVE  SummedUpRight(Profile(index.metrics, columns,
                                            sort_fields),
                                    change, queries, n, target)
    OBVIOUS
  <2> DEFINE p == Profile(index.metrics, columns, sort_fields)
  <2>1. SoundMetrics(index.metrics)
    BY IndexedIsSound
  <2>2. SoundProfile(p) /\ \A column : DepthOf(p, column) \in Nat
    BY <2>1, ProfileIsSound, DepthIsANumber
  <2> HIDE DEF p
  <2>3. \A i \in 1..n : SoundQuery(p, queries[i])
    BY <2>2 DEF SoundQuery
  <2>4. SummedUpRight(p, change, queries, n, target)
    BY <2>2, <2>3, SimulationInRange
  <2> QED  BY <2>4 DEF p
<1> QED  BY <1>1, LifecycleHolds, PTL

=============================================================================
