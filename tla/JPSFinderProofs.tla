---------------------------- MODULE JPSFinderProofs ----------------------------
(***************************************************************************)
(* Proofs about JPSFinder, for every grid, every map and any number of     *)
(* calls.  A step is first put into one of six classes (StepClasses); each *)
(* part of the invariant has a lemma that says that a step keeps it.       *)
(*                                                                         *)
(* The invariant is proved of AnyNext, where init() may be given any map   *)
(* and any places of the cells: TestMapProofs uses it for the maps that    *)
(* the csv loader makes.                                                   *)
(***************************************************************************)
EXTENDS JPSFinder, GridProofs, SequenceTheorems, FiniteSetTheorems, TLAPS

-----------------------------------------------------------------------------
(* list::sort *)

\* The list t has the elements of s at places permuted by p.
Permutes(p, s, t) ==
  /\ \A i, j \in 1 .. Len(s) : p[i] = p[j] => i = j
  /\ \A i \in 1 .. Len(s) : \E k \in 1 .. Len(s) : p[k] = i
  /\ t = [k \in 1 .. Len(s) |-> s[p[k]]]

\* What list::sort does to the list is a permutation of its places.
LEMMA StableSortPermutes ==
  ASSUME NEW T, NEW s \in Seq(T), NEW score, \A t \in T : score[t] \in Int
  PROVE  \E p \in [1 .. Len(s) -> 1 .. Len(s)] : Permutes(p, s, StableSort(s, score))
<1> DEFINE n == Len(s)
           I == DOMAIN s
           Lower(i) == {j \in I : Before(s, score, j, i)}
           rank == [i \in I |-> Cardinality(Lower(i)) + 1]
           p == [k \in I |-> CHOOSE i \in I : Cardinality(Lower(i)) + 1 = k]
<1>1. n \in Nat /\ I = 1 .. n BY LenProperties
<1>2. \A i \in I : score[s[i]] \in Int BY ElementOfSeq
<1> HIDE DEF n
<1>3. IsFiniteSet(I) /\ Cardinality(I) = n BY <1>1, FS_Interval
<1>4. \A i \in I : /\ IsFiniteSet(Lower(i)) /\ Cardinality(Lower(i)) \in Nat
                   /\ Cardinality(Lower(i)) < n
  <2> TAKE i \in I
  <2>1. Lower(i) \subseteq I /\ i \notin Lower(i) BY <1>1, <1>2 DEF Before
  <2> HIDE DEF Lower, I
  <2>2. /\ IsFiniteSet(Lower(i)) /\ Cardinality(Lower(i)) <= Cardinality(I)
        /\ Cardinality(I) # Cardinality(Lower(i))
    BY <1>3, <2>1, FS_Subset
  <2>3. Cardinality(Lower(i)) \in Nat BY <2>2, FS_CardinalityType
  <2> QED BY <2>2, <2>3, <1>1, <1>3
<1>5. \A i, j \in I : Before(s, score, i, j) => Cardinality(Lower(i)) < Cardinality(Lower(j))
  <2> SUFFICES ASSUME NEW i \in I, NEW j \in I, Before(s, score, i, j)
               PROVE  Cardinality(Lower(i)) < Cardinality(Lower(j))
    OBVIOUS
  <2>1. \A k \in I : Before(s, score, k, i) => Before(s, score, k, j)
    BY <1>1, <1>2 DEF Before
  <2>2. ~ Before(s, score, i, i) BY <1>1, <1>2 DEF Before
  <2>3. Lower(i) \subseteq Lower(j) /\ i \in Lower(j) /\ i \notin Lower(i) BY <2>1, <2>2
  <2> HIDE DEF Lower, I
  <2>4. /\ Cardinality(Lower(i)) <= Cardinality(Lower(j))
        /\ Cardinality(Lower(i)) # Cardinality(Lower(j))
    BY <1>4, <2>3, FS_Subset
  <2> QED BY <2>4, <1>4
<1>6. \A i, j \in I : i # j => Before(s, score, i, j) \/ Before(s, score, j, i)
  BY <1>1, <1>2 DEF Before
<1> HIDE DEF Lower
<1>7. rank \in [I -> I] BY <1>1, <1>4
<1>8. \A i, j \in I : rank[i] = rank[j] => i = j
  <2> SUFFICES ASSUME NEW i \in I, NEW j \in I, rank[i] = rank[j], i # j PROVE FALSE
    OBVIOUS
  <2>1. Cardinality(Lower(i)) = Cardinality(Lower(j)) BY <1>4
  <2> QED BY <2>1, <1>4, <1>5, <1>6
<1>9. rank \in Injection(I, I) BY <1>7, <1>8 DEF Injection, IsInjective
<1>10. rank \in Surjection(I, I)
  <2> HIDE DEF rank, I
  <2> QED BY <1>3, <1>9, FS_Injection
<1>11. \A k \in I : p[k] \in I /\ rank[p[k]] = k
  <2>1. \A k \in I : \E i \in I : rank[i] = k BY <1>10 DEF Surjection
  <2>2. \A k \in I : \E i \in I : Cardinality(Lower(i)) + 1 = k BY <2>1
  <2> QED BY <2>2
<1>12. StableSort(s, score) = [k \in I |-> s[p[k]]]
  BY DEF StableSort, Lower
<1> HIDE DEF rank, p
<1>13. p \in [I -> I] BY <1>11 DEF p
<1>14. \A i \in I : p[rank[i]] = i BY <1>7, <1>8, <1>11
<1>15. \A i, j \in I : p[i] = p[j] => i = j BY <1>11
<1>16. \A i \in I : \E k \in I : p[k] = i BY <1>7, <1>14
<1>17. 1 .. Len(s) = I BY <1>1 DEF n
<1> HIDE DEF I
<1>18. StableSort(s, score) = [k \in 1 .. Len(s) |-> s[p[k]]] BY <1>12, <1>17, Zenon
<1>19. p \in [1 .. Len(s) -> 1 .. Len(s)] BY <1>13, <1>17, Zenon
<1>20. /\ \A i, j \in 1 .. Len(s) : p[i] = p[j] => i = j
       /\ \A i \in 1 .. Len(s) : \E k \in 1 .. Len(s) : p[k] = i
  BY <1>15, <1>16, <1>17, Zenon
<1>21. Permutes(p, s, StableSort(s, score)) BY <1>18, <1>20, Zenon DEF Permutes
<1> QED BY <1>19, <1>21, Zenon

\* Sorting a list neither adds nor loses nor doubles a node.
LEMMA StableSortKeeps ==
  ASSUME NEW T, NEW s \in Seq(T), NEW score, \A t \in T : score[t] \in Int
  PROVE  /\ StableSort(s, score) \in Seq(T)
         /\ ToSet(StableSort(s, score)) = ToSet(s)
         /\ IsInjective(s) => IsInjective(StableSort(s, score))
<1>0. PICK p \in [1 .. Len(s) -> 1 .. Len(s)] : Permutes(p, s, StableSort(s, score))
  BY StableSortPermutes
<1>1. /\ \A i, j \in 1 .. Len(s) : p[i] = p[j] => i = j
      /\ \A i \in 1 .. Len(s) : \E k \in 1 .. Len(s) : p[k] = i
      /\ StableSort(s, score) = [k \in 1 .. Len(s) |-> s[p[k]]]
  BY <1>0, Zenon DEF Permutes
<1> DEFINE t == [k \in 1 .. Len(s) |-> s[p[k]]]
<1>2. Len(s) \in Nat /\ DOMAIN s = 1 .. Len(s) BY LenProperties
<1>3. \A k \in 1 .. Len(s) : t[k] = s[p[k]] /\ p[k] \in 1 .. Len(s) /\ t[k] \in T
  BY <1>0, ElementOfSeq
<1>4. t \in Seq(T) BY <1>2, <1>3
<1>5. DOMAIN t = 1 .. Len(s) OBVIOUS
<1> HIDE DEF t
<1>6. ToSet(t) = ToSet(s) BY <1>1, <1>2, <1>3, <1>5 DEF ToSet
<1>7. IsInjective(s) => IsInjective(t) BY <1>1, <1>2, <1>3, <1>5 DEF IsInjective
<1> QED BY <1>1, <1>4, <1>6, <1>7 DEF t
-----------------------------------------------------------------------------
(* Lists of nodes *)

\* push_back() adds one node, at the end.
LEMMA Appended ==
  ASSUME NEW T, NEW s \in Seq(T), NEW n \in T
  PROVE  /\ Append(s, n) \in Seq(T)
         /\ ToSet(Append(s, n)) = ToSet(s) \cup {n}
         /\ IsInjective(s) /\ n \notin ToSet(s) => IsInjective(Append(s, n))
<1>1. Len(s) \in Nat /\ DOMAIN s = 1 .. Len(s) BY LenProperties
<1> DEFINE t == Append(s, n)
<1>2. /\ t \in Seq(T) /\ DOMAIN t = 1 .. Len(s) + 1
      /\ t[Len(s) + 1] = n /\ \A i \in 1 .. Len(s) : t[i] = s[i]
  BY <1>1, AppendProperties
<1> HIDE DEF t
<1>3. \A i \in DOMAIN t : i \in DOMAIN s \/ i = Len(s) + 1 BY <1>1, <1>2
<1>4. Len(s) + 1 \in DOMAIN t /\ \A i \in DOMAIN s : i \in DOMAIN t BY <1>1, <1>2
<1>5. ToSet(t) = ToSet(s) \cup {n} BY <1>1, <1>2, <1>3, <1>4 DEF ToSet
<1>6. IsInjective(s) /\ n \notin ToSet(s) => IsInjective(t)
  BY <1>1, <1>2, <1>3 DEF ToSet, IsInjective
<1> QED BY <1>2, <1>5, <1>6 DEF t

\* pop_front() takes one node, and leaves the others.
LEMMA FrontTaken ==
  ASSUME NEW T, NEW s \in Seq(T), s # << >>
  PROVE  /\ Head(s) \in T /\ Tail(s) \in Seq(T)
         /\ ToSet(s) = ToSet(Tail(s)) \cup {Head(s)}
         /\ IsInjective(s) => IsInjective(Tail(s)) /\ Head(s) \notin ToSet(Tail(s))
<1> DEFINE t == Tail(s)
<1>1. /\ Len(s) \in Nat \ {0} /\ DOMAIN s = 1 .. Len(s)
      /\ t \in Seq(T) /\ DOMAIN t = 1 .. Len(s) - 1
      /\ Head(s) = s[1] /\ s[1] \in T /\ \A i \in 1 .. Len(s) - 1 : t[i] = s[i + 1]
  <2>1. Len(s) \in Nat /\ DOMAIN s = 1 .. Len(s) /\ Len(s) # 0 BY LenProperties, EmptySeq
  <2>2. t \in Seq(T) /\ Len(t) = Len(s) - 1 /\ \A i \in 1 .. Len(t) : t[i] = s[i + 1]
    BY HeadTailProperties
  <2>3. DOMAIN t = 1 .. Len(t) BY <2>2, LenProperties
  <2>4. s[1] \in T BY <2>1, ElementOfSeq
  <2> QED BY <2>1, <2>2, <2>3, <2>4
<1> HIDE DEF t
<1>2. \A i \in DOMAIN s : i = 1 \/ (i - 1 \in DOMAIN t /\ t[i - 1] = s[i]) BY <1>1
<1>3. \A i \in DOMAIN t : i + 1 \in DOMAIN s /\ t[i] = s[i + 1] /\ i + 1 # 1 BY <1>1
<1>4. 1 \in DOMAIN s BY <1>1
<1>5. ToSet(s) = ToSet(t) \cup {Head(s)}
  <2>1. \A x \in ToSet(s) : x \in ToSet(t) \cup {Head(s)} BY <1>1, <1>2 DEF ToSet
  <2>2. \A x \in ToSet(t) : x \in ToSet(s) BY <1>3 DEF ToSet
  <2>3. Head(s) \in ToSet(s) BY <1>1, <1>4 DEF ToSet
  <2> QED BY <2>1, <2>2, <2>3
<1>6. ASSUME IsInjective(s) PROVE IsInjective(t) /\ Head(s) \notin ToSet(t)
  <2>1. \A i, k \in DOMAIN t : t[i] = t[k] => i + 1 = k + 1 BY <1>3, <1>6 DEF IsInjective
  <2>2. \A i, k \in DOMAIN t : i + 1 = k + 1 => i = k BY <1>1
  <2>3. \A i \in DOMAIN t : t[i] # Head(s) BY <1>1, <1>3, <1>4, <1>6 DEF IsInjective
  <2> QED BY <2>1, <2>2, <2>3 DEF IsInjective, ToSet
<1> QED BY <1>1, <1>5, <1>6 DEF t

\* A list of elements of T is one of elements of a larger set.
LEMMA WidenedSeq ==
  ASSUME NEW T, NEW U, T \subseteq U, NEW s \in Seq(T)
  PROVE  s \in Seq(U)
OBVIOUS

-----------------------------------------------------------------------------
(* The numbers of the nodes *)

\* The nodes of the arrays allocated so far.
Used == 0 .. inits * Size - 1

\* An array has at least one node.
LEMMA SizeIsPositive == Size \in Nat \ {0} /\ Cells = 0 .. Size - 1
<1>1. Size \in Nat /\ Size # 0
  <2>1. Width * Height = (Width - 1) * Height + Height BY GridAssumption
  <2>2. (Width - 1) * Height \in Nat BY GridAssumption, ProductIsNat
  <2> QED BY <2>1, <2>2, GridAssumption DEF Size
<1> QED BY <1>1 DEF Size, Cells

\* Every node stands for a cell.
LEMMA CellNumbers ==
  ASSUME NEW n \in Nat
  PROVE  CellOf(n) \in Cells
BY Divided, SizeIsPositive DEF CellOf

\* The nodes that are allocated are among those of the model.
LEMMA UsedAreNodes ==
  ASSUME inits \in 0 .. MaxInits
  PROVE  Used \subseteq Nodes /\ inits * Size \in Nat /\ inits * Size <= MaxInits * Size
<1>1. inits * Size \in Nat /\ MaxInits * Size \in Nat /\ inits \in Nat /\ inits <= MaxInits
  BY ProductIsNat, SizeIsPositive, FinderAssumption
<1>2. inits * Size <= MaxInits * Size
  <2>1. CASE inits = MaxInits BY <2>1, <1>1
  <2>2. CASE inits < MaxInits
    <3>1. inits * Size + Size <= MaxInits * Size
      BY <2>2, <1>1, Multiples, SizeIsPositive, FinderAssumption
    <3> QED BY <3>1, <1>1, SizeIsPositive
  <2> QED BY <2>1, <2>2, <1>1, FinderAssumption
<1> QED BY <1>1, <1>2 DEF Used, Nodes

\* The nodes of the current array are the last ones.
LEMMA NodeNumbers ==
  ASSUME inits \in 1 .. MaxInits
  PROVE  /\ Base \in Used /\ Base = (inits - 1) * Size /\ Base + Size = inits * Size
         /\ \A i \in Cells : /\ NodeOf(i) \in Used /\ NodeOf(i) \in Nodes /\ NodeOf(i) \in Nat
                             /\ CellOf(NodeOf(i)) = i
<1>1. Base = (inits - 1) * Size BY DEF Base
<1>2. Base \in Nat BY <1>1, ProductIsNat, SizeIsPositive
<1>3. (inits - 1) * Size + Size = inits * Size BY SizeIsPositive
<1>4. Used \subseteq Nodes BY UsedAreNodes
<1>5. Base \in Used BY <1>1, <1>2, <1>3, SizeIsPositive DEF Used
<1>6. ASSUME NEW i \in Cells PROVE NodeOf(i) \in Used /\ CellOf(NodeOf(i)) = i
  <2>1. NodeOf(i) \in Used BY <1>1, <1>2, <1>3, SizeIsPositive DEF Used, NodeOf
  <2>2. i \in 0 .. Size - 1 /\ inits - 1 \in Int BY SizeIsPositive
  <2>3. ((inits - 1) * Size + i) % Size = i BY <2>2, Composed, SizeIsPositive
  <2> QED BY <1>1, <2>1, <2>3 DEF NodeOf, CellOf
<1>7. \A n \in Nodes : n \in Nat BY DEF Nodes
<1> QED BY <1>1, <1>3, <1>4, <1>5, <1>6, <1>7

\* The nodes of the current array, and what stands for them before there is one.
LEMMA CurrentAreNodes ==
  ASSUME inits \in 0 .. MaxInits
  PROVE  Current \subseteq Nodes /\ Base \in Nodes
<1>1. CASE inits = 0
  <2>1. Base = 0 BY <1>1 DEF Base
  <2>2. Size <= MaxInits * Size /\ MaxInits * Size \in Nat
    <3>1. MaxInits * Size = (MaxInits - 1) * Size + Size BY SizeIsPositive, FinderAssumption
    <3>2. (MaxInits - 1) * Size \in Nat BY ProductIsNat, SizeIsPositive, FinderAssumption
    <3> QED BY <3>1, <3>2, SizeIsPositive
  <2>3. Cells \subseteq Nodes /\ 0 \in Nodes BY <2>2, SizeIsPositive DEF Nodes
  <2>4. \A i \in Cells : NodeOf(i) = i BY <2>1, SizeIsPositive DEF NodeOf
  <2> QED BY <2>1, <2>3, <2>4 DEF Current
<1>2. CASE inits \in 1 .. MaxInits
  <2>1. Used \subseteq Nodes BY UsedAreNodes
  <2> QED BY <1>2, <2>1, NodeNumbers DEF Current
<1> QED BY <1>1, <1>2

\* A node of the current array is the node of its cell.
LEMMA CurrentNodes ==
  ASSUME inits \in 1 .. MaxInits, NEW n \in Used, n >= Base
  PROVE  n = NodeOf(CellOf(n)) /\ n \in Current
<1>1. /\ Base = (inits - 1) * Size /\ Base + Size = inits * Size /\ inits * Size \in Nat
      /\ Base \in Nat
  <2>1. Base \in Used BY NodeNumbers
  <2> QED BY <2>1, NodeNumbers, UsedAreNodes DEF Used
<1> DEFINE i == n - Base
<1>2. i \in Cells /\ n = Base + i BY <1>1, SizeIsPositive DEF Used
<1>3. n = NodeOf(i) BY <1>2 DEF NodeOf
<1>4. CellOf(n) = i BY <1>2, <1>3, NodeNumbers
<1> QED BY <1>2, <1>3, <1>4 DEF Current
-----------------------------------------------------------------------------
(* Places and distances *)

\* The places that cells are told.
PlacesOK ==
  /\ DOMAIN displaced \subseteq Used
  /\ \A n \in DOMAIN displaced : displaced[n] \in Nat \X Nat

\* A node has a place in the first quadrant: its own, or the one it was told.
LEMMA PlaceIsPoint ==
  ASSUME PlacesOK, NEW n \in Nat
  PROVE  /\ Place(n) \in Nat \X Nat /\ PX(n) \in Nat /\ PY(n) \in Nat
         /\ Place(n) = <<PX(n), PY(n)>>
         /\ n \notin DOMAIN displaced => PX(n) = X(CellOf(n)) /\ PY(n) = Y(CellOf(n))
<1>1. CellOf(n) \in Nat
  <2>1. CellOf(n) \in Cells BY CellNumbers
  <2> QED BY <2>1, SizeIsPositive
<1>2. X(CellOf(n)) \in Nat /\ Y(CellOf(n)) \in Nat
  <2>1. X(CellOf(n)) \in 0 .. Width - 1 /\ Y(CellOf(n)) \in Nat BY <1>1, Coordinates
  <2> QED BY <2>1, GridAssumption
<1>3. Place(n) \in Nat \X Nat BY <1>2 DEF PlacesOK, Place
<1> QED BY <1>2, <1>3 DEF PX, PY, Place

\* The costs are sums of natural numbers: of the distance to a node,
LEMMA DistancesAreNat ==
  ASSUME PlacesOK, NEW p \in Nat, NEW j \in Nat
  PROVE  Hop(p, j) \in Nat
<1>1. PX(p) \in Int /\ PY(p) \in Int BY PlaceIsPoint
<1>2. CellOf(j) \in Nat
  <2>1. CellOf(j) \in Cells BY CellNumbers
  <2> QED BY <2>1, SizeIsPositive
<1>3. X(CellOf(j)) \in Int /\ Y(CellOf(j)) \in Int
  <2>1. X(CellOf(j)) \in 0 .. Width - 1 /\ Y(CellOf(j)) \in Nat BY <1>2, Coordinates
  <2> QED BY <2>1
<1>4. Abs(X(CellOf(j)) - PX(p)) \in Nat /\ Abs(Y(CellOf(j)) - PY(p)) \in Nat
  BY <1>1, <1>3, AbsIsNat
<1> QED BY <1>4, OctileIsNat DEF Hop

\* and of the estimate of the distance from there to the end.
LEMMA EstimateIsNat ==
  ASSUME PlacesOK, end_node_ \in Nat, NEW j \in Nat
  PROVE  Estimate(j) \in Nat
<1>1. PX(end_node_) \in Int /\ PY(end_node_) \in Int BY PlaceIsPoint
<1>2. CellOf(j) \in Nat
  <2>1. CellOf(j) \in Cells BY CellNumbers
  <2> QED BY <2>1, SizeIsPositive
<1>3. X(CellOf(j)) \in Int /\ Y(CellOf(j)) \in Int
  <2>1. X(CellOf(j)) \in 0 .. Width - 1 /\ Y(CellOf(j)) \in Nat BY <1>2, Coordinates
  <2> QED BY <2>1
<1>4. /\ Abs(X(CellOf(j)) - PX(end_node_)) \in Nat
      /\ Abs(Y(CellOf(j)) - PY(end_node_)) \in Nat
  BY <1>1, <1>3, AbsIsNat
<1> QED BY <1>4 DEF Estimate, Manhattan

\* getcell() yields the number of a cell, or what stands for none.
LEMMA CellAtIsInt ==
  ASSUME NEW d \in Fitting, NEW x \in Int, NEW y \in Int
  PROVE  CellAt(d, x, y) \in Int
<1>1. CASE CellAt(d, x, y) = Outside BY <1>1 DEF Outside
<1>2. CASE CellAt(d, x, y) # Outside
  <2>1. CellAt(d, x, y) \in Cells BY <1>2, UntestedCell
  <2> QED BY <2>1, SizeIsPositive
<1> QED BY <1>1, <1>2

\* The neighbours of a node are indexes, and any jump ends on a walkable cell.
LEMMA NeighborsAreInt ==
  ASSUME PlacesOK, dims \in Fitting, parent \in [Nodes -> Used \cup {Null}], NEW n \in Nodes
  PROVE  FindNeighbors(n) \in Seq(Int)
<1>1. n \in Nat /\ \A m \in Used : m \in Nat BY DEF Nodes, Used
<1>2. PX(n) \in Int /\ PY(n) \in Int BY <1>1, PlaceIsPoint
<1>3. \A a, b \in Units : /\ GetCell(PX(n) + a, PY(n) + b) \in Int
                         /\ CellAt(dims, PX(n) + a, PY(n) + b) \in Int
  <2>1. ASSUME NEW a \in Units, NEW b \in Units
        PROVE  /\ GetCell(PX(n) + a, PY(n) + b) \in Int
               /\ CellAt(dims, PX(n) + a, PY(n) + b) \in Int
    <3>1. PX(n) + a \in Int /\ PY(n) + b \in Int BY <1>2 DEF Units
    <3> QED BY <3>1, CellAtIsInt, GridAssumption DEF GetCell
  <2> QED BY <2>1
<1>4. CASE parent[n] = Null
  <2>1. GetNeighbors(walkable, PX(n), PY(n)) \in Seq(Int) BY <1>2, <1>3, NeighborsAreTested
  <2> QED BY <1>4, <2>1 DEF FindNeighbors
<1>5. CASE parent[n] # Null
  <2> DEFINE dx == Sign(PX(n) - PX(parent[n]))
             dy == Sign(PY(n) - PY(parent[n]))
  <2>1. parent[n] \in Nat BY <1>1, <1>5
  <2>2. PX(parent[n]) \in Int /\ PY(parent[n]) \in Int BY <2>1, PlaceIsPoint
  <2>3. PX(n) - PX(parent[n]) \in Int /\ PY(n) - PY(parent[n]) \in Int BY <1>2, <2>2
  <2>4. dx \in Units /\ dy \in Units BY <2>3, SignIsUnit
  <2> HIDE DEF dx, dy
  <2>5. PrunedNeighbors(walkable, dims, PX(n), PY(n), dx, dy) \in Seq(Int)
    BY <1>2, <1>3, <2>4, PrunedAreNear
  <2> QED BY <1>5, <2>5 DEF FindNeighbors, dx, dy
<1> QED BY <1>4, <1>5

\* Whatever place a jump starts from, it returns a walkable cell or none.
LEMMA JumpsAreWalkable ==
  ASSUME NEW i
  PROVE  Jumps(i) \subseteq walkable \cup {NoJump, Endless}
<1>1. \A at : JumpFrom(at) \in walkable \cup {NoJump, Endless} BY JumpIsWalkable DEF JumpFrom
<1> QED BY <1>1 DEF Jumps

-----------------------------------------------------------------------------
(* Types *)

\* The cells of a grid.
LEMMA AreaIsCells ==
  ASSUME NEW d
  PROVE  Area(d) \subseteq Cells
BY DEF Area

\* A grid that init() is given fits into the largest one.
LEMMA SizesFit == Sizes \subseteq Fitting
BY GridAssumption DEF Sizes, Fitting

\* How far the calls are, by the place of the current one.
ControlOK ==
  /\ pc \in {"new", "idle", "search", "expand", "crashed", "hung"}
  /\ calls \in 0 .. MaxCalls /\ inits \in 0 .. MaxInits
  /\ pc = "new" <=> inits = 0
  /\ pc \in {"search", "expand", "crashed", "hung"} =>
       begin_node_ \in Current /\ end_node_ \in Current
  /\ pc \in {"expand", "hung"} /\ (pc = "expand" \/ cells # << >>) => node \in Used
  /\ pc \notin {"expand", "hung"} => cells = << >>

\* Nothing refers to a node of an array that is not allocated yet.
StateOK ==
  /\ dims \in Fitting /\ walkable \subseteq Area(dims) /\ PlacesOK
  /\ f \in [Nodes -> Nat] /\ g \in [Nodes -> Nat] /\ h \in [Nodes -> Nat]
  /\ parent \in [Nodes -> Used \cup {Null}]
  /\ \A n \in Nodes \ Used : parent[n] = Null
  /\ opened \subseteq Used /\ closed \subseteq Used
  /\ open_list_ \in Seq(Used)
  /\ begin_node_ \in Used \cup {Null} /\ end_node_ \in Used \cup {Null}
  /\ node \in Used \cup {Null} /\ cells \in Seq(Int)

\* The maps that init() can be given, and the places that cells can be told.
Placings == UNION {[S -> Nat \X Nat] : S \in SUBSET Cells}

\* init() with a grid of any size and any cells, wherever they believe to be: what the
\* csv loader may produce.
AnyMap ==
  /\ CanInit
  /\ \E d \in Sizes, M \in SUBSET Cells, places \in Placings :
       M \subseteq Area(d) /\ InitFrom(M, places, d)

AnyCall == \E s \in Starts, e \in Ends : Call(s, e)

AnyNext == AnyMap \/ CallOutside \/ AnyCall \/ Step

\* The rounds of the loops that touch neither the nodes nor the list.
Quiet == UNCHANGED <<calls, grid, nodes, open_list_, goal>>

\* The maps of the specification are some of them.
LEMMA NextIsAnyNext ==
  ASSUME Next
  PROVE  AnyNext
<1>1. << >> \in Placings
  <2>1. << >> \in [{} -> Nat \X Nat]
    <3>1. DOMAIN << >> = {} BY EmptySeq
    <3>2. << >> = [i \in {} |-> 0] OBVIOUS
    <3> QED BY <3>2
  <2>2. {} \in SUBSET Cells OBVIOUS
  <2> QED BY <2>1, <2>2 DEF Placings
<1>2. InitMap => AnyMap
  <2> SUFFICES ASSUME InitMap PROVE AnyMap OBVIOUS
  <2>1. PICK m \in Maps : CanInit /\ InitFrom(m.walkable, << >>, m.size) BY DEF InitMap
  <2>2. /\ m.size \in Sizes /\ m.walkable \subseteq Area(m.size)
        /\ m.walkable \in SUBSET Cells
    BY FinderAssumption, AreaIsCells
  <2> QED BY <1>1, <2>1, <2>2 DEF AnyMap
<1> QED BY <1>2 DEF Next, AnyNext, AnyCall

\* A step sets up a map, starts a call, takes a node from the list, relaxes one, or
\* touches neither the nodes nor the list.
LEMMA StepClasses ==
  ASSUME [AnyNext]_vars
  PROVE  AnyMap \/ CallOutside \/ AnyCall \/ Pop \/ Relax \/ Quiet
<1>1. UNCHANGED vars => Quiet BY DEF vars, Quiet, grid, nodes, goal, scores
<1>2. Step => Pop \/ Relax \/ Quiet
  BY DEF Step, GiveUp, ReachEnd, CrashAtEnd, HangAtEnd, Expand, Skip, JumpForever,
         Expanded, Quiet
<1> QED BY <1>1, <1>2 DEF AnyNext
-----------------------------------------------------------------------------
\* The types hold in a new finder.
LEMMA InitTypes ==
  ASSUME Init
  PROVE  ControlOK /\ StateOK
<1>1. 0 \in 0 .. MaxCalls /\ 0 \in 0 .. MaxInits BY FinderAssumption
<1>2. DOMAIN << >> = {} BY EmptySeq
<1>3. ControlOK BY <1>1 DEF Init, ControlOK
<1>4. PlacesOK BY <1>2 DEF Init, PlacesOK
<1>5. << >> \in Seq(Used) /\ << >> \in Seq(Int) OBVIOUS
<1>6. dims \in Fitting BY GridAssumption DEF Init, Fitting
<1>7. StateOK BY <1>4, <1>5, <1>6 DEF Init, StateOK
<1> QED BY <1>3, <1>7

\* init() allocates the nodes that follow.
LEMMA MapTypes ==
  ASSUME ControlOK, StateOK, pc \in {"new", "idle"}, inits < MaxInits,
         NEW d \in Sizes, NEW M \in SUBSET Area(d), NEW places \in Placings,
         InitFrom(M, places, d)
  PROVE  ControlOK' /\ StateOK' /\ Used \subseteq Used'
<1>1. /\ inits \in Nat /\ inits' = inits + 1 /\ inits' \in 1 .. MaxInits /\ pc' = "idle"
      /\ walkable' = M /\ dims' = d
      /\ UNCHANGED <<calls, nodes, open_list_, goal, path_, locals>>
  BY FinderAssumption DEF InitFrom, ControlOK
<1>2. /\ inits * Size \in Nat /\ (inits + 1) * Size = inits * Size + Size
  BY <1>1, SizeIsPositive, ProductIsNat
<1>3. Used' = 0 .. (inits * Size + Size) - 1
  <2>1. inits' * Size = inits * Size + Size BY <1>1, <1>2
  <2>2. Used' = 0 .. inits' * Size - 1 BY DEF Used
  <2> QED BY <2>1, <2>2, Zenon
<1>4. Used \subseteq Used'
  <2>1. \A m \in Nat, k \in Nat : 0 .. m - 1 \subseteq 0 .. (m + k) - 1 OBVIOUS
  <2> QED BY <1>2, <1>3, <2>1, SizeIsPositive DEF Used
<1>5. PlacesOK'
  <2>1. PICK S \in SUBSET Cells : places \in [S -> Nat \X Nat] BY DEF Placings
  <2> DEFINE D == DOMAIN displaced \cup {inits * Size + i : i \in DOMAIN places}
  <2>2. displaced' = [n \in D |-> IF n < inits * Size THEN displaced[n] ELSE places[CellOf(n)]]
    BY DEF InitFrom
  <2>3. ASSUME NEW n \in DOMAIN displaced
        PROVE  n < inits * Size /\ displaced[n] \in Nat \X Nat /\ n \in Used
    BY <1>2 DEF StateOK, PlacesOK, Used
  <2>4. ASSUME NEW i \in DOMAIN places
        PROVE  /\ ~ (inits * Size + i < inits * Size) /\ inits * Size + i \in Used'
               /\ places[CellOf(inits * Size + i)] \in Nat \X Nat
    <3>1. i \in Cells /\ i \in 0 .. Size - 1 BY <2>1, SizeIsPositive
    <3>2. CellOf(inits * Size + i) = i BY <1>1, <3>1, Composed, SizeIsPositive DEF CellOf
    <3>3. inits * Size + i \in Used' BY <1>2, <1>3, <3>1, SizeIsPositive
    <3> QED BY <2>1, <3>1, <3>2, <3>3, <1>2
  <2>5. DOMAIN displaced' = D BY <2>2
  <2>6. D \subseteq Used' BY <1>4, <2>3, <2>4
  <2>7. \A n \in D : displaced'[n] \in Nat \X Nat
    <3>1. TAKE n \in D
    <3>2. CASE n \in DOMAIN displaced BY <2>2, <2>3, <3>2
    <3>3. CASE n \in {inits * Size + i : i \in DOMAIN places}
      <4>1. PICK i \in DOMAIN places : n = inits * Size + i BY <3>3
      <4> QED BY <2>2, <2>4, <4>1
    <3> QED BY <3>2, <3>3
  <2> QED BY <2>5, <2>6, <2>7 DEF PlacesOK
<1>6. ControlOK' BY <1>1 DEF ControlOK, locals
<1>7. StateOK'
  <2>1. /\ f' = f /\ g' = g /\ h' = h /\ parent' = parent /\ opened' = opened
        /\ closed' = closed /\ open_list_' = open_list_ /\ begin_node_' = begin_node_
        /\ end_node_' = end_node_ /\ node' = node /\ cells' = cells
    BY <1>1 DEF nodes, scores, goal, locals
  <2>2. Nodes \ Used' \subseteq Nodes \ Used BY <1>4
  <2>3. open_list_ \in Seq(Used') BY <1>4, WidenedSeq DEF StateOK
  <2>4. parent \in [Nodes -> Used' \cup {Null}] BY <1>4 DEF StateOK
  <2>5. dims' \in Fitting /\ walkable' \subseteq Area(dims)'
    <3>1. Area(dims)' = Area(d) BY <1>1 DEF Area
    <3> QED BY <1>1, <3>1, SizesFit
  <2> QED BY <1>1, <1>4, <1>5, <2>1, <2>2, <2>3, <2>4, <2>5 DEF StateOK
<1> QED BY <1>4, <1>6, <1>7

\* What is read from the grid stays when the grid does.
LEMMA GridStays ==
  ASSUME UNCHANGED grid
  PROVE  /\ inits' = inits /\ dims' = dims /\ walkable' = walkable
         /\ displaced' = displaced /\ Area(dims)' = Area(dims)
         /\ Used' = Used /\ Current' = Current /\ Base' = Base /\ PlacesOK' = PlacesOK
<1>1. /\ inits' = inits /\ dims' = dims /\ walkable' = walkable
      /\ displaced' = displaced
  BY DEF grid
<1>6. Area(dims)' = Area(dims) BY <1>1 DEF Area
<1>2. Used' = Used BY <1>1 DEF Used
<1>3. Base' = Base BY <1>1 DEF Base
<1>4. Current' = Current BY <1>3 DEF Current, NodeOf
<1>5. PlacesOK' = PlacesOK BY <1>1, <1>2 DEF PlacesOK
<1> QED BY <1>1, <1>2, <1>3, <1>4, <1>5, <1>6

\* What is left to be done when the grid stays.
LEMMA StateFromParts ==
  ASSUME StateOK, UNCHANGED grid,
         f' \in [Nodes -> Nat], g' \in [Nodes -> Nat], h' \in [Nodes -> Nat],
         parent' \in [Nodes -> Used \cup {Null}], \A n \in Nodes \ Used : parent'[n] = Null,
         opened' \subseteq Used, closed' \subseteq Used, open_list_' \in Seq(Used),
         begin_node_' \in Used \cup {Null}, end_node_' \in Used \cup {Null},
         node' \in Used \cup {Null}, cells' \in Seq(Int)
  PROVE  StateOK'
BY GridStays DEF StateOK

\* A call with a point outside the grid clears the first node.
LEMMA CallOutsideTypes ==
  ASSUME ControlOK, StateOK, CallOutside
  PROVE  ControlOK' /\ StateOK'
<1>0. UNCHANGED grid BY DEF CallOutside
<1>1. calls' = calls + 1 /\ calls' \in 0 .. MaxCalls /\ pc' = pc
  BY FinderAssumption DEF CallOutside, ControlOK
<1>2. /\ begin_node_' = begin_node_ /\ end_node_' = end_node_ /\ node' = node
      /\ cells' = cells /\ open_list_' = open_list_
  BY DEF CallOutside, goal, locals
<1>3. ControlOK' BY <1>0, <1>1, <1>2, GridStays DEF ControlOK
<1>6. /\ open_list_' \in Seq(Used)
      /\ begin_node_' \in Used \cup {Null} /\ end_node_' \in Used \cup {Null}
      /\ node' \in Used \cup {Null} /\ cells' \in Seq(Int)
  BY <1>2 DEF StateOK
<1>4. CASE UNCHANGED nodes
  <2>1. /\ f' = f /\ g' = g /\ h' = h /\ parent' = parent
        /\ opened' = opened /\ closed' = closed
    BY <1>4 DEF nodes, scores
  <2>2. /\ f' \in [Nodes -> Nat] /\ g' \in [Nodes -> Nat] /\ h' \in [Nodes -> Nat]
        /\ parent' \in [Nodes -> Used \cup {Null}]
        /\ \A n \in Nodes \ Used : parent'[n] = Null
        /\ opened' \subseteq Used /\ closed' \subseteq Used
    BY <2>1 DEF StateOK
  <2> QED BY <1>0, <1>3, <1>6, <2>2, StateFromParts
<1>5. CASE ClearFirst
  <2>1. /\ f' \in [Nodes -> Nat] /\ g' \in [Nodes -> Nat] /\ h' \in [Nodes -> Nat]
    BY <1>5 DEF ClearFirst, StateOK
  <2>2. /\ parent' \in [Nodes -> Used \cup {Null}]
        /\ \A n \in Nodes \ Used : parent'[n] = Null
        /\ opened' \subseteq Used /\ closed' \subseteq Used
    BY <1>5 DEF ClearFirst, StateOK
  <2> QED BY <1>0, <1>3, <1>6, <2>1, <2>2, StateFromParts
<1> QED BY <1>3, <1>4, <1>5 DEF CallOutside

\* A call puts the start into the list.
LEMMA CallTypes ==
  ASSUME ControlOK, StateOK, NEW s \in Starts, NEW e \in Ends, Call(s, e)
  PROVE  ControlOK' /\ StateOK'
<1>1. /\ inits \in 1 .. MaxInits /\ calls' \in 0 .. MaxCalls /\ pc' = "search"
      /\ s \in Cells /\ e \in Cells /\ UNCHANGED grid /\ node' = node /\ cells' = cells
  BY FinderAssumption DEF Call, ControlOK, locals
<1>2. NodeOf(s) \in Used /\ NodeOf(e) \in Used /\ NodeOf(s) \in Current /\ NodeOf(e) \in Current
  BY <1>1, NodeNumbers DEF Current
<1>3. begin_node_' = NodeOf(s) /\ end_node_' = NodeOf(e) BY DEF Call
<1>4. ControlOK'
  <2>1. Current' = Current BY <1>1, GridStays
  <2>2. cells = << >> BY DEF Call, ControlOK
  <2>3. inits' = inits /\ inits' # 0 /\ inits' \in 0 .. MaxInits BY <1>1, GridStays
  <2> QED BY <1>1, <1>2, <1>3, <2>1, <2>2, <2>3 DEF ControlOK
<1>5. f' \in [Nodes -> Nat] /\ g' \in [Nodes -> Nat] /\ h' \in [Nodes -> Nat]
  BY DEF Call, StateOK
<1>6. /\ parent' \in [Nodes -> Used \cup {Null}] /\ \A n \in Nodes \ Used : parent'[n] = Null
      /\ opened' \subseteq Used /\ closed' \subseteq Used
  BY <1>2 DEF Call, StateOK
<1>7. open_list_' \in Seq(Used) BY <1>2 DEF Call, StateOK
<1>8. StateOK' BY <1>1, <1>2, <1>3, <1>5, <1>6, <1>7, StateFromParts DEF StateOK
<1> QED BY <1>4, <1>8

\* What the loop of find_path() takes from the list.
LEMMA PopTypes ==
  ASSUME ControlOK, StateOK, Pop
  PROVE  /\ Head(open_list_) \in Used /\ open_list_' \in Seq(Used) /\ closed' \subseteq Used
         /\ UNCHANGED grid /\ calls' = calls /\ inits \in 1 .. MaxInits
         /\ f' = f /\ g' = g /\ h' = h /\ parent' = parent /\ opened' = opened
         /\ begin_node_' = begin_node_ /\ end_node_' = end_node_
<1>1. Head(open_list_) \in Used /\ Tail(open_list_) \in Seq(Used) BY FrontTaken DEF Pop, StateOK
<1>2. inits \in 1 .. MaxInits BY FinderAssumption DEF Pop, ControlOK
<1> QED BY <1>1, <1>2 DEF Pop, StateOK, scores, goal

\* Only the nodes of walkable cells are relaxed, at a cost that is the distance by
\* way of the node that is expanded.
LEMMA Relaxed ==
  ASSUME ControlOK, StateOK, Relax
  PROVE  \E i \in walkable :
           /\ i \in Cells /\ NodeOf(i) \in Used /\ NodeOf(i) \in Nodes /\ NodeOf(i) \notin closed
           /\ i \in Jumps(Head(cells))
           /\ g[node] + Hop(node, NodeOf(i)) \in Nat
           /\ IF NodeOf(i) \notin opened \/ g[node] + Hop(node, NodeOf(i)) < g[NodeOf(i)]
              THEN Improve(NodeOf(i), g[node] + Hop(node, NodeOf(i))) /\ Open(NodeOf(i))
              ELSE UNCHANGED <<scores, opened, open_list_>>
<1>1. PICK i \in Jumps(Head(cells)) \cap Cells :
        /\ ~ IsClosed(NodeOf(i))
        /\ IF NodeOf(i) \notin opened \/ g[node] + Hop(node, NodeOf(i)) < g[NodeOf(i)]
           THEN Improve(NodeOf(i), g[node] + Hop(node, NodeOf(i))) /\ Open(NodeOf(i))
           ELSE UNCHANGED <<scores, opened, open_list_>>
  BY DEF Relax
<1>2. i \in walkable
  <2>1. i # NoJump /\ i # Endless BY SizeIsPositive DEF NoJump, Endless
  <2> QED BY <2>1, JumpsAreWalkable
<1>3. inits \in 1 .. MaxInits /\ node \in Used BY FinderAssumption DEF Relax, ControlOK
<1>4. NodeOf(i) \in Used /\ NodeOf(i) \in Nodes /\ NodeOf(i) \in Nat BY <1>3, NodeNumbers
<1>5. g[node] + Hop(node, NodeOf(i)) \in Nat
  <2>1. node \in Nat /\ node \in Nodes BY <1>3, UsedAreNodes DEF Used
  <2>2. Hop(node, NodeOf(i)) \in Nat BY <1>4, <2>1, DistancesAreNat DEF StateOK
  <2> QED BY <2>1, <2>2 DEF StateOK
<1> QED BY <1>1, <1>2, <1>4, <1>5 DEF IsClosed

\* The types hold after a jump point is improved,
LEMMA RelaxTypes ==
  ASSUME ControlOK, StateOK, Relax
  PROVE  ControlOK' /\ StateOK'
<1>0. UNCHANGED grid BY DEF Relax
<1>1. /\ pc = "expand" /\ pc' = pc /\ calls' = calls /\ closed' = closed /\ node' = node
      /\ begin_node_' = begin_node_ /\ end_node_' = end_node_
      /\ cells # << >> /\ cells' = Tail(cells)
  BY DEF Relax, goal
<1>2. cells' \in Seq(Int) BY <1>1, FrontTaken DEF StateOK
<1>3. ControlOK' BY <1>0, <1>1, GridStays DEF ControlOK
<1>4. PICK i \in walkable :
        /\ NodeOf(i) \in Used /\ NodeOf(i) \in Nodes
        /\ g[node] + Hop(node, NodeOf(i)) \in Nat
        /\ IF NodeOf(i) \notin opened \/ g[node] + Hop(node, NodeOf(i)) < g[NodeOf(i)]
           THEN Improve(NodeOf(i), g[node] + Hop(node, NodeOf(i))) /\ Open(NodeOf(i))
           ELSE UNCHANGED <<scores, opened, open_list_>>
  BY Relaxed
<1> DEFINE j == NodeOf(i)
           cost == g[node] + Hop(node, j)
<1>5. /\ closed' \subseteq Used
      /\ begin_node_' \in Used \cup {Null} /\ end_node_' \in Used \cup {Null}
      /\ node' \in Used \cup {Null}
  BY <1>1 DEF StateOK
<1>6. CASE UNCHANGED <<scores, opened, open_list_>>
  <2>1. /\ f' = f /\ g' = g /\ h' = h /\ parent' = parent
        /\ opened' = opened /\ open_list_' = open_list_
    BY <1>6 DEF scores
  <2>2. /\ f' \in [Nodes -> Nat] /\ g' \in [Nodes -> Nat] /\ h' \in [Nodes -> Nat]
        /\ parent' \in [Nodes -> Used \cup {Null}]
        /\ \A n \in Nodes \ Used : parent'[n] = Null
        /\ opened' \subseteq Used /\ open_list_' \in Seq(Used)
    BY <2>1 DEF StateOK
  <2> QED BY <1>0, <1>2, <1>3, <1>5, <2>2, StateFromParts
<1>7. CASE Improve(j, cost) /\ Open(j)
  <2> HIDE DEF j, cost
  <2>1. j \in Used /\ j \in Nodes /\ cost \in Nat BY <1>4 DEF j, cost
  <2>2. Estimate(j) \in Nat
    <3>1. inits \in 1 .. MaxInits /\ end_node_ \in Current BY <1>1, FinderAssumption DEF ControlOK
    <3>2. end_node_ \in Nat BY <3>1, NodeNumbers DEF Current
    <3> QED BY <2>1, <3>2, EstimateIsNat DEF StateOK, Nodes
  <2>3. g' \in [Nodes -> Nat] /\ h' \in [Nodes -> Nat] /\ g'[j] \in Nat /\ h'[j] \in Nat
    BY <1>7, <2>1, <2>2 DEF Improve, StateOK
  <2>4. f' \in [Nodes -> Nat]
    <3>1. g'[j] + h'[j] \in Nat BY <2>3
    <3> QED BY <1>7, <3>1 DEF Improve, StateOK
  <2>5. /\ parent' \in [Nodes -> Used \cup {Null}]
        /\ \A n \in Nodes \ Used : parent'[n] = Null
    <3>1. node \in Used BY <1>1 DEF ControlOK
    <3> QED BY <1>7, <2>1, <3>1 DEF Improve, StateOK
  <2>6. opened' \subseteq Used BY <1>7, <2>1 DEF Open, StateOK
  <2>7. open_list_' \in Seq(Used)
    <3>1. CASE j \in opened BY <1>7, <3>1 DEF Open, StateOK
    <3>2. CASE j \notin opened
      <4>1. Append(open_list_, j) \in Seq(Used) BY <2>1, Appended DEF StateOK
      <4>2. \A n \in Used : f'[n] \in Int
        <5>1. Used \subseteq Nodes BY UsedAreNodes DEF ControlOK
        <5> QED BY <2>4, <5>1
      <4>3. StableSort(Append(open_list_, j), f') \in Seq(Used)
        BY <4>1, <4>2, StableSortKeeps
      <4> QED BY <1>7, <3>2, <4>3 DEF Open
    <3> QED BY <3>1, <3>2
  <2> QED BY <1>0, <1>2, <1>3, <1>5, <2>3, <2>4, <2>5, <2>6, <2>7, StateFromParts
<1> QED BY <1>4, <1>6, <1>7

\* after a node is taken from the list,
LEMMA TakeTypes ==
  ASSUME ControlOK, StateOK, ReachEnd \/ CrashAtEnd \/ HangAtEnd \/ Expand
  PROVE  ControlOK' /\ StateOK'
<1>1. Pop BY DEF ReachEnd, CrashAtEnd, HangAtEnd, Expand
<1>2. /\ Head(open_list_) \in Used /\ open_list_' \in Seq(Used) /\ closed' \subseteq Used
      /\ UNCHANGED grid /\ calls' = calls /\ inits \in 1 .. MaxInits
      /\ f' = f /\ g' = g /\ h' = h /\ parent' = parent /\ opened' = opened
      /\ begin_node_' = begin_node_ /\ end_node_' = end_node_
  BY <1>1, PopTypes
<1>3. /\ f' \in [Nodes -> Nat] /\ g' \in [Nodes -> Nat] /\ h' \in [Nodes -> Nat]
      /\ parent' \in [Nodes -> Used \cup {Null}]
      /\ \A n \in Nodes \ Used : parent'[n] = Null
      /\ opened' \subseteq Used
      /\ begin_node_' \in Used \cup {Null} /\ end_node_' \in Used \cup {Null}
  BY <1>2 DEF StateOK
<1>4. Used \subseteq Nodes BY <1>2, UsedAreNodes
<1>5. pc = "search" /\ cells = << >> BY <1>1 DEF Pop, ControlOK
<1>6. inits' = inits /\ Used' = Used /\ Current' = Current BY <1>2, GridStays
<1>7. CASE Expand
  <2>1. /\ pc' = "expand" /\ node' = Head(open_list_)
        /\ cells' = FindNeighbors(Head(open_list_))
    BY <1>7 DEF Expand
  <2>2. cells' \in Seq(Int) BY <1>2, <1>4, <2>1, NeighborsAreInt DEF StateOK
  <2>3. StateOK' BY <1>2, <1>3, <2>1, <2>2, StateFromParts
  <2>4. ControlOK' BY <1>2, <1>5, <1>6, <2>1 DEF ControlOK
  <2> QED BY <2>3, <2>4
<1>8. CASE ReachEnd \/ CrashAtEnd \/ HangAtEnd
  <2>1. pc' \in {"idle", "crashed", "hung"} /\ node' = node /\ cells' = cells
    BY <1>8 DEF ReachEnd, CrashAtEnd, HangAtEnd, locals
  <2>2. node' \in Used \cup {Null} /\ cells' \in Seq(Int) BY <2>1 DEF StateOK
  <2>3. StateOK' BY <1>2, <1>3, <2>2, StateFromParts
  <2>4. ControlOK' BY <1>2, <1>5, <1>6, <2>1 DEF ControlOK
  <2> QED BY <2>3, <2>4
<1> QED BY <1>7, <1>8

\* and after a round that changes no node.
LEMMA QuietTypes ==
  ASSUME ControlOK, StateOK,
         GiveUp \/ Skip \/ JumpForever \/ Expanded \/ UNCHANGED vars
  PROVE  ControlOK' /\ StateOK'
<1>1. Quiet
  BY DEF GiveUp, Skip, JumpForever, Expanded, Quiet, vars, grid, nodes, goal, scores
<1>2. UNCHANGED grid BY <1>1 DEF Quiet
<1>3. /\ calls' = calls /\ f' = f /\ g' = g /\ h' = h /\ parent' = parent /\ opened' = opened
      /\ closed' = closed /\ open_list_' = open_list_
      /\ begin_node_' = begin_node_ /\ end_node_' = end_node_
  BY <1>1 DEF Quiet, nodes, scores, goal
<1>4. /\ f' \in [Nodes -> Nat] /\ g' \in [Nodes -> Nat] /\ h' \in [Nodes -> Nat]
      /\ parent' \in [Nodes -> Used \cup {Null}]
      /\ \A n \in Nodes \ Used : parent'[n] = Null
      /\ opened' \subseteq Used /\ closed' \subseteq Used /\ open_list_' \in Seq(Used)
      /\ begin_node_' \in Used \cup {Null} /\ end_node_' \in Used \cup {Null}
  BY <1>3 DEF StateOK
<1>5. node' = node BY DEF GiveUp, Skip, JumpForever, Expanded, vars, locals
<1>6. cells' = cells \/ (cells # << >> /\ cells' = Tail(cells) /\ pc = "expand" /\ pc' = pc)
  BY DEF GiveUp, Skip, JumpForever, Expanded, vars, locals
<1>7. cells' \in Seq(Int)
  <2>1. cells \in Seq(Int) BY DEF StateOK
  <2>2. cells # << >> => Tail(cells) \in Seq(Int) BY <2>1, FrontTaken
  <2> QED BY <1>6, <2>1, <2>2
<1>8. node' \in Used \cup {Null} BY <1>5 DEF StateOK
<1>9. StateOK' BY <1>2, <1>4, <1>7, <1>8, StateFromParts
<1>10. inits' = inits /\ Used' = Used /\ Current' = Current BY <1>2, GridStays
<1>11. \/ pc' = pc
       \/ pc = "search" /\ pc' = "idle" /\ cells' = cells
       \/ pc = "expand" /\ pc' = "hung" /\ cells' = cells
       \/ pc = "expand" /\ pc' = "search" /\ cells = << >> /\ cells' = cells
  BY DEF GiveUp, Skip, JumpForever, Expanded, vars, locals
<1>12. ControlOK' BY <1>3, <1>5, <1>6, <1>10, <1>11 DEF ControlOK
<1> QED BY <1>9, <1>12

\* Every step of a finder with any maps keeps the types.
LEMMA TypesKept ==
  ASSUME ControlOK, StateOK, [AnyNext]_vars
  PROVE  ControlOK' /\ StateOK'
<1>1. CASE AnyMap
  <2>1. PICK d \in Sizes, M \in SUBSET Cells, places \in Placings :
          M \subseteq Area(d) /\ InitFrom(M, places, d)
    BY <1>1 DEF AnyMap
  <2> QED BY <1>1, <2>1, MapTypes DEF AnyMap, CanInit
<1>2. CASE CallOutside BY <1>2, CallOutsideTypes
<1>3. CASE AnyCall BY <1>3, CallTypes DEF AnyCall
<1>4. CASE Step
  <2>1. CASE Relax BY <2>1, RelaxTypes
  <2>2. CASE ReachEnd \/ CrashAtEnd \/ HangAtEnd \/ Expand BY <2>2, TakeTypes
  <2>3. CASE GiveUp \/ Skip \/ JumpForever \/ Expanded BY <2>3, QuietTypes
  <2> QED BY <1>4, <2>1, <2>2, <2>3 DEF Step
<1>5. CASE UNCHANGED vars BY <1>5, QuietTypes
<1> QED BY <1>1, <1>2, <1>3, <1>4, <1>5 DEF AnyNext

-----------------------------------------------------------------------------
(* Only walkable cells are entered *)

\* Nothing is entered in a new finder.
LEMMA EnteredAtInit ==
  ASSUME Init
  PROVE  OnlyWalkableEntered
<1>1. \A i \in Cells : NodeOf(i) \in Nodes
  <2>1. MaxInits * Size = (MaxInits - 1) * Size + Size /\ (MaxInits - 1) * Size \in Nat
    BY FinderAssumption, SizeIsPositive, ProductIsNat
  <2>2. \A i \in Cells : NodeOf(i) = i BY SizeIsPositive DEF Init, NodeOf, Base
  <2> QED BY <2>1, <2>2, SizeIsPositive DEF Nodes
<1> QED BY <1>1 DEF Init, OnlyWalkableEntered

\* The nodes of a new array are not those of the arrays before.
LEMMA NewNodes ==
  ASSUME ControlOK, StateOK, pc \in {"new", "idle"}, inits < MaxInits,
         NEW d \in Sizes, NEW M \in SUBSET Area(d), NEW places \in Placings,
         InitFrom(M, places, d),
         NEW i \in Cells
  PROVE  NodeOf(i)' \notin Used /\ NodeOf(i)' \in Nodes /\ parent'[NodeOf(i)'] = Null
<1>1. /\ inits \in Nat /\ inits' = inits + 1 /\ inits' \in 1 .. MaxInits /\ parent' = parent
  BY FinderAssumption DEF InitFrom, ControlOK, nodes, scores
<1>2. Base' = inits * Size BY <1>1 DEF Base
<1>3. inits * Size \in Nat BY <1>1, SizeIsPositive, ProductIsNat
<1>4. NodeOf(i)' = inits * Size + i BY <1>2 DEF NodeOf
<1>5. NodeOf(i)' \notin Used BY <1>3, <1>4, SizeIsPositive DEF Used
<1>6. (inits + 1) * Size = inits * Size + Size BY <1>1, SizeIsPositive
<1>7. inits * Size + Size <= MaxInits * Size /\ MaxInits * Size \in Nat
  <2>1. CASE inits + 1 = MaxInits BY <2>1, <1>3, <1>6, SizeIsPositive
  <2>2. CASE inits + 1 < MaxInits
    <3>1. (inits + 1) * Size + Size <= MaxInits * Size
      BY <2>2, <1>1, Multiples, FinderAssumption, SizeIsPositive
    <3>2. MaxInits * Size \in Nat BY FinderAssumption, SizeIsPositive, ProductIsNat
    <3> QED BY <3>1, <3>2, <1>3, <1>6, SizeIsPositive
  <2> QED BY <2>1, <2>2, <1>1, FinderAssumption
<1>8. NodeOf(i)' \in Nodes BY <1>3, <1>4, <1>7, SizeIsPositive DEF Nodes
<1>9. parent'[NodeOf(i)'] = Null BY <1>1, <1>5, <1>8 DEF StateOK
<1> QED BY <1>5, <1>8, <1>9

\* In a new array no node is entered.
LEMMA EnteredByMap ==
  ASSUME ControlOK, StateOK, pc \in {"new", "idle"}, inits < MaxInits,
         NEW d \in Sizes, NEW M \in SUBSET Area(d), NEW places \in Placings,
         InitFrom(M, places, d)
  PROVE  OnlyWalkableEntered'
<1>1. \A i \in Cells : /\ NodeOf(i)' \notin Used /\ NodeOf(i)' \in Nodes
                       /\ parent'[NodeOf(i)'] = Null
  BY NewNodes
<1>2. opened' = opened BY DEF InitFrom, nodes
<1> QED BY <1>1, <1>2 DEF OnlyWalkableEntered, StateOK

\* Only walkable cells are relaxed, and a start is opened at no cost.
LEMMA EnteredByStep ==
  ASSUME ControlOK, StateOK, OnlyWalkableEntered, CallOutside \/ AnyCall \/ Pop \/ Relax \/ Quiet
  PROVE  OnlyWalkableEntered'
<1>1. UNCHANGED grid BY DEF CallOutside, AnyCall, Call, Pop, Relax, Quiet
<1>2. walkable' = walkable /\ Base' = Base BY <1>1, GridStays
<1>3. \A i : NodeOf(i)' = NodeOf(i) BY <1>2 DEF NodeOf
<1>4. SUFFICES ASSUME NEW i \in Cells \ walkable
               PROVE  /\ parent'[NodeOf(i)] = Null
                      /\ NodeOf(i) \in opened' => g'[NodeOf(i)] = 0
  BY <1>2, <1>3 DEF OnlyWalkableEntered
<1> DEFINE n == NodeOf(i)
<1>5. parent[n] = Null /\ (n \in opened => g[n] = 0) BY DEF OnlyWalkableEntered
<1>6. CASE CallOutside
  <2>1. CASE UNCHANGED nodes BY <1>5, <2>1 DEF nodes, scores
  <2>2. CASE ClearFirst BY <1>5, <2>2 DEF ClearFirst, StateOK
  <2> QED BY <1>6, <2>1, <2>2 DEF CallOutside
<1>7. CASE AnyCall
  <2>1. PICK s \in Starts, e \in Ends : Call(s, e) BY <1>7 DEF AnyCall
  <2>2. inits \in 1 .. MaxInits BY <2>1, FinderAssumption DEF Call, ControlOK
  <2>3. n \in Nodes BY <2>2, NodeNumbers
  <2>4. /\ parent' = [parent EXCEPT ![Base] = Null]
        /\ g' = [g EXCEPT ![Base] = 0, ![NodeOf(s)] = 0]
        /\ opened' \subseteq opened \cup {NodeOf(s)}
    BY <2>1 DEF Call
  <2> HIDE DEF n
  <2>5. parent'[n] = Null BY <1>5, <2>3, <2>4 DEF StateOK
  <2>6. g'[n] = IF n = NodeOf(s) THEN 0 ELSE IF n = Base THEN 0 ELSE g[n]
    BY <2>3, <2>4 DEF StateOK
  <2> QED BY <1>5, <2>4, <2>5, <2>6 DEF n
<1>8. CASE Pop BY <1>5, <1>8 DEF Pop, scores
<1>9. CASE Relax
  <2>1. PICK k \in walkable :
          /\ k \in Cells /\ NodeOf(k) \in Nodes
          /\ IF NodeOf(k) \notin opened \/ g[node] + Hop(node, NodeOf(k)) < g[NodeOf(k)]
             THEN Improve(NodeOf(k), g[node] + Hop(node, NodeOf(k))) /\ Open(NodeOf(k))
             ELSE UNCHANGED <<scores, opened, open_list_>>
    BY <1>9, Relaxed
  <2>2. CASE UNCHANGED <<scores, opened, open_list_>> BY <1>5, <2>2 DEF scores
  <2>3. CASE Improve(NodeOf(k), g[node] + Hop(node, NodeOf(k))) /\ Open(NodeOf(k))
    <3>1. n # NodeOf(k)
      <4>1. inits \in 1 .. MaxInits BY <1>9, FinderAssumption DEF Relax, ControlOK
      <4>2. CellOf(NodeOf(k)) = k /\ CellOf(n) = i BY <2>1, <4>1, NodeNumbers
      <4> QED BY <4>2
    <3>2. parent'[n] = parent[n] /\ g'[n] = g[n] /\ (n \in opened' => n \in opened)
      BY <2>3, <3>1 DEF Improve, Open, StateOK
    <3> QED BY <1>5, <3>2
  <2> QED BY <2>1, <2>2, <2>3
<1>10. CASE Quiet BY <1>5, <1>10 DEF Quiet, nodes, scores
<1> QED BY <1>6, <1>7, <1>8, <1>9, <1>10

-----------------------------------------------------------------------------
(* The first call *)

\* Before the first call the nodes are as they were constructed.
Fresh ==
  calls = 0 =>
    /\ pc \in {"new", "idle"}
    /\ \A n \in Nodes : f[n] = 0 /\ g[n] = 0 /\ h[n] = 0 /\ parent[n] = Null
    /\ opened = {} /\ closed = {} /\ open_list_ = << >>

\* The node being expanded is closed.
NodeClosed == pc = "expand" => node \in closed

\* Both hold in a new finder.
LEMMA FreshAtInit ==
  ASSUME Init
  PROVE  Fresh /\ NodeClosed
BY DEF Init, Fresh, NodeClosed

\* A call is counted when it starts, a node is closed when it is taken.
LEMMA FreshKept ==
  ASSUME ControlOK, Fresh, NodeClosed, [AnyNext]_vars
  PROVE  Fresh' /\ NodeClosed'
<1>1. CASE AnyMap
  <2>1. pc' = "idle" /\ calls' = calls /\ UNCHANGED nodes /\ open_list_' = open_list_
    BY <1>1 DEF AnyMap, InitFrom
  <2> QED BY <2>1 DEF Fresh, NodeClosed, nodes, scores
<1>2. CASE CallOutside
  <2>1. calls' = calls + 1 /\ calls \in Nat /\ pc' = pc /\ pc # "expand"
    BY <1>2 DEF CallOutside, ControlOK
  <2> QED BY <2>1 DEF Fresh, NodeClosed
<1>3. CASE AnyCall
  <2>1. calls' = calls + 1 /\ calls \in Nat /\ pc' = "search"
    BY <1>3 DEF AnyCall, Call, ControlOK
  <2> QED BY <2>1 DEF Fresh, NodeClosed
<1>4. CASE Step
  <2>1. calls' = calls /\ pc \notin {"new", "idle"}
    BY <1>4 DEF Step, GiveUp, ReachEnd, CrashAtEnd, HangAtEnd, Expand, Pop, Skip,
                JumpForever, Relax, Expanded
  <2>2. Fresh' BY <2>1 DEF Fresh
  <2>3. NodeClosed'
    BY <1>4 DEF Step, GiveUp, ReachEnd, CrashAtEnd, HangAtEnd, Expand, Pop, Skip,
                JumpForever, Relax, Expanded, NodeClosed, nodes
  <2> QED BY <2>2, <2>3
<1>5. CASE UNCHANGED vars BY <1>5 DEF vars, nodes, scores, locals, Fresh, NodeClosed
<1> QED BY <1>1, <1>2, <1>3, <1>4, <1>5 DEF AnyNext

\* The cells of the arrays that init() replaces keep their places.
LEMMA PlacesStay ==
  ASSUME ControlOK, StateOK, NEW d \in Sizes, NEW M \in SUBSET Area(d),
         NEW places \in Placings, InitFrom(M, places, d), NEW n \in Used
  PROVE  Place(n)' = Place(n) /\ PX(n)' = PX(n) /\ PY(n)' = PY(n)
<1>1. inits \in Nat /\ inits * Size \in Nat
  BY SizeIsPositive, ProductIsNat DEF ControlOK
<1>2. n < inits * Size /\ n \in Nat BY <1>1 DEF Used
<1>3. \A i \in DOMAIN places : n # inits * Size + i
  <2>1. \A i \in DOMAIN places : i \in Cells BY DEF Placings
  <2> QED BY <1>1, <1>2, <2>1, SizeIsPositive
<1> DEFINE D == DOMAIN displaced \cup {inits * Size + i : i \in DOMAIN places}
<1>4. displaced' = [m \in D |-> IF m < inits * Size THEN displaced[m] ELSE places[CellOf(m)]]
  BY DEF InitFrom
<1>5. n \in DOMAIN displaced' <=> n \in DOMAIN displaced BY <1>3, <1>4
<1>6. n \in DOMAIN displaced => displaced'[n] = displaced[n] BY <1>2, <1>4
<1>7. Place(n)' = Place(n) BY <1>5, <1>6 DEF Place
<1> QED BY <1>7 DEF PX, PY

\* Places and distances stay when the grid does.
LEMMA PlacesStayPut ==
  ASSUME UNCHANGED grid
  PROVE  /\ \A n : Place(n)' = Place(n) /\ PX(n)' = PX(n) /\ PY(n)' = PY(n)
         /\ \A p, n : Hop(p, n)' = Hop(p, n)
<1>1. displaced' = displaced BY GridStays
<1>2. \A n : Place(n)' = Place(n) BY <1>1 DEF Place
<1>3. \A n : PX(n)' = PX(n) /\ PY(n)' = PY(n) BY <1>2 DEF PX, PY
<1> QED BY <1>2, <1>3 DEF Hop

\* What CostsAddUp says of a node n with the parent q.
CostOf(n, q) ==
  /\ g[n] = g[q] + Hop(q, n)
  /\ f[n] = g[n] + h[n]
  /\ q \in closed

\* In the first call a node costs what its parent costs and the hop between them.
AddUp == calls < 2 => \A n, q \in Nodes : parent[n] = q => CostOf(n, q)

\* It is CostsAddUp, with the parents quantified over.
LEMMA AddUpIsCostsAddUp ==
  ASSUME ControlOK, StateOK, AddUp
  PROVE  CostsAddUp
<1>1. \A n \in Nodes : parent[n] # Null => parent[n] \in Nodes
  <2>1. Used \subseteq Nodes BY UsedAreNodes DEF ControlOK
  <2> QED BY <2>1 DEF StateOK
<1> QED BY <1>1 DEF AddUp, CostOf, CostsAddUp

\* The node that is improved has no children: they would have closed it.
LEMMA CostsKept ==
  ASSUME ControlOK, StateOK, Fresh, NodeClosed, AddUp, [AnyNext]_vars
  PROVE  AddUp'
<1> SUFFICES ASSUME calls' < 2, NEW n \in Nodes, NEW q \in Nodes, parent'[n] = q
             PROVE  CostOf(n, q)'
  BY DEF AddUp
<1>0. q # Null BY DEF Nodes, Null
<1>1. calls < 2 /\ parent[n] = q => CostOf(n, q) BY DEF AddUp
<1>2. parent[n] = q => q \in Used BY <1>0 DEF StateOK
<1>3. CASE AnyMap
  <2>1. PICK d \in Sizes, M \in SUBSET Cells, places \in Placings :
          M \subseteq Area(d) /\ InitFrom(M, places, d)
    BY <1>3 DEF AnyMap
  <2>2. /\ calls' = calls /\ f' = f /\ g' = g /\ h' = h /\ parent' = parent
        /\ closed' = closed
    BY <2>1 DEF InitFrom, nodes, scores
  <2>3. q \in Used BY <1>2, <2>2
  <2>4. Hop(q, n)' = Hop(q, n)
    <3>1. PX(q)' = PX(q) /\ PY(q)' = PY(q) BY <2>1, <2>3, PlacesStay
    <3> QED BY <3>1 DEF Hop
  <2> QED BY <1>1, <2>2, <2>4 DEF CostOf
<1>4. CASE CallOutside \/ AnyCall
  <2>1. /\ calls = 0 /\ parent' \in {parent, [parent EXCEPT ![Base] = Null]}
    BY <1>4 DEF CallOutside, AnyCall, Call, ClearFirst, ControlOK, nodes, scores
  <2> QED BY <1>0, <2>1 DEF Fresh, StateOK
<1>5. CASE Pop \/ Quiet
  <2>1. UNCHANGED grid BY <1>5 DEF Pop, Quiet
  <2>2. /\ calls' = calls /\ f' = f /\ g' = g /\ h' = h /\ parent' = parent
        /\ closed \subseteq closed'
    BY <1>5 DEF Pop, Quiet, nodes, scores
  <2>3. Hop(q, n)' = Hop(q, n) BY <2>1, PlacesStayPut
  <2> QED BY <1>1, <2>2, <2>3 DEF CostOf
<1>6. CASE Relax
  <2>1. UNCHANGED grid /\ calls' = calls /\ closed' = closed /\ pc = "expand" BY <1>6 DEF Relax
  <2>2. Hop(q, n)' = Hop(q, n) BY <2>1, PlacesStayPut
  <2>3. PICK k \in walkable :
          /\ NodeOf(k) \in Nodes /\ NodeOf(k) \notin closed
          /\ IF NodeOf(k) \notin opened \/ g[node] + Hop(node, NodeOf(k)) < g[NodeOf(k)]
             THEN Improve(NodeOf(k), g[node] + Hop(node, NodeOf(k))) /\ Open(NodeOf(k))
             ELSE UNCHANGED <<scores, opened, open_list_>>
    BY <1>6, Relaxed
  <2>4. CASE UNCHANGED <<scores, opened, open_list_>>
    BY <1>1, <2>1, <2>2, <2>4 DEF scores, CostOf
  <2>5. CASE Improve(NodeOf(k), g[node] + Hop(node, NodeOf(k)))
    <3> DEFINE j == NodeOf(k)
               cost == g[node] + Hop(node, j)
    <3>1. node \in closed /\ j \notin closed /\ j \in Nodes BY <2>1, <2>3 DEF NodeClosed
    <3>2. node \in Nodes
      <4>1. Used \subseteq Nodes BY UsedAreNodes DEF ControlOK
      <4> QED BY <3>1, <4>1 DEF StateOK
    <3>3. /\ g' = [g EXCEPT ![j] = cost] /\ parent' = [parent EXCEPT ![j] = node]
          /\ h' = [h EXCEPT ![j] = IF @ = 0 THEN Estimate(j) ELSE @]
          /\ f' = [f EXCEPT ![j] = g'[j] + h'[j]]
      BY <2>5 DEF Improve
    <3> HIDE DEF j, cost
    <3>4. CASE n = j
      <4>1. q = node /\ g'[n] = cost /\ f'[n] = g'[n] + h'[n] /\ g'[q] = g[q]
        BY <3>1, <3>2, <3>3, <3>4 DEF StateOK
      <4>2. cost = g[q] + Hop(q, n) BY <3>4, <4>1 DEF cost
      <4> QED BY <2>1, <2>2, <3>1, <4>1, <4>2 DEF CostOf
    <3>5. CASE n # j
      <4>1. parent'[n] = parent[n] /\ g'[n] = g[n] /\ f'[n] = f[n] /\ h'[n] = h[n]
        BY <3>1, <3>3, <3>5 DEF StateOK
      <4>2. q # j /\ g'[q] = g[q] BY <1>1, <2>1, <3>1, <3>3, <4>1 DEF StateOK, CostOf
      <4> QED BY <1>1, <2>1, <2>2, <4>1, <4>2 DEF CostOf
    <3> QED BY <3>4, <3>5
  <2> QED BY <2>3, <2>4, <2>5
<1> QED BY <1>3, <1>4, <1>5, <1>6, StepClasses

\* A node that is relaxed is in the list, the others of the list stay.
LEMMA ListOfRelax ==
  ASSUME ControlOK, StateOK, Relax, ControlOK', StateOK',
         NEW j \in Used, NEW cost, Improve(j, cost) /\ Open(j)
  PROVE  /\ opened' = opened \cup {j}
         /\ j \in opened => open_list_' = open_list_
         /\ j \notin opened => ToSet(open_list_') = ToSet(open_list_) \cup {j}
         /\ j \notin opened /\ j \notin ToSet(open_list_) /\ IsInjective(open_list_) =>
              IsInjective(open_list_')
<1>1. opened' = opened \cup {j} BY DEF Open
<1>2. j \in opened => open_list_' = open_list_ BY DEF Open
<1>3. ASSUME j \notin opened
      PROVE  /\ ToSet(open_list_') = ToSet(open_list_) \cup {j}
             /\ j \notin ToSet(open_list_) /\ IsInjective(open_list_) => IsInjective(open_list_')
  <2> DEFINE s == Append(open_list_, j)
  <2>1. open_list_ \in Seq(Used) BY DEF StateOK
  <2>2. /\ s \in Seq(Used) /\ ToSet(s) = ToSet(open_list_) \cup {j}
        /\ IsInjective(open_list_) /\ j \notin ToSet(open_list_) => IsInjective(s)
    BY <2>1, Appended
  <2>3. \A n \in Used : f'[n] \in Int
    <3>1. Used \subseteq Nodes BY UsedAreNodes DEF ControlOK
    <3>2. f' \in [Nodes -> Nat] BY DEF StateOK
    <3> QED BY <3>1, <3>2
  <2>4. open_list_' = StableSort(s, f') BY <1>3 DEF Open
  <2> HIDE DEF s
  <2>5. /\ ToSet(StableSort(s, f')) = ToSet(s)
        /\ IsInjective(s) => IsInjective(StableSort(s, f'))
    BY <2>2, <2>3, StableSortKeeps
  <2> QED BY <2>2, <2>4, <2>5
<1> QED BY <1>1, <1>2, <1>3

\* A node enters the list when it is opened, and leaves it when it is closed.
LEMMA FrontierKept ==
  ASSUME ControlOK, StateOK, Fresh, OpenListIsFrontier, [AnyNext]_vars
  PROVE  OpenListIsFrontier'
<1>0. ControlOK' /\ StateOK' BY TypesKept
<1> SUFFICES ASSUME calls' < 2
             PROVE  /\ IsInjective(open_list_') /\ ToSet(open_list_') = opened' \ closed'
                    /\ closed' \subseteq opened'
  BY DEF OpenListIsFrontier
<1>1. calls < 2 => /\ IsInjective(open_list_) /\ ToSet(open_list_) = opened \ closed
                   /\ closed \subseteq opened
  BY DEF OpenListIsFrontier
<1>2. CASE AnyMap \/ Quiet
  <2>1. /\ calls' = calls /\ open_list_' = open_list_ /\ opened' = opened /\ closed' = closed
    BY <1>2 DEF AnyMap, InitFrom, Quiet, nodes
  <2> QED BY <1>1, <2>1
<1>3. CASE CallOutside
  <2>1. calls = 0 /\ opened' \subseteq opened /\ closed' \subseteq closed
        /\ open_list_' = open_list_
    BY <1>3 DEF CallOutside, ClearFirst, ControlOK, nodes
  <2>2. opened' = {} /\ closed' = {} /\ open_list_' = open_list_ /\ opened = {} /\ closed = {}
    BY <2>1 DEF Fresh
  <2> QED BY <1>1, <2>1, <2>2
<1>4. CASE AnyCall
  <2>1. PICK s \in Starts, e \in Ends : Call(s, e) BY <1>4 DEF AnyCall
  <2>2. calls = 0 /\ inits \in 1 .. MaxInits /\ s \in Cells
    BY <2>1, FinderAssumption DEF Call, ControlOK
  <2>3. opened = {} /\ closed = {} BY <2>2 DEF Fresh
  <2>4. opened' = {NodeOf(s)} /\ closed' = {} /\ open_list_' = Append(open_list_, NodeOf(s))
    BY <2>1, <2>3 DEF Call
  <2>5. IsInjective(open_list_) /\ ToSet(open_list_) = {} BY <1>1, <2>2, <2>3
  <2>6. NodeOf(s) \in Used /\ open_list_ \in Seq(Used) BY <2>2, NodeNumbers DEF StateOK
  <2>7. IsInjective(Append(open_list_, NodeOf(s)))
        /\ ToSet(Append(open_list_, NodeOf(s))) = {NodeOf(s)}
    BY <2>5, <2>6, Appended
  <2> QED BY <2>4, <2>7
<1>5. CASE Pop
  <2>1. /\ calls' = calls /\ open_list_ # << >> /\ open_list_' = Tail(open_list_)
        /\ closed' = closed \cup {Head(open_list_)} /\ opened' = opened
        /\ open_list_ \in Seq(Used)
    BY <1>5 DEF Pop, StateOK
  <2>2. /\ ToSet(open_list_) = ToSet(open_list_') \cup {Head(open_list_)}
        /\ IsInjective(open_list_) =>
             IsInjective(open_list_') /\ Head(open_list_) \notin ToSet(open_list_')
    BY <2>1, FrontTaken
  <2> QED BY <1>1, <2>1, <2>2
<1>6. CASE Relax
  <2>1. calls' = calls /\ closed' = closed BY <1>6 DEF Relax
  <2>2. PICK k \in walkable :
          /\ NodeOf(k) \in Used /\ NodeOf(k) \notin closed
          /\ IF NodeOf(k) \notin opened \/ g[node] + Hop(node, NodeOf(k)) < g[NodeOf(k)]
             THEN Improve(NodeOf(k), g[node] + Hop(node, NodeOf(k))) /\ Open(NodeOf(k))
             ELSE UNCHANGED <<scores, opened, open_list_>>
    BY <1>6, Relaxed
  <2>3. CASE UNCHANGED <<scores, opened, open_list_>> BY <1>1, <2>1, <2>3
  <2>4. CASE Improve(NodeOf(k), g[node] + Hop(node, NodeOf(k))) /\ Open(NodeOf(k))
    <3> DEFINE j == NodeOf(k)
    <3>1. /\ opened' = opened \cup {j}
          /\ j \in opened => open_list_' = open_list_
          /\ j \notin opened => ToSet(open_list_') = ToSet(open_list_) \cup {j}
          /\ j \notin opened /\ j \notin ToSet(open_list_) /\ IsInjective(open_list_) =>
               IsInjective(open_list_')
      BY <1>0, <1>6, <2>2, <2>4, ListOfRelax
    <3>2. j \notin closed BY <2>2
    <3> HIDE DEF j
    <3> QED BY <1>1, <2>1, <3>1, <3>2
  <2> QED BY <2>2, <2>3, <2>4
<1> QED BY <1>2, <1>3, <1>4, <1>5, <1>6, StepClasses

-----------------------------------------------------------------------------
(* Ancestors *)

\* The parent of a node, or none of none.
Up == [m \in Nodes \cup {Null} |-> IF m = Null THEN Null ELSE parent[m]]

\* The ancestors of n, up to the i-th.
IsChain(a, n, i) ==
  /\ a \in [0 .. i -> Nodes \cup {Null}]
  /\ a[0] = n
  /\ \A k \in 1 .. i : a[k] = Up[a[k - 1]]

\* There are ancestors up to any number,
LEMMA ChainExists ==
  ASSUME parent \in [Nodes -> Nodes \cup {Null}], NEW n \in Nodes \cup {Null}, NEW i \in Nat
  PROVE  \E a : IsChain(a, n, i)
<1> DEFINE S == {m \in Nat : ~ \E a : IsChain(a, n, m)}
<1>0. Up \in [Nodes \cup {Null} -> Nodes \cup {Null}] BY DEF Up
<1> SUFFICES ASSUME S # {} PROVE FALSE OBVIOUS
<1>1. PICK m \in S : \A k \in S : m <= k
  <2>1. S \subseteq Nat OBVIOUS
  <2> HIDE DEF S
  <2> QED BY <2>1, LeastElement
<1>2. CASE m = 0
  <2>1. IsChain([k \in 0 .. 0 |-> n], n, 0) BY DEF IsChain
  <2> QED BY <1>2, <2>1
<1>3. CASE m # 0
  <2>1. m - 1 \in Nat /\ m - 1 \notin S BY <1>1, <1>3
  <2>2. PICK a : IsChain(a, n, m - 1) BY <2>1
  <2> DEFINE b == [k \in 0 .. m |-> IF k = m THEN Up[a[m - 1]] ELSE a[k]]
  <2>3. m \in Nat /\ m - 1 \in 0 .. m - 1 /\ 0 \in 0 .. m /\ 0 # m BY <1>1, <1>3, <2>1
  <2>4. /\ a \in [0 .. m - 1 -> Nodes \cup {Null}] /\ a[0] = n
        /\ \A k \in 1 .. m - 1 : a[k] = Up[a[k - 1]]
    BY <2>2 DEF IsChain
  <2>5. Up[a[m - 1]] \in Nodes \cup {Null} BY <1>0, <2>3, <2>4
  <2>6. \A k \in 0 .. m : k = m \/ k \in 0 .. m - 1 BY <2>3
  <2>7. b \in [0 .. m -> Nodes \cup {Null}] BY <2>4, <2>5, <2>6
  <2>8. b[0] = n BY <2>3, <2>4
  <2>9. ASSUME NEW k \in 1 .. m PROVE b[k] = Up[b[k - 1]]
    <3>1. k \in 0 .. m /\ k - 1 \in 0 .. m /\ k - 1 # m BY <2>3
    <3>2. b[k - 1] = a[k - 1] BY <3>1
    <3>3. CASE k = m BY <3>1, <3>2, <3>3
    <3>4. CASE k # m
      <4>1. k \in 1 .. m - 1 BY <3>4, <2>3
      <4> QED BY <3>1, <3>2, <3>4, <4>1, <2>4
    <3> QED BY <3>3, <3>4
  <2> HIDE DEF b
  <2>10. IsChain(b, n, m) BY <2>7, <2>8, <2>9 DEF IsChain
  <2> QED BY <2>10
<1> QED BY <1>2, <1>3

\* and only one for each number.
LEMMA ChainsAgree ==
  ASSUME NEW n, NEW i \in Nat, NEW m \in Nat, i <= m,
         NEW a, DOMAIN a = 0 .. i, a[0] = n, \A k \in 1 .. i : a[k] = Up[a[k - 1]],
         NEW b, IsChain(b, n, m)
  PROVE  \A k \in 0 .. i : a[k] = b[k]
<1> DEFINE S == {k \in 0 .. i : a[k] # b[k]}
<1> SUFFICES ASSUME S # {} PROVE FALSE OBVIOUS
<1>1. PICK k \in S : \A j \in S : k <= j
  <2>1. S \subseteq Nat OBVIOUS
  <2> HIDE DEF S
  <2> QED BY <2>1, LeastElement
<1>2. b[0] = n /\ \A j \in 1 .. m : b[j] = Up[b[j - 1]] BY DEF IsChain
<1>3. k # 0 BY <1>1, <1>2
<1>4. k \in 1 .. i /\ k \in 1 .. m /\ k - 1 \in 0 .. i /\ ~ (k <= k - 1) BY <1>1, <1>3
<1>5. a[k - 1] = b[k - 1] BY <1>1, <1>4
<1> QED BY <1>1, <1>2, <1>4, <1>5

\* The recursive function of Ancestor is the chain of the parents.
LEMMA AncestorChain ==
  ASSUME parent \in [Nodes -> Nodes \cup {Null}], NEW n \in Nodes \cup {Null},
         NEW m \in Nat, NEW b, IsChain(b, n, m), NEW i \in 0 .. m
  PROVE  Ancestor(n, i) = b[i]
<1> DEFINE a == CHOOSE fn : fn = [k \in 0 .. i |-> IF k = 0 THEN n ELSE Up[fn[k - 1]]]
<1>1. Ancestor(n, i) = a[i] BY DEF Ancestor, Up
<1>2. PICK c : IsChain(c, n, i) BY ChainExists
<1>3. c = [k \in 0 .. i |-> IF k = 0 THEN n ELSE Up[c[k - 1]]]
  <2>1. /\ c \in [0 .. i -> Nodes \cup {Null}] /\ c[0] = n
        /\ \A k \in 1 .. i : c[k] = Up[c[k - 1]]
    BY <1>2 DEF IsChain
  <2>2. \A k \in 0 .. i : k = 0 \/ k \in 1 .. i OBVIOUS
  <2>3. \A k \in 0 .. i : c[k] = IF k = 0 THEN n ELSE Up[c[k - 1]] BY <2>1, <2>2
  <2> QED BY <2>1, <2>3
<1>4. a = [k \in 0 .. i |-> IF k = 0 THEN n ELSE Up[a[k - 1]]] BY <1>3
<1> HIDE DEF a
<1>5. i \in Nat /\ i <= m /\ i \in 0 .. i /\ 0 \in 0 .. i OBVIOUS
<1>6. DOMAIN a = 0 .. i BY <1>4
<1>7. a[0] = n BY <1>4, <1>5
<1>8. \A k \in 1 .. i : a[k] = Up[a[k - 1]]
  <2>1. \A k \in 1 .. i : k \in 0 .. i /\ k # 0 OBVIOUS
  <2> QED BY <1>4, <2>1
<1>9. a[i] = b[i] BY <1>5, <1>6, <1>7, <1>8, ChainsAgree
<1> QED BY <1>1, <1>9

\* Where a chain ends, it has ended.
LEMMA ChainBelow ==
  ASSUME NEW n, NEW m \in Nat, NEW b, IsChain(b, n, m), b[m] # Null
  PROVE  \A k \in 0 .. m : b[k] \in Nodes
<1>1. ASSUME NEW k \in 0 .. m, b[k] = Null PROVE FALSE
  <2> DEFINE S == {j \in 0 .. m : k <= j /\ b[j] # Null}
  <2>1. S \subseteq Nat /\ m \in S BY <1>1
  <2>2. PICK j \in S : \A l \in S : j <= l
    <3> HIDE DEF S
    <3> QED BY <2>1, LeastElement
  <2>3. j # k /\ j \in 1 .. m /\ j - 1 \in 0 .. m /\ k <= j - 1 /\ ~ (j <= j - 1)
    BY <1>1, <2>2
  <2>4. b[j - 1] = Null BY <2>2, <2>3
  <2>5. b[j] = Up[b[j - 1]] BY <2>3 DEF IsChain
  <2>6. Up[Null] = Null BY DEF Up
  <2> QED BY <2>2, <2>4, <2>5, <2>6
<1> QED BY <1>1 DEF IsChain

\* backtrace() adds the places of nodes.
LEMMA BacktraceIsPath ==
  ASSUME ControlOK, StateOK, NEW n \in Used, Depths(n) # {}
  PROVE  Backtrace(n) \in Seq(Nat \X Nat)
<1>0. parent \in [Nodes -> Nodes \cup {Null}] /\ n \in Nodes
  <2>1. Used \subseteq Nodes BY UsedAreNodes DEF ControlOK
  <2> QED BY <2>1 DEF StateOK
<1> DEFINE d == CHOOSE i \in Depths(n) : TRUE
<1>1. d \in Depths(n) OBVIOUS
<1>2. Backtrace(n) = [i \in 1 .. d |-> Place(Ancestor(n, d - i))] BY DEF Backtrace
<1> HIDE DEF d
<1>3. d \in Nat /\ Ancestor(n, d) # Null BY <1>1 DEF Depths
<1>4. PICK b : IsChain(b, n, d) BY <1>0, <1>3, ChainExists
<1>5. \A i \in 0 .. d : Ancestor(n, i) = b[i] BY <1>0, <1>3, <1>4, AncestorChain
<1>6. b[d] # Null BY <1>3, <1>5
<1>7. \A i \in 0 .. d : b[i] \in Nodes BY <1>3, <1>4, <1>6, ChainBelow
<1>8. \A i \in 1 .. d : Place(Ancestor(n, d - i)) \in Nat \X Nat
  <2> TAKE i \in 1 .. d
  <2>1. d - i \in 0 .. d BY <1>3
  <2>2. Ancestor(n, d - i) \in Nat BY <1>5, <1>7, <2>1 DEF Nodes
  <2> QED BY <2>2, PlaceIsPoint DEF StateOK
<1>9. [i \in 1 .. d |-> Place(Ancestor(n, d - i))] \in Seq(Nat \X Nat) BY <1>3, <1>8
<1> QED BY <1>2, <1>9

\* path_ is a list of points.
LEMMA PathKept ==
  ASSUME ControlOK, StateOK, path_ \in Seq(Nat \X Nat), [AnyNext]_vars
  PROVE  path_' \in Seq(Nat \X Nat)
<1>1. CASE ReachEnd
  <2>1. Pop /\ Head(open_list_) = end_node_ /\ Depths(end_node_) # {}
        /\ path_' = Backtrace(end_node_)
    BY <1>1 DEF ReachEnd
  <2>2. end_node_ \in Used BY <2>1, PopTypes
  <2> QED BY <2>1, <2>2, BacktraceIsPath
<1>2. CASE CallOutside \/ AnyCall
  <2>1. path_' = << >> BY <1>2 DEF CallOutside, AnyCall, Call
  <2> QED BY <2>1
<1>3. CASE AnyMap BY <1>3 DEF AnyMap, InitFrom
<1>4. CASE GiveUp \/ CrashAtEnd \/ HangAtEnd \/ Expand \/ Skip \/ JumpForever \/ Relax \/ Expanded
  BY <1>4 DEF GiveUp, CrashAtEnd, HangAtEnd, Expand, Skip, JumpForever, Relax, Expanded
<1>5. CASE UNCHANGED vars BY <1>5 DEF vars
<1> QED BY <1>1, <1>2, <1>3, <1>4, <1>5 DEF AnyNext, Step
-----------------------------------------------------------------------------
(* Crashes *)

\* A node of the list without a parent was given to find_path() as the start, or is
\* cleared since; in the first call it is the start.
Started ==
  \A n \in ToSet(open_list_) : parent[n] = Null =>
    g[n] = 0 /\ (calls < 2 => n = begin_node_)

\* The only ways to Expand a path that is empty.
CrashOK == pc = "crashed" => begin_node_ = end_node_ \/ (calls > 1 /\ g[end_node_] = 0)

\* Both hold in a new finder.
LEMMA StartedAtInit ==
  ASSUME Init
  PROVE  Started /\ CrashOK
<1>1. ToSet(<< >>) = {} BY EmptySeq DEF ToSet
<1> QED BY <1>1 DEF Init, Started, CrashOK

\* Parents are only taken away from the nodes that find_path() clears.
LEMMA StartedKept ==
  ASSUME ControlOK, StateOK, Fresh, Started, [AnyNext]_vars
  PROVE  Started'
<1>0. ControlOK' /\ StateOK' BY TypesKept
<1>1. ToSet(open_list_) \subseteq Used /\ Used \subseteq Nodes
  <2>1. \A i \in DOMAIN open_list_ : open_list_[i] \in Used
    <3>1. open_list_ \in Seq(Used) BY DEF StateOK
    <3>2. DOMAIN open_list_ = 1 .. Len(open_list_) BY <3>1, LenProperties
    <3> QED BY <3>1, <3>2, ElementOfSeq
  <2> QED BY <2>1, UsedAreNodes DEF ToSet, ControlOK
<1> SUFFICES ASSUME NEW n \in ToSet(open_list_'), parent'[n] = Null
             PROVE  g'[n] = 0 /\ (calls' < 2 => n = begin_node_')
  BY DEF Started
<1>2. n \in ToSet(open_list_) /\ parent[n] = Null => g[n] = 0 /\ (calls < 2 => n = begin_node_)
  BY DEF Started
<1>3. CASE AnyMap \/ Quiet
  <2>1. /\ calls' = calls /\ open_list_' = open_list_ /\ parent' = parent /\ g' = g
        /\ begin_node_' = begin_node_
    BY <1>3 DEF AnyMap, InitFrom, Quiet, nodes, scores, goal
  <2> QED BY <1>2, <2>1
<1>4. CASE CallOutside
  <2>1. open_list_' = open_list_ /\ calls' = calls + 1 BY <1>4 DEF CallOutside
  <2>2. calls # 0
    <3>1. ToSet(<< >>) = {} BY EmptySeq DEF ToSet
    <3> QED BY <2>1, <3>1 DEF Fresh
  <2>3. ~ (calls' < 2) BY <2>1, <2>2 DEF ControlOK
  <2>4. CASE UNCHANGED nodes BY <1>2, <2>1, <2>3, <2>4 DEF nodes, scores
  <2>5. CASE ClearFirst
    <3>1. n \in Nodes BY <1>1, <2>1
    <3>2. g' = [g EXCEPT ![Base] = 0] /\ parent' = [parent EXCEPT ![Base] = Null]
      BY <2>5 DEF ClearFirst
    <3> QED BY <1>2, <2>1, <2>3, <3>1, <3>2 DEF StateOK
  <2> QED BY <1>4, <2>4, <2>5 DEF CallOutside
<1>5. CASE AnyCall
  <2>1. PICK s \in Starts, e \in Ends : Call(s, e) BY <1>5 DEF AnyCall
  <2> DEFINE t == NodeOf(s)
  <2>2. inits \in 1 .. MaxInits /\ s \in Cells
    BY <2>1, FinderAssumption DEF Call, ControlOK
  <2>3. t \in Used /\ t \in Nodes BY <2>2, NodeNumbers
  <2>4. /\ calls' = calls + 1 /\ begin_node_' = t /\ open_list_' = Append(open_list_, t)
        /\ g' = [g EXCEPT ![Base] = 0, ![t] = 0]
        /\ parent' = [parent EXCEPT ![Base] = Null]
    BY <2>1 DEF Call
  <2> HIDE DEF t
  <2>5. ToSet(open_list_') = ToSet(open_list_) \cup {t}
    BY <2>3, <2>4, Appended DEF StateOK
  <2>6. n \in Nodes BY <1>1, <2>3, <2>5
  <2>7. CASE n = t
    <3>1. g'[n] = 0 BY <2>4, <2>6, <2>7 DEF StateOK
    <3> QED BY <2>4, <2>7, <3>1
  <2>8. CASE n # t
    <3>1. n \in ToSet(open_list_) BY <2>5, <2>8
    <3>2. calls # 0
      <4>1. ToSet(<< >>) = {} BY EmptySeq DEF ToSet
      <4> QED BY <3>1, <4>1 DEF Fresh
    <3>3. ~ (calls' < 2) BY <2>4, <3>2 DEF ControlOK
    <3>4. g'[n] = 0
      <4>1. CASE n = Base BY <2>4, <2>6, <4>1 DEF StateOK
      <4>2. CASE n # Base
        <5>1. g'[n] = g[n] /\ parent'[n] = parent[n] BY <2>4, <2>6, <2>8, <4>2 DEF StateOK
        <5> QED BY <1>2, <3>1, <5>1
      <4> QED BY <4>1, <4>2
    <3> QED BY <3>3, <3>4
  <2> QED BY <2>7, <2>8
<1>6. CASE Pop
  <2>1. /\ calls' = calls /\ open_list_ # << >> /\ open_list_' = Tail(open_list_)
        /\ parent' = parent /\ g' = g /\ begin_node_' = begin_node_
    BY <1>6 DEF Pop, scores, goal
  <2>2. ToSet(open_list_') \subseteq ToSet(open_list_)
    BY <2>1, FrontTaken DEF StateOK
  <2> QED BY <1>2, <2>1, <2>2
<1>7. CASE Relax
  <2>1. calls' = calls /\ begin_node_' = begin_node_ BY <1>7 DEF Relax, goal
  <2>2. PICK k \in walkable :
          /\ NodeOf(k) \in Used /\ NodeOf(k) \in Nodes
          /\ IF NodeOf(k) \notin opened \/ g[node] + Hop(node, NodeOf(k)) < g[NodeOf(k)]
             THEN Improve(NodeOf(k), g[node] + Hop(node, NodeOf(k))) /\ Open(NodeOf(k))
             ELSE UNCHANGED <<scores, opened, open_list_>>
    BY <1>7, Relaxed
  <2>3. CASE UNCHANGED <<scores, opened, open_list_>> BY <1>2, <2>1, <2>3 DEF scores
  <2>4. CASE Improve(NodeOf(k), g[node] + Hop(node, NodeOf(k))) /\ Open(NodeOf(k))
    <3> DEFINE j == NodeOf(k)
               cost == g[node] + Hop(node, j)
    <3>1. ToSet(open_list_') \subseteq ToSet(open_list_) \cup {j}
      BY <1>0, <1>7, <2>2, <2>4, ListOfRelax
    <3>2. /\ g' = [g EXCEPT ![j] = cost] /\ parent' = [parent EXCEPT ![j] = node]
          /\ j \in Nodes
      BY <2>2, <2>4 DEF Improve
    <3>3. node # Null
      <4>1. node \in Used BY <1>7 DEF Relax, ControlOK
      <4> QED BY <4>1 DEF Used, Null
    <3> HIDE DEF j, cost
    <3>4. n # j BY <3>2, <3>3 DEF StateOK
    <3>5. n \in ToSet(open_list_) /\ n \in Nodes BY <1>1, <3>1, <3>4
    <3>6. parent'[n] = parent[n] /\ g'[n] = g[n] BY <3>2, <3>4, <3>5 DEF StateOK
    <3> QED BY <1>2, <2>1, <3>5, <3>6
  <2> QED BY <2>2, <2>3, <2>4
<1> QED BY <1>3, <1>4, <1>5, <1>6, <1>7, StepClasses

\* backtrace() reads a null pointer for such a node only.
LEMMA CrashKept ==
  ASSUME ControlOK, StateOK, Started, CrashOK, [AnyNext]_vars
  PROVE  CrashOK'
<1>1. CASE CrashAtEnd
  <2>1. /\ Pop /\ Head(open_list_) = end_node_ /\ parent[end_node_] = Null
        /\ calls' = calls /\ calls \in Nat
        /\ open_list_ # << >> /\ g' = g /\ begin_node_' = begin_node_ /\ end_node_' = end_node_
    BY <1>1 DEF CrashAtEnd, Pop, scores, goal, ControlOK
  <2>2. end_node_ \in ToSet(open_list_) BY <2>1, FrontTaken DEF StateOK
  <2>3. g[end_node_] = 0 /\ (calls < 2 => end_node_ = begin_node_) BY <2>1, <2>2 DEF Started
  <2> QED BY <2>1, <2>3 DEF CrashOK
<1>2. CASE AnyMap \/ CallOutside \/ AnyCall \/ (Step /\ ~ CrashAtEnd)
  <2>1. pc' # "crashed"
    BY <1>2 DEF AnyMap, InitFrom, CallOutside, AnyCall, Call, Step, GiveUp, ReachEnd,
                HangAtEnd, Expand, Skip, JumpForever, Relax, Expanded
  <2> QED BY <2>1 DEF CrashOK
<1>3. CASE UNCHANGED vars
  BY <1>3 DEF vars, nodes, scores, goal, CrashOK
<1> QED BY <1>1, <1>2, <1>3 DEF AnyNext

-----------------------------------------------------------------------------
(* Cycles of parents *)

\* The first nodes of the arrays, the ones that find_path() clears.
Firsts == {k * Size : k \in 0 .. MaxInits - 1}

\* A node that others hang from is closed, but for the nodes of F, and every set of
\* nodes that are not of F has one whose parent is outside the set.
NoCycle(F) ==
  /\ \A n \in Nodes : parent[n] # Null => parent[n] \in closed \cup F
  /\ \A Z \in SUBSET (Nodes \ F) : Z # {} => \E n \in Z : parent[n] \notin Z

\* Following parents comes to an end, unless it meets a first node of an array.
Cycles == NoCycle(Firsts) /\ (calls < 2 => NoCycle({}))

\* Nothing hangs from anything in a new finder.
LEMMA CyclesAtInit ==
  ASSUME Init
  PROVE  Cycles
<1>1. \A n \in Nodes : parent[n] = Null /\ n # Null BY DEF Init, Nodes, Null
<1> QED BY <1>1 DEF Cycles, NoCycle

\* Relaxing gives a node a parent only when no other node hangs from it.
LEMMA NoCycleByRelax ==
  ASSUME ControlOK, StateOK, NodeClosed, NEW F, NoCycle(F), Relax
  PROVE  NoCycle(F)'
<1>1. closed' = closed /\ node \in closed BY DEF Relax, NodeClosed
<1>2. PICK k \in walkable :
        /\ NodeOf(k) \in Nodes /\ NodeOf(k) \notin closed
        /\ IF NodeOf(k) \notin opened \/ g[node] + Hop(node, NodeOf(k)) < g[NodeOf(k)]
           THEN Improve(NodeOf(k), g[node] + Hop(node, NodeOf(k))) /\ Open(NodeOf(k))
           ELSE UNCHANGED <<scores, opened, open_list_>>
  BY Relaxed
<1>3. CASE UNCHANGED <<scores, opened, open_list_>>
  <2>1. parent' = parent BY <1>3 DEF scores
  <2> QED BY <1>1, <2>1 DEF NoCycle
<1>4. CASE Improve(NodeOf(k), g[node] + Hop(node, NodeOf(k)))
  <2> DEFINE j == NodeOf(k)
  <2>1. parent' = [parent EXCEPT ![j] = node] /\ j \in Nodes /\ j \notin closed
    BY <1>2, <1>4 DEF Improve
  <2> HIDE DEF j
  <2>2. parent'[j] = node /\ \A n \in Nodes \ {j} : parent'[n] = parent[n]
    BY <2>1 DEF StateOK
  <2>3. \A n \in Nodes : parent'[n] # Null => parent'[n] \in closed' \cup F
    BY <1>1, <2>2 DEF NoCycle
  <2>4. ASSUME NEW Z \in SUBSET (Nodes \ F), Z # {}, \A n \in Z : parent'[n] \in Z
        PROVE  FALSE
    <3> DEFINE Rest == Z \ {j}
    <3>1. j \in Z => node \in Z /\ node # j BY <1>1, <2>1, <2>2, <2>4
    <3>2. Rest # {} BY <2>4, <3>1
    <3>3. \A n \in Rest : parent[n] \in Z /\ parent[n] # j /\ n \in Nodes
      <4> TAKE n \in Rest
      <4>1. n \in Nodes /\ n # j /\ parent[n] \in Z BY <2>2, <2>4
      <4>2. parent[n] \in Nodes \ F BY <4>1
      <4>3. parent[n] \in closed BY <4>1, <4>2 DEF NoCycle, Nodes, Null
      <4> QED BY <2>1, <4>1, <4>3
    <3>4. \A n \in Rest : parent[n] \in Rest BY <3>3
    <3>5. Rest \in SUBSET (Nodes \ F) OBVIOUS
    <3> HIDE DEF Rest
    <3> QED BY <3>2, <3>4, <3>5 DEF NoCycle
  <2> QED BY <2>3, <2>4 DEF NoCycle
<1> QED BY <1>2, <1>3, <1>4

\* The first nodes are the only ones whose flag is taken away.
LEMMA CyclesKept ==
  ASSUME ControlOK, StateOK, Fresh, NodeClosed, Cycles, [AnyNext]_vars
  PROVE  Cycles'
<1>1. CASE AnyMap \/ Pop \/ Quiet
  <2>1. calls' = calls /\ parent' = parent /\ closed \subseteq closed'
    BY <1>1 DEF AnyMap, InitFrom, Pop, Quiet, nodes, scores
  <2>2. \A F : NoCycle(F) => NoCycle(F)' BY <2>1 DEF NoCycle
  <2> QED BY <2>1, <2>2 DEF Cycles
<1>2. CASE CallOutside \/ AnyCall
  <2>1. /\ parent' \in {parent, [parent EXCEPT ![Base] = Null]} /\ calls' = calls + 1
        /\ closed \subseteq closed' \cup {Base}
    BY <1>2 DEF CallOutside, AnyCall, Call, ClearFirst, nodes, scores
  <2>2. Base \in Firsts
    <3>1. CASE inits = 0
      <4>1. Base = 0 * Size /\ 0 \in 0 .. MaxInits - 1
        BY <3>1, SizeIsPositive, FinderAssumption DEF Base
      <4> QED BY <4>1 DEF Firsts
    <3>2. CASE inits # 0
      <4>1. Base = (inits - 1) * Size /\ inits - 1 \in 0 .. MaxInits - 1
        BY <3>2, FinderAssumption DEF Base, ControlOK
      <4> QED BY <4>1 DEF Firsts
    <3> QED BY <3>1, <3>2
  <2>3. \A n \in Nodes : parent'[n] = Null \/ parent'[n] = parent[n]
    BY <2>1 DEF StateOK
  <2>4. \A n \in Nodes : n # Base => parent'[n] = parent[n]
    BY <2>1 DEF StateOK
  <2>5. NoCycle(Firsts)'
    <3>1. NoCycle(Firsts) BY DEF Cycles
    <3>2. \A n \in Nodes : parent'[n] # Null => parent'[n] \in closed' \cup Firsts
      BY <2>1, <2>2, <2>3, <3>1 DEF NoCycle
    <3>3. \A Z \in SUBSET (Nodes \ Firsts) : Z # {} => \E n \in Z : parent'[n] \notin Z
      <4> SUFFICES ASSUME NEW Z \in SUBSET (Nodes \ Firsts), Z # {}
                   PROVE  \E n \in Z : parent'[n] \notin Z
        OBVIOUS
      <4>1. \E n \in Z : parent[n] \notin Z BY <3>1 DEF NoCycle
      <4>2. \A n \in Z : parent'[n] = parent[n] BY <2>2, <2>4
      <4> QED BY <4>1, <4>2
    <3> QED BY <3>2, <3>3 DEF NoCycle, Firsts, Size
  <2>6. ASSUME calls' < 2 PROVE NoCycle({})'
    <3>1. calls = 0 BY <2>1, <2>6 DEF ControlOK
    <3>2. \A n \in Nodes : parent'[n] = Null /\ n # Null
      BY <2>3, <3>1 DEF Fresh, Nodes, Null
    <3> QED BY <3>2 DEF NoCycle
  <2> QED BY <2>5, <2>6 DEF Cycles
<1>3. CASE Relax
  <2>1. calls' = calls BY <1>3 DEF Relax
  <2>2. NoCycle(Firsts)' BY <1>3, NoCycleByRelax DEF Cycles
  <2>3. calls < 2 => NoCycle({})' BY <1>3, NoCycleByRelax DEF Cycles
  <2> QED BY <2>1, <2>2, <2>3 DEF Cycles
<1> QED BY <1>1, <1>2, <1>3, StepClasses

\* When backtrace() finds no node without a parent among the ancestors, some of them
\* hang from each other.
LEMMA EndlessLineage ==
  ASSUME ControlOK, StateOK, NEW n \in Used, Depths(n) = {}
  PROVE  \E Z \in SUBSET Nodes : /\ Z # {} /\ Z \subseteq Lineage(n)
                                 /\ \A m \in Z : parent[m] \in Z
<1> DEFINE N == MaxInits * Size
<1>0. parent \in [Nodes -> Nodes \cup {Null}] /\ n \in Nodes
  <2>1. Used \subseteq Nodes BY UsedAreNodes DEF ControlOK
  <2> QED BY <2>1 DEF StateOK
<1>1. N \in Nat /\ Nodes = 0 .. N - 1
  BY FinderAssumption, SizeIsPositive, ProductIsNat DEF Nodes
<1>2. IsFiniteSet(Nodes) /\ Cardinality(Nodes) = N BY <1>1, FS_Interval
<1>3. Depths(n) = {i \in 0 .. N - 1 : Ancestor(n, i) # Null /\ parent[Ancestor(n, i)] = Null}
  BY DEF Depths
<1> HIDE DEF N
<1>4. PICK b : IsChain(b, n, N) BY <1>0, <1>1, ChainExists
<1>5. \A i \in 0 .. N : Ancestor(n, i) = b[i] BY <1>0, <1>1, <1>4, AncestorChain
<1>6. /\ b \in [0 .. N -> Nodes \cup {Null}] /\ b[0] = n
      /\ \A k \in 1 .. N : b[k] = Up[b[k - 1]]
  BY <1>4 DEF IsChain
<1>7. \A i \in 0 .. N : b[i] # Null
  <2> DEFINE S == {i \in 0 .. N : b[i] = Null}
  <2> SUFFICES ASSUME S # {} PROVE FALSE OBVIOUS
  <2>1. PICK i \in S : \A k \in S : i <= k
    <3>1. S \subseteq Nat OBVIOUS
    <3> HIDE DEF S
    <3> QED BY <3>1, LeastElement
  <2>2. i # 0
    <3>1. n # Null BY <1>0 DEF Nodes, Null
    <3> QED BY <2>1, <3>1, <1>6
  <2>3. i \in 1 .. N /\ i - 1 \in 0 .. N - 1 /\ i - 1 \in 0 .. N /\ ~ (i <= i - 1)
    BY <1>1, <2>1, <2>2
  <2>4. b[i - 1] # Null /\ b[i - 1] \in Nodes BY <1>6, <2>1, <2>3
  <2>5. parent[b[i - 1]] # Null
    <3>1. Ancestor(n, i - 1) = b[i - 1] BY <1>5, <2>3
    <3> QED BY <1>3, <2>3, <2>4, <3>1
  <2>6. b[i] = parent[b[i - 1]] BY <1>6, <2>3, <2>4 DEF Up
  <2> QED BY <2>1, <2>5, <2>6
<1>8. b \in [0 .. N -> Nodes] BY <1>6, <1>7
<1>9. \A i \in 0 .. N - 1 : b[i + 1] = parent[b[i]]
  <2> TAKE i \in 0 .. N - 1
  <2>1. i + 1 \in 1 .. N /\ (i + 1) - 1 = i /\ i \in 0 .. N BY <1>1
  <2>2. b[i + 1] = Up[b[i]] BY <1>6, <2>1
  <2>3. b[i] \in Nodes /\ b[i] # Null BY <1>7, <1>8, <2>1
  <2> QED BY <2>2, <2>3 DEF Up
<1>10. \E x, y \in 0 .. N : x # y /\ b[x] = b[y]
  <2>1. IsFiniteSet(0 .. N) /\ Cardinality(0 .. N) = N + 1 BY <1>1, FS_Interval
  <2>2. Cardinality(Nodes) < Cardinality(0 .. N) BY <1>1, <1>2, <2>1
  <2> DEFINE D == 0 .. N
  <2>3. IsFiniteSet(D) /\ Cardinality(Nodes) < Cardinality(D) /\ b \in [D -> Nodes]
    BY <1>8, <2>1, <2>2
  <2> HIDE DEF D
  <2>4. \E x, y \in D : x # y /\ b[x] = b[y] BY <1>2, <2>3, FS_PigeonHole
  <2> QED BY <2>4 DEF D
<1>11. PICK x \in 0 .. N, y \in 0 .. N : x < y /\ b[x] = b[y] BY <1>1, <1>10
<1> DEFINE Z == {b[i] : i \in 0 .. y - 1}
<1>12. Z \in SUBSET Nodes /\ Z # {}
  <2>1. \A i \in 0 .. y - 1 : i \in 0 .. N BY <1>1, <1>11
  <2>2. 0 \in 0 .. y - 1 BY <1>11
  <2> QED BY <1>8, <2>1, <2>2
<1>13. Z \subseteq Lineage(n)
  <2>1. \A i \in 0 .. y - 1 : i \in 0 .. N - 1 /\ i \in 0 .. N BY <1>1, <1>11
  <2>2. Lineage(n) = {Ancestor(n, i) : i \in 0 .. N - 1} BY <1>2 DEF Lineage
  <2> QED BY <1>5, <2>1, <2>2
<1>14. ASSUME NEW m \in Z PROVE parent[m] \in Z
  <2>1. PICK i \in 0 .. y - 1 : m = b[i] OBVIOUS
  <2>2. i \in 0 .. N - 1 BY <1>1, <1>11, <2>1
  <2>3. parent[m] = b[i + 1] BY <1>9, <2>1, <2>2
  <2>4. CASE i + 1 = y
    <3>1. x \in 0 .. y - 1 BY <1>11
    <3> QED BY <1>11, <2>3, <2>4, <3>1
  <2>5. CASE i + 1 # y
    <3>1. i + 1 \in 0 .. y - 1 BY <1>11, <2>1, <2>5
    <3> QED BY <2>3, <3>1
  <2> QED BY <2>4, <2>5
<1> HIDE DEF Z
<1> QED BY <1>12, <1>13, <1>14

\* A cycle goes through the first node of an array, and takes a second call.
LEMMA CycleHasFirst ==
  ASSUME ControlOK, StateOK, Cycles, NEW n \in Used, Depths(n) = {}
  PROVE  calls > 1 /\ \E k \in 0 .. inits - 1 : k * Size \in Lineage(n)
<1>1. PICK Z \in SUBSET Nodes : /\ Z # {} /\ Z \subseteq Lineage(n)
                                /\ \A m \in Z : parent[m] \in Z
  BY EndlessLineage
<1>2. \A F : NoCycle(F) => \E m \in Z : m \in F
  <2> SUFFICES ASSUME NEW F, NoCycle(F), \A m \in Z : m \notin F PROVE FALSE OBVIOUS
  <2>1. Z \in SUBSET (Nodes \ F) BY <1>1
  <2>2. \E m \in Z : parent[m] \notin Z BY <1>1, <2>1 DEF NoCycle
  <2> QED BY <1>1, <2>2
<1>3. calls > 1
  <2>1. ~ NoCycle({}) BY <1>2
  <2>2. ~ (calls < 2) BY <2>1 DEF Cycles
  <2> QED BY <2>2 DEF ControlOK
<1>4. PICK k \in 0 .. MaxInits - 1 : k * Size \in Z BY <1>2 DEF Cycles, Firsts
<1>5. k * Size \in Used
  <2>1. k * Size \in Nodes /\ parent[k * Size] \in Nodes BY <1>1, <1>4
  <2>2. parent[k * Size] # Null BY <2>1 DEF Nodes, Null
  <2> QED BY <2>1, <2>2 DEF StateOK
<1>6. k \in 0 .. inits - 1
  <2>1. k \in Int /\ k >= 0 /\ inits \in Int BY FinderAssumption, <1>4 DEF ControlOK
  <2>2. k * Size \in Int /\ inits * Size \in Int /\ k * Size < inits * Size
    BY <1>5, <2>1, SizeIsPositive DEF Used
  <2>3. ~ (inits <= k)
    <3> SUFFICES ASSUME inits <= k PROVE FALSE OBVIOUS
    <3>1. CASE inits = k BY <2>2, <3>1
    <3>2. CASE inits < k
      <4>1. inits * Size + Size <= k * Size BY <2>1, <3>2, Multiples, SizeIsPositive
      <4> QED BY <2>2, <4>1, SizeIsPositive
    <3> QED BY <2>1, <3>1, <3>2
  <2> QED BY <2>1, <2>3
<1> QED BY <1>1, <1>3, <1>4, <1>6

-----------------------------------------------------------------------------
(* Jumps that do not move *)

\* A node whose parent is at the same place.
AtParent(n) == parent[n] # Null /\ Place(parent[n]) = Place(n)

\* The indexes that are not the one of the cell at p.
Elsewhere(p) == {c \in Int : c \in Cells => <<X(c), Y(c)>> # p}

\* No neighbour that is left is the cell at the place of the node being expanded.
Moving ==
  pc = "expand" =>
    \/ dims[1] = 1
    \/ AtParent(node)
    \/ \A i \in DOMAIN cells : cells[i] \in Elsewhere(Place(node))

\* In a grid of two columns or more the cells around a place are not the cell at it,
\* also if nobody tests that they are inside.
LEMMA AroundIsElsewhere ==
  ASSUME NEW M, NEW d \in Fitting, d[1] # 1, NEW x \in Nat, NEW y \in Nat,
         NEW a \in Units, NEW b \in Units, a # 0 \/ b # 0
  PROVE  /\ CanWalk(M, x + a, y + b) => GetCell(x + a, y + b) \in Elsewhere(<<x, y>>)
         /\ CellAt(d, x + a, y + b) \in Elsewhere(<<x, y>>)
<1>1. x + a \in Int /\ y + b \in Int /\ (x + a # x \/ y + b # y) BY DEF Units
<1>2. CanWalk(M, x + a, y + b) => GetCell(x + a, y + b) \in Elsewhere(<<x, y>>)
  <2> SUFFICES ASSUME CanWalk(M, x + a, y + b)
               PROVE  GetCell(x + a, y + b) \in Elsewhere(<<x, y>>)
    OBVIOUS
  <2> DEFINE c == GetCell(x + a, y + b)
  <2>1. c \in Cells /\ X(c) = x + a /\ Y(c) = y + b BY <1>1, InsideIsCell DEF CanWalk
  <2>2. c \in Int BY <2>1, SizeIsPositive
  <2> HIDE DEF c
  <2>3. c \in Elsewhere(<<x, y>>) BY <1>1, <2>1, <2>2 DEF Elsewhere
  <2> QED BY <2>3 DEF c
<1>3. CellAt(d, x + a, y + b) \in Elsewhere(<<x, y>>)
  <2> DEFINE c == CellAt(d, x + a, y + b)  w == d[1]
  <2>1. c \in Int BY <1>1, CellAtIsInt
  <2> SUFFICES ASSUME c \in Cells, X(c) = x, Y(c) = y PROVE FALSE
    BY <2>1 DEF Elsewhere
  <2>2. c # Outside BY SizeIsPositive DEF Outside
  <2>3. (y + b) * w + (x + a) = Y(c) * w + X(c) /\ X(c) < w BY <1>1, <2>2, UntestedCell
  <2>4. w \in Nat /\ w # 1 BY GridAssumption DEF Fitting
  <2> HIDE DEF c, w
  <2>5. w >= 2
    <3>1. x < w BY <2>3
    <3> QED BY <2>4, <3>1
  <2>6. (y + b) * w + (x + a) = y * w + x BY <2>3
  <2>7. (y + b) * w = y * w + b * w BY <2>4 DEF Units
  <2>8. y * w \in Nat BY <2>4, ProductIsNat
  <2>9. CASE b = 0
    <3>1. (y + b) * w = y * w BY <2>9
    <3> QED BY <2>6, <2>8, <2>9, <3>1 DEF Units
  <2>10. CASE b = 1
    <3>1. b * w = w BY <2>4, <2>10
    <3> QED BY <2>5, <2>6, <2>7, <2>8, <3>1, <2>4 DEF Units
  <2>11. CASE b = -1
    <3>1. b * w = -w BY <2>4, <2>11
    <3> QED BY <2>5, <2>6, <2>7, <2>8, <3>1, <2>4 DEF Units
  <2> QED BY <2>9, <2>10, <2>11 DEF Units
<1> QED BY <1>2, <1>3

\* No neighbour of a node is the cell at its place, if the direction is not none.
LEMMA NeighborsAreElsewhere ==
  ASSUME ControlOK, StateOK, NEW n \in Used, dims[1] # 1, ~ AtParent(n)
  PROVE  FindNeighbors(n) \in Seq(Elsewhere(Place(n)))
<1> DEFINE S == Elsewhere(Place(n))
<1>1. n \in Nodes /\ n \in Nat
  <2>1. Used \subseteq Nodes BY UsedAreNodes DEF ControlOK
  <2> QED BY <2>1 DEF Used
<1>2. PX(n) \in Nat /\ PY(n) \in Nat /\ Place(n) = <<PX(n), PY(n)>>
  BY <1>1, PlaceIsPoint DEF StateOK
<1>3. \A a, b \in Units : (a # 0 \/ b # 0) =>
         /\ CanWalk(walkable, PX(n) + a, PY(n) + b) => GetCell(PX(n) + a, PY(n) + b) \in S
         /\ CellAt(dims, PX(n) + a, PY(n) + b) \in S
  BY <1>2, AroundIsElsewhere DEF StateOK
<1> HIDE DEF S
<1>4. CASE parent[n] = Null
  <2>1. GetNeighbors(walkable, PX(n), PY(n)) \in Seq(S) BY <1>2, <1>3, NeighborsAreTested
  <2> QED BY <1>4, <2>1 DEF FindNeighbors, S
<1>5. CASE parent[n] # Null
  <2> DEFINE dx == Sign(PX(n) - PX(parent[n]))
             dy == Sign(PY(n) - PY(parent[n]))
  <2>1. parent[n] \in Nat BY <1>1, <1>5 DEF StateOK, Used
  <2>2. /\ PX(parent[n]) \in Nat /\ PY(parent[n]) \in Nat
        /\ Place(parent[n]) = <<PX(parent[n]), PY(parent[n])>>
    BY <2>1, PlaceIsPoint DEF StateOK
  <2>3. PX(n) - PX(parent[n]) \in Int /\ PY(n) - PY(parent[n]) \in Int BY <1>2, <2>2
  <2>4. dx \in Units /\ dy \in Units BY <2>3, SignIsUnit
  <2>5. dx # 0 \/ dy # 0
    <3> SUFFICES ASSUME dx = 0, dy = 0 PROVE FALSE OBVIOUS
    <3>1. PX(n) - PX(parent[n]) = 0 /\ PY(n) - PY(parent[n]) = 0 BY <2>3, SignIsUnit
    <3>2. PX(n) = PX(parent[n]) /\ PY(n) = PY(parent[n]) BY <1>2, <2>2, <3>1
    <3> QED BY <1>2, <1>5, <2>2, <3>2 DEF AtParent
  <2> HIDE DEF dx, dy
  <2>6. PrunedNeighbors(walkable, dims, PX(n), PY(n), dx, dy) \in Seq(S)
    BY <1>2, <1>3, <2>4, <2>5, PrunedAreNear
  <2> QED BY <1>5, <2>6 DEF FindNeighbors, dx, dy, S
<1> QED BY <1>4, <1>5

\* The node being expanded keeps its parent: it is closed.
LEMMA ParentStays ==
  ASSUME ControlOK, StateOK, NodeClosed, Skip \/ Relax
  PROVE  parent'[node] = parent[node]
<1>1. CASE Skip BY <1>1 DEF Skip, nodes, scores
<1>2. CASE Relax
  <2>1. PICK i \in walkable :
          /\ NodeOf(i) \notin closed
          /\ IF NodeOf(i) \notin opened \/ g[node] + Hop(node, NodeOf(i)) < g[NodeOf(i)]
             THEN Improve(NodeOf(i), g[node] + Hop(node, NodeOf(i))) /\ Open(NodeOf(i))
             ELSE UNCHANGED <<scores, opened, open_list_>>
    BY <1>2, Relaxed
  <2>2. node \in closed /\ node # NodeOf(i) BY <1>2, <2>1 DEF Relax, NodeClosed
  <2>3. node \in Nodes
    <3>1. Used \subseteq Nodes BY UsedAreNodes DEF ControlOK
    <3> QED BY <2>2, <3>1 DEF StateOK
  <2> QED BY <2>1, <2>2, <2>3 DEF Improve, scores, StateOK
<1> QED BY <1>1, <1>2

\* The neighbours that are left are some of those there were.
LEMMA CellsLeft ==
  ASSUME cells \in Seq(Int), cells # << >>, cells' = Tail(cells)
  PROVE  /\ Head(cells) = cells[1] /\ 1 \in DOMAIN cells
         /\ \A i \in DOMAIN cells' : i + 1 \in DOMAIN cells /\ cells'[i] = cells[i + 1]
<1>1. Len(cells) \in Nat /\ DOMAIN cells = 1 .. Len(cells) /\ Len(cells) # 0
  BY LenProperties, EmptySeq
<1>2. /\ cells' \in Seq(Int) /\ Len(cells') = Len(cells) - 1
      /\ \A i \in 1 .. Len(cells') : cells'[i] = cells[i + 1]
  BY HeadTailProperties
<1>3. DOMAIN cells' = 1 .. Len(cells') BY <1>2, LenProperties
<1>4. Head(cells) = cells[1] BY HeadTailProperties
<1> QED BY <1>1, <1>2, <1>3, <1>4

\* The neighbours are those of the node that is expanded, until it is done.
LEMMA MovingKept ==
  ASSUME ControlOK, StateOK, NodeClosed, Moving, [AnyNext]_vars
  PROVE  Moving'
<1>1. CASE Expand
  <2>1. /\ Pop /\ node' = Head(open_list_) /\ cells' = FindNeighbors(node') /\ parent' = parent
    BY <1>1 DEF Expand, Pop, scores
  <2>2. node' \in Used /\ UNCHANGED grid /\ dims' = dims BY <2>1, PopTypes, GridStays
  <2>3. PICK n \in Used : n = node' BY <2>2
  <2>4. \A m : Place(m)' = Place(m) BY <2>2, PlacesStayPut
  <2>5. Place(node)' = Place(n)
    <3>1. displaced' = displaced BY <2>2, GridStays
    <3> QED BY <2>3, <3>1 DEF Place
  <2>6. AtParent(node)' <=> AtParent(n)
    <3>1. displaced' = displaced BY <2>2, GridStays
    <3> QED BY <2>1, <2>3, <3>1 DEF AtParent, Place
  <2>7. CASE dims[1] # 1 /\ ~ AtParent(n)
    <3>1. cells' \in Seq(Elsewhere(Place(n))) BY <2>1, <2>3, <2>7, NeighborsAreElsewhere
    <3> DEFINE S == Elsewhere(Place(n))
    <3> HIDE DEF S
    <3>2. \A i \in DOMAIN cells' : cells'[i] \in S
      <4>1. cells' \in Seq(S) BY <3>1 DEF S
      <4> QED BY <4>1, LenProperties, ElementOfSeq
    <3>3. Elsewhere(Place(node))' = S BY <2>5 DEF Elsewhere, S
    <3> QED BY <3>2, <3>3 DEF Moving
  <2> QED BY <2>2, <2>6, <2>7 DEF Moving
<1>2. CASE Skip \/ Relax
  <2>1. /\ pc = "expand" /\ node' = node /\ cells # << >> /\ cells' = Tail(cells)
        /\ UNCHANGED grid
    BY <1>2 DEF Skip, Relax
  <2>2. Place(node)' = Place(node)
    <3>1. displaced' = displaced BY <2>1, GridStays
    <3> QED BY <2>1, <3>1 DEF Place
  <2>3. parent'[node] = parent[node] BY <1>2, ParentStays
  <2>4. AtParent(node)' <=> AtParent(node)
    <3>1. displaced' = displaced BY <2>1, GridStays
    <3> QED BY <2>1, <2>3, <3>1 DEF AtParent, Place
  <2>5. ASSUME NEW S, \A i \in DOMAIN cells : cells[i] \in S
        PROVE  \A i \in DOMAIN cells' : cells'[i] \in S
    <3>1. cells \in Seq(Int) BY DEF StateOK
    <3>2. \A i \in DOMAIN cells' : i + 1 \in DOMAIN cells /\ cells'[i] = cells[i + 1]
      BY <2>1, <3>1, CellsLeft
    <3> QED BY <2>5, <3>2
  <2>6. Elsewhere(Place(node))' = Elsewhere(Place(node)) BY <2>2 DEF Elsewhere
  <2>7. dims' = dims BY <2>1, GridStays
  <2> QED BY <2>1, <2>4, <2>5, <2>6, <2>7 DEF Moving
<1>3. CASE \/ AnyMap \/ CallOutside \/ AnyCall \/ GiveUp \/ ReachEnd \/ CrashAtEnd \/ HangAtEnd
           \/ JumpForever \/ Expanded
  <2>1. pc' # "expand"
    BY <1>3 DEF AnyMap, InitFrom, CallOutside, AnyCall, Call, GiveUp, ReachEnd, CrashAtEnd,
                HangAtEnd, JumpForever, Expanded
  <2> QED BY <2>1 DEF Moving
<1>4. CASE UNCHANGED vars
  <2>1. /\ pc' = pc /\ node' = node /\ cells' = cells /\ parent' = parent
        /\ displaced' = displaced /\ dims' = dims
    BY <1>4 DEF vars, locals, nodes, scores, grid
  <2> QED BY <2>1 DEF Moving, AtParent, Place, Elsewhere
<1> QED BY <1>1, <1>2, <1>3, <1>4 DEF AnyNext, Step

\* The causes that StopsHaveACause names for a call that hangs.
HungOK ==
  pc = "hung" =>
     \/ /\ cells # << >>
        /\ \/ Head(cells) \notin Cells \/ dims[1] = 1
           \/ NodeOf(Head(cells)) \in DOMAIN displaced
           \/ AtParent(node)
     \/ calls > 1 /\ \E k \in 0 .. inits - 1 : k * Size \in Lineage(end_node_)

\* Both hold in a new finder.
LEMMA MovingAtInit ==
  ASSUME Init
  PROVE  Moving /\ HungOK
BY DEF Init, Moving, HungOK

\* A jump from a place to another one ends.
LEMMA JumpThatMoves ==
  ASSUME ControlOK, StateOK, Moving, JumpForever
  PROVE  \/ Head(cells) \notin Cells \/ dims[1] = 1
         \/ NodeOf(Head(cells)) \in DOMAIN displaced
         \/ AtParent(node)
<1> DEFINE c == Head(cells)
<1> SUFFICES ASSUME c \in Cells, dims[1] # 1, NodeOf(c) \notin DOMAIN displaced, ~ AtParent(node)
             PROVE  FALSE
  OBVIOUS
<1>1. pc = "expand" /\ cells # << >> /\ Endless \in Jumps(c) BY DEF JumpForever
<1>2. inits \in 1 .. MaxInits /\ node \in Used BY <1>1, FinderAssumption DEF ControlOK
<1>3. c \in Elsewhere(Place(node))
  <2>1. \A i \in DOMAIN cells : cells[i] \in Elsewhere(Place(node)) BY <1>1 DEF Moving
  <2>2. cells \in Seq(Int) BY DEF StateOK
  <2>3. Len(cells) \in Nat /\ DOMAIN cells = 1 .. Len(cells) /\ Len(cells) # 0
    BY <1>1, <2>2, LenProperties, EmptySeq
  <2>4. c = cells[1] BY <1>1, <2>2, HeadTailProperties
  <2> QED BY <2>1, <2>3, <2>4
<1>4. NodeOf(c) \in Nat /\ CellOf(NodeOf(c)) = c BY <1>2, NodeNumbers
<1>5. Place(NodeOf(c)) = <<X(c), Y(c)>> BY <1>4 DEF Place
<1>6. PX(node) \in Nat /\ PY(node) \in Nat /\ Place(node) = <<PX(node), PY(node)>>
  <2>1. node \in Nat BY <1>2 DEF Used
  <2> QED BY <2>1, PlaceIsPoint DEF StateOK
<1>7. X(c) \in Int /\ Y(c) \in Int
  <2>1. c \in Nat BY SizeIsPositive
  <2>2. X(c) \in 0 .. Width - 1 /\ Y(c) \in Nat BY <2>1, Coordinates
  <2> QED BY <2>2
<1>8. X(c) # PX(node) \/ Y(c) # PY(node) BY <1>3, <1>6 DEF Elsewhere
<1>9. Jumps(c) = {JumpFrom(<<X(c), Y(c)>>)} BY <1>5 DEF Jumps, DataOf
<1>10. JumpFrom(<<X(c), Y(c)>>) # Endless
  <2> DEFINE dx == X(c) - PX(node)
             dy == Y(c) - PY(node)
  <2>1. dx \in Int /\ dy \in Int /\ (dx # 0 \/ dy # 0) BY <1>6, <1>7, <1>8
  <2>2. JumpFrom(<<X(c), Y(c)>>) = Jump(walkable, CellOf(end_node_), X(c), Y(c), dx, dy)
    BY DEF JumpFrom
  <2> HIDE DEF dx, dy
  <2> QED BY <1>7, <2>1, <2>2, JumpReturns
<1> QED BY <1>1, <1>9, <1>10

\* A call hangs over a jump or over the parents.
LEMMA HungKept ==
  ASSUME ControlOK, StateOK, Cycles, Moving, HungOK, [AnyNext]_vars
  PROVE  HungOK'
<1>1. CASE HangAtEnd
  <2>1. /\ Pop /\ Depths(end_node_) = {} /\ Head(open_list_) = end_node_
    BY <1>1 DEF HangAtEnd
  <2>2. end_node_ \in Used BY <2>1, PopTypes
  <2>3. calls > 1 /\ \E k \in 0 .. inits - 1 : k * Size \in Lineage(end_node_)
    BY <2>1, <2>2, CycleHasFirst
  <2>4. calls' = calls /\ inits' = inits /\ parent' = parent /\ end_node_' = end_node_
    BY <2>1, PopTypes, GridStays
  <2>5. Lineage(end_node_)' = Lineage(end_node_) BY <2>4 DEF Lineage, Ancestor
  <2> QED BY <2>3, <2>4, <2>5 DEF HungOK
<1>2. CASE JumpForever
  <2>1. /\ Head(cells) \notin Cells \/ dims[1] = 1
           \/ NodeOf(Head(cells)) \in DOMAIN displaced \/ AtParent(node)
        /\ cells # << >>
    BY <1>2, JumpThatMoves DEF JumpForever
  <2>2. /\ cells' = cells /\ node' = node /\ parent' = parent /\ UNCHANGED grid
    BY <1>2 DEF JumpForever, nodes, scores, locals
  <2>3. displaced' = displaced /\ Base' = Base /\ dims' = dims BY <2>2, GridStays
  <2>4. NodeOf(Head(cells))' = NodeOf(Head(cells)) BY <2>2, <2>3 DEF NodeOf
  <2>5. AtParent(node)' <=> AtParent(node) BY <2>2, <2>3 DEF AtParent, Place
  <2> QED BY <2>1, <2>2, <2>3, <2>4, <2>5 DEF HungOK
<1>3. CASE \/ AnyMap \/ CallOutside \/ AnyCall \/ GiveUp \/ ReachEnd \/ CrashAtEnd \/ Expand
           \/ Skip \/ Relax \/ Expanded
  <2>1. pc' # "hung"
    BY <1>3 DEF AnyMap, InitFrom, CallOutside, AnyCall, Call, GiveUp, ReachEnd, CrashAtEnd,
                Expand, Skip, Relax, Expanded
  <2> QED BY <2>1 DEF HungOK
<1>4. CASE UNCHANGED vars
  <2>1. /\ pc' = pc /\ node' = node /\ cells' = cells /\ parent' = parent /\ calls' = calls
        /\ end_node_' = end_node_ /\ UNCHANGED grid
    BY <1>4 DEF vars, locals, nodes, scores, goal
  <2>2. displaced' = displaced /\ Base' = Base /\ inits' = inits /\ dims' = dims
    BY <2>1, GridStays
  <2>3. NodeOf(Head(cells))' = NodeOf(Head(cells)) BY <2>1, <2>2 DEF NodeOf
  <2>4. AtParent(node)' <=> AtParent(node) BY <2>1, <2>2 DEF AtParent, Place
  <2>5. Lineage(end_node_)' = Lineage(end_node_) BY <2>1 DEF Lineage, Ancestor
  <2> QED BY <2>1, <2>2, <2>3, <2>4, <2>5 DEF HungOK
<1> QED BY <1>1, <1>2, <1>3, <1>4 DEF AnyNext, Step

-----------------------------------------------------------------------------
(* The inductive invariant *)

\* ControlOK and StateOK are the types, with what is known of the nodes that are
\* allocated.  The others are the properties, each with what makes it inductive.
IInv ==
  /\ ControlOK /\ StateOK /\ path_ \in Seq(Nat \X Nat)
  /\ OnlyWalkableEntered
  /\ Fresh /\ NodeClosed
  /\ AddUp
  /\ OpenListIsFrontier
  /\ Started /\ CrashOK
  /\ Cycles /\ Moving /\ HungOK

\* A new finder satisfies the invariant.
LEMMA InvariantAtInit ==
  ASSUME Init
  PROVE  IInv
<1>1. ControlOK /\ StateOK BY InitTypes
<1>2. path_ \in Seq(Nat \X Nat) BY DEF Init
<1>3. OnlyWalkableEntered BY EnteredAtInit
<1>4. Fresh /\ NodeClosed BY FreshAtInit
<1>5. AddUp
  <2>1. \A n \in Nodes : parent[n] = Null BY DEF Init
  <2>2. Null \notin Nodes BY DEF Null, Nodes
  <2> QED BY <2>1, <2>2 DEF AddUp
<1>6. OpenListIsFrontier
  <2>1. open_list_ = << >> /\ opened = {} /\ closed = {} BY DEF Init
  <2>2. DOMAIN << >> = {} BY EmptySeq
  <2> QED BY <2>1, <2>2 DEF OpenListIsFrontier, IsInjective, ToSet
<1>7. Started /\ CrashOK BY StartedAtInit
<1>8. Cycles BY CyclesAtInit
<1>9. Moving /\ HungOK BY MovingAtInit
<1> QED BY <1>1, <1>2, <1>3, <1>4, <1>5, <1>6, <1>7, <1>8, <1>9 DEF IInv

\* Every step keeps it, whatever map and places init() is given.
LEMMA InvariantKept ==
  ASSUME IInv, [AnyNext]_vars
  PROVE  IInv'
<1> USE DEF IInv
<1>1. ControlOK' /\ StateOK' BY TypesKept
<1>2. path_' \in Seq(Nat \X Nat) BY PathKept
<1>3. OnlyWalkableEntered'
  <2>1. CASE AnyMap
    <3>1. PICK d \in Sizes, M \in SUBSET Cells, places \in Placings :
          M \subseteq Area(d) /\ InitFrom(M, places, d)
    BY <2>1 DEF AnyMap
    <3> QED BY <2>1, <3>1, EnteredByMap DEF AnyMap, CanInit
  <2>2. CASE CallOutside \/ AnyCall \/ Pop \/ Relax \/ Quiet BY <2>2, EnteredByStep
  <2> QED BY <2>1, <2>2, StepClasses
<1>4. Fresh' /\ NodeClosed' BY FreshKept
<1>5. AddUp' BY CostsKept
<1>6. OpenListIsFrontier' BY FrontierKept
<1>7. Started' /\ CrashOK' BY StartedKept, CrashKept
<1>8. Cycles' BY CyclesKept
<1>9. Moving' /\ HungOK' BY MovingKept, HungKept
<1> QED BY <1>1, <1>2, <1>3, <1>4, <1>5, <1>6, <1>7, <1>8, <1>9

\* A step of the specification is one of them.
LEMMA NextKeepsInvariant ==
  ASSUME IInv, [Next]_vars
  PROVE  IInv'
BY InvariantKept, NextIsAnyNext

\* The types follow from it.
LEMMA InvariantHasTypes ==
  ASSUME IInv
  PROVE  TypeOK
<1>1. ControlOK /\ StateOK /\ path_ \in Seq(Nat \X Nat) BY DEF IInv
<1>2. Used \subseteq Nodes BY <1>1, UsedAreNodes DEF ControlOK
<1>3. open_list_ \in Seq(Nodes) BY <1>1, <1>2, WidenedSeq DEF StateOK
<1>4. parent \in [Nodes -> Nodes \cup {Null}] BY <1>1, <1>2 DEF StateOK
<1> QED BY <1>1, <1>2, <1>3, <1>4 DEF ControlOK, StateOK, PlacesOK, Fitting, TypeOK

\* It implies what StopsHaveACause says of a crash and of a call that hangs.
LEMMA InvariantNamesCauses ==
  ASSUME IInv
  PROVE  StopsHaveACause
BY DEF IInv, CrashOK, HungOK, AtParent, StopsHaveACause

\* The invariant holds in every state of the finder.
THEOREM InductiveInvariant == Spec => []IInv
<1>1. Init => IInv BY InvariantAtInit
<1>2. IInv /\ [Next]_vars => IInv' BY NextKeepsInvariant
<1> QED BY <1>1, <1>2, PTL DEF Spec

\* The node numbers that the members of the finder and of the nodes hold, the costs
\* and the types of everything else stay in their ranges.
THEOREM TypeCorrect == Spec => []TypeOK
<1>1. IInv => TypeOK BY InvariantHasTypes
<1> QED BY <1>1, InductiveInvariant, PTL

\* The searches, on whatever maps and after whatever calls, enter walkable cells only.
THEOREM WalkableCellsAreEntered == Spec => []OnlyWalkableEntered
<1>1. IInv => OnlyWalkableEntered BY DEF IInv
<1> QED BY <1>1, InductiveInvariant, PTL

\* In the first call no node is improved that others hang from: the costs add up
\* along the parents.
THEOREM FirstCallAddsUp == Spec => []CostsAddUp
<1>1. IInv => CostsAddUp BY AddUpIsCostsAddUp DEF IInv
<1> QED BY <1>1, InductiveInvariant, PTL

\* In the first call the list is the frontier: list::sort, the flags and the removal
\* at the front keep each open node in it once.
THEOREM FirstCallKeepsFrontier == Spec => []OpenListIsFrontier
<1>1. IInv => OpenListIsFrontier BY DEF IInv
<1> QED BY <1>1, InductiveInvariant, PTL

\* Every null pointer read and every endless loop of find_path() has one of the
\* causes of StopsHaveACause.
THEOREM NoOtherWayToStop == Spec => []StopsHaveACause
<1>1. IInv => StopsHaveACause BY InvariantNamesCauses
<1> QED BY <1>1, InductiveInvariant, PTL

-----------------------------------------------------------------------------
(* The hops between the nodes of a map whose cells have their places *)

\* The cell at the place p, and those around it.
Beside(p) ==
  {c \in Cells : \E a, b \in Units : X(c) = p[1] + a /\ Y(c) = p[2] + b}

\* What a line of k + 1 steps in the direction a adds to a coordinate.
LEMMA UnitSteps ==
  ASSUME NEW x \in Int, NEW a \in Units, NEW k \in Nat, NEW q, q = (x + a) + k * a
  PROVE  /\ q \in Int /\ Sign(q - x) = a /\ (q = x <=> a = 0)
         /\ Abs(q - x) = (IF a = 0 THEN 0 ELSE k + 1)
         /\ Abs(x - q) = (IF a = 0 THEN 0 ELSE k + 1)
         /\ \A i \in 1 .. k + 1 : x + i * a = (x + a) + (i - 1) * a
<1>1. CASE a = 0
  <2>1. \A i \in Int : i * a = 0 BY <1>1
  <2>2. q = x BY <1>1, <2>1
  <2>3. \A i \in 1 .. k + 1 : i * a = 0 /\ (i - 1) * a = 0 BY <2>1
  <2> QED BY <1>1, <2>2, <2>3 DEF Sign, Abs
<1>2. CASE a = 1
  <2>1. \A i \in Int : i * a = i BY <1>2
  <2>2. q = x + 1 + k BY <1>2, <2>1
  <2>3. \A i \in 1 .. k + 1 : i * a = i /\ (i - 1) * a = i - 1 BY <2>1
  <2> QED BY <1>2, <2>2, <2>3 DEF Sign, Abs
<1>3. CASE a = -1
  <2>1. \A i \in Int : i * a = -i BY <1>3
  <2>2. q = x - 1 - k BY <1>3, <2>1
  <2>3. \A i \in 1 .. k + 1 : i * a = -i /\ (i - 1) * a = -(i - 1) BY <2>1
  <2> QED BY <1>3, <2>2, <2>3 DEF Sign, Abs
<1> QED BY <1>1, <1>2, <1>3 DEF Units

\* A line of walkable places in one direction is a hop.
LEMMA LineIsHop ==
  ASSUME NEW x \in Int, NEW y \in Int, NEW a \in Units, NEW b \in Units, a # 0 \/ b # 0,
         NEW k \in Nat,
         \A i \in 0 .. k : CanWalk(walkable, (x + a) + i * a, (y + b) + i * b)
  PROVE  IsHop(<<x, y>>, <<(x + a) + k * a, (y + b) + k * b>>)
<1> DEFINE u == (x + a) + k * a
           v == (y + b) + k * b
<1>1. /\ u \in Int /\ Sign(u - x) = a /\ (u = x <=> a = 0)
      /\ Abs(u - x) = (IF a = 0 THEN 0 ELSE k + 1)
      /\ Abs(x - u) = (IF a = 0 THEN 0 ELSE k + 1)
      /\ \A i \in 1 .. k + 1 : x + i * a = (x + a) + (i - 1) * a
  BY UnitSteps
<1>2. /\ v \in Int /\ Sign(v - y) = b /\ (v = y <=> b = 0)
      /\ Abs(v - y) = (IF b = 0 THEN 0 ELSE k + 1)
      /\ Abs(y - v) = (IF b = 0 THEN 0 ELSE k + 1)
      /\ \A i \in 1 .. k + 1 : y + i * b = (y + b) + (i - 1) * b
  BY UnitSteps
<1> HIDE DEF u, v
<1>3. Straight(<<x, y>>, <<u, v>>) BY <1>1, <1>2 DEF Straight
<1>4. Larger(Abs(u - x), Abs(v - y)) = k + 1 BY <1>1, <1>2 DEF Larger
<1>5. ASSUME NEW i \in 1 .. k + 1
      PROVE  GetCell(x + i * a, y + i * b) \in walkable
  <2>1. i - 1 \in 0 .. k OBVIOUS
  <2>2. CanWalk(walkable, (x + a) + (i - 1) * a, (y + b) + (i - 1) * b) BY <2>1
  <2>3. x + i * a = (x + a) + (i - 1) * a /\ y + i * b = (y + b) + (i - 1) * b
    BY <1>1, <1>2
  <2>4. CanWalk(walkable, x + i * a, y + i * b) BY <2>2, <2>3, Zenon
  <2> QED BY <2>4 DEF CanWalk
<1>6. Line(<<x, y>>, <<u, v>>) = {GetCell(x + i * a, y + i * b) : i \in 1 .. k + 1}
  BY <1>1, <1>2, <1>4 DEF Line
<1>7. Line(<<x, y>>, <<u, v>>) \subseteq walkable BY <1>5, <1>6
<1> QED BY <1>3, <1>7 DEF IsHop, u, v

\* The cells around an inner cell are inside the grid, tested or not.
LEMMA BesideInner ==
  ASSUME dims \in Fitting, NEW c \in Inner, NEW a \in Units, NEW b \in Units
  PROVE  /\ IsInside(X(c) + a, Y(c) + b)
         /\ CellAt(dims, X(c) + a, Y(c) + b) = GetCell(X(c) + a, Y(c) + b)
<1>1. X(c) \in 1 .. dims[1] - 2 /\ Y(c) \in 1 .. dims[2] - 2 BY DEF Inner, InnerOf
<1>2. dims[1] \in 0 .. Width /\ dims[2] \in 0 .. Height BY DEF Fitting
<1>3. X(c) + a \in 0 .. dims[1] - 1 /\ Y(c) + b \in 0 .. dims[2] - 1
  BY <1>1, <1>2, GridAssumption DEF Units
<1>4. CellAt(dims, X(c) + a, Y(c) + b) = GetCell(X(c) + a, Y(c) + b) BY <1>3, TestedCell
<1>5. IsInside(X(c) + a, Y(c) + b) BY <1>2, <1>3, GridAssumption DEF IsInside
<1> QED BY <1>4, <1>5

\* The cells inside stay when the grid does.
LEMMA InnerStays ==
  ASSUME UNCHANGED grid
  PROVE  Inner' = Inner
<1>1. dims' = dims BY GridStays
<1> QED BY <1>1 DEF Inner, InnerOf

\* Without displaced cells a node is at its cell.
LEMMA OwnPlace ==
  ASSUME PlacesOK, DOMAIN displaced = {}, NEW n \in Nat
  PROVE  /\ PX(n) = X(CellOf(n)) /\ PY(n) = Y(CellOf(n)) /\ Place(n) = <<PX(n), PY(n)>>
         /\ PX(n) \in Nat /\ PY(n) \in Nat /\ CellOf(n) \in Cells
BY PlaceIsPoint, CellNumbers

\* The cells of two nodes are the same if their places are.
LEMMA SamePlaceSameCell ==
  ASSUME PlacesOK, DOMAIN displaced = {}, NEW n \in Nat, NEW m \in Nat
  PROVE  CellOf(n) = CellOf(m) <=> Place(n) = Place(m)
<1>1. CellOf(n) \in Nat /\ CellOf(m) \in Nat
  <2>1. CellOf(n) \in Cells /\ CellOf(m) \in Cells BY CellNumbers
  <2> QED BY <2>1, SizeIsPositive
<1>2. /\ GetCell(X(CellOf(n)), Y(CellOf(n))) = CellOf(n)
      /\ GetCell(X(CellOf(m)), Y(CellOf(m))) = CellOf(m)
  BY <1>1, Coordinates
<1>3. /\ Place(n) = <<X(CellOf(n)), Y(CellOf(n))>>
      /\ Place(m) = <<X(CellOf(m)), Y(CellOf(m))>>
  BY OwnPlace
<1>4. ASSUME Place(n) = Place(m) PROVE CellOf(n) = CellOf(m)
  <2>1. X(CellOf(n)) = X(CellOf(m)) /\ Y(CellOf(n)) = Y(CellOf(m)) BY <1>3, <1>4
  <2> QED BY <1>2, <2>1
<1> QED BY <1>3, <1>4

\* The neighbours of a node without a parent, or of a cell inside, are around it.
Facing ==
  cells # << >> /\ (parent[node] = Null \/ CellOf(node) \in Inner) =>
    \A i \in DOMAIN cells : cells[i] \in Beside(Place(node))

\* The neighbours of a node that is inside, or was not jumped to, are around it.
LEMMA NeighborsAreBeside ==
  ASSUME ControlOK, StateOK, DOMAIN displaced = {}, NEW n \in Used,
         parent[n] = Null \/ CellOf(n) \in Inner
  PROVE  FindNeighbors(n) \in Seq(Beside(Place(n)))
<1>1. n \in Nodes /\ n \in Nat
  <2>1. Used \subseteq Nodes BY UsedAreNodes DEF ControlOK
  <2> QED BY <2>1 DEF Used
<1>2. /\ PX(n) = X(CellOf(n)) /\ PY(n) = Y(CellOf(n)) /\ Place(n) = <<PX(n), PY(n)>>
      /\ PX(n) \in Nat /\ PY(n) \in Nat
  BY <1>1, OwnPlace DEF StateOK
<1> DEFINE S == Beside(Place(n))
<1>3. ASSUME NEW a \in Units, NEW b \in Units, IsInside(PX(n) + a, PY(n) + b)
      PROVE  GetCell(PX(n) + a, PY(n) + b) \in S
  <2> DEFINE c == GetCell(PX(n) + a, PY(n) + b)
  <2>1. c \in Cells /\ X(c) = PX(n) + a /\ Y(c) = PY(n) + b BY <1>3, InsideIsCell
  <2> HIDE DEF c
  <2>2. c \in Beside(<<PX(n), PY(n)>>) BY <1>3, <2>1 DEF Beside
  <2> QED BY <1>2, <2>2 DEF c
<1> HIDE DEF S
<1>4. CASE parent[n] = Null
  <2>1. \A a, b \in Units : /\ a # 0 \/ b # 0
                            /\ CanWalk(walkable, PX(n) + a, PY(n) + b)
                            => GetCell(PX(n) + a, PY(n) + b) \in S
    BY <1>3 DEF CanWalk
  <2>2. GetNeighbors(walkable, PX(n), PY(n)) \in Seq(S) BY <1>2, <2>1, NeighborsAreTested
  <2> QED BY <1>4, <2>2 DEF FindNeighbors, S
<1>5. CASE parent[n] # Null /\ CellOf(n) \in Inner
  <2> DEFINE dx == Sign(PX(n) - PX(parent[n]))
             dy == Sign(PY(n) - PY(parent[n]))
  <2>1. parent[n] \in Nat BY <1>1, <1>5 DEF StateOK, Used
  <2>2. /\ PX(parent[n]) \in Nat /\ PY(parent[n]) \in Nat
        /\ Place(parent[n]) = <<PX(parent[n]), PY(parent[n])>>
    BY <2>1, OwnPlace DEF StateOK
  <2>3. PX(n) - PX(parent[n]) \in Int /\ PY(n) - PY(parent[n]) \in Int BY <1>2, <2>2
  <2>4. dx \in Units /\ dy \in Units BY <2>3, SignIsUnit
  <2> HIDE DEF dx, dy
  <2>6. \A a, b \in Units : /\ GetCell(PX(n) + a, PY(n) + b) \in S
                            /\ CellAt(dims, PX(n) + a, PY(n) + b) \in S
    BY <1>2, <1>3, <1>5, BesideInner DEF StateOK
  <2>7. PrunedNeighbors(walkable, dims, PX(n), PY(n), dx, dy) \in Seq(S)
    BY <1>2, <2>4, <2>6, PrunedAreNear
  <2> QED BY <1>5, <2>7 DEF FindNeighbors, dx, dy, S
<1> QED BY <1>4, <1>5

\* A jump from a neighbour that is around the node ends a hop away from it; from the
\* cell at the very place of the node, which has no direction, it ends there.
LEMMA JumpIsHop ==
  ASSUME ControlOK, StateOK, DOMAIN displaced = {}, pc = "expand",
         NEW c \in Beside(Place(node)), NEW i \in Jumps(c), i \in walkable
  PROVE  IsHop(Place(node), Place(NodeOf(i))) \/ Place(node) = Place(NodeOf(i))
<1>1. inits \in 1 .. MaxInits /\ node \in Used /\ node \in Nat
  BY FinderAssumption DEF ControlOK, Used
<1>2. c \in Cells /\ NodeOf(c) \in Nat /\ CellOf(NodeOf(c)) = c
  BY <1>1, NodeNumbers DEF Beside
<1>3. Place(NodeOf(c)) = <<X(c), Y(c)>> BY <1>2, OwnPlace DEF StateOK
<1>4. /\ PX(node) \in Nat /\ PY(node) \in Nat /\ Place(node) = <<PX(node), PY(node)>>
  BY <1>1, OwnPlace DEF StateOK
<1>5. PICK a \in Units, b \in Units :
        X(c) = PX(node) + a /\ Y(c) = PY(node) + b
  BY <1>4 DEF Beside
<1>6. i = Jump(walkable, CellOf(end_node_), PX(node) + a, PY(node) + b, a, b)
  <2>1. i = JumpFrom(<<X(c), Y(c)>>) BY <1>2, <1>3 DEF Jumps, DataOf
  <2>2. X(c) - PX(node) = a /\ Y(c) - PY(node) = b BY <1>4, <1>5 DEF Units
  <2> QED BY <1>5, <2>1, <2>2 DEF JumpFrom
<1>7. i \in Cells /\ i \notin {NoJump, Endless}
  BY SizeIsPositive, AreaIsCells DEF StateOK, NoJump, Endless
<1>8. PICK k \in Nat :
        /\ i = GetCell((PX(node) + a) + k * a, (PY(node) + b) + k * b)
        /\ \A m \in 0 .. k : CanWalk(walkable, (PX(node) + a) + m * a, (PY(node) + b) + m * b)
  BY <1>6, <1>7, JumpIsClear
<1> DEFINE u == (PX(node) + a) + k * a
           v == (PY(node) + b) + k * b
<1>9. IsHop(<<PX(node), PY(node)>>, <<u, v>>) \/ <<PX(node), PY(node)>> = <<u, v>>
  <2>1. CASE a # 0 \/ b # 0
    <3>1. IsHop(<<PX(node), PY(node)>>, <<u, v>>) BY <1>4, <1>8, <2>1, LineIsHop
    <3> QED BY <3>1
  <2>2. CASE a = 0 /\ b = 0
    <3>1. k * a = 0 /\ k * b = 0 BY <2>2
    <3>2. u = PX(node) /\ v = PY(node) BY <1>4, <2>2, <3>1
    <3> QED BY <3>2
  <2> QED BY <2>1, <2>2
<1>10. CanWalk(walkable, u, v) BY <1>8
<1> HIDE DEF u, v
<1>11. i = GetCell(u, v) BY <1>8 DEF u, v
<1>12. X(i) = u /\ Y(i) = v BY <1>10, <1>11, InsideIsCell DEF CanWalk
<1>13. NodeOf(i) \in Nat /\ CellOf(NodeOf(i)) = i BY <1>1, <1>7, NodeNumbers
<1>14. Place(NodeOf(i)) = <<u, v>> BY <1>12, <1>13, OwnPlace DEF StateOK
<1> QED BY <1>4, <1>9, <1>14

-----------------------------------------------------------------------------
(* init() without displaced cells *)

\* The finder that gets its maps from Maps, all of them with every cell told its place.
Placed == DOMAIN displaced = {}

\* init() leaves it so when it is given all the places.
LEMMA PlacedKept ==
  ASSUME Placed, [Next]_vars
  PROVE  Placed'
<1>1. CASE InitMap
  <2>1. PICK m \in Maps : InitFrom(m.walkable, << >>, m.size) BY <1>1 DEF InitMap
  <2>2. DOMAIN << >> = {} BY EmptySeq
  <2>3. DOMAIN displaced' = DOMAIN displaced \cup {inits * Size + i : i \in DOMAIN << >>}
    BY <2>1 DEF InitFrom
  <2> QED BY <2>2, <2>3 DEF Placed
<1>2. CASE displaced' = displaced BY <1>2 DEF Placed
<1>3. Step \/ CallOutside \/ (\E s \in Starts, e \in Ends : Call(s, e)) => displaced' = displaced
  BY DEF Step, GiveUp, ReachEnd, CrashAtEnd, HangAtEnd, Expand, Skip, JumpForever, Relax,
         Expanded, Pop, CallOutside, Call, grid
<1>4. UNCHANGED vars => displaced' = displaced BY DEF vars, grid
<1> QED BY <1>1, <1>2, <1>3, <1>4 DEF Next

\* What the hops need: the cells' own places, and the neighbours around the node.
HopsOK == Placed /\ Facing /\ HopsAreClear

\* Nothing hangs from anything in a new finder.
LEMMA HopsAtInit ==
  ASSUME Init
  PROVE  HopsOK
<1>1. \A n \in Nodes : parent[n] = Null BY DEF Init
<1>2. DOMAIN << >> = {} BY EmptySeq
<1>3. walkable = {} /\ inits = 0 /\ cells = << >> /\ displaced = << >> BY DEF Init
<1>4. \A n \in Current : parent[n] = Null
  <2>1. inits \in 0 .. MaxInits BY <1>3, FinderAssumption
  <2> QED BY <1>1, <2>1, CurrentAreNodes
<1>5. Placed BY <1>2, <1>3 DEF Placed
<1>7. Facing BY <1>3 DEF Facing
<1>8. HopsAreClear BY <1>4 DEF HopsAreClear
<1> QED BY <1>5, <1>7, <1>8 DEF HopsOK

\* The neighbours that are left are those of the node being expanded.
LEMMA FacingKept ==
  ASSUME ControlOK, StateOK, NodeClosed, HopsOK, [AnyNext]_vars, ControlOK'
  PROVE  Facing'
<1>1. CASE Expand
  <2>1. /\ Pop /\ node' = Head(open_list_) /\ cells' = FindNeighbors(node') /\ parent' = parent
    BY <1>1 DEF Expand, Pop, scores
  <2>2. node' \in Used /\ UNCHANGED grid BY <2>1, PopTypes
  <2>8. Inner' = Inner BY <2>2, InnerStays
  <2>3. PICK n \in Used : n = node' BY <2>2
  <2>4. displaced' = displaced BY <2>2, GridStays
  <2>5. Place(node)' = Place(n) BY <2>3, <2>4 DEF Place
  <2>6. CASE parent[n] = Null \/ CellOf(n) \in Inner
    <3>1. cells' \in Seq(Beside(Place(n)))
      BY <2>1, <2>3, <2>6, NeighborsAreBeside DEF HopsOK, Placed
    <3> DEFINE S == Beside(Place(n))
    <3> HIDE DEF S
    <3>2. \A i \in DOMAIN cells' : cells'[i] \in S
      <4>1. cells' \in Seq(S) BY <3>1 DEF S
      <4> QED BY <4>1, LenProperties, ElementOfSeq
    <3>3. Beside(Place(node))' = S BY <2>5 DEF Beside, S
    <3> QED BY <3>2, <3>3 DEF Facing
  <2>7. CASE ~ (parent[n] = Null \/ CellOf(n) \in Inner)
    <3>1. parent'[node'] # Null BY <2>1, <2>3, <2>7
    <3>2. CellOf(node') \notin Inner BY <2>3, <2>7
    <3>3. ~ (parent[node] = Null \/ CellOf(node) \in Inner)' BY <2>8, <3>1, <3>2 DEF CellOf
    <3> QED BY <3>3 DEF Facing
  <2> QED BY <2>6, <2>7
<1>2. CASE Skip \/ Relax
  <2>1. /\ node' = node /\ cells # << >> /\ cells' = Tail(cells) /\ UNCHANGED grid
    BY <1>2 DEF Skip, Relax
  <2>2. displaced' = displaced BY <2>1, GridStays
  <2>3. Place(node)' = Place(node) BY <2>1, <2>2 DEF Place
  <2>4. parent'[node] = parent[node] BY <1>2, ParentStays
  <2>5. cells \in Seq(Int) BY DEF StateOK
  <2>6. \A i \in DOMAIN cells' : i + 1 \in DOMAIN cells /\ cells'[i] = cells[i + 1]
    BY <2>1, <2>5, CellsLeft
  <2>7. Beside(Place(node))' = Beside(Place(node)) BY <2>3 DEF Beside
  <2>8. Inner' = Inner /\ CellOf(node)' = CellOf(node) BY <2>1, InnerStays DEF CellOf
  <2> QED BY <2>1, <2>4, <2>6, <2>7, <2>8 DEF HopsOK, Facing
<1>3. CASE \/ AnyMap \/ CallOutside \/ AnyCall \/ GiveUp \/ ReachEnd \/ CrashAtEnd \/ HangAtEnd
           \/ Expanded
  <2>1. cells = << >>
    BY <1>3 DEF AnyMap, CanInit, CallOutside, AnyCall, Call, GiveUp, ReachEnd, CrashAtEnd,
                HangAtEnd, Pop, Expanded, ControlOK
  <2>2. cells' = cells
    BY <1>3 DEF AnyMap, InitFrom, CallOutside, AnyCall, Call, GiveUp, ReachEnd, CrashAtEnd,
                HangAtEnd, Expanded, locals
  <2> QED BY <2>1, <2>2 DEF Facing
<1>4. CASE JumpForever \/ UNCHANGED vars
  <2>1. /\ node' = node /\ cells' = cells /\ parent' = parent /\ displaced' = displaced
        /\ UNCHANGED grid
    BY <1>4 DEF JumpForever, vars, locals, nodes, scores, grid
  <2>2. Place(node)' = Place(node) BY <2>1 DEF Place
  <2>3. Beside(Place(node))' = Beside(Place(node)) BY <2>2 DEF Beside
  <2>4. CellOf(node)' = CellOf(node) BY <2>1 DEF CellOf
  <2>5. Inner' = Inner BY <2>1, InnerStays
  <2> QED BY <2>1, <2>3, <2>4, <2>5 DEF HopsOK, Facing
<1> QED BY <1>1, <1>2, <1>3, <1>4 DEF AnyNext, Step

\* What HopsAreClear says of a node n with the parent q.
HopFrom(n, q) ==
  \/ IsHop(Place(q), Place(n))
  \/ q \notin Current /\ (CellOf(q) \notin Inner \/ Place(q) = Place(n))

\* On a walled map a node that a search has reached is inside.
LEMMA EnteredInside ==
  ASSUME OnlyWalkableEntered, Walled, inits \in 1 .. MaxInits,
         node \in Current \/ CellOf(node) \in Inner
  PROVE  parent[node] = Null \/ CellOf(node) \in Inner
<1> SUFFICES ASSUME node \in Current, parent[node] # Null PROVE CellOf(node) \in Inner
  OBVIOUS
<1>1. PICK k \in Cells : node = NodeOf(k) BY DEF Current
<1>2. k \in walkable BY <1>1 DEF OnlyWalkableEntered
<1>3. CellOf(node) = k BY <1>1, NodeNumbers
<1> QED BY <1>2, <1>3 DEF Walled

\* The hop that relaxing makes, on a walled map.
LEMMA HopOfRelax ==
  ASSUME ControlOK, StateOK, NodeClosed, OnlyWalkableEntered, HopsOK, Walled, pc = "expand",
         cells # << >>,
         NEW i \in Jumps(Head(cells)), i \in walkable, NodeOf(i) \notin closed
  PROVE  HopFrom(NodeOf(i), node)
<1> SUFFICES ASSUME node \in Current \/ CellOf(node) \in Inner
             PROVE  HopFrom(NodeOf(i), node)
  BY DEF HopFrom
<1>0. inits \in 1 .. MaxInits /\ node \in closed
  BY FinderAssumption DEF ControlOK, NodeClosed
<1>1. parent[node] = Null \/ CellOf(node) \in Inner BY <1>0, EnteredInside
<1>2. 1 \in DOMAIN cells /\ Head(cells) = cells[1]
  <2>1. cells \in Seq(Int) BY DEF StateOK
  <2>2. Len(cells) \in Nat /\ DOMAIN cells = 1 .. Len(cells) /\ Len(cells) # 0
    BY <2>1, LenProperties, EmptySeq
  <2> QED BY <2>1, <2>2, HeadTailProperties
<1>3. Head(cells) \in Beside(Place(node)) BY <1>1, <1>2 DEF HopsOK, Facing
<1>4. IsHop(Place(node), Place(NodeOf(i))) \/ Place(node) = Place(NodeOf(i))
  BY <1>3, JumpIsHop DEF HopsOK, Placed
<1>5. ASSUME Place(node) = Place(NodeOf(i)), node \in Current PROVE FALSE
  <2>1. i \in Cells /\ node \in Nat
    BY AreaIsCells DEF StateOK, ControlOK, Used
  <2>2. PICK k \in Cells : node = NodeOf(k) BY <1>5 DEF Current
  <2>3. CellOf(node) = k /\ CellOf(NodeOf(i)) = i /\ NodeOf(i) \in Nat
    BY <1>0, <2>1, <2>2, NodeNumbers
  <2>4. k = i BY <1>5, <2>1, <2>3, SamePlaceSameCell DEF HopsOK, Placed, StateOK
  <2> QED BY <1>0, <2>2, <2>4
<1> QED BY <1>4, <1>5 DEF HopFrom

\* Only relaxing makes a new hop, and init() starts with none.
LEMMA ClearKept ==
  ASSUME ControlOK, StateOK, NodeClosed, OnlyWalkableEntered, HopsOK, [AnyNext]_vars
  PROVE  HopsAreClear'
<1>1. CASE AnyMap
  <2>1. PICK d \in Sizes, M \in SUBSET Cells, places \in Placings :
          M \subseteq Area(d) /\ InitFrom(M, places, d)
    BY <1>1 DEF AnyMap
  <2>2. \A i \in Cells : parent'[NodeOf(i)'] = Null BY <1>1, <2>1, NewNodes DEF AnyMap, CanInit
  <2>3. \A n \in Current' : parent'[n] = Null BY <2>2 DEF Current
  <2> QED BY <2>3 DEF HopsAreClear
<1>2. CASE UNCHANGED grid
  <2>1. /\ walkable' = walkable /\ Current' = Current /\ displaced' = displaced
        /\ inits' = inits /\ Inner' = Inner
    BY <1>2, GridStays, InnerStays
  <2>2. Walled' <=> Walled BY <2>1 DEF Walled
  <2>3. \A n, q : HopFrom(n, q)' <=> HopFrom(n, q)
    <3>1. \A n : Place(n)' = Place(n) BY <2>1 DEF Place
    <3>2. \A p, q : IsHop(p, q)' <=> IsHop(p, q) BY <2>1 DEF IsHop
    <3> QED BY <2>1, <3>1, <3>2 DEF HopFrom
  <2>4. SUFFICES ASSUME Walled, NEW n \in Current, NEW q, q = parent'[n], q # Null
                 PROVE  HopFrom(n, q)
    BY <2>1, <2>2, <2>3 DEF HopsAreClear, HopFrom
  <2>5. CASE parent[n] = q BY <2>4, <2>5 DEF HopsOK, HopsAreClear, HopFrom
  <2>6. CASE Relax
    <3>1. PICK i \in walkable :
            /\ NodeOf(i) \in Nodes /\ i \in Jumps(Head(cells)) /\ NodeOf(i) \notin closed
            /\ IF NodeOf(i) \notin opened \/ g[node] + Hop(node, NodeOf(i)) < g[NodeOf(i)]
               THEN Improve(NodeOf(i), g[node] + Hop(node, NodeOf(i))) /\ Open(NodeOf(i))
               ELSE UNCHANGED <<scores, opened, open_list_>>
      BY <2>6, Relaxed
    <3> DEFINE j == NodeOf(i)
    <3>2. HopFrom(j, node) BY <2>4, <2>6, <3>1, HopOfRelax DEF Relax
    <3> HIDE DEF j
    <3>3. parent' = parent \/ parent' = [parent EXCEPT ![j] = node]
      BY <3>1 DEF Improve, scores, j
    <3>4. j \in Nodes BY <3>1 DEF j
    <3>5. n # j => parent'[n] = parent[n]
      <4>1. n \in Nodes BY <2>4, CurrentAreNodes DEF ControlOK
      <4> QED BY <3>3, <4>1 DEF StateOK
    <3>6. n = j => parent'[n] \in {parent[n], node} BY <3>3, <3>4 DEF StateOK
    <3> QED BY <2>4, <2>5, <3>2, <3>5, <3>6
  <2>7. CASE Pop \/ Quiet
    <3>1. parent' = parent BY <2>7 DEF Pop, Quiet, nodes, scores
    <3> QED BY <2>4, <2>5, <3>1
  <2>8. CASE CallOutside \/ AnyCall
    <3>1. parent' = parent \/ parent' = [parent EXCEPT ![Base] = Null]
      BY <2>8 DEF CallOutside, ClearFirst, AnyCall, Call, nodes, scores
    <3>2. n \in Nodes /\ Base \in Nodes BY <2>4, CurrentAreNodes DEF ControlOK
    <3> QED BY <2>4, <2>5, <3>1, <3>2 DEF StateOK
  <2>9. ~ AnyMap
    <3>1. AnyMap => inits' = inits + 1 BY DEF AnyMap, InitFrom
    <3> QED BY <2>1, <3>1 DEF ControlOK
  <2> QED BY <2>6, <2>7, <2>8, <2>9, StepClasses
<1>3. CallOutside \/ AnyCall \/ Pop \/ Relax \/ Quiet => UNCHANGED grid
  BY DEF CallOutside, AnyCall, Call, Pop, Relax, Quiet
<1> QED BY <1>1, <1>2, <1>3, StepClasses

\* The hops are as HopsOK says in every state of the finder.
THEOREM HopsInvariant == Spec => []HopsOK
<1>1. Init => HopsOK BY HopsAtInit
<1>2. IInv /\ HopsOK /\ [Next]_vars => HopsOK'
  <2> SUFFICES ASSUME IInv, HopsOK, [Next]_vars PROVE HopsOK' OBVIOUS
  <2>1. [AnyNext]_vars BY NextIsAnyNext
  <2>2. /\ ControlOK /\ StateOK /\ NodeClosed /\ OnlyWalkableEntered BY DEF IInv
  <2>3. ControlOK' BY NextKeepsInvariant DEF IInv
  <2>4. Placed' BY PlacedKept DEF HopsOK
  <2>6. Facing' BY <2>1, <2>2, <2>3, FacingKept
  <2>7. HopsAreClear' BY <2>1, <2>2, ClearKept
  <2> QED BY <2>4, <2>6, <2>7 DEF HopsOK
<1> QED BY <1>1, <1>2, InductiveInvariant, PTL DEF Spec

\* On a walled map the parents are what backtrace() takes them for: the ends of clear
\* straight or diagonal lines, whatever the finder was used for before, and whatever
\* sizes its maps had; but for a parent that a smaller map has put on its border or
\* outside, or one at the very place of its child.
THEOREM HopsStayClear == Spec => []HopsAreClear
<1>1. HopsOK => HopsAreClear BY DEF HopsOK
<1> QED BY <1>1, HopsInvariant, PTL

\* The neighbours that find_neighbors does not test for being inside the grid are nodes
\* of the array on every walled map, but for those of a node that a smaller map has put
\* on its border or outside.
THEOREM WallsPreventStrayReads == Spec => []NoStrayRead
<1>1. IInv /\ HopsOK => NoStrayRead
  <2> SUFFICES ASSUME IInv, HopsOK, Walled, node \in Current \/ CellOf(node) \in Inner,
                      NEW i \in DOMAIN cells
               PROVE  cells[i] \in Cells
    BY DEF NoStrayRead
  <2>1. cells # << >> BY EmptySeq
  <2>2. inits \in 1 .. MaxInits BY <2>1, FinderAssumption DEF IInv, ControlOK
  <2>3. parent[node] = Null \/ CellOf(node) \in Inner
    BY <2>2, EnteredInside DEF IInv
  <2>4. cells[i] \in Beside(Place(node)) BY <2>1, <2>3 DEF HopsOK, Facing
  <2> QED BY <2>4 DEF Beside
<1> QED BY <1>1, InductiveInvariant, HopsInvariant, PTL

-----------------------------------------------------------------------------
(* The points that find_path() returns *)

\* Two points next to each other.
Near(p, q) == Larger(Abs(q[1] - p[1]), Abs(q[2] - p[2])) = 1

\* A list of walkable points, each next to the one before, from p.
IsWalk(s, p) ==
  /\ s \in Seq(Int \X Int) /\ Len(s) # 0 /\ s[1] = p
  /\ \A i \in 1 .. Len(s) : CanWalk(walkable, s[i][1], s[i][2])
  /\ \A i \in 1 .. Len(s) - 1 : Near(s[i], s[i + 1])

\* A walk goes on with one that starts next to its last point.
LEMMA WalksJoin ==
  ASSUME NEW s, NEW p, IsWalk(s, p), NEW t, NEW q, IsWalk(t, q), Near(s[Len(s)], q)
  PROVE  /\ IsWalk(s \o t, p) /\ Len(s \o t) \in Nat /\ Len(s \o t) > Len(s)
         /\ (s \o t)[Len(s \o t)] = t[Len(t)]
<1> DEFINE w == s \o t
           m == Len(s)
           n == Len(t)
<1>1. /\ s \in Seq(Int \X Int) /\ t \in Seq(Int \X Int) /\ m \in Nat \ {0} /\ n \in Nat \ {0}
  BY LenProperties DEF IsWalk
<1>2. /\ w \in Seq(Int \X Int) /\ Len(w) = m + n
      /\ \A i \in 1 .. m + n : w[i] = IF i <= m THEN s[i] ELSE t[i - m]
  BY <1>1, ConcatProperties
<1> HIDE DEF w
<1>3. \A i \in 1 .. m : w[i] = s[i]
  <2>1. \A i \in 1 .. m : i \in 1 .. m + n /\ i <= m BY <1>1
  <2> QED BY <1>2, <2>1
<1>4. \A i \in 1 .. n : w[m + i] = t[i]
  <2> TAKE i \in 1 .. n
  <2>1. m + i \in 1 .. m + n /\ ~ (m + i <= m) /\ (m + i) - m = i BY <1>1
  <2> QED BY <1>2, <2>1
<1>5. /\ s[1] = p /\ \A i \in 1 .. m : CanWalk(walkable, s[i][1], s[i][2])
      /\ \A i \in 1 .. m - 1 : Near(s[i], s[i + 1])
  BY DEF IsWalk
<1>6. /\ t[1] = q /\ \A i \in 1 .. n : CanWalk(walkable, t[i][1], t[i][2])
      /\ \A i \in 1 .. n - 1 : Near(t[i], t[i + 1])
  BY DEF IsWalk
<1> HIDE DEF m, n
<1>7. w[1] = p /\ w[m + n] = t[n]
  <2>1. 1 \in 1 .. m /\ n \in 1 .. n BY <1>1
  <2>2. w[1] = s[1] BY <1>3, <2>1
  <2>3. w[m + n] = t[n] BY <1>4, <2>1
  <2> QED BY <1>5, <2>2, <2>3
<1>8. ASSUME NEW i \in 1 .. m + n PROVE CanWalk(walkable, w[i][1], w[i][2])
  <2>1. CASE i \in 1 .. m BY <1>3, <1>5, <2>1
  <2>2. CASE i \notin 1 .. m
    <3>1. i - m \in 1 .. n /\ m + (i - m) = i BY <1>1, <2>2
    <3>2. w[m + (i - m)] = t[i - m] BY <1>4, <3>1
    <3>3. w[i] = t[i - m] BY <3>1, <3>2
    <3> QED BY <1>6, <3>1, <3>3
  <2> QED BY <2>1, <2>2
<1>9. ASSUME NEW i \in 1 .. (m + n) - 1 PROVE Near(w[i], w[i + 1])
  <2>1. CASE i \in 1 .. m - 1
    <3>1. w[i] = s[i] /\ w[i + 1] = s[i + 1] BY <1>1, <1>3, <2>1
    <3> QED BY <1>5, <2>1, <3>1
  <2>2. CASE i = m
    <3>1. w[i] = s[m] /\ w[i + 1] = t[1]
      <4>1. m \in 1 .. m /\ 1 \in 1 .. n BY <1>1
      <4> QED BY <1>3, <1>4, <2>2, <4>1
    <3>2. Near(s[m], q) BY DEF m
    <3> QED BY <1>6, <3>1, <3>2
  <2>3. CASE i \in m + 1 .. (m + n) - 1
    <3>1. i - m \in 1 .. n - 1 /\ m + (i - m) = i BY <1>1, <2>3
    <3>2. i - m \in 1 .. n /\ (i - m) + 1 \in 1 .. n /\ m + ((i - m) + 1) = i + 1 BY <1>1, <3>1
    <3>3. w[m + (i - m)] = t[i - m] /\ w[m + ((i - m) + 1)] = t[(i - m) + 1] BY <1>4, <3>2
    <3>4. w[i] = t[i - m] /\ w[i + 1] = t[(i - m) + 1] BY <3>1, <3>2, <3>3
    <3> QED BY <1>6, <3>1, <3>4
  <2>4. i \in 1 .. m - 1 \/ i = m \/ i \in m + 1 .. (m + n) - 1 BY <1>1
  <2> QED BY <2>1, <2>2, <2>3, <2>4
<1>10. Len(w) # 0 /\ Len(w) \in Nat /\ Len(w) > m BY <1>1, <1>2
<1>11. IsWalk(w, p) BY <1>2, <1>7, <1>8, <1>9, <1>10 DEF IsWalk
<1> QED BY <1>2, <1>7, <1>10, <1>11 DEF w, m, n

\* One coordinate of a line that stays between those of its ends.
LEMMA Between ==
  ASSUME NEW m \in Int, NEW x \in 0 .. m, NEW u \in 0 .. m, NEW k \in Nat,
         u = x \/ Abs(u - x) = k, NEW i \in 0 .. k
  PROVE  x + i * Sign(u - x) \in 0 .. m
<1>1. CASE u = x
  <2>1. Sign(u - x) = 0 /\ i * 0 = 0 BY <1>1 DEF Sign
  <2> QED BY <2>1
<1>2. CASE u > x
  <2>1. Sign(u - x) = 1 /\ i * 1 = i /\ u - x = k BY <1>2 DEF Sign, Abs
  <2> QED BY <2>1
<1>3. CASE u < x
  <2>1. Sign(u - x) = -1 /\ i * (-1) = -i /\ x - u = k BY <1>3 DEF Sign, Abs
  <2> QED BY <2>1
<1> QED BY <1>1, <1>2, <1>3

\* The points of a line of one direction are next to each other.
LEMMA UnitIsNear ==
  ASSUME NEW x \in Int, NEW y \in Int, NEW a \in Units, NEW b \in Units, a # 0 \/ b # 0,
         NEW i \in Int
  PROVE  Near(<<x + i * a, y + i * b>>, <<x + (i + 1) * a, y + (i + 1) * b>>)
<1>1. (i + 1) * a = i * a + a /\ i * a \in Int BY DEF Units
<1>2. (i + 1) * b = i * b + b /\ i * b \in Int BY DEF Units
<1>3. /\ (x + (i + 1) * a) - (x + i * a) = a
      /\ (y + (i + 1) * b) - (y + i * b) = b
  BY <1>1, <1>2 DEF Units
<1>4. Larger(Abs(a), Abs(b)) = 1 BY DEF Larger, Abs, Units
<1> QED BY <1>3, <1>4 DEF Near

\* The lists without their last elements.
LEMMA FrontOfSequence ==
  ASSUME NEW T, NEW s \in Seq(T), Len(s) # 0
  PROVE  /\ Front(s) \in Seq(T) /\ Len(Front(s)) = Len(s) - 1
         /\ \A i \in 1 .. Len(s) - 1 : Front(s)[i] = s[i]
<1> DEFINE m == Len(s) - 1
<1>1. Len(s) \in Nat /\ m \in Nat BY LenProperties
<1>2. \A i \in 1 .. m : s[i] \in T BY <1>1, ElementOfSeq
<1>3. /\ SubSeq(s, 1, m) \in Seq(T) /\ Len(SubSeq(s, 1, m)) = IF 1 <= m THEN m - 1 + 1 ELSE 0
      /\ \A i \in 1 .. m - 1 + 1 : SubSeq(s, 1, m)[i] = s[1 + i - 1]
  BY <1>1, <1>2, SubSeqProperties
<1>4. Front(s) = SubSeq(s, 1, m) BY DEF Front
<1> HIDE DEF m
<1>5. m \in Nat /\ m = Len(s) - 1 BY <1>1 DEF m
<1>6. Len(Front(s)) = m BY <1>3, <1>4, <1>5
<1>7. \A i \in 1 .. m : Front(s)[i] = s[i] BY <1>3, <1>4, <1>5
<1> QED BY <1>3, <1>4, <1>5, <1>6, <1>7

\* The points of a hop between points inside are a walk from the first of them up to a
\* neighbour of the last, which can be walked too.
LEMMA HopIsWalk ==
  ASSUME NEW p \in Int \X Int, NEW q \in Int \X Int, IsHop(p, q),
         CanWalk(walkable, p[1], p[2]), IsInside(q[1], q[2])
  PROVE  LET line == Front(Interpolate(p, q))
         IN IsWalk(line, p) /\ Near(line[Len(line)], q) /\ CanWalk(walkable, q[1], q[2])
<1> DEFINE L == Long(p, q)
           sx == Sign(q[1] - p[1])
           sy == Sign(q[2] - p[2])
           all == Interpolate(p, q)
           line == Front(all)
<1>1. /\ p[1] \in Int /\ p[2] \in Int /\ q[1] \in Int /\ q[2] \in Int
      /\ p = <<p[1], p[2]>> /\ q = <<q[1], q[2]>>
  OBVIOUS
<1>2. /\ p # q /\ (p[1] = q[1] \/ p[2] = q[2] \/ Abs(p[1] - q[1]) = Abs(p[2] - q[2]))
      /\ Line(p, q) \subseteq walkable
  BY DEF IsHop, Straight
<1>3. sx \in Units /\ sy \in Units /\ (sx # 0 \/ sy # 0)
  <2>1. q[1] - p[1] \in Int /\ q[2] - p[2] \in Int BY <1>1
  <2>2. q[1] - p[1] # 0 \/ q[2] - p[2] # 0 BY <1>1, <1>2
  <2> QED BY <2>1, <2>2, SignIsUnit
<1>4. /\ L \in Nat \ {0} /\ L = Larger(Abs(q[1] - p[1]), Abs(q[2] - p[2]))
      /\ q[1] = p[1] \/ Abs(q[1] - p[1]) = L
      /\ q[2] = p[2] \/ Abs(q[2] - p[2]) = L
  <2>1. L = Larger(Abs(q[1] - p[1]), Abs(q[2] - p[2])) BY DEF Long, Wide, High
  <2>2. Abs(p[1] - q[1]) = Abs(q[1] - p[1]) /\ Abs(p[2] - q[2]) = Abs(q[2] - p[2])
    BY <1>1 DEF Abs
  <2>3. /\ Abs(q[1] - p[1]) \in Nat /\ Abs(q[2] - p[2]) \in Nat
        /\ Abs(q[1] - p[1]) = 0 <=> q[1] = p[1]
        /\ Abs(q[2] - p[2]) = 0 <=> q[2] = p[2]
    BY <1>1 DEF Abs
  <2>4. q[1] # p[1] \/ q[2] # p[2] BY <1>1, <1>2
  <2> HIDE DEF L
  <2> QED BY <1>2, <2>1, <2>2, <2>3, <2>4 DEF Larger
<1>5. /\ all \in Seq(Int \X Int) /\ Len(all) = L + 1
      /\ \A k \in 0 .. L : all[k + 1] = <<p[1] + k * sx, p[2] + k * sy>>
      /\ all[1] = p /\ all[L + 1] = q
  BY <1>2, InterpolatePoints, InterpolateStraight, InterpolateEnds
<1> HIDE DEF L, sx, sy, all
<1>6. ASSUME NEW k \in 0 .. L
      PROVE  CanWalk(walkable, p[1] + k * sx, p[2] + k * sy)
  <2>1. CASE k = 0
    <3>1. p[1] + k * sx = p[1] /\ p[2] + k * sy = p[2] BY <1>1, <1>3, <2>1 DEF Units
    <3> QED BY <3>1
  <2>2. CASE k # 0
    <3>1. IsInside(p[1] + k * sx, p[2] + k * sy)
      <4>1. /\ p[1] \in 0 .. Width - 1 /\ p[2] \in 0 .. Height - 1
            /\ q[1] \in 0 .. Width - 1 /\ q[2] \in 0 .. Height - 1
        BY DEF CanWalk, IsInside
      <4>2. Width - 1 \in Int /\ Height - 1 \in Int /\ L \in Nat BY <1>4, GridAssumption
      <4>3. p[1] + k * sx \in 0 .. Width - 1 BY <1>4, <4>1, <4>2, Between DEF sx
      <4>4. p[2] + k * sy \in 0 .. Height - 1 BY <1>4, <4>1, <4>2, Between DEF sy
      <4> QED BY <4>3, <4>4 DEF IsInside
    <3>2. k \in 1 .. L BY <2>2
    <3>3. GetCell(p[1] + k * sx, p[2] + k * sy) \in Line(p, q)
      BY <1>4, <3>2 DEF Line, sx, sy
    <3> QED BY <1>2, <3>1, <3>3 DEF CanWalk
  <2> QED BY <2>1, <2>2
<1>7. /\ line \in Seq(Int \X Int) /\ Len(line) = L /\ \A i \in 1 .. L : line[i] = all[i]
  <2>1. Len(all) # 0 /\ Len(all) - 1 = L BY <1>4, <1>5
  <2> QED BY <1>5, <2>1, FrontOfSequence
<1> HIDE DEF line
<1>8. \A i \in 1 .. L : line[i] = <<p[1] + (i - 1) * sx, p[2] + (i - 1) * sy>>
  <2> TAKE i \in 1 .. L
  <2>1. i - 1 \in 0 .. L /\ (i - 1) + 1 = i BY <1>4
  <2>2. all[(i - 1) + 1] = <<p[1] + (i - 1) * sx, p[2] + (i - 1) * sy>> BY <1>5, <2>1
  <2>3. line[i] = all[i] BY <1>7
  <2>4. all[(i - 1) + 1] = all[i] BY <2>1
  <2> QED BY ONLY <2>2, <2>3, <2>4, Zenon
<1>9. 1 \in 1 .. L /\ L \in 1 .. L /\ line[1] = p
  <2>1. 1 \in 1 .. L /\ L \in 1 .. L BY <1>4
  <2>2. line[1] = all[1] BY <1>7, <2>1
  <2> QED BY <1>5, <2>1, <2>2
<1>10. ASSUME NEW i \in 1 .. L PROVE CanWalk(walkable, line[i][1], line[i][2])
  <2>1. i - 1 \in 0 .. L BY <1>4
  <2>2. CanWalk(walkable, p[1] + (i - 1) * sx, p[2] + (i - 1) * sy) BY <1>6, <2>1
  <2>3. line[i][1] = p[1] + (i - 1) * sx /\ line[i][2] = p[2] + (i - 1) * sy BY <1>8
  <2> QED BY <2>2, <2>3
<1>11. ASSUME NEW k \in 0 .. L - 1
       PROVE  Near(all[k + 1], all[(k + 1) + 1])
  <2>1. k \in 0 .. L /\ k + 1 \in 0 .. L /\ k \in Int BY <1>4
  <2>2. Near(<<p[1] + k * sx, p[2] + k * sy>>, <<p[1] + (k + 1) * sx, p[2] + (k + 1) * sy>>)
    BY <1>1, <1>3, <2>1, UnitIsNear
  <2>3. /\ all[k + 1] = <<p[1] + k * sx, p[2] + k * sy>>
        /\ all[(k + 1) + 1] = <<p[1] + (k + 1) * sx, p[2] + (k + 1) * sy>>
    BY <1>5, <2>1
  <2> QED BY <2>2, <2>3, Zenon
<1>12. ASSUME NEW i \in 1 .. L - 1 PROVE Near(line[i], line[i + 1])
  <2>1. i - 1 \in 0 .. L - 1 /\ (i - 1) + 1 = i /\ i \in 1 .. L /\ i + 1 \in 1 .. L BY <1>4
  <2>2. Near(all[(i - 1) + 1], all[((i - 1) + 1) + 1]) BY <1>11, <2>1
  <2>3. Near(all[i], all[i + 1]) BY <2>1, <2>2
  <2> QED BY <1>7, <2>1, <2>3
<1>13. Near(line[L], q)
  <2>1. L - 1 \in 0 .. L - 1 /\ (L - 1) + 1 = L BY <1>4
  <2>2. Near(all[(L - 1) + 1], all[((L - 1) + 1) + 1]) BY <1>11, <2>1
  <2>3. Near(all[L], all[L + 1]) BY <2>1, <2>2
  <2> QED BY <1>5, <1>7, <1>9, <2>3
<1>14. CanWalk(walkable, q[1], q[2])
  <2>1. L \in 0 .. L BY <1>4
  <2>2. CanWalk(walkable, p[1] + L * sx, p[2] + L * sy) BY <1>6, <2>1
  <2>3. q = <<p[1] + L * sx, p[2] + L * sy>> BY <1>5, <2>1
  <2>4. q[1] = p[1] + L * sx /\ q[2] = p[2] + L * sy BY <2>3
  <2> QED BY <2>2, <2>4
<1>15. IsWalk(line, p) BY <1>4, <1>7, <1>9, <1>10, <1>12 DEF IsWalk
<1> QED BY <1>7, <1>13, <1>14, <1>15 DEF line, all
\* F holds the lists that the first, the first two, ... of the n lists ss make.
IsJoined(F, n, ss) ==
  /\ DOMAIN F = 1 .. n /\ F = [i \in 1 .. n |-> F[i]]
  /\ F[1] = ss[1]
  /\ \A i \in 2 .. n : F[i] = F[i - 1] \o ss[i]

\* The lists can be joined one after the other,
LEMMA JoinedExists ==
  ASSUME NEW ss, NEW n \in Nat \ {0}
  PROVE  \E F : IsJoined(F, n, ss)
<1> DEFINE Bad == {m \in Nat \ {0} : ~ \E F : IsJoined(F, m, ss)}
<1> SUFFICES ASSUME Bad # {} PROVE FALSE OBVIOUS
<1>1. PICK m \in Bad : \A k \in Bad : m <= k
  <2>1. Bad \subseteq Nat OBVIOUS
  <2> HIDE DEF Bad
  <2> QED BY <2>1, LeastElement
<1>2. CASE m = 1
  <2>1. IsJoined([k \in 1 .. 1 |-> ss[1]], 1, ss) BY DEF IsJoined
  <2> QED BY <1>1, <1>2, <2>1
<1>3. CASE m # 1
  <2>1. m - 1 \in Nat \ {0} /\ m - 1 \notin Bad BY <1>1, <1>3
  <2>2. PICK F : IsJoined(F, m - 1, ss) BY <2>1
  <2> DEFINE last == F[m - 1] \o ss[m]
             H == [k \in 1 .. m |-> IF k = m THEN last ELSE F[k]]
  <2>3. m \in Nat /\ 1 \in 1 .. m /\ 1 # m /\ DOMAIN H = 1 .. m BY <1>1, <1>3
  <2>4. H[1] = ss[1] BY <2>2, <2>3 DEF IsJoined
  <2>5. ASSUME NEW k \in 2 .. m
        PROVE  H[k] = H[k - 1] \o ss[k]
    <3>1. k \in 1 .. m /\ k - 1 \in 1 .. m /\ k - 1 # m BY <2>3
    <3> HIDE DEF last
    <3>2. H[k - 1] = F[k - 1] BY <3>1
    <3>3. CASE k = m
      <4>1. H[k] = last BY <3>1, <3>3
      <4> QED BY <3>2, <3>3, <4>1 DEF last
    <3>4. CASE k # m
      <4>1. k \in 2 .. m - 1 /\ H[k] = F[k] BY <2>3, <3>1, <3>4
      <4> QED BY <2>2, <3>2, <4>1 DEF IsJoined
    <3> QED BY <3>3, <3>4
  <2>6. H = [i \in 1 .. m |-> H[i]] OBVIOUS
  <2> HIDE DEF H
  <2>7. IsJoined(H, m, ss) BY <2>3, <2>4, <2>5, <2>6 DEF IsJoined
  <2> QED BY <1>1, <2>7
<1> QED BY <1>2, <1>3

\* and the recursive function of FlattenSeq does it.
LEMMA FlattenIsJoined ==
  ASSUME NEW ss, Len(ss) \in Nat \ {0}
  PROVE  \E F : IsJoined(F, Len(ss), ss) /\ FlattenSeq(ss) = F[Len(ss)]
<1> DEFINE n == Len(ss)
           flat == CHOOSE fn : fn = [i \in 1 .. n |->
                     IF i = 1 THEN ss[i] ELSE fn[i - 1] \o ss[i]]
<1>1. FlattenSeq(ss) = flat[n] BY DEF FlattenSeq
<1>2. PICK F : IsJoined(F, n, ss) BY JoinedExists
<1>3. F = [i \in 1 .. n |-> IF i = 1 THEN ss[i] ELSE F[i - 1] \o ss[i]]
  <2>1. /\ DOMAIN F = 1 .. n /\ F = [i \in 1 .. n |-> F[i]] /\ F[1] = ss[1]
        /\ \A i \in 2 .. n : F[i] = F[i - 1] \o ss[i]
    BY <1>2 DEF IsJoined
  <2>2. \A i \in 1 .. n : i = 1 \/ i \in 2 .. n OBVIOUS
  <2>3. \A i \in 1 .. n : F[i] = IF i = 1 THEN ss[i] ELSE F[i - 1] \o ss[i]
    BY <2>1, <2>2, Zenon
  <2> QED BY <2>1, <2>3
<1>4. flat = [i \in 1 .. n |-> IF i = 1 THEN ss[i] ELSE flat[i - 1] \o ss[i]] BY <1>3
<1> HIDE DEF flat
<1>5. n \in Nat \ {0} /\ 1 \in 1 .. n OBVIOUS
<1> HIDE DEF n
<1>6. IsJoined(flat, n, ss)
  <2>1. DOMAIN flat = 1 .. n BY <1>4
  <2>2. \A i \in 1 .. n : flat[i] = IF i = 1 THEN ss[i] ELSE flat[i - 1] \o ss[i] BY <1>4
  <2>3. flat[1] = ss[1] BY <1>5, <2>2
  <2>4. \A i \in 2 .. n : flat[i] = flat[i - 1] \o ss[i]
    <3>1. \A i \in 2 .. n : i \in 1 .. n /\ i # 1 BY <1>5
    <3> QED BY <2>2, <3>1
  <2>5. flat = [i \in 1 .. n |-> flat[i]] BY <1>4, <2>1
  <2> QED BY <2>1, <2>3, <2>4, <2>5 DEF IsJoined
<1> QED BY <1>1, <1>6 DEF n

\* Points inside with hops between them.
IsRoute(p) ==
  /\ p \in Seq(Int \X Int) /\ Len(p) # 0
  /\ \A i \in 1 .. Len(p) : CanWalk(walkable, p[i][1], p[i][2])
  /\ \A i \in 1 .. Len(p) - 1 : IsHop(p[i], p[i + 1])

\* expandpath() makes a walk of them, to the same end.
LEMMA RouteIsWalk ==
  ASSUME NEW p, IsRoute(p), Len(p) >= 2
  PROVE  IsWalk(ExpandPath(p), p[1]) /\ Last(ExpandPath(p)) = Last(p)
<1> DEFINE n == Len(p) - 1
           ss == [i \in 1 .. Len(p) - 1 |-> Front(Interpolate(p[i], p[i + 1]))]
           w == FlattenSeq(ss)
<1>1. /\ p \in Seq(Int \X Int) /\ Len(p) \in Nat /\ n \in Nat \ {0} /\ Len(p) = n + 1
      /\ \A i \in 1 .. n + 1 : CanWalk(walkable, p[i][1], p[i][2])
      /\ \A i \in 1 .. n : IsHop(p[i], p[i + 1])
  <2>1. Len(p) \in Nat BY LenProperties DEF IsRoute
  <2> QED BY <2>1 DEF IsRoute
<1>2. ExpandPath(p) = Append(w, Last(p)) BY <1>1 DEF ExpandPath
<1>3. /\ Len(ss) = n /\ \A i \in 1 .. n : ss[i] = Front(Interpolate(p[i], p[i + 1])) BY <1>1
<1> HIDE DEF ss, n
<1>4. ASSUME NEW i \in 1 .. n
      PROVE  /\ IsWalk(ss[i], p[i]) /\ Near(ss[i][Len(ss[i])], p[i + 1])
  <2>1. i \in 1 .. n + 1 /\ i + 1 \in 1 .. n + 1 BY <1>1
  <2>2. p[i] \in Int \X Int /\ p[i + 1] \in Int \X Int BY <1>1, <2>1, ElementOfSeq
  <2>3. CanWalk(walkable, p[i][1], p[i][2]) /\ IsInside(p[i + 1][1], p[i + 1][2])
    BY <1>1, <2>1 DEF CanWalk
  <2> QED BY <1>1, <1>3, <2>2, <2>3, HopIsWalk
<1>5. PICK F : IsJoined(F, n, ss) /\ w = F[n] BY <1>1, <1>3, FlattenIsJoined
<1> HIDE DEF w
<1> DEFINE OK(i) == IsWalk(F[i], p[1]) /\ Near(F[i][Len(F[i])], p[i + 1])
<1>6. OK(1)
  <2>1. F[1] = ss[1] /\ 1 \in 1 .. n BY <1>1, <1>5 DEF IsJoined
  <2> QED BY <1>4, <2>1
<1>7. ASSUME NEW i \in 2 .. n, OK(i - 1) PROVE OK(i)
  <2>1. F[i] = F[i - 1] \o ss[i] BY <1>5 DEF IsJoined
  <2>2. i \in 1 .. n /\ (i - 1) + 1 = i BY <1>1
  <2>3. IsWalk(F[i - 1], p[1]) /\ Near(F[i - 1][Len(F[i - 1])], p[i]) BY <1>7, <2>2
  <2>4. IsWalk(ss[i], p[i]) /\ Near(ss[i][Len(ss[i])], p[i + 1]) BY <1>4, <2>2
  <2>5. /\ IsWalk(F[i - 1] \o ss[i], p[1])
        /\ (F[i - 1] \o ss[i])[Len(F[i - 1] \o ss[i])] = ss[i][Len(ss[i])]
    BY <2>3, <2>4, WalksJoin
  <2> QED BY <2>1, <2>4, <2>5
<1> HIDE DEF OK
<1>8. \A i \in 1 .. n : OK(i)
  <2> DEFINE Bad == {i \in 1 .. n : ~ OK(i)}
  <2> SUFFICES ASSUME Bad # {} PROVE FALSE OBVIOUS
  <2>1. PICK m \in Bad : \A k \in Bad : m <= k
    <3>1. Bad \subseteq Nat OBVIOUS
    <3> HIDE DEF Bad
    <3> QED BY <3>1, LeastElement
  <2>2. m # 1 BY <1>6, <2>1
  <2>3. m \in 2 .. n /\ m - 1 \in 1 .. n /\ ~ (m <= m - 1) BY <1>1, <2>1, <2>2
  <2>4. OK(m - 1) BY <2>1, <2>3
  <2>5. OK(m) BY <1>7, <2>3, <2>4
  <2> QED BY <2>1, <2>5
<1>9. IsWalk(w, p[1]) /\ Near(w[Len(w)], p[n + 1])
  <2>1. OK(n) BY <1>1, <1>8
  <2> QED BY <1>5, <2>1 DEF OK
<1>10. Last(p) = p[n + 1] /\ p[n + 1] \in Int \X Int /\ CanWalk(walkable, p[n + 1][1], p[n + 1][2])
  <2>1. n + 1 \in 1 .. n + 1 BY <1>1
  <2> QED BY <1>1, <2>1, ElementOfSeq DEF Last
<1> DEFINE q == p[n + 1]
<1> HIDE DEF q
<1>11. w \in Seq(Int \X Int) /\ q \in Int \X Int /\ Near(w[Len(w)], q)
  BY <1>9, <1>10 DEF IsWalk, q
<1>12. IsWalk(<<q>>, q)
  <2>1. <<q>> \in Seq(Int \X Int) /\ Len(<<q>>) = 1 /\ <<q>>[1] = q BY <1>11
  <2>2. CanWalk(walkable, q[1], q[2]) BY <1>10 DEF q
  <2>3. \A i \in 1 .. 1 : i = 1 OBVIOUS
  <2>4. \A i \in 1 .. 1 - 1 : FALSE OBVIOUS
  <2> HIDE DEF q
  <2> QED BY <2>1, <2>2, <2>3, <2>4 DEF IsWalk
<1>13. IsWalk(w \o <<q>>, p[1]) /\ Last(w \o <<q>>) = q
  <2>1. Len(<<q>>) = 1 /\ <<q>>[1] = q OBVIOUS
  <2>2. (w \o <<q>>)[Len(w \o <<q>>)] = <<q>>[Len(<<q>>)] /\ IsWalk(w \o <<q>>, p[1])
    BY <1>9, <1>11, <1>12, WalksJoin
  <2> QED BY <2>1, <2>2 DEF Last
<1>14. ExpandPath(p) = w \o <<q>>
  <2>1. Append(w, q) = w \o <<q>> BY <1>11, AppendIsConcat
  <2> QED BY <1>2, <1>10, <2>1 DEF q
<1> QED BY <1>10, <1>13, <1>14 DEF q
\* In the first call the only node without a parent that is opened is the start.
Rooted == calls < 2 => \A n \in opened : parent[n] = Null => n = begin_node_

\* A node that is opened later hangs from the one being expanded.
LEMMA RootedKept ==
  ASSUME ControlOK, StateOK, Fresh, Rooted, [AnyNext]_vars
  PROVE  Rooted'
<1>1. CASE AnyMap \/ Pop \/ Quiet
  <2>1. calls' = calls /\ opened' = opened /\ parent' = parent /\ begin_node_' = begin_node_
    BY <1>1 DEF AnyMap, InitFrom, Pop, Quiet, nodes, scores, goal
  <2> QED BY <2>1 DEF Rooted
<1>2. CASE CallOutside
  <2>1. calls' = calls + 1 /\ calls \in Nat /\ opened' \subseteq opened
    BY <1>2 DEF CallOutside, ClearFirst, ControlOK, nodes
  <2>2. calls' < 2 => opened' = {} BY <2>1 DEF Fresh
  <2> QED BY <2>2 DEF Rooted
<1>3. CASE AnyCall
  <2>1. PICK s \in Starts, e \in Ends : Call(s, e) BY <1>3 DEF AnyCall
  <2>2. calls' = calls + 1 /\ calls \in Nat BY <2>1 DEF Call, ControlOK
  <2>3. opened' = (opened \ {Base}) \cup {NodeOf(s)} /\ begin_node_' = NodeOf(s) BY <2>1 DEF Call
  <2>4. calls' < 2 => opened = {} BY <2>2 DEF Fresh
  <2>5. calls' < 2 => \A n \in opened' : n = begin_node_' BY <2>3, <2>4
  <2> QED BY <2>5 DEF Rooted
<1>4. CASE Relax
  <2>1. calls' = calls /\ begin_node_' = begin_node_ /\ pc = "expand" BY <1>4 DEF Relax, goal
  <2>2. PICK k \in walkable :
          /\ NodeOf(k) \in Nodes
          /\ IF NodeOf(k) \notin opened \/ g[node] + Hop(node, NodeOf(k)) < g[NodeOf(k)]
             THEN Improve(NodeOf(k), g[node] + Hop(node, NodeOf(k))) /\ Open(NodeOf(k))
             ELSE UNCHANGED <<scores, opened, open_list_>>
    BY <1>4, Relaxed
  <2> DEFINE j == NodeOf(k)
  <2>3. \/ opened' = opened /\ parent' = parent
        \/ opened' = opened \cup {j} /\ parent' = [parent EXCEPT ![j] = node]
    BY <2>2 DEF Improve, Open, scores
  <2>4. node # Null /\ j \in Nodes
    <3>1. node \in Used BY <2>1 DEF ControlOK
    <3> QED BY <2>2, <3>1 DEF Used, Null
  <2>5. opened \subseteq Nodes
    <3>1. Used \subseteq Nodes BY UsedAreNodes DEF ControlOK
    <3> QED BY <3>1 DEF StateOK
  <2> HIDE DEF j
  <2>6. ASSUME NEW n \in opened', parent'[n] = Null
        PROVE  n \in opened /\ parent[n] = Null
    <3>1. CASE opened' = opened /\ parent' = parent BY <2>6, <3>1
    <3>2. CASE opened' = opened \cup {j} /\ parent' = [parent EXCEPT ![j] = node]
      <4>1. parent \in [Nodes -> Used \cup {Null}] BY DEF StateOK
      <4>2. n \in Nodes BY <2>4, <2>5, <3>2
      <4>3. n # j BY <2>4, <2>6, <3>2, <4>1
      <4> QED BY <2>6, <3>2, <4>1, <4>2, <4>3
    <3> QED BY <2>3, <3>1, <3>2
  <2> QED BY <2>1, <2>6 DEF Rooted
<1> QED BY <1>1, <1>2, <1>3, <1>4, StepClasses

\* The path is only there after a call.
PathAfter == pc # "idle" => path_ = << >>

\* A call clears it, and sets it when it returns.
LEMMA PathAfterKept ==
  ASSUME PathAfter, [AnyNext]_vars
  PROVE  PathAfter'
<1>1. CASE AnyMap \/ CallOutside \/ AnyCall
  <2>1. pc' = "idle" \/ path_' = << >>
    BY <1>1 DEF AnyMap, InitFrom, CallOutside, AnyCall, Call
  <2> QED BY <2>1 DEF PathAfter
<1>2. CASE Step
  <2>1. pc # "idle" /\ (pc' = "idle" \/ path_' = path_)
    BY <1>2 DEF Step, GiveUp, ReachEnd, CrashAtEnd, HangAtEnd, Expand, Skip, JumpForever,
                Relax, Expanded, Pop
  <2> QED BY <2>1 DEF PathAfter
<1>3. CASE UNCHANGED vars BY <1>3 DEF vars, PathAfter
<1> QED BY <1>1, <1>2, <1>3 DEF AnyNext

\* p leads to the end, and in the first call from the start.
RouteToEnd(p) ==
  /\ IsRoute(p) /\ Last(p) = Place(end_node_)
  /\ calls = 1 => IsHop(Place(begin_node_), p[1])

\* What backtrace() finds on the first map, if that is walled.
LEMMA BacktraceIsRoute ==
  ASSUME ControlOK, StateOK, OnlyWalkableEntered, AddUp, OpenListIsFrontier, HopsOK, Rooted,
         Walled, inits = 1, end_node_ \in Used, end_node_ \in ToSet(open_list_),
         parent[end_node_] # Null, Depths(end_node_) # {}
  PROVE  RouteToEnd(Backtrace(end_node_))
<1>0. /\ Used \subseteq Nodes /\ Null \notin Nodes /\ Placed /\ HopsAreClear
      /\ parent \in [Nodes -> Used \cup {Null}] /\ parent \in [Nodes -> Nodes \cup {Null}]
  <2>1. Used \subseteq Nodes BY UsedAreNodes DEF ControlOK
  <2>2. parent \in [Nodes -> Used \cup {Null}] BY DEF StateOK
  <2>3. parent \in [Nodes -> Nodes \cup {Null}] BY <2>1, <2>2
  <2>4. Null \notin Nodes BY DEF Null, Nodes
  <2>5. Placed /\ HopsAreClear BY DEF HopsOK
  <2> QED BY <2>1, <2>2, <2>3, <2>4, <2>5
<1> DEFINE d == CHOOSE i \in Depths(end_node_) : TRUE
<1>1. d \in Depths(end_node_) OBVIOUS
<1>2. Backtrace(end_node_) = [i \in 1 .. d |-> Place(Ancestor(end_node_, d - i))]
  BY DEF Backtrace
<1> HIDE DEF d
<1>3. d \in Nat /\ Ancestor(end_node_, d) # Null /\ parent[Ancestor(end_node_, d)] = Null
  BY <1>1 DEF Depths
<1>4. PICK b : IsChain(b, end_node_, d) BY <1>0, <1>3, ChainExists
<1>5. \A i \in 0 .. d : Ancestor(end_node_, i) = b[i] BY <1>0, <1>3, <1>4, AncestorChain
<1>6. b[d] # Null /\ parent[b[d]] = Null /\ b[0] = end_node_ /\ 0 \in 0 .. d /\ d \in 0 .. d
  BY <1>3, <1>4, <1>5 DEF IsChain
<1>7. \A i \in 0 .. d : b[i] \in Nodes BY <1>3, <1>4, <1>6, ChainBelow
<1>8. d # 0 BY <1>6
<1>9. \A k \in 0 .. d - 1 : b[k + 1] = parent[b[k]]
  <2> TAKE k \in 0 .. d - 1
  <2>1. k + 1 \in 1 .. d /\ (k + 1) - 1 = k /\ k \in 0 .. d BY <1>3
  <2>2. b[k + 1] = Up[b[k]]
    <3>1. b[k + 1] = Up[b[(k + 1) - 1]] BY <1>4, <2>1 DEF IsChain
    <3> QED BY <2>1, <3>1
  <2>3. b[k] \in Nodes BY <1>7, <2>1
  <2> QED BY <1>0, <2>2, <2>3 DEF Up
<1>10. \A k \in 0 .. d : b[k] \in Used
  <2> TAKE k \in 0 .. d
  <2>1. CASE k = 0 BY <1>6, <2>1
  <2>2. CASE k # 0
    <3>1. k - 1 \in 0 .. d - 1 /\ (k - 1) + 1 = k /\ k - 1 \in 0 .. d BY <1>3, <2>2
    <3>2. b[(k - 1) + 1] = parent[b[k - 1]] BY <1>9, <3>1
    <3>3. b[k] = parent[b[k - 1]] /\ b[k] \in Nodes /\ b[k - 1] \in Nodes BY <1>7, <3>1, <3>2
    <3> QED BY <1>0, <3>3
  <2> QED BY <2>1, <2>2
<1>11. \A k \in 0 .. d : b[k] \in Current /\ b[k] = NodeOf(CellOf(b[k])) /\ b[k] \in Nat
  <2>1. inits \in 1 .. MaxInits /\ Base = 0
    <3>1. inits = 1 /\ Base = (1 - 1) * Size BY DEF Base
    <3>2. (1 - 1) * Size = 0 BY SizeIsPositive
    <3> QED BY <3>1, <3>2 DEF ControlOK
  <2>2. TAKE k \in 0 .. d
  <2>3. b[k] \in Used /\ b[k] >= Base BY <1>10, <2>1 DEF Used
  <2> QED BY <2>1, <2>3, CurrentNodes DEF Used
<1>12. \A k \in 0 .. d - 1 : IsHop(Place(b[k + 1]), Place(b[k]))
  <2> TAKE k \in 0 .. d - 1
  <2>1. k \in 0 .. d /\ k + 1 \in 0 .. d /\ b[k + 1] = parent[b[k]] BY <1>3, <1>9
  <2>2. b[k] \in Current /\ b[k + 1] \in Current /\ b[k + 1] # Null BY <1>0, <1>7, <1>11, <2>1
  <2>3. parent[b[k]] \in Current /\ parent[b[k]] # Null BY <2>1, <2>2
  <2>4. IsHop(Place(parent[b[k]]), Place(b[k])) BY <1>0, <2>2, <2>3 DEF HopsAreClear
  <2> QED BY <2>1, <2>4
<1>13. ASSUME NEW k \in 0 .. d - 1
       PROVE  /\ Place(b[k]) \in Int \X Int
              /\ CanWalk(walkable, Place(b[k])[1], Place(b[k])[2])
  <2>1. k \in 0 .. d /\ k + 1 \in 0 .. d /\ b[k + 1] = parent[b[k]] BY <1>3, <1>9
  <2>2. parent[b[k]] # Null BY <1>0, <1>7, <2>1
  <2> DEFINE c == CellOf(b[k])
  <2>3. /\ PX(b[k]) = X(c) /\ PY(b[k]) = Y(c) /\ Place(b[k]) = <<PX(b[k]), PY(b[k])>>
        /\ PX(b[k]) \in Nat /\ PY(b[k]) \in Nat /\ c \in Cells
    BY <1>0, <1>11, <2>1, OwnPlace DEF StateOK, Placed
  <2>4. b[k] = NodeOf(c) BY <1>11, <2>1
  <2> HIDE DEF c
  <2>5. c \in walkable
    <3> SUFFICES ASSUME c \in Cells \ walkable PROVE FALSE BY <2>3
    <3>1. b[k] \in {NodeOf(i) : i \in Cells \ walkable} BY <2>4
    <3> QED BY <2>2, <3>1 DEF OnlyWalkableEntered
  <2>6. IsInside(X(c), Y(c)) BY <2>3, CellIsInside
  <2>7. GetCell(X(c), Y(c)) = c
    <3>1. c \in Nat BY <2>3, SizeIsPositive
    <3> QED BY <3>1, Coordinates
  <2>8. CanWalk(walkable, X(c), Y(c)) BY <2>5, <2>6, <2>7 DEF CanWalk
  <2>9. Place(b[k])[1] = X(c) /\ Place(b[k])[2] = Y(c) BY <2>3
  <2> QED BY <2>3, <2>8, <2>9
<1> DEFINE p == Backtrace(end_node_)
<1>14. /\ DOMAIN p = 1 .. d /\ p = [i \in 1 .. d |-> Place(b[d - i])]
  <2>1. \A i \in 1 .. d : d - i \in 0 .. d BY <1>3
  <2>2. \A i \in 1 .. d : Ancestor(end_node_, d - i) = b[d - i] BY <1>5, <2>1
  <2> QED BY <1>2, <2>2
<1> HIDE DEF p
<1>15. \A i \in 1 .. d : d - i \in 0 .. d - 1 /\ p[i] = Place(b[d - i]) BY <1>3, <1>14
<1>16. p \in Seq(Int \X Int) /\ Len(p) = d
  <2>1. \A i \in 1 .. d : Place(b[d - i]) \in Int \X Int BY <1>13, <1>15
  <2> QED BY <1>3, <1>14, <2>1
<1>17. \A i \in 1 .. d : CanWalk(walkable, p[i][1], p[i][2]) BY <1>13, <1>15
<1>18. \A i \in 1 .. d - 1 : IsHop(p[i], p[i + 1])
  <2> TAKE i \in 1 .. d - 1
  <2>1. /\ i \in 1 .. d /\ i + 1 \in 1 .. d /\ d - (i + 1) \in 0 .. d - 1
        /\ (d - (i + 1)) + 1 = d - i
    BY <1>3
  <2>2. p[i] = Place(b[d - i]) /\ p[i + 1] = Place(b[d - (i + 1)]) BY <1>15, <2>1
  <2>3. IsHop(Place(b[(d - (i + 1)) + 1]), Place(b[d - (i + 1)])) BY <1>12, <2>1
  <2> QED BY <2>1, <2>2, <2>3
<1>19. IsRoute(p) BY <1>8, <1>16, <1>17, <1>18 DEF IsRoute
<1>20. Last(p) = Place(end_node_)
  <2>1. d \in 1 .. d /\ d - d = 0 BY <1>3, <1>8
  <2>2. p[d] = Place(b[d - d]) BY <1>15, <2>1
  <2> QED BY <1>6, <1>16, <2>1, <2>2 DEF Last
<1>21. ASSUME calls = 1 PROVE IsHop(Place(begin_node_), p[1])
  <2>1. 1 \in 1 .. d /\ d - 1 \in 0 .. d - 1 /\ (d - 1) + 1 = d /\ d - 1 \in 0 .. d
    BY <1>3, <1>8
  <2>2. b[(d - 1) + 1] = parent[b[d - 1]] BY <1>9, <2>1
  <2>3. b[d] = parent[b[d - 1]] /\ b[d] \in Nodes /\ b[d - 1] \in Nodes BY <1>6, <1>7, <2>1, <2>2
  <2>4. b[d] \in closed /\ closed \subseteq opened
    BY <1>21, <2>3 DEF AddUp, CostOf, OpenListIsFrontier
  <2>5. b[d] = begin_node_ BY <1>6, <1>21, <2>4 DEF Rooted
  <2>6. IsHop(Place(b[(d - 1) + 1]), Place(b[d - 1])) /\ p[1] = Place(b[d - 1])
    BY <1>12, <1>15, <2>1
  <2> QED BY <2>1, <2>5, <2>6
<1> QED BY <1>19, <1>20, <1>21 DEF RouteToEnd, p
\* path_ leads to the end, on the first map.
RouteFound ==
  Walled /\ pc = "idle" /\ path_ # << >> /\ inits = 1 => RouteToEnd(path_)

\* It is cleared by the next call, and no map is replaced before init() is called again.
LEMMA RouteFoundKept ==
  ASSUME IInv, HopsOK, Rooted, PathAfter, RouteFound, [Next]_vars
  PROVE  RouteFound'
<1>0. /\ ControlOK /\ StateOK /\ OnlyWalkableEntered /\ AddUp /\ OpenListIsFrontier
      /\ [AnyNext]_vars
  BY NextIsAnyNext DEF IInv
<1>1. CASE ReachEnd
  <2>1. /\ Pop /\ Head(open_list_) = end_node_ /\ parent[end_node_] # Null
        /\ Depths(end_node_) # {} /\ path_' = Backtrace(end_node_)
    BY <1>1 DEF ReachEnd
  <2>2. /\ end_node_ \in Used /\ UNCHANGED grid /\ calls' = calls
        /\ begin_node_' = begin_node_ /\ end_node_' = end_node_
    BY <1>0, <2>1, PopTypes
  <2>3. end_node_ \in ToSet(open_list_)
    <3>1. open_list_ \in Seq(Used) /\ open_list_ # << >> BY <1>0, <2>1 DEF Pop, StateOK
    <3> QED BY <2>1, <3>1, FrontTaken
  <2>4. /\ inits' = inits /\ walkable' = walkable /\ displaced' = displaced
        /\ Inner' = Inner
    BY <2>2, GridStays, InnerStays
  <2>5. Walled /\ inits = 1 => RouteToEnd(path_')
    BY <1>0, <2>1, <2>2, <2>3, BacktraceIsRoute
  <2>6. Walled' <=> Walled BY <2>4 DEF Walled
  <2>7. RouteToEnd(path_)' <=> RouteToEnd(path_')
    BY <2>2, <2>4 DEF RouteToEnd, IsRoute, IsHop, Place
  <2> QED BY <2>4, <2>5, <2>6, <2>7 DEF RouteFound
<1>2. CASE AnyMap
  <2>1. inits' = inits + 1 /\ path_' = path_ /\ inits \in Nat
    BY <1>0, <1>2 DEF AnyMap, InitFrom, ControlOK
  <2>2. inits = 0 => path_ = << >> BY <1>0 DEF ControlOK, PathAfter
  <2>3. inits' = 1 => path_' = << >> BY <2>1, <2>2
  <2> QED BY <2>3 DEF RouteFound
<1>3. CASE CallOutside \/ AnyCall
  <2>1. path_' = << >> BY <1>3 DEF CallOutside, AnyCall, Call
  <2> QED BY <2>1 DEF RouteFound
<1>4. CASE GiveUp \/ CrashAtEnd \/ HangAtEnd \/ Expand \/ Skip \/ JumpForever \/ Relax \/ Expanded
  <2>1. pc # "idle" /\ (pc' # "idle" \/ path_' = path_)
    BY <1>4 DEF GiveUp, CrashAtEnd, HangAtEnd, Expand, Skip, JumpForever, Relax, Expanded, Pop
  <2> QED BY <2>1 DEF PathAfter, RouteFound
<1>5. CASE UNCHANGED vars
  <2>1. /\ pc' = pc /\ path_' = path_ /\ inits' = inits /\ walkable' = walkable
        /\ displaced' = displaced /\ calls' = calls /\ end_node_' = end_node_
        /\ begin_node_' = begin_node_ /\ Inner' = Inner
    BY <1>5, InnerStays DEF vars, grid, goal
  <2>2. Walled' <=> Walled BY <2>1 DEF Walled
  <2>3. RouteToEnd(path_)' <=> RouteToEnd(path_)
    BY <2>1 DEF RouteToEnd, IsRoute, IsHop, Place
  <2> QED BY <2>1, <2>2, <2>3 DEF RouteFound
<1> QED BY <1>0, <1>1, <1>2, <1>3, <1>4, <1>5 DEF AnyNext, Step

\* What expandpath() makes of such a path is what ReturnedIsWalk says.
LEMMA RouteIsReturned ==
  ASSUME RouteFound, Walled
  PROVE  ReturnedIsWalk
<1> SUFFICES ASSUME pc = "idle", path_ # << >>, inits = 1
             PROVE  LET returned == ExpandPath(path_)
                    IN /\ \A p \in ToSet(returned) : CanWalk(walkable, p[1], p[2])
                       /\ \A i \in 1 .. Len(returned) - 1 :
                            Larger(Abs(returned[i + 1][1] - returned[i][1]),
                                   Abs(returned[i + 1][2] - returned[i][2])) = 1
                       /\ calls = 1 => IsHop(Place(begin_node_), path_[1])
                       /\ IF returned = << >> THEN path_ = <<Place(end_node_)>>
                          ELSE Last(returned) = Place(end_node_)
  BY DEF ReturnedIsWalk
<1> DEFINE r == ExpandPath(path_)
<1>1. /\ IsRoute(path_) /\ Last(path_) = Place(end_node_)
      /\ calls = 1 => IsHop(Place(begin_node_), path_[1])
  BY DEF RouteFound, RouteToEnd
<1>2. path_ \in Seq(Int \X Int) /\ Len(path_) \in Nat \ {0}
  BY <1>1, LenProperties DEF IsRoute
<1>3. CASE Len(path_) = 1
  <2>1. r = << >> BY <1>3 DEF ExpandPath
  <2>2. ToSet(<< >>) = {} /\ Len(<< >>) = 0
    <3>1. DOMAIN << >> = {} BY EmptySeq
    <3> QED BY <3>1, EmptySeq DEF ToSet
  <2>3. path_ = <<Place(end_node_)>>
    <3>1. path_[1] = Place(end_node_) BY <1>1, <1>3 DEF Last
    <3> QED BY <1>2, <1>3, <3>1
  <2>4. \A i \in 1 .. 0 - 1 : FALSE OBVIOUS
  <2> HIDE DEF r
  <2> QED BY <1>1, <2>1, <2>2, <2>3, <2>4 DEF r
<1>4. CASE Len(path_) # 1
  <2>1. IsWalk(r, path_[1]) /\ Last(r) = Place(end_node_)
    <3>1. Len(path_) >= 2
      <4>1. \A n \in Nat \ {0} : n # 1 => n >= 2 OBVIOUS
      <4>2. Len(path_) \in Nat \ {0} /\ Len(path_) # 1 BY <1>2, <1>4
      <4> QED BY <4>1, <4>2
    <3> QED BY <1>1, <3>1, RouteIsWalk
  <2> HIDE DEF r
  <2>2. /\ r \in Seq(Int \X Int) /\ Len(r) # 0 /\ DOMAIN r = 1 .. Len(r)
        /\ \A i \in 1 .. Len(r) : CanWalk(walkable, r[i][1], r[i][2])
        /\ \A i \in 1 .. Len(r) - 1 : Near(r[i], r[i + 1])
    BY <2>1, LenProperties DEF IsWalk
  <2>3. r # << >> BY <2>2, EmptySeq
  <2>4. \A p \in ToSet(r) : CanWalk(walkable, p[1], p[2]) BY <2>2 DEF ToSet
  <2>5. \A i \in 1 .. Len(r) - 1 : Larger(Abs(r[i + 1][1] - r[i][1]),
                                          Abs(r[i + 1][2] - r[i][2])) = 1
    BY <2>2 DEF Near
  <2> QED BY <1>1, <2>1, <2>3, <2>4, <2>5 DEF r
<1> QED BY <1>3, <1>4

\* On a walled map the points that find_path() returns are a walk to the end, however
\* many calls have been made of the finder; in the first call path_ starts in a clear
\* line from the start.
THEOREM PathsAreWalks == Spec => [](Walled => ReturnedIsWalk)
<1>1. Init => Rooted /\ PathAfter /\ RouteFound BY DEF Init, Rooted, PathAfter, RouteFound
<1>2. IInv /\ HopsOK /\ Rooted /\ PathAfter /\ RouteFound /\ [Next]_vars
      => (Rooted /\ PathAfter /\ RouteFound)'
  BY RootedKept, PathAfterKept, RouteFoundKept, NextIsAnyNext DEF IInv
<1>3. RouteFound => (Walled => ReturnedIsWalk) BY RouteIsReturned
<1> QED BY <1>1, <1>2, <1>3, InductiveInvariant, HopsInvariant, PTL DEF Spec
================================================================================
