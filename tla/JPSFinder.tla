------------------------------- MODULE JPSFinder -------------------------------
(***************************************************************************)
(* JPSFinder (src/jps/JPSFinder.h, JPSFinder.cc): one finder object, its   *)
(* map, and a sequence of calls of find_path() on it.  The state of the    *)
(* nodes and open_list_ stay in the object from one call to the next.      *)
(*                                                                         *)
(* One action per round of the loops of find_path and identify_successors. *)
(***************************************************************************)
EXTENDS Grid, FiniteSets, SequencesExt

CONSTANTS
  Maps,       \* what is given to init(): a size, and the cells that are walkable
  Starts, Ends, \* the cells find_path() is called with
  StrayX,     \* what may be read as data.x (and data.y) outside the array
  MaxInits,   \* bound: calls of init()
  MaxCalls    \* bound: calls of find_path()

Null == -1    \* nullptr

\* The cells of a grid of size d.
Area(d) == {n \in Cells : X(n) < d[1] /\ Y(n) < d[2]}

Sizes == (1 .. Width) \X (1 .. Height)

ASSUME FinderAssumption ==
  /\ \A m \in Maps : m.size \in Sizes /\ m.walkable \subseteq Area(m.size)
  /\ Starts \subseteq Cells /\ Ends \subseteq Cells
  /\ StrayX \subseteq Int
  /\ MaxInits \in Nat \ {0} /\ MaxCalls \in Nat

\* Every call of init() allocates a new array, and nobody frees the one before:
\* the nodes are numbered through all of them, Size for each.
Size == Width * Height
Nodes == 0 .. MaxInits * Size - 1

VARIABLES
  pc,                 \* "new", "idle", "search", "expand", "crashed", "hung"
  calls,
  inits,
  dims,               \* <<width_, heigth_>> of the grid
  walkable,           \* the map copied by init()
  displaced,          \* data.x and .y of the cells that are not told their place
  f, g, h, parent,    \* members of the nodes
  opened, closed,     \* the nodes whose flag is set
  open_list_,
  begin_node_, end_node_,
  path_,
  node, cells         \* locals: the node being expanded, its neighbours left

scores == <<f, g, h, parent>>
grid   == <<inits, dims, walkable, displaced>>
nodes  == <<scores, opened, closed>>
goal   == <<begin_node_, end_node_>>
locals == <<node, cells>>
vars == <<pc, calls, grid, nodes, open_list_, goal, path_, locals>>
-----------------------------------------------------------------------------
(* init() *)

\* The first node of the current array.
Base == IF inits = 0 THEN 0 ELSE (inits - 1) * Size

\* The node of cell i, and the cell of a node.
NodeOf(i) == Base + i
CellOf(n) == n % Size

\* data.x and .y of a node.
Place(n) == IF n \in DOMAIN displaced THEN displaced[n] ELSE <<X(CellOf(n)), Y(CellOf(n))>>
PX(n) == Place(n)[1]
PY(n) == Place(n)[2]

CanInit == pc \in {"new", "idle"} /\ inits < MaxInits

\* The list, and through it the nodes of the old array, stay as they are, also those
\* that are not inside the new grid.
InitFrom(M, places, d) ==
  /\ pc' = "idle"
  /\ inits' = inits + 1
  /\ dims' = d
  /\ walkable' = M
  /\ displaced' = [n \in DOMAIN displaced \cup {inits * Size + i : i \in DOMAIN places} |->
                    IF n < inits * Size THEN displaced[n] ELSE places[CellOf(n)]]
  /\ UNCHANGED <<calls, nodes, open_list_, goal, path_, locals>>

InitMap == CanInit /\ \E m \in Maps : InitFrom(m.walkable, << >>, m.size)

\* find_path() before init(), or with a point outside the grid: nothing but the
\* clearing at its start.  The loop over the cells clears the first node
\* every time.
ClearFirst ==
  /\ f' = [f EXCEPT ![Base] = 0]
  /\ g' = [g EXCEPT ![Base] = 0]
  /\ h' = [h EXCEPT ![Base] = 0]
  /\ parent' = [parent EXCEPT ![Base] = Null]
  /\ opened' = opened \ {Base}
  /\ closed' = closed \ {Base}

CallOutside ==
  /\ pc \in {"new", "idle"} /\ calls < MaxCalls
  /\ calls' = calls + 1
  /\ IF pc = "new" THEN UNCHANGED nodes ELSE ClearFirst
  /\ path_' = << >>
  /\ UNCHANGED <<pc, grid, open_list_, goal, locals>>

Call(s, e) ==
  /\ pc = "idle" /\ calls < MaxCalls
  /\ {s, e} \subseteq Area(dims)
  /\ calls' = calls + 1
  /\ pc' = "search"
  /\ path_' = << >>
  /\ begin_node_' = NodeOf(s) /\ end_node_' = NodeOf(e)
  /\ f' = [f EXCEPT ![Base] = 0, ![NodeOf(s)] = 0]
  /\ g' = [g EXCEPT ![Base] = 0, ![NodeOf(s)] = 0]
  /\ h' = [h EXCEPT ![Base] = 0]
  /\ parent' = [parent EXCEPT ![Base] = Null]
  /\ opened' = (opened \ {Base}) \cup {NodeOf(s)}
  /\ closed' = closed \ {Base}
  /\ open_list_' = Append(open_list_, NodeOf(s))
  /\ UNCHANGED <<grid, locals>>
-----------------------------------------------------------------------------
(* The loop of find_path() *)

\* The i-th ancestor of n.
Ancestor(n, i) ==
  LET up == [m \in Nodes \cup {Null} |-> IF m = Null THEN Null ELSE parent[m]]
      a[k \in 0 .. i] == IF k = 0 THEN n ELSE up[a[k - 1]]
  IN a[i]

\* backtrace() follows the parents up to a node without one, which it leaves out.
Depths(n) == {i \in 0 .. MaxInits * Size - 1 :
                Ancestor(n, i) # Null /\ parent[Ancestor(n, i)] = Null}

\* Mutant of Backtrace: the points are added at the other end.
BacktraceForwards(n) ==
  LET d == CHOOSE i \in Depths(n) : TRUE
  IN [i \in 1 .. d |-> Place(Ancestor(n, i - 1))]

Backtrace(n) ==
  LET d == CHOOSE i \in Depths(n) : TRUE
  IN [i \in 1 .. d |-> Place(Ancestor(n, d - i))]

GiveUp ==
  /\ pc = "search" /\ open_list_ = << >>
  /\ pc' = "idle"
  /\ UNCHANGED <<calls, grid, nodes, open_list_, goal, path_, locals>>

\* Mutant of Pop: the node is not closed.
PopWithoutClosing ==
  /\ pc = "search" /\ open_list_ # << >>
  /\ open_list_' = Tail(open_list_)
  /\ UNCHANGED <<calls, grid, scores, opened, closed, goal>>

\* Mutant of Pop: the node stays in the list.
Peek ==
  /\ pc = "search" /\ open_list_ # << >>
  /\ closed' = closed \cup {Head(open_list_)}
  /\ UNCHANGED <<calls, grid, scores, opened, open_list_, goal>>

\* Take the front node and close it.
Pop ==
  /\ pc = "search" /\ open_list_ # << >>
  /\ open_list_' = Tail(open_list_)
  /\ closed' = closed \cup {Head(open_list_)}
  /\ UNCHANGED <<calls, grid, scores, opened, goal>>

ReachEnd ==
  /\ Pop
  /\ Head(open_list_) = end_node_
  /\ parent[end_node_] # Null /\ Depths(end_node_) # {}
  /\ pc' = "idle"
  /\ path_' = Backtrace(end_node_)
  /\ UNCHANGED locals

\* The do-while of backtrace() reads node->parent of a null pointer.
CrashAtEnd ==
  /\ Pop
  /\ Head(open_list_) = end_node_
  /\ parent[end_node_] = Null
  /\ pc' = "crashed"
  /\ UNCHANGED <<path_, locals>>

\* The parents of the end node form a cycle.
HangAtEnd ==
  /\ Pop
  /\ Head(open_list_) = end_node_
  /\ Depths(end_node_) = {}
  /\ pc' = "hung"
  /\ UNCHANGED <<path_, locals>>

FindNeighbors(n) ==
  IF parent[n] = Null THEN GetNeighbors(walkable, PX(n), PY(n))
  ELSE PrunedNeighbors(walkable, dims, PX(n), PY(n),
                       Sign(PX(n) - PX(parent[n])), Sign(PY(n) - PY(parent[n])))

Expand ==
  /\ Pop
  /\ Head(open_list_) # end_node_
  /\ pc' = "expand"
  /\ node' = Head(open_list_)
  /\ cells' = FindNeighbors(Head(open_list_))
  /\ UNCHANGED path_
-----------------------------------------------------------------------------
(* The loop of identify_successors() *)

\* (*itr)->data.x and .y; a neighbour outside the array yields anything.
DataOf(i) == IF i \in Cells THEN {Place(NodeOf(i))} ELSE StrayX \X StrayX

JumpFrom(at) ==
  Jump(walkable, CellOf(end_node_), at[1], at[2], at[1] - PX(node), at[2] - PY(node))

\* What jump() may return for neighbour i.
Jumps(i) == {JumpFrom(at) : at \in DataOf(i)}

\* list::sort by f, which is stable: i goes before j.
Before(s, score, i, j) ==
  score[s[i]] < score[s[j]] \/ (score[s[i]] = score[s[j]] /\ i < j)

StableSort(s, score) ==
  LET rank(i) == Cardinality({j \in DOMAIN s : Before(s, score, j, i)}) + 1
  IN [k \in DOMAIN s |-> s[CHOOSE i \in DOMAIN s : rank(i) = k]]

\* jumpnode->closed
IsClosed(j) == j \in closed

Skip ==
  /\ pc = "expand" /\ cells # << >>
  /\ \E i \in Jumps(Head(cells)) : i = NoJump \/ (i \in Cells /\ IsClosed(NodeOf(i)))
  /\ cells' = Tail(cells)
  /\ UNCHANGED <<pc, calls, grid, nodes, open_list_, goal, path_, node>>

JumpForever ==
  /\ pc = "expand" /\ cells # << >>
  /\ Endless \in Jumps(Head(cells))
  /\ pc' = "hung"
  /\ UNCHANGED <<calls, grid, nodes, open_list_, goal, path_, locals>>

\* The distances from a node reached at its own cell.
Estimate(j) == Manhattan(Abs(X(CellOf(j)) - PX(end_node_)), Abs(Y(CellOf(j)) - PY(end_node_)))
Hop(p, j) == Octile(Abs(X(CellOf(j)) - PX(p)), Abs(Y(CellOf(j)) - PY(p)))

\* Mutant of Improve: the parent is forgotten.
ImproveCosts(j, cost) ==
  /\ g' = [g EXCEPT ![j] = cost]
  /\ h' = [h EXCEPT ![j] = IF @ = 0 THEN Estimate(j) ELSE @]
  /\ f' = [f EXCEPT ![j] = g'[j] + h'[j]]
  /\ UNCHANGED parent

\* Mutant of Improve: f is computed before h.
ImproveBeforeEstimate(j, cost) ==
  /\ g' = [g EXCEPT ![j] = cost]
  /\ f' = [f EXCEPT ![j] = cost + h[j]]
  /\ h' = [h EXCEPT ![j] = IF @ = 0 THEN Estimate(j) ELSE @]
  /\ parent' = [parent EXCEPT ![j] = node]

\* Set the costs and the parent of j; h is computed once.
Improve(j, cost) ==
  /\ g' = [g EXCEPT ![j] = cost]
  /\ h' = [h EXCEPT ![j] = IF @ = 0 THEN Estimate(j) ELSE @]
  /\ f' = [f EXCEPT ![j] = g'[j] + h'[j]]
  /\ parent' = [parent EXCEPT ![j] = node]

\* Only a new node makes the list be sorted again.
Open(j) ==
  /\ open_list_' = IF j \in opened THEN open_list_
                   ELSE StableSort(Append(open_list_, j), f')
  /\ opened' = opened \cup {j}

\* A jump point that is not closed is improved if it is new or cheaper this way.
Relax ==
  /\ pc = "expand" /\ cells # << >>
  /\ \E i \in Jumps(Head(cells)) \cap Cells :
       LET j    == NodeOf(i)
           cost == g[node] + Hop(node, j)
       IN /\ ~IsClosed(j)
          /\ IF j \notin opened \/ cost < g[j]
             THEN Improve(j, cost) /\ Open(j)
             ELSE UNCHANGED <<scores, opened, open_list_>>
  /\ cells' = Tail(cells)
  /\ UNCHANGED <<pc, calls, grid, closed, goal, path_, node>>

Expanded ==
  /\ pc = "expand" /\ cells = << >>
  /\ pc' = "search"
  /\ UNCHANGED <<calls, grid, nodes, open_list_, goal, path_, locals>>
-----------------------------------------------------------------------------
Init ==
  /\ pc = "new" /\ calls = 0
  /\ inits = 0 /\ dims = <<0, 0>> /\ walkable = {} /\ displaced = << >>
  /\ f = [n \in Nodes |-> 0] /\ g = [n \in Nodes |-> 0] /\ h = [n \in Nodes |-> 0]
  /\ parent = [n \in Nodes |-> Null]
  /\ opened = {} /\ closed = {}
  /\ open_list_ = << >>
  /\ begin_node_ = Null /\ end_node_ = Null
  /\ path_ = << >>
  /\ node = Null /\ cells = << >>

Step ==
  \/ GiveUp \/ ReachEnd \/ CrashAtEnd \/ HangAtEnd \/ Expand
  \/ Skip \/ JumpForever \/ Relax \/ Expanded

Next ==
  \/ InitMap
  \/ CallOutside
  \/ \E s \in Starts, e \in Ends : Call(s, e)
  \/ Step

Spec == Init /\ [][Next]_vars

\* The thread that calls find_path() keeps running.
FairSpec == Spec /\ WF_vars(Step)
-----------------------------------------------------------------------------
(* What find_path() returns *)

\* Mutant of ExpandPath: the lines are joined with both their end points.
ExpandWhole(p) ==
  IF Len(p) < 2 THEN << >>
  ELSE FlattenSeq([i \in 1 .. Len(p) - 1 |-> Interpolate(p[i], p[i + 1])])

\* expandpath(): the lines between the points of path_, each without its last
\* point; nothing when path_ is shorter than two.
ExpandPath(p) ==
  IF Len(p) < 2 THEN << >>
  ELSE Append(FlattenSeq([i \in 1 .. Len(p) - 1 |-> Front(Interpolate(p[i], p[i + 1]))]),
              Last(p))
-----------------------------------------------------------------------------
(* Properties *)

\* The nodes of the map that is searched.
Current == {NodeOf(i) : i \in Cells}

TypeOK ==
  /\ pc \in {"new", "idle", "search", "expand", "crashed", "hung"}
  /\ calls \in 0 .. MaxCalls /\ inits \in 0 .. MaxInits
  /\ dims \in (0 .. Width) \X (0 .. Height)
  /\ walkable \subseteq Area(dims)
  /\ DOMAIN displaced \subseteq Nodes
  /\ f \in [Nodes -> Nat] /\ g \in [Nodes -> Nat] /\ h \in [Nodes -> Nat]
  /\ parent \in [Nodes -> Nodes \cup {Null}]
  /\ opened \subseteq Nodes /\ closed \subseteq Nodes
  /\ open_list_ \in Seq(Nodes) /\ path_ \in Seq(Nat \X Nat)
  /\ begin_node_ \in Nodes \cup {Null} /\ end_node_ \in Nodes \cup {Null}
  /\ node \in Nodes \cup {Null} /\ cells \in Seq(Int)

\* The cells of a grid that are not on its border, and the maps made of them.
InnerOf(d) == {n \in Cells : X(n) \in 1 .. d[1] - 2 /\ Y(n) \in 1 .. d[2] - 2}
Inner == InnerOf(dims)
Walled == walkable \subseteq Inner

\* On a walled map every neighbour considered is a node of the array, though the
\* forced neighbours are not tested for being inside the grid: all but those of a
\* node that an earlier call has left in the list, if init() has since given the
\* grid another size and the node is on its border or outside of it.
NoStrayRead ==
  Walled /\ (node \in Current \/ CellOf(node) \in Inner) =>
    \A i \in DOMAIN cells : cells[i] \in Cells

\* The cells after the point p, up to q, on a straight or diagonal line.
Straight(p, q) ==
  p # q /\ (p[1] = q[1] \/ p[2] = q[2] \/ Abs(p[1] - q[1]) = Abs(p[2] - q[2]))

Line(p, q) ==
  {GetCell(p[1] + i * Sign(q[1] - p[1]), p[2] + i * Sign(q[2] - p[2])) :
     i \in 1 .. Larger(Abs(q[1] - p[1]), Abs(q[2] - p[2]))}

IsHop(p, q) == Straight(p, q) /\ Line(p, q) \subseteq walkable

\* The ancestors of n.
Lineage(n) == {Ancestor(n, i) : i \in 0 .. Cardinality(Nodes) - 1}

\* On a walled map the hop to a node from its parent is a straight or diagonal line
\* of walkable cells, whatever earlier calls have left in the nodes, and even if the
\* parent is a node of a map that init() has replaced.  Only if such a parent is on
\* the border of the new grid, or outside of it, its neighbours may be outside the
\* array, and the hop anything; or it is at the very place that the search was to reach.
HopsAreClear ==
  Walled =>
    \A n \in Current : parent[n] # Null =>
      \/ IsHop(Place(parent[n]), Place(n))
      \/ /\ parent[n] \notin Current
         /\ CellOf(parent[n]) \notin Inner \/ Place(parent[n]) = Place(n)

\* In the first call the costs of a node are those of the way its parents show: a
\* node is not improved when other nodes hang from it, for then it is closed.
CostsAddUp ==
  calls < 2 =>
    \A n \in Nodes : parent[n] # Null =>
      LET p == parent[n]
      IN /\ g[n] = g[p] + Hop(p, n)
         /\ f[n] = g[n] + h[n]
         /\ p \in closed

\* In the first call a node that was opened is in open_list_, once, until it is
\* closed.
OpenListIsFrontier ==
  calls < 2 =>
    /\ IsInjective(open_list_)
    /\ ToSet(open_list_) = opened \ closed
    /\ closed \subseteq opened

\* The cells that can be reached from cell n by moves in the 8 directions.
Reachable(n) ==
  LET reach[i \in 0 .. Size] ==
        IF i = 0 THEN {n}
        ELSE LET near == reach[i - 1]
             IN near \cup {m \in walkable : \E k \in near :
                              Abs(X(m) - X(k)) <= 1 /\ Abs(Y(m) - Y(k)) <= 1}
  IN reach[Size]

\* Pruning, closing and the order of the open list lose no path: the list is empty,
\* and the search about to give up, only if no path exists.
FindsPathIfThereIsOne ==
  pc = "search" /\ open_list_ = << >> =>
     CellOf(end_node_) \notin Reachable(CellOf(begin_node_))

\* On the first map the points returned are walkable, each next to the one before,
\* and lead to the end, also when earlier calls have left parents in the nodes.
\* path_ leaves out the start: in the first call it is clear from there to the first
\* point, and the answer is empty, as if there were no path, when that is the end.
ReturnedIsWalk ==
  LET returned == ExpandPath(path_)
  IN pc = "idle" /\ path_ # << >> /\ inits = 1 =>
       /\ \A p \in ToSet(returned) : CanWalk(walkable, p[1], p[2])
       /\ \A i \in 1 .. Len(returned) - 1 :
            Larger(Abs(returned[i + 1][1] - returned[i][1]),
                   Abs(returned[i + 1][2] - returned[i][2])) = 1
       /\ calls = 1 => IsHop(Place(begin_node_), path_[1])
       /\ IF returned = << >> THEN path_ = <<Place(end_node_)>>
          ELSE Last(returned) = Place(end_node_)

\* Whatever a call leaves behind and whatever is read outside the array, only
\* walkable cells are ever entered: jump() tests again what find_neighbors did not.
\* A node that is opened and not walkable is one that a call started from.
OnlyWalkableEntered ==
  \A n \in {NodeOf(i) : i \in Cells \ walkable} :
     /\ parent[n] = Null
     /\ n \in opened => g[n] = 0

\* find_path() fails to return in three ways only.  It reads a null pointer when the
\* end has no parent: in find_path(s, s), or when an earlier call has started there,
\* or the first node is cleared, and left it in the list.  It hangs in a jump that
\* does not move: from a neighbour that is outside the array, was never told its
\* place, or, in a grid of one column, is the cell itself, or from a node at the
\* place of its own parent, which takes a neighbour of the first two kinds.  Or it
\* hangs over a cycle of parents, through the first node of an array: the only one
\* that the clearing of a later call forgets.
StopsHaveACause ==
  /\ pc = "crashed" => begin_node_ = end_node_ \/ (calls > 1 /\ g[end_node_] = 0)
  /\ pc = "hung" =>
       \/ /\ cells # << >>
          /\ \/ Head(cells) \notin Cells \/ dims[1] = 1
             \/ NodeOf(Head(cells)) \in DOMAIN displaced
             \/ parent[node] # Null /\ Place(parent[node]) = Place(node)
       \/ calls > 1 /\ \E k \in 0 .. inits - 1 : k * Size \in Lineage(end_node_)

\* A call of find_path() ends, if only in a crash, on a walled map; without the walls
\* it may hang, in one jump or over the parents, but no search goes on for ever.
CallsReturn == pc = "search" ~> pc \in {"idle", "crashed"} \/ (pc = "hung" /\ ~Walled)

\* JPSFinder.cc:102, "pop the position of node which has the minimum f value".
PopsMinimum ==
  [][Len(open_list_') < Len(open_list_) =>
       \A i \in DOMAIN open_list_ : f[Head(open_list_)] <= f[open_list_[i]]]_vars
=============================================================================
