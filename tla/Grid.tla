---------------------------------- MODULE Grid ----------------------------------
(***************************************************************************)
(* The grid of src/jps/JPSFinder.h and the pure functions the search is    *)
(* made of: neighbours, pruning, jumping, distances, interpolation.        *)
(*                                                                         *)
(* A cell is numbered by its place, row by row; a map is the set M of its  *)
(* walkable cells.  The rows are numbered as in the widest grid there is,  *)
(* so that a place has the same number in every grid.                      *)
(***************************************************************************)
EXTENDS Integers, Sequences

CONSTANTS
  Width, Height   \* the largest width_ and heigth_ of a grid

ASSUME GridAssumption == Width \in Nat \ {0} /\ Height \in Nat \ {0}

Cells == 0 .. Width * Height - 1

\* data.x and .y of cell n, as TestMap::loadcsv fills them.
X(n) == n % Width
Y(n) == n \div Width

IsInside(x, y) == x \in 0 .. Width - 1 /\ y \in 0 .. Height - 1

GetCell(x, y) == y * Width + x

CanWalk(M, x, y) == IsInside(x, y) /\ GetCell(x, y) \in M

Outside == -1

\* getcell(x, y) where nobody has tested that it is inside, in a grid of d[1] x d[2]
\* cells: a column outside gives a cell of the next or the previous row, a row
\* outside no cell of the array cell_nodes_.
CellAt(d, x, y) ==
  LET index == y * d[1] + x
  IN IF index \in 0 .. d[1] * d[2] - 1 THEN GetCell(index % d[1], index \div d[1])
     ELSE Outside

Abs(i) == IF i < 0 THEN -i ELSE i
Larger(i, j) == IF i < j THEN j ELSE i
Smaller(i, j) == IF i < j THEN i ELSE j
Sign(i) == IF i > 0 THEN 1 ELSE IF i < 0 THEN -1 ELSE 0
-----------------------------------------------------------------------------
(* Neighbours *)

\* The vector with one element or none.
When(condition, n) == IF condition THEN <<n>> ELSE << >>

\* Mutant of GetNeighbors: the first neighbour is the cell itself.
GetNeighborsAndItself(M, x, y) ==
  LET Walk(i, j) == When(CanWalk(M, i, j), GetCell(i, j))
  IN Walk(x, y) \o Walk(x + 1, y) \o Walk(x, y + 1) \o Walk(x - 1, y)
       \o Walk(x - 1, y - 1) \o Walk(x + 1, y - 1) \o Walk(x + 1, y + 1)
       \o Walk(x - 1, y + 1)

\* All walkable neighbours, in the order of get_neighbors.
GetNeighbors(M, x, y) ==
  LET Walk(i, j) == When(CanWalk(M, i, j), GetCell(i, j))
  IN Walk(x, y - 1) \o Walk(x + 1, y) \o Walk(x, y + 1) \o Walk(x - 1, y)
       \o Walk(x - 1, y - 1) \o Walk(x + 1, y - 1) \o Walk(x + 1, y + 1)
       \o Walk(x - 1, y + 1)

\* The neighbours left after pruning by the direction of travel (dx, dy): the
\* natural ones when they can be walked, and a diagonal one for each blocked
\* cell, which is not tested at all.
PrunedNeighbors(M, d, x, y, dx, dy) ==
  LET Walk(i, j) == When(CanWalk(M, i, j), GetCell(i, j))
      Forced(bx, by, i, j) == When(~CanWalk(M, bx, by), CellAt(d, i, j))
  IN IF dx # 0 /\ dy # 0
     THEN Walk(x, y + dy) \o Walk(x + dx, y) \o Walk(x + dx, y + dy)
            \o Forced(x - dx, y, x - dx, y + dy)
            \o Forced(x, y - dy, x + dx, y - dy)
     ELSE IF dx = 0
     THEN Walk(x, y + dy)
            \o Forced(x + 1, y, x + 1, y + dy) \o Forced(x - 1, y, x - 1, y + dy)
     ELSE Walk(x + dx, y)
            \o Forced(x, y + 1, x + dx, y + 1) \o Forced(x, y - 1, x + dx, y - 1)
-----------------------------------------------------------------------------
(* Jumping *)

\* Mutant of ForcedAt: one side is tested twice.
ForcedOnOneSide(M, x, y, dx, dy) ==
  LET Opens(bx, by, ox, oy) == CanWalk(M, ox, oy) /\ ~CanWalk(M, bx, by)
  IN IF dx # 0 /\ dy # 0
     THEN Opens(x - dx, y, x - dx, y + dy) \/ Opens(x, y - dy, x + dx, y - dy)
     ELSE IF dx # 0 THEN Opens(x, y + 1, x + dx, y + 1)
     ELSE Opens(x + 1, y, x + 1, y + dy)

\* A forced neighbour shows at (x, y) when arriving in direction (dx, dy).
ForcedAt(M, x, y, dx, dy) ==
  LET Opens(bx, by, ox, oy) == CanWalk(M, ox, oy) /\ ~CanWalk(M, bx, by)
  IN IF dx # 0 /\ dy # 0
     THEN Opens(x - dx, y, x - dx, y + dy) \/ Opens(x, y - dy, x + dx, y - dy)
     ELSE IF dx # 0
     THEN Opens(x, y + 1, x + dx, y + 1) \/ Opens(x, y - 1, x + dx, y - 1)
     ELSE Opens(x + 1, y, x + 1, y + dy) \/ Opens(x - 1, y, x - 1, y + dy)

\* No line is longer than this inside the grid.
Reach == Width + Height

\* What jump() returns besides a cell: (-1,-1), or nothing, because it calls
\* itself with the same arguments for ever.
NoJump  == -1
Endless == -2

\* Mutant of LineEnd: the last place is returned even when it is blocked.
LineEndUntested(M, i, x, y, dx, dy) ==
  IF i > Reach THEN Endless ELSE GetCell(x + i * dx, y + i * dy)

\* The recursion of jump() walks a line from (x, y) up to the first place where
\* it returns, the one at distance i.
LineEnd(M, i, x, y, dx, dy) ==
  IF i > Reach THEN Endless
  ELSE IF CanWalk(M, x + i * dx, y + i * dy) THEN GetCell(x + i * dx, y + i * dy)
  ELSE NoJump

\* The returns that do not depend on a further jump: blocked, the goal e, or
\* a forced neighbour.
StopsHere(M, e, x, y, dx, dy) ==
  ~CanWalk(M, x, y) \/ GetCell(x, y) = e \/ ForcedAt(M, x, y, dx, dy)

StraightJump(M, e, x, y, dx, dy) ==
  LET first[i \in 0 .. Reach + 1] ==
        IF i > Reach \/ StopsHere(M, e, x + i * dx, y + i * dy, dx, dy) THEN i
        ELSE first[i + 1]
  IN LineEnd(M, first[0], x, y, dx, dy)

\* Mutant of SideJump: only the horizontal line is tried.
SideJumpX(M, e, x, y, dx, dy) ==
  /\ dx # 0 /\ dy # 0
  /\ StraightJump(M, e, x + dx, y, dx, 0) # NoJump

\* On a diagonal, also where a straight jump to either side succeeds.
SideJump(M, e, x, y, dx, dy) ==
  /\ dx # 0 /\ dy # 0
  /\ \/ StraightJump(M, e, x + dx, y, dx, 0) # NoJump
     \/ StraightJump(M, e, x, y + dy, 0, dy) # NoJump

\* jump(x, y, px, py), by the direction (dx, dy) = (x - px, y - py).
Jump(M, e, x, y, dx, dy) ==
  LET first[i \in 0 .. Reach + 1] ==
        IF \/ i > Reach
           \/ StopsHere(M, e, x + i * dx, y + i * dy, dx, dy)
           \/ SideJump(M, e, x + i * dx, y + i * dy, dx, dy)
        THEN i
        ELSE first[i + 1]
  IN LineEnd(M, first[0], x, y, dx, dy)
-----------------------------------------------------------------------------
(* Distances *)

\* Mutant of Manhattan: the sign is wrong.
ManhattanMinus(dx, dy) == dx - dy

Manhattan(dx, dy) == dx + dy

\* (int)(F * min + max) with F = sqrt(2) - 1: the largest k with
\* (min + k)^2 <= 2 * min^2 is the integer part of F * min.
Octile(dx, dy) ==
  LET m == Smaller(dx, dy)
  IN Larger(dx, dy)
       + (CHOOSE k \in 0 .. m : /\ (m + k) * (m + k) <= 2 * m * m
                                /\ 2 * m * m < (m + k + 1) * (m + k + 1))
-----------------------------------------------------------------------------
(* Interpolation *)

\* Mutant of Advance: the error of the other axis is left out.
AdvanceWithoutError(p, dx, dy, sx, sy) ==
  LET gx == 2 * p.err > -dy
      gy == 2 * p.err < dx
  IN [x   |-> IF gx THEN p.x + sx ELSE p.x,
      y   |-> IF gy THEN p.y + sy ELSE p.y,
      err |-> p.err - (IF gx THEN dy ELSE 0)]

\* One round of interpolate() at p, where err decides which axes advance by sx
\* and sy.
Advance(p, dx, dy, sx, sy) ==
  LET gx == 2 * p.err > -dy
      gy == 2 * p.err < dx
  IN [x   |-> IF gx THEN p.x + sx ELSE p.x,
      y   |-> IF gy THEN p.y + sy ELSE p.y,
      err |-> p.err - (IF gx THEN dy ELSE 0) + (IF gy THEN dx ELSE 0)]

\* The points of interpolate(), from p to q: the longer axis advances in every
\* round.
Interpolate(p, q) ==
  LET dx == Abs(q[1] - p[1])
      dy == Abs(q[2] - p[2])
      sx == IF p[1] < q[1] THEN 1 ELSE -1
      sy == IF p[2] < q[2] THEN 1 ELSE -1
      round[i \in 0 .. Larger(dx, dy)] ==
        IF i = 0 THEN [x |-> p[1], y |-> p[2], err |-> dx - dy]
        ELSE Advance(round[i - 1], dx, dy, sx, sy)
  IN [i \in 1 .. Larger(dx, dy) + 1 |-> <<round[i - 1].x, round[i - 1].y>>]
=============================================================================
