----------------------------- MODULE GridReference -----------------------------
(***************************************************************************)
(* The pure functions of module Grid against what they stand for: jump()   *)
(* against the recursion of the source, interpolate() against the line it  *)
(* is to draw.  Both are asked once about every map, when the finder has   *)
(* just been given it, and about all its cells.                            *)
(***************************************************************************)
EXTENDS JPSFinder

\* The finder is new and has been given a map.
JustGiven == pc = "idle" /\ inits = 1 /\ calls = 0

\* The directions from a node to a neighbour, one that is a cell of another row
\* and one that takes itself for the first cell included.  Called with
\* dx = dy = 0, jump() calls itself for ever.
Directions == ((1 - Width .. Width - 1) \X (1 - Height .. Height - 1)) \ {<<0, 0>>}

\* jump(x, y, x - dx, y - dy), return statement by return statement: a recursive
\* function of the place and the direction of the call.
JumpCall(e, x, y, dx, dy) ==
  LET jump[call \in Int \X Int \X Int \X Int] ==
        LET i  == call[1]
            j  == call[2]
            di == call[3]
            dj == call[4]
        IN IF ~CanWalk(walkable, i, j) THEN NoJump
           ELSE IF \/ GetCell(i, j) = e
                   \/ ForcedAt(walkable, i, j, di, dj)
                   \/ /\ di # 0 /\ dj # 0
                      /\ \/ jump[<<i + di, j, di, 0>>] # NoJump
                         \/ jump[<<i, j + dj, 0, dj>>] # NoJump
                THEN GetCell(i, j)
           ELSE jump[<<i + di, j + dj, di, dj>>]
  IN jump[<<x, y, dx, dy>>]

\* The search for the place on a line where jump() returns finds what the
\* recursion returns, for every direction two nodes can have.
JumpIsTheRecursion ==
  JustGiven =>
    \A e, n \in Cells, d \in Directions :
      Jump(walkable, e, X(n), Y(n), d[1], d[2]) = JumpCall(e, X(n), Y(n), d[1], d[2])

\* interpolate() draws from p to q by moves in the 8 directions, as few as there
\* can be, and never strays from the straight line by more than half a cell.
InterpolateHugsTheLine ==
  JustGiven =>
    \A m, n \in Cells :
      LET p    == <<X(m), Y(m)>>
          q    == <<X(n), Y(n)>>
          line == Interpolate(p, q)
          wide == q[1] - p[1]
          high == q[2] - p[2]
          long == Larger(Abs(wide), Abs(high))
      IN /\ Len(line) = long + 1
         /\ line[1] = p /\ line[Len(line)] = q
         /\ \A i \in 1 .. long : Abs(line[i + 1][1] - line[i][1]) <= 1
                              /\ Abs(line[i + 1][2] - line[i][2]) <= 1
         /\ \A i \in DOMAIN line :
              2 * Abs((line[i][1] - p[1]) * high - (line[i][2] - p[2]) * wide) <= long
=============================================================================
