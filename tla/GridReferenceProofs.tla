-------------------------- MODULE GridReferenceProofs --------------------------
(***************************************************************************)
(* The two questions of module GridReference, for every grid and every     *)
(* map: jump() of the source is a recursion, and the first place of a line *)
(* where it returns is the one solution it has; interpolate() draws the    *)
(* line it is asked for.                                                   *)
(***************************************************************************)
EXTENDS GridReference, GridProofs, TLAPS

-----------------------------------------------------------------------------
(* jump() *)

\* The answer of one call of jump() when its further calls are answered by fn.
OneCall(e, fn, i, j, di, dj) ==
  IF ~CanWalk(walkable, i, j) THEN NoJump
  ELSE IF \/ GetCell(i, j) = e
          \/ ForcedAt(walkable, i, j, di, dj)
          \/ /\ di # 0 /\ dj # 0
             /\ \/ fn[<<i + di, j, di, 0>>] # NoJump
                \/ fn[<<i, j + dj, 0, dj>>] # NoJump
       THEN GetCell(i, j)
  ELSE fn[<<i + di, j + dj, di, dj>>]

\* fn answers all calls of jump().
IsJumpFunction(e, fn) ==
  fn = [call \in Int \X Int \X Int \X Int |-> OneCall(e, fn, call[1], call[2], call[3], call[4])]

\* JumpCall takes a function that answers each call by one call and its own answers.
LEMMA JumpCallIsAFunction ==
  ASSUME NEW e, NEW x, NEW y, NEW dx, NEW dy
  PROVE  JumpCall(e, x, y, dx, dy) = (CHOOSE fn : IsJumpFunction(e, fn))[<<x, y, dx, dy>>]
BY DEF JumpCall, IsJumpFunction, OneCall

\* It answers so.
LEMMA FunctionAnswers ==
  ASSUME NEW e, NEW fn, IsJumpFunction(e, fn), NEW x \in Int, NEW y \in Int,
         NEW dx \in Int, NEW dy \in Int
  PROVE  fn[<<x, y, dx, dy>>] = OneCall(e, fn, x, y, dx, dy)
BY DEF IsJumpFunction

\* There is such a function: Jump.
LEMMA FunctionExists ==
  ASSUME NEW e
  PROVE \E fn : IsJumpFunction(e, fn)
<1> DEFINE w == [call \in Int \X Int \X Int \X Int |->
                   Jump(walkable, e, call[1], call[2], call[3], call[4])]
<1>1. \A x, y, dx, dy \in Int : w[<<x, y, dx, dy>>] = Jump(walkable, e, x, y, dx, dy)
  OBVIOUS
<1>2. ASSUME NEW x \in Int, NEW y \in Int, NEW dx \in Int, NEW dy \in Int
     PROVE Jump(walkable, e, x, y, dx, dy) = OneCall(e, w, x, y, dx, dy)
  <2> HIDE DEF w
  <2>0. x + dx \in Int /\ y + dy \in Int /\ 0 \in Int OBVIOUS
  <2>1. w[<<x + dx, y, dx, 0>>] = Jump(walkable, e, x + dx, y, dx, 0) BY <1>1, <2>0
  <2>2. w[<<x, y + dy, 0, dy>>] = Jump(walkable, e, x, y + dy, 0, dy) BY <1>1, <2>0
  <2>3. w[<<x + dx, y + dy, dx, dy>>] = Jump(walkable, e, x + dx, y + dy, dx, dy) BY <1>1, <2>0
  <2>4. /\ Jump(walkable, e, x + dx, y, dx, 0) = StraightJump(walkable, e, x + dx, y, dx, 0)
        /\ Jump(walkable, e, x, y + dy, 0, dy) = StraightJump(walkable, e, x, y + dy, 0, dy)
     BY StraightIsJump
  <2> QED BY JumpStep, <2>1, <2>2, <2>3, <2>4 DEF OneCall, Returns, StopsHere, SideJump
<1>3. w = [call \in Int \X Int \X Int \X Int |-> OneCall(e, w, call[1], call[2], call[3], call[4])]
  BY <1>2
<1> HIDE DEF w
<1> QED BY <1>3 DEF IsJumpFunction

\* What such a function says of one place on the line of a direction, if it answers
\* the jumps to the sides as StraightJump does.
LEMMA FunctionStep ==
  ASSUME NEW e, NEW fn, IsJumpFunction(e, fn), NEW x \in Int, NEW y \in Int,
         NEW dx \in Int, NEW dy \in Int,
         dx # 0 /\ dy # 0 => \A i, j \in Int :
           /\ fn[<<i, j, dx, 0>>] = StraightJump(walkable, e, i, j, dx, 0)
           /\ fn[<<i, j, 0, dy>>] = StraightJump(walkable, e, i, j, 0, dy)
  PROVE  fn[<<x, y, dx, dy>>] =
           IF ~ Returns(walkable, e, x, y, dx, dy) THEN fn[<<x + dx, y + dy, dx, dy>>]
           ELSE IF CanWalk(walkable, x, y) THEN GetCell(x, y) ELSE NoJump
<1>1. fn[<<x, y, dx, dy>>] = OneCall(e, fn, x, y, dx, dy) BY FunctionAnswers
<1>2. x + dx \in Int /\ y + dy \in Int OBVIOUS
<1>3. (dx # 0 /\ dy # 0 /\ (\/ fn[<<x + dx, y, dx, 0>>] # NoJump
                            \/ fn[<<x, y + dy, 0, dy>>] # NoJump))
        <=> SideJump(walkable, e, x, y, dx, dy)
  BY <1>2 DEF SideJump
<1> QED BY <1>1, <1>3 DEF OneCall, Returns, StopsHere

\* Then it returns what Jump returns.
LEMMA FunctionIsJump ==
  ASSUME NEW e, NEW fn, IsJumpFunction(e, fn), NEW x \in Int, NEW y \in Int,
         NEW dx \in Int, NEW dy \in Int, dx # 0 \/ dy # 0,
         dx # 0 /\ dy # 0 => \A i, j \in Int :
           /\ fn[<<i, j, dx, 0>>] = StraightJump(walkable, e, i, j, dx, 0)
           /\ fn[<<i, j, 0, dy>>] = StraightJump(walkable, e, i, j, 0, dy)
  PROVE  fn[<<x, y, dx, dy>>] = Jump(walkable, e, x, y, dx, dy)
<1>1. PICK k \in 0 .. Reach + 1 :
        /\ Jump(walkable, e, x, y, dx, dy) = LineEnd(walkable, k, x, y, dx, dy)
        /\ k > Reach \/ Returns(walkable, e, x + k * dx, y + k * dy, dx, dy)
        /\ \A i \in 0 .. k - 1 : ~ Returns(walkable, e, x + i * dx, y + i * dy, dx, dy)
  BY JumpStopsFirst
<1>2. Reach \in Nat /\ k \in Nat /\ k <= Reach + 1 BY <1>1, GridAssumption DEF Reach
<1>3. ~ (k > Reach)
  <2> SUFFICES ASSUME k > Reach PROVE FALSE OBVIOUS
  <2>1. Jump(walkable, e, x, y, dx, dy) = Endless BY <1>1 DEF LineEnd
  <2> QED BY <2>1, JumpReturns
<1> DEFINE At(i) == fn[<<x + i * dx, y + i * dy, dx, dy>>]
<1>4. \A i \in Nat : x + i * dx \in Int /\ y + i * dy \in Int OBVIOUS
<1>5. At(0) = fn[<<x, y, dx, dy>>]
  <2>1. x + 0 * dx = x /\ y + 0 * dy = y OBVIOUS
  <2> QED BY <2>1
<1>6. ASSUME NEW i \in Nat
      PROVE  At(i) = IF ~ Returns(walkable, e, x + i * dx, y + i * dy, dx, dy) THEN At(i + 1)
                     ELSE IF CanWalk(walkable, x + i * dx, y + i * dy)
                          THEN GetCell(x + i * dx, y + i * dy) ELSE NoJump
  <2> DEFINE u == x + i * dx  v == y + i * dy
  <2>1. u \in Int /\ v \in Int BY <1>4
  <2>2. u + dx = x + (i + 1) * dx /\ v + dy = y + (i + 1) * dy
    <3>1. i * dx \in Int /\ i * dy \in Int OBVIOUS
    <3>2. (i + 1) * dx = i * dx + dx /\ (i + 1) * dy = i * dy + dy OBVIOUS
    <3> QED BY <3>1, <3>2
  <2> HIDE DEF u, v
  <2>3. fn[<<u, v, dx, dy>>] =
          IF ~ Returns(walkable, e, u, v, dx, dy) THEN fn[<<u + dx, v + dy, dx, dy>>]
          ELSE IF CanWalk(walkable, u, v) THEN GetCell(u, v) ELSE NoJump
    BY <2>1, FunctionStep
  <2> QED BY <2>2, <2>3 DEF u, v
<1> HIDE DEF At
<1>7. At(k) = At(0)
  <2> DEFINE B == {j \in 0 .. k : At(j) # At(0)}
  <2> SUFFICES ASSUME B # {} PROVE FALSE BY <1>2
  <2>1. PICK j \in B : \A n \in B : j <= n
    <3>1. B \subseteq Nat OBVIOUS
    <3> HIDE DEF B
    <3> QED BY <3>1, LeastElement
  <2>2. j \in 0 .. k /\ j # 0 /\ j - 1 \in 0 .. k - 1 /\ (j - 1) + 1 = j /\ j - 1 \in Nat
    BY <1>2, <2>1
  <2>3. At(j - 1) = At(0)
    <3>1. j - 1 \in 0 .. k /\ ~ (j <= j - 1) BY <1>2, <2>2
    <3> QED BY <2>1, <3>1
  <2>4. At(j - 1) = At((j - 1) + 1) BY <1>1, <1>6, <2>2
  <2> QED BY <2>1, <2>2, <2>3, <2>4
<1>8. At(k) = LineEnd(walkable, k, x, y, dx, dy) BY <1>1, <1>2, <1>3, <1>6 DEF LineEnd
<1> QED BY <1>1, <1>5, <1>7, <1>8

\* So there is one function that fits the recursion of the source, apart from what it
\* says without a direction, and it is Jump.
LEMMA JumpCallIsJump ==
  ASSUME NEW e, NEW x \in Int, NEW y \in Int, NEW dx \in Int, NEW dy \in Int,
         dx # 0 \/ dy # 0
  PROVE  JumpCall(e, x, y, dx, dy) = Jump(walkable, e, x, y, dx, dy)
<1> DEFINE fn == CHOOSE fun : IsJumpFunction(e, fun)
<1>1. IsJumpFunction(e, fn) BY FunctionExists
<1>2. JumpCall(e, x, y, dx, dy) = fn[<<x, y, dx, dy>>] BY JumpCallIsAFunction
<1> HIDE DEF fn
<1>3. ASSUME dx # 0, dy # 0, NEW i \in Int, NEW j \in Int
      PROVE  /\ fn[<<i, j, dx, 0>>] = StraightJump(walkable, e, i, j, dx, 0)
             /\ fn[<<i, j, 0, dy>>] = StraightJump(walkable, e, i, j, 0, dy)
  <2>1. fn[<<i, j, dx, 0>>] = Jump(walkable, e, i, j, dx, 0) BY <1>1, <1>3, FunctionIsJump
  <2>2. fn[<<i, j, 0, dy>>] = Jump(walkable, e, i, j, 0, dy) BY <1>1, <1>3, FunctionIsJump
  <2> QED BY <2>1, <2>2, StraightIsJump
<1>4. dx # 0 /\ dy # 0 => \A i, j \in Int :
         /\ fn[<<i, j, dx, 0>>] = StraightJump(walkable, e, i, j, dx, 0)
         /\ fn[<<i, j, 0, dy>>] = StraightJump(walkable, e, i, j, 0, dy)
  BY <1>3
<1>5. fn[<<x, y, dx, dy>>] = Jump(walkable, e, x, y, dx, dy) BY <1>1, <1>4, FunctionIsJump
<1> QED BY <1>2, <1>5
-----------------------------------------------------------------------------
(* The questions *)

\* The place of a cell.
LEMMA PlaceOfCell ==
  ASSUME NEW n \in Cells
  PROVE  X(n) \in Int /\ Y(n) \in Int
<1>1. n \in Nat BY GridAssumption DEF Cells
<1> QED BY <1>1, Coordinates

\* The search for the first place of a line where jump() returns finds what the
\* recursion of the source returns, on every grid and map, for every direction.
THEOREM JumpIsTheRecursionAlways == Spec => []JumpIsTheRecursion
<1>1. JumpIsTheRecursion
  <2>1. ASSUME NEW e \in Cells, NEW n \in Cells, NEW d \in Directions
        PROVE  Jump(walkable, e, X(n), Y(n), d[1], d[2]) = JumpCall(e, X(n), Y(n), d[1], d[2])
    <3>1. X(n) \in Int /\ Y(n) \in Int BY PlaceOfCell
    <3>2. d[1] \in Int /\ d[2] \in Int /\ (d[1] # 0 \/ d[2] # 0)
      BY GridAssumption DEF Directions
    <3> QED BY <3>1, <3>2, JumpCallIsJump
  <2> QED BY <2>1 DEF JumpIsTheRecursion
<1> QED BY <1>1, PTL

\* The line that interpolate() draws between two cells.
LEMMA LineHugs ==
  ASSUME NEW p \in Int \X Int, NEW q \in Int \X Int
  PROVE  LET line == Interpolate(p, q)
             wide == q[1] - p[1]
             high == q[2] - p[2]
             long == Larger(Abs(wide), Abs(high))
         IN /\ Len(line) = long + 1
            /\ line[1] = p /\ line[Len(line)] = q
            /\ \A i \in 1 .. long : Abs(line[i + 1][1] - line[i][1]) <= 1
                                 /\ Abs(line[i + 1][2] - line[i][2]) <= 1
            /\ \A i \in DOMAIN line :
                 2 * Abs((line[i][1] - p[1]) * high - (line[i][2] - p[2]) * wide) <= long
<1> DEFINE drawn == Interpolate(p, q)
<1>1. Larger(Abs(q[1] - p[1]), Abs(q[2] - p[2])) = Long(p, q) BY DEF Long, Wide, High
<1>2. Long(p, q) \in Nat BY LineMeasures
<1>3. /\ drawn \in Seq(Int \X Int) /\ Len(drawn) = Long(p, q) + 1 /\ drawn[1] = p
      /\ \A i \in 1 .. Long(p, q) : Abs(drawn[i + 1][1] - drawn[i][1]) <= 1
                                 /\ Abs(drawn[i + 1][2] - drawn[i][2]) <= 1
  BY InterpolatePoints
<1>4. drawn[Len(drawn)] = q BY <1>3, InterpolateEnds
<1>5. ASSUME NEW i \in DOMAIN drawn
      PROVE  2 * Abs((drawn[i][1] - p[1]) * (q[2] - p[2]) - (drawn[i][2] - p[2]) * (q[1] - p[1]))
               <= Long(p, q)
  <2>1. i \in 1 .. Long(p, q) + 1 BY <1>3
  <2>2. i - 1 \in 0 .. Long(p, q) /\ (i - 1) + 1 = i BY <1>2, <2>1
  <2>3. drawn[i] = Interpolate(p, q)[(i - 1) + 1] BY <2>2
  <2> HIDE DEF drawn
  <2> QED BY <2>2, <2>3, InterpolateHugs
<1> HIDE DEF drawn
<1> QED BY <1>1, <1>3, <1>4, <1>5 DEF drawn

\* interpolate() draws from any cell to any other by as few moves as there can be,
\* each to a neighbour, and stays within half a cell of the straight line.
THEOREM InterpolateHugsTheLineAlways == Spec => []InterpolateHugsTheLine
<1>1. InterpolateHugsTheLine
  <2> SUFFICES ASSUME NEW m \in Cells, NEW n \in Cells
      PROVE LET p    == <<X(m), Y(m)>>
                q    == <<X(n), Y(n)>>
                line == Interpolate(p, q)
                wide == q[1] - p[1]
                high == q[2] - p[2]
                long == Larger(Abs(wide), Abs(high))
            IN /\ Len(line) = long + 1
               /\ line[1] = p /\ line[Len(line)] = q
               /\ \A i \in 1 .. long : Abs(line[i + 1][1] - line[i][1]) <= 1
                                    /\ Abs(line[i + 1][2] - line[i][2]) <= 1
               /\ \A i \in DOMAIN line :
                    2 * Abs((line[i][1] - p[1]) * high - (line[i][2] - p[2]) * wide) <= long
    BY DEF InterpolateHugsTheLine
  <2>1. <<X(m), Y(m)>> \in Int \X Int /\ <<X(n), Y(n)>> \in Int \X Int BY PlaceOfCell
  <2> QED BY <2>1, LineHugs
<1> QED BY <1>1, PTL
================================================================================
