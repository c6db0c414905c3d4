------------------------------- MODULE GridProofs -------------------------------
(***************************************************************************)
(* What the operators of module Grid return, for a grid of any size: a     *)
(* cell and its coordinates determine each other, a jump stays on its line *)
(* and on walkable cells and returns unless it has no direction, a line is *)
(* drawn from its first to its last point.                                 *)
(***************************************************************************)
EXTENDS Grid, WellFoundedInduction, TLAPS

\* A set of natural numbers has a least element.
LEMMA LeastElement ==
  ASSUME NEW S, S \subseteq Nat, S # {}
  PROVE  \E m \in S : \A n \in S : m <= n
<1> DEFINE R == OpToRel(<, Nat)
<1>1. \A n, m \in S : n < m => <<n, m>> \in R BY DEF OpToRel
<1>2. IsWellFoundedOn(R, Nat) BY NatLessThanWellFounded
<1> HIDE DEF R
<1>3. PICK m \in S : \A n \in S : ~ (<<n, m>> \in R) BY <1>2, WFMin
<1>4. ASSUME NEW n \in S PROVE m <= n
  <2>1. ~ (n < m) BY <1>1, <1>3
  <2> QED BY <2>1
<1> QED BY <1>4
-----------------------------------------------------------------------------
(* Cells and coordinates *)

\* The remainder and the quotient of a natural number by a positive one,
LEMMA Divided ==
  ASSUME NEW n \in Nat, NEW W \in Nat \ {0}
  PROVE  n % W \in 0 .. W - 1 /\ n \div W \in Nat
OBVIOUS

\* from which the number is put together again,
LEMMA DividedAgain ==
  ASSUME NEW n \in Nat, NEW W \in Nat \ {0}, NEW x, NEW y, x = n % W, y = n \div W
  PROVE  n = y * W + x
OBVIOUS

\* and which are those of the number put together.
LEMMA Composed ==
  ASSUME NEW W \in Nat \ {0}, NEW x \in 0 .. W - 1, NEW y \in Int
  PROVE  (y * W + x) % W = x /\ (y * W + x) \div W = y
<1>1. (y * W + x) % W = x OBVIOUS
<1>2. (y * W + x) \div W = y OBVIOUS
<1> QED BY <1>1, <1>2

\* A smaller multiple is smaller by one factor at least.
LEMMA Multiples ==
  ASSUME NEW W \in Nat, NEW a \in Int, NEW b \in Int, a < b
  PROVE  a * W + W <= b * W
OBVIOUS

\* The product of natural numbers is one.
LEMMA ProductIsNat ==
  ASSUME NEW a \in Nat, NEW b \in Nat
  PROVE  a * b \in Nat
OBVIOUS

\* A node of the array has a column and a row, and is their cell.
LEMMA Coordinates ==
  ASSUME NEW n \in Nat
  PROVE  /\ X(n) \in 0 .. Width - 1 /\ Y(n) \in Nat
         /\ GetCell(X(n), Y(n)) = n
<1>1. X(n) \in 0 .. Width - 1 /\ Y(n) \in Nat BY Divided, GridAssumption DEF X, Y
<1>2. n = Y(n) * Width + X(n) BY DividedAgain, GridAssumption DEF X, Y
<1> QED BY <1>1, <1>2 DEF GetCell

\* Getting the cell of a place is exact in the columns of the grid.
LEMMA ExactCell ==
  ASSUME NEW x \in 0 .. Width - 1, NEW y \in Int
  PROVE  X(GetCell(x, y)) = x /\ Y(GetCell(x, y)) = y
BY Composed, GridAssumption DEF X, Y, GetCell

\* A place inside the grid is the place of its cell, and of no other.
LEMMA InsideIsCell ==
  ASSUME NEW x, NEW y, IsInside(x, y)
  PROVE  /\ x \in 0 .. Width - 1 /\ y \in 0 .. Height - 1
         /\ GetCell(x, y) \in Cells
         /\ X(GetCell(x, y)) = x /\ Y(GetCell(x, y)) = y
<1>1. x \in 0 .. Width - 1 /\ y \in 0 .. Height - 1 BY DEF IsInside
<1>2. y * Width \in Nat BY <1>1, ProductIsNat, GridAssumption
<1>3. y * Width + Width <= Height * Width BY <1>1, Multiples, GridAssumption
<1>4. Height * Width = Width * Height BY GridAssumption
<1>5. GetCell(x, y) \in Cells BY <1>1, <1>2, <1>3, <1>4, GridAssumption DEF GetCell, Cells
<1> QED BY <1>1, <1>5, ExactCell

\* The place of a cell is inside the grid.
LEMMA CellIsInside ==
  ASSUME NEW n \in Cells
  PROVE  IsInside(X(n), Y(n))
<1>1. n \in Nat /\ n < Width * Height BY GridAssumption DEF Cells
<1>2. X(n) \in 0 .. Width - 1 /\ Y(n) \in Nat /\ n = Y(n) * Width + X(n)
  BY <1>1, Coordinates DEF GetCell
<1>3. Y(n) < Height
  <2> SUFFICES ASSUME Height <= Y(n) PROVE FALSE BY <1>2, GridAssumption
  <2>1. Height * Width <= Y(n) * Width BY <1>2, Multiples, GridAssumption
  <2>2. Height * Width = Width * Height BY GridAssumption
  <2>3. Y(n) * Width \in Nat /\ Width * Height \in Nat BY <1>2, ProductIsNat, GridAssumption
  <2> QED BY <2>1, <2>2, <2>3, <1>1, <1>2
<1> QED BY <1>2, <1>3, GridAssumption DEF IsInside

\* The sizes of a grid that fits into the largest one, the empty one included.
Fitting == (0 .. Width) \X (0 .. Height)

\* getcell() without a test finds a cell of the grid, the one with this index in the
\* array, or none.
LEMMA UntestedCell ==
  ASSUME NEW d \in Fitting, NEW x \in Int, NEW y \in Int, CellAt(d, x, y) # Outside
  PROVE  /\ CellAt(d, x, y) \in Cells
         /\ X(CellAt(d, x, y)) < d[1] /\ Y(CellAt(d, x, y)) < d[2]
         /\ y * d[1] + x = Y(CellAt(d, x, y)) * d[1] + X(CellAt(d, x, y))
<1> DEFINE w == d[1]  r == d[2]  index == y * w + x  c == CellAt(d, x, y)
<1>1. w \in 0 .. Width /\ r \in 0 .. Height BY DEF Fitting
<1> HIDE DEF w, r
<1>2. index \in 0 .. w * r - 1 /\ c = GetCell(index % w, index \div w)
  BY DEF CellAt, w, r
<1> HIDE DEF index, c
<1>3. w # 0
  <2> SUFFICES ASSUME w = 0 PROVE FALSE OBVIOUS
  <2>1. w * r = 0 BY <1>1, GridAssumption
  <2> QED BY <1>2, <2>1
<1>4. w \in Nat \ {0} /\ r \in Nat /\ index \in Nat BY <1>1, <1>2, <1>3, GridAssumption
<1>5. index % w \in 0 .. w - 1 /\ index \div w \in Nat BY <1>4, Divided
<1>6. index = (index \div w) * w + (index % w) BY <1>4, DividedAgain
<1>7. index \div w < r
  <2> SUFFICES ASSUME r <= index \div w PROVE FALSE BY <1>4, <1>5
  <2> DEFINE q == index \div w  m == index % w
  <2>1. q \in Nat /\ m \in Nat /\ r <= q BY <1>4, <1>5
  <2>2. index = q * w + m BY <1>6
  <2> HIDE DEF q, m
  <2>3. r * w <= q * w
    <3>1. CASE r = q BY <3>1, <1>4
    <3>2. CASE r < q
      <4>1. r * w + w <= q * w BY <1>4, <2>1, <3>2, Multiples
      <4>2. r * w \in Nat /\ q * w \in Nat BY <1>4, <2>1, ProductIsNat
      <4> QED BY <1>4, <4>1, <4>2
    <3> QED BY <1>4, <2>1, <3>1, <3>2
  <2>4. r * w = w * r /\ r * w \in Nat /\ q * w \in Nat BY <1>4, <2>1, ProductIsNat
  <2> QED BY <1>2, <1>4, <2>1, <2>2, <2>3, <2>4
<1>8. IsInside(index % w, index \div w) BY <1>1, <1>4, <1>5, <1>7, GridAssumption DEF IsInside
<1>9. c \in Cells /\ X(c) = index % w /\ Y(c) = index \div w BY <1>2, <1>8, InsideIsCell
<1>10. index = Y(c) * w + X(c) /\ X(c) < w /\ Y(c) < r BY <1>4, <1>5, <1>6, <1>7, <1>9
<1> QED BY <1>9, <1>10 DEF w, r, index, c

\* For a place inside the grid this is the cell of the place.
LEMMA TestedCell ==
  ASSUME NEW d \in Fitting, NEW x \in 0 .. d[1] - 1, NEW y \in 0 .. d[2] - 1
  PROVE  CellAt(d, x, y) = GetCell(x, y)
<1> DEFINE w == d[1]  r == d[2]
<1>1. w \in 0 .. Width /\ r \in 0 .. Height BY DEF Fitting
<1>2. x \in 0 .. w - 1 /\ y \in 0 .. r - 1 OBVIOUS
<1> HIDE DEF w, r
<1>3. w \in Nat \ {0} /\ r \in Nat \ {0} /\ x \in Nat /\ y \in Nat BY <1>1, <1>2, GridAssumption
<1>4. (y * w + x) % w = x /\ (y * w + x) \div w = y BY <1>2, <1>3, Composed
<1>5. y * w + x \in 0 .. w * r - 1
  <2>1. y * w + w <= r * w BY <1>2, <1>3, Multiples
  <2>2. y * w \in Nat /\ r * w \in Nat /\ r * w = w * r BY <1>3, ProductIsNat
  <2> QED BY <1>2, <1>3, <2>1, <2>2
<1> QED BY <1>4, <1>5 DEF CellAt, w, r

-----------------------------------------------------------------------------
(* Jumps *)

\* The places where jump() returns without going on.
Returns(M, e, x, y, dx, dy) ==
  StopsHere(M, e, x, y, dx, dy) \/ SideJump(M, e, x, y, dx, dy)

\* jump() returns at the first place of its line where it does not go on: the
\* recursive function of Jump has this value at 0.
LEMMA JumpStopsFirst ==
  ASSUME NEW M, NEW e, NEW x, NEW y, NEW dx, NEW dy
  PROVE  \E k \in 0 .. Reach + 1 :
           /\ Jump(M, e, x, y, dx, dy) = LineEnd(M, k, x, y, dx, dy)
           /\ k > Reach \/ Returns(M, e, x + k * dx, y + k * dy, dx, dy)
           /\ \A i \in 0 .. k - 1 : ~ Returns(M, e, x + i * dx, y + i * dy, dx, dy)
<1> DEFINE Goes(i) == i > Reach \/ Returns(M, e, x + i * dx, y + i * dy, dx, dy)
           I == 0 .. Reach + 1
           S == {i \in I : Goes(i)}
           Up(i) == CHOOSE k \in S : i <= k /\ \A n \in S : i <= n => k <= n
           up == [i \in I |-> Up(i)]
           fun == CHOOSE fn : fn = [i \in I |-> IF Goes(i) THEN i ELSE fn[i + 1]]
<1>1. Reach \in Nat BY GridAssumption DEF Reach
<1>2. Jump(M, e, x, y, dx, dy) = LineEnd(M, fun[0], x, y, dx, dy)
  BY DEF Jump, Returns
<1>3. S \subseteq Nat /\ S \subseteq I /\ Reach + 1 \in S BY <1>1
<1>4. \A i \in I : i \in S <=> Goes(i) OBVIOUS
<1> HIDE DEF Goes, S
<1>5. \A i \in I : /\ Up(i) \in S /\ i <= Up(i)
                   /\ \A n \in S : i <= n => Up(i) <= n
  <2> TAKE i \in I
  <2> DEFINE T == {n \in S : i <= n}
  <2>0. i <= Reach + 1 BY <1>1
  <2>1. T \subseteq Nat /\ Reach + 1 \in T BY <2>0, <1>3
  <2>2. \E k \in T : \A n \in T : k <= n
    <3> HIDE DEF T
    <3> QED BY <2>1, LeastElement
  <2>3. \E k \in S : i <= k /\ \A n \in S : i <= n => k <= n BY <2>2
  <2> QED BY <2>3
<1>6. \A i \in I : up[i] = IF Goes(i) THEN i ELSE up[i + 1]
  <2> TAKE i \in I
  <2> HIDE DEF Up
  <2>1. up[i] = Up(i) OBVIOUS
  <2>2. CASE Goes(i)
    <3>1. i \in S BY <1>4, <2>2
    <3>2. i \in Nat /\ i <= i
      <4>1. i \in Nat BY <1>3, <3>1
      <4> QED BY <4>1
    <3>4. Up(i) \in Nat BY <1>3, <1>5
    <3>3. Up(i) <= i /\ i <= Up(i) BY <1>5, <3>1, <3>2
    <3> QED BY <2>1, <2>2, <3>2, <3>3, <3>4
  <2>3. CASE ~ Goes(i)
    <3>1. i \notin S BY <1>4, <2>3
    <3>2. i \in Nat /\ i <= Reach
      BY <1>1, <1>3, <3>1
    <3>3. i + 1 \in I BY <3>2, <1>1
    <3>4. up[i + 1] = Up(i + 1) BY <3>3
    <3>5. Up(i) \in S /\ Up(i) \in Nat /\ i <= Up(i) /\ Up(i) # i BY <1>3, <1>5, <3>1
    <3>6. Up(i + 1) \in S /\ Up(i + 1) \in Nat /\ i + 1 <= Up(i + 1) BY <1>3, <1>5, <3>3
    <3>7. Up(i + 1) <= Up(i) BY <1>5, <3>2, <3>3, <3>5
    <3>8. Up(i) <= Up(i + 1) BY <1>5, <3>2, <3>6
    <3>9. Up(i) = Up(i + 1) BY <3>5, <3>6, <3>7, <3>8
    <3> QED BY <2>1, <2>3, <3>4, <3>9
  <2> QED BY <2>2, <2>3
<1>7. up = [i \in I |-> IF Goes(i) THEN i ELSE up[i + 1]]
  <2> HIDE DEF Up
  <2> QED BY <1>6
<1>8. fun = [i \in I |-> IF Goes(i) THEN i ELSE fun[i + 1]]
  <2> HIDE DEF up
  <2> QED BY <1>7
<1> HIDE DEF fun, up
<1> DEFINE k == Up(0)
<1>9. k \in S /\ k \in I /\ k \in Nat /\ \A n \in S : n \in Nat => k <= n
  <2>1. 0 \in I BY <1>1
  <2> HIDE DEF Up
  <2>2. \A n \in Nat : 0 <= n OBVIOUS
  <2> QED BY <1>3, <1>5, <2>1, <2>2
<1> HIDE DEF k
<1>10. \A i \in 0 .. k - 1 : i \in I /\ i + 1 \in I /\ ~ Goes(i)
  <2> TAKE i \in 0 .. k - 1
  <2>1. i \in I /\ i + 1 \in I /\ i \in Nat /\ ~ (k <= i) BY <1>1, <1>9
  <2> QED BY <1>4, <1>9, <2>1
<1>11. fun[0] = fun[k]
  <2> DEFINE B == {j \in 0 .. k : fun[j] # fun[0]}
  <2> SUFFICES ASSUME B # {} PROVE FALSE BY <1>9
  <2>1. PICK j \in B : \A n \in B : j <= n
    <3>1. B \subseteq Nat BY <1>9
    <3> HIDE DEF B
    <3> QED BY <3>1, LeastElement
  <2>2. j \in 0 .. k /\ j # 0 /\ j - 1 \in 0 .. k - 1 /\ (j - 1) + 1 = j BY <1>9
  <2>3. fun[j - 1] = fun[0]
    <3>1. j - 1 \in 0 .. k /\ ~ (j <= j - 1) BY <2>2, <1>9
    <3> QED BY <2>1, <3>1
  <2>4. fun[j - 1] = fun[j] BY <1>8, <1>10, <2>2
  <2> QED BY <2>1, <2>3, <2>4
<1>12. fun[k] = k BY <1>4, <1>8, <1>9
<1>13. Goes(k) BY <1>4, <1>9
<1>14. k > Reach \/ Returns(M, e, x + k * dx, y + k * dy, dx, dy) BY <1>13 DEF Goes
<1>15. \A i \in 0 .. k - 1 : ~ Returns(M, e, x + i * dx, y + i * dy, dx, dy)
  BY <1>10 DEF Goes
<1> QED BY <1>2, <1>9, <1>11, <1>12, <1>14, <1>15

\* Whatever it is called with, jump() returns a walkable cell if it returns a cell.
LEMMA JumpIsWalkable ==
  ASSUME NEW M, NEW e, NEW x, NEW y, NEW dx, NEW dy
  PROVE  Jump(M, e, x, y, dx, dy) \in M \cup {NoJump, Endless}
<1>1. PICK k \in 0 .. Reach + 1 :
        Jump(M, e, x, y, dx, dy) = LineEnd(M, k, x, y, dx, dy)
  BY JumpStopsFirst
<1> QED BY <1>1 DEF LineEnd, CanWalk

\* All places of the line up to the one that jump() returns are walkable.
LEMMA JumpIsClear ==
  ASSUME NEW M, NEW e, NEW x, NEW y, NEW dx, NEW dy,
         Jump(M, e, x, y, dx, dy) \notin {NoJump, Endless}
  PROVE  \E k \in Nat :
           /\ Jump(M, e, x, y, dx, dy) = GetCell(x + k * dx, y + k * dy)
           /\ \A i \in 0 .. k : CanWalk(M, x + i * dx, y + i * dy)
<1>1. PICK k \in 0 .. Reach + 1 :
        /\ Jump(M, e, x, y, dx, dy) = LineEnd(M, k, x, y, dx, dy)
        /\ \A i \in 0 .. k - 1 : ~ Returns(M, e, x + i * dx, y + i * dy, dx, dy)
  BY JumpStopsFirst
<1>2. k \in Nat BY <1>1, GridAssumption DEF Reach
<1>3. /\ CanWalk(M, x + k * dx, y + k * dy)
      /\ LineEnd(M, k, x, y, dx, dy) = GetCell(x + k * dx, y + k * dy)
  BY <1>1 DEF LineEnd
<1>4. \A i \in 0 .. k - 1 : CanWalk(M, x + i * dx, y + i * dy)
  BY <1>1 DEF Returns, StopsHere
<1>5. \A i \in 0 .. k : i \in 0 .. k - 1 \/ i = k BY <1>2
<1> QED BY <1>1, <1>2, <1>3, <1>4, <1>5

\* jump() returns unless it is called without a direction.
LEMMA JumpReturns ==
  ASSUME NEW M, NEW e, NEW x \in Int, NEW y \in Int, NEW dx \in Int, NEW dy \in Int,
         dx # 0 \/ dy # 0
  PROVE  Jump(M, e, x, y, dx, dy) # Endless
<1>1. PICK k \in 0 .. Reach + 1 :
        /\ Jump(M, e, x, y, dx, dy) = LineEnd(M, k, x, y, dx, dy)
        /\ \A i \in 0 .. k - 1 : ~ Returns(M, e, x + i * dx, y + i * dy, dx, dy)
  BY JumpStopsFirst
<1>2. Reach \in Nat /\ k \in Nat BY <1>1, GridAssumption DEF Reach
<1>3. CASE k > Reach
  <2>1. 0 \in 0 .. k - 1 /\ Reach \in 0 .. k - 1 BY <1>2, <1>3
  <2>2. /\ CanWalk(M, x + 0 * dx, y + 0 * dy)
        /\ CanWalk(M, x + Reach * dx, y + Reach * dy)
    BY <1>1, <2>1 DEF Returns, StopsHere
  <2>3. /\ x + 0 * dx \in 0 .. Width - 1 /\ y + 0 * dy \in 0 .. Height - 1
        /\ x + Reach * dx \in 0 .. Width - 1 /\ y + Reach * dy \in 0 .. Height - 1
    BY <2>2 DEF CanWalk, IsInside
  <2>4. x \in 0 .. Width - 1 /\ y \in 0 .. Height - 1 BY <2>3
  <2>5. ASSUME NEW d \in Int, NEW r \in Nat, d > 0 PROVE r * d >= r
    <3>1. r * (d - 1) \in Nat BY <2>5, ProductIsNat
    <3>2. r * d = r * (d - 1) + r OBVIOUS
    <3> QED BY <3>1, <3>2
  <2>6. ASSUME NEW d \in Int, NEW r \in Nat, d < 0 PROVE r * d <= -r
    <3>1. r * ((-d) - 1) \in Nat BY <2>6, ProductIsNat
    <3>2. r * d = -(r * ((-d) - 1)) - r OBVIOUS
    <3> QED BY <3>1, <3>2
  <2>7. Reach >= Width /\ Reach >= Height BY GridAssumption DEF Reach
  <2>8. dx = 0
    <3>1. CASE dx > 0
      <4>1. Reach * dx \in Int /\ Reach * dx >= Reach BY <3>1, <1>2, <2>5
      <4> QED BY <4>1, <2>3, <2>4, <2>7, <1>2, GridAssumption
    <3>2. CASE dx < 0
      <4>1. Reach * dx \in Int /\ Reach * dx <= -Reach BY <3>2, <1>2, <2>6
      <4> QED BY <4>1, <2>3, <2>4, <2>7, <1>2, GridAssumption
    <3> QED BY <3>1, <3>2
  <2>9. dy = 0
    <3>1. CASE dy > 0
      <4>1. Reach * dy \in Int /\ Reach * dy >= Reach BY <3>1, <1>2, <2>5
      <4> QED BY <4>1, <2>3, <2>4, <2>7, <1>2, GridAssumption
    <3>2. CASE dy < 0
      <4>1. Reach * dy \in Int /\ Reach * dy <= -Reach BY <3>2, <1>2, <2>6
      <4> QED BY <4>1, <2>3, <2>4, <2>7, <1>2, GridAssumption
    <3> QED BY <3>1, <3>2
  <2> QED BY <2>8, <2>9
<1>4. CASE ~ (k > Reach)
  <2>1. CASE CanWalk(M, x + k * dx, y + k * dy)
    <3>1. LineEnd(M, k, x, y, dx, dy) = GetCell(x + k * dx, y + k * dy)
      BY <1>4, <2>1 DEF LineEnd
    <3>2. GetCell(x + k * dx, y + k * dy) \in Cells BY <2>1, InsideIsCell DEF CanWalk
    <3>3. \A n \in Cells : n # Endless BY GridAssumption DEF Cells, Endless
    <3> QED BY <1>1, <3>1, <3>2, <3>3
  <2>2. CASE ~ CanWalk(M, x + k * dx, y + k * dy)
    BY <1>1, <1>4, <2>2 DEF LineEnd, NoJump, Endless
  <2> QED BY <2>1, <2>2
<1> QED BY <1>3, <1>4
\* On a row or a column there is no jump to the side: jump() walks the line.
LEMMA StraightIsJump ==
  ASSUME NEW M, NEW e, NEW x, NEW y, NEW dx, NEW dy, dx = 0 \/ dy = 0
  PROVE  Jump(M, e, x, y, dx, dy) = StraightJump(M, e, x, y, dx, dy)
<1> DEFINE P(fn) == fn = [i \in 0 .. Reach + 1 |->
              IF \/ i > Reach
           \/ StopsHere(M, e, x + i * dx, y + i * dy, dx, dy)
           \/ SideJump(M, e, x + i * dx, y + i * dy, dx, dy)
        THEN i
        ELSE fn[i + 1]]
           Q(fn) == fn = [i \in 0 .. Reach + 1 |->
              IF \/ i > Reach
           \/ StopsHere(M, e, x + i * dx, y + i * dy, dx, dy)
        THEN i
        ELSE fn[i + 1]]
<1>1. \A i, j : ~ SideJump(M, e, i, j, dx, dy) BY DEF SideJump
<1>2. \A fn : P(fn) <=> Q(fn) BY <1>1
<1>3. Jump(M, e, x, y, dx, dy) = LineEnd(M, (CHOOSE fn : P(fn))[0], x, y, dx, dy) BY DEF Jump
<1>4. StraightJump(M, e, x, y, dx, dy) = LineEnd(M, (CHOOSE fn : Q(fn))[0], x, y, dx, dy) BY DEF StraightJump
<1> HIDE DEF P, Q
<1>5. (CHOOSE fn : P(fn)) = (CHOOSE fn : Q(fn)) BY <1>2, Zenon
<1> QED BY <1>3, <1>4, <1>5

\* Places of a line, counted from its next place.
LEMMA NextPlace ==
  ASSUME NEW x \in Int, NEW d \in Int, NEW i \in Int
  PROVE  (x + d) + i * d = x + (i + 1) * d
<1>1. (i + 1) * d = i * d + d /\ i * d \in Int OBVIOUS
<1> QED BY <1>1

\* The returns of jump() in one equation: where it does not go on, it returns what
\* is there, and otherwise what it returns from the next place.
LEMMA JumpStep ==
  ASSUME NEW M, NEW e, NEW x \in Int, NEW y \in Int, NEW dx \in Int, NEW dy \in Int
  PROVE  Jump(M, e, x, y, dx, dy) =
           IF ~ Returns(M, e, x, y, dx, dy) THEN Jump(M, e, x + dx, y + dy, dx, dy)
           ELSE IF CanWalk(M, x, y) THEN GetCell(x, y) ELSE NoJump
<1>1. PICK k \in 0 .. Reach + 1 :
        /\ Jump(M, e, x, y, dx, dy) = LineEnd(M, k, x, y, dx, dy)
        /\ k > Reach \/ Returns(M, e, x + k * dx, y + k * dy, dx, dy)
        /\ \A i \in 0 .. k - 1 : ~ Returns(M, e, x + i * dx, y + i * dy, dx, dy)
  BY JumpStopsFirst
<1>2. Reach \in Nat /\ k \in Nat /\ k <= Reach + 1 BY <1>1, GridAssumption DEF Reach
<1>3. x + 0 * dx = x /\ y + 0 * dy = y OBVIOUS
<1>4. CASE Returns(M, e, x, y, dx, dy)
  <2>1. k = 0
    <3> SUFFICES ASSUME k # 0 PROVE FALSE OBVIOUS
    <3>1. 0 \in 0 .. k - 1 BY <1>2
    <3> QED BY <1>1, <1>3, <1>4, <3>1
  <2>2. LineEnd(M, 0, x, y, dx, dy) = IF CanWalk(M, x, y) THEN GetCell(x, y) ELSE NoJump
    <3>1. ~ (0 > Reach) BY <1>2
    <3> QED BY <1>3, <3>1 DEF LineEnd
  <2> QED BY <1>1, <1>4, <2>1, <2>2
<1>5. CASE ~ Returns(M, e, x, y, dx, dy)
  <2>1. k # 0 BY <1>1, <1>2, <1>3, <1>5
  <2>2. CASE dx = 0 /\ dy = 0
    <3>1. x + dx = x /\ y + dy = y BY <2>2
    <3> QED BY <1>5, <3>1
  <2>3. CASE dx # 0 \/ dy # 0
    <3>1. k <= Reach
      <4> SUFFICES ASSUME k > Reach PROVE FALSE BY <1>2
      <4>1. Jump(M, e, x, y, dx, dy) = Endless BY <1>1 DEF LineEnd
      <4> QED BY <2>3, <4>1, JumpReturns
    <3>2. PICK l \in 0 .. Reach + 1 :
            /\ Jump(M, e, x + dx, y + dy, dx, dy) = LineEnd(M, l, x + dx, y + dy, dx, dy)
            /\ l > Reach \/ Returns(M, e, (x + dx) + l * dx, (y + dy) + l * dy, dx, dy)
            /\ \A i \in 0 .. l - 1 : ~ Returns(M, e, (x + dx) + i * dx, (y + dy) + i * dy, dx, dy)
      BY JumpStopsFirst
    <3>3. \A i \in Int : (x + dx) + i * dx = x + (i + 1) * dx /\ (y + dy) + i * dy = y + (i + 1) * dy
      BY NextPlace
    <3>4. l \in Nat /\ k - 1 \in Nat /\ (k - 1) + 1 = k BY <1>2, <2>1, <3>2
    <3>5. (x + dx) + (k - 1) * dx = x + k * dx /\ (y + dy) + (k - 1) * dy = y + k * dy
      <4>1. k - 1 \in Int BY <3>4
      <4>2. /\ (x + dx) + (k - 1) * dx = x + ((k - 1) + 1) * dx
            /\ (y + dy) + (k - 1) * dy = y + ((k - 1) + 1) * dy
        BY <3>3, <4>1
      <4> QED BY <3>4, <4>2
    <3>6. Returns(M, e, (x + dx) + (k - 1) * dx, (y + dy) + (k - 1) * dy, dx, dy)
      BY <1>1, <1>2, <3>1, <3>5
    <3>7. ~ (k - 1 < l)
      <4> SUFFICES ASSUME k - 1 < l PROVE FALSE OBVIOUS
      <4>1. k - 1 \in 0 .. l - 1 BY <3>4
      <4> QED BY <3>2, <3>6, <4>1
    <3>8. ~ (l < k - 1)
      <4> SUFFICES ASSUME l < k - 1 PROVE FALSE OBVIOUS
      <4>1. l + 1 \in 0 .. k - 1 /\ l \in Int /\ ~ (l > Reach) BY <1>2, <3>1, <3>4
      <4>2. ~ Returns(M, e, x + (l + 1) * dx, y + (l + 1) * dy, dx, dy) BY <1>1, <4>1
      <4>3. Returns(M, e, (x + dx) + l * dx, (y + dy) + l * dy, dx, dy) BY <3>2, <4>1
      <4>4. (x + dx) + l * dx = x + (l + 1) * dx /\ (y + dy) + l * dy = y + (l + 1) * dy
        BY <3>3, <4>1
      <4> QED BY <4>2, <4>3, <4>4
    <3>9. l = k - 1 BY <1>2, <3>4, <3>7, <3>8
    <3>10. LineEnd(M, k, x, y, dx, dy) = LineEnd(M, k - 1, x + dx, y + dy, dx, dy)
      <4>1. ~ (k > Reach) /\ ~ (k - 1 > Reach) BY <1>2, <3>1
      <4> QED BY <3>5, <4>1 DEF LineEnd
    <3> QED BY <1>1, <1>5, <3>2, <3>9, <3>10
  <2> QED BY <2>2, <2>3
<1> QED BY <1>4, <1>5
-----------------------------------------------------------------------------
(* Distances *)

\* The differences that distances are made of.
LEMMA AbsIsNat ==
  ASSUME NEW i \in Int
  PROVE  Abs(i) \in Nat
BY DEF Abs

\* The estimate of get_distance() exists, and is a natural number.
LEMMA OctileIsNat ==
  ASSUME NEW dx \in Nat, NEW dy \in Nat
  PROVE  Octile(dx, dy) \in Nat
<1> DEFINE m == Smaller(dx, dy)
           S == {k \in Nat : 2 * m * m < (m + k + 1) * (m + k + 1)}
<1>1. m \in Nat /\ Larger(dx, dy) \in Nat BY DEF Smaller, Larger
<1>2. Octile(dx, dy) =
        Larger(dx, dy) + (CHOOSE k \in 0 .. m : /\ (m + k) * (m + k) <= 2 * m * m
                                                /\ 2 * m * m < (m + k + 1) * (m + k + 1))
  BY DEF Octile
<1> HIDE DEF m
<1>3. m \in S
  <2>1. 2 * m * m < (m + m + 1) * (m + m + 1) BY <1>1
  <2> QED BY <1>1, <2>1
<1>4. PICK k \in S : \A n \in S : k <= n
  <2>1. S \subseteq Nat OBVIOUS
  <2> HIDE DEF S
  <2> QED BY <1>3, <2>1, LeastElement
<1>5. k \in 0 .. m BY <1>1, <1>3, <1>4
<1>6. (m + k) * (m + k) <= 2 * m * m
  <2>1. CASE k = 0 BY <1>1, <2>1
  <2>2. CASE k # 0
    <3>1. k - 1 \in Nat /\ k - 1 \notin S BY <1>4, <2>2
    <3>2. ~ (2 * m * m < (m + (k - 1) + 1) * (m + (k - 1) + 1)) BY <3>1
    <3>3. m + (k - 1) + 1 = m + k BY <1>1, <1>4
    <3>4. 2 * m * m \in Nat /\ (m + k) * (m + k) \in Nat BY <1>1, <1>4
    <3> QED BY <3>2, <3>3, <3>4
  <2> QED BY <2>1, <2>2
<1>7. (CHOOSE n \in 0 .. m : /\ (m + n) * (m + n) <= 2 * m * m
                             /\ 2 * m * m < (m + n + 1) * (m + n + 1)) \in 0 .. m
  BY <1>4, <1>5, <1>6
<1>8. \A n \in 0 .. m : Larger(dx, dy) + n \in Nat BY <1>1
<1> QED BY <1>2, <1>7, <1>8

-----------------------------------------------------------------------------
(* Neighbours *)

\* The steps along one axis.
Units == {-1, 0, 1}

\* A direction is one of the eight, or none when the places are the same.
LEMMA SignIsUnit ==
  ASSUME NEW i \in Int
  PROVE  Sign(i) \in Units /\ (Sign(i) = 0 => i = 0)
BY DEF Sign, Units

\* The vectors of neighbours have their elements in S if the cells that are added are,
LEMMA WhenInSet ==
  ASSUME NEW S, NEW condition \in BOOLEAN, NEW n, condition => n \in S
  PROVE  When(condition, n) \in Seq(S)
BY DEF When

\* and stay so when they are joined.
LEMMA ConcatInSet ==
  ASSUME NEW S, NEW s \in Seq(S), NEW t \in Seq(S)
  PROVE  s \o t \in Seq(S)
OBVIOUS

\* The neighbours of get_neighbors are walkable cells around the place (x, y).
LEMMA NeighborsAreTested ==
  ASSUME NEW M, NEW x \in Int, NEW y \in Int, NEW S,
         \A a, b \in Units : /\ a # 0 \/ b # 0
                             /\ CanWalk(M, x + a, y + b)
                             => GetCell(x + a, y + b) \in S
  PROVE  GetNeighbors(M, x, y) \in Seq(S)
<1> DEFINE Walk(i, j) == When(CanWalk(M, i, j), GetCell(i, j))
<1>1. \A i, j : CanWalk(M, i, j) \in BOOLEAN BY DEF CanWalk
<1>2. ASSUME NEW a \in Units, NEW b \in Units, a # 0 \/ b # 0
      PROVE  Walk(x + a, y + b) \in Seq(S)
  BY <1>1, <1>2, WhenInSet
<1>3. /\ Walk(x, y - 1) = Walk(x + 0, y + (-1)) /\ Walk(x + 1, y) = Walk(x + 1, y + 0)
      /\ Walk(x, y + 1) = Walk(x + 0, y + 1) /\ Walk(x - 1, y) = Walk(x + (-1), y + 0)
      /\ Walk(x - 1, y - 1) = Walk(x + (-1), y + (-1))
      /\ Walk(x + 1, y - 1) = Walk(x + 1, y + (-1))
      /\ Walk(x - 1, y + 1) = Walk(x + (-1), y + 1)
  OBVIOUS
<1> HIDE DEF Walk
<1>4. /\ Walk(x, y - 1) \in Seq(S) /\ Walk(x + 1, y) \in Seq(S)
      /\ Walk(x, y + 1) \in Seq(S) /\ Walk(x - 1, y) \in Seq(S)
  BY <1>2, <1>3 DEF Units
<1>5. /\ Walk(x - 1, y - 1) \in Seq(S) /\ Walk(x + 1, y - 1) \in Seq(S)
      /\ Walk(x + 1, y + 1) \in Seq(S) /\ Walk(x - 1, y + 1) \in Seq(S)
  BY <1>2, <1>3 DEF Units
<1>6. Walk(x, y - 1) \o Walk(x + 1, y) \o Walk(x, y + 1) \o Walk(x - 1, y) \in Seq(S)
  BY <1>4, ConcatInSet
<1>7. Walk(x, y - 1) \o Walk(x + 1, y) \o Walk(x, y + 1) \o Walk(x - 1, y)
        \o Walk(x - 1, y - 1) \o Walk(x + 1, y - 1) \o Walk(x + 1, y + 1)
        \o Walk(x - 1, y + 1) \in Seq(S)
  BY <1>5, <1>6, ConcatInSet
<1> QED BY <1>7 DEF GetNeighbors, Walk

\* The neighbours left by pruning are cells around the place (x, y), as getcell() has
\* them where nothing is tested; only without a direction the place itself is one.
LEMMA PrunedAreNear ==
  ASSUME NEW M, NEW d, NEW x \in Int, NEW y \in Int, NEW dx \in Units, NEW dy \in Units,
         NEW S,
         \A a, b \in Units :
           a # 0 \/ b # 0 \/ (dx = 0 /\ dy = 0) =>
             /\ CanWalk(M, x + a, y + b) => GetCell(x + a, y + b) \in S
             /\ a # 0 \/ b # 0 => CellAt(d, x + a, y + b) \in S
  PROVE  PrunedNeighbors(M, d, x, y, dx, dy) \in Seq(S)
<1> DEFINE Walk(i, j) == When(CanWalk(M, i, j), GetCell(i, j))
           Forced(bx, by, i, j) == When(~CanWalk(M, bx, by), CellAt(d, i, j))
<1>1. \A i, j : CanWalk(M, i, j) \in BOOLEAN BY DEF CanWalk
<1>2. \A a, b \in Units :
         (a # 0 \/ b # 0 \/ (dx = 0 /\ dy = 0)) => Walk(x + a, y + b) \in Seq(S)
  BY <1>1, WhenInSet
<1>3. \A bx, by : \A a, b \in Units :
         (a # 0 \/ b # 0) => Forced(bx, by, x + a, y + b) \in Seq(S)
  BY <1>1, WhenInSet
<1>4. x + 0 = x /\ y + 0 = y /\ x + (-1) = x - 1 /\ y + (-1) = y - 1 OBVIOUS
<1>5. 0 \in Units /\ 1 \in Units /\ -1 \in Units BY DEF Units
<1>6. CASE dx # 0 /\ dy # 0
  <2>1. x - dx = x + (-dx) /\ y - dy = y + (-dy) /\ -dx \in Units /\ -dy \in Units
        /\ -dx # 0 /\ -dy # 0
    BY <1>6 DEF Units
  <2> HIDE DEF Walk, Forced
  <2>2. Walk(x, y + dy) \in Seq(S) BY <1>2, <1>4, <1>5, <1>6
  <2>3. Walk(x + dx, y) \in Seq(S) BY <1>2, <1>4, <1>5, <1>6
  <2>4. Walk(x + dx, y + dy) \in Seq(S) BY <1>2, <1>6
  <2>5. Forced(x - dx, y, x - dx, y + dy) \in Seq(S)
    <3>1. Forced(x - dx, y, x + (-dx), y + dy) \in Seq(S) BY <1>3, <1>6, <2>1
    <3> QED BY <3>1, <2>1
  <2>6. Forced(x, y - dy, x + dx, y - dy) \in Seq(S)
    <3>1. Forced(x, y - dy, x + dx, y + (-dy)) \in Seq(S) BY <1>3, <1>6, <2>1
    <3> QED BY <3>1, <2>1
  <2>7. Walk(x, y + dy) \o Walk(x + dx, y) \o Walk(x + dx, y + dy)
          \o Forced(x - dx, y, x - dx, y + dy) \o Forced(x, y - dy, x + dx, y - dy) \in Seq(S)
    BY <2>2, <2>3, <2>4, <2>5, <2>6, ConcatInSet
  <2> QED BY <1>6, <2>7 DEF PrunedNeighbors, Walk, Forced
<1>7. CASE dx = 0
  <2> HIDE DEF Walk, Forced
  <2>1. Walk(x, y + dy) \in Seq(S) BY <1>2, <1>4, <1>5, <1>7
  <2>2. Forced(x + 1, y, x + 1, y + dy) \in Seq(S) BY <1>3, <1>5
  <2>3. Forced(x - 1, y, x - 1, y + dy) \in Seq(S)
    <3>1. Forced(x - 1, y, x + (-1), y + dy) \in Seq(S) BY <1>3, <1>5
    <3> QED BY <3>1, <1>4
  <2>4. Walk(x, y + dy)
          \o Forced(x + 1, y, x + 1, y + dy) \o Forced(x - 1, y, x - 1, y + dy) \in Seq(S)
    BY <2>1, <2>2, <2>3, ConcatInSet
  <2> QED BY <1>7, <2>4 DEF PrunedNeighbors, Walk, Forced
<1>8. CASE dx # 0 /\ dy = 0
  <2> HIDE DEF Walk, Forced
  <2>1. Walk(x + dx, y) \in Seq(S) BY <1>2, <1>4, <1>5, <1>8
  <2>2. Forced(x, y + 1, x + dx, y + 1) \in Seq(S) BY <1>3, <1>5
  <2>3. Forced(x, y - 1, x + dx, y - 1) \in Seq(S)
    <3>1. Forced(x, y - 1, x + dx, y + (-1)) \in Seq(S) BY <1>3, <1>5
    <3> QED BY <3>1, <1>4
  <2>4. Walk(x + dx, y)
          \o Forced(x, y + 1, x + dx, y + 1) \o Forced(x, y - 1, x + dx, y - 1) \in Seq(S)
    BY <2>1, <2>2, <2>3, ConcatInSet
  <2> QED BY <1>8, <2>4 DEF PrunedNeighbors, Walk, Forced
<1> QED BY <1>6, <1>7, <1>8
-----------------------------------------------------------------------------
(* Interpolation *)

\* r holds the first n rounds of interpolate(), from the place p.
IsRounds(r, n, p, dx, dy, sx, sy) ==
  /\ DOMAIN r = 0 .. n /\ r = [i \in 0 .. n |-> r[i]]
  /\ r[0] = [x |-> p[1], y |-> p[2], err |-> dx - dy]
  /\ \A i \in 1 .. n : r[i] = Advance(r[i - 1], dx, dy, sx, sy)

\* There are such rounds, as many as one wants.
LEMMA RoundsExist ==
  ASSUME NEW p, NEW dx, NEW dy, NEW sx, NEW sy, NEW n \in Nat
  PROVE  \E r : IsRounds(r, n, p, dx, dy, sx, sy)
<1> DEFINE Bad == {m \in Nat : ~ \E r : IsRounds(r, m, p, dx, dy, sx, sy)}
<1> SUFFICES ASSUME Bad # {} PROVE FALSE OBVIOUS
<1>1. PICK m \in Bad : \A k \in Bad : m <= k
  <2>1. Bad \subseteq Nat OBVIOUS
  <2> HIDE DEF Bad
  <2> QED BY <2>1, LeastElement
<1> DEFINE start == [x |-> p[1], y |-> p[2], err |-> dx - dy]
<1>2. CASE m = 0
  <2>1. IsRounds([k \in 0 .. 0 |-> start], 0, p, dx, dy, sx, sy) BY DEF IsRounds
  <2> QED BY <1>1, <1>2, <2>1
<1>3. CASE m # 0
  <2>1. m - 1 \in Nat /\ m - 1 \notin Bad BY <1>1, <1>3
  <2>2. PICK r : IsRounds(r, m - 1, p, dx, dy, sx, sy) BY <2>1
  <2> DEFINE last == Advance(r[m - 1], dx, dy, sx, sy)
             q == [k \in 0 .. m |-> IF k = m THEN last ELSE r[k]]
  <2>3. m \in Nat /\ 0 \in 0 .. m /\ 0 # m /\ DOMAIN q = 0 .. m BY <1>1, <1>3
  <2>4. q[0] = start BY <2>2, <2>3 DEF IsRounds
  <2>5. ASSUME NEW k \in 1 .. m
        PROVE  q[k] = Advance(q[k - 1], dx, dy, sx, sy)
    <3>1. k \in 0 .. m /\ k - 1 \in 0 .. m /\ k - 1 # m BY <2>3
    <3> HIDE DEF last
    <3>2. q[k - 1] = r[k - 1] BY <3>1
    <3>3. CASE k = m
      <4>1. q[k] = last BY <3>1, <3>3
      <4> QED BY <3>2, <3>3, <4>1 DEF last
    <3>4. CASE k # m
      <4>1. k \in 1 .. m - 1 /\ q[k] = r[k] BY <2>3, <3>1, <3>4
      <4> QED BY <2>2, <3>2, <4>1 DEF IsRounds
    <3> QED BY <3>3, <3>4
  <2>6. q = [i \in 0 .. m |-> q[i]] OBVIOUS
  <2> HIDE DEF q
  <2>7. IsRounds(q, m, p, dx, dy, sx, sy) BY <2>3, <2>4, <2>5, <2>6 DEF IsRounds
  <2> QED BY <1>1, <2>7
<1> QED BY <1>2, <1>3

\* The distances of interpolate() from p to q and its directions.
Wide(p, q) == Abs(q[1] - p[1])
High(p, q) == Abs(q[2] - p[2])
Right(p, q) == IF p[1] < q[1] THEN 1 ELSE -1
Down(p, q) == IF p[2] < q[2] THEN 1 ELSE -1
Long(p, q) == Larger(Wide(p, q), High(p, q))

\* The points of interpolate() are those of its rounds.
LEMMA InterpolateIsRounds ==
  ASSUME NEW p \in Int \X Int, NEW q \in Int \X Int
  PROVE  \E r : /\ IsRounds(r, Long(p, q), p, Wide(p, q), High(p, q), Right(p, q), Down(p, q))
                /\ Interpolate(p, q) = [i \in 1 .. Long(p, q) + 1 |-> <<r[i - 1].x, r[i - 1].y>>]
<1> DEFINE dx == Wide(p, q)  dy == High(p, q)  sx == Right(p, q)  sy == Down(p, q)
           L == Long(p, q)
           start == [x |-> p[1], y |-> p[2], err |-> dx - dy]
           round == CHOOSE fn : fn = [i \in 0 .. L |->
                      IF i = 0 THEN start ELSE Advance(fn[i - 1], dx, dy, sx, sy)]
<1>1. Interpolate(p, q) = [i \in 1 .. L + 1 |-> <<round[i - 1].x, round[i - 1].y>>]
  BY DEF Interpolate, Wide, High, Right, Down, Long
<1>2. L \in Nat
  <2>1. dx \in Nat /\ dy \in Nat BY AbsIsNat DEF Wide, High
  <2> QED BY <2>1 DEF Long, Larger
<1> HIDE DEF dx, dy, sx, sy, L
<1>3. PICK r : IsRounds(r, L, p, dx, dy, sx, sy) BY <1>2, RoundsExist
<1>4. r = [i \in 0 .. L |-> IF i = 0 THEN start ELSE Advance(r[i - 1], dx, dy, sx, sy)]
  <2>1. \A k \in 0 .. L : k = 0 \/ k \in 1 .. L BY <1>2
  <2>2. \A k \in 0 .. L : r[k] = IF k = 0 THEN start ELSE Advance(r[k - 1], dx, dy, sx, sy)
    BY <1>3, <2>1 DEF IsRounds
  <2> HIDE DEF start
  <2>3. r = [k \in 0 .. L |-> r[k]] BY <1>3 DEF IsRounds
  <2> QED BY <2>2, <2>3
<1>5. round = [i \in 0 .. L |-> IF i = 0 THEN start ELSE Advance(round[i - 1], dx, dy, sx, sy)]
  <2> HIDE DEF start
  <2> QED BY <1>4
<1> HIDE DEF round
<1>6. IsRounds(round, L, p, dx, dy, sx, sy)
  <2>1. 0 \in 0 .. L /\ \A k \in 1 .. L : k \in 0 .. L /\ k # 0 BY <1>2
  <2>2. DOMAIN round = 0 .. L BY <1>5
  <2>3. \A k \in 0 .. L : round[k] = IF k = 0 THEN start ELSE Advance(round[k - 1], dx, dy, sx, sy)
    <3> HIDE DEF start
    <3> QED BY <1>5
  <2>4. round = [k \in 0 .. L |-> round[k]]
    <3> HIDE DEF start
    <3> QED BY <1>5, <2>2
  <2> QED BY <2>1, <2>2, <2>3, <2>4 DEF IsRounds
<1> QED BY <1>1, <1>6 DEF dx, dy, sx, sy, L

\* The longer axis and the shorter one: after i rounds s is a steps along x and b
\* along y from p, its error tells how far it is from the line, which is half a cell at
\* most, and the longer axis has advanced in every round.
RoundOK(s, i, p, dx, dy, sx, sy) ==
  \E a, b \in Nat, off \in Int :
    /\ s = [x |-> p[1] + sx * a, y |-> p[2] + sy * b, err |-> dx - dy - off]
    /\ off = a * dy - b * dx
    /\ dy <= dx => a = i /\ -dx < 2 * off /\ 2 * off <= dx
    /\ dx < dy => b = i /\ -dy <= 2 * off /\ 2 * off < dy

\* One more step on one axis.
LEMMA OneMore ==
  ASSUME NEW a \in Int, NEW d \in Int
  PROVE  (a + 1) * d = a * d + d /\ d * (a + 1) = d * a + d
OBVIOUS

\* A round keeps this.
LEMMA AdvanceKeeps ==
  ASSUME NEW s, NEW i \in Nat, NEW p \in Int \X Int, NEW dx \in Nat, NEW dy \in Nat,
         NEW sx \in {1, -1}, NEW sy \in {1, -1}, 0 < dx \/ 0 < dy,
         RoundOK(s, i, p, dx, dy, sx, sy)
  PROVE  RoundOK(Advance(s, dx, dy, sx, sy), i + 1, p, dx, dy, sx, sy)
<1>1. PICK a \in Nat, b \in Nat, off \in Int :
        /\ s = [x |-> p[1] + sx * a, y |-> p[2] + sy * b, err |-> dx - dy - off]
        /\ off = a * dy - b * dx
        /\ dy <= dx => a = i /\ -dx < 2 * off /\ 2 * off <= dx
        /\ dx < dy => b = i /\ -dy <= 2 * off /\ 2 * off < dy
  BY DEF RoundOK
<1> DEFINE gx == 2 * s.err > -dy
           gy == 2 * s.err < dx
           c == IF gx THEN a + 1 ELSE a
           d == IF gy THEN b + 1 ELSE b
           o == off + (IF gx THEN dy ELSE 0) - (IF gy THEN dx ELSE 0)
           t == Advance(s, dx, dy, sx, sy)
<1>2. s.x = p[1] + sx * a /\ s.y = p[2] + sy * b /\ s.err = dx - dy - off BY <1>1
<1>3. p[1] \in Int /\ p[2] \in Int /\ sx \in Int /\ sy \in Int OBVIOUS
<1>4. s.err \in Int BY <1>1, <1>2
<1>5. c \in Nat /\ d \in Nat /\ o \in Int BY <1>1
<1>6. t = [x |-> p[1] + sx * c, y |-> p[2] + sy * d, err |-> dx - dy - o]
  <2>1. t.x = p[1] + sx * c
    <3>1. CASE gx
      <4>1. sx * (a + 1) = sx * a + sx BY <1>3, OneMore
      <4>2. sx * a \in Int BY <1>3
      <4>3. t.x = s.x + sx BY <3>1 DEF Advance
      <4> QED BY <1>2, <1>3, <3>1, <4>1, <4>2, <4>3
    <3>2. CASE ~gx
      <4>1. t.x = s.x BY <3>2 DEF Advance
      <4> QED BY <1>2, <3>2, <4>1
    <3> QED BY <3>1, <3>2
  <2>2. t.y = p[2] + sy * d
    <3>1. CASE gy
      <4>1. sy * (b + 1) = sy * b + sy BY <1>3, OneMore
      <4>2. sy * b \in Int BY <1>3
      <4>3. t.y = s.y + sy BY <3>1 DEF Advance
      <4> QED BY <1>2, <1>3, <3>1, <4>1, <4>2, <4>3
    <3>2. CASE ~gy
      <4>1. t.y = s.y BY <3>2 DEF Advance
      <4> QED BY <1>2, <3>2, <4>1
    <3> QED BY <3>1, <3>2
  <2>3. t.err = dx - dy - o
    <3>1. t.err = s.err - (IF gx THEN dy ELSE 0) + (IF gy THEN dx ELSE 0) BY DEF Advance
    <3> QED BY <1>1, <1>2, <3>1
  <2>4. t = [x |-> t.x, y |-> t.y, err |-> t.err] BY DEF Advance
  <2> HIDE DEF t, c, d, o
  <2> QED BY <2>1, <2>2, <2>3, <2>4
<1>7. o = c * dy - d * dx
  <2>1. (a + 1) * dy = a * dy + dy /\ (b + 1) * dx = b * dx + dx BY OneMore
  <2>2. a * dy \in Int /\ b * dx \in Int OBVIOUS
  <2>3. c * dy = a * dy + (IF gx THEN dy ELSE 0) BY <2>1
  <2>4. d * dx = b * dx + (IF gy THEN dx ELSE 0) BY <2>1
  <2> HIDE DEF gx, gy, c, d
  <2> QED BY <1>1, <2>2, <2>3, <2>4
<1>8. dy <= dx => c = i + 1 /\ -dx < 2 * o /\ 2 * o <= dx
  BY <1>1, <1>2
<1>9. dx < dy => d = i + 1 /\ -dy <= 2 * o /\ 2 * o < dy
  BY <1>1, <1>2
<1> HIDE DEF c, d, o, t
<1>10. RoundOK(t, i + 1, p, dx, dy, sx, sy) BY <1>5, <1>6, <1>7, <1>8, <1>9 DEF RoundOK
<1> QED BY <1>10 DEF t

\* All rounds are so.
LEMMA RoundsAreOK ==
  ASSUME NEW r, NEW n \in Nat, NEW p \in Int \X Int, NEW dx \in Nat, NEW dy \in Nat,
         NEW sx \in {1, -1}, NEW sy \in {1, -1}, 0 < dx \/ 0 < dy,
         IsRounds(r, n, p, dx, dy, sx, sy)
  PROVE  \A i \in 0 .. n : RoundOK(r[i], i, p, dx, dy, sx, sy)
<1> DEFINE Bad == {i \in 0 .. n : ~ RoundOK(r[i], i, p, dx, dy, sx, sy)}
<1> SUFFICES ASSUME Bad # {} PROVE FALSE OBVIOUS
<1>1. PICK m \in Bad : \A k \in Bad : m <= k
  <2>1. Bad \subseteq Nat OBVIOUS
  <2> HIDE DEF Bad
  <2> QED BY <2>1, LeastElement
<1>2. CASE m = 0
  <2>1. r[0] = [x |-> p[1] + sx * 0, y |-> p[2] + sy * 0, err |-> dx - dy - 0]
    <3>1. r[0] = [x |-> p[1], y |-> p[2], err |-> dx - dy] BY DEF IsRounds
    <3>2. sx * 0 = 0 /\ sy * 0 = 0 /\ p[1] + 0 = p[1] /\ p[2] + 0 = p[2] /\ (dx - dy) - 0 = dx - dy
      OBVIOUS
    <3> QED BY <3>1, <3>2
  <2>2. 0 = 0 * dy - 0 * dx OBVIOUS
  <2>3. /\ dy <= dx => 0 = 0 /\ -dx < 2 * 0 /\ 2 * 0 <= dx
        /\ dx < dy => 0 = 0 /\ -dy <= 2 * 0 /\ 2 * 0 < dy
    OBVIOUS
  <2>4. 0 \in Nat /\ 0 \in Int OBVIOUS
  <2>5. RoundOK(r[0], 0, p, dx, dy, sx, sy) BY ONLY <2>1, <2>2, <2>3, <2>4 DEF RoundOK
  <2> QED BY <1>1, <1>2, <2>5
<1>3. CASE m # 0
  <2>1. m \in 1 .. n /\ m - 1 \in 0 .. n /\ m - 1 \in Nat /\ m - 1 \notin Bad /\ (m - 1) + 1 = m
    BY <1>1, <1>3
  <2>2. RoundOK(r[m - 1], m - 1, p, dx, dy, sx, sy) BY <2>1
  <2>3. RoundOK(Advance(r[m - 1], dx, dy, sx, sy), (m - 1) + 1, p, dx, dy, sx, sy)
    BY <2>1, <2>2, AdvanceKeeps
  <2>4. r[m] = Advance(r[m - 1], dx, dy, sx, sy) BY <2>1 DEF IsRounds
  <2> QED BY <1>1, <2>1, <2>3, <2>4
<1> QED BY <1>2, <1>3

\* The point after i rounds from p towards q.
PointOK(at, i, p, q) ==
  \E a, b \in Nat, off \in Int :
    /\ at = <<p[1] + Right(p, q) * a, p[2] + Down(p, q) * b>>
    /\ off = a * High(p, q) - b * Wide(p, q)
    /\ High(p, q) <= Wide(p, q) => a = i /\ 2 * off <= Wide(p, q)
                                   /\ (0 < Wide(p, q) => -Wide(p, q) < 2 * off)
                                   /\ (Wide(p, q) = 0 => b = 0)
    /\ Wide(p, q) < High(p, q) => b = i /\ -High(p, q) <= 2 * off /\ 2 * off < High(p, q)

\* The distances and directions of a line.
LEMMA LineMeasures ==
  ASSUME NEW p \in Int \X Int, NEW q \in Int \X Int
  PROVE  /\ p[1] \in Int /\ p[2] \in Int /\ q[1] \in Int /\ q[2] \in Int
         /\ Wide(p, q) \in Nat /\ High(p, q) \in Nat /\ Long(p, q) \in Nat
         /\ Right(p, q) \in {1, -1} /\ Down(p, q) \in {1, -1}
         /\ Wide(p, q) <= Long(p, q) /\ High(p, q) <= Long(p, q)
         /\ Long(p, q) \in {Wide(p, q), High(p, q)}
         /\ q[1] - p[1] = Right(p, q) * Wide(p, q) /\ q[2] - p[2] = Down(p, q) * High(p, q)
         /\ Long(p, q) = IF Wide(p, q) < High(p, q) THEN High(p, q) ELSE Wide(p, q)
<1>1. p[1] \in Int /\ p[2] \in Int /\ q[1] \in Int /\ q[2] \in Int OBVIOUS
<1>2. Wide(p, q) \in Nat /\ q[1] - p[1] = Right(p, q) * Wide(p, q) BY <1>1 DEF Wide, Right, Abs
<1>3. High(p, q) \in Nat /\ q[2] - p[2] = Down(p, q) * High(p, q) BY <1>1 DEF High, Down, Abs
<1>4. Right(p, q) \in {1, -1} /\ Down(p, q) \in {1, -1} BY DEF Right, Down
<1>5. /\ Wide(p, q) <= Long(p, q) /\ High(p, q) <= Long(p, q)
      /\ Long(p, q) \in {Wide(p, q), High(p, q)} /\ Long(p, q) \in Nat
      /\ Long(p, q) = IF Wide(p, q) < High(p, q) THEN High(p, q) ELSE Wide(p, q)
  BY <1>2, <1>3 DEF Long, Larger
<1> QED BY <1>1, <1>2, <1>3, <1>4, <1>5

\* interpolate() returns one point more than the longer of the two distances, each
\* point next to the one before and near the line.
LEMMA InterpolatePoints ==
  ASSUME NEW p \in Int \X Int, NEW q \in Int \X Int
  PROVE  LET line == Interpolate(p, q)
         IN /\ line \in Seq(Int \X Int) /\ Len(line) = Long(p, q) + 1
            /\ line[1] = p
            /\ \A i \in 1 .. Long(p, q) : Abs(line[i + 1][1] - line[i][1]) <= 1
                                       /\ Abs(line[i + 1][2] - line[i][2]) <= 1
            /\ \A i \in 0 .. Long(p, q) : PointOK(line[i + 1], i, p, q)
<1> DEFINE line == Interpolate(p, q)
           L == Long(p, q)  dx == Wide(p, q)  dy == High(p, q)
           sx == Right(p, q)  sy == Down(p, q)
<1>1. PICK r : /\ IsRounds(r, L, p, dx, dy, sx, sy)
               /\ line = [i \in 1 .. L + 1 |-> <<r[i - 1].x, r[i - 1].y>>]
  BY InterpolateIsRounds
<1>2. /\ L \in Nat /\ dx \in Nat /\ dy \in Nat /\ sx \in {1, -1} /\ sy \in {1, -1}
      /\ L \in {dx, dy} /\ dx <= L /\ dy <= L /\ p[1] \in Int /\ p[2] \in Int
  BY LineMeasures
<1> HIDE DEF line
<1>3. r[0] = [x |-> p[1], y |-> p[2], err |-> dx - dy] BY <1>1 DEF IsRounds
<1> HIDE DEF L
<1>4. ASSUME NEW i \in 0 .. L
      PROVE  /\ line[i + 1] = <<r[i].x, r[i].y>> /\ r[i].x \in Int /\ r[i].y \in Int
             /\ PointOK(line[i + 1], i, p, q)
  <2>1. i + 1 \in 1 .. L + 1 /\ (i + 1) - 1 = i BY <1>2
  <2>2. line[i + 1] = <<r[i].x, r[i].y>> BY <1>1, <2>1
  <2>3. CASE 0 < dx \/ 0 < dy
    <3> HIDE DEF dx, dy, sx, sy
    <3>1. IsRounds(r, L, p, dx, dy, sx, sy) BY <1>1
    <3>2. \A k \in 0 .. L : RoundOK(r[k], k, p, dx, dy, sx, sy) BY <3>1, <1>2, <2>3, RoundsAreOK
    <3>3. RoundOK(r[i], i, p, dx, dy, sx, sy) BY <3>2
    <3>4. PICK a \in Nat, b \in Nat, off \in Int :
            /\ r[i] = [x |-> p[1] + sx * a, y |-> p[2] + sy * b, err |-> dx - dy - off]
            /\ off = a * dy - b * dx
            /\ dy <= dx => a = i /\ -dx < 2 * off /\ 2 * off <= dx
            /\ dx < dy => b = i /\ -dy <= 2 * off /\ 2 * off < dy
      BY <3>3 DEF RoundOK
    <3>5. r[i].x = p[1] + sx * a /\ r[i].y = p[2] + sy * b BY <3>4
    <3>6. sx * a \in Int /\ sy * b \in Int BY <1>2
    <3>7. r[i].x \in Int /\ r[i].y \in Int BY <1>2, <3>5, <3>6
    <3>8. line[i + 1] = <<p[1] + sx * a, p[2] + sy * b>> BY <2>2, <3>5
    <3>9. /\ dy <= dx => a = i /\ 2 * off <= dx /\ (0 < dx => -dx < 2 * off) /\ (dx = 0 => b = 0)
          /\ dx < dy => b = i /\ -dy <= 2 * off /\ 2 * off < dy
      BY <1>2, <2>3, <3>4
    <3>10. PointOK(line[i + 1], i, p, q) BY <3>4, <3>8, <3>9 DEF PointOK, dx, dy, sx, sy
    <3> QED BY <2>2, <3>7, <3>10
  <2>4. CASE ~ (0 < dx \/ 0 < dy)
    <3>1. dx = 0 /\ dy = 0 BY <1>2, <2>4
    <3>2. L = 0 BY <1>2, <3>1
    <3>3. i = 0 BY <3>2
    <3>4. r[i].x = p[1] /\ r[i].y = p[2] BY <1>3, <3>3
    <3>5. p[1] + sx * 0 = p[1] /\ p[2] + sy * 0 = p[2] BY <1>2
    <3>6. line[i + 1] = <<p[1] + sx * 0, p[2] + sy * 0>> BY <2>2, <3>4, <3>5
    <3>7. /\ 0 = 0 * dy - 0 * dx /\ 0 \in Nat /\ 0 \in Int
          /\ dy <= dx => 0 = i /\ 2 * 0 <= dx /\ (0 < dx => -dx < 2 * 0) /\ (dx = 0 => 0 = 0)
          /\ dx < dy => 0 = i /\ -dy <= 2 * 0 /\ 2 * 0 < dy
      BY <3>1, <3>3
    <3>8. PointOK(line[i + 1], i, p, q)
      BY ONLY <3>6, <3>7 DEF PointOK, dx, dy, sx, sy
    <3> QED BY <1>2, <2>2, <3>4, <3>8
  <2> QED BY <2>3, <2>4
<1>5. line \in Seq(Int \X Int) /\ Len(line) = L + 1
  <2>1. ASSUME NEW i \in 1 .. L + 1 PROVE line[i] \in Int \X Int
    <3>1. i - 1 \in 0 .. L /\ (i - 1) + 1 = i BY <1>2
    <3>2. line[i] = <<r[i - 1].x, r[i - 1].y>> /\ r[i - 1].x \in Int /\ r[i - 1].y \in Int
      BY <3>1, <1>4
    <3> QED BY <3>2
  <2>2. DOMAIN line = 1 .. L + 1 /\ line = [i \in 1 .. L + 1 |-> line[i]] BY <1>1
  <2>3. line \in [1 .. L + 1 -> Int \X Int] BY <2>1, <2>2
  <2>4. L + 1 \in Nat BY <1>2
  <2> QED BY <2>2, <2>3, <2>4
<1>6. line[1] = p
  <2>1. 0 \in 0 .. L /\ 0 + 1 = 1 BY <1>2
  <2>2. line[1] = <<r[0].x, r[0].y>> BY <2>1, <1>4
  <2>3. r[0].x = p[1] /\ r[0].y = p[2] BY <1>3
  <2> QED BY <2>2, <2>3
<1>7. ASSUME NEW i \in 1 .. L
      PROVE  Abs(line[i + 1][1] - line[i][1]) <= 1 /\ Abs(line[i + 1][2] - line[i][2]) <= 1
  <2>1. i \in 0 .. L /\ i - 1 \in 0 .. L /\ (i - 1) + 1 = i BY <1>2
  <2>2. line[i + 1] = <<r[i].x, r[i].y>> /\ line[i] = <<r[i - 1].x, r[i - 1].y>>
        /\ r[i].x \in Int /\ r[i].y \in Int /\ r[i - 1].x \in Int /\ r[i - 1].y \in Int
    BY <2>1, <1>4
  <2>3. r[i] = Advance(r[i - 1], dx, dy, sx, sy) BY <1>1 DEF IsRounds
  <2> HIDE DEF dx, dy, sx, sy
  <2>4. r[i].x \in {r[i - 1].x, r[i - 1].x + sx} /\ r[i].y \in {r[i - 1].y, r[i - 1].y + sy}
    BY <2>3 DEF Advance
  <2> QED BY <1>2, <2>2, <2>4 DEF Abs
<1> QED BY <1>4, <1>5, <1>6, <1>7 DEF L, line

\* A multiple of a number that is at most half of it is 0.
LEMMA SmallMultiple ==
  ASSUME NEW k \in Int, NEW m \in Nat \ {0}, -m <= 2 * (k * m), 2 * (k * m) <= m
  PROVE  k = 0
<1>1. CASE k > 0
  <2>1. (k - 1) * m \in Nat BY <1>1, ProductIsNat
  <2>2. ((k - 1) + 1) * m = (k - 1) * m + m BY OneMore
  <2>3. (k - 1) + 1 = k OBVIOUS
  <2>4. k * m = (k - 1) * m + m BY <2>2, <2>3
  <2> QED BY <2>1, <2>4
<1>2. CASE k < 0
  <2>1. ((-k) - 1) * m \in Nat BY <1>2, ProductIsNat
  <2>2. k * m = -(((-k) - 1) * m) - m OBVIOUS
  <2> QED BY <2>1, <2>2
<1> QED BY <1>1, <1>2

\* The line ends at q.
LEMMA InterpolateEnds ==
  ASSUME NEW p \in Int \X Int, NEW q \in Int \X Int
  PROVE  Interpolate(p, q)[Long(p, q) + 1] = q
<1> DEFINE L == Long(p, q)  dx == Wide(p, q)  dy == High(p, q)
           sx == Right(p, q)  sy == Down(p, q)
           last == Interpolate(p, q)[L + 1]
<1>1. /\ L \in Nat /\ dx \in Nat /\ dy \in Nat /\ sx \in {1, -1} /\ sy \in {1, -1}
      /\ L = (IF dx < dy THEN dy ELSE dx) /\ p[1] \in Int /\ p[2] \in Int
      /\ q[1] - p[1] = sx * dx /\ q[2] - p[2] = sy * dy /\ q[1] \in Int /\ q[2] \in Int
  BY LineMeasures
<1>2. PointOK(last, L, p, q)
  <2>1. L \in 0 .. L BY <1>1
  <2> QED BY <2>1, InterpolatePoints
<1> HIDE DEF last
<1>3. PICK a \in Nat, b \in Nat, off \in Int :
        /\ last = <<p[1] + sx * a, p[2] + sy * b>>
        /\ off = a * dy - b * dx
        /\ dy <= dx => a = L /\ 2 * off <= dx /\ (0 < dx => -dx < 2 * off) /\ (dx = 0 => b = 0)
        /\ dx < dy => b = L /\ -dy <= 2 * off /\ 2 * off < dy
  BY <1>2 DEF PointOK
<1> HIDE DEF L, dx, dy, sx, sy
<1>4. a = dx /\ b = dy
  <2>1. CASE dy <= dx /\ dx = 0 BY <1>1, <1>3, <2>1
  <2>2. CASE dy <= dx /\ 0 < dx
    <3>1. a = dx BY <1>1, <1>3, <2>2
    <3>2. off = (dy - b) * dx
      <4>1. (dy - b) * dx = dx * dy - b * dx BY <1>1
      <4> QED BY <1>3, <3>1, <4>1
    <3>3. -dx <= 2 * ((dy - b) * dx) /\ 2 * ((dy - b) * dx) <= dx
      <4>1. -dx <= 2 * off /\ 2 * off <= dx BY <1>1, <1>3, <2>2
      <4> QED BY <3>2, <4>1
    <3>4. dy - b \in Int /\ dx \in Nat \ {0} BY <1>1, <2>2
    <3>5. dy - b = 0 BY <3>3, <3>4, SmallMultiple
    <3> QED BY <1>1, <3>1, <3>5
  <2>3. CASE dx < dy
    <3>1. b = dy BY <1>1, <1>3, <2>3
    <3>2. off = (a - dx) * dy
      <4>1. (a - dx) * dy = a * dy - dy * dx BY <1>1
      <4> QED BY <1>3, <3>1, <4>1
    <3>3. -dy <= 2 * ((a - dx) * dy) /\ 2 * ((a - dx) * dy) <= dy
      <4>1. -dy <= 2 * off /\ 2 * off <= dy BY <1>1, <1>3, <2>3
      <4> QED BY <3>2, <4>1
    <3>4. a - dx \in Int /\ dy \in Nat \ {0} BY <1>1, <2>3
    <3>5. a - dx = 0 BY <3>3, <3>4, SmallMultiple
    <3> QED BY <1>1, <3>1, <3>5
  <2>4. dy <= dx \/ dx < dy BY <1>1
  <2>5. dx = 0 \/ 0 < dx BY <1>1
  <2> QED BY <2>1, <2>2, <2>3, <2>4, <2>5
<1>5. p[1] + sx * a = q[1] /\ p[2] + sy * b = q[2]
  <2>1. sx * a = q[1] - p[1] /\ sy * b = q[2] - p[2] BY <1>1, <1>4
  <2> QED BY <1>1, <2>1
<1>6. last = <<q[1], q[2]>> BY <1>3, <1>5
<1>7. q = <<q[1], q[2]>> OBVIOUS
<1> QED BY <1>6, <1>7 DEF last, L

\* No point is further than half a cell from the line.
LEMMA InterpolateHugs ==
  ASSUME NEW p \in Int \X Int, NEW q \in Int \X Int, NEW i \in 0 .. Long(p, q),
         NEW at, at = Interpolate(p, q)[i + 1]
  PROVE  2 * Abs((at[1] - p[1]) * (q[2] - p[2]) - (at[2] - p[2]) * (q[1] - p[1])) <= Long(p, q)
<1> DEFINE L == Long(p, q)  dx == Wide(p, q)  dy == High(p, q)
           sx == Right(p, q)  sy == Down(p, q)
<1>1. /\ L \in Nat /\ dx \in Nat /\ dy \in Nat /\ sx \in {1, -1} /\ sy \in {1, -1}
      /\ L = (IF dx < dy THEN dy ELSE dx) /\ p[1] \in Int /\ p[2] \in Int
      /\ q[1] - p[1] = sx * dx /\ q[2] - p[2] = sy * dy
  BY LineMeasures
<1>2. PointOK(at, i, p, q) BY InterpolatePoints
<1>3. PICK a \in Nat, b \in Nat, off \in Int :
        /\ at = <<p[1] + sx * a, p[2] + sy * b>>
        /\ off = a * dy - b * dx
        /\ dy <= dx => a = i /\ 2 * off <= dx /\ (0 < dx => -dx < 2 * off) /\ (dx = 0 => b = 0)
        /\ dx < dy => b = i /\ -dy <= 2 * off /\ 2 * off < dy
  BY <1>2 DEF PointOK
<1> HIDE DEF L, dx, dy, sx, sy
<1>4. at[1] - p[1] = sx * a /\ at[2] - p[2] = sy * b
  <2>1. sx * a \in Int /\ sy * b \in Int BY <1>1
  <2> QED BY <1>1, <1>3, <2>1
<1>5. (sx * a) * (sy * dy) - (sy * b) * (sx * dx) = (sx * sy) * off
  <2>1. a * dy \in Int /\ b * dx \in Int BY <1>1
  <2>2. (sx * a) * (sy * dy) = (sx * sy) * (a * dy) BY <1>1
  <2>3. (sy * b) * (sx * dx) = (sx * sy) * (b * dx) BY <1>1
  <2>4. sx * sy \in {1, -1} BY <1>1
  <2> HIDE DEF sx, sy
  <2> QED BY <1>3, <2>1, <2>2, <2>3, <2>4
<1>6. -L <= 2 * off /\ 2 * off <= L
  <2>1. CASE dy <= dx /\ 0 < dx BY <1>1, <1>3, <2>1
  <2>2. CASE dy <= dx /\ dx = 0
    <3>1. b = 0 /\ dy = 0 /\ L = 0 /\ dx = 0 BY <1>1, <1>3, <2>2
    <3>2. a * 0 = 0 /\ 0 * 0 = 0 OBVIOUS
    <3>3. off = 0 BY <1>3, <3>1, <3>2
    <3> QED BY <3>1, <3>3
  <2>3. CASE dx < dy BY <1>1, <1>3, <2>3
  <2> QED BY <1>1, <2>1, <2>2, <2>3
<1>7. sx * sy \in {1, -1} BY <1>1
<1>8. 2 * Abs((sx * sy) * off) <= L BY <1>1, <1>6, <1>7 DEF Abs
<1>9. (at[1] - p[1]) * (q[2] - p[2]) - (at[2] - p[2]) * (q[1] - p[1]) = (sx * sy) * off
  BY <1>1, <1>4, <1>5
<1> QED BY <1>8, <1>9 DEF L

\* Along a row, a column or a diagonal the points are the cells of the line.
LEMMA InterpolateStraight ==
  ASSUME NEW p \in Int \X Int, NEW q \in Int \X Int, NEW i \in 0 .. Long(p, q),
         p[1] = q[1] \/ p[2] = q[2] \/ Abs(p[1] - q[1]) = Abs(p[2] - q[2])
  PROVE  Interpolate(p, q)[i + 1] =
           <<p[1] + i * Sign(q[1] - p[1]), p[2] + i * Sign(q[2] - p[2])>>
<1> DEFINE L == Long(p, q)  dx == Wide(p, q)  dy == High(p, q)
           sx == Right(p, q)  sy == Down(p, q)
           at == Interpolate(p, q)[i + 1]
<1>1. /\ L \in Nat /\ dx \in Nat /\ dy \in Nat /\ sx \in {1, -1} /\ sy \in {1, -1}
      /\ L = (IF dx < dy THEN dy ELSE dx) /\ p[1] \in Int /\ p[2] \in Int
      /\ q[1] - p[1] = sx * dx /\ q[2] - p[2] = sy * dy /\ q[1] \in Int /\ q[2] \in Int
  BY LineMeasures
<1>2. PointOK(at, i, p, q) BY InterpolatePoints
<1> HIDE DEF at
<1>3. PICK a \in Nat, b \in Nat, off \in Int :
        /\ at = <<p[1] + sx * a, p[2] + sy * b>>
        /\ off = a * dy - b * dx
        /\ dy <= dx => a = i /\ 2 * off <= dx /\ (0 < dx => -dx < 2 * off) /\ (dx = 0 => b = 0)
        /\ dx < dy => b = i /\ -dy <= 2 * off /\ 2 * off < dy
  BY <1>2 DEF PointOK
<1>4. dx = 0 \/ dy = 0 \/ dx = dy
  <2>1. Abs(p[1] - q[1]) = dx /\ Abs(p[2] - q[2]) = dy BY <1>1 DEF dx, dy, Wide, High, Abs
  <2>2. p[1] = q[1] => dx = 0 BY <1>1 DEF dx, Wide, Abs
  <2>3. p[2] = q[2] => dy = 0 BY <1>1 DEF dy, High, Abs
  <2> QED BY <2>1, <2>2, <2>3
<1>5. Sign(q[1] - p[1]) = (IF dx = 0 THEN 0 ELSE sx) /\ Sign(q[2] - p[2]) = (IF dy = 0 THEN 0 ELSE sy)
  <2>1. Sign(q[1] - p[1]) = (IF dx = 0 THEN 0 ELSE sx) BY <1>1 DEF Sign, dx, sx, Wide, Right, Abs
  <2>2. Sign(q[2] - p[2]) = (IF dy = 0 THEN 0 ELSE sy) BY <1>1 DEF Sign, dy, sy, High, Down, Abs
  <2> QED BY <2>1, <2>2
<1> HIDE DEF dx, dy, sx, sy
<1>6. a = (IF dx = 0 THEN 0 ELSE i) /\ b = (IF dy = 0 THEN 0 ELSE i)
  <2>1. CASE dx = 0 /\ dy = 0
    <3>1. i = 0 BY <1>1, <2>1
    <3> QED BY <1>1, <1>3, <2>1, <3>1
  <2>2. CASE dx # 0 /\ dy = 0
    <3>1. a = i BY <1>1, <1>3, <2>2
    <3>2. off = (-b) * dx
      <4>1. a * 0 = 0 /\ (-b) * dx = -(b * dx) BY <1>1
      <4>2. b * dx \in Int BY <1>1
      <4> QED BY <1>3, <2>2, <4>1, <4>2
    <3>3. -dx <= 2 * off /\ 2 * off <= dx BY <1>1, <1>3, <2>2
    <3>4. -b \in Int /\ dx \in Nat \ {0} BY <1>1, <2>2
    <3>5. -dx <= 2 * ((-b) * dx) /\ 2 * ((-b) * dx) <= dx BY <3>2, <3>3
    <3>6. -b = 0 BY <3>4, <3>5, SmallMultiple
    <3> QED BY <2>2, <3>1, <3>6
  <2>3. CASE dx = 0 /\ dy # 0
    <3>1. b = i BY <1>1, <1>3, <2>3
    <3>2. off = a * dy
      <4>1. b * 0 = 0 /\ a * dy \in Int BY <1>1
      <4> QED BY <1>3, <2>3, <4>1
    <3>3. -dy <= 2 * off /\ 2 * off <= dy BY <1>1, <1>3, <2>3
    <3>4. a \in Int /\ dy \in Nat \ {0} BY <1>1, <2>3
    <3>5. -dy <= 2 * (a * dy) /\ 2 * (a * dy) <= dy BY <3>2, <3>3
    <3>6. a = 0 BY <3>4, <3>5, SmallMultiple
    <3> QED BY <2>3, <3>1, <3>6
  <2>4. CASE dx = dy /\ dx # 0
    <3>1. a = i BY <1>1, <1>3, <2>4
    <3>2. off = (a - b) * dx
      <4>1. (a - b) * dx = a * dx - b * dx BY <1>1
      <4> QED BY <1>3, <2>4, <4>1
    <3>3. -dx <= 2 * off /\ 2 * off <= dx BY <1>1, <1>3, <2>4
    <3>4. a - b \in Int /\ dx \in Nat \ {0} BY <1>1, <2>4
    <3>5. -dx <= 2 * ((a - b) * dx) /\ 2 * ((a - b) * dx) <= dx BY <3>2, <3>3
    <3>6. a - b = 0 BY <3>4, <3>5, SmallMultiple
    <3>7. b = i BY <3>1, <3>6
    <3> QED BY <2>4, <3>1, <3>7
  <2> QED BY <1>4, <2>1, <2>2, <2>3, <2>4
<1>7. sx * a = i * (IF dx = 0 THEN 0 ELSE sx)
  <2>1. sx * 0 = 0 /\ i * 0 = 0 /\ sx * i = i * sx BY <1>1
  <2> QED BY <1>6, <2>1
<1>8. sy * b = i * (IF dy = 0 THEN 0 ELSE sy)
  <2>1. sy * 0 = 0 /\ i * 0 = 0 /\ sy * i = i * sy BY <1>1
  <2> QED BY <1>6, <2>1
<1> QED BY <1>3, <1>5, <1>7, <1>8 DEF at
================================================================================
