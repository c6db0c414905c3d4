----------------------------- MODULE MCJPSFinder -----------------------------
(* The instances of JPSFinder and GridReference that TLC checks. *)
EXTENDS GridReference

Full == <<Width, Height>>

\* Every map of the largest size.
AllMaps == [size : {Full}, walkable : SUBSET Cells]

\* Every map of a size whose border is not walkable.
WalledMapsOf(d) == [size : {d}, walkable : SUBSET InnerOf(d)]

WalledMaps == WalledMapsOf(Full)

\* For a grid 5 wide: a map on which the way back from another cell to cell 0 makes
\* a cycle of parents, and the one without walls.
SomeOpenMaps == [size : {<<5, 4>>}, walkable : {{0, 2, 6, 8, 11, 12}, 0 .. 19}]

\* Some without walls, and those with walls of two sizes: a node of the high map can be
\* on the border of the wide one or outside of it.
MapsOfSomeSizes ==
  WalledMapsOf(<<4, 5>>) \cup WalledMapsOf(<<5, 3>>) \cup SomeOpenMaps

\* The cells that are not on the border of a grid of the largest size.
InnerCells == InnerOf(Full)

\* The map of which nothing but the border is blocked.
OpenInside == [size : {Full}, walkable : {InnerCells}]

\* Width = Height = 6, "." walkable:   # # # # # #
\*                                     # . . # . #
\*                                     # . # . # #
\*                                     # . . # . #
\*                                     # . . . # #
\*                                     # # # # # #
\* On the way from (1,1) to (3,1) a node of the open list becomes cheaper.
CheaperLater == [size : {Full}, walkable : {{7, 8, 10, 13, 15, 19, 20, 22, 25, 26, 27}}]
=============================================================================
