----------------------------- MODULE TestMapProofs -----------------------------
(***************************************************************************)
(* Proofs about TestMap: what the csv loader leaves in its cells, and that *)
(* the invariants of the finder also hold on what it loads, whatever the   *)
(* files are.                                                              *)
(***************************************************************************)
EXTENDS TestMap, JPSFinderProofs

(* The types of the loader *)

\* The types of a line of a file, and of a cell.
Lines == [key : STRING, values : Seq(Int)]
CellData == [x : Nat, y : Nat, walkable : BOOLEAN]

LoaderTypes ==
  /\ load \in {"idle", "reading", "crashed", "undefined"}
  /\ rest \in Seq(Lines) /\ y \in Nat
  /\ width_ \in Int /\ heigth_ \in Int
  /\ cell_datas_ \in [DOMAIN cell_datas_ -> CellData]
  /\ files \in Seq(Seq(Lines))

\* The types hold before the first file.
LEMMA LoaderTypesAtInit ==
  ASSUME LoaderInit
  PROVE  LoaderTypes
<1>1. << >> \in [DOMAIN << >> -> CellData]
  <2>1. DOMAIN << >> = {} BY EmptySeq
  <2>2. << >> = [i \in {} |-> 0] OBVIOUS
  <2> QED BY <2>1, <2>2
<1> QED BY <1>1 DEF LoaderInit, LoaderTypes

\* The file that is loaded next.
LEMMA NextFile ==
  ASSUME LoaderTypes, NEW session \in Sessions, Load(session)
  PROVE  /\ session[Len(files) + 1] \in Seq(Lines)
         /\ Len(files') = Len(files) + 1
         /\ files'[Len(files) + 1] = session[Len(files) + 1]
         /\ \A k \in 1 .. Len(files) : files'[k] = files[k]
<1>1. session \in Seq(Seq(Lines)) BY LoaderAssumption DEF Lines
<1>2. files \in Seq(Seq(Lines)) /\ Len(files) \in Nat /\ Len(session) \in Nat
  BY <1>1, LenProperties DEF LoaderTypes
<1>3. /\ Len(files) <= Len(session) /\ files # session
      /\ SubSeq(files, 1, Len(files)) = SubSeq(session, 1, Len(files))
  BY DEF Load, IsStrictPrefix, IsPrefix
<1>4. Len(files) # Len(session)
  <2> SUFFICES ASSUME Len(files) = Len(session) PROVE FALSE OBVIOUS
  <2>1. SubSeq(files, 1, Len(files)) = files BY <1>2, SubSeqFull
  <2>2. SubSeq(session, 1, Len(session)) = session BY <1>1, SubSeqFull
  <2> QED BY <1>3, <2>1, <2>2
<1>5. session[Len(files) + 1] \in Seq(Lines)
  <2>1. Len(files) + 1 \in 1 .. Len(session) BY <1>2, <1>3, <1>4
  <2> QED BY <1>1, <2>1, ElementOfSeq
<1>6. files' = Append(files, session[Len(files) + 1]) BY DEF Load
<1> QED BY <1>2, <1>5, <1>6, AppendProperties

\* A cell that a row fills gets a column and a row.
LEMMA FilledIsCell ==
  ASSUME LoaderTypes, NEW line \in Lines, NEW i \in DOMAIN cell_datas_,
         i \in y * width_ .. y * width_ + Len(ParseCsv(line)) - 1
  PROVE  /\ Filled(i, ParseCsv(line)) \in CellData
         /\ Filled(i, ParseCsv(line)).x = i - y * width_
         /\ Filled(i, ParseCsv(line)).y = y
         /\ Filled(i, ParseCsv(line)).walkable <=>
              cell_datas_[i].walkable \/ line.values[i - y * width_ + 1] \notin {0, Blank}
<1> DEFINE fields == ParseCsv(line)
           n == i - y * width_ + 1
<1>1. line.values \in Seq(Int) BY DEF Lines
<1>2. Len(line.values) \in Nat /\ DOMAIN line.values = 1 .. Len(line.values)
  BY <1>1, LenProperties
<1>3. fields \in [1 .. Len(line.values) -> Int]
  <2>1. \A k \in DOMAIN line.values : line.values[k] \in Int BY <1>1, <1>2, ElementOfSeq
  <2> QED BY <1>2, <2>1 DEF ParseCsv
<1>4. Len(fields) = Len(line.values) BY <1>2, <1>3
<1>5. y * width_ \in Int /\ i \in Int BY DEF LoaderTypes
<1>6. n \in 1 .. Len(line.values) /\ n - 1 \in Nat /\ n - 1 = i - y * width_
  BY <1>2, <1>4, <1>5
<1>7. fields[n] # 0 <=> line.values[n] \notin {0, Blank}
  <2>1. fields[n] = IF line.values[n] = Blank THEN 0 ELSE line.values[n]
    BY <1>2, <1>6 DEF ParseCsv
  <2> QED BY <2>1 DEF Blank
<1>8. cell_datas_[i].walkable \in BOOLEAN BY DEF LoaderTypes, CellData
<1> HIDE DEF fields
<1>9. Filled(i, fields) = [x |-> n - 1, y |-> y,
                           walkable |-> cell_datas_[i].walkable \/ fields[n] # 0]
  BY DEF Filled
<1> HIDE DEF n
<1>10. /\ Filled(i, fields).x = i - y * width_ /\ Filled(i, fields).y = y
       /\ Filled(i, fields).walkable <=>
            cell_datas_[i].walkable \/ line.values[n] \notin {0, Blank}
  <2>1. /\ Filled(i, fields).x = n - 1 /\ Filled(i, fields).y = y
        /\ Filled(i, fields).walkable = (cell_datas_[i].walkable \/ fields[n] # 0)
    BY <1>9
  <2>2. Filled(i, fields).walkable <=>
          cell_datas_[i].walkable \/ line.values[n] \notin {0, Blank}
    BY <1>7, <2>1, Zenon
  <2> QED BY <1>6, <2>1, <2>2, Zenon
<1>11. Filled(i, fields) \in CellData BY <1>6, <1>8, <1>9 DEF CellData, LoaderTypes
<1> QED BY <1>10, <1>11 DEF fields, n

\* Every line of a file keeps them, whatever it says.
LEMMA LoaderTypesKept ==
  ASSUME LoaderTypes, [LoadedNext]_<<vars, loading>>
  PROVE  LoaderTypes'
<1>1. ASSUME NEW session \in Sessions, Load(session) PROVE LoaderTypes'
  <2>1. session[Len(files) + 1] \in Seq(Lines) BY <1>1, NextFile
  <2>2. files' \in Seq(Seq(Lines)) BY <1>1, <2>1, AppendProperties DEF Load, LoaderTypes
  <2> QED BY <1>1, <2>1, <2>2 DEF Load, LoaderTypes
<1>2. CASE ReadHeader
  <2>1. rest \in Seq(Lines) /\ rest # << >> BY <1>2 DEF ReadHeader, LoaderTypes
  <2>2. Head(rest) \in Lines /\ rest' \in Seq(Lines)
    BY <1>2, <2>1, HeadTailProperties DEF ReadHeader
  <2>3. Len(Head(rest).values) = 1 => Head(rest).values[1] \in Int
    <3>1. Head(rest).values \in Seq(Int) BY <2>2 DEF Lines
    <3> QED BY <3>1, ElementOfSeq
  <2>4. width_' \in Int /\ heigth_' \in Int BY <1>2, <2>3 DEF ReadHeader, LoaderTypes
  <2>5. cell_datas_' \in [DOMAIN cell_datas_' -> CellData]
    <3>1. cell_datas_' = cell_datas_ \/ cell_datas_' = NewCells(width_' * heigth_')
      BY <1>2 DEF ReadHeader
    <3>2. \A n : NewCells(n) \in [DOMAIN NewCells(n) -> CellData] BY DEF NewCells, CellData
    <3> QED BY <3>1, <3>2 DEF LoaderTypes
  <2> QED BY <1>2, <2>2, <2>4, <2>5 DEF ReadHeader, LoaderTypes
<1>3. CASE ReadRow
  <2>1. rest \in Seq(Lines) /\ rest # << >> BY <1>3 DEF ReadRow, LoaderTypes
  <2>2. Head(rest) \in Lines /\ rest' \in Seq(Lines)
    BY <1>3, <2>1, HeadTailProperties DEF ReadRow
  <2>3. cell_datas_' \in [DOMAIN cell_datas_' -> CellData]
    <3> DEFINE fields == ParseCsv(Head(rest))
               filled == y * width_ .. y * width_ + Len(fields) - 1
    <3>1. \A i \in DOMAIN cell_datas_ : i \in filled => Filled(i, fields) \in CellData
      BY <2>2, FilledIsCell
    <3>2. cell_datas_' = [i \in DOMAIN cell_datas_ |->
                            IF i \in filled THEN Filled(i, fields) ELSE cell_datas_[i]]
      BY <1>3 DEF ReadRow
    <3> HIDE DEF fields, filled
    <3> QED BY <3>1, <3>2 DEF LoaderTypes
  <2>4. load' \in {"reading", "crashed", "undefined"} /\ y' \in Nat
    BY <1>3 DEF ReadRow, LoaderTypes
  <2> QED BY <1>3, <2>2, <2>3, <2>4 DEF ReadRow, LoaderTypes
<1>4. CASE Loaded BY <1>4 DEF Loaded, LoaderTypes
<1>5. CASE InitFinder BY <1>5 DEF InitFinder, loading, LoaderTypes
<1>6. CASE UNCHANGED loading BY <1>6 DEF loading, LoaderTypes
<1> QED BY <1>1, <1>2, <1>3, <1>4, <1>5, <1>6 DEF LoadedNext, ReadFile, loading
-----------------------------------------------------------------------------
(* The finder on what is loaded *)

\* To the finder the steps of both are steps on some map, with some places.
LEMMA LoadedIsAnyNext ==
  ASSUME LoaderTypes, ControlOK, [LoadedNext]_<<vars, loading>>
  PROVE  [AnyNext]_vars
<1>1. CASE InitFinder
  <2>1. CASE Cells \subseteq DOMAIN cell_datas_
    <3>1. InitFrom(Walkable, Displaced, <<Width, Height>>) BY <1>1, <2>1 DEF InitFinder
    <3>2. Walkable \in SUBSET Cells BY DEF Walkable
    <3>3. Displaced \in Placings
      <4> DEFINE S == {i \in Cells : cell_datas_[i].x # X(i) \/ cell_datas_[i].y # Y(i)}
      <4>1. \A i \in S : <<cell_datas_[i].x, cell_datas_[i].y>> \in Nat \X Nat
        BY <2>1 DEF LoaderTypes, CellData
      <4>2. S \in SUBSET Cells OBVIOUS
      <4>3. Displaced = [i \in S |-> <<cell_datas_[i].x, cell_datas_[i].y>>] BY DEF Displaced
      <4> HIDE DEF S
      <4>4. Displaced \in [S -> Nat \X Nat] BY <4>1, <4>3
      <4> QED BY <4>2, <4>4 DEF Placings
    <3>4. CanInit
      <4>1. pc = "new" BY <1>1 DEF InitFinder
      <4>2. inits = 0 BY <4>1 DEF ControlOK
      <4> QED BY <4>1, <4>2, FinderAssumption DEF CanInit
    <3>5. <<Width, Height>> \in Sizes BY GridAssumption DEF Sizes
    <3>6. Cells \subseteq Area(<<Width, Height>>)
      <4>1. ASSUME NEW n \in Cells PROVE X(n) < Width /\ Y(n) < Height
        <5>1. IsInside(X(n), Y(n)) BY CellIsInside
        <5> QED BY <5>1, GridAssumption DEF IsInside
      <4> QED BY <4>1 DEF Area
    <3>7. Walkable \subseteq Area(<<Width, Height>>) BY <3>2, <3>6
    <3> QED BY <3>1, <3>2, <3>3, <3>4, <3>5, <3>7 DEF AnyNext, AnyMap
  <2>2. CASE ~ (Cells \subseteq DOMAIN cell_datas_) BY <1>1, <2>2 DEF InitFinder
  <2> QED BY <2>1, <2>2
<1>2. CASE CallOutside \/ (\E s \in Starts, e \in Ends : Call(s, e)) \/ Step
  BY <1>2 DEF AnyNext, AnyCall
<1>3. CASE UNCHANGED vars BY <1>3
<1> QED BY <1>1, <1>2, <1>3 DEF LoadedNext

\* The types of the loader and the invariant of the finder hold together.
THEOREM LoadedInvariant == LoadedSpec => [](LoaderTypes /\ IInv)
<1>1. LoadedInit => LoaderTypes /\ IInv
  BY LoaderTypesAtInit, InvariantAtInit DEF LoadedInit
<1>2. LoaderTypes /\ IInv /\ [LoadedNext]_<<vars, loading>> => (LoaderTypes /\ IInv)'
  <2> SUFFICES ASSUME LoaderTypes, IInv, [LoadedNext]_<<vars, loading>>
               PROVE  LoaderTypes' /\ IInv'
    OBVIOUS
  <2>1. [AnyNext]_vars BY LoadedIsAnyNext DEF IInv
  <2> QED BY <2>1, LoaderTypesKept, InvariantKept
<1> QED BY <1>1, <1>2, PTL DEF LoadedSpec

\* Whatever was in the files, the searches enter cells that are walkable only.
THEOREM LoadedWalkableEntered == LoadedSpec => []OnlyWalkableEntered
<1>1. IInv => OnlyWalkableEntered BY DEF IInv
<1> QED BY <1>1, LoadedInvariant, PTL

\* Whatever was in the files, a call that does not return has a cause of StopsHaveACause.
THEOREM LoadedStopsHaveACause == LoadedSpec => []StopsHaveACause
<1>1. IInv => StopsHaveACause BY InvariantNamesCauses
<1> QED BY <1>1, LoadedInvariant, PTL

-----------------------------------------------------------------------------
(* The places of the cells *)

\* A file that gives no other width than the one of the finder's grid.
WidthLine(line) == line.key = "@width" => line.values = <<Width>> \/ Len(line.values) # 1

\* A cell that no row has filled, or one that a row of the width's grid has.
UnsetOrSpilled(i) ==
  LET c == cell_datas_[i]
  IN \/ c.x = 0 /\ c.y = 0 /\ c.walkable = FALSE
     \/ GetCell(c.x, c.y) = i

\* While every file has one width, a cell is unset, or where the loader put it.
CellsOK ==
  OneWidth =>
    /\ width_ \in {0, Width} /\ (cell_datas_ # << >> => width_ = Width)
    /\ \A k \in DOMAIN rest : WidthLine(rest[k])
    /\ \A i \in DOMAIN cell_datas_ : UnsetOrSpilled(i)

\* No cell is wrong before the first file.
LEMMA CellsAtInit ==
  ASSUME LoaderInit
  PROVE  CellsOK
<1>1. DOMAIN << >> = {} BY EmptySeq
<1> QED BY <1>1 DEF LoaderInit, CellsOK

\* A row fills cell i with the column and the row that make up i.
LEMMA CellsKept ==
  ASSUME LoaderTypes, CellsOK, [LoadedNext]_<<vars, loading>>
  PROVE  CellsOK'
<1> SUFFICES ASSUME OneWidth'
             PROVE  /\ width_' \in {0, Width} /\ (cell_datas_' # << >> => width_' = Width)
                    /\ \A k \in DOMAIN rest' : WidthLine(rest'[k])
                    /\ \A i \in DOMAIN cell_datas_' : UnsetOrSpilled(i)'
  BY DEF CellsOK, WidthLine
<1>1. ASSUME NEW session \in Sessions, Load(session)
      PROVE  /\ width_' \in {0, Width} /\ (cell_datas_' # << >> => width_' = Width)
             /\ \A k \in DOMAIN rest' : WidthLine(rest'[k])
             /\ \A i \in DOMAIN cell_datas_' : UnsetOrSpilled(i)'
  <2>1. /\ session[Len(files) + 1] \in Seq(Lines)
        /\ Len(files') = Len(files) + 1
        /\ files'[Len(files) + 1] = session[Len(files) + 1]
        /\ \A k \in 1 .. Len(files) : files'[k] = files[k]
    BY <1>1, NextFile
  <2>2. Len(files) \in Nat /\ DOMAIN files = 1 .. Len(files) BY LenProperties DEF LoaderTypes
  <2>3. files' \in Seq(Seq(Lines)) BY <1>1, <2>1, AppendProperties DEF Load, LoaderTypes
  <2>4. DOMAIN files' = 1 .. Len(files) + 1 BY <2>1, <2>3, LenProperties
  <2>5. OneWidth
    <3>1. \A k \in DOMAIN files : k \in DOMAIN files' /\ files'[k] = files[k]
      BY <2>1, <2>2, <2>4
    <3> QED BY <3>1 DEF OneWidth
  <2>6. \A k \in DOMAIN rest' : WidthLine(rest'[k])
    <3>1. rest' = files'[Len(files) + 1] BY <1>1, <2>1 DEF Load
    <3>2. Len(files) + 1 \in DOMAIN files' BY <2>2, <2>4
    <3>3. \A line \in ToSet(rest') : WidthLine(line) BY <3>1, <3>2 DEF OneWidth, WidthLine
    <3> QED BY <3>3 DEF ToSet
  <2>7. cell_datas_' = cell_datas_ /\ width_' = width_ BY <1>1 DEF Load
  <2> QED BY <2>5, <2>6, <2>7 DEF CellsOK, UnsetOrSpilled
<1>2. CASE ReadHeader \/ ReadRow \/ Loaded \/ InitFinder \/ UNCHANGED loading
  <2>1. OneWidth
    <3>1. files' = files BY <1>2 DEF ReadHeader, ReadRow, Loaded, InitFinder, loading
    <3> QED BY <3>1 DEF OneWidth
  <2>2. ASSUME rest # << >>, rest' = Tail(rest)
        PROVE  /\ Head(rest) \in Lines /\ WidthLine(Head(rest))
               /\ \A k \in DOMAIN rest' : WidthLine(rest'[k])
    <3>1. /\ rest \in Seq(Lines) /\ Len(rest) \in Nat \ {0} /\ DOMAIN rest = 1 .. Len(rest)
      BY <2>2, LenProperties, EmptySeq DEF LoaderTypes
    <3>2. /\ Head(rest) \in Lines /\ rest' \in Seq(Lines) /\ Len(rest') = Len(rest) - 1
          /\ \A k \in 1 .. Len(rest') : rest'[k] = rest[k + 1]
          /\ Head(rest) = rest[1]
      BY <2>2, <3>1, HeadTailProperties
    <3>3. DOMAIN rest' = 1 .. Len(rest) - 1 BY <3>2, LenProperties
    <3>4. /\ 1 \in DOMAIN rest
          /\ \A k \in DOMAIN rest' : k + 1 \in DOMAIN rest /\ rest'[k] = rest[k + 1]
      BY <3>1, <3>2, <3>3
    <3> QED BY <2>1, <3>2, <3>4 DEF CellsOK
  <2>3. CASE ReadHeader
    <3>1. WidthLine(Head(rest)) /\ \A k \in DOMAIN rest' : WidthLine(rest'[k])
      BY <2>2, <2>3 DEF ReadHeader
    <3>2. width_' = width_ \/ width_' = Width BY <2>3, <3>1 DEF ReadHeader, WidthLine
    <3>3. CASE cell_datas_' = cell_datas_
      BY <2>1, <3>1, <3>2, <3>3 DEF CellsOK, UnsetOrSpilled
    <3>4. CASE cell_datas_' # cell_datas_
      <4>1. cell_datas_' = NewCells(width_' * heigth_') /\ width_' > 0
        BY <2>3, <3>4 DEF ReadHeader
      <4>2. width_' = Width BY <2>1, <3>2, <4>1 DEF CellsOK
      <4>3. \A i \in DOMAIN cell_datas_' : UnsetOrSpilled(i)'
        BY <4>1 DEF NewCells, UnsetOrSpilled
      <4> QED BY <3>1, <4>2, <4>3 DEF CellsOK
    <3> QED BY <3>3, <3>4
  <2>4. CASE ReadRow
    <3> DEFINE fields == ParseCsv(Head(rest))
               filled == y * width_ .. y * width_ + Len(fields) - 1
    <3>1. Head(rest) \in Lines /\ \A k \in DOMAIN rest' : WidthLine(rest'[k])
      BY <2>2, <2>4 DEF ReadRow
    <3>2. /\ cell_datas_' = [i \in DOMAIN cell_datas_ |->
                               IF i \in filled THEN Filled(i, fields) ELSE cell_datas_[i]]
          /\ width_' = width_
      BY <2>4 DEF ReadRow
    <3>3. ASSUME NEW i \in DOMAIN cell_datas_ PROVE UnsetOrSpilled(i)'
      <4>1. width_ = Width /\ UnsetOrSpilled(i)
        <5>1. cell_datas_ # << >> BY EmptySeq
        <5> QED BY <2>1, <5>1 DEF CellsOK
      <4>2. CASE i \in filled
        <5>1. /\ cell_datas_'[i] = Filled(i, fields)
              /\ Filled(i, fields).x = i - y * width_ /\ Filled(i, fields).y = y
          BY <3>1, <3>2, <4>2, FilledIsCell
        <5>2. i \in Int /\ y * Width \in Int BY <4>1, <4>2 DEF LoaderTypes
        <5>3. GetCell(i - y * Width, y) = i BY <5>2 DEF GetCell
        <5>4. GetCell(cell_datas_'[i].x, cell_datas_'[i].y) = i BY <4>1, <5>1, <5>3
        <5> QED BY <5>4 DEF UnsetOrSpilled
      <4>3. CASE i \notin filled
        <5>1. cell_datas_'[i] = cell_datas_[i] BY <3>2, <4>3
        <5> QED BY <4>1, <5>1 DEF UnsetOrSpilled
      <4> QED BY <4>2, <4>3
    <3> HIDE DEF fields, filled
    <3>4. DOMAIN cell_datas_' = DOMAIN cell_datas_ BY <3>2
    <3>5. cell_datas_' # << >> => cell_datas_ # << >>
      <4>1. DOMAIN << >> = {} BY EmptySeq
      <4>2. cell_datas_ = << >> => cell_datas_' = << >> BY <3>2, <4>1
      <4> QED BY <4>2
    <3> QED BY <2>1, <3>1, <3>2, <3>3, <3>4, <3>5 DEF CellsOK
  <2>5. CASE UNCHANGED <<rest, cell_datas_, width_>>
    BY <2>1, <2>5 DEF CellsOK, UnsetOrSpilled
  <2>6. Loaded \/ InitFinder \/ UNCHANGED loading => UNCHANGED <<rest, cell_datas_, width_>>
    BY DEF Loaded, InitFinder, loading
  <2> QED BY <1>2, <2>3, <2>4, <2>5, <2>6
<1> QED BY <1>1, <1>2 DEF LoadedNext, ReadFile, loading

\* The places that the finder gets from such cells.
LEMMA DisplacedByInit ==
  ASSUME LoaderTypes, ControlOK, StateOK, CellsOK, OneWidth, InitFinder, pc' # "new"
  PROVE  \A n \in DOMAIN displaced' :
           \/ displaced'[n] = <<0, 0>> /\ n \notin walkable'
           \/ displaced'[n][1] >= Width /\ GetCell(displaced'[n][1], displaced'[n][2]) = n
<1>1. /\ Cells \subseteq DOMAIN cell_datas_ /\ pc = "new"
      /\ InitFrom(Walkable, Displaced, <<Width, Height>>)
  BY DEF InitFinder, vars
<1>2. inits * Size = 0
  <2>1. inits = 0 BY <1>1 DEF ControlOK
  <2> QED BY <2>1, SizeIsPositive
<1>3. DOMAIN displaced = {}
  <2>1. Used = 0 .. 0 - 1 BY <1>2, Zenon DEF Used
  <2>2. Used = {} BY <2>1
  <2> QED BY <2>2 DEF StateOK, PlacesOK
<1>4. /\ walkable' = Walkable
      /\ displaced' = [n \in {i + 0 : i \in DOMAIN Displaced} |-> Displaced[CellOf(n)]]
  <2>1. DOMAIN Displaced \subseteq Cells BY DEF Displaced
  <2>2. \A i \in DOMAIN Displaced : inits * Size + i = i + 0 /\ ~ (i + 0 < inits * Size)
    BY <1>2, <2>1, SizeIsPositive
  <2>3. /\ walkable' = Walkable
        /\ displaced' = [n \in {inits * Size + i : i \in DOMAIN Displaced} |->
                           IF n < inits * Size THEN displaced[n] ELSE Displaced[CellOf(n)]]
    BY <1>1, <1>3 DEF InitFrom
  <2> DEFINE D == {i + 0 : i \in DOMAIN Displaced}
  <2>4. {inits * Size + i : i \in DOMAIN Displaced} = D BY <2>2
  <2>5. \A n \in D : ~ (n < inits * Size) BY <2>2
  <2> HIDE DEF D
  <2>6. displaced' = [n \in D |-> Displaced[CellOf(n)]] BY <2>3, <2>4, <2>5
  <2> QED BY <2>3, <2>6 DEF D
<1>5. SUFFICES ASSUME NEW i \in DOMAIN Displaced
               PROVE  /\ displaced'[i] = Displaced[i]
                      /\ \/ Displaced[i] = <<0, 0>> /\ i \notin Walkable
                         \/ /\ Displaced[i][1] >= Width
                            /\ GetCell(Displaced[i][1], Displaced[i][2]) = i
  <2>1. DOMAIN Displaced \subseteq Int BY SizeIsPositive DEF Displaced
  <2>2. DOMAIN displaced' = DOMAIN Displaced BY <1>4, <2>1
  <2> QED BY <1>4, <2>2
<1>6. /\ i \in Cells /\ i \in Nat
      /\ cell_datas_[i].x # X(i) \/ cell_datas_[i].y # Y(i)
      /\ Displaced[i] = <<cell_datas_[i].x, cell_datas_[i].y>>
  BY SizeIsPositive DEF Displaced
<1>7. displaced'[i] = Displaced[i]
  <2>1. CellOf(i) = i /\ i + 0 = i BY <1>6, SizeIsPositive DEF CellOf
  <2> QED BY <1>4, <2>1
<1>8. UnsetOrSpilled(i) BY <1>1, <1>6 DEF CellsOK
<1>9. CASE cell_datas_[i].x = 0 /\ cell_datas_[i].y = 0 /\ cell_datas_[i].walkable = FALSE
  BY <1>6, <1>7, <1>9 DEF Walkable
<1>10. CASE GetCell(cell_datas_[i].x, cell_datas_[i].y) = i
  <2> DEFINE a == cell_datas_[i].x
             b == cell_datas_[i].y
  <2>1. a \in Nat /\ b \in Nat BY <1>1, <1>6 DEF LoaderTypes, CellData
  <2>2. a >= Width
    <3> SUFFICES ASSUME ~ (a >= Width) PROVE FALSE OBVIOUS
    <3>1. a \in 0 .. Width - 1 BY <2>1, GridAssumption
    <3>2. X(GetCell(a, b)) = a /\ Y(GetCell(a, b)) = b BY <2>1, <3>1, ExactCell
    <3> QED BY <1>6, <1>10, <3>2
  <2> QED BY <1>6, <1>7, <1>10, <2>2
<1> QED BY <1>8, <1>9, <1>10 DEF UnsetOrSpilled

\* The finder copies the cells once, and keeps them.
LEMMA DisplacedKept ==
  ASSUME LoaderTypes, ControlOK, StateOK, CellsOK, DisplacedIsUnsetOrSpilled,
         [LoadedNext]_<<vars, loading>>
  PROVE  DisplacedIsUnsetOrSpilled'
<1> SUFFICES ASSUME pc' # "new", OneWidth'
             PROVE  \A n \in DOMAIN displaced' :
                      \/ displaced'[n] = <<0, 0>> /\ n \notin walkable'
                      \/ /\ displaced'[n][1] >= Width
                         /\ GetCell(displaced'[n][1], displaced'[n][2]) = n
  BY DEF DisplacedIsUnsetOrSpilled, GetCell
<1>1. CASE InitFinder
  <2>1. files' = files BY <1>1 DEF InitFinder, loading
  <2>2. OneWidth BY <2>1 DEF OneWidth
  <2> QED BY <1>1, <2>2, DisplacedByInit
<1>2. CASE ReadFile /\ UNCHANGED vars
  <2>1. pc # "new" /\ displaced' = displaced /\ walkable' = walkable
    BY <1>2 DEF vars, grid
  <2>2. files' = files BY <1>2, <2>1 DEF ReadFile, Load, ReadHeader, ReadRow, Loaded
  <2>3. OneWidth BY <2>2 DEF OneWidth
  <2> QED BY <2>1, <2>3 DEF DisplacedIsUnsetOrSpilled
<1>3. CASE /\ CallOutside \/ (\E s \in Starts, e \in Ends : Call(s, e)) \/ Step
           /\ UNCHANGED loading
  <2>1. displaced' = displaced /\ walkable' = walkable
    BY <1>3 DEF Step, GiveUp, ReachEnd, CrashAtEnd, HangAtEnd, Expand, Skip, JumpForever, Relax,
                Expanded, Pop, CallOutside, Call, grid
  <2>2. pc # "new"
    <3>1. pc = "new" => pc' = "new"
      BY <1>3 DEF Step, GiveUp, ReachEnd, CrashAtEnd, HangAtEnd, Expand, Skip, JumpForever,
                  Relax, Expanded, Pop, CallOutside, Call
    <3> QED BY <3>1
  <2>3. OneWidth
    <3>1. files' = files BY <1>3 DEF loading
    <3> QED BY <3>1 DEF OneWidth
  <2> QED BY <2>1, <2>2, <2>3 DEF DisplacedIsUnsetOrSpilled
<1>4. CASE UNCHANGED <<vars, loading>>
  <2>1. pc' = pc /\ displaced' = displaced /\ walkable' = walkable /\ files' = files
    BY <1>4 DEF vars, grid, loading
  <2>2. OneWidth BY <2>1 DEF OneWidth
  <2> QED BY <2>1, <2>2 DEF DisplacedIsUnsetOrSpilled
<1> QED BY <1>1, <1>2, <1>3, <1>4 DEF LoadedNext

\* When the files give one width, a cell with another place than its own is one that
\* no row has filled, or one that a row too long has: nothing else misleads a search.
THEOREM PlacesHaveACause == LoadedSpec => []DisplacedIsUnsetOrSpilled
<1>1. LoadedInit => CellsOK /\ DisplacedIsUnsetOrSpilled
  BY CellsAtInit DEF LoadedInit, Init, DisplacedIsUnsetOrSpilled
<1>2. /\ LoaderTypes /\ IInv /\ CellsOK /\ DisplacedIsUnsetOrSpilled
      /\ [LoadedNext]_<<vars, loading>>
      => (CellsOK /\ DisplacedIsUnsetOrSpilled)'
  BY CellsKept, DisplacedKept DEF IInv
<1> QED BY <1>1, <1>2, LoadedInvariant, PTL DEF LoadedSpec

-----------------------------------------------------------------------------
(* Well-formed files *)

\* The two headers a file starts with.
WidthHeader == [key |-> "@width", values |-> <<Width>>]
HeightHeader == [key |-> "@heigth", values |-> <<Height>>]

\* The headers, the rows and their number.
LEMMA WellFormedLines ==
  ASSUME NEW file \in Seq(Lines), WellFormed(file)
  PROVE  /\ Len(file) \in Nat /\ Len(file) >= 2 /\ Len(file) <= Height + 2
         /\ DOMAIN file = 1 .. Len(file)
         /\ \/ file[1] = WidthHeader /\ file[2] = HeightHeader
            \/ file[1] = HeightHeader /\ file[2] = WidthHeader
         /\ \A k \in 3 .. Len(file) : ~ IsHeader(file[k]) /\ Len(file[k].values) = Width
         /\ Len(Rows(file)) = Len(file) - 2
         /\ \A r \in 1 .. Len(file) - 2 : Rows(file)[r] = file[r + 2]
<1>1. Len(file) \in Nat /\ DOMAIN file = 1 .. Len(file) BY LenProperties
<1>2. Len(file) >= 2 /\ Len(file) <= Height + 2 BY DEF WellFormed
<1>3. \A k \in 3 .. Len(file) : file[k] \in Lines BY <1>1, ElementOfSeq
<1>4. /\ Len(Rows(file)) = IF 3 <= Len(file) THEN Len(file) - 3 + 1 ELSE 0
      /\ \A r \in 1 .. Len(file) - 3 + 1 : Rows(file)[r] = file[3 + r - 1]
  BY <1>1, <1>3, SubSeqProperties DEF Rows
<1>5. Len(Rows(file)) = Len(file) - 2
  <2>1. CASE 3 <= Len(file)
    <3>1. Len(Rows(file)) = Len(file) - 3 + 1 BY <1>4, <2>1
    <3>2. Len(file) - 3 + 1 = Len(file) - 2 BY <1>1
    <3> QED BY <3>1, <3>2
  <2>2. CASE Len(file) = 2
    <3>1. Len(Rows(file)) = 0 BY <1>4, <2>2
    <3> QED BY <2>2, <3>1
  <2>3. 3 <= Len(file) \/ Len(file) = 2 BY <1>1, <1>2
  <2> QED BY <2>1, <2>2, <2>3
<1>6. \A r \in 1 .. Len(file) - 2 : Rows(file)[r] = file[r + 2]
  <2>1. \A r \in 1 .. Len(file) - 2 : r \in 1 .. Len(file) - 3 + 1 /\ 3 + r - 1 = r + 2
    BY <1>1
  <2> QED BY <1>4, <2>1
<1>7. {file[1], file[2]} = {WidthHeader, HeightHeader}
  BY DEF WellFormed, WidthHeader, HeightHeader
<1>8. \/ file[1] = WidthHeader /\ file[2] = HeightHeader
      \/ file[1] = HeightHeader /\ file[2] = WidthHeader
  <2>1. /\ file[1] = WidthHeader \/ file[1] = HeightHeader
        /\ WidthHeader = file[1] \/ WidthHeader = file[2]
        /\ HeightHeader = file[1] \/ HeightHeader = file[2]
        /\ file[2] = WidthHeader \/ file[2] = HeightHeader
    BY <1>7
  <2> QED BY <2>1, Zenon
<1>9. \A k \in 3 .. Len(file) : ~ IsHeader(file[k]) /\ Len(file[k].values) = Width
  BY DEF WellFormed
<1> QED BY <1>1, <1>2, <1>5, <1>6, <1>8, <1>9

\* The cells of row r, the ones that a row of the full width goes to.
LEMMA RowCells ==
  ASSUME NEW i \in Cells, NEW r \in Nat
  PROVE  /\ i \in r * Width .. r * Width + Width - 1 <=> Y(i) = r
         /\ Y(i) = r => i - r * Width = X(i)
<1>1. i \in Nat /\ r * Width \in Nat BY SizeIsPositive, GridAssumption, ProductIsNat
<1>2. X(i) \in 0 .. Width - 1 /\ Y(i) \in Nat /\ i = Y(i) * Width + X(i)
  BY <1>1, Coordinates DEF GetCell
<1>3. ASSUME Y(i) = r
      PROVE  i \in r * Width .. r * Width + Width - 1 /\ i - r * Width = X(i)
  <2>1. i = r * Width + X(i) BY <1>2, <1>3
  <2> QED BY <1>1, <1>2, <2>1, GridAssumption
<1>4. ASSUME i \in r * Width .. r * Width + Width - 1 PROVE Y(i) = r
  <2> DEFINE x == i - r * Width
  <2>1. x \in 0 .. Width - 1 /\ i = r * Width + x BY <1>1, <1>4, GridAssumption
  <2> HIDE DEF x
  <2>2. GetCell(x, r) = i BY <2>1 DEF GetCell
  <2>3. Y(GetCell(x, r)) = r BY <2>1, ExactCell
  <2> QED BY <2>2, <2>3
<1> QED BY <1>3, <1>4

\* A row of the full width stays inside the cells.
LEMMA RowIsInside ==
  ASSUME NEW r \in Nat, r < Height
  PROVE  r * Width .. r * Width + Width - 1 \subseteq Cells
<1>1. r * Width + Width <= Height * Width BY Multiples, GridAssumption
<1>2. Height * Width = Width * Height /\ Height * Width \in Nat BY GridAssumption
<1>3. r * Width \in Nat BY GridAssumption, ProductIsNat
<1> QED BY <1>1, <1>2, <1>3, GridAssumption DEF Cells
-----------------------------------------------------------------------------
(* What well-formed files leave in the cells *)

\* Every file read so far is well formed.
AllWellFormed == \A k \in DOMAIN files : WellFormed(files[k])

\* The file that is read, and how many lines of it have been.
Newest == files[Len(files)]
\* How much of the newest file has been read, headers included.
LinesRead == Len(Newest) - Len(rest)

\* File k has been read up to the row of cell i.
Seen(k, i) == k < Len(files) \/ load = "idle" \/ Y(i) < y

\* The rows that have been read say that cell i is walkable, and give it its place.
SaidSoFar(i) == \E k \in DOMAIN files : Seen(k, i) /\ Says(files[k], i)
PlacedSoFar(i) == \E k \in DOMAIN files : Seen(k, i) /\ Y(i) < Len(Rows(files[k]))

\* LoadedAsWritten, as far as the newest file has been read.
AsWrittenSoFar ==
  \A i \in Cells :
    /\ cell_datas_[i].walkable <=> SaidSoFar(i)
    /\ <<cell_datas_[i].x, cell_datas_[i].y>> =
         IF PlacedSoFar(i) THEN <<X(i), Y(i)>> ELSE <<0, 0>>

\* The array once a file has been read past its headers.
Allocated ==
  /\ width_ = Width /\ heigth_ = Height
  /\ DOMAIN cell_datas_ = Cells
  /\ AsWrittenSoFar

\* Before the second header of the first file.
Unallocated ==
  /\ load = "reading" /\ Len(files) = 1 /\ cell_datas_ = << >>
  /\ \/ LinesRead = 0 /\ width_ = 0 /\ heigth_ = 0
     \/ LinesRead = 1 /\ width_ = Width /\ heigth_ = 0 /\ Newest[1].key = "@width"
     \/ LinesRead = 1 /\ width_ = 0 /\ heigth_ = Height /\ Newest[1].key = "@heigth"

\* The place in the file that is read.
Position ==
  /\ files # << >> /\ LinesRead \in Nat
  /\ \A j \in 1 .. Len(rest) : rest[j] = Newest[LinesRead + j]
  /\ y = IF LinesRead < 2 THEN 0 ELSE LinesRead - 2

\* Where the loader is while every file is well formed.
LoaderOK ==
  AllWellFormed =>
    /\ load \in {"idle", "reading"}
    /\ load = "reading" => Position
    /\ IF files = << >> THEN width_ = 0 /\ heigth_ = 0 /\ cell_datas_ = << >>
       ELSE Allocated \/ Unallocated

\* The newest file is one of them.
LEMMA NewestFile ==
  ASSUME LoaderTypes, files # << >>
  PROVE  /\ Len(files) \in Nat \ {0} /\ DOMAIN files = 1 .. Len(files)
         /\ Len(files) \in DOMAIN files /\ Newest \in Seq(Lines) /\ Len(rest) \in Nat
         /\ AllWellFormed => WellFormed(Newest)
<1>1. Len(files) \in Nat \ {0} /\ DOMAIN files = 1 .. Len(files)
  BY LenProperties, EmptySeq DEF LoaderTypes
<1>2. Newest \in Seq(Lines) BY <1>1, ElementOfSeq DEF Newest, LoaderTypes
<1>3. Len(rest) \in Nat BY LenProperties DEF LoaderTypes
<1> QED BY <1>1, <1>2, <1>3 DEF AllWellFormed, Newest

\* The next line is where the position says.
LEMMA NextLine ==
  ASSUME LoaderTypes, Position, rest # << >>, rest' = Tail(rest), files' = files
  PROVE  /\ Head(rest) = Newest[LinesRead + 1] /\ Head(rest) \in Lines
         /\ LinesRead + 1 <= Len(Newest) /\ LinesRead' = LinesRead + 1
         /\ \A j \in 1 .. Len(rest') : rest'[j] = Newest[LinesRead' + j]
<1>1. /\ rest \in Seq(Lines) /\ Len(rest) \in Nat \ {0}
  BY EmptySeq DEF LoaderTypes
<1>2. /\ Head(rest) \in Lines /\ Len(rest') = Len(rest) - 1 /\ Head(rest) = rest[1]
      /\ \A j \in 1 .. Len(rest') : rest'[j] = rest[j + 1]
  BY <1>1, HeadTailProperties
<1>3. Newest' = Newest BY DEF Newest
<1>4. Newest \in Seq(Lines) /\ Len(Newest) \in Nat BY NewestFile, LenProperties DEF Position
<1>5. LinesRead' = LinesRead + 1 /\ LinesRead \in Nat /\ LinesRead + 1 <= Len(Newest)
  BY <1>1, <1>2, <1>3, <1>4 DEF LinesRead, Position
<1>6. Head(rest) = Newest[LinesRead + 1] BY <1>1, <1>2 DEF Position
<1>7. ASSUME NEW j \in 1 .. Len(rest') PROVE rest'[j] = Newest[LinesRead' + j]
  <2>1. j + 1 \in 1 .. Len(rest) BY <1>1, <1>2
  <2>2. rest[j + 1] = Newest[LinesRead + (j + 1)] BY <2>1 DEF Position
  <2>3. LinesRead + (j + 1) = LinesRead' + j BY <1>5
  <2> QED BY <1>2, <2>2, <2>3
<1> QED BY <1>2, <1>5, <1>6, <1>7

\* A further file: what the files before have left is there.
LEMMA WrittenByLoad ==
  ASSUME LoaderTypes, LoaderOK, NEW session \in Sessions, Load(session)
  PROVE  LoaderOK'
<1> SUFFICES ASSUME AllWellFormed'
             PROVE  /\ load' = "reading" /\ Position'
                    /\ files' # << >> /\ (Allocated' \/ Unallocated')
  BY DEF LoaderOK
<1>1. /\ session[Len(files) + 1] \in Seq(Lines)
      /\ Len(files') = Len(files) + 1
      /\ files'[Len(files) + 1] = session[Len(files) + 1]
      /\ \A k \in 1 .. Len(files) : files'[k] = files[k]
  BY NextFile
<1>2. /\ load = "idle" /\ load' = "reading" /\ rest' = session[Len(files) + 1] /\ y' = 0
      /\ cell_datas_' = cell_datas_ /\ width_' = width_ /\ heigth_' = heigth_
  BY DEF Load
<1>3. Len(files) \in Nat /\ DOMAIN files = 1 .. Len(files) BY LenProperties DEF LoaderTypes
<1>4. files' \in Seq(Seq(Lines)) BY <1>1, AppendProperties DEF Load, LoaderTypes
<1>5. DOMAIN files' = 1 .. Len(files) + 1 BY <1>1, <1>4, LenProperties
<1>6. AllWellFormed
  <2>1. \A k \in DOMAIN files : k \in DOMAIN files' /\ files'[k] = files[k] BY <1>1, <1>3, <1>5
  <2> QED BY <2>1 DEF AllWellFormed, WellFormed
<1>7. files' # << >>
  <2>1. DOMAIN << >> = {} BY EmptySeq
  <2>2. 1 \in DOMAIN files' BY <1>3, <1>5
  <2> QED BY <2>1, <2>2
<1>8. Newest' = rest' /\ LinesRead' = 0
  <2>1. Newest' = rest' BY <1>1, <1>2 DEF Newest
  <2>2. Len(rest') \in Nat BY <1>1, <1>2, LenProperties
  <2> QED BY <2>1, <2>2 DEF LinesRead
<1>9. Position'
  <2>1. \A j \in 1 .. Len(rest') : rest'[j] = Newest'[LinesRead' + j]
    BY <1>8
  <2> QED BY <1>2, <1>7, <1>8, <2>1 DEF Position
<1>10. CASE files = << >>
  <2>1. width_ = 0 /\ heigth_ = 0 /\ cell_datas_ = << >> BY <1>6, <1>10 DEF LoaderOK
  <2>2. Len(files') = 1 BY <1>1, <1>10, EmptySeq
  <2>3. Unallocated' BY <1>2, <1>8, <2>1, <2>2 DEF Unallocated
  <2> QED BY <1>2, <1>7, <1>9, <2>3
<1>11. CASE files # << >>
  <2>1. Allocated BY <1>2, <1>6, <1>11 DEF LoaderOK, Unallocated
  <2>2. ASSUME NEW i \in Cells
        PROVE  (SaidSoFar(i)' <=> SaidSoFar(i)) /\ (PlacedSoFar(i)' <=> PlacedSoFar(i))
    <3>1. Y(i) \in Nat
      <4>1. i \in Nat BY SizeIsPositive
      <4> QED BY <4>1, Coordinates
    <3>2. \A k \in DOMAIN files' : Seen(k, i)' => k \in DOMAIN files /\ files'[k] = files[k]
      BY <1>1, <1>2, <1>3, <1>5, <3>1 DEF Seen
    <3>3. \A k \in DOMAIN files : /\ k \in DOMAIN files' /\ files'[k] = files[k]
                                  /\ Seen(k, i)' /\ Seen(k, i)
      BY <1>1, <1>2, <1>3, <1>5 DEF Seen
    <3>4. SaidSoFar(i)' <=> SaidSoFar(i)
      <4>1. \A q : Says(q, i)' <=> Says(q, i) BY DEF Says
      <4> QED BY <3>2, <3>3, <4>1 DEF SaidSoFar, Says
    <3>5. PlacedSoFar(i)' <=> PlacedSoFar(i) BY <3>2, <3>3 DEF PlacedSoFar, Rows
    <3> QED BY <3>4, <3>5
  <2>3. AsWrittenSoFar' BY <1>2, <2>1, <2>2 DEF Allocated, AsWrittenSoFar
  <2> QED BY <1>2, <1>7, <1>9, <2>1, <2>3 DEF Allocated
<1> QED BY <1>10, <1>11

\* The rows that are seen do not change when neither the files nor the row do.
LEMMA SameRows ==
  ASSUME files' = files, load' = load, y' = y, NEW i
  PROVE  (SaidSoFar(i)' <=> SaidSoFar(i)) /\ (PlacedSoFar(i)' <=> PlacedSoFar(i))
BY DEF SaidSoFar, PlacedSoFar, Seen, Says, Rows

\* The headers of a well-formed file allocate the cells once.
LEMMA WrittenByHeader ==
  ASSUME LoaderTypes, LoaderOK, ReadHeader
  PROVE  LoaderOK'
<1> SUFFICES ASSUME AllWellFormed'
             PROVE  /\ load' = "reading" /\ Position'
                    /\ files' # << >> /\ (Allocated' \/ Unallocated')
  BY DEF LoaderOK
<1>1. /\ load = "reading" /\ load' = "reading" /\ files' = files /\ y' = y
      /\ rest # << >> /\ rest' = Tail(rest) /\ IsHeader(Head(rest))
  BY DEF ReadHeader
<1>2. AllWellFormed BY <1>1 DEF AllWellFormed
<1>3. Position /\ files # << >> /\ (Allocated \/ Unallocated)
  BY <1>1, <1>2 DEF LoaderOK, Position
<1>4. /\ Head(rest) = Newest[LinesRead + 1] /\ LinesRead + 1 <= Len(Newest)
      /\ LinesRead' = LinesRead + 1 /\ LinesRead \in Nat
      /\ \A j \in 1 .. Len(rest') : rest'[j] = Newest[LinesRead' + j]
  BY <1>1, <1>3, NextLine DEF Position
<1>5. Newest \in Seq(Lines) /\ WellFormed(Newest) BY <1>2, <1>3, NewestFile
<1>6. /\ \/ Newest[1] = WidthHeader /\ Newest[2] = HeightHeader
         \/ Newest[1] = HeightHeader /\ Newest[2] = WidthHeader
      /\ Len(Newest) \in Nat /\ \A k \in 3 .. Len(Newest) : ~ IsHeader(Newest[k])
  BY <1>5, WellFormedLines
<1>7. LinesRead \in {0, 1}
  <2>1. ~ (LinesRead + 1 \in 3 .. Len(Newest)) BY <1>1, <1>4, <1>6
  <2> QED BY <1>4, <1>6, <2>1
<1>8. Newest' = Newest BY <1>1 DEF Newest
<1>9. Position'
  <2>1. y' = IF LinesRead' < 2 THEN 0 ELSE LinesRead' - 2
    BY <1>1, <1>3, <1>4, <1>7 DEF Position
  <2> QED BY <1>1, <1>3, <1>4, <1>8, <2>1 DEF Position
<1>10. \/ Head(rest) = WidthHeader /\ width_' = Width /\ heigth_' = heigth_
       \/ Head(rest) = HeightHeader /\ width_' = width_ /\ heigth_' = Height
  <2>1. Head(rest) \in {WidthHeader, HeightHeader} BY <1>4, <1>6, <1>7
  <2> QED BY <2>1 DEF ReadHeader, WidthHeader, HeightHeader
<1>11. Len(Head(rest).values) = 1 BY <1>10 DEF WidthHeader, HeightHeader
<1>12. cell_datas_' = IF cell_datas_ = << >> /\ width_' > 0 /\ heigth_' > 0
                      THEN NewCells(width_' * heigth_') ELSE cell_datas_
  BY <1>11 DEF ReadHeader
<1>13. DOMAIN << >> = {} /\ Cells # {} BY EmptySeq, SizeIsPositive
<1>14. CASE Allocated
  <2>1. width_' = Width /\ heigth_' = Height BY <1>10, <1>14 DEF Allocated
  <2>2. cell_datas_' = cell_datas_ BY <1>12, <1>13, <1>14 DEF Allocated
  <2>3. AsWrittenSoFar' BY <1>1, <1>14, <2>2, SameRows DEF Allocated, AsWrittenSoFar
  <2>4. Allocated' BY <1>14, <2>1, <2>2, <2>3 DEF Allocated
  <2> QED BY <1>1, <1>3, <1>9, <2>4
<1>15. CASE Unallocated /\ LinesRead = 0
  <2>1. Head(rest) = Newest[1] /\ width_ = 0 /\ heigth_ = 0 /\ LinesRead' = 1
    BY <1>4, <1>15 DEF Unallocated
  <2>2. cell_datas_' = << >> BY <1>10, <1>12, <1>15, <2>1 DEF Unallocated
  <2>3. Unallocated'
    BY <1>1, <1>8, <1>10, <1>15, <2>1, <2>2 DEF Unallocated, WidthHeader, HeightHeader
  <2> QED BY <1>1, <1>3, <1>9, <2>3
<1>16. CASE Unallocated /\ LinesRead = 1
  <2>1. Head(rest) = Newest[2] BY <1>4, <1>16
  <2>2. width_' = Width /\ heigth_' = Height
    <3>1. WidthHeader.key = "@width" /\ HeightHeader.key = "@heigth"
      BY DEF WidthHeader, HeightHeader
    <3>2. CASE Newest[1].key = "@width" /\ width_ = Width
      <4>1. Head(rest) = HeightHeader BY <1>6, <2>1, <3>1, <3>2
      <4> QED BY <1>10, <3>1, <3>2, <4>1
    <3>3. CASE Newest[1].key = "@heigth" /\ heigth_ = Height
      <4>1. Head(rest) = WidthHeader BY <1>6, <2>1, <3>1, <3>3
      <4> QED BY <1>10, <3>1, <3>3, <4>1
    <3> QED BY <1>16, <3>2, <3>3 DEF Unallocated
  <2>3. cell_datas_' = NewCells(Width * Height)
    BY <1>12, <1>16, <2>2, GridAssumption DEF Unallocated
  <2>4. DOMAIN cell_datas_' = Cells BY <2>3 DEF NewCells, Cells
  <2>5. ASSUME NEW i \in Cells PROVE ~ SaidSoFar(i)' /\ ~ PlacedSoFar(i)'
    <3>1. y = 0 BY <1>3, <1>16 DEF Position
    <3>2. Y(i) \in Nat
      <4>1. i \in Nat BY SizeIsPositive
      <4> QED BY <4>1, Coordinates
    <3>3. DOMAIN files = 1 .. 1 /\ Len(files) = 1 BY <1>3, <1>16, NewestFile DEF Unallocated
    <3>4. \A k \in DOMAIN files' : ~ Seen(k, i)' BY <1>1, <3>1, <3>2, <3>3 DEF Seen
    <3> QED BY <3>4 DEF SaidSoFar, PlacedSoFar
  <2>6. AsWrittenSoFar'
    <3>1. \A i \in Cells : cell_datas_'[i] = [x |-> 0, y |-> 0, walkable |-> FALSE]
      BY <2>3 DEF NewCells, Cells
    <3> QED BY <2>5, <3>1 DEF AsWrittenSoFar
  <2>7. Allocated' BY <2>2, <2>4, <2>6 DEF Allocated
  <2> QED BY <1>1, <1>3, <1>9, <2>7
<1> QED BY <1>3, <1>7, <1>14, <1>15, <1>16

\* A row of a well-formed file goes to the cells of its row.
LEMMA WrittenByRow ==
  ASSUME LoaderTypes, LoaderOK, ReadRow
  PROVE  LoaderOK'
<1> SUFFICES ASSUME AllWellFormed'
             PROVE  load' = "reading" /\ Position' /\ files' # << >> /\ Allocated'
  BY DEF LoaderOK
<1> DEFINE row == Head(rest)
           fields == ParseCsv(row)
           filled == y * width_ .. y * width_ + Len(fields) - 1
<1>1. /\ load = "reading" /\ files' = files /\ y' = y + 1 /\ width_' = width_
      /\ heigth_' = heigth_ /\ rest # << >> /\ rest' = Tail(rest) /\ ~ IsHeader(row)
      /\ cell_datas_' = [i \in DOMAIN cell_datas_ |->
                           IF i \in filled THEN Filled(i, fields) ELSE cell_datas_[i]]
      /\ load' = IF cell_datas_ = << >> THEN "crashed"
                 ELSE IF filled \subseteq DOMAIN cell_datas_ THEN "reading" ELSE "undefined"
  BY DEF ReadRow
<1>2. AllWellFormed BY <1>1 DEF AllWellFormed
<1>3. Position /\ files # << >> /\ (Allocated \/ Unallocated)
  BY <1>1, <1>2 DEF LoaderOK, Position
<1>4. /\ row = Newest[LinesRead + 1] /\ row \in Lines /\ LinesRead + 1 <= Len(Newest)
      /\ LinesRead' = LinesRead + 1 /\ LinesRead \in Nat
      /\ \A j \in 1 .. Len(rest') : rest'[j] = Newest[LinesRead' + j]
  BY <1>1, <1>3, NextLine DEF Position
<1>5. Newest \in Seq(Lines) /\ WellFormed(Newest) BY <1>2, <1>3, NewestFile
<1>6. /\ \/ Newest[1] = WidthHeader /\ Newest[2] = HeightHeader
         \/ Newest[1] = HeightHeader /\ Newest[2] = WidthHeader
      /\ Len(Newest) \in Nat /\ Len(Newest) >= 2 /\ Len(Newest) <= Height + 2
      /\ \A k \in 3 .. Len(Newest) : Len(Newest[k].values) = Width
      /\ Len(Rows(Newest)) = Len(Newest) - 2
      /\ \A r \in 1 .. Len(Newest) - 2 : Rows(Newest)[r] = Newest[r + 2]
  BY <1>5, WellFormedLines
<1>7. LinesRead >= 2
  <2>1. IsHeader(WidthHeader) /\ IsHeader(HeightHeader)
    BY DEF IsHeader, WidthHeader, HeightHeader
  <2>2. LinesRead + 1 # 1 /\ LinesRead + 1 # 2 BY <1>1, <1>4, <1>6, <2>1
  <2> QED BY <1>4, <2>2
<1>8. Newest' = Newest BY <1>1 DEF Newest
<1>9. y = LinesRead - 2 BY <1>3, <1>4, <1>7 DEF Position
<1>10. Position'
  <2>1. y' = IF LinesRead' < 2 THEN 0 ELSE LinesRead' - 2
    BY <1>1, <1>4, <1>7, <1>9
  <2> QED BY <1>1, <1>3, <1>4, <1>8, <2>1 DEF Position
<1>11. Allocated BY <1>3, <1>7 DEF Unallocated
<1>12. Len(row.values) = Width /\ Len(fields) = Width
  <2>1. LinesRead + 1 \in 3 .. Len(Newest) BY <1>4, <1>6, <1>7
  <2>2. Len(row.values) = Width BY <1>4, <1>6, <2>1
  <2>3. row.values \in Seq(Int) BY <1>4 DEF Lines
  <2>4. DOMAIN fields = 1 .. Width BY <2>2, <2>3, LenProperties DEF ParseCsv
  <2>5. Width \in Nat BY GridAssumption
  <2>6. fields \in Seq({fields[k] : k \in 1 .. Width})
    <3>1. fields = [k \in 1 .. Width |-> fields[k]] BY <2>4 DEF ParseCsv
    <3> HIDE DEF fields
    <3> QED BY <2>5, <3>1
  <2>7. Len(fields) = Width
    <3> HIDE DEF fields
    <3>1. DOMAIN fields = 1 .. Len(fields) /\ Len(fields) \in Nat BY <2>6, LenProperties
    <3> QED BY <2>4, <2>5, <3>1
  <2> QED BY <2>2, <2>7
<1>13. y \in Nat /\ y < Height /\ width_ = Width
  BY <1>4, <1>6, <1>9, <1>11, GridAssumption DEF LoaderTypes, Allocated
<1>14. filled = y * Width .. y * Width + Width - 1 BY <1>12, <1>13
<1>15. filled \subseteq Cells BY <1>13, <1>14, RowIsInside
<1>16. cell_datas_ # << >> /\ DOMAIN cell_datas_ = Cells
  <2>1. DOMAIN << >> = {} /\ Cells # {} BY EmptySeq, SizeIsPositive
  <2> QED BY <1>11, <2>1 DEF Allocated
<1>17. load' = "reading" BY <1>1, <1>15, <1>16
<1>18. Len(files) \in Nat /\ DOMAIN files = 1 .. Len(files) /\ Len(files) \in DOMAIN files
  BY <1>3, NewestFile
<1>19. ASSUME NEW i \in Cells
       PROVE  /\ cell_datas_'[i].walkable <=> SaidSoFar(i)'
              /\ <<cell_datas_'[i].x, cell_datas_'[i].y>> =
                   IF PlacedSoFar(i)' THEN <<X(i), Y(i)>> ELSE <<0, 0>>
  <2>1. /\ cell_datas_[i].walkable <=> SaidSoFar(i)
        /\ <<cell_datas_[i].x, cell_datas_[i].y>> =
             IF PlacedSoFar(i) THEN <<X(i), Y(i)>> ELSE <<0, 0>>
    BY <1>11 DEF Allocated, AsWrittenSoFar
  <2>2. Y(i) \in Nat /\ X(i) \in Nat
    <3>1. i \in Nat BY SizeIsPositive
    <3>2. X(i) \in 0 .. Width - 1 BY <3>1, Coordinates
    <3> QED BY <3>1, <3>2, Coordinates
  <2>3. CASE Y(i) # y
    <3>1. i \notin filled BY <1>13, <1>14, <2>3, RowCells
    <3>2. cell_datas_'[i] = cell_datas_[i]
      <4> HIDE DEF filled, fields
      <4> QED BY <1>1, <1>16, <3>1
    <3>3. \A k : Seen(k, i)' <=> Seen(k, i) BY <1>1, <1>13, <1>17, <2>2, <2>3 DEF Seen
    <3>4. SaidSoFar(i)' <=> SaidSoFar(i) BY <1>1, <3>3 DEF SaidSoFar, Says, Rows
    <3>5. PlacedSoFar(i)' <=> PlacedSoFar(i) BY <1>1, <3>3 DEF PlacedSoFar, Rows
    <3> QED BY <2>1, <3>2, <3>4, <3>5
  <2>4. CASE Y(i) = y
    <3>1. i \in filled /\ i - y * width_ = X(i) BY <1>13, <1>14, <2>4, RowCells
    <3>2. /\ cell_datas_'[i] = Filled(i, fields)
          /\ Filled(i, fields).x = X(i) /\ Filled(i, fields).y = Y(i)
          /\ Filled(i, fields).walkable <=>
               cell_datas_[i].walkable \/ row.values[X(i) + 1] \notin {0, Blank}
      <4>1. i \in DOMAIN cell_datas_ BY <1>16
      <4>2. /\ Filled(i, fields).x = i - y * width_
            /\ Filled(i, fields).y = y
            /\ Filled(i, fields).walkable <=>
                 cell_datas_[i].walkable \/ row.values[i - y * width_ + 1] \notin {0, Blank}
        BY <1>4, <3>1, <4>1, FilledIsCell
      <4>3. cell_datas_'[i] = Filled(i, fields) BY <1>1, <3>1, <4>1
      <4> HIDE DEF row, fields, filled
      <4> QED BY <2>4, <3>1, <4>2, <4>3
    <3>3. /\ Y(i) < Len(Rows(Newest)) /\ Rows(Newest)[Y(i) + 1] = row
      <4>1. Y(i) + 1 \in 1 .. Len(Newest) - 2 BY <1>4, <1>6, <1>7, <1>9, <2>2, <2>4
      <4>2. Rows(Newest)[Y(i) + 1] = Newest[(Y(i) + 1) + 2] BY <1>6, <4>1
      <4>3. (Y(i) + 1) + 2 = LinesRead + 1 BY <1>4, <1>9, <2>4
      <4>4. Y(i) < Len(Rows(Newest)) BY <1>6, <2>2, <4>1
      <4>5. Rows(Newest)[Y(i) + 1] = row BY <1>4, <4>2, <4>3
      <4> QED BY <4>4, <4>5
    <3>4. Says(Newest, i) <=> row.values[X(i) + 1] \notin {0, Blank} BY <3>3 DEF Says
    <3>5. \A k \in DOMAIN files : Seen(k, i)' BY <1>1, <1>13, <2>4, <1>18 DEF Seen
    <3>6. \A k \in DOMAIN files : Seen(k, i) <=> k # Len(files)
      BY <1>1, <1>13, <1>18, <2>4 DEF Seen
    <3>7. SaidSoFar(i)' <=> SaidSoFar(i) \/ Says(Newest, i)
      <4>1. SaidSoFar(i)' <=> \E k \in DOMAIN files : Says(files[k], i)
        BY <1>1, <3>5 DEF SaidSoFar, Says, Rows
      <4>2. SaidSoFar(i) <=> \E k \in DOMAIN files : k # Len(files) /\ Says(files[k], i)
        BY <3>6 DEF SaidSoFar
      <4>3. Newest = files[Len(files)] BY DEF Newest
      <4> QED BY <1>18, <4>1, <4>2, <4>3
    <3>8. PlacedSoFar(i)'
      <4>1. PICK k \in DOMAIN files : k = Len(files) BY <1>18
      <4>2. k \in DOMAIN files' /\ Seen(k, i)' BY <1>1, <3>5
      <4>3. Y(i) < Len(Rows(files'[k])) BY <1>1, <3>3, <4>1 DEF Newest
      <4> QED BY <4>2, <4>3 DEF PlacedSoFar
    <3> HIDE DEF row, fields, filled
    <3> QED BY <2>1, <3>2, <3>4, <3>7, <3>8
  <2> QED BY <2>3, <2>4
<1>20. AsWrittenSoFar' BY <1>19 DEF AsWrittenSoFar
<1>21. DOMAIN cell_datas_' = Cells
  <2> HIDE DEF row, fields, filled
  <2> QED BY <1>1, <1>16
<1>22. Allocated' BY <1>1, <1>11, <1>20, <1>21 DEF Allocated
<1> QED BY <1>1, <1>3, <1>10, <1>17, <1>22

\* At its end all its rows have been seen.
LEMMA WrittenAtEnd ==
  ASSUME LoaderTypes, LoaderOK, Loaded
  PROVE  LoaderOK'
<1> SUFFICES ASSUME AllWellFormed'
             PROVE  load' = "idle" /\ files' # << >> /\ Allocated'
  BY DEF LoaderOK
<1>1. /\ load = "reading" /\ rest = << >> /\ load' = "idle"
      /\ UNCHANGED <<rest, y, cell_datas_, width_, heigth_, files>>
  BY DEF Loaded
<1>2. AllWellFormed BY <1>1 DEF AllWellFormed
<1>3. Position /\ files # << >> /\ (Allocated \/ Unallocated)
  BY <1>1, <1>2 DEF LoaderOK, Position
<1>4. Newest \in Seq(Lines) /\ WellFormed(Newest) BY <1>2, <1>3, NewestFile
<1>5. Len(Newest) \in Nat /\ Len(Newest) >= 2 /\ Len(Rows(Newest)) = Len(Newest) - 2
  BY <1>4, WellFormedLines
<1>6. LinesRead = Len(Newest)
  <2>1. Len(rest) = 0 BY <1>1, EmptySeq
  <2> QED BY <1>5, <2>1 DEF LinesRead
<1>7. y = Len(Rows(Newest)) /\ y \in Nat
  BY <1>3, <1>5, <1>6 DEF Position, LoaderTypes
<1>8. Allocated BY <1>3, <1>5, <1>6 DEF Unallocated
<1>9. Len(files) \in Nat /\ DOMAIN files = 1 .. Len(files) BY <1>3, NewestFile
<1>10. ASSUME NEW i \in Cells
       PROVE  (SaidSoFar(i)' <=> SaidSoFar(i)) /\ (PlacedSoFar(i)' <=> PlacedSoFar(i))
  <2>1. \A k \in DOMAIN files : Seen(k, i)' BY <1>1 DEF Seen
  <2>2. \A k \in DOMAIN files : Y(i) < Len(Rows(files[k])) => Seen(k, i)
    BY <1>7, <1>9 DEF Seen, Newest
  <2>3. \A k \in DOMAIN files : Says(files[k], i) => Seen(k, i) BY <2>2 DEF Says
  <2>4. SaidSoFar(i)' <=> SaidSoFar(i)
    <3>1. SaidSoFar(i)' <=> \E k \in DOMAIN files : Says(files[k], i)
      BY <1>1, <2>1 DEF SaidSoFar, Says, Rows
    <3> QED BY <2>3, <3>1 DEF SaidSoFar
  <2>5. PlacedSoFar(i)' <=> PlacedSoFar(i)
    <3>1. PlacedSoFar(i)' <=> \E k \in DOMAIN files : Y(i) < Len(Rows(files[k]))
      BY <1>1, <2>1 DEF PlacedSoFar, Rows
    <3> QED BY <2>2, <3>1 DEF PlacedSoFar
  <2> QED BY <2>4, <2>5
<1>11. AsWrittenSoFar' BY <1>1, <1>8, <1>10 DEF Allocated, AsWrittenSoFar
<1>12. Allocated' BY <1>1, <1>8, <1>11 DEF Allocated
<1> QED BY <1>1, <1>3, <1>12

\* The finder is given cells that are all there.
LEMMA WrittenKept ==
  ASSUME LoaderTypes, LoaderOK, [LoadedNext]_<<vars, loading>>
  PROVE  LoaderOK'
<1>1. CASE UNCHANGED loading
  <2>1. /\ load' = load /\ rest' = rest /\ y' = y /\ cell_datas_' = cell_datas_
        /\ width_' = width_ /\ heigth_' = heigth_ /\ files' = files
    BY <1>1 DEF loading
  <2>2. (AllWellFormed' <=> AllWellFormed) /\ (Position' <=> Position)
    BY <2>1 DEF AllWellFormed, Position, Newest, LinesRead
  <2>3. AsWrittenSoFar' <=> AsWrittenSoFar BY <2>1, SameRows DEF AsWrittenSoFar
  <2>4. (Allocated' <=> Allocated) /\ (Unallocated' <=> Unallocated)
    BY <2>1, <2>3 DEF Allocated, Unallocated, Newest, LinesRead
  <2> QED BY <2>1, <2>2, <2>4 DEF LoaderOK
<1>2. CASE InitFinder
  <2>1. CASE Cells \subseteq DOMAIN cell_datas_ BY <1>1, <1>2, <2>1 DEF InitFinder
  <2>2. CASE ~ (Cells \subseteq DOMAIN cell_datas_)
    <3>1. load = "idle" /\ width_ = Width /\ files' = files BY <1>2, <2>2 DEF InitFinder
    <3>2. ~ AllWellFormed BY <2>2, <3>1, GridAssumption DEF LoaderOK, Allocated, Unallocated
    <3>3. ~ AllWellFormed' BY <3>1, <3>2 DEF AllWellFormed
    <3> QED BY <3>3 DEF LoaderOK
  <2> QED BY <2>1, <2>2
<1>3. CASE ReadFile
  BY <1>3, WrittenByLoad, WrittenByHeader, WrittenByRow, WrittenAtEnd DEF ReadFile
<1> QED BY <1>1, <1>2, <1>3 DEF LoadedNext, loading

\* Between the files it is LoadedAsWritten.
LEMMA InvariantIsAsWritten ==
  ASSUME LoaderOK
  PROVE  LoadedAsWritten
<1> SUFFICES ASSUME AllWellFormed, load # "reading", files # << >>
             PROVE  /\ load = "idle"
                    /\ \A i \in Cells :
                         /\ cell_datas_[i].walkable <=> \E k \in DOMAIN files : Says(files[k], i)
                         /\ <<cell_datas_[i].x, cell_datas_[i].y>> =
                              IF \E k \in DOMAIN files : Y(i) < Len(Rows(files[k]))
                              THEN <<X(i), Y(i)>> ELSE <<0, 0>>
  BY DEF LoadedAsWritten, AllWellFormed
<1>1. load = "idle" /\ Allocated BY DEF LoaderOK, Unallocated
<1>2. \A i \in Cells :
        /\ SaidSoFar(i) <=> \E k \in DOMAIN files : Says(files[k], i)
        /\ PlacedSoFar(i) <=> \E k \in DOMAIN files : Y(i) < Len(Rows(files[k]))
  BY <1>1 DEF SaidSoFar, PlacedSoFar, Seen
<1> QED BY <1>1, <1>2 DEF Allocated, AsWrittenSoFar

\* Any number of well-formed files leave in the cells what they say, and nothing else.
THEOREM FilesAreLoadedAsWritten == LoadedSpec => []LoadedAsWritten
<1>1. LoadedInit => LoaderOK BY DEF LoadedInit, LoaderInit, LoaderOK
<1>2. LoaderTypes /\ IInv /\ LoaderOK /\ [LoadedNext]_<<vars, loading>> => LoaderOK'
  BY WrittenKept
<1>3. LoaderOK => LoadedAsWritten BY InvariantIsAsWritten
<1> QED BY <1>1, <1>2, <1>3, LoadedInvariant, PTL DEF LoadedSpec
================================================================================
