--------------------------------- MODULE TestMap ---------------------------------
(***************************************************************************)
(* TestMap (src/TestMap.h, TestMap.cc): it reads csv files into            *)
(* cell_datas_, line by line, and owns the JPSFinder that is given them.   *)
(*                                                                         *)
(* A line of a file is a header, with the parts of "@key=value", or a row  *)
(* with the texts between its commas: numbers, or no text at all.          *)
(* The finder's grid, Width x Height, is the one the files are to be of.   *)
(***************************************************************************)
EXTENDS JPSFinder

CONSTANTS
  Sessions   \* the files that loadcsv() is called with, one after the other, each
             \* a sequence of lines

ASSUME LoaderAssumption == Sessions \subseteq Seq(Seq([key : STRING, values : Seq(Int)]))

VARIABLES
  load,          \* "idle", "reading", "crashed", "undefined"
  rest, y,       \* the lines that are still to be read, the row
  cell_datas_,   \* << >> for a null pointer, or from the cells, counted from 0
  width_, heigth_,
  files          \* the files that were loaded

loading == <<load, rest, y, cell_datas_, width_, heigth_, files>>

Blank == -1   \* no text

IsHeader(line) == line.key # "row"

\* new CellData[n]
NewCells(n) == [i \in 0 .. n - 1 |-> [x |-> 0, y |-> 0, walkable |-> FALSE]]
-----------------------------------------------------------------------------
(* loadcsv() *)

\* What a later call leaves in cell_datas_ does not reach the finder, which copies
\* them.
Load(session) ==
  /\ load = "idle" /\ pc = "new"
  /\ IsStrictPrefix(files, session)
  /\ load' = "reading"
  /\ files' = Append(files, session[Len(files) + 1])
  /\ rest' = session[Len(files) + 1] /\ y' = 0
  /\ UNCHANGED <<cell_datas_, width_, heigth_>>

\* The cells are allocated once: when both numbers are known for the first time.
ReadHeader ==
  /\ load = "reading" /\ rest # << >> /\ IsHeader(Head(rest))
  /\ rest' = Tail(rest)
  /\ LET header == Head(rest)
         Is(key) == header.key = key /\ Len(header.values) = 1
     IN /\ width_'  = IF Is("@width") THEN header.values[1] ELSE width_
        /\ heigth_' = IF Is("@heigth") THEN header.values[1] ELSE heigth_
        /\ cell_datas_' = IF /\ cell_datas_ = << >> /\ width_' > 0 /\ heigth_' > 0
                             /\ Len(header.values) = 1
                          THEN NewCells(width_' * heigth_') ELSE cell_datas_
  /\ UNCHANGED <<load, y, files>>

\* parsecsv(): every comma and the end of the line close a field, an empty one
\* being "0".
ParseCsv(line) ==
  [i \in DOMAIN line.values |-> IF line.values[i] = Blank THEN 0 ELSE line.values[i]]

\* Mutant of Filled: the cell is set to what the field says.
FilledAnew(i, fields) ==
  LET n == i - y * width_ + 1
  IN [x |-> n - 1, y |-> y, walkable |-> fields[n] # 0]

\* Mutant of Filled: the row and the column are exchanged.
FilledAcross(i, fields) ==
  LET n == i - y * width_ + 1
  IN [x |-> y, y |-> n - 1, walkable |-> cell_datas_[i].walkable \/ fields[n] # 0]

\* Cell i after the row: field n gives it its place, and may make it walkable.
Filled(i, fields) ==
  LET n == i - y * width_ + 1
  IN [x |-> n - 1, y |-> y, walkable |-> cell_datas_[i].walkable \/ fields[n] # 0]

\* The fields of a row go to cell_datas_[y*width_] and the cells after it, as many
\* as there are.
ReadRow ==
  /\ load = "reading" /\ rest # << >> /\ ~IsHeader(Head(rest))
  /\ LET fields == ParseCsv(Head(rest))
         filled == y * width_ .. y * width_ + Len(fields) - 1
     IN /\ cell_datas_' = [i \in DOMAIN cell_datas_ |->
                             IF i \in filled THEN Filled(i, fields) ELSE cell_datas_[i]]
        /\ load' = IF cell_datas_ = << >> THEN "crashed"
                   ELSE IF filled \subseteq DOMAIN cell_datas_ THEN "reading"
                   ELSE "undefined"
  /\ rest' = Tail(rest) /\ y' = y + 1
  /\ UNCHANGED <<width_, heigth_, files>>

Loaded ==
  /\ load = "reading" /\ rest = << >>
  /\ load' = "idle"
  /\ UNCHANGED <<rest, y, cell_datas_, width_, heigth_, files>>
-----------------------------------------------------------------------------
(* jps_finder_.init(cell_datas_, width_, heigth_) *)

Walkable == {i \in Cells : cell_datas_[i].walkable}

\* The cells that are not told their place.
Displaced ==
  [i \in {i \in Cells : cell_datas_[i].x # X(i) \/ cell_datas_[i].y # Y(i)} |->
     <<cell_datas_[i].x, cell_datas_[i].y>>]

\* The numbers may have grown after the cells were allocated.
InitFinder ==
  /\ load = "idle" /\ pc = "new"
  /\ width_ = Width /\ heigth_ = Height
  /\ IF Cells \subseteq DOMAIN cell_datas_
     THEN InitFrom(Walkable, Displaced, <<Width, Height>>) /\ UNCHANGED loading
     ELSE /\ load' = "undefined"
          /\ UNCHANGED <<rest, y, cell_datas_, width_, heigth_, files, vars>>
-----------------------------------------------------------------------------
LoaderInit ==
  /\ load = "idle" /\ rest = << >> /\ y = 0
  /\ cell_datas_ = << >> /\ width_ = 0 /\ heigth_ = 0
  /\ files = << >>

ReadFile == (\E session \in Sessions : Load(session)) \/ ReadHeader \/ ReadRow \/ Loaded

LoadedInit == Init /\ LoaderInit

LoadedNext ==
  \/ ReadFile /\ UNCHANGED vars
  \/ InitFinder
  \/ /\ CallOutside \/ (\E s \in Starts, e \in Ends : Call(s, e)) \/ Step
     /\ UNCHANGED loading

LoadedSpec == LoadedInit /\ [][LoadedNext]_<<vars, loading>>
-----------------------------------------------------------------------------
(* Properties *)

\* Both numbers first, then at most Height rows of Width fields each.
WellFormed(file) ==
  /\ Len(file) >= 2 /\ IsHeader(file[1]) /\ IsHeader(file[2])
  /\ {file[1], file[2]} = {[key |-> "@width", values |-> <<Width>>],
                           [key |-> "@heigth", values |-> <<Height>>]}
  /\ \A k \in 3 .. Len(file) : ~IsHeader(file[k]) /\ Len(file[k].values) = Width
  /\ Len(file) <= Height + 2

\* The rows of a well-formed file.
Rows(file) == SubSeq(file, 3, Len(file))

\* A file says that cell i is walkable.
Says(file, i) ==
  LET rows == Rows(file)
  IN Y(i) < Len(rows) /\ rows[Y(i) + 1].values[X(i) + 1] \notin {0, Blank}

\* After any number of well-formed files a cell is walkable when one of them says
\* so, and is told its place unless all of them stop before its row; nothing is
\* written outside the cells.
LoadedAsWritten ==
  (\A k \in DOMAIN files : WellFormed(files[k])) /\ load # "reading" /\ files # << >> =>
    /\ load = "idle"
    /\ \A i \in Cells :
         /\ cell_datas_[i].walkable <=> \E k \in DOMAIN files : Says(files[k], i)
         /\ <<cell_datas_[i].x, cell_datas_[i].y>> =
              IF \E k \in DOMAIN files : Y(i) < Len(Rows(files[k])) THEN <<X(i), Y(i)>>
              ELSE <<0, 0>>

\* The files give no other width than the one the finder's grid has.
OneWidth ==
  \A k \in DOMAIN files : \A line \in ToSet(files[k]) :
    line.key = "@width" => line.values = <<Width>> \/ Len(line.values) # 1

\* Whatever else is in files of one width, a cell that the finder is not told the
\* place of is one that no row has filled, and then it is not walkable, or one that a
\* row too long has filled, and then its column is beyond the width.
DisplacedIsUnsetOrSpilled ==
  pc # "new" /\ OneWidth =>
    \A n \in DOMAIN displaced :
      \/ displaced[n] = <<0, 0>> /\ n \notin walkable
      \/ displaced[n][1] >= Width /\ GetCell(displaced[n][1], displaced[n][2]) = n
=============================================================================
