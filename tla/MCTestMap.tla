------------------------------ MODULE MCTestMap ------------------------------
(* The instance of TestMap that TLC checks: files for a map of 3 x 2 cells. *)
EXTENDS TestMap

Header(key, values) == [key |-> key, values |-> values]
Row(texts) == [key |-> "row", values |-> texts]

W == Header("@width", <<Width>>)
H == Header("@heigth", <<Height>>)

\* Rows of three fields, the zeros written or left out.
FullRows == {Row(t) : t \in [1 .. 3 -> {1, 0}] \cup {<<1, Blank, 1>>}}

\* A row with a comma at its end, a row one field too long, a short row, and a
\* blank line.
OddRows == {Row(<<1, 1, 1, Blank>>), Row(<<0, 1, 1, 1>>), Row(<<1, 1>>), Row(<<Blank>>)}

FullFiles == {<<W, H, r, q>> : r, q \in FullRows}

\* Rows of any form, too few rows, too many.
OddFiles ==
  {<<H, W, r, q>> : r, q \in OddRows} \cup {<<W, H, r, q>> : r \in OddRows, q \in FullRows}
    \cup {<<W, H, r>> : r \in FullRows \cup OddRows}
    \cup {<<W, H, r, r, Row(<<Blank>>)>> : r \in OddRows}

\* Numbers that come late, twice, wrong or not at all, and headers that say nothing.
OddHeaders ==
  LET row == Row(<<1, 1, 1>>)
  IN {<<W>>, <<row, W, H>>, <<H, row>>,
      <<W, Header("@heigth", <<1>>), H, row>>,
      <<W, Header("@heigth", << >>), H, row>>,
      <<W, Header("@heigth", <<0>>), row>>}

AllFiles == FullFiles \cup OddFiles \cup OddHeaders

\* One file of any form, or two full ones.
OneOrTwo ==
  LET row(a, b, c) == Row(<<a, b, c>>)
      few == {<<W, H, row(1, 0, 1), row(0, 1, 1)>>, <<W, H, row(0, 1, 0)>>,
              <<H, W, row(0, 0, 0), row(1, 1, 0)>>}
  IN {<<file>> : file \in AllFiles} \cup {<<file, next>> : file, next \in few}
=============================================================================
