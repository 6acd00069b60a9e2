---------------------------- MODULE Scan2Matrix -----------------------------
(***************************************************************************)
(* scan2matrix.v: where in the keyboard matrix of the Vector-06C a PS/2    *)
(* scan code lies.  The tables are written the other way round: a row of   *)
(* the matrix, and for each of its columns the scan codes that close it.   *)
(***************************************************************************)
EXTENDS Naturals, Sequences

Byte == 0..255

common ==
  <<<<{\h0D}, {\h1F, \h27}, {\h5A}, {\h66}, {\h6B, \h71}, {\h75, \h6C}, {\h74, \h7A}, {\h72, \h69}>>,
    <<{\h70}, {\h7D}, {\h76}, {\h05}, {\h06}, {\h04}, {\h0C}, {\h03}>>,
    <<{\h45}, {\h16}, {\h1E}, {\h26}, {\h25}, {\h2E}, {\h36}, {\h3D}>>,
    <<{\h3E}, {\h46}, {}, {\h0E}, {}, {\h4E}, {}, {\h55}>>,
    <<>>, <<>>, <<>>,
    <<{}, {}, {}, {}, {\h52}, {}, {}, {\h29}>>>>

jcuken ==
  <<<<>>, <<>>, <<>>,
    <<{}, {}, {\h5B}, {}, {\h4A}, {}, {\h5D}>>,
    <<{\h49}, {\h2B}, {\h41}, {\h1D}, {\h4B}, {\h2C}, {\h1C}, {\h3C}>>,
    <<{\h54}, {\h32}, {\h15}, {\h2D}, {\h42}, {\h2A}, {\h35}, {\h3B}>>,
    <<{\h34}, {\h1A}, {\h33}, {\h21}, {\h31}, {\h24}, {\h4C}, {\h23}>>,
    <<{\h3A}, {\h1B}, {\h4D}, {\h43}, {}, {\h44}, {\h22}>>>>

qwerty ==
  <<<<>>, <<>>, <<>>,
    <<{}, {}, {\h4C}, {}, {\h41}, {}, {\h49}>>,
    <<{\h5D}, {\h1C}, {\h32}, {\h21}, {\h23}, {\h24}, {\h2B}, {\h34}>>,
    <<{\h33}, {\h43}, {\h3B}, {\h42}, {\h4B}, {\h3A}, {\h31}, {\h44}>>,
    <<{\h4D}, {\h15}, {\h2D}, {\h1B}, {\h2C}, {\h3C}, {\h2A}, {\h1D}>>,
    <<{\h22}, {\h35}, {\h1A}, {\h54}, {}, {\h5B}, {\h4A}>>>>

Matrix == (0..7) \X (0..7)
CellsIn(table) ==
  [code \in Byte |-> {x \in Matrix : x[2] < Len(table[x[1] + 1]) /\ code \in table[x[1] + 1][x[2] + 1]}]
CommonCells == CellsIn(common)
LayoutCells == [jcuken_mode \in BOOLEAN |-> CellsIn(IF jcuken_mode THEN jcuken ELSE qwerty)]

\* The cell of a code as a set, empty for qerror.
scan2matrix(code, jcuken_mode) ==
  IF CommonCells[code] # {} THEN CommonCells[code] ELSE LayoutCells[jcuken_mode][code]
=============================================================================
