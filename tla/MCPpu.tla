------------------------------ MODULE MCPpu ------------------------------
(***************************************************************************)
(* An instance of Ppu for TLC: lines of 24 dots, of which 8 are mode 2, and  *)
(* frames of 5 lines, of which 3 are visible.  Mode 3 ends in the middle of   *)
(* an M-cycle, at its end, or as late in the line as it may.                   *)
(***************************************************************************)
EXTENDS Ppu

\* Dots 13, 16 and 20 of the line.
SomeDrawEnds == {13, 16, 20}

\* A visible line, a line of VBlank and no line at all.
SomeLycs == {1, 4, 255}
==========================================================================
