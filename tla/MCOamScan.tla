--------------------------- MODULE MCOamScan ---------------------------
(* Four objects and two slots, on two lines. *)
EXTENDS OamScan

\* Above the screen; its last row in line 0, if tall or if not; its first row in line 0
\* and in line 1; below.
MCYs == {0, 1, 9, 16, 17, 40}
==========================================================================
