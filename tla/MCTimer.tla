----------------------------- MODULE MCTimer -----------------------------
(***************************************************************************)
(* An instance of Timer for TLC.  It keeps what the code relies on: every   *)
(* period is a multiple of two M-cycles, the four periods differ, the        *)
(* slowest period is longer than a unit of DIV and DIV wraps.                *)
(***************************************************************************)
EXTENDS Timer, TLC

\* Four rates in the order of the code: the slowest, then the fastest.
ScaledHalf == <<8, 16, 32>> @@ (0 :> 64)
==========================================================================
