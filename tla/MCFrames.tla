----------------------------- MODULE MCFrames -----------------------------
(* The two threads; a frame of the system thread is not one of the PPU. *)
EXTENDS Frames
==========================================================================
