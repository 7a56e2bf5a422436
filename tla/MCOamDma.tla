----------------------------- MODULE MCOamDma -----------------------------
(***************************************************************************)
(* Instance of OamDma for TLC: one page of each kind and a second page of   *)
(* the cartridge, so that a transfer can be replaced by one over the same   *)
(* bus and by one over another.                                             *)
(***************************************************************************)
EXTENDS OamDma, TLC

FivePages == 1..5

KindOfPage == <<"ext", "ext", "vram", "wram", "other">>
==========================================================================
