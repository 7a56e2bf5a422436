--------------------------- MODULE MCCartridge ---------------------------
(* Every header, and bytes at the edges of the fields of the registers. *)
EXTENDS Cartridge

\* Sizes of files: all powers of 2 to beyond the largest, and some that are none.
MCSizes == {0, 1, 3, 12, 72, 640} \cup {2 ^ n : n \in 1..10}

\* All types and all sizes of the RAM, with those of the ROM that matter: up to 10 the
\* header is read as intended; from 30 on the shift is beyond what the C code may do.
MCHeaders == [type : 0..20, rom : 0..10 \cup {30, 31, 32, 35, 63, 255}, ram : 0..6, size : MCSizes]

MCValues == {0, 1, 3, 10, 12, 16, 31, 32, 127, 128, 255}
==========================================================================
