------------------------------ MODULE MCAlu ------------------------------
(* All bytes as the first operand, and those at the edges as the second. *)
EXTENDS Alu

MCAs == Bytes

\* The decimal numbers that end in 0, 1, 5 and 9, and the edges of digits and signs.
MCBs == {16 * t + u : t \in 0..9, u \in {0, 1, 5, 9}} \cup {15, 31, 127, 128, 129, 170, 240, 255}

\* HL, SP and the pairs around the edges of their bytes and of the lower twelve bits.
MCWords == {0, 1, 127, 128, 255, 256, 4095, 4096, 32767, 32768, 61695, 65280, 65534, 65535}
==========================================================================
