------------------------------ MODULE MCCpu ------------------------------
(***************************************************************************)
(* Instances of Cpu for TLC.  The run about instructions uses the whole      *)
(* opcode table and no interrupt; the run about interrupts uses the opcodes  *)
(* that touch IME, HALT, the prefix, the stack and memory, and two sources.  *)
(***************************************************************************)
EXTENDS Cpu

\* Every opcode but the three that change IME: with no interrupt they add states
\* and nothing to see, and the run about interrupts has them.
TimingOpcodes == Opcodes \ {217, 243, 251}

\* nop, ld (hl),b, halt, 0xCB, reti, di, ei.
InterruptOpcodes == {0, 112, 118, 203, 217, 243, 251}

TwoSources == {INT_VBLANK, INT_TIMER}

\* What is written to IF and to IE; bit 5 stands for no source.
FlagBytes == {{}, {INT_VBLANK}}
EnableBytes == {{}, {INT_VBLANK}, TwoSources, {INT_TIMER, 5}}
==========================================================================
