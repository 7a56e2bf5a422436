--------------------------- MODULE CpuReference ---------------------------
(***************************************************************************)
(* The documented footprint of every SM83 opcode, as the opcode tables of   *)
(* the Technical Reference that README.md:79 names give it, independently of *)
(* how cpu.c decodes: length in bytes, M-cycles when a condition does not    *)
(* hold, M-cycles more when it does, and what happens to SP.                 *)
(***************************************************************************)
EXTENDS Integers, Sequences

\* Row h, column l describes opcode 16 * h + l.  The eleven unassigned opcodes are
\* given the footprint of NOP, which is how the emulator treats them; STOP is 1.
LengthTable == <<
    <<1,3,1,1,1,1,2,1,3,1,1,1,1,1,2,1>>,
    <<1,3,1,1,1,1,2,1,2,1,1,1,1,1,2,1>>,
    <<2,3,1,1,1,1,2,1,2,1,1,1,1,1,2,1>>,
    <<2,3,1,1,1,1,2,1,2,1,1,1,1,1,2,1>>>>

LengthTableHigh == <<
    <<1,1,3,3,3,1,2,1,1,1,3,2,3,3,2,1>>,
    <<1,1,3,1,3,1,2,1,1,1,3,1,3,1,2,1>>,
    <<2,1,1,1,1,1,2,1,2,1,3,1,1,1,2,1>>,
    <<2,1,1,1,1,1,2,1,2,1,3,1,1,1,2,1>>>>

CyclesTable == <<
    <<1,3,2,2,1,1,2,1,5,2,2,2,1,1,2,1>>,
    <<1,3,2,2,1,1,2,1,3,2,2,2,1,1,2,1>>,
    <<2,3,2,2,1,1,2,1,2,2,2,2,1,1,2,1>>,
    <<2,3,2,2,3,3,3,1,2,2,2,2,1,1,2,1>>>>

CyclesTableHigh == <<
    <<2,3,3,4,3,4,2,4,2,4,3,1,3,6,2,4>>,
    <<2,3,3,1,3,4,2,4,2,4,3,1,3,1,2,4>>,
    <<3,3,2,1,1,4,2,4,4,1,4,1,1,1,2,4>>,
    <<3,3,2,1,1,4,2,4,3,2,4,1,1,1,2,4>>>>

Row(opcode) == opcode \div 16
Column(opcode) == (opcode % 16) + 1

\* Instructions on a register or on (HL): one cycle, one more for (HL).
MemoryOperand(opcode) == opcode % 8 = 6

Length(opcode, prefixed) ==
    CASE prefixed -> 2
      [] ~prefixed /\ Row(opcode) < 4 -> LengthTable[Row(opcode) + 1][Column(opcode)]
      [] ~prefixed /\ Row(opcode) >= 12 -> LengthTableHigh[Row(opcode) - 11][Column(opcode)]
      [] OTHER -> 1

MCycles(opcode, prefixed) ==
    CASE prefixed -> IF ~MemoryOperand(opcode) THEN 2
                     ELSE IF opcode \in 64..127 THEN 3 ELSE 4
      [] ~prefixed /\ Row(opcode) < 4 -> CyclesTable[Row(opcode) + 1][Column(opcode)]
      [] ~prefixed /\ Row(opcode) >= 12 -> CyclesTableHigh[Row(opcode) - 11][Column(opcode)]
      [] OTHER -> IF opcode # 118 /\ (MemoryOperand(opcode) \/ opcode \in 112..119)
                  THEN 2 ELSE 1

CondJr   == {32, 40, 48, 56}
CondRet  == {192, 200, 208, 216}
CondJp   == {194, 202, 210, 218}
CondCall == {196, 204, 212, 220}
Rst == {199, 207, 215, 223, 231, 239, 247, 255}

Conditional == CondJr \cup CondRet \cup CondJp \cup CondCall

\* M-cycles that a condition that holds adds.
Extra(opcode) ==
    CASE opcode \in CondJr \cup CondJp -> 1
      [] opcode \in CondRet \cup CondCall -> 3
      [] OTHER -> 0

\* Does the opcode leave the sequence of instructions, if its condition holds?
Transfers(opcode) == opcode \in Conditional \cup Rst \cup {24, 195, 201, 205, 217, 233}

\* Opcodes that load SP with a value: LD SP, INC SP, DEC SP, ADD SP.
SetsSp == {49, 51, 59, 232, 249}

\* The change of SP by the others, if their condition holds.
SpChange(opcode) ==
    CASE opcode \in CondCall \cup Rst \cup {205, 197, 213, 229, 245} -> -2
      [] opcode \in CondRet \cup {201, 217, 193, 209, 225, 241} -> 2
      [] OTHER -> 0
==========================================================================
