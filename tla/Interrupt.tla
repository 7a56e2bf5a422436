---------------------------- MODULE Interrupt ----------------------------
(***************************************************************************)
(* The interrupt controller (interrupt.c): two byte registers, IF and IE,  *)
(* each modelled as the set of the positions of its 1 bits.  The            *)
(* controller has no step of its own: the devices request, the CPU asks     *)
(* what is pending and takes one, and the bus writes the two registers.     *)
(* The operations take the registers as arguments because the CPU performs  *)
(* several of them, in order, within one M-cycle.                           *)
(***************************************************************************)
EXTENDS Integers, FiniteSetsExt

VARIABLES if_reg, ie_reg

Bits == 0..7

NUM_INTERRUPTS == 5

\* The bits of IF and IE that stand for an interrupt source.
Sources == 0..(NUM_INTERRUPTS - 1)

INT_VBLANK == 0
INT_STAT   == 1
INT_TIMER  == 2
INT_SERIAL == 3
INT_JOYPAD == 4

\* jump_vec holds a source once int_send_interrupt has found one; NoSource is
\* the case in which it returns false (no bit of a byte).
NoSource == 8

jump_vecs == [i \in Sources |-> 64 + 8 * i]

\* The bits of IF a write changes: IF_RW_MASK is 0x1F, the others read as 1.
IF_RW_MASK == 0..4

int_init == if_reg = {0, 5, 6, 7} /\ ie_reg = {}

int_if_write(flags, val) == (flags \ IF_RW_MASK) \cup (val \cap IF_RW_MASK)

int_ie_write(val) == val

pending_interrupt(flags, enabled) == flags \cap enabled # {}

\* Mutant: the loop starts at 1.
SourceToSend_fromOne(flags, enabled) ==
    IF flags \cap enabled \cap 1..4 = {} THEN NoSource ELSE Min(flags \cap enabled \cap 1..4)

\* The source int_send_interrupt takes: its loop stops at the lowest one that is
\* both requested and enabled.
SourceToSend(flags, enabled) ==
    IF flags \cap enabled \cap Sources = {}
    THEN NoSource
    ELSE Min(flags \cap enabled \cap Sources)

\* IF once that source has been taken.
IfAfterSend(flags, enabled) == flags \ {SourceToSend(flags, enabled)}

\* Mutant: the bits are counted from 1.
request_interrupt_offByOne(i) == if_reg' = if_reg \cup {i + 1}

\* Raises the bit of a source; what a device does when its event happens.
request_interrupt(i) == if_reg' = if_reg \cup {i}
==========================================================================
