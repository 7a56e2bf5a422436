---------------------------- MODULE RasterSpec ----------------------------
(***************************************************************************)
(* What the PPU promises about time: one position runs through the frame,   *)
(* line after line, as long as the LCD is on; turning the LCD on starts a   *)
(* frame; the VBlank interrupt is requested when the position gets to the   *)
(* first line below the picture, and never otherwise.  Ppu implements this  *)
(* with a mode, a line, a dot counter and a latched signal.                 *)
(***************************************************************************)
EXTENDS Integers

CONSTANTS
    STEP,     \* dots in an M-cycle
    VISIBLE,  \* dots in the lines of the picture
    TOTAL     \* dots in a frame

VARIABLES on, position, irq

rastervars == <<on, position, irq>>

\* The boot ROM leaves a request behind.
Init == on = TRUE /\ position = 0 /\ irq = TRUE

Advance ==
    /\ on
    /\ position' = (position + STEP) % TOTAL
    /\ irq' = (irq \/ (position < VISIBLE /\ position + STEP >= VISIBLE))
    /\ UNCHANGED on

SwitchOff == on /\ on' = FALSE /\ UNCHANGED <<position, irq>>

SwitchOn == ~on /\ on' = TRUE /\ position' = 0 /\ UNCHANGED irq

Acknowledge == irq' = FALSE /\ UNCHANGED <<on, position>>

Next == Advance \/ SwitchOff \/ SwitchOn \/ Acknowledge

Spec == Init /\ [][Next]_rastervars
==========================================================================
