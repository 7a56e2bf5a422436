------------------------------ MODULE Joypad ------------------------------
(***************************************************************************)
(* The joypad (input.c).  The window thread pumps the events from which SDL *)
(* keeps its array of held keys; the system thread copies the array, key by *)
(* key and without a lock, once before each frame, and then runs the frame, *)
(* in which the program selects groups of buttons and reads the four lines. *)
(*                                                                          *)
(* Button i is on line Line[i] and in group Group[i]; the group is known by *)
(* the bit of JOYP that selects it.  A register is the set of its 1 bits.   *)
(***************************************************************************)
EXTENDS Interrupt

CONSTANTS
    NUM_BUTTONS, Line, Group,
    JoypValues   \* values software writes to JOYP

VARIABLES
    keys,      \* SDL's array: the buttons whose keys are held
    pressed,   \* buttons[i].pressed
    poll,      \* the next button input_poll_and_load reads, or Running
    joyp_reg

vars == <<if_reg, ie_reg, keys, pressed, poll, joyp_reg>>

Buttons == 0..(NUM_BUTTONS - 1)
Nibble == 0..3
ActionBit == 5
DirectionBit == 4
JOYP_RW_MASK == {ActionBit, DirectionBit}

\* poll while the frame runs.
Running == -1

ASSUME JoypadAssumption ==
    /\ NUM_BUTTONS \in Nat \ {0}
    /\ Line \in [Buttons -> Nibble]
    /\ Group \in [Buttons -> JOYP_RW_MASK]
    /\ JoypValues \subseteq SUBSET Bits

\* 0xCF: both groups are selected and no line is low.
input_init == joyp_reg = Bits \ JOYP_RW_MASK

Init ==
    /\ int_init /\ input_init
    /\ keys = {} /\ pressed = {}
    /\ poll = Running

\* The lines a pressed button pulls low: those of a selected group (0 selects).
LowLines(down, reg) == {Line[i] : i \in {b \in down : Group[b] \notin reg}}

detect_falling_edge(prev, next) == prev \ next # {}

\* Mutant: the edge of a line is missed while another line is low.
load_joyp_nibble_allHigh(reg) ==
    LET next == Nibble \ LowLines(pressed, reg)
    IN  /\ if_reg' = IF Nibble \subseteq reg /\ detect_falling_edge(reg \cap Nibble, next)
                     THEN if_reg \cup {INT_JOYPAD} ELSE if_reg
        /\ joyp_reg' = (reg \ Nibble) \cup next

\* load_joyp_nibble, for the JOYP that its caller has left.
load_joyp_nibble(reg) ==
    LET next == Nibble \ LowLines(pressed, reg)
    IN  /\ if_reg' = IF detect_falling_edge(reg \cap Nibble, next)
                     THEN if_reg \cup {INT_JOYPAD} ELSE if_reg
        /\ joyp_reg' = (reg \ Nibble) \cup next

---------------------------------------------------------------------------
\* The window thread.

KeyEvent(i) ==
    /\ keys' = IF i \in keys THEN keys \ {i} ELSE keys \cup {i}
    /\ UNCHANGED <<if_reg, ie_reg, pressed, poll, joyp_reg>>

---------------------------------------------------------------------------
\* The system thread: input_poll_and_load, in steps of one key.

StartPoll ==
    /\ poll = Running /\ poll' = 0
    /\ UNCHANGED <<if_reg, ie_reg, keys, pressed, joyp_reg>>

\* Mutant: a button that is released stays pressed.
ReadKey_sticky ==
    /\ poll \in Buttons /\ poll' = poll + 1
    /\ pressed' = IF poll \in keys THEN pressed \cup {poll} ELSE pressed
    /\ UNCHANGED <<if_reg, ie_reg, keys, joyp_reg>>

ReadKey ==
    /\ poll \in Buttons /\ poll' = poll + 1
    /\ pressed' = IF poll \in keys THEN pressed \cup {poll} ELSE pressed \ {poll}
    /\ UNCHANGED <<if_reg, ie_reg, keys, joyp_reg>>

EndPoll ==
    /\ poll = NUM_BUTTONS /\ poll' = Running
    /\ load_joyp_nibble(joyp_reg)
    /\ UNCHANGED <<ie_reg, keys, pressed>>

\* Mutant: the lines are not looked at again.
input_joyp_write_noLoad(val) ==
    /\ poll = Running
    /\ joyp_reg' = (joyp_reg \ JOYP_RW_MASK) \cup (val \cap JOYP_RW_MASK)
    /\ UNCHANGED <<if_reg, ie_reg, keys, pressed, poll>>

input_joyp_write(val) ==
    /\ poll = Running
    /\ load_joyp_nibble((joyp_reg \ JOYP_RW_MASK) \cup (val \cap JOYP_RW_MASK))
    /\ UNCHANGED <<ie_reg, keys, pressed, poll>>

\* The CPU takes the interrupt or clears its request.
TakeRequest ==
    /\ poll = Running
    /\ if_reg' = if_reg \ {INT_JOYPAD}
    /\ UNCHANGED <<ie_reg, keys, pressed, poll, joyp_reg>>

Polling == StartPoll \/ ReadKey \/ EndPoll

Frame == TakeRequest \/ \E val \in JoypValues : input_joyp_write(val)

Next == Polling \/ Frame \/ \E i \in Buttons : KeyEvent(i)

Spec == Init /\ [][Next]_vars

\* The system thread polls before each frame, and every frame ends.
FairSpec == Spec /\ WF_vars(Polling)

---------------------------------------------------------------------------
TypeOK ==
    /\ if_reg \subseteq Bits /\ ie_reg \subseteq Bits
    /\ keys \subseteq Buttons /\ pressed \subseteq Buttons
    /\ poll \in 0..NUM_BUTTONS \cup {Running}
    /\ joyp_reg \subseteq Bits /\ {6, 7} \subseteq joyp_reg

\* What the program reads in a frame belongs together: the lines are those of the
\* buttons of this frame and of the groups selected now, whoever changed last.
LinesMatch ==
    poll = Running =>
        \A l \in Nibble : l \notin joyp_reg <=>
            \E i \in pressed : Line[i] = l /\ Group[i] \notin joyp_reg

\* The register keeps its form, and its lines are right.
JoypadInv == TypeOK /\ LinesMatch

\* A request is made in exactly the steps in which a line falls, be it because of a
\* key or because of a selection, and also while other lines are low.
RequestOnFall ==
    [][LET falls == (joyp_reg \ joyp_reg') \cap Nibble # {}
       IN  /\ falls => INT_JOYPAD \in if_reg'
           /\ INT_JOYPAD \in if_reg' \ if_reg => falls]_vars

\* A key that the player holds down reaches the program while its group is
\* selected, and one that is let go leaves it, although the keys of one poll are
\* read at different moments.
Steady(i, held) == <>[]((i \in keys) = held /\ Group[i] \notin joyp_reg)

KeysArrive ==
    \A i \in Buttons :
        /\ Steady(i, TRUE) => <>[](Line[i] \notin joyp_reg)
        /\ (\A j \in Buttons : Line[j] = Line[i] => Steady(j, FALSE))
               => <>[](Line[i] \in joyp_reg)
==========================================================================
