------------------------------- MODULE Ppu -------------------------------
(***************************************************************************)
(* The PPU (ppu.c) as far as time goes: dots, lines, modes, the STAT and    *)
(* VBlank interrupts, turning the LCD off and on, and which picture the      *)
(* front buffer holds.  In every M-cycle sys_tick runs the CPU, which may    *)
(* write a register, and then the PPU.                                      *)
(*                                                                          *)
(* What mode 3 draws is left out: draw_end, chosen when mode 3 begins, is    *)
(* the dot of the line at which mode3_dot has drawn the last pixel.  So are  *)
(* bits 2..0 of STAT, copies of the mode and of a comparison that only       *)
(* software reads.                                                           *)
(***************************************************************************)
EXTENDS Interrupt

CONSTANTS
    T_CYCLES_PER_SCANLINE, SCANLINES_PER_FRAME, GB_HEIGHT, MODE2_OAM_T_CYCLES,
    DrawEnds,   \* dots at which mode 3 may end; an M-cycle of HBlank is left after it
    LycValues   \* values software writes to LYC

\* The loop of ppu_tick is written out below for this number of dots.
T_M_RATIO == 4

MODE0_HBLANK == 0
MODE1_VBLANK == 1
MODE2_OAM    == 2
MODE3_DRAW   == 3
LCD_DISABLED == 4

\* The bits of STAT that select the causes of its interrupt: modes 0, 1, 2, LYC.
Selections == {3, 4, 5, 6}

VARIABLES
    turn,            \* who takes the next step of the M-cycle
    lcd_enable,      \* bit 7 of LCDC
    stat_reg,        \* the bits among Selections that are 1
    lyc_reg,
    mode, scanline_counter, ly_reg, mode3_draw_complete, just_enabled,
    prev_stat_int_signal, prev_vblank_int_signal,
    draw_end,
    drawn,           \* history: lines of this frame whose last pixel was drawn
    front            \* history: the picture in front_buffer, one of Pictures

raster == <<mode, scanline_counter, ly_reg, mode3_draw_complete, just_enabled, drawn, front>>
signals == <<prev_stat_int_signal, prev_vblank_int_signal>>
vars == <<if_reg, ie_reg, turn, lcd_enable, stat_reg, lyc_reg, raster, signals, draw_end>>

\* A whole frame drawn since the LCD was last turned on, one drawn before, or a
\* picture that is not a whole frame.
Pictures == {"new", "old", "partial"}

Modes == {MODE0_HBLANK, MODE1_VBLANK, MODE2_OAM, MODE3_DRAW, LCD_DISABLED}
Lines == 0..(SCANLINES_PER_FRAME - 1)
Dots == 0..(T_CYCLES_PER_SCANLINE - 1)

ASSUME PpuAssumption ==
    /\ T_CYCLES_PER_SCANLINE \in Nat \ {0} /\ T_CYCLES_PER_SCANLINE % T_M_RATIO = 0
    /\ MODE2_OAM_T_CYCLES \in 1..(T_CYCLES_PER_SCANLINE - 1) /\ MODE2_OAM_T_CYCLES % T_M_RATIO = 0
    /\ SCANLINES_PER_FRAME \in Nat /\ GB_HEIGHT \in 1..(SCANLINES_PER_FRAME - 1)
    /\ DrawEnds # {}
    /\ DrawEnds \subseteq (MODE2_OAM_T_CYCLES + 1)..(T_CYCLES_PER_SCANLINE - T_M_RATIO)
    /\ LycValues \subseteq 0..255

ppu_init ==
    /\ lcd_enable = TRUE
    /\ stat_reg = {}
    /\ mode = MODE2_OAM
    /\ ly_reg = 0 /\ lyc_reg = 0
    /\ scanline_counter = 0
    /\ mode3_draw_complete = FALSE /\ just_enabled = FALSE
    /\ prev_stat_int_signal = 0 /\ prev_vblank_int_signal = 0

\* front_buffer is all zero at first: a blank picture, and no old one.
Init ==
    /\ int_init /\ ppu_init
    /\ turn = "cpu"
    /\ draw_end \in DrawEnds
    /\ drawn = 0 /\ front = "new"

---------------------------------------------------------------------------
\* A T-cycle, as a function of the variables of raster in a record.

Raster == [mode |-> mode, counter |-> scanline_counter, ly |-> ly_reg,
           complete |-> mode3_draw_complete, just_enabled |-> just_enabled,
           drawn |-> drawn, front |-> front]

\* The start of the line after line s.ly; commit_frame runs in each line of VBlank.
BeginLine(s) ==
    LET ly == (s.ly + 1) % SCANLINES_PER_FRAME
        vblank == ly >= GB_HEIGHT
    IN  [s EXCEPT !.counter = 0,
                  !.ly = ly,
                  !.mode = IF vblank THEN MODE1_VBLANK ELSE MODE2_OAM,
                  !.just_enabled = @ /\ ly # 0,
                  !.drawn = IF ly = 0 THEN 0 ELSE @,
                  !.front = IF ~vblank THEN @
                            ELSE IF s.drawn = GB_HEIGHT THEN "new" ELSE "partial"]

\* Mutant: mode3_draw_complete is left over from the last line.
WithinLine_notReset(s) ==
    CASE s.mode = MODE2_OAM /\ s.counter = MODE2_OAM_T_CYCLES -> [s EXCEPT !.mode = MODE3_DRAW]
      [] s.mode = MODE3_DRAW /\ s.complete -> [s EXCEPT !.mode = MODE0_HBLANK]
      [] OTHER -> s

\* The changes of mode within a line, after the dot that led to it.
WithinLine(s) ==
    CASE s.mode = MODE2_OAM /\ s.counter = MODE2_OAM_T_CYCLES ->
            [s EXCEPT !.mode = MODE3_DRAW, !.complete = FALSE]
      [] s.mode = MODE3_DRAW /\ s.complete ->
            [s EXCEPT !.mode = MODE0_HBLANK]
      [] OTHER -> s

Dot(s, end) ==
    LET draws == s.mode = MODE3_DRAW /\ s.counter + 1 = end
        after == [s EXCEPT !.counter = @ + 1, !.complete = @ \/ draws,
                             !.drawn = IF draws THEN @ + 1 ELSE @]
    IN  IF after.counter = T_CYCLES_PER_SCANLINE THEN BeginLine(after) ELSE WithinLine(after)

\* The four dots of an M-cycle; on sets, so that TLC evaluates each dot once.
EachDot(S, end) == {Dot(s, end) : s \in S}

Dots4(s, end) == EachDot(EachDot(EachDot(EachDot({s}, end), end), end), end)

---------------------------------------------------------------------------
\* The levels of the two interrupt lines.

\* Mutant: the cause of mode 2 does not look at the mode.
StatSignal_anyMode(md, ly) ==
    IF (6 \in stat_reg /\ ly = lyc_reg) \/ 5 \in stat_reg THEN 1 ELSE 0

StatSignal(md, ly) ==
    IF \/ 6 \in stat_reg /\ ly = lyc_reg
       \/ 5 \in stat_reg /\ md = MODE2_OAM
       \/ 4 \in stat_reg /\ md = MODE1_VBLANK
       \/ 3 \in stat_reg /\ md = MODE0_HBLANK
    THEN 1 ELSE 0

VblankSignal(md) == IF md = MODE1_VBLANK THEN 1 ELSE 0

\* Mutant: the level for the edge.
Rises_level(prev, next) == next = 1

Rises(prev, next) == prev = 0 /\ next = 1

\* Mutant: the latch of VBlank is set in the test for the edge, and never cleared.
RaiseInterrupts_stuck(md, ly) ==
    /\ prev_stat_int_signal' = StatSignal(md, ly)
    /\ IF Rises(prev_vblank_int_signal, VblankSignal(md))
       THEN prev_vblank_int_signal' = 1 /\ if_reg' = if_reg \cup {INT_VBLANK}
       ELSE UNCHANGED <<prev_vblank_int_signal, if_reg>>

\* The part of ppu_tick after its loop, which requests interrupts.
RaiseInterrupts(md, ly) ==
    /\ prev_stat_int_signal' = StatSignal(md, ly)
    /\ prev_vblank_int_signal' = VblankSignal(md)
    /\ if_reg' = if_reg
          \cup (IF Rises(prev_stat_int_signal, StatSignal(md, ly)) THEN {INT_STAT} ELSE {})
          \cup (IF Rises(prev_vblank_int_signal, VblankSignal(md)) THEN {INT_VBLANK} ELSE {})

ppu_tick ==
    /\ turn = "ppu" /\ turn' = "cpu"
    /\ mode # LCD_DISABLED
    /\ draw_end' \in IF mode = MODE2_OAM /\ scanline_counter + T_M_RATIO >= MODE2_OAM_T_CYCLES
                     THEN DrawEnds ELSE {draw_end}
    /\ \E r \in Dots4(Raster, draw_end') :
           /\ mode' = r.mode /\ scanline_counter' = r.counter /\ ly_reg' = r.ly
           /\ mode3_draw_complete' = r.complete /\ just_enabled' = r.just_enabled
           /\ drawn' = r.drawn /\ front' = r.front
           /\ RaiseInterrupts(r.mode, r.ly)
    /\ UNCHANGED <<ie_reg, lcd_enable, stat_reg, lyc_reg>>

\* ppu_tick returns at once: signals and latches stay as they are.
ppu_tick_disabled ==
    /\ turn = "ppu" /\ turn' = "cpu"
    /\ mode = LCD_DISABLED
    /\ UNCHANGED <<if_reg, ie_reg, lcd_enable, stat_reg, lyc_reg, raster, signals, draw_end>>

---------------------------------------------------------------------------
CpuTurn == turn = "cpu" /\ turn' = "ppu"

\* ppu_lcdc_write, for the two changes of bit 7.
LcdOff ==
    /\ CpuTurn
    /\ lcd_enable /\ lcd_enable' = FALSE
    /\ mode' = LCD_DISABLED
    /\ UNCHANGED <<if_reg, ie_reg, stat_reg, lyc_reg, scanline_counter, ly_reg,
                   mode3_draw_complete, just_enabled, drawn, front, signals, draw_end>>

LcdOn ==
    /\ CpuTurn
    /\ ~lcd_enable /\ lcd_enable' = TRUE
    /\ just_enabled' = TRUE
    /\ scanline_counter' = 0 /\ ly_reg' = 0
    /\ mode' = MODE2_OAM
    /\ drawn' = 0
    /\ front' = IF front = "new" THEN "old" ELSE front
    /\ UNCHANGED <<if_reg, ie_reg, stat_reg, lyc_reg, mode3_draw_complete, signals, draw_end>>

ppu_stat_write(val) ==
    /\ CpuTurn
    /\ stat_reg' = val
    /\ UNCHANGED <<if_reg, ie_reg, lcd_enable, lyc_reg, raster, signals, draw_end>>

ppu_lyc_write(val) ==
    /\ CpuTurn
    /\ lyc_reg' = val
    /\ UNCHANGED <<if_reg, ie_reg, lcd_enable, stat_reg, raster, signals, draw_end>>

\* The CPU takes or clears one of the two interrupts or both, or does something the
\* PPU does not see.  (Software could also set the bits of IF itself.)
OtherCpuStep ==
    /\ CpuTurn
    /\ \E taken \in SUBSET {INT_VBLANK, INT_STAT} : if_reg' = if_reg \ taken
    /\ UNCHANGED <<ie_reg, lcd_enable, stat_reg, lyc_reg, raster, signals, draw_end>>

CpuStep ==
    \/ LcdOff \/ LcdOn
    \/ \E val \in SUBSET Selections : ppu_stat_write(val)
    \/ \E val \in LycValues : ppu_lyc_write(val)
    \/ OtherCpuStep

Next == CpuStep \/ ppu_tick \/ ppu_tick_disabled

Spec == Init /\ [][Next]_vars

\* sys_tick always runs to its end, and is called again and again.
FairSpec == Spec /\ WF_vars(Next)

---------------------------------------------------------------------------
TypeOK ==
    /\ if_reg \subseteq Bits /\ ie_reg \subseteq Bits
    /\ turn \in {"cpu", "ppu"}
    /\ lcd_enable \in BOOLEAN
    /\ stat_reg \subseteq Selections
    /\ lyc_reg \in LycValues \cup {0}
    /\ mode \in Modes
    /\ scanline_counter \in Dots /\ ly_reg \in Lines
    /\ mode3_draw_complete \in BOOLEAN /\ just_enabled \in BOOLEAN
    /\ prev_stat_int_signal \in {0, 1} /\ prev_vblank_int_signal \in {0, 1}
    /\ draw_end \in DrawEnds
    /\ drawn \in 0..GB_HEIGHT
    /\ front \in Pictures

\* What commit_frame publishes is a whole frame: all its lines were drawn since the
\* frame began, also when the LCD was turned off in the middle of an earlier one.
WholeFrames == front # "partial"

\* ppu.c:317-318: after the LCD was turned on, the window shows no picture from
\* before; it stays blank until there is a new one.
NoOldPicture == lcd_enable /\ ~just_enabled => front = "new"

\* The mode is right for the line.
ModeFitsLine ==
    lcd_enable => (mode = MODE1_VBLANK <=> ly_reg >= GB_HEIGHT)

\* How far each mode has come, which the counters and the two flags must agree on: mode 3 ends
\* in its line, and the lines drawn are those above the current one.
ModeFitsDot ==
    /\ mode = LCD_DISABLED <=> ~lcd_enable
    /\ scanline_counter % T_M_RATIO = 0
    /\ mode = MODE2_OAM => scanline_counter < MODE2_OAM_T_CYCLES /\ drawn = ly_reg
    /\ mode = MODE3_DRAW =>
          /\ scanline_counter \in MODE2_OAM_T_CYCLES..(draw_end - 1)
          /\ drawn = ly_reg /\ ~mode3_draw_complete
    /\ mode = MODE0_HBLANK => scanline_counter >= draw_end /\ drawn = ly_reg + 1
    /\ mode = MODE1_VBLANK => drawn = GB_HEIGHT /\ front = "new"

\* The latch of the VBlank line: old at most in the first M-cycle after the LCD was turned on.
LatchFits ==
    lcd_enable =>
        /\ mode = MODE1_VBLANK => prev_vblank_int_signal = 1
        /\ prev_vblank_int_signal = 1 =>
              mode = MODE1_VBLANK \/ (ly_reg = 0 /\ scanline_counter = 0)

\* However often the LCD is turned off and on in mid-line, the PPU keeps its ranges, mode,
\* line, dot and latch agree, and the picture handed to the window is whole and not outdated.
PpuInv ==
    /\ TypeOK /\ WholeFrames /\ NoOldPicture
    /\ ModeFitsLine /\ ModeFitsDot /\ LatchFits

\* As long as the LCD is on, VBlank interrupts keep coming.
VblankComes == <>[]lcd_enable => []<>(INT_VBLANK \in if_reg)

\* As long as the LCD is on and the program leaves a selection alone that some line
\* of the frame satisfies, STAT interrupts keep coming: the signal falls again
\* between two causes, and the latch does not stay set.
Satisfiable == stat_reg # {} /\ (stat_reg = {6} => lyc_reg \in Lines)

StatComes ==
    <>[](lcd_enable /\ Satisfiable) /\ <>[][UNCHANGED <<stat_reg, lyc_reg>>]_vars
        => []<>(INT_STAT \in if_reg)

\* The mode, the dot counter, LY and the latch of the VBlank line together make one
\* position that runs through the frame and one request for each VBlank.
Promise == INSTANCE RasterSpec WITH
    STEP <- T_M_RATIO,
    VISIBLE <- GB_HEIGHT * T_CYCLES_PER_SCANLINE,
    TOTAL <- SCANLINES_PER_FRAME * T_CYCLES_PER_SCANLINE,
    on <- lcd_enable,
    position <- ly_reg * T_CYCLES_PER_SCANLINE + scanline_counter,
    irq <- INT_VBLANK \in if_reg

ImplementsPromise == Promise!Spec
==========================================================================
