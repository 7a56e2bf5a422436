---------------------------- MODULE WindowRows ----------------------------
(***************************************************************************)
(* The rows of the window (wy_check, window_mode and win_y in ppu.c).  The    *)
(* window has a counter of its own, which goes on after a line in which the    *)
(* window was begun, so that a program that hides it for some lines sees the   *)
(* next row of it afterwards and not the row of the screen.                   *)
(*                                                                          *)
(* A line has three steps: the start of its scan, the start of drawing, and   *)
(* its end; in drawing the window may begin, as check_win_lx decides.          *)
(***************************************************************************)
EXTENDS Integers, FiniteSets

GB_HEIGHT == 144
SCANLINES_PER_FRAME == 154

VARIABLES
    wy_reg,
    mode,            \* "scan", "draw", "hblank", "vblank", or "off"
    ly_reg,
    just_enabled,
    wy_check, window_mode, win_y,
    used             \* history: lines of this frame in which the window has begun

vars == <<wy_reg, mode, ly_reg, just_enabled, wy_check, window_mode, win_y, used>>

Byte(n) == n % 256

Init ==
    /\ wy_reg = 0
    /\ mode = "scan" /\ ly_reg = 0 /\ just_enabled = FALSE
    /\ wy_check = TRUE
    /\ window_mode = FALSE /\ win_y = 0
    /\ used = {}

\* set_mode(MODE3_DRAW): the window is not in use; it may begin at the left edge.
BeginDraw ==
    /\ mode = "scan" /\ mode' = "draw"
    /\ window_mode' \in {FALSE, wy_check}
    /\ used' = IF window_mode' THEN used \cup {ly_reg} ELSE used
    /\ UNCHANGED <<wy_reg, ly_reg, just_enabled, wy_check, win_y>>

\* check_win_lx finds lx at WX, with the window enabled.
WindowBegins ==
    /\ mode = "draw"
    /\ ~window_mode /\ wy_check
    /\ window_mode' = TRUE
    /\ used' = used \cup {ly_reg}
    /\ UNCHANGED <<wy_reg, mode, ly_reg, just_enabled, wy_check, win_y>>

EndDraw ==
    /\ mode = "draw" /\ mode' = "hblank"
    /\ UNCHANGED <<wy_reg, ly_reg, just_enabled, wy_check, window_mode, win_y, used>>

\* The counter after a line; window_mode is still what it was in the last line drawn.
Row == IF window_mode THEN Byte(win_y + 1) ELSE win_y

\* The end of a line in ppu_tick.
NextLine ==
    /\ mode \in {"hblank", "vblank"}
    /\ ly_reg' = (ly_reg + 1) % SCANLINES_PER_FRAME
    /\ win_y' = IF ly_reg' = 0 THEN 0 ELSE Row
    /\ just_enabled' = (just_enabled /\ ly_reg' # 0)
    /\ used' = IF ly_reg' = 0 THEN {} ELSE used
    /\ IF ly_reg' >= GB_HEIGHT THEN mode' = "vblank" /\ UNCHANGED wy_check
       ELSE mode' = "scan" /\ wy_check' = (ly_reg' >= wy_reg)
    /\ UNCHANGED <<wy_reg, window_mode>>

ppu_wy_write ==
    /\ wy_reg' \in 0..GB_HEIGHT
    /\ UNCHANGED <<mode, ly_reg, just_enabled, wy_check, window_mode, win_y, used>>

LcdOff ==
    /\ mode # "off" /\ mode' = "off"
    /\ UNCHANGED <<wy_reg, ly_reg, just_enabled, wy_check, window_mode, win_y, used>>

\* win_y keeps what it was when the LCD was turned off.
LcdOn ==
    /\ mode = "off" /\ mode' = "scan"
    /\ just_enabled' = TRUE
    /\ ly_reg' = 0
    /\ wy_check' = (0 >= wy_reg)
    /\ used' = {}
    /\ UNCHANGED <<wy_reg, window_mode, win_y>>

Next ==
    \/ BeginDraw \/ WindowBegins \/ EndDraw \/ NextLine
    \/ ppu_wy_write \/ LcdOff \/ LcdOn

Spec == Init /\ [][Next]_vars

---------------------------------------------------------------------------
\* In a frame that is shown the window's rows come one after the other from the first,
\* one for each line in which it has begun, although win_y goes on in VBlank and is not
\* reset when the LCD is turned on.
RowsInOrder ==
    mode = "draw" /\ window_mode /\ ~just_enabled =>
        win_y = Cardinality({ly \in used : ly < ly_reg})

\* Every value has its range, and the lines counted are of this frame.
Ranges ==
    /\ mode \in {"scan", "draw", "hblank", "vblank", "off"}
    /\ ly_reg \in 0..(SCANLINES_PER_FRAME - 1)
    /\ just_enabled \in BOOLEAN
    /\ wy_check \in BOOLEAN /\ window_mode \in BOOLEAN
    /\ win_y \in Nat
    /\ used \subseteq 0..(GB_HEIGHT - 1)
    /\ mode = "vblank" => ly_reg >= GB_HEIGHT
    /\ mode \in {"scan", "draw", "hblank"} =>
           ly_reg < GB_HEIGHT /\ used \subseteq 0..ly_reg

\* The line drawn is counted when the window has begun in it, and not before.
UsedInLine ==
    /\ mode = "scan" => ly_reg \notin used
    /\ mode \in {"draw", "hblank"} => (window_mode <=> ly_reg \in used)

\* Up to the end of a line the counter is the number of lines before it.
CountedBefore ==
    ~just_enabled /\ mode \in {"scan", "draw", "hblank"} =>
        win_y = Cardinality(used \ {ly_reg})

\* The inductive invariant.
WindowRowsInv == Ranges /\ UsedInLine /\ CountedBefore
==========================================================================
