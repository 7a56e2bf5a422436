------------------------------ MODULE Pixels ------------------------------
(***************************************************************************)
(* Mode 3 of the PPU (ppu.c): the fetchers of background, window and         *)
(* objects, the two pixel FIFOs, and the pixel that is drawn in a dot.        *)
(*                                                                          *)
(* What is in a tile is left out.  A pixel of the background or the window is *)
(* <<map, column>>, where the column counts pixels of the line of that map;   *)
(* one of an object is <<slot, column>>, a slot of scanline_objs and a column *)
(* of its tile.  Whether its colour index is 0 is a parameter.                *)
(***************************************************************************)
EXTENDS Integers, Sequences, FiniteSets

CONSTANTS
    GB_WIDTH,
    Lines,       \* registers and scanline_objs a line may begin with
    Writes,      \* registers the program may set between two M-cycles of a line
    Zero         \* columns of the maps whose colour index is 0

VARIABLES
    line,        \* the registers now, and scanline_objs
    pipe,        \* the variables of mode 3, as a record
    sure         \* history: no register was set since the line began

draw_vars == <<line, pipe, sure>>

DOTS_PER_M_CYCLE == 4
Byte(n) == n % 256

\* Dots of a line that mode 3 takes at most: filling the FIFO, the pixels, and
\* the stops for SCX, for the window and for the objects.
Longest(l) == 6 + (8 + GB_WIDTH) + 7 + 6 + 6 * Len(l.objs)

MaxObjs == 10
Objs == [x : 0..255, behind : BOOLEAN, opaque : SUBSET (0..7)]
Registers == [scx : 0..255, wx : 0..255, wy_check : BOOLEAN, bg_win_on : BOOLEAN,
              win_on : BOOLEAN, obj_on : BOOLEAN, objs : Seq(Objs)]

ASSUME PixelsAssumption ==
    /\ GB_WIDTH \in 1..160 /\ Zero \subseteq 0..255
    /\ Lines # {} /\ Lines \cup Writes \subseteq Registers
    /\ \A l \in Lines : Len(l.objs) <= MaxObjs

---------------------------------------------------------------------------
\* The operations below take and return the record of pipe.

fetcher_clear(s) == [s EXCEPT !.bg_dot = 0]

WindowStarts(s, l) ==
    /\ ~s.window_mode /\ l.bg_win_on /\ l.win_on
    /\ l.wy_check /\ Byte(s.lx + 7) = l.wx

\* Mutant: what the FIFO holds of the background is drawn first.
check_win_lx_keepsFifo(s, l) ==
    IF WindowStarts(s, l) THEN [fetcher_clear(s) EXCEPT !.window_mode = TRUE] ELSE s

check_win_lx(s, l) ==
    IF WindowStarts(s, l)
    THEN [fetcher_clear(s) EXCEPT !.bg_fifo = <<>>, !.window_mode = TRUE]
    ELSE s

\* The slot check_objs_lx finds at lx, or none.
NoSlot == 0
SlotAt(lx, l) ==
    LET here == {i \in DOMAIN l.objs : l.obj_on /\ l.objs[i].x = Byte(lx + 8)}
    IN  IF here = {} THEN NoSlot ELSE CHOOSE i \in here : \A j \in here : i <= j

check_objs_lx(s, l) == [s EXCEPT !.fetch_obj = SlotAt(s.lx, l)]

\* set_mode(MODE3_DRAW).
Mode3(s, l) ==
    check_objs_lx(check_win_lx(
        [s EXCEPT !.lx = 248, !.bg_fetch_x = 248, !.bg_fifo = <<>>, !.bg_dot = 0,
                  !.obj_fifo = <<>>, !.obj_dot = 0, !.window_mode = FALSE, !.win_x = 0,
                  !.scx_disregard = l.scx % 8, !.draw_complete = FALSE, !.dots = 0], l), l)

\* The columns that the eight pixels of a tile come from.
TileAt(s, l) ==
    IF s.window_mode THEN <<"win", (s.win_x \div 8) * 8>>
                     ELSE <<"bg", (Byte(s.bg_fetch_x + l.scx) \div 8) * 8>>
TilePixels(tile) == [i \in 1..8 |-> <<tile[1], tile[2] + i - 1>>]

\* The last of its dots waits until bg_fifo_fill finds the FIFO empty.
bg_fetcher_dot(s, l) ==
    CASE s.bg_dot = 0 -> [s EXCEPT !.tile = TileAt(s, l), !.bg_dot = 1]
      [] s.bg_dot \in 1..5 -> [s EXCEPT !.bg_dot = @ + 1]
      [] s.bg_dot \in {6, 7} /\ s.bg_fifo # <<>> -> [s EXCEPT !.bg_dot = 7]
      [] OTHER -> [s EXCEPT !.bg_fifo = TilePixels(s.tile), !.bg_dot = 0,
                            !.bg_fetch_x = Byte(@ + 8),
                            !.win_x = IF s.window_mode THEN Byte(@ + 8) ELSE @]

\* obj_fifo_fill: a pixel that is there already stays unless its colour index is 0.
Merged(s, l) ==
    [i \in 1..8 |->
        IF i <= Len(s.obj_fifo) /\ s.obj_fifo[i][2] \in l.objs[s.obj_fifo[i][1]].opaque
        THEN s.obj_fifo[i]
        ELSE <<s.fetch_obj, i - 1>>]

\* The first statement of mode3_dot and obj_fetcher_dot.
obj_fetcher_dot(s, l) ==
    IF s.fetch_obj = NoSlot THEN s
    ELSE IF s.obj_dot < 6 THEN [s EXCEPT !.obj_dot = @ + 1]
    ELSE [s EXCEPT !.obj_fifo = Merged(s, l), !.obj_dot = 0, !.fetch_obj = NoSlot]

\* The choice between a pixel of the background or window and one of an object.
Picked(s, l) ==
    LET ground == Head(s.bg_fifo)
        hidden == ~l.bg_win_on \/ (s.window_mode /\ ~l.win_on)
        zero == hidden \/ ground[2] \in Zero
        obj == Head(s.obj_fifo)
        front == \/ ~l.bg_win_on
                 \/ /\ l.obj_on
                    /\ zero \/ ~l.objs[obj[1]].behind
                    /\ obj[2] \in l.objs[obj[1]].opaque
    IN  IF s.obj_fifo # <<>> /\ front THEN <<"obj", obj[1], obj[2]>>
        ELSE IF hidden THEN <<"blank">> ELSE ground

Popped(fifo) == IF fifo = <<>> THEN <<>> ELSE Tail(fifo)

\* Mutant: the line is over one pixel late.
DrawPixel_late(s, l) ==
    IF s.fetch_obj # NoSlot \/ s.bg_fifo = <<>> THEN s
    ELSE LET popped == [s EXCEPT !.bg_fifo = Tail(@), !.obj_fifo = Popped(@)]
             drawn == [popped EXCEPT !.lx = Byte(@ + 1),
                                     !.out = IF s.lx < GB_WIDTH THEN Picked(s, l) ELSE @]
         IN  IF s.scx_disregard > 0 THEN [popped EXCEPT !.scx_disregard = @ - 1]
             ELSE IF s.lx = GB_WIDTH THEN [drawn EXCEPT !.draw_complete = TRUE]
             ELSE check_win_lx(check_objs_lx(drawn, l), l)

\* The rest of mode3_dot.
DrawPixel(s, l) ==
    IF s.fetch_obj # NoSlot \/ s.bg_fifo = <<>> THEN s
    ELSE LET popped == [s EXCEPT !.bg_fifo = Tail(@), !.obj_fifo = Popped(@)]
             drawn == [popped EXCEPT !.lx = Byte(@ + 1),
                                     !.out = IF s.lx < GB_WIDTH THEN Picked(s, l) ELSE @]
         IN  IF s.scx_disregard > 0 THEN [popped EXCEPT !.scx_disregard = @ - 1]
             ELSE IF drawn.lx = GB_WIDTH THEN [drawn EXCEPT !.draw_complete = TRUE]
             ELSE check_win_lx(check_objs_lx(drawn, l), l)

Dot(s, l) == [DrawPixel(bg_fetcher_dot(obj_fetcher_dot(s, l), l), l) EXCEPT !.dots = @ + 1]

---------------------------------------------------------------------------
Blank == [lx |-> 0, bg_fetch_x |-> 0, bg_fifo |-> <<>>, bg_dot |-> 0, tile |-> <<"bg", 0>>,
          obj_fifo |-> <<>>, obj_dot |-> 0, fetch_obj |-> NoSlot, window_mode |-> FALSE,
          win_x |-> 0, scx_disregard |-> 0, draw_complete |-> TRUE, dots |-> 0, out |-> <<>>]

\* Before the first line.  The statics are zero; mode 3 is over or has not begun.
DrawInit == line \in Lines /\ pipe = Blank /\ sure = TRUE

\* Mode 3 begins, after HBlank and an OAM scan, or because the program has turned
\* the LCD off and on in the middle of a line.  out is a history variable.
BeginDraw ==
    /\ \E l \in Lines : line' = l /\ pipe' = [Mode3(pipe, l) EXCEPT !.out = <<>>]
    /\ sure' = TRUE

mode3_dot ==
    /\ ~pipe.draw_complete
    /\ pipe' = Dot(pipe, line)
    /\ UNCHANGED <<line, sure>>

\* The program sets registers; scanline_objs and wy_check belong to the line.
RegisterWrite ==
    /\ ~pipe.draw_complete /\ pipe.dots % DOTS_PER_M_CYCLE = 0
    /\ \E w \in Writes : line' = [w EXCEPT !.objs = line.objs, !.wy_check = line.wy_check]
    /\ sure' = FALSE
    /\ UNCHANGED pipe

DrawNext == BeginDraw \/ mode3_dot \/ RegisterWrite

DrawSpec == DrawInit /\ [][DrawNext]_draw_vars

---------------------------------------------------------------------------
Maps == {"bg", "win"}
Grounds == Maps \X (0..255)
TileStarts == {8 * k : k \in 0..31}
ObjPixels == (1..MaxObjs) \X (0..7)
Outs == {<<>>, <<"blank">>} \cup Grounds \cup ({"obj"} \X (1..MaxObjs) \X (0..7))

BgFifos == Seq(Grounds)
ObjFifos == Seq(ObjPixels)

Pipes == [lx : 0..255, bg_fetch_x : 0..255, bg_fifo : BgFifos, bg_dot : 0..7,
          tile : Maps \X TileStarts, obj_fifo : ObjFifos, obj_dot : 0..6,
          fetch_obj : 0..MaxObjs, window_mode : BOOLEAN, win_x : 0..255,
          scx_disregard : 0..7, draw_complete : BOOLEAN, dots : Nat, out : Outs]

\* The FIFOs hold eight pixels, and those of objects come from slots in use.
DrawTypeOK ==
    /\ line \in Registers /\ Len(line.objs) <= MaxObjs
    /\ pipe \in Pipes
    /\ Len(pipe.bg_fifo) <= 8 /\ Len(pipe.obj_fifo) <= 8
    /\ \A i \in DOMAIN pipe.obj_fifo : pipe.obj_fifo[i][1] <= Len(line.objs)
    /\ pipe.fetch_obj <= Len(line.objs)

\* The pixels a line has passed: eight, and then those of the screen.
Place(s) == Byte(s.lx + 8)

\* The fetcher of the background is so far ahead that the FIFO does not run dry.
InStep ==
    /\ pipe.fetch_obj = NoSlot => pipe.obj_dot = 0
    /\ pipe.bg_fifo # <<>> => Len(pipe.bg_fifo) + pipe.bg_dot >= 7
    /\ ~pipe.draw_complete => Place(pipe) < 8 + GB_WIDTH

\* The dots that the rest of the line takes at most: the pixels, the stops for SCX and for
\* the fetcher, for the window if it may still start, and for the objects.
PixelsLeft(s) == 8 + GB_WIDTH - Place(s) + s.scx_disregard
BgLeft(s) == IF s.bg_fifo = <<>> /\ s.bg_dot < 6 THEN 6 - s.bg_dot ELSE 0
WinLeft(s) == IF s.window_mode THEN 0 ELSE 6
ObjLeft(s) == IF s.fetch_obj = NoSlot THEN 0 ELSE 6 - s.obj_dot
ObjsAhead(s, l) == {i \in DOMAIN l.objs : l.objs[i].x \in (Place(s) + 1)..(8 + GB_WIDTH)}
Left(s, l) ==
    PixelsLeft(s) + BgLeft(s) + WinLeft(s) + ObjLeft(s) + 6 * Cardinality(ObjsAhead(s, l))

WithinBudget == ~pipe.draw_complete => pipe.dots + Left(pipe, line) <= Longest(line)

\* Mode 3 is over in time for HBlank whatever the program writes meanwhile, so that
\* Ppu may assume an end (its DrawEnds), and lx stops at the edge of the screen.
EndsInTime == pipe.dots <= Longest(line)

\* The fetchers and the FIFOs draw the line that the registers and objects ask for.
Promise == INSTANCE LineSpec WITH
    WIDTH <- GB_WIDTH,
    next <- IF pipe.lx <= GB_WIDTH THEN pipe.lx ELSE 0,
    out <- pipe.out

\* Every pixel comes out once, from left to right, and as long as no register was set in
\* the middle of the line it is the right one; see LineSpec.
ImplementsPromise == Promise!Spec

\* The window is on from its place on, and the fetcher and its FIFO are at the next pixel.
GroundInPlace(s, l) ==
    LET place == Place(s)
    IN  /\ s.window_mode <=> l.wy_check /\ l.win_on /\ l.wx < place
        /\ s.scx_disregard <= l.scx % 8 /\ (s.scx_disregard > 0 => place = 0)
        /\ s.bg_dot > 0 => s.tile = TileAt(s, l)
        /\ IF s.window_mode
           THEN /\ s.win_x = place - l.wx - 1 + Len(s.bg_fifo) /\ s.win_x % 8 = 0
                /\ \A i \in DOMAIN s.bg_fifo : s.bg_fifo[i] = <<"win", place - l.wx - 1 + i - 1>>
           ELSE /\ s.bg_fetch_x = Byte(s.lx + ((l.scx % 8) - s.scx_disregard) + Len(s.bg_fifo))
                /\ s.bg_fetch_x % 8 = 0 /\ s.win_x = 0
                /\ \A i \in DOMAIN s.bg_fifo :
                      s.bg_fifo[i] = <<"bg", Byte(s.lx + l.scx - s.scx_disregard + i - 1)>>

\* The objects that have been fetched, and those of them with an opaque pixel at a place.
FirstThere(j, l) == \A i \in 1..(j - 1) : l.objs[i].x # l.objs[j].x
Fetched(s, l) ==
    {j \in DOMAIN l.objs : /\ FirstThere(j, l)
                           /\ l.objs[j].x <= Place(s)
                           /\ l.objs[j].x = Place(s) => s.fetch_obj = NoSlot}
OpaqueAt(p, s, l) == {j \in Fetched(s, l) : p - l.objs[j].x \in l.objs[j].opaque}

\* The pixels of the objects that go to the screen are in the FIFO, the leftmost in front.
ObjsInPlace(s, l) ==
    /\ s.fetch_obj \in {NoSlot, SlotAt(s.lx, l)}
    /\ \A j \in Fetched(s, l) : l.objs[j].x > 0 => l.objs[j].x + 8 <= Place(s) + Len(s.obj_fifo)
    /\ \A i \in DOMAIN s.obj_fifo :
          LET p == Place(s) + i - 1
              pixel == s.obj_fifo[i]
          IN  p >= 8 =>
                \/ OpaqueAt(p, s, l) = {} /\ pixel[2] \notin l.objs[pixel[1]].opaque
                \/ \E j \in OpaqueAt(p, s, l) :
                      /\ \A k \in OpaqueAt(p, s, l) : l.objs[j].x <= l.objs[k].x
                      /\ pixel = <<j, p - l.objs[j].x>>

\* What is to be drawn is in the FIFOs, at its place, while no register has been set.
InPlace ==
    sure => /\ line \in Lines
            /\ ~pipe.draw_complete /\ Promise!Asked(line) =>
                   GroundInPlace(pipe, line) /\ (line.obj_on => ObjsInPlace(pipe, line))

\* FIFOs, fetchers and counters keep their ranges, and mode 3 ends, also when registers
\* change in the middle of a line; and when none do the FIFOs hold the line in its order.
PixelsInv == DrawTypeOK /\ InStep /\ WithinBudget /\ EndsInTime /\ InPlace
============================================================================
