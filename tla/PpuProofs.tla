----------------------------- MODULE PpuProofs -----------------------------
(***************************************************************************)
(* Proofs about Ppu for every length of a line, of mode 2 and of a frame,    *)
(* every height of the picture and every set of dots at which mode 3 may     *)
(* end.  The inductive invariant is PpuInv.  ppu_tick is four dots; what one *)
(* dot keeps, and how far it moves the position in the frame, are lemmas on  *)
(* the record of the raster, which are then applied four times.              *)
(***************************************************************************)
EXTENDS Ppu, TLAPS

Rasters ==
    [mode : Modes, counter : Dots, ly : Lines, complete : BOOLEAN, just_enabled : BOOLEAN,
     drawn : 0..GB_HEIGHT, front : Pictures]

\* The parts of PpuInv that are about the raster, for an LCD that is on.
RasterInv(s, end) ==
    /\ s \in Rasters /\ s.mode # LCD_DISABLED
    /\ s.mode = MODE1_VBLANK <=> s.ly >= GB_HEIGHT
    /\ s.mode = MODE2_OAM => s.counter < MODE2_OAM_T_CYCLES /\ s.drawn = s.ly
    /\ s.mode = MODE3_DRAW =>
          /\ s.counter >= MODE2_OAM_T_CYCLES /\ s.counter < end
          /\ s.drawn = s.ly /\ ~s.complete
    /\ s.mode = MODE0_HBLANK => s.counter >= end /\ s.drawn = s.ly + 1
    /\ s.mode = MODE1_VBLANK => s.drawn = GB_HEIGHT /\ s.front = "new"
    /\ s.front # "partial"
    /\ ~s.just_enabled => s.front = "new"

\* The constants, in the form the steps below need.
LEMMA Constants ==
    /\ T_CYCLES_PER_SCANLINE \in Nat /\ T_CYCLES_PER_SCANLINE >= 8
    /\ T_CYCLES_PER_SCANLINE % 4 = 0
    /\ MODE2_OAM_T_CYCLES \in Nat /\ MODE2_OAM_T_CYCLES % 4 = 0
    /\ 4 <= MODE2_OAM_T_CYCLES /\ MODE2_OAM_T_CYCLES + 4 <= T_CYCLES_PER_SCANLINE
    /\ SCANLINES_PER_FRAME \in Nat /\ GB_HEIGHT \in Nat
    /\ 0 < GB_HEIGHT /\ GB_HEIGHT < SCANLINES_PER_FRAME
    /\ \A end \in DrawEnds :
          end \in Nat /\ MODE2_OAM_T_CYCLES < end /\ end + 4 <= T_CYCLES_PER_SCANLINE
BY PpuAssumption DEF T_M_RATIO

\* The line after line ly.
NextLine(ly) == IF ly + 1 = SCANLINES_PER_FRAME THEN 0 ELSE ly + 1

\* A remainder is not needed to count lines.
LEMMA NextLineIs ==
    ASSUME NEW ly \in Lines
    PROVE  (ly + 1) % SCANLINES_PER_FRAME = NextLine(ly) /\ NextLine(ly) \in Lines
BY Constants DEF Lines, NextLine

\* How a dot moves the dot counter and the line.
Moves(s, d) ==
    IF s.counter + 1 = T_CYCLES_PER_SCANLINE
    THEN d.counter = 0 /\ d.ly = NextLine(s.ly)
    ELSE d.counter = s.counter + 1 /\ d.ly = s.ly

\* The raster after a dot is counted and, if it is the last one of mode 3, the line is drawn.
Counted(s, end) ==
    LET draws == s.mode = MODE3_DRAW /\ s.counter + 1 = end
    IN  [s EXCEPT !.counter = @ + 1, !.complete = @ \/ draws,
                  !.drawn = IF draws THEN @ + 1 ELSE @]

\* The fields after counting a dot.
LEMMA CountedFields ==
    ASSUME NEW s, NEW end \in DrawEnds, RasterInv(s, end), NEW a, a = Counted(s, end)
    PROVE  /\ a.mode = s.mode /\ a.counter = s.counter + 1 /\ a.ly = s.ly
           /\ a.just_enabled = s.just_enabled /\ a.front = s.front
           /\ a.complete <=> s.complete \/ (s.mode = MODE3_DRAW /\ s.counter + 1 = end)
           /\ a.drawn = IF s.mode = MODE3_DRAW /\ s.counter + 1 = end THEN s.drawn + 1 ELSE s.drawn
           /\ a \in [mode : Modes, counter : Nat, ly : Lines, complete : BOOLEAN,
                     just_enabled : BOOLEAN, drawn : 0..GB_HEIGHT, front : Pictures]
<1>. DEFINE draws == s.mode = MODE3_DRAW /\ s.counter + 1 = end
<1>1. s \in Rasters
  BY DEF RasterInv
<1>2. a = [s EXCEPT !.counter = @ + 1, !.complete = @ \/ draws,
                    !.drawn = IF draws THEN @ + 1 ELSE @]
  BY DEF Counted
<1>3. s.counter + 1 \in Nat
  BY <1>1, Constants DEF Rasters, Dots
<1>4. s.drawn \in 0..GB_HEIGHT /\ (draws => s.drawn + 1 \in 0..GB_HEIGHT)
  BY <1>1, Constants DEF RasterInv, Rasters, Lines, MODE3_DRAW, MODE1_VBLANK
<1>5. (s.complete \/ draws) \in BOOLEAN
  OBVIOUS
<1>. HIDE DEF draws
<1>6. /\ a.mode = s.mode /\ a.counter = s.counter + 1 /\ a.ly = s.ly
      /\ a.just_enabled = s.just_enabled /\ a.front = s.front
      /\ a.complete = (s.complete \/ draws)
      /\ a.drawn = IF draws THEN s.drawn + 1 ELSE s.drawn
  BY <1>1, <1>2, Zenon DEF Rasters
<1>7. a \in [mode : Modes, counter : Nat, ly : Lines, complete : BOOLEAN,
             just_enabled : BOOLEAN, drawn : 0..GB_HEIGHT, front : Pictures]
  BY <1>1, <1>2, <1>3, <1>4, <1>5 DEF Rasters
<1>. QED
  BY <1>6, <1>7 DEF draws

\* A dot keeps the invariant, and moves the position on by one.
LEMMA DotKeeps ==
    ASSUME NEW s, NEW end \in DrawEnds, RasterInv(s, end), NEW d, d = Dot(s, end)
    PROVE  RasterInv(d, end) /\ Moves(s, d)
<1>. DEFINE a == Counted(s, end)
<1>1. /\ a.mode = s.mode /\ a.counter = s.counter + 1 /\ a.ly = s.ly
      /\ a.just_enabled = s.just_enabled /\ a.front = s.front
      /\ a.complete <=> s.complete \/ (s.mode = MODE3_DRAW /\ s.counter + 1 = end)
      /\ a.drawn = IF s.mode = MODE3_DRAW /\ s.counter + 1 = end THEN s.drawn + 1 ELSE s.drawn
  BY CountedFields
<1>2. a \in [mode : Modes, counter : Nat, ly : Lines, complete : BOOLEAN,
             just_enabled : BOOLEAN, drawn : 0..GB_HEIGHT, front : Pictures]
  BY CountedFields
<1>3. d = IF a.counter = T_CYCLES_PER_SCANLINE THEN BeginLine(a) ELSE WithinLine(a)
  BY DEF Dot, Counted
<1>. HIDE DEF a
<1>. USE DEF MODE0_HBLANK, MODE1_VBLANK, MODE2_OAM, MODE3_DRAW, LCD_DISABLED
<1>4. CASE a.counter = T_CYCLES_PER_SCANLINE
  <2>1. s.mode \in {MODE0_HBLANK, MODE1_VBLANK}
    BY <1>1, <1>4, Constants DEF RasterInv, Rasters, Modes, Dots
  <2>2. a.drawn = IF s.ly < GB_HEIGHT THEN s.ly + 1 ELSE GB_HEIGHT
    BY <1>1, <2>1, Constants DEF RasterInv, Rasters, Lines
  <2>3. NextLine(a.ly) \in Lines /\ (a.ly + 1) % SCANLINES_PER_FRAME = NextLine(a.ly)
    BY <1>2, NextLineIs
  <2>4. d = [a EXCEPT
                !.counter = 0, !.ly = NextLine(a.ly),
                !.mode = IF NextLine(a.ly) >= GB_HEIGHT THEN MODE1_VBLANK ELSE MODE2_OAM,
                !.just_enabled = @ /\ NextLine(a.ly) # 0,
                !.drawn = IF NextLine(a.ly) = 0 THEN 0 ELSE @,
                !.front = IF ~(NextLine(a.ly) >= GB_HEIGHT) THEN @
                          ELSE IF a.drawn = GB_HEIGHT THEN "new" ELSE "partial"]
    BY <1>3, <1>4, <2>3 DEF BeginLine
  <2>5. /\ d.counter = 0 /\ d.ly = NextLine(s.ly)
        /\ d.mode = IF d.ly >= GB_HEIGHT THEN MODE1_VBLANK ELSE MODE2_OAM
        /\ d.just_enabled <=> s.just_enabled /\ d.ly # 0
        /\ d.drawn = IF d.ly = 0 THEN 0 ELSE a.drawn
        /\ d.front = IF d.ly < GB_HEIGHT THEN s.front
                     ELSE IF a.drawn = GB_HEIGHT THEN "new" ELSE "partial"
    <3>. DEFINE v == NextLine(a.ly)
    <3>. HIDE DEF v
    <3>1. /\ d.counter = 0 /\ d.ly = v
          /\ d.mode = IF v >= GB_HEIGHT THEN MODE1_VBLANK ELSE MODE2_OAM
          /\ d.drawn = IF v = 0 THEN 0 ELSE a.drawn
          /\ d.front = IF ~(v >= GB_HEIGHT) THEN a.front
                       ELSE IF a.drawn = GB_HEIGHT THEN "new" ELSE "partial"
      BY <1>2, <2>4 DEF v
    <3>2. d.just_enabled <=> a.just_enabled /\ v # 0
      BY <1>2, <2>4, Zenon DEF v
    <3>3. v = NextLine(s.ly) /\ v \in Nat
      BY <1>1, <2>3, Constants DEF v, Lines
    <3>. QED
      BY <1>1, <3>1, <3>2, <3>3, Constants
  <2>6. d \in Rasters
    <3>1. 0 \in Dots /\ 0 \in 0..GB_HEIGHT
      BY Constants DEF Dots
    <3>2. {MODE1_VBLANK, MODE2_OAM} \subseteq Modes
      BY DEF Modes
    <3>3. {"new", "partial"} \subseteq Pictures
      BY DEF Pictures
    <3>4. (a.just_enabled /\ NextLine(a.ly) # 0) \in BOOLEAN
      OBVIOUS
    <3>. QED
      BY <1>2, <2>3, <2>4, <3>1, <3>2, <3>3, <3>4, ZenonT(30) DEF Rasters
  <2>7. d.ly >= GB_HEIGHT => a.drawn = GB_HEIGHT
    BY <1>1, <1>2, <2>2, <2>5, Constants DEF NextLine, Lines
  <2>8. d.ly < GB_HEIGHT => d.drawn = d.ly
    BY <1>1, <1>2, <2>2, <2>5, Constants DEF NextLine, Lines
  <2>9. d.ly = 0 => s.front = "new"
    <3>1. d.ly = 0 => s.ly >= GB_HEIGHT
      BY <1>1, <1>2, <2>5, Constants DEF NextLine, Lines
    <3>. QED
      BY <3>1 DEF RasterInv
  <2>10. d.front # "partial" /\ (~d.just_enabled => d.front = "new")
    <3>1. CASE d.ly < GB_HEIGHT
      BY <2>5, <2>9, <3>1 DEF RasterInv
    <3>2. CASE d.ly >= GB_HEIGHT
      <4>1. d.front = "new"
        BY <1>1, <2>3, <2>5, <2>7, <3>2, Constants DEF Lines
      <4>. QED
        BY <4>1
    <3>. QED
      BY <2>3, <2>5, <1>1, <3>1, <3>2, Constants DEF Lines
  <2>11. Moves(s, d)
    BY <1>1, <1>4, <2>5 DEF Moves
  <2>. QED
    BY <2>5, <2>6, <2>7, <2>8, <2>10, <2>11, Constants DEF RasterInv, Rasters, Lines
<1>5. CASE a.counter # T_CYCLES_PER_SCANLINE /\ s.mode = MODE2_OAM
  <2>1. CASE a.counter = MODE2_OAM_T_CYCLES
    <3>1. d = [a EXCEPT !.mode = MODE3_DRAW, !.complete = FALSE]
      BY <1>1, <1>3, <1>5, <2>1 DEF WithinLine
    <3>2. /\ d.mode = MODE3_DRAW /\ ~d.complete /\ d.counter = a.counter /\ d.ly = a.ly
          /\ d.just_enabled = a.just_enabled /\ d.front = a.front /\ d.drawn = a.drawn
      BY <1>2, <3>1
    <3>3. d \in Rasters
      <4>1. a.counter \in Dots /\ MODE3_DRAW \in Modes
        BY <1>2, <2>1, Constants DEF Dots, Modes
      <4>2. a \in Rasters
        BY <1>2, <4>1 DEF Rasters
      <4>. QED
        BY <3>1, <4>1, <4>2, Zenon DEF Rasters
    <3>. QED
      BY <1>1, <1>5, <2>1, <3>2, <3>3, Constants DEF RasterInv, Moves
  <2>2. CASE a.counter # MODE2_OAM_T_CYCLES
    <3>1. d = a
      BY <1>1, <1>3, <1>5, <2>2 DEF WithinLine
    <3>2. d \in Rasters
      BY <1>1, <1>2, <3>1, <1>5, Constants DEF Rasters, RasterInv, Dots
    <3>. QED
      BY <1>1, <1>5, <2>2, <3>1, <3>2, Constants DEF RasterInv, Moves, Rasters, Dots
  <2>. QED
    BY <2>1, <2>2
<1>6. CASE a.counter # T_CYCLES_PER_SCANLINE /\ s.mode = MODE3_DRAW
  <2>1. CASE a.counter = end
    <3>1. d = [a EXCEPT !.mode = MODE0_HBLANK]
      BY <1>1, <1>3, <1>6, <2>1 DEF WithinLine
    <3>2. /\ d.mode = MODE0_HBLANK /\ d.counter = a.counter /\ d.ly = a.ly
          /\ d.just_enabled = a.just_enabled /\ d.front = a.front /\ d.drawn = a.drawn
      BY <1>2, <3>1
    <3>3. d \in Rasters
      BY <1>1, <1>2, <3>1, <1>6, <2>1, Constants DEF Rasters, RasterInv, Modes, Dots
    <3>. QED
      BY <1>1, <1>6, <2>1, <3>2, <3>3, Constants DEF RasterInv, Moves, Rasters, Lines
  <2>2. CASE a.counter # end
    <3>1. ~a.complete
      BY <1>1, <1>6, <2>2 DEF RasterInv
    <3>2. d = a
      BY <1>1, <1>3, <1>6, <3>1 DEF WithinLine
    <3>3. d \in Rasters
      BY <1>1, <1>2, <3>2, <1>6, Constants DEF Rasters, RasterInv, Dots
    <3>. QED
      BY <1>1, <1>6, <2>2, <3>1, <3>2, <3>3, Constants DEF RasterInv, Moves, Rasters, Dots
  <2>. QED
    BY <2>1, <2>2
<1>7. CASE a.counter # T_CYCLES_PER_SCANLINE /\ s.mode \in {MODE0_HBLANK, MODE1_VBLANK}
  <2>1. d = a
    BY <1>1, <1>3, <1>7 DEF WithinLine
  <2>2. d \in Rasters
    BY <1>1, <1>2, <2>1, <1>7, Constants DEF Rasters, RasterInv, Dots
  <2>. QED
    BY <1>1, <1>7, <2>1, <2>2, Constants DEF RasterInv, Moves, Rasters, Dots
<1>. QED
  BY <1>4, <1>5, <1>6, <1>7 DEF RasterInv, Rasters, Modes
\* The four dots of an M-cycle: the end of a line is never in the middle of one.
LEMMA MCycleKeeps ==
    ASSUME NEW s, NEW end \in DrawEnds, RasterInv(s, end), s.counter % 4 = 0,
           NEW r \in Dots4(s, end)
    PROVE  /\ RasterInv(r, end) /\ r.counter % 4 = 0
           /\ IF s.counter + 4 = T_CYCLES_PER_SCANLINE
              THEN r.counter = 0 /\ r.ly = NextLine(s.ly)
              ELSE r.counter = s.counter + 4 /\ r.ly = s.ly
<1>. DEFINE d1 == Dot(s, end)
            d2 == Dot(d1, end)
            d3 == Dot(d2, end)
            d4 == Dot(d3, end)
<1>1. r = d4
  BY DEF Dots4, EachDot
<1>2. RasterInv(d1, end) /\ Moves(s, d1)
  BY DotKeeps
<1>. HIDE DEF d1
<1>3. RasterInv(d2, end) /\ Moves(d1, d2)
  BY <1>2, DotKeeps
<1>. HIDE DEF d2
<1>4. RasterInv(d3, end) /\ Moves(d2, d3)
  BY <1>3, DotKeeps
<1>. HIDE DEF d3
<1>5. RasterInv(d4, end) /\ Moves(d3, d4)
  BY <1>4, DotKeeps
<1>. HIDE DEF d4
<1>6. s.counter \in Nat /\ s.counter + 4 <= T_CYCLES_PER_SCANLINE
  BY Constants DEF RasterInv, Rasters, Dots
<1>7. d3.counter = s.counter + 3 /\ d3.ly = s.ly
  BY <1>2, <1>3, <1>4, <1>6, Constants DEF Moves
<1>8. IF s.counter + 4 = T_CYCLES_PER_SCANLINE
      THEN d4.counter = 0 /\ d4.ly = NextLine(s.ly)
      ELSE d4.counter = s.counter + 4 /\ d4.ly = s.ly
  BY <1>5, <1>6, <1>7, Constants DEF Moves
<1>9. d4.counter % 4 = 0
  BY <1>6, <1>8
<1>. QED
  BY <1>1, <1>5, <1>8, <1>9

---------------------------------------------------------------------------
\* The state and the record of the raster.
LEMMA RasterOfState ==
    ASSUME PpuInv, lcd_enable, NEW end, end = draw_end \/ mode = MODE2_OAM
    PROVE  RasterInv(Raster, end) /\ Raster.counter % 4 = 0
<1>1. Raster \in Rasters
  BY DEF PpuInv, TypeOK, Raster, Rasters
<1>2. /\ Raster.mode = mode /\ Raster.counter = scanline_counter /\ Raster.ly = ly_reg
      /\ Raster.complete = mode3_draw_complete /\ Raster.just_enabled = just_enabled
      /\ Raster.drawn = drawn /\ Raster.front = front
  BY DEF Raster
<1>3. scanline_counter \in Nat
  BY DEF PpuInv, TypeOK, Dots
<1>4. /\ mode # LCD_DISABLED
      /\ mode = MODE1_VBLANK <=> ly_reg >= GB_HEIGHT
      /\ mode = MODE2_OAM => scanline_counter < MODE2_OAM_T_CYCLES /\ drawn = ly_reg
      /\ mode = MODE0_HBLANK => scanline_counter >= end /\ drawn = ly_reg + 1
      /\ mode = MODE1_VBLANK => drawn = GB_HEIGHT /\ front = "new"
      /\ front # "partial"
      /\ scanline_counter % 4 = 0
  BY DEF PpuInv, ModeFitsDot, ModeFitsLine, WholeFrames, MODE0_HBLANK, MODE2_OAM, T_M_RATIO
<1>5. ~just_enabled => front = "new"
  BY DEF PpuInv, NoOldPicture
<1>6. mode = MODE3_DRAW =>
         /\ scanline_counter >= MODE2_OAM_T_CYCLES /\ scanline_counter < end
         /\ drawn = ly_reg /\ ~mode3_draw_complete
  BY <1>3, PpuAssumption DEF PpuInv, TypeOK, ModeFitsDot, MODE3_DRAW, MODE2_OAM
<1>. HIDE DEF Raster
<1>. QED
  BY <1>1, <1>2, <1>4, <1>5, <1>6 DEF RasterInv

\* The variables after a tick, from the record of the raster.
LEMMA StateOfRaster ==
    ASSUME NEW r, NEW end \in DrawEnds, RasterInv(r, end), r.counter % 4 = 0,
           draw_end' = end, lcd_enable',
           mode' = r.mode, scanline_counter' = r.counter, ly_reg' = r.ly,
           mode3_draw_complete' = r.complete, just_enabled' = r.just_enabled,
           drawn' = r.drawn, front' = r.front
    PROVE  WholeFrames' /\ NoOldPicture' /\ ModeFitsLine' /\ ModeFitsDot'
<1>1. r.counter \in Nat /\ end \in Nat
  BY Constants DEF RasterInv, Rasters, Dots
<1>2. WholeFrames' /\ NoOldPicture' /\ ModeFitsLine'
  BY DEF RasterInv, WholeFrames, NoOldPicture, ModeFitsLine
<1>3. ModeFitsDot'
  BY <1>1, Constants DEF RasterInv, ModeFitsDot, T_M_RATIO
<1>. QED
  BY <1>2, <1>3

\* The first state.
LEMMA PpuInit == Init => PpuInv
<1>. SUFFICES ASSUME Init PROVE PpuInv
  OBVIOUS
<1>. USE DEF MODE0_HBLANK, MODE1_VBLANK, MODE2_OAM, MODE3_DRAW, LCD_DISABLED
<1>1. if_reg \subseteq Bits /\ ie_reg \subseteq Bits
  BY DEF Init, int_init, Bits
<1>2. lcd_enable = TRUE /\ mode3_draw_complete = FALSE /\ just_enabled = FALSE /\ stat_reg = {}
  BY DEF Init, ppu_init
<1>3. lcd_enable \in BOOLEAN /\ mode3_draw_complete \in BOOLEAN /\ just_enabled \in BOOLEAN
  BY <1>2, Zenon
<1>4. /\ turn = "cpu" /\ mode = MODE2_OAM /\ ly_reg = 0 /\ lyc_reg = 0 /\ scanline_counter = 0
      /\ prev_stat_int_signal = 0 /\ prev_vblank_int_signal = 0
      /\ draw_end \in DrawEnds /\ drawn = 0 /\ front = "new"
  BY DEF Init, ppu_init
<1>5. TypeOK
  BY <1>1, <1>2, <1>3, <1>4, Constants DEF TypeOK, Modes, Dots, Lines, Pictures
<1>6. ModeFitsDot
  BY <1>2, <1>4, Constants DEF ModeFitsDot, T_M_RATIO
<1>7. WholeFrames /\ NoOldPicture /\ ModeFitsLine /\ LatchFits
  BY <1>4, Constants DEF WholeFrames, NoOldPicture, ModeFitsLine, LatchFits
<1>. QED
  BY <1>5, <1>6, <1>7 DEF PpuInv

\* What ppu_tick does to the raster, and to the two lines of interrupts.
LEMMA TickOfRaster ==
    ASSUME PpuInv, ppu_tick
    PROVE  /\ draw_end' \in DrawEnds /\ lcd_enable /\ lcd_enable'
           /\ \E r \in Dots4(Raster, draw_end') :
                 /\ RasterInv(r, draw_end') /\ r.counter % 4 = 0
                 /\ mode' = r.mode /\ scanline_counter' = r.counter /\ ly_reg' = r.ly
                 /\ mode3_draw_complete' = r.complete /\ just_enabled' = r.just_enabled
                 /\ drawn' = r.drawn /\ front' = r.front
           /\ RaiseInterrupts(mode', ly_reg')
           /\ IF scanline_counter + 4 = T_CYCLES_PER_SCANLINE
              THEN scanline_counter' = 0 /\ ly_reg' = NextLine(ly_reg)
              ELSE scanline_counter' = scanline_counter + 4 /\ ly_reg' = ly_reg
<1>1. draw_end' \in DrawEnds /\ (draw_end' = draw_end \/ mode = MODE2_OAM)
  BY DEF ppu_tick, PpuInv, TypeOK
<1>2. lcd_enable
  BY DEF ppu_tick, PpuInv, ModeFitsDot
<1>3. lcd_enable'
  BY <1>2 DEF ppu_tick
<1>4. PICK r \in Dots4(Raster, draw_end') :
         /\ mode' = r.mode /\ scanline_counter' = r.counter /\ ly_reg' = r.ly
         /\ mode3_draw_complete' = r.complete /\ just_enabled' = r.just_enabled
         /\ drawn' = r.drawn /\ front' = r.front
         /\ RaiseInterrupts(r.mode, r.ly)
  BY DEF ppu_tick
<1>5. RasterInv(Raster, draw_end') /\ Raster.counter % 4 = 0
  BY <1>1, <1>2, RasterOfState
<1>6. /\ RasterInv(r, draw_end') /\ r.counter % 4 = 0
      /\ IF Raster.counter + 4 = T_CYCLES_PER_SCANLINE
         THEN r.counter = 0 /\ r.ly = NextLine(Raster.ly)
         ELSE r.counter = Raster.counter + 4 /\ r.ly = Raster.ly
  BY <1>1, <1>5, MCycleKeeps
<1>7. Raster.counter = scanline_counter /\ Raster.ly = ly_reg
  BY DEF Raster
<1>. HIDE DEF Raster
<1>. QED
  BY <1>1, <1>2, <1>3, <1>4, <1>6, <1>7

\* Types of what RaiseInterrupts leaves.
LEMMA RaisedType ==
    ASSUME NEW md, NEW ly, RaiseInterrupts(md, ly), if_reg \subseteq Bits
    PROVE  /\ if_reg' \subseteq Bits
           /\ prev_stat_int_signal' \in {0, 1} /\ prev_vblank_int_signal' \in {0, 1}
           /\ prev_vblank_int_signal' = 1 <=> md = MODE1_VBLANK
<1>1. {INT_STAT, INT_VBLANK} \subseteq Bits
  BY DEF INT_STAT, INT_VBLANK, Bits
<1>2. if_reg' \subseteq Bits
  BY <1>1 DEF RaiseInterrupts
<1>. QED
  BY <1>2 DEF RaiseInterrupts, StatSignal, VblankSignal

\* Every step keeps the invariant.
LEMMA PpuStep == PpuInv /\ [Next]_vars => PpuInv'
<1>. SUFFICES ASSUME PpuInv, [Next]_vars PROVE PpuInv'
  OBVIOUS
<1>t. TypeOK
  BY DEF PpuInv
<1>1. CASE ppu_tick
  <2>1. PICK r \in Dots4(Raster, draw_end') :
           /\ RasterInv(r, draw_end') /\ r.counter % 4 = 0
           /\ mode' = r.mode /\ scanline_counter' = r.counter /\ ly_reg' = r.ly
           /\ mode3_draw_complete' = r.complete /\ just_enabled' = r.just_enabled
           /\ drawn' = r.drawn /\ front' = r.front
    BY <1>1, TickOfRaster
  <2>2. draw_end' \in DrawEnds /\ lcd_enable' /\ RaiseInterrupts(mode', ly_reg')
    BY <1>1, TickOfRaster
  <2>3. WholeFrames' /\ NoOldPicture' /\ ModeFitsLine' /\ ModeFitsDot'
    BY <2>1, <2>2, StateOfRaster
  <2>4. /\ if_reg' \subseteq Bits
        /\ prev_stat_int_signal' \in {0, 1} /\ prev_vblank_int_signal' \in {0, 1}
        /\ prev_vblank_int_signal' = 1 <=> mode' = MODE1_VBLANK
    BY <1>t, <2>2, RaisedType DEF TypeOK
  <2>5. turn' = "cpu" /\ UNCHANGED <<ie_reg, lcd_enable, stat_reg, lyc_reg>>
    BY <1>1 DEF ppu_tick
  <2>6. /\ mode' \in Modes /\ scanline_counter' \in Dots /\ ly_reg' \in Lines
        /\ mode3_draw_complete' \in BOOLEAN /\ just_enabled' \in BOOLEAN
        /\ drawn' \in 0..GB_HEIGHT /\ front' \in Pictures
    BY <2>1 DEF RasterInv, Rasters
  <2>7. TypeOK'
    BY <1>t, <2>2, <2>4, <2>5, <2>6 DEF TypeOK
  <2>8. LatchFits'
    BY <2>4 DEF LatchFits
  <2>. QED
    BY <2>3, <2>7, <2>8 DEF PpuInv
<1>2. CASE ppu_tick_disabled
  BY <1>2 DEF ppu_tick_disabled, raster, signals, PpuInv, TypeOK, WholeFrames, NoOldPicture,
              ModeFitsLine, ModeFitsDot, LatchFits
<1>3. CASE LcdOff
  <2>1. lcd_enable' \in BOOLEAN /\ ~lcd_enable'
    BY <1>3, Zenon DEF LcdOff
  <2>2. mode' = LCD_DISABLED /\ turn' = "ppu"
    BY <1>3 DEF LcdOff, CpuTurn
  <2>3. UNCHANGED <<if_reg, ie_reg, stat_reg, lyc_reg, scanline_counter, ly_reg,
                    mode3_draw_complete, just_enabled, drawn, front, signals, draw_end>>
    BY <1>3 DEF LcdOff
  <2>4. TypeOK'
    BY <1>t, <2>1, <2>2, <2>3 DEF TypeOK, Modes, signals
  <2>5. ModeFitsDot'
    BY <2>1, <2>2, <2>3 DEF PpuInv, ModeFitsDot, LCD_DISABLED, MODE0_HBLANK, MODE1_VBLANK,
                            MODE2_OAM, MODE3_DRAW
  <2>6. WholeFrames' /\ NoOldPicture' /\ ModeFitsLine' /\ LatchFits'
    BY <2>1, <2>3 DEF PpuInv, WholeFrames, NoOldPicture, ModeFitsLine, LatchFits
  <2>. QED
    BY <2>4, <2>5, <2>6 DEF PpuInv
<1>4. CASE LcdOn
  <2>1. lcd_enable' \in BOOLEAN /\ lcd_enable' /\ just_enabled' \in BOOLEAN /\ just_enabled'
    BY <1>4, Zenon DEF LcdOn
  <2>2. /\ mode' = MODE2_OAM /\ turn' = "ppu" /\ scanline_counter' = 0 /\ ly_reg' = 0
        /\ drawn' = 0 /\ front' = IF front = "new" THEN "old" ELSE front
    BY <1>4 DEF LcdOn, CpuTurn
  <2>3. UNCHANGED <<if_reg, ie_reg, stat_reg, lyc_reg, mode3_draw_complete, signals, draw_end>>
    BY <1>4 DEF LcdOn
  <2>4. TypeOK'
    <3>1. mode' \in Modes /\ turn' \in {"cpu", "ppu"} /\ front' \in Pictures
      BY <1>t, <2>2 DEF TypeOK, Modes, Pictures
    <3>2. scanline_counter' \in Dots /\ ly_reg' \in Lines /\ drawn' \in 0..GB_HEIGHT
      BY <2>2, Constants DEF Dots, Lines
    <3>. QED
      BY <1>t, <2>1, <2>3, <3>1, <3>2 DEF TypeOK, signals
  <2>5. ModeFitsDot' /\ ModeFitsLine'
    BY <2>1, <2>2, Constants DEF ModeFitsDot, ModeFitsLine, T_M_RATIO, LCD_DISABLED,
                                 MODE0_HBLANK, MODE1_VBLANK, MODE2_OAM, MODE3_DRAW
  <2>6. WholeFrames' /\ NoOldPicture' /\ LatchFits'
    BY <2>1, <2>2 DEF PpuInv, WholeFrames, NoOldPicture, LatchFits, MODE1_VBLANK, MODE2_OAM
  <2>. QED
    BY <2>4, <2>5, <2>6 DEF PpuInv
<1>5. ASSUME NEW val \in SUBSET Selections, ppu_stat_write(val)
      PROVE  PpuInv'
  BY <1>5 DEF ppu_stat_write, CpuTurn, raster, signals, PpuInv, TypeOK, WholeFrames,
              NoOldPicture, ModeFitsLine, ModeFitsDot, LatchFits
<1>6. ASSUME NEW val \in LycValues, ppu_lyc_write(val)
      PROVE  PpuInv'
  BY <1>6 DEF ppu_lyc_write, CpuTurn, raster, signals, PpuInv, TypeOK, WholeFrames,
              NoOldPicture, ModeFitsLine, ModeFitsDot, LatchFits
<1>7. CASE OtherCpuStep
  BY <1>7 DEF OtherCpuStep, CpuTurn, raster, signals, PpuInv, TypeOK, WholeFrames,
              NoOldPicture, ModeFitsLine, ModeFitsDot, LatchFits
<1>8. CASE UNCHANGED vars
  BY <1>8 DEF vars, raster, signals, PpuInv, TypeOK, WholeFrames, NoOldPicture, ModeFitsLine,
              ModeFitsDot, LatchFits
<1>. QED
  BY <1>1, <1>2, <1>3, <1>4, <1>5, <1>6, <1>7, <1>8 DEF Next, CpuStep

\* ppu.c in the time of the LCD, however often it is turned off and on: ranges, mode, line, dot
\* and latch agree, mode 3 ends in its line, and the picture is whole and not outdated.
THEOREM PpuInvariant == Spec => []PpuInv
<1>. QED
  BY PpuInit, PpuStep, PTL DEF Spec

\* commit_frame never hands over a frame of which a line was not drawn.
THEOREM FramesAreWhole == Spec => []WholeFrames
<1>1. PpuInv => WholeFrames
  BY DEF PpuInv
<1>. QED
  BY <1>1, PpuInvariant, PTL

---------------------------------------------------------------------------
\* The position in the frame.

Visible == GB_HEIGHT * T_CYCLES_PER_SCANLINE
Total == SCANLINES_PER_FRAME * T_CYCLES_PER_SCANLINE
Position(ly, counter) == ly * T_CYCLES_PER_SCANLINE + counter

\* Lines that follow one another do not overlap.
LEMMA LineEnds ==
    ASSUME NEW ly \in Nat, NEW n \in Nat
    PROVE  /\ ly * T_CYCLES_PER_SCANLINE \in Nat
           /\ (ly + 1) * T_CYCLES_PER_SCANLINE
                 = ly * T_CYCLES_PER_SCANLINE + T_CYCLES_PER_SCANLINE
           /\ ly < n => ly * T_CYCLES_PER_SCANLINE + T_CYCLES_PER_SCANLINE
                           <= n * T_CYCLES_PER_SCANLINE
BY Constants

\* The position is above the first line below the picture exactly if the line is.
LEMMA PositionInPicture ==
    ASSUME NEW ly \in Lines, NEW c \in Dots
    PROVE  /\ Position(ly, c) \in 0..(Total - 1)
           /\ Position(ly, c) < Visible <=> ly < GB_HEIGHT
<1>1. ly \in Nat /\ c \in Nat /\ c < T_CYCLES_PER_SCANLINE /\ ly < SCANLINES_PER_FRAME
  BY Constants DEF Lines, Dots
<1>2. /\ ly * T_CYCLES_PER_SCANLINE \in Nat
      /\ ly * T_CYCLES_PER_SCANLINE + T_CYCLES_PER_SCANLINE <= Total
  BY <1>1, LineEnds, Constants DEF Total
<1>3. CASE ly < GB_HEIGHT
  <2>1. ly * T_CYCLES_PER_SCANLINE + T_CYCLES_PER_SCANLINE <= Visible
    BY <1>1, <1>3, LineEnds, Constants DEF Visible
  <2>2. Visible \in Nat /\ Total \in Nat
    BY LineEnds, Constants DEF Visible, Total
  <2>. QED
    BY <1>1, <1>2, <1>3, <2>1, <2>2, Constants DEF Position
<1>4. CASE ~(ly < GB_HEIGHT)
  <2>1. CASE ly = GB_HEIGHT
    BY <1>1, <1>2, <1>4, <2>1, Constants DEF Position, Visible, Total
  <2>2. CASE GB_HEIGHT < ly
    <3>1. Visible + T_CYCLES_PER_SCANLINE <= ly * T_CYCLES_PER_SCANLINE
      BY <1>1, <2>2, LineEnds, Constants DEF Visible
    <3>2. Visible \in Nat /\ Total \in Nat
      BY LineEnds, Constants DEF Visible, Total
    <3>. QED
      BY <1>1, <1>2, <1>4, <3>1, <3>2, Constants DEF Position
  <2>. QED
    BY <1>1, <1>4, <2>1, <2>2, Constants
<1>. QED
  BY <1>3, <1>4

\* An M-cycle moves the position by its dots, and from the last one back to the first.
LEMMA PositionMoves ==
    ASSUME NEW ly \in Lines, NEW c \in Dots, c % 4 = 0, NEW ly2, NEW c2,
           IF c + 4 = T_CYCLES_PER_SCANLINE
           THEN c2 = 0 /\ ly2 = NextLine(ly)
           ELSE c2 = c + 4 /\ ly2 = ly
    PROVE  Position(ly2, c2) = (Position(ly, c) + 4) % Total
<1>1. /\ ly \in Nat /\ c \in Nat /\ c + 4 <= T_CYCLES_PER_SCANLINE
      /\ ly + 1 <= SCANLINES_PER_FRAME
  BY Constants DEF Lines, Dots
<1>2. /\ ly * T_CYCLES_PER_SCANLINE \in Nat
      /\ ly * T_CYCLES_PER_SCANLINE + T_CYCLES_PER_SCANLINE <= Total
      /\ Total \in Nat
  BY <1>1, LineEnds, Constants DEF Total
<1>3. CASE c + 4 # T_CYCLES_PER_SCANLINE
  <2>1. Position(ly, c) + 4 \in 0..(Total - 1)
    BY <1>1, <1>2, <1>3, Constants DEF Position
  <2>2. Position(ly2, c2) = Position(ly, c) + 4
    BY <1>1, <1>2, <1>3 DEF Position
  <2>. HIDE DEF Position, Total
  <2>. QED
    BY <1>2, <2>1, <2>2
<1>4. CASE c + 4 = T_CYCLES_PER_SCANLINE /\ ly + 1 # SCANLINES_PER_FRAME
  <2>1. Position(ly2, c2) = Position(ly, c) + 4
    BY <1>1, <1>2, <1>4, LineEnds, Constants DEF Position, NextLine
  <2>2. ly2 \in Lines /\ c2 \in Dots
    BY <1>1, <1>4, Constants DEF NextLine, Lines, Dots
  <2>3. Position(ly2, c2) \in 0..(Total - 1)
    BY <2>2, PositionInPicture
  <2>. HIDE DEF Position, Total
  <2>. QED
    BY <1>2, <2>1, <2>3
<1>5. CASE c + 4 = T_CYCLES_PER_SCANLINE /\ ly + 1 = SCANLINES_PER_FRAME
  <2>1. Position(ly, c) + 4 = Total
    BY <1>1, <1>2, <1>5, LineEnds, Constants DEF Position, Total
  <2>2. Position(ly2, c2) = 0
    BY <1>5, Constants DEF Position, NextLine
  <2>3. Total # 0
    BY <1>1, <1>2, <1>5, Constants
  <2>. HIDE DEF Position, Total
  <2>. QED
    BY <1>2, <2>1, <2>2, <2>3
<1>. QED
  BY <1>3, <1>4, <1>5

\* The first state is one of RasterSpec.
LEMMA RefinesInit == Init => Promise!Init
<1>. SUFFICES ASSUME Init PROVE Promise!Init
  OBVIOUS
<1>1. ly_reg * T_CYCLES_PER_SCANLINE + scanline_counter = 0
  BY Constants DEF Init, ppu_init
<1>2. INT_VBLANK \in if_reg
  BY DEF Init, int_init, INT_VBLANK
<1>. QED
  BY <1>1, <1>2 DEF Init, ppu_init, Promise!Init

\* The latch that an LCD turned on again has kept makes no request and loses none.
LEMMA TickAdvances == PpuInv /\ ppu_tick => Promise!Advance
<1>. SUFFICES ASSUME PpuInv, ppu_tick PROVE Promise!Advance
  OBVIOUS
<1>. DEFINE pos == Position(ly_reg, scanline_counter)
<1>1. /\ ly_reg \in Lines /\ scanline_counter \in Dots /\ scanline_counter % 4 = 0
      /\ prev_vblank_int_signal \in {0, 1} /\ mode \in Modes
  BY DEF PpuInv, TypeOK, ModeFitsDot, T_M_RATIO
<1>2. /\ lcd_enable /\ lcd_enable' /\ RaiseInterrupts(mode', ly_reg')
      /\ IF scanline_counter + 4 = T_CYCLES_PER_SCANLINE
         THEN scanline_counter' = 0 /\ ly_reg' = NextLine(ly_reg)
         ELSE scanline_counter' = scanline_counter + 4 /\ ly_reg' = ly_reg
  BY TickOfRaster
<1>3. Position(ly_reg', scanline_counter') = (pos + 4) % Total
  BY <1>1, <1>2, PositionMoves
<1>4. /\ mode = MODE1_VBLANK <=> ly_reg >= GB_HEIGHT
      /\ mode' = MODE1_VBLANK <=> ly_reg' >= GB_HEIGHT
  <2>1. PpuInv'
    BY PpuStep DEF Next
  <2>. QED
    BY <1>2, <2>1 DEF PpuInv, ModeFitsLine
<1>5. pos < Visible <=> ly_reg < GB_HEIGHT
  BY <1>1, PositionInPicture
<1>6. pos < Visible /\ pos + 4 >= Visible <=>
         ly_reg + 1 = GB_HEIGHT /\ scanline_counter + 4 = T_CYCLES_PER_SCANLINE
  <2>1. /\ ly_reg \in Nat /\ scanline_counter \in Nat
        /\ scanline_counter + 4 <= T_CYCLES_PER_SCANLINE
    BY <1>1, Constants DEF Lines, Dots
  <2>2. /\ ly_reg * T_CYCLES_PER_SCANLINE \in Nat /\ Visible \in Nat
        /\ ly_reg < GB_HEIGHT =>
              ly_reg * T_CYCLES_PER_SCANLINE + T_CYCLES_PER_SCANLINE <= Visible
    BY <2>1, LineEnds, Constants DEF Visible
  <2>3. ly_reg + 1 < GB_HEIGHT =>
           (ly_reg + 1) * T_CYCLES_PER_SCANLINE + T_CYCLES_PER_SCANLINE <= Visible
    BY <2>1, LineEnds, Constants DEF Visible
  <2>4. (ly_reg + 1) * T_CYCLES_PER_SCANLINE
           = ly_reg * T_CYCLES_PER_SCANLINE + T_CYCLES_PER_SCANLINE
    BY <2>1, LineEnds
  <2>5. ly_reg + 1 = GB_HEIGHT =>
           ly_reg * T_CYCLES_PER_SCANLINE + T_CYCLES_PER_SCANLINE = Visible
    BY <2>4 DEF Visible
  <2>6. pos = ly_reg * T_CYCLES_PER_SCANLINE + scanline_counter
    BY DEF Position
  <2>. HIDE DEF pos, Visible
  <2>. QED
    BY <1>5, <2>1, <2>2, <2>3, <2>4, <2>5, <2>6, Constants
<1>7. prev_vblank_int_signal = 0 /\ mode' = MODE1_VBLANK <=>
         ly_reg + 1 = GB_HEIGHT /\ scanline_counter + 4 = T_CYCLES_PER_SCANLINE
  <2>1. /\ mode = MODE1_VBLANK => prev_vblank_int_signal = 1
        /\ prev_vblank_int_signal = 1 =>
              mode = MODE1_VBLANK \/ (ly_reg = 0 /\ scanline_counter = 0)
    BY <1>2 DEF PpuInv, LatchFits
  <2>2. ly_reg \in Nat /\ scanline_counter \in Nat
    BY <1>1 DEF Lines, Dots
  <2>3. ~(scanline_counter = 0 /\ scanline_counter + 4 = T_CYCLES_PER_SCANLINE)
    BY Constants
  <2>4. CASE scanline_counter + 4 # T_CYCLES_PER_SCANLINE
    BY <1>1, <1>2, <1>4, <2>1, <2>4
  <2>5. CASE scanline_counter + 4 = T_CYCLES_PER_SCANLINE
    <3>1. ly_reg' = NextLine(ly_reg) /\ (prev_vblank_int_signal = 1 <=> mode = MODE1_VBLANK)
      BY <1>2, <2>1, <2>3, <2>5
    <3>2. ly_reg' >= GB_HEIGHT /\ ly_reg < GB_HEIGHT <=> ly_reg + 1 = GB_HEIGHT
      BY <1>1, <2>2, <3>1, Constants DEF NextLine, Lines
    <3>. QED
      BY <1>1, <1>4, <2>2, <2>5, <3>1, <3>2, Constants
  <2>. QED
    BY <2>4, <2>5
<1>8. INT_VBLANK \in if_reg' <=>
         INT_VBLANK \in if_reg \/ (pos < Visible /\ pos + 4 >= Visible)
  <2>1. INT_VBLANK \in if_reg' <=>
           INT_VBLANK \in if_reg \/ (prev_vblank_int_signal = 0 /\ mode' = MODE1_VBLANK)
    BY <1>2 DEF RaiseInterrupts, Rises, VblankSignal, INT_VBLANK, INT_STAT
  <2>. HIDE DEF pos
  <2>. QED
    BY <1>6, <1>7, <2>1
<1>. QED
  BY <1>2, <1>3, <1>8 DEF Promise!Advance, Position, Visible, Total, T_M_RATIO

\* Every step is one of RasterSpec, or leaves its variables.
LEMMA RefinesStep == PpuInv /\ [Next]_vars => [Promise!Next]_Promise!rastervars
<1>. SUFFICES ASSUME PpuInv, [Next]_vars PROVE Promise!Next \/ UNCHANGED Promise!rastervars
  BY DEF Promise!rastervars
<1>1. CASE ppu_tick
  BY <1>1, TickAdvances DEF Promise!Next
<1>2. CASE ppu_tick_disabled
  BY <1>2 DEF ppu_tick_disabled, raster, Promise!rastervars
<1>3. CASE LcdOff
  BY <1>3 DEF LcdOff, Promise!Next, Promise!SwitchOff
<1>4. CASE LcdOn
  <2>1. ly_reg' * T_CYCLES_PER_SCANLINE + scanline_counter' = 0
    BY <1>4, Constants DEF LcdOn
  <2>. QED
    BY <1>4, <2>1 DEF LcdOn, Promise!Next, Promise!SwitchOn
<1>5. CASE OtherCpuStep
  <2>1. UNCHANGED <<lcd_enable, raster>> /\ if_reg' \subseteq if_reg
    BY <1>5 DEF OtherCpuStep
  <2>2. CASE INT_VBLANK \in if_reg'
    BY <2>1, <2>2 DEF raster, Promise!rastervars
  <2>3. CASE INT_VBLANK \notin if_reg'
    BY <2>1, <2>3 DEF raster, Promise!Next, Promise!Acknowledge
  <2>. QED
    BY <2>2, <2>3
<1>6. CASE \/ \E val \in SUBSET Selections : ppu_stat_write(val)
           \/ \E val \in LycValues : ppu_lyc_write(val)
  BY <1>6 DEF ppu_stat_write, ppu_lyc_write, raster, Promise!rastervars
<1>7. CASE UNCHANGED vars
  BY <1>7 DEF vars, raster, Promise!rastervars
<1>. QED
  BY <1>1, <1>2, <1>3, <1>4, <1>5, <1>6, <1>7 DEF Next, CpuStep

\* The mode, the line, the dots and the latch of ppu.c implement RasterSpec: an M-cycle with the
\* LCD on is one step of the position, and the VBlank interrupt is requested in exactly the
\* M-cycle in which it leaves the picture, once a frame.
THEOREM PpuRefines == Spec => ImplementsPromise
<1>. QED
  BY RefinesInit, RefinesStep, PpuInvariant, PTL DEF Spec, ImplementsPromise, Promise!Spec
=============================================================================
