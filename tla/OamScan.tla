----------------------------- MODULE OamScan -----------------------------
(***************************************************************************)
(* Mode 2 of the PPU (mode2_dot in ppu.c): which objects of OAM are shown in  *)
(* a line.  Between two M-cycles of the scan the program may turn the LCD off *)
(* and on or change the size of objects, and a DMA transfer may begin, write  *)
(* to OAM and end; while it runs bus_read_ppu returns 0xFF.                   *)
(*                                                                          *)
(* Of an object Y is kept, and of its X only whether it was read from OAM.    *)
(***************************************************************************)
EXTENDS Integers, Sequences, FiniteSets

CONSTANTS
    OBJECTS,      \* in OAM: two are scanned in an M-cycle
    MAX_OBJS,     \* slots of scanline_objs
    GB_HEIGHT,
    Ys            \* values that Y of an object has

VARIABLES
    oam,                   \* Y of each object
    dma_active,
    tall,                  \* bit 2 of LCDC
    mode,                  \* "off", "oam", "draw", or "blank" (HBlank, VBlank)
    ly_reg,
    scanline_objs,         \* the slots in use
    mode2_addr,            \* the number of the object there
    mode2_cycle,
    dots,                  \* of the scan
    quiet, covered         \* history: no transfer and no change of size since the scan
                           \* began; a transfer ran in all its M-cycles

scan == <<mode, ly_reg, scanline_objs, mode2_addr, mode2_cycle, dots>>
vars == <<oam, dma_active, tall, scan, quiet, covered>>

Objects == 0..(OBJECTS - 1)
T_M_RATIO == 4
MODE2_OAM_T_CYCLES == 2 * OBJECTS

ASSUME OamScanAssumption ==
    /\ OBJECTS \in Nat \ {0} /\ OBJECTS % 2 = 0
    /\ MAX_OBJS \in 1..OBJECTS
    /\ GB_HEIGHT \in 1..144
    /\ Ys \subseteq 0..255 /\ 0 \in Ys

\* set_mode(MODE2_OAM).
Begun == [objs |-> <<>>, mode2_addr |-> 0, mode2_cycle |-> "CHECK"]

Scan == [objs |-> scanline_objs, mode2_addr |-> mode2_addr, mode2_cycle |-> mode2_cycle]

OnScanline(y) == ly_reg >= y - 16 /\ ly_reg < y - 16 + (IF tall THEN 16 ELSE 8)

\* bus_read_ppu of Y of an object.
ReadY(i) == IF dma_active THEN 255 ELSE oam[i]

\* Mutant: an object that is not on the line is passed in the dot that looks at it.
mode2_dot_fast(s) ==
    IF Len(s.objs) = MAX_OBJS \/ s.mode2_addr = OBJECTS THEN s
    ELSE CASE s.mode2_cycle = "CHECK" ->
                IF OnScanline(ReadY(s.mode2_addr)) THEN [s EXCEPT !.mode2_cycle = "PUSH"]
                ELSE [s EXCEPT !.mode2_addr = @ + 1]
           [] s.mode2_cycle = "PUSH" ->
                [s EXCEPT !.objs = Append(@, [obj |-> s.mode2_addr, x_read |-> ~dma_active]),
                          !.mode2_addr = @ + 1, !.mode2_cycle = "CHECK"]

mode2_dot(s) ==
    IF Len(s.objs) = MAX_OBJS THEN s
    ELSE CASE s.mode2_cycle = "CHECK" ->
                [s EXCEPT !.mode2_cycle = IF OnScanline(ReadY(s.mode2_addr)) THEN "PUSH" ELSE "SKIP"]
           [] s.mode2_cycle = "PUSH" ->
                [s EXCEPT !.objs = Append(@, [obj |-> s.mode2_addr, x_read |-> ~dma_active]),
                          !.mode2_addr = @ + 1, !.mode2_cycle = "CHECK"]
           [] s.mode2_cycle = "SKIP" ->
                [s EXCEPT !.mode2_addr = @ + 1, !.mode2_cycle = "CHECK"]

\* The variables of scan that s stands for.
Becomes(s) ==
    /\ scanline_objs' = s.objs /\ mode2_addr' = s.mode2_addr /\ mode2_cycle' = s.mode2_cycle

---------------------------------------------------------------------------
\* After ppu_init, which begins a scan; OAM is zero as every static variable.
Init ==
    /\ oam = [i \in Objects |-> 0]
    /\ dma_active = FALSE /\ tall = FALSE
    /\ mode = "oam" /\ ly_reg = 0
    /\ scanline_objs = <<>> /\ mode2_addr = 0 /\ mode2_cycle = "CHECK"
    /\ dots = 0
    /\ quiet = TRUE /\ covered = TRUE

\* An M-cycle of the scan.
ScanCycle ==
    /\ mode = "oam"
    /\ Becomes(mode2_dot(mode2_dot(mode2_dot(mode2_dot(Scan)))))
    /\ dots' = dots + T_M_RATIO
    /\ mode' = IF dots' = MODE2_OAM_T_CYCLES THEN "draw" ELSE "oam"
    /\ quiet' = (quiet /\ ~dma_active)
    /\ covered' = (covered /\ dma_active)
    /\ UNCHANGED <<oam, dma_active, tall, ly_reg>>

\* mode3_dot has drawn the line; for scanline_objs its registers do not matter.
EndDraw ==
    /\ mode = "draw" /\ mode' = "blank"
    /\ UNCHANGED <<oam, dma_active, tall, ly_reg, scanline_objs, mode2_addr, mode2_cycle, dots,
                   quiet, covered>>

\* After HBlank, and in the end VBlank, the scan of another line.
BeginLine ==
    /\ mode = "blank"
    /\ mode' = "oam"
    /\ ly_reg' = (ly_reg + 1) % GB_HEIGHT
    /\ Becomes(Begun)
    /\ dots' = 0
    /\ quiet' = TRUE /\ covered' = TRUE
    /\ UNCHANGED <<oam, dma_active, tall>>

LcdOff ==
    /\ mode # "off" /\ mode' = "off"
    /\ UNCHANGED <<oam, dma_active, tall, ly_reg, scanline_objs, mode2_addr, mode2_cycle, dots,
                   quiet, covered>>

LcdOn ==
    /\ mode = "off" /\ mode' = "oam"
    /\ ly_reg' = 0
    /\ Becomes(Begun)
    /\ dots' = 0
    /\ quiet' = TRUE /\ covered' = TRUE
    /\ UNCHANGED <<oam, dma_active, tall>>

\* A write to LCDC that changes the size of the objects.
ChangeSize ==
    /\ tall' = ~tall
    /\ quiet' = FALSE
    /\ UNCHANGED <<oam, dma_active, scan, covered>>

\* A transfer begins or ends; while it runs it writes to OAM.
DmaSwitch ==
    /\ dma_active' = ~dma_active
    /\ UNCHANGED <<oam, tall, scan, quiet, covered>>

DmaWrite ==
    /\ dma_active
    /\ \E i \in Objects, y \in Ys : oam' = [oam EXCEPT ![i] = y]
    /\ quiet' = FALSE
    /\ UNCHANGED <<dma_active, tall, scan, covered>>

\* Mutant: OAM is locked in the scan only.
CpuWrite_inDraw ==
    /\ mode # "oam" /\ ~dma_active
    /\ \E i \in Objects, y \in Ys : oam' = [oam EXCEPT ![i] = y]
    /\ UNCHANGED <<dma_active, tall, scan, quiet, covered>>

\* The CPU writes to OAM: bus_write_cpu drops it in modes 2 and 3 and in a transfer.
CpuWrite ==
    /\ mode \notin {"oam", "draw"} /\ ~dma_active
    /\ \E i \in Objects, y \in Ys : oam' = [oam EXCEPT ![i] = y]
    /\ UNCHANGED <<dma_active, tall, scan, quiet, covered>>

Next ==
    \/ ScanCycle \/ EndDraw \/ BeginLine \/ LcdOff \/ LcdOn \/ ChangeSize
    \/ DmaSwitch \/ DmaWrite \/ CpuWrite

Spec == Init /\ [][Next]_vars

---------------------------------------------------------------------------
Slots == [obj : Objects, x_read : BOOLEAN]

TypeOK ==
    /\ oam \in [Objects -> Ys]
    /\ dma_active \in BOOLEAN /\ tall \in BOOLEAN
    /\ mode \in {"off", "oam", "draw", "blank"} /\ ly_reg \in 0..(GB_HEIGHT - 1)
    /\ scanline_objs \in Seq(Slots) /\ Len(scanline_objs) <= MAX_OBJS
    /\ mode2_addr \in 0..OBJECTS
    /\ mode2_cycle \in {"CHECK", "PUSH", "SKIP"}
    /\ dots \in 0..MODE2_OAM_T_CYCLES

\* Without a transfer the slots hold the first objects of OAM that the line meets, as many
\* as there are slots, in the order of OAM: the 80 dots are just enough to see them all.
\* They still do while the line is drawn, since the CPU cannot write to OAM until then.
Meets(i) == \E row \in 0..(IF tall THEN 15 ELSE 7) : oam[i] + row = ly_reg + 16
Earlier(i) == Cardinality({j \in Objects : j <= i /\ Meets(j)})

FirstOnLine ==
    mode = "draw" /\ quiet =>
        /\ Len(scanline_objs) = Cardinality({i \in Objects : Meets(i) /\ Earlier(i) <= MAX_OBJS})
        /\ \A i \in Objects : Meets(i) /\ Earlier(i) <= MAX_OBJS =>
              scanline_objs[Earlier(i)].obj = i

\* Whatever happens in the scan, no object takes two slots, also if the LCD is turned off
\* and on in it, and Y and X of an object are not read one before and one in a transfer.
NoObjectTwice ==
    \A k \in 2..Len(scanline_objs) : scanline_objs[k - 1].obj < scanline_objs[k].obj

BothRead == \A k \in 1..Len(scanline_objs) : scanline_objs[k].x_read

\* A transfer over all of the scan hides every object.
HiddenByDma == mode = "draw" /\ covered => scanline_objs = <<>>

\* An M-cycle of the scan looks at two objects, unless the slots are full; the objects in
\* the slots have been looked at.
ScanInStep ==
    /\ mode2_cycle = "CHECK" /\ dots % T_M_RATIO = 0
    /\ IF Len(scanline_objs) < MAX_OBJS THEN 2 * mode2_addr = dots ELSE 2 * mode2_addr <= dots
    /\ mode = "oam" => dots < MODE2_OAM_T_CYCLES
    /\ mode = "draw" => dots = MODE2_OAM_T_CYCLES
    /\ \A k \in 1..Len(scanline_objs) : scanline_objs[k].obj < mode2_addr

\* HiddenByDma and FirstOnLine in the course of the scan.
HiddenSoFar == mode = "oam" /\ covered => scanline_objs = <<>>

FirstSoFar ==
    mode \in {"oam", "draw"} /\ quiet =>
        /\ Len(scanline_objs) = Cardinality({i \in 0..(mode2_addr - 1) : Meets(i)})
        /\ \A k \in 1..Len(scanline_objs) :
              Meets(scanline_objs[k].obj) /\ Earlier(scanline_objs[k].obj) = k

\* In every state of a scan, however transfers, writes and the LCD come in between: the slots
\* are not overrun, none holds an object twice or half of one, and a transfer hides all.
OamScanInv ==
    /\ TypeOK /\ NoObjectTwice /\ BothRead /\ HiddenByDma
    /\ ScanInStep /\ HiddenSoFar /\ FirstSoFar
==========================================================================
