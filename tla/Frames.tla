------------------------------ MODULE Frames ------------------------------
(***************************************************************************)
(* The two threads of main.c from the start of the program to its end, and  *)
(* what they share: running, the picture in front_buffer, which frame_mux    *)
(* guards, and mode and just_enabled, which nothing guards.                  *)
(*                                                                          *)
(* The system thread runs the machine.  Of that, a tick has one step of the  *)
(* CPU (turning the LCD off or on, or a write to battery RAM) and one of the *)
(* PPU, for which a frame is two halves to draw and two lines of VBlank.     *)
(* Reads and writes of the unguarded variables happen in program order.       *)
(***************************************************************************)
EXTENDS Integers

CONSTANTS
    M_CYCLES_PER_FRAME   \* ticks between two looks of the system thread at running

VARIABLES
    main, sys,           \* where the two threads are
    running,
    frame_mux,           \* who holds it
    mode, just_enabled,  \* mode: only whether it is LCD_DISABLED
    ly,                  \* the part of the frame the PPU is in
    ticks,               \* left until the system thread looks at running
    picture,             \* the frame being drawn
    frame_buffer, front_buffer, window_tex,    \* their two halves
    source,              \* what ppu_get_frame_buffer returned
    cart,                \* the memory of the cartridge
    ram, sav,            \* battery RAM, and what the .sav file holds of it
    stale, stale_at_lock \* history: front_buffer is from before the LCD was off;
                         \* and when the window thread took frame_mux

memory == <<cart, ram, sav>>
screen == <<window_tex, source, stale_at_lock>>
lcd == <<mode, just_enabled, ly, picture, frame_buffer>>
vars == <<main, sys, running, frame_mux, ticks, lcd, front_buffer, stale, screen, memory>>

ASSUME FramesAssumption == M_CYCLES_PER_FRAME \in Nat \ {0}

Halves == {"top", "bottom"}
Parts == {"top", "bottom", "vblank", "last"}
Both(p) == [h \in Halves |-> p]
Off == 3           \* the picture in off_buffer
NotSaved == 2
Pictures == 0..2   \* others are told apart from their neighbours only

Init ==
    /\ main = "start" /\ sys = "none"
    /\ running = TRUE
    /\ frame_mux = "free"
    /\ mode = "off" /\ just_enabled = FALSE   \* before ppu_init
    /\ ly = "top" /\ ticks = 0
    /\ picture = 1 /\ frame_buffer = Both(0) /\ front_buffer = Both(0)
    /\ window_tex = Both(0) /\ source = "off"
    /\ cart = "none" /\ ram = 0 /\ sav = NotSaved
    /\ stale = FALSE /\ stale_at_lock = FALSE

---------------------------------------------------------------------------
\* The window thread: main and loop_window.

MainGoes(from, to) == main = from /\ main' = to

\* rom_path is argv[1], or a file is dropped on the window.
OpenFile ==
    /\ MainGoes("start", "init")
    /\ UNCHANGED <<sys, running, frame_mux, ticks, lcd, front_buffer, stale, screen, memory>>

\* SDL or the window cannot be made, or the window is closed before a file is dropped.
NoFile ==
    /\ MainGoes("start", "close")
    /\ UNCHANGED <<sys, running, frame_mux, ticks, lcd, front_buffer, stale, screen, memory>>

InitSucceeds ==
    /\ MainGoes("init", "create")
    /\ cart' = "loaded" /\ mode' = "on"
    /\ UNCHANGED <<sys, running, frame_mux, ticks, just_enabled, ly, picture, frame_buffer,
                   front_buffer, stale, screen, ram, sav>>

\* cart_init refuses the file, goto failure.
InitFails ==
    /\ MainGoes("init", "close")
    /\ UNCHANGED <<sys, running, frame_mux, ticks, lcd, front_buffer, stale, screen, memory>>

\* SDL_CreateThread; its result is not looked at.
CreateThread ==
    /\ MainGoes("create", "loop")
    /\ sys' \in {"top", "none"}
    /\ UNCHANGED <<running, frame_mux, ticks, lcd, front_buffer, stale, screen, memory>>

Loop ==
    /\ MainGoes("loop", IF running THEN "lock" ELSE "join")
    /\ UNCHANGED <<sys, running, frame_mux, ticks, lcd, front_buffer, stale, screen, memory>>

WindowLock ==
    /\ MainGoes("lock", "mode")
    /\ frame_mux = "free" /\ frame_mux' = "window"
    /\ stale_at_lock' = stale
    /\ UNCHANGED <<sys, running, ticks, lcd, front_buffer, stale, window_tex, source, memory>>

\* ppu_get_frame_buffer, its first test.
ReadMode ==
    /\ MainGoes("mode", IF mode = "off" THEN "copy_top" ELSE "just_enabled")
    /\ source' = IF mode = "off" THEN "off" ELSE source
    /\ UNCHANGED <<sys, running, frame_mux, ticks, lcd, front_buffer, stale, window_tex,
                   stale_at_lock, memory>>

ReadJustEnabled ==
    /\ MainGoes("just_enabled", "copy_top")
    /\ source' = IF just_enabled THEN "off" ELSE "front"
    /\ UNCHANGED <<sys, running, frame_mux, ticks, lcd, front_buffer, stale, window_tex,
                   stale_at_lock, memory>>

CopyToTexture(half) ==
    /\ window_tex' = [window_tex EXCEPT ![half] =
                         IF source = "off" THEN Off ELSE front_buffer[half]]
    /\ UNCHANGED <<sys, running, frame_mux, ticks, lcd, front_buffer, stale, source,
                   stale_at_lock, memory>>

WindowCopyTop == MainGoes("copy_top", "copy_bottom") /\ CopyToTexture("top")
WindowCopyBottom == MainGoes("copy_bottom", "unlock") /\ CopyToTexture("bottom")

WindowUnlock ==
    /\ MainGoes("unlock", "events")
    /\ frame_mux' = "free"
    /\ UNCHANGED <<sys, running, ticks, lcd, front_buffer, stale, screen, memory>>

\* SDL_PollEvent until there is no event, or the window is to be closed.
Events ==
    /\ MainGoes("events", "loop")
    /\ running' \in {TRUE, FALSE}
    /\ UNCHANGED <<sys, frame_mux, ticks, lcd, front_buffer, stale, screen, memory>>

\* Mutant: the system thread is not waited for.
Join_not ==
    /\ MainGoes("join", "deinit")
    /\ UNCHANGED <<sys, running, frame_mux, ticks, lcd, front_buffer, stale, screen, memory>>

Join ==
    /\ MainGoes("join", "deinit")
    /\ sys \in {"none", "done"}
    /\ UNCHANGED <<sys, running, frame_mux, ticks, lcd, front_buffer, stale, screen, memory>>

\* sys_deinit: the battery RAM is written, then freed.
Deinit ==
    /\ MainGoes("deinit", "close")
    /\ sav' = ram /\ cart' = "freed"
    /\ UNCHANGED <<sys, running, frame_mux, ticks, lcd, front_buffer, stale, screen, ram>>

Close ==
    /\ MainGoes("close", "done")
    /\ frame_mux' = "destroyed"
    /\ UNCHANGED <<sys, running, ticks, lcd, front_buffer, stale, screen, memory>>

---------------------------------------------------------------------------
\* The system thread: loop_system, sys_tick, commit_frame.

SysGoes(from, to) == sys = from /\ sys' = to

\* Mutant: the thread does not look at running.
Top_forever ==
    /\ SysGoes("top", "cpu")
    /\ ticks' = M_CYCLES_PER_FRAME
    /\ UNCHANGED <<main, running, frame_mux, lcd, front_buffer, stale, screen, memory>>

Top ==
    /\ SysGoes("top", IF running THEN "cpu" ELSE "done")
    /\ ticks' = IF running THEN M_CYCLES_PER_FRAME ELSE ticks
    /\ UNCHANGED <<main, running, frame_mux, lcd, front_buffer, stale, screen, memory>>

\* cpu_tick, seen from here.
CpuOther ==
    /\ SysGoes("cpu", "ppu")
    /\ UNCHANGED <<main, running, frame_mux, ticks, lcd, front_buffer, stale, screen, memory>>

RamWrite ==
    /\ SysGoes("cpu", "ppu")
    /\ ram' = 1 - ram
    /\ UNCHANGED <<main, running, frame_mux, ticks, lcd, front_buffer, stale, screen, cart, sav>>

LcdOff ==
    /\ SysGoes("cpu", "ppu")
    /\ mode = "on" /\ mode' = "off"
    /\ stale' = TRUE
    /\ UNCHANGED <<main, running, frame_mux, ticks, just_enabled, ly, picture, frame_buffer,
                   front_buffer, screen, memory>>

\* Mutant: ppu_lcdc_write enables the PPU, and then marks the frame as the first one.
LcdOnFirst_mode ==
    /\ SysGoes("cpu", "lcd_on")
    /\ mode = "off" /\ mode' = "on"
    /\ UNCHANGED <<main, running, frame_mux, ticks, just_enabled, ly, picture, frame_buffer,
                   front_buffer, stale, screen, memory>>

LcdOnFirst ==
    /\ SysGoes("cpu", "lcd_on")
    /\ mode = "off"
    /\ just_enabled' = TRUE
    /\ UNCHANGED <<main, running, frame_mux, ticks, mode, ly, picture, frame_buffer,
                   front_buffer, stale, screen, memory>>

\* The first line again, and set_mode.
LcdOnThen ==
    /\ SysGoes("lcd_on", "ppu")
    /\ just_enabled' = TRUE /\ mode' = "on"
    /\ ly' = "top" /\ picture' = (picture + 1) % 3
    /\ UNCHANGED <<main, running, frame_mux, ticks, frame_buffer, front_buffer, stale,
                   screen, memory>>

\* The end of sys_tick, and after the last one SDL_DelayPrecise.
TickEnds ==
    /\ sys' = IF ticks = 1 THEN "top" ELSE "cpu"
    /\ ticks' = ticks - 1

PpuOff ==
    /\ sys = "ppu" /\ mode = "off"
    /\ TickEnds
    /\ UNCHANGED <<main, running, frame_mux, lcd, front_buffer, stale, screen, memory>>

Drawn(half) ==
    /\ frame_buffer' = [frame_buffer EXCEPT ![half] = picture]
    /\ UNCHANGED <<main, running, frame_mux, mode, just_enabled, picture, front_buffer, stale,
                   screen, memory>>

DrawTop ==
    /\ sys = "ppu" /\ mode = "on" /\ ly = "top"
    /\ ly' = "bottom"
    /\ TickEnds
    /\ Drawn("top")

\* After the last line that is drawn VBlank begins, with commit_frame.
DrawBottom ==
    /\ SysGoes("ppu", "lock") /\ mode = "on" /\ ly = "bottom"
    /\ ly' = "vblank"
    /\ UNCHANGED ticks
    /\ Drawn("bottom")

\* commit_frame again at each line of VBlank.
VBlankLine ==
    /\ SysGoes("ppu", "lock") /\ mode = "on" /\ ly = "vblank"
    /\ ly' = "last"
    /\ UNCHANGED <<main, running, frame_mux, ticks, mode, just_enabled, picture, frame_buffer,
                   front_buffer, stale, screen, memory>>

NewFrame ==
    /\ sys = "ppu" /\ mode = "on" /\ ly = "last"
    /\ just_enabled' = FALSE /\ ly' = "top" /\ picture' = (picture + 1) % 3
    /\ TickEnds
    /\ UNCHANGED <<main, running, frame_mux, mode, frame_buffer, front_buffer, stale, screen,
                   memory>>

\* Mutant: commit_frame does not take the mutex.
SystemLock_not ==
    /\ SysGoes("lock", "copy_top")
    /\ UNCHANGED <<main, running, frame_mux, ticks, lcd, front_buffer, stale, screen, memory>>

SystemLock ==
    /\ SysGoes("lock", "copy_top")
    /\ frame_mux = "free" /\ frame_mux' = "system"
    /\ UNCHANGED <<main, running, ticks, lcd, front_buffer, stale, screen, memory>>

CommitTop ==
    /\ SysGoes("copy_top", "copy_bottom")
    /\ front_buffer' = [front_buffer EXCEPT !["top"] = frame_buffer["top"]]
    /\ UNCHANGED <<main, running, frame_mux, ticks, lcd, stale, screen, memory>>

CommitBottom ==
    /\ SysGoes("copy_bottom", "unlock")
    /\ front_buffer' = [front_buffer EXCEPT !["bottom"] = frame_buffer["bottom"]]
    /\ stale' = FALSE
    /\ UNCHANGED <<main, running, frame_mux, ticks, lcd, screen, memory>>

SystemUnlock ==
    /\ sys = "unlock"
    /\ frame_mux' = "free"
    /\ TickEnds
    /\ UNCHANGED <<main, running, lcd, front_buffer, stale, screen, memory>>

---------------------------------------------------------------------------
Window ==
    \/ OpenFile \/ NoFile \/ InitSucceeds \/ InitFails \/ CreateThread
    \/ Loop \/ WindowLock \/ ReadMode \/ ReadJustEnabled
    \/ WindowCopyTop \/ WindowCopyBottom \/ WindowUnlock \/ Events
    \/ Join \/ Deinit \/ Close

System ==
    \/ Top \/ CpuOther \/ RamWrite \/ LcdOff \/ LcdOnFirst \/ LcdOnThen
    \/ PpuOff \/ DrawTop \/ DrawBottom \/ VBlankLine \/ NewFrame
    \/ SystemLock \/ CommitTop \/ CommitBottom \/ SystemUnlock

\* The process has ended.
Ended == main = "done" /\ UNCHANGED vars

Next == Window \/ System \/ Ended

Spec == Init /\ [][Next]_vars

\* The operating system runs both threads.  A mutex of SDL is not fair, and nothing is
\* assumed of who gets frame_mux: a thread may wait for it as long as the other comes back.
FairSpec == Spec /\ WF_vars(Window) /\ WF_vars(System)

---------------------------------------------------------------------------
TypeOK ==
    /\ main \in {"start", "init", "create", "loop", "lock", "mode", "just_enabled", "copy_top",
                 "copy_bottom", "unlock", "events", "join", "deinit", "close", "done"}
    /\ sys \in {"none", "top", "cpu", "lcd_on", "ppu", "lock", "copy_top", "copy_bottom",
                "unlock", "done"}
    /\ running \in BOOLEAN
    /\ frame_mux \in {"free", "window", "system", "destroyed"}
    /\ mode \in {"on", "off"} /\ just_enabled \in BOOLEAN
    /\ ly \in Parts /\ ticks \in 0..M_CYCLES_PER_FRAME
    /\ picture \in Pictures
    /\ frame_buffer \in [Halves -> Pictures] /\ front_buffer \in [Halves -> Pictures]
    /\ window_tex \in [Halves -> Pictures \cup {Off}] /\ source \in {"off", "front"}
    /\ cart \in {"none", "loaded", "freed"} /\ ram \in {0, 1} /\ sav \in {0, 1, NotSaved}
    /\ stale \in BOOLEAN /\ stale_at_lock \in BOOLEAN

\* loop_window shows no picture that is half of one frame and half of another,
\* whenever the system thread draws and commits.
NoTornPicture == main # "copy_bottom" => window_tex["top"] = window_tex["bottom"]

\* ppu.c:317-318, across the threads: a picture from before the LCD was turned off is
\* not shown by a window thread that took the mutex after that, though it reads mode and
\* just_enabled while the system thread may be between writing the one and the other.
NoOldPicture == main \in {"copy_top", "copy_bottom"} /\ source = "front" => ~stale_at_lock

\* main.c:127-137: the machine does not run any more when the memory of the cartridge
\* is freed and the mutex destroyed, also when the thread was never made.
NoUseAfterFree == cart = "freed" \/ frame_mux = "destroyed" => sys \in {"none", "done"}

\* What cart_deinit writes is the last that the game has written to its RAM.
SaveIsFinal == sav # NotSaved => sav = ram

\* Once the window is to be closed the program ends, whatever the machine is doing.
CloseEnds == ~running ~> main = "done"

\* The ticks left are 0 only where the system thread looks at running.
TicksLeft == sys \notin {"none", "top", "done"} => ticks \in 1..M_CYCLES_PER_FRAME

\* What exists before the system thread does, and after it.
Lifetimes ==
    /\ main \in {"start", "init", "create"} => sys = "none" /\ ~stale
    /\ main \in {"deinit", "close", "done"} => sys \in {"none", "done"}
    /\ cart = "freed" => main \in {"close", "done"}
    /\ frame_mux = "destroyed" => main = "done"
    /\ sav # NotSaved => cart = "freed"
    /\ NoUseAfterFree /\ SaveIsFinal

\* frame_mux is held by the thread that copies, and by no other.
MutexHeld ==
    /\ frame_mux = "system" <=> sys \in {"copy_top", "copy_bottom", "unlock"}
    /\ frame_mux = "window" <=>
           main \in {"mode", "just_enabled", "copy_top", "copy_bottom", "unlock"}

\* Where the halves of frame_buffer, of front_buffer and of the texture are of one picture.
HalvesMatch ==
    /\ ly = "bottom" => frame_buffer["top"] = picture
    /\ ly \in {"vblank", "last"} => frame_buffer["top"] = frame_buffer["bottom"]
    /\ sys \in {"lock", "copy_top", "copy_bottom"} => ly \in {"vblank", "last"}
    /\ sys = "copy_bottom" => front_buffer["top"] = frame_buffer["top"]
    /\ sys # "copy_bottom" => front_buffer["top"] = front_buffer["bottom"]
    /\ main = "copy_bottom" =>
           window_tex["top"] = IF source = "off" THEN Off ELSE front_buffer["top"]

\* An old picture in front_buffer is marked by just_enabled from before the LCD is on again
\* until it is written over, which the end of the frame waits for; the window thread, while
\* it holds frame_mux, finds it marked.
OldIsMarked ==
    /\ mode = "on" /\ stale =>
           /\ just_enabled
           /\ ly \in {"vblank", "last"} => sys \in {"lock", "copy_top", "copy_bottom"}
    /\ frame_mux = "window" /\ stale_at_lock => stale
    /\ main = "just_enabled" /\ stale_at_lock => just_enabled

\* Every state of the threads is one of those foreseen, down to the end of the program: who
\* holds the mutex, which buffers are whole and which picture is marked as old; the machine
\* has stopped when its memory goes, and the save is complete.
FramesInv == TypeOK /\ TicksLeft /\ Lifetimes /\ MutexHeld /\ HalvesMatch /\ OldIsMarked
==========================================================================
