--------------------------- MODULE FramesProofs ---------------------------
(***************************************************************************)
(* Proofs about Frames for every number of M-cycles in a frame of the       *)
(* system thread.  The inductive invariant is FramesIInv; there is a lemma   *)
(* for each of its parts, which says that no step of either thread breaks    *)
(* that part, and cites the parts it takes for that.                         *)
(***************************************************************************)
EXTENDS Frames, TLAPS

FramesIInv == FramesInv /\ NoTornPicture /\ NoOldPicture

\* The first state.
LEMMA FramesInit == Init => FramesIInv
<1>. SUFFICES ASSUME Init PROVE FramesIInv
  OBVIOUS
<1>1. TypeOK
  <2>1. running \in BOOLEAN /\ just_enabled \in BOOLEAN /\ stale \in BOOLEAN
        /\ stale_at_lock \in BOOLEAN
    BY Zenon DEF Init
  <2>. QED
    BY <2>1, FramesAssumption DEF Init, TypeOK, Halves, Parts, Pictures, Both, Off
<1>2. TicksLeft /\ Lifetimes /\ MutexHeld
  BY DEF Init, TicksLeft, Lifetimes, NoUseAfterFree, SaveIsFinal, MutexHeld, NotSaved
<1>3. HalvesMatch /\ OldIsMarked /\ NoTornPicture /\ NoOldPicture
  BY DEF Init, HalvesMatch, OldIsMarked, NoTornPicture, NoOldPicture, Both, Halves
<1>. QED
  BY <1>1, <1>2, <1>3 DEF FramesIInv, FramesInv

\* Pictures are numbered round and round.
LEMMA NextPicture ==
    ASSUME NEW p \in Pictures
    PROVE  (p + 1) % 3 \in Pictures
<1>1. CASE p = 0
  BY <1>1 DEF Pictures
<1>2. CASE p = 1
  BY <1>2 DEF Pictures
<1>3. CASE p = 2
  BY <1>3 DEF Pictures
<1>. QED
  BY <1>1, <1>2, <1>3 DEF Pictures

\* Every step keeps the types.
LEMMA TypeStep == TypeOK /\ TicksLeft /\ Next => TypeOK'
<1>. SUFFICES ASSUME TypeOK, TicksLeft, Next PROVE TypeOK'
  OBVIOUS
<1>. USE FramesAssumption DEF TypeOK
<1>1. CASE OpenFile \/ NoFile \/ InitFails \/ Loop
  BY <1>1 DEF OpenFile, NoFile, InitFails, Loop, MainGoes, lcd, screen, memory
<1>2. CASE InitSucceeds
  BY <1>2 DEF InitSucceeds, MainGoes, screen
<1>3. CASE CreateThread
  BY <1>3 DEF CreateThread, MainGoes, lcd, screen, memory
<1>4. CASE WindowLock
  BY <1>4 DEF WindowLock, MainGoes, lcd, memory
<1>5. CASE ReadMode \/ ReadJustEnabled
  BY <1>5 DEF ReadMode, ReadJustEnabled, MainGoes, lcd, memory
<1>6. CASE WindowCopyTop \/ WindowCopyBottom
  BY <1>6 DEF WindowCopyTop, WindowCopyBottom, CopyToTexture, MainGoes, Halves, lcd, memory
<1>7. CASE WindowUnlock \/ Join \/ Close
  BY <1>7 DEF WindowUnlock, Join, Close, MainGoes, lcd, screen, memory
<1>8. CASE Events
  <2>1. running' \in BOOLEAN
    BY <1>8, Zenon DEF Events
  <2>2. /\ main' = "loop"
        /\ UNCHANGED <<sys, frame_mux, ticks, lcd, front_buffer, stale, screen, memory>>
    BY <1>8 DEF Events, MainGoes
  <2>. QED
    BY <2>1, <2>2 DEF lcd, screen, memory
<1>9. CASE Deinit
  BY <1>9 DEF Deinit, MainGoes, lcd, screen
<1>10. CASE Top \/ CpuOther
  BY <1>10 DEF Top, CpuOther, SysGoes, lcd, screen, memory
<1>11. CASE RamWrite
  BY <1>11 DEF RamWrite, SysGoes, lcd, screen
<1>12. CASE LcdOff \/ LcdOnFirst
  <2>1. stale' \in BOOLEAN /\ just_enabled' \in BOOLEAN
    BY <1>12, Zenon DEF LcdOff, LcdOnFirst
  <2>2. sys' \in {"ppu", "lcd_on"} /\ mode' \in {"on", "off"}
    BY <1>12 DEF LcdOff, LcdOnFirst, SysGoes
  <2>3. UNCHANGED <<main, running, frame_mux, ticks, ly, picture, frame_buffer, front_buffer,
                    screen, memory>>
    BY <1>12 DEF LcdOff, LcdOnFirst
  <2>. QED
    BY <2>1, <2>2, <2>3 DEF screen, memory
<1>13. CASE LcdOnThen
  <2>1. picture' \in Pictures
    BY <1>13, NextPicture DEF LcdOnThen
  <2>. QED
    BY <1>13, <2>1 DEF LcdOnThen, SysGoes, Parts, screen, memory
<1>14. CASE PpuOff
  BY <1>14 DEF PpuOff, TickEnds, TicksLeft, lcd, screen, memory
<1>15. CASE DrawTop \/ DrawBottom
  BY <1>15 DEF DrawTop, DrawBottom, Drawn, SysGoes, TickEnds, TicksLeft, Halves, Parts,
               screen, memory
<1>16. CASE VBlankLine
  BY <1>16 DEF VBlankLine, SysGoes, Parts, screen, memory
<1>17. CASE NewFrame
  <2>1. picture' \in Pictures
    BY <1>17, NextPicture DEF NewFrame
  <2>2. just_enabled' \in BOOLEAN
    BY <1>17, Zenon DEF NewFrame
  <2>3. sys' \in {"top", "cpu"} /\ ticks' \in 0..M_CYCLES_PER_FRAME /\ ly' \in Parts
    BY <1>17 DEF NewFrame, TickEnds, TicksLeft, Parts
  <2>4. UNCHANGED <<main, running, frame_mux, mode, frame_buffer, front_buffer, stale, screen,
                    memory>>
    BY <1>17 DEF NewFrame
  <2>. QED
    BY <2>1, <2>2, <2>3, <2>4 DEF screen, memory
<1>18. CASE SystemLock
  BY <1>18 DEF SystemLock, SysGoes, lcd, screen, memory
<1>19. CASE CommitTop \/ CommitBottom
  <2>1. stale' \in BOOLEAN
    BY <1>19, Zenon DEF CommitTop, CommitBottom
  <2>2. front_buffer' \in [Halves -> Pictures] /\ sys' \in {"copy_bottom", "unlock"}
    BY <1>19 DEF CommitTop, CommitBottom, SysGoes, Halves
  <2>3. UNCHANGED <<main, running, frame_mux, ticks, lcd, screen, memory>>
    BY <1>19 DEF CommitTop, CommitBottom
  <2>. QED
    BY <2>1, <2>2, <2>3 DEF lcd, screen, memory
<1>20. CASE SystemUnlock
  BY <1>20 DEF SystemUnlock, TickEnds, TicksLeft, lcd, screen, memory
<1>21. CASE Ended
  BY <1>21 DEF Ended, vars, lcd, screen, memory
<1>. QED
  BY <1>1, <1>2, <1>3, <1>4, <1>5, <1>6, <1>7, <1>8, <1>9, <1>10, <1>11, <1>12, <1>13, <1>14,
     <1>15, <1>16, <1>17, <1>18, <1>19, <1>20, <1>21 DEF Next, Window, System

\* The M-cycles counted are those of the loop that is running.
LEMMA TicksStep == TypeOK /\ TicksLeft /\ Next => TicksLeft'
<1>. SUFFICES ASSUME TypeOK, TicksLeft, Next PROVE TicksLeft'
  OBVIOUS
<1>. USE FramesAssumption DEF TypeOK, TicksLeft
<1>1. CASE Window
  BY <1>1 DEF Window, OpenFile, NoFile, InitSucceeds, InitFails, CreateThread, Loop, WindowLock,
              ReadMode, ReadJustEnabled, WindowCopyTop, WindowCopyBottom, CopyToTexture,
              WindowUnlock, Events, Join, Deinit, Close
<1>2. CASE Top
  BY <1>2 DEF Top, SysGoes
<1>3. CASE CpuOther \/ RamWrite \/ LcdOff \/ LcdOnFirst \/ LcdOnThen
  BY <1>3 DEF CpuOther, RamWrite, LcdOff, LcdOnFirst, LcdOnThen, SysGoes
<1>4. CASE PpuOff \/ DrawTop \/ NewFrame \/ SystemUnlock
  <2>1. TickEnds /\ sys \in {"ppu", "unlock"}
    BY <1>4 DEF PpuOff, DrawTop, NewFrame, SystemUnlock
  <2>. QED
    BY <2>1 DEF TickEnds
<1>5. CASE DrawBottom \/ VBlankLine \/ SystemLock \/ CommitTop \/ CommitBottom
  BY <1>5 DEF DrawBottom, VBlankLine, SystemLock, CommitTop, CommitBottom, SysGoes
<1>6. CASE Ended
  BY <1>6 DEF Ended, vars
<1>. QED
  BY <1>1, <1>2, <1>3, <1>4, <1>5, <1>6 DEF Next, System

\* What is freed stays unused, in whatever order the threads end.
LEMMA LifetimesStep ==
    ASSUME Lifetimes, MutexHeld, Next
    PROVE  Lifetimes'
<1>. USE DEF Lifetimes, NoUseAfterFree, SaveIsFinal
<1>1. CASE OpenFile \/ NoFile \/ InitSucceeds \/ InitFails \/ CreateThread
  BY <1>1 DEF OpenFile, NoFile, InitSucceeds, InitFails, CreateThread, MainGoes, lcd, screen, memory
<1>2. CASE Loop \/ ReadMode \/ ReadJustEnabled \/ WindowCopyTop \/ WindowCopyBottom \/ Events
  BY <1>2 DEF Loop, ReadMode, ReadJustEnabled, WindowCopyTop, WindowCopyBottom, CopyToTexture,
              Events, MainGoes, lcd, screen, memory
<1>3. CASE WindowLock \/ WindowUnlock
  BY <1>3 DEF WindowLock, WindowUnlock, MainGoes, lcd, screen, memory
<1>4. CASE Join \/ Deinit \/ Close
  BY <1>4 DEF Join, Deinit, Close, MainGoes, lcd, screen, memory
<1>5. CASE Top \/ CpuOther \/ RamWrite \/ LcdOff \/ LcdOnFirst \/ LcdOnThen
  BY <1>5 DEF Top, CpuOther, RamWrite, LcdOff, LcdOnFirst, LcdOnThen, SysGoes, lcd, screen, memory
<1>6. CASE PpuOff \/ DrawTop \/ DrawBottom \/ VBlankLine \/ NewFrame
  BY <1>6 DEF PpuOff, DrawTop, DrawBottom, VBlankLine, NewFrame, Drawn, TickEnds, SysGoes, lcd,
              screen, memory
<1>7. CASE SystemLock \/ CommitTop \/ CommitBottom \/ SystemUnlock
  BY <1>7 DEF SystemLock, CommitTop, CommitBottom, SystemUnlock, TickEnds, SysGoes, lcd,
              screen, memory
<1>8. CASE Ended
  BY <1>8 DEF Ended, vars, lcd, screen, memory
<1>. QED
  BY <1>1, <1>2, <1>3, <1>4, <1>5, <1>6, <1>7, <1>8 DEF Next, Window, System

\* The mutex has the holder that the places of the two threads say.
LEMMA MutexStep ==
    ASSUME Lifetimes, MutexHeld, Next
    PROVE  MutexHeld'
<1>. USE DEF MutexHeld
<1>1. CASE WindowLock \/ WindowUnlock
  BY <1>1 DEF WindowLock, WindowUnlock, MainGoes
<1>2. CASE ReadMode \/ ReadJustEnabled \/ WindowCopyTop \/ WindowCopyBottom
  BY <1>2 DEF ReadMode, ReadJustEnabled, WindowCopyTop, WindowCopyBottom, CopyToTexture, MainGoes
<1>3. CASE Close
  BY <1>3 DEF Close, MainGoes, Lifetimes
<1>4. CASE OpenFile \/ NoFile \/ InitSucceeds \/ InitFails \/ Loop \/ Events \/ Join \/ Deinit
  BY <1>4 DEF OpenFile, NoFile, InitSucceeds, InitFails, Loop, Events, Join, Deinit, MainGoes
<1>5. CASE CreateThread
  BY <1>5 DEF CreateThread, MainGoes, Lifetimes
<1>6. CASE SystemLock \/ CommitTop \/ CommitBottom \/ SystemUnlock
  BY <1>6 DEF SystemLock, CommitTop, CommitBottom, SystemUnlock, SysGoes, TickEnds
<1>7. CASE Top \/ CpuOther \/ RamWrite \/ LcdOff \/ LcdOnFirst \/ LcdOnThen
  BY <1>7 DEF Top, CpuOther, RamWrite, LcdOff, LcdOnFirst, LcdOnThen, SysGoes
<1>8. CASE PpuOff \/ DrawTop \/ DrawBottom \/ VBlankLine \/ NewFrame
  BY <1>8 DEF PpuOff, DrawTop, DrawBottom, VBlankLine, NewFrame, Drawn, SysGoes, TickEnds
<1>9. CASE Ended
  BY <1>9 DEF Ended, vars
<1>. QED
  BY <1>1, <1>2, <1>3, <1>4, <1>5, <1>6, <1>7, <1>8, <1>9 DEF Next, Window, System

\* Each buffer has two halves of one picture, but while it is being copied.
LEMMA HalvesStep ==
    ASSUME TypeOK, Lifetimes, MutexHeld, HalvesMatch, Next
    PROVE  HalvesMatch'
<1>. USE DEF HalvesMatch
<1>1. CASE WindowCopyTop \/ WindowCopyBottom
  BY <1>1 DEF WindowCopyTop, WindowCopyBottom, CopyToTexture, MainGoes, TypeOK, Halves, lcd
<1>2. CASE ReadMode \/ ReadJustEnabled
  BY <1>2 DEF ReadMode, ReadJustEnabled, MainGoes, lcd
<1>3. CASE CreateThread
  BY <1>3 DEF CreateThread, MainGoes, Lifetimes, lcd, screen
<1>4. CASE OpenFile \/ NoFile \/ InitSucceeds \/ InitFails \/ Loop \/ WindowLock \/ WindowUnlock
           \/ Events \/ Join \/ Deinit \/ Close
  BY <1>4 DEF OpenFile, NoFile, InitSucceeds, InitFails, Loop, WindowLock, WindowUnlock, Events,
              Join, Deinit, Close, MainGoes, lcd, screen
<1>5. CASE Top \/ CpuOther \/ RamWrite \/ LcdOff \/ LcdOnFirst \/ LcdOnThen \/ PpuOff
  BY <1>5 DEF Top, CpuOther, RamWrite, LcdOff, LcdOnFirst, LcdOnThen, PpuOff, SysGoes, TickEnds,
              lcd, screen
<1>6. CASE DrawTop \/ DrawBottom
  BY <1>6 DEF DrawTop, DrawBottom, Drawn, SysGoes, TickEnds, TypeOK, Halves, screen
<1>7. CASE VBlankLine \/ NewFrame
  BY <1>7 DEF VBlankLine, NewFrame, SysGoes, TickEnds, screen
<1>8. CASE SystemLock \/ SystemUnlock
  BY <1>8 DEF SystemLock, SystemUnlock, SysGoes, TickEnds, lcd, screen
<1>9. CASE CommitTop \/ CommitBottom
  BY <1>9 DEF CommitTop, CommitBottom, SysGoes, MutexHeld, TypeOK, Halves, lcd, screen
<1>10. CASE Ended
  BY <1>10 DEF Ended, vars, lcd, screen
<1>. QED
  BY <1>1, <1>2, <1>3, <1>4, <1>5, <1>6, <1>7, <1>8, <1>9, <1>10 DEF Next, Window, System

\* The window thread copies alone, so that its picture has two halves of one.
LEMMA TornStep ==
    ASSUME TypeOK, MutexHeld, HalvesMatch, NoTornPicture, Next
    PROVE  NoTornPicture'
<1>. USE DEF NoTornPicture
<1>1. CASE WindowCopyTop
  BY <1>1 DEF WindowCopyTop, MainGoes
<1>2. CASE WindowCopyBottom
  <2>1. window_tex["top"] = IF source = "off" THEN Off ELSE front_buffer["top"]
    BY <1>2 DEF WindowCopyBottom, MainGoes, HalvesMatch
  <2>2. front_buffer["top"] = front_buffer["bottom"]
    BY <1>2 DEF WindowCopyBottom, MainGoes, MutexHeld, HalvesMatch
  <2>. QED
    BY <1>2, <2>1, <2>2 DEF WindowCopyBottom, CopyToTexture, TypeOK, Halves
<1>3. CASE Window /\ ~WindowCopyTop /\ ~WindowCopyBottom
  BY <1>3 DEF Window, OpenFile, NoFile, InitSucceeds, InitFails, CreateThread, Loop, WindowLock,
              ReadMode, ReadJustEnabled, WindowUnlock, Events, Join, Deinit, Close, MainGoes, screen
<1>4. CASE System
  BY <1>4 DEF System, Top, CpuOther, RamWrite, LcdOff, LcdOnFirst, LcdOnThen, PpuOff, DrawTop,
              DrawBottom, Drawn, VBlankLine, NewFrame, SystemLock, CommitTop, CommitBottom,
              SystemUnlock, screen
<1>5. CASE Ended
  BY <1>5 DEF Ended, vars, screen
<1>. QED
  BY <1>1, <1>2, <1>3, <1>4, <1>5 DEF Next

\* A picture from before the LCD was off stays marked until the next commit.
LEMMA OldMarkedStep ==
    ASSUME TypeOK, Lifetimes, MutexHeld, HalvesMatch, OldIsMarked, Next
    PROVE  OldIsMarked'
<1>. USE DEF OldIsMarked, MutexHeld
<1>1. CASE InitSucceeds
  BY <1>1 DEF InitSucceeds, MainGoes, Lifetimes, screen
<1>2. CASE WindowLock
  BY <1>2 DEF WindowLock, MainGoes, lcd
<1>3. CASE ReadMode
  BY <1>3 DEF ReadMode, MainGoes, TypeOK, lcd
<1>4. CASE ReadJustEnabled \/ WindowCopyTop \/ WindowCopyBottom \/ WindowUnlock
  BY <1>4 DEF ReadJustEnabled, WindowCopyTop, WindowCopyBottom, CopyToTexture, WindowUnlock,
              MainGoes, lcd, screen
<1>5. CASE CreateThread
  BY <1>5 DEF CreateThread, MainGoes, Lifetimes, lcd, screen
<1>6. CASE OpenFile \/ NoFile \/ InitFails \/ Loop \/ Events \/ Join \/ Deinit \/ Close
  <2>1. /\ UNCHANGED <<lcd, sys, stale, stale_at_lock>>
        /\ frame_mux' = "window" => frame_mux = "window"
    BY <1>6 DEF OpenFile, NoFile, InitFails, Loop, Events, Join, Deinit, Close, screen
  <2>2. main' # "just_enabled"
    BY <1>6 DEF OpenFile, NoFile, InitFails, Loop, Events, Join, Deinit, Close, MainGoes
  <2>. QED
    BY <2>1, <2>2 DEF lcd
<1>7. CASE LcdOff \/ LcdOnFirst \/ LcdOnThen
  BY <1>7 DEF LcdOff, LcdOnFirst, LcdOnThen, SysGoes, screen
<1>8. CASE Top \/ CpuOther \/ RamWrite \/ PpuOff
  BY <1>8 DEF Top, CpuOther, RamWrite, PpuOff, SysGoes, TickEnds, lcd, screen
<1>9. CASE DrawTop \/ DrawBottom \/ VBlankLine
  BY <1>9 DEF DrawTop, DrawBottom, VBlankLine, Drawn, SysGoes, TickEnds, screen
<1>10. CASE NewFrame
  <2>1. ~stale
    BY <1>10 DEF NewFrame
  <2>. QED
    BY <1>10, <2>1 DEF NewFrame, TickEnds, screen
<1>11. CASE SystemLock \/ CommitTop \/ SystemUnlock
  BY <1>11 DEF SystemLock, CommitTop, SystemUnlock, SysGoes, TickEnds, lcd, screen
<1>12. CASE CommitBottom
  BY <1>12 DEF CommitBottom, SysGoes, lcd, screen
<1>13. CASE Ended
  BY <1>13 DEF Ended, vars, lcd, screen
<1>. QED
  BY <1>1, <1>2, <1>3, <1>4, <1>5, <1>6, <1>7, <1>8, <1>9, <1>10, <1>11, <1>12, <1>13
     DEF Next, Window, System

\* The window thread finds the mark of an old picture.
LEMMA NoOldStep ==
    ASSUME OldIsMarked, MutexHeld, NoOldPicture, Next
    PROVE  NoOldPicture'
<1>. USE DEF NoOldPicture
<1>1. CASE ReadMode
  BY <1>1 DEF ReadMode, MainGoes
<1>2. CASE ReadJustEnabled
  BY <1>2 DEF ReadJustEnabled, MainGoes, OldIsMarked
<1>3. CASE WindowCopyTop \/ WindowCopyBottom
  BY <1>3 DEF WindowCopyTop, WindowCopyBottom, CopyToTexture, MainGoes
<1>4. CASE Window /\ ~(ReadMode \/ ReadJustEnabled \/ WindowCopyTop \/ WindowCopyBottom)
  BY <1>4 DEF Window, OpenFile, NoFile, InitSucceeds, InitFails, CreateThread, Loop, WindowLock,
              WindowUnlock, Events, Join, Deinit, Close, MainGoes
<1>5. CASE System
  BY <1>5 DEF System, Top, CpuOther, RamWrite, LcdOff, LcdOnFirst, LcdOnThen, PpuOff, DrawTop,
              DrawBottom, Drawn, VBlankLine, NewFrame, SystemLock, CommitTop, CommitBottom,
              SystemUnlock, screen
<1>6. CASE Ended
  BY <1>6 DEF Ended, vars, screen
<1>. QED
  BY <1>1, <1>2, <1>3, <1>4, <1>5, <1>6 DEF Next

\* Every step keeps the invariant.
LEMMA FramesStep == FramesIInv /\ [Next]_vars => FramesIInv'
<1>. SUFFICES ASSUME FramesIInv, [Next]_vars PROVE FramesIInv'
  OBVIOUS
<1>1. /\ TypeOK /\ TicksLeft /\ Lifetimes /\ MutexHeld /\ HalvesMatch /\ OldIsMarked
      /\ NoTornPicture /\ NoOldPicture
  BY DEF FramesIInv, FramesInv
<1>2. CASE Next
  <2>1. TypeOK' /\ TicksLeft' /\ Lifetimes' /\ MutexHeld'
    BY <1>1, <1>2, TypeStep, TicksStep, LifetimesStep, MutexStep
  <2>2. HalvesMatch' /\ OldIsMarked' /\ NoTornPicture' /\ NoOldPicture'
    BY <1>1, <1>2, HalvesStep, OldMarkedStep, TornStep, NoOldStep
  <2>. QED
    BY <2>1, <2>2 DEF FramesIInv, FramesInv
<1>3. CASE UNCHANGED vars
  <2>1. TypeOK' /\ TicksLeft' /\ Lifetimes' /\ MutexHeld'
    BY <1>1, <1>3 DEF vars, lcd, screen, memory, TypeOK, TicksLeft, Lifetimes, NoUseAfterFree,
                      SaveIsFinal, MutexHeld
  <2>2. HalvesMatch' /\ OldIsMarked' /\ NoTornPicture' /\ NoOldPicture'
    BY <1>1, <1>3 DEF vars, lcd, screen, HalvesMatch, OldIsMarked, NoTornPicture, NoOldPicture
  <2>. QED
    BY <2>1, <2>2 DEF FramesIInv, FramesInv
<1>. QED
  BY <1>2, <1>3

---------------------------------------------------------------------------
\* The two threads of main.c, in every interleaving, for every length of a frame: the inductive
\* invariant, which FramesInv is without the two properties of the pictures.
THEOREM FramesInvariant == Spec => []FramesIInv
<1>. QED
  BY FramesInit, FramesStep, PTL DEF Spec

\* Nothing is used after it is freed or destroyed and the save is complete, down to every end
\* of main; the mutex is held by the one that copies.
THEOREM ThreadsEndInOrder == Spec => []FramesInv
<1>1. FramesIInv => FramesInv
  BY DEF FramesIInv
<1>. QED
  BY <1>1, FramesInvariant, PTL

\* loop_window shows no picture whose halves are of two frames, whenever commit_frame runs.
THEOREM PicturesAreWhole == Spec => []NoTornPicture
<1>1. FramesIInv => NoTornPicture
  BY DEF FramesIInv
<1>. QED
  BY <1>1, FramesInvariant, PTL

\* ppu_get_frame_buffer hands out no picture from before the LCD was off to a window thread
\* that took the mutex after that, though mode and just_enabled are read without it.
THEOREM OldPictureNotShown == Spec => []NoOldPicture
<1>1. FramesIInv => NoOldPicture
  BY DEF FramesIInv
<1>. QED
  BY <1>1, FramesInvariant, PTL
=============================================================================
