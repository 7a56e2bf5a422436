----------------------------- MODULE LineSpec -----------------------------
(***************************************************************************)
(* What mode 3 promises: the pixels of a line come out once each, from left *)
(* to right, and each is the one that the registers and the objects of the  *)
(* line ask for at that place of the screen, as long as the registers stay  *)
(* as they are.  No fetcher and no queue.                                   *)
(*                                                                          *)
(* Of several objects that begin at the same place only the first counts.   *)
(* The pixels of the background are known by their column in the map.       *)
(***************************************************************************)
EXTENDS Integers, Sequences, FiniteSetsExt

CONSTANTS
    WIDTH,   \* pixels in a line
    Zero     \* columns of the maps whose colour index is 0

VARIABLES
    line,    \* registers and objects of the line
    sure,    \* have the registers stayed as they were when the line began?
    next,    \* the next pixel to come out
    out      \* the latest one

linevars == <<line, sure, next, out>>

\* The window covers the screen from wx - 7 on.
InWindow(x) == line.wy_check /\ line.win_on /\ line.wx - 7 <= x

Ground(x) == IF InWindow(x) THEN <<"win", x - (line.wx - 7)>>
                            ELSE <<"bg", (x + line.scx) % 256>>

\* The objects that have a pixel at x, and of those the opaque ones.
Column(i, x) == x - (line.objs[i].x - 8)
First(i) == \A j \in 1..(i - 1) : line.objs[j].x # line.objs[i].x
Covering(x) == {i \in DOMAIN line.objs : First(i) /\ Column(i, x) \in 0..7}
Opaque(x) == {i \in Covering(x) : Column(i, x) \in line.objs[i].opaque}

\* The leftmost object is in front of the others.
Front(x) == CHOOSE i \in Opaque(x) : \A j \in Opaque(x) : line.objs[i].x <= line.objs[j].x

Pixel(x) ==
    IF line.obj_on /\ Opaque(x) # {}
       /\ ~(line.objs[Front(x)].behind /\ Ground(x)[2] \notin Zero)
    THEN <<"obj", Front(x), Column(Front(x), x)>>
    ELSE Ground(x)

\* Lines of which the pixels are promised.  WX = 255 starts the window before the pixels for
\* SCX are dropped; without the background, what there is of the objects is drawn as it is.
Asked(l) == l.bg_win_on /\ l.wx # 255

Init == sure = TRUE /\ next = 0 /\ out = <<>>

Draw ==
    /\ next < WIDTH
    /\ next' = next + 1
    /\ sure /\ Asked(line) => out' = Pixel(next)
    /\ UNCHANGED <<line, sure>>

\* The program sets registers in the middle of the line.
Disturb == sure' = FALSE /\ UNCHANGED <<next, out>>

\* The next line, also before this one is complete: the LCD may be turned off.
NewLine == sure' = TRUE /\ next' = 0 /\ out' = <<>>

Next == Draw \/ Disturb \/ NewLine

Spec == Init /\ [][Next]_linevars
==========================================================================
