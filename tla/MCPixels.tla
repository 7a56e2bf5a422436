----------------------------- MODULE MCPixels -----------------------------
(* Lines of 24 pixels for the mode-3 pipeline. *)
EXTENDS Pixels

\* Odd columns of every tile but the last have the colour index 0.
MCZero == {c \in 0..255 : c % 2 = 1 /\ c % 8 # 7}

Obj(x, behind, opaque) == [x |-> x, behind |-> behind, opaque |-> opaque]

All == 0..7
\* Objects at the edges, one over the other, side by side and at the same place; in
\* both orders in OAM; behind the background and before it; partly transparent.
ObjLists == {
    <<>>,
    <<Obj(0, FALSE, All), Obj(5, FALSE, {0, 5, 7})>>,
    <<Obj(12, FALSE, {0, 3, 4}), Obj(10, TRUE, {1, 2, 6})>>,
    <<Obj(10, TRUE, {1, 2, 6}), Obj(12, FALSE, All), Obj(10, FALSE, All)>>,
    <<Obj(31, FALSE, All), Obj(20, TRUE, All), Obj(24, FALSE, {4, 5})>>,
    <<Obj(14, FALSE, {2}), Obj(15, FALSE, All), Obj(16, TRUE, All), Obj(40, FALSE, All)>>}

\* Where the window begins: 12 is the place of no object, 13 and 15 are; 24 is the
\* last but six of the screen, 31 is off it.  Of lines with 255, and of those without the
\* background, LineSpec promises when pixels come out and not which ones.
MCLines ==
    LET Any == [scx : {0, 255}, wx : {0, 6, 7, 13, 24, 30, 31}, wy_check : BOOLEAN,
                 bg_win_on : {TRUE}, win_on : {TRUE}, obj_on : BOOLEAN, objs : ObjLists]
        Some == {l \in Any : (l.wy_check \/ l.wx = 7) /\ (l.obj_on \/ Len(l.objs) = 3)}
        Plain == {l \in Some : l.scx = 255 /\ l.wx = 7 /\ l.wy_check}
    IN  Some \cup {[l EXCEPT !.wx = 255] : l \in Plain}
             \cup {[l EXCEPT !.bg_win_on = FALSE] : l \in Plain}

\* What the program sets registers to in the middle of a line.
MCWrites ==
    LET l == CHOOSE l \in MCLines : l.scx = 0 /\ l.wx = 24 /\ l.obj_on
    IN  {l, [l EXCEPT !.wx = 13], [l EXCEPT !.obj_on = FALSE], [l EXCEPT !.win_on = FALSE],
         [l EXCEPT !.bg_win_on = FALSE]}
==========================================================================
