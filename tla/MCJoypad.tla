----------------------------- MODULE MCJoypad -----------------------------
(***************************************************************************)
(* An instance of Joypad for TLC: B and A, LEFT and RIGHT, so that two lines *)
(* have a button of each group.                                              *)
(***************************************************************************)
EXTENDS Joypad, TLC

\* B and LEFT on line 1, A and RIGHT on line 0, in the order of the code.
SomeLines == <<0, 1, 0>> @@ (0 :> 1)
SomeGroups == <<ActionBit, DirectionBit, DirectionBit>> @@ (0 :> ActionBit)

\* Every selection, also with the lines written as 0.
SomeJoyps == {{}, {4}, {5}, {0, 1, 2, 3, 4, 5}}
==========================================================================
