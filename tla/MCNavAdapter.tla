---------------------------- MODULE MCNavAdapter ----------------------------
(* Navigates and cancels of two commands by one or two requests at a time. *)
EXTENDS NavAdapter, TLC
CONSTANTS c1, c2, h1, h2

TwoCommands == {c1, c2}
OneHandler == {h1}
TwoHandlers == {h1, h2}

(* For the runs that check invariants only. *)
Alike == Permutations(TwoCommands) \cup Permutations(TwoHandlers)
=============================================================================
