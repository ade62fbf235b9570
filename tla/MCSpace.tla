------------------------------ MODULE MCSpace ------------------------------
(***************************************************************************)
(* Space for TLC.                                                          *)
(***************************************************************************)
EXTENDS Space

MCMemories == 25..29 \cup {39}
MCHeaps == {2, 3, 4}
=============================================================================
