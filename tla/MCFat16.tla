------------------------------- MODULE MCFat16 -------------------------------
(***************************************************************************)
(* Three files in a directory of two slots and on a disk of three clusters *)
(* of two sectors of two bytes: both fill up.  Contents are empty, fill    *)
(* one cluster exactly, or are one byte longer, so that they need a second *)
(* cluster, one sector of it and half of that.  The names are              *)
(* interchangeable.                                                        *)
(***************************************************************************)
EXTENDS Fat16, TLC

CONSTANTS a, b, c

Files    == {a, b, c}
Symmetry == Permutations(Files)

MCContents == {<< >>, <<"p", "q", "p", "r">>, <<"q", "r", "r", "p", "q">>}
=============================================================================
