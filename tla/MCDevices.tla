----------------------------- MODULE MCDevices -----------------------------
(***************************************************************************)
(* The devices for TLC.  The keyboard, the desktop and the network card    *)
(* share no variable and no handler, so their behaviours are explored side *)
(* by side and not multiplied: the initial state picks the device whose    *)
(* steps are taken, the others stay as they start.  The keyboard is not    *)
(* followed past a race of two readers, from where nothing is promised.    *)
(***************************************************************************)
EXTENDS Keyboard, Gui, E1000, TLC

VARIABLE device

vars == <<kvars, gvars, nvars, device>>

Init ==
    /\ device \in {"keyboard", "desktop", "card"}
    /\ KInit /\ GInit /\ NInit

Next ==
    \/ device = "keyboard" /\ ~raced /\ KNext /\ UNCHANGED <<gvars, nvars, device>>
    \/ device = "desktop" /\ GNext /\ UNCHANGED <<kvars, nvars, device>>
    \/ device = "card" /\ NNext /\ UNCHANGED <<kvars, gvars, device>>

(***************************************************************************)
(* The two readers of the keyboard run the same code.                      *)
(***************************************************************************)
ReaderSymmetry == Permutations(Readers)

Spec == Init /\ [][Next]_vars
=============================================================================
