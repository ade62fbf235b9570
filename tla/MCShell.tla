------------------------------- MODULE MCShell -------------------------------
(***************************************************************************)
(* The instances of Shell that TLC checks.                                 *)
(***************************************************************************)
EXTENDS Shell

MCSleepMs == {10}
NoVictim  == {}
HelloPid  == {2}
Programs  == {2, 3}
=============================================================================
