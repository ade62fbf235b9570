------------------------------ MODULE MCPersist ------------------------------
(***************************************************************************)
(* Files for TLC.  A file 7, a directory 8, and 9, a name too long: it is  *)
(* kept as 8 and looked up as 8/7.  Of the addresses calls use two, the    *)
(* others are for the nodes a torn image may name.                         *)
(*                                                                         *)
(* The image does not hold redirections, so the initial state picks one of *)
(* two parts that are explored side by side and not multiplied: files and  *)
(* their image without redirections, or tasks that redirect their input    *)
(* and output to the file without saves.                                   *)
(***************************************************************************)
EXTENDS Persist

VARIABLE part

Abs(c) == [abs |-> TRUE, comps |-> c]
Rel(c) == [abs |-> FALSE, comps |-> c]

MCStored == [n \in Names |-> IF n = 9 THEN 8 ELSE n]
MCPieces == [n \in Names |-> IF n = 9 THEN <<8, 7>> ELSE <<n>>]

MCFilePaths == {Rel(<<7>>), Rel(<<9>>)}
MCDirPaths  == {Abs(<<8>>), Rel(<<Up>>)}

MCSymmetry == Permutations(Tasks)

MCInit == Init /\ part \in {"image", "tasks"}

OneFile ==
    /\ cwd' = Root /\ Cardinality(live') <= 2
    /\ \A n \in live' : node'[n].type = NODE_FILE => node'[n].name # 8

MCNext ==
    /\ \/ part = "image" /\ Next /\ redir' = redir
       \/ part = "tasks" /\ Call /\ OneFile
    /\ UNCHANGED part

MCSpec == MCInit /\ [][MCNext]_<<vars, part>>
=============================================================================
