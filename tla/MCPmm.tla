-------------------------------- MODULE MCPmm --------------------------------
(***************************************************************************)
(* Pages of 4 bytes, eight at most.  The memory maps have two regions that *)
(* may be unaligned, overlap, lie beyond MAX_MEMORY or not be memory; one  *)
(* reserved range is in the low memory, the other above it and unaligned.  *)
(***************************************************************************)
EXTENDS Pmm

Region(a, l, t) == [addr |-> a, len |-> l, type |-> t]

MCMemoryMaps ==
    {{Region(0, l, 1), Region(a, n, t)} :
        l \in {7, 17}, a \in {10, 16, 22}, n \in {6, 9, 30}, t \in {1, 2}}

MCReserved == {<<4, 7>>, <<18, 25>>}
=============================================================================
