------------------------------- MODULE Persist -------------------------------
(***************************************************************************)
(* kernel/fs/persist.c on top of Ramfs: the tree is written to the disk as *)
(* one image, sector by sector and over the one before, and read back at   *)
(* boot.  SYS_SYNC and SYS_EXIT save; a save runs with interrupts off, so  *)
(* nothing but a power loss comes between its sectors.                     *)
(*                                                                         *)
(* The image is a sequence of units: a name (with its length), a size and  *)
(* a byte are one unit each, as are the magic and the total at its start.  *)
(* A torn image may make the reader take any unit for any other, so they   *)
(* are all numbers.                                                        *)
(***************************************************************************)
EXTENDS Ramfs

CONSTANTS
    SectorUnits,    \* units in a sector
    BlobUnits,      \* units of the largest image, a multiple of SectorUnits
    MaxSaves,       \* bound: how often the tree is saved
    MaxBoots,       \* bound: how often the system is booted again
    MaxCalls        \* bound: calls after the first save

ASSUME PersistAssumption ==
    /\ SectorUnits \in Nat \ {0} /\ BlobUnits \in Nat /\ BlobUnits >= 2
    /\ MaxSaves \in Nat /\ MaxBoots \in Nat /\ MaxCalls \in Nat

VARIABLES
    disk,           \* the units of the persistence area
    todo,           \* the sectors a save has yet to write: [at, units]
    saves, boots, calls,
    (* observers *)
    saved,          \* the files when the last save ended
    torn,           \* a save was cut short, and none has ended since
    doubled         \* what was saved has two entries of one name in a directory

pvars == <<disk, todo, saves, boots, calls, saved, torn, doubled>>
vars  == <<rvars, pvars>>

Magic == 77
End   == <<255, 0>>                 \* closes a directory

-----------------------------------------------------------------------------
(***************************************************************************)
(* What a user sees: the path, type and content of every node.             *)
(***************************************************************************)
PathOf(tab, n) ==
    LET path[k \in 0..Cardinality(Nodes)] ==
            [x \in Nodes |->
                IF k = 0 \/ tab[x].parent = Null THEN << >>
                ELSE Append(path[k - 1][tab[x].parent], tab[x].name)]
    IN  path[Cardinality(Nodes)][n]

Files(tab, allocated) ==
    {[path |-> PathOf(tab, n), type |-> tab[n].type,
      content |-> SubSeq(tab[n].data, 1, tab[n].size)] : n \in allocated}

-----------------------------------------------------------------------------
(***************************************************************************)
(* ser_node and ramfs_serialize: the tree in preorder, children in the     *)
(* order of the list.                                                      *)
(***************************************************************************)
NoEnd(n, rest)   == <<NODE_DIR, node[n].name>> \o rest             \* mutant

DirImage(n, rest) == <<NODE_DIR, node[n].name>> \o rest \o End

FileImage(n) ==
    <<NODE_FILE, node[n].name, node[n].size>> \o SubSeq(node[n].data, 1, node[n].size)

SerNode ==
    LET ser[k \in 0..Cardinality(Nodes)] ==
            [n \in Nodes |->
                IF k = 0 THEN << >>
                ELSE IF node[n].type = NODE_FILE THEN FileImage(n)
                ELSE DirImage(n, Flat([i \in 1..Len(node[n].kids) |-> ser[k - 1][node[n].kids[i]]]))]
    IN  ser[Cardinality(Nodes)]

Serialized ==
    LET body == Flat([i \in 1..Len(node[Root].kids) |-> SerNode[node[Root].kids[i]]])
    IN  <<Magic, 2 + Len(body)>> \o body

(***************************************************************************)
(* deser_node and ramfs_deserialize.  The recursion is a walk along the    *)
(* image with the open directories, innermost last, in dirs.  It builds    *)
(* nodes as it goes; ramfs_create_file and ramfs_mkdir refuse a name that  *)
(* is there already, which here is cut before it is looked for.  On an     *)
(* error what has been built stays.                                        *)
(***************************************************************************)
Lowest(S) == CHOOSE n \in S : \A x \in S : n <= x

Stop(r) == [r EXCEPT !.on = FALSE]

Build(r, type, name) ==
    LET n == Lowest(Nodes \ r.in)
    IN  [r EXCEPT !.tab = Created(@, n, type, name, Last(r.dirs)), !.in = @ \cup {n}]

DeserFile(r, img, total) ==
    LET name == Cut(img[r.pos + 2])
        size == img[r.pos + 3]
        data == SubSeq(img, r.pos + 4, r.pos + 3 + size)
    IN  IF r.pos + 3 > total \/ r.pos + 3 + size > total
           \/ FindChild(r.tab, Last(r.dirs), name) # Null \/ r.in = Nodes
        THEN Stop(r)
        ELSE LET b == Build(r, NODE_FILE, name)
                 n == Lowest(Nodes \ r.in)
             IN  [b EXCEPT !.pos = @ + 3 + size,
                           !.tab[n] = IF size = 0 THEN @ ELSE RamfsWrite(@, data, 0)]

DeserDir(r, img) ==
    LET name == Cut(img[r.pos + 2])
    IN  IF FindChild(r.tab, Last(r.dirs), name) # Null \/ r.in = Nodes
        THEN Stop(r)
        ELSE [Build(r, NODE_DIR, name) EXCEPT !.pos = @ + 2,
                                               !.dirs = Append(@, Lowest(Nodes \ r.in))]

(***************************************************************************)
(* One turn of the loop.  The end mark closes the innermost directory; at  *)
(* the top it ends the image.  A mark with a name is skipped.              *)
(***************************************************************************)
DeserStep(r, img, total) ==
    IF ~r.on \/ r.pos + 2 > total THEN Stop(r)
    ELSE LET type == img[r.pos + 1]
         IN  IF type = 255
             THEN IF img[r.pos + 2] # 0 THEN [r EXCEPT !.pos = @ + 2]
                  ELSE IF Len(r.dirs) = 1 THEN Stop(r)
                  ELSE [r EXCEPT !.pos = @ + 2, !.dirs = Front(@)]
             ELSE IF type = NODE_FILE THEN DeserFile(r, img, total)
             ELSE IF type = NODE_DIR THEN DeserDir(r, img)
             ELSE Stop(r)

Deserialized(img, total) ==
    LET walk[k \in 0..BlobUnits] ==
            IF k = 0
            THEN [pos |-> 2, dirs |-> <<Root>>, tab |-> Empty, in |-> {Root}, on |-> TRUE]
            ELSE DeserStep(walk[k - 1], img, total)
    IN  walk[BlobUnits]

-----------------------------------------------------------------------------
Init ==
    /\ RInit
    /\ disk = [i \in 1..BlobUnits |-> 0]
    /\ todo = << >>
    /\ saves = 0 /\ boots = 0 /\ calls = 0
    /\ saved = Files(Empty, {Root})
    /\ torn = FALSE /\ doubled = FALSE

Idle == todo = << >>

Call ==
    /\ Idle /\ RNext
    /\ IF saves = 0 THEN calls' = calls ELSE calls < MaxCalls /\ calls' = calls + 1
    /\ UNCHANGED <<disk, todo, saves, boots, saved, torn, doubled>>

(***************************************************************************)
(* persist_save.  An image that does not fit is not written at all.  The   *)
(* last sector is filled up with what is behind the image in the buffer.   *)
(* Descriptors and redirections are not part of the image and are gone     *)
(* after a boot; only saves without any are looked at.                     *)
(***************************************************************************)
Sectors(img) ==
    LET count == (Len(img) + SectorUnits - 1) \div SectorUnits
    IN  [s \in 1..count |->
            [at |-> (s - 1) * SectorUnits,
             units |-> [i \in 1..SectorUnits |->
                          LET j == (s - 1) * SectorUnits + i
                          IN  IF j <= Len(img) THEN img[j] ELSE Junk]]]

Quiet == (\A f \in FDs : Free(f)) /\ (\A t \in Tasks : redir[t] = Nothing)

PersistSave ==
    /\ Idle /\ ~wild /\ Quiet /\ saves < MaxSaves
    /\ Len(Serialized) <= BlobUnits
    /\ todo' = Sectors(Serialized)
    /\ saves' = saves + 1
    /\ UNCHANGED <<rvars, disk, boots, calls, saved, torn, doubled>>

Distinct(tab, allocated) ==
    \A d \in allocated : \A i, j \in 1..Len(tab[d].kids) :
        i # j => tab[tab[d].kids[i]].name # tab[tab[d].kids[j]].name

(***************************************************************************)
(* ata_write_sectors: the next sector reaches the disk.                    *)
(***************************************************************************)
WriteSector ==
    /\ ~Idle
    /\ disk' = [i \in 1..BlobUnits |->
                  IF i - Head(todo).at \in 1..SectorUnits THEN Head(todo).units[i - Head(todo).at]
                  ELSE disk[i]]
    /\ todo' = Tail(todo)
    /\ IF Tail(todo) = << >>
       THEN saved' = Files(node, live) /\ torn' = FALSE /\ doubled' = ~Distinct(node, live)
       ELSE saved' = saved /\ torn' = TRUE /\ doubled' = doubled
    /\ UNCHANGED <<rvars, saves, boots, calls>>

(***************************************************************************)
(* The power goes, perhaps during a save, and the system boots:            *)
(* ramfs_init, file_init, persist_load.                                    *)
(***************************************************************************)
NoImage == disk[1] # Magic

Loaded ==
    LET total == IF disk[2] > BlobUnits THEN BlobUnits ELSE disk[2]
    IN  IF NoImage THEN [tab |-> Empty, in |-> {Root}] ELSE Deserialized(disk, total)

Boot ==
    /\ boots < MaxBoots
    /\ boots' = boots + 1
    /\ todo' = << >>
    /\ LET load == Loaded IN node' = load.tab /\ live' = load.in
    /\ cwd' = Root
    /\ fd' = [f \in FDs |-> NoFd]
    /\ redir' = [t \in Tasks |-> Nothing]
    /\ wild' = FALSE /\ owed' = [f \in FDs |-> {}]
    /\ cut' = {n \in live' : \E i \in 1..node'[n].size : node'[n].data[i] = Junk}
    /\ UNCHANGED <<disk, saves, calls, saved, torn, doubled>>

Next == Call \/ PersistSave \/ WriteSector \/ Boot

Spec == Init /\ [][Next]_vars

-----------------------------------------------------------------------------
(***************************************************************************)
(* The types of Ramfs, and a disk of units.                                *)
(***************************************************************************)
TypeOK == RTypeOK /\ disk \in [1..BlobUnits -> Nat] /\ torn \in BOOLEAN /\ doubled \in BOOLEAN

(***************************************************************************)
(* What is read at boot is what the last save wrote: the same paths, types *)
(* and contents, though the order of entries is turned round, and whatever *)
(* an earlier and longer image has left behind the end of the new one.  A  *)
(* tree too large to be saved leaves the one saved before.  Excepted is a  *)
(* boot after a save that was cut short.  Where two entries of a directory *)
(* have the same name the reader stops at the second: then what is there   *)
(* after the boot was saved, but something may be missing.                 *)
(***************************************************************************)
Restored ==
    [][boots' # boots /\ ~torn =>
          /\ Files(node', live') \subseteq saved
          /\ ~doubled => Files(node', live') = saved]_vars
=============================================================================
