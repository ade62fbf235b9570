-------------------------------- MODULE Fat16 --------------------------------
(***************************************************************************)
(* The FAT16 driver, kernel/fs/fat16.c, with power losses.  The driver     *)
(* keeps nothing in memory between two calls, and a call runs to its end   *)
(* with interrupts off, so the sector writes of a call are determined by   *)
(* the disk it finds.  ata_write_sectors flushes the disk's cache, so the  *)
(* writes reach the disk one by one and in order: a call is the sequence   *)
(* of its writes, and a power loss cuts the sequence short.                *)
(*                                                                         *)
(* A FAT sector write changes one entry.  Sizes are in bytes: a cluster is *)
(* SectorsPerCluster sectors of SectorSize bytes, and a file's last sector *)
(* is filled up with zeros.                                                *)
(***************************************************************************)
EXTENDS Integers, Sequences, SequencesExt

CONSTANTS
    NUM_FATS,       \* copies of the FAT
    MaxCluster,     \* the last entry of the FAT that alloc_cluster looks at
    ROOT_ENTRIES,   \* slots of the root directory
    Names,          \* 8.3 names
    SectorSize,     \* bytes_per_sector
    SectorsPerCluster,
    Bytes,          \* what a byte may be
    Contents,       \* the contents given to fat16_write_file
    MaxLosses       \* bound: how often the power is lost

ASSUME FatAssumption ==
    /\ NUM_FATS \in Nat \ {0} /\ MaxCluster \in 2..(65520 - 1)
    /\ ROOT_ENTRIES \in Nat \ {0} /\ MaxLosses \in Nat
    /\ SectorSize \in Nat \ {0} /\ SectorsPerCluster \in Nat \ {0}
    /\ Contents \subseteq Seq(Bytes)

Clusters == 2..MaxCluster
Free     == 0
EOC      == 65535                   \* 0xFFFF ends a chain
Zero     == "zero"                  \* the byte 0
Never    == "never used"            \* name[0] = 0: the end of the directory
Deleted  == "deleted"               \* name[0] = 0xE5
NoFile   == <<"no file">>           \* the content of a file that is not there
Slots    == 1..ROOT_ENTRIES
Sectors  == [0..(SectorSize - 1) -> Bytes]                  \* what a sector may hold
Places   == 0..(SectorsPerCluster - 1)                      \* the sectors of a cluster

ASSUME NamesAssumption ==
    {Never, Deleted} \cap Names = {} /\ "no file" \notin Bytes /\ Zero \in Bytes

VARIABLES
    (* the disk *)
    fat,            \* the copies of the FAT
    dir,            \* the root directory: [name, first, size] per slot
    data,           \* the data region: the sectors of each cluster
    (* the call that is running *)
    todo,           \* the sector writes it has not made yet
    begun,          \* it has made one
    call,           \* the file it is about and what it is to hold in the end
    (* observers *)
    expect,         \* what the callers have been told each file holds
    torn,           \* files whose deletion has been cut short
    late,           \* files written after that
    stranded,       \* a write has found the directory full
    losses

disk == <<fat, dir, data>>
vars == <<fat, dir, data, todo, begun, call, expect, torn, late, stranded, losses>>

-----------------------------------------------------------------------------
(***************************************************************************)
(* fat_get reads the first copy.  A chain is followed while the entry is   *)
(* the number of a cluster (2 <= cluster < 0xFFF8); free_chain clears what *)
(* it has passed, so it never passes a cluster twice.                      *)
(***************************************************************************)
IsCluster(c) == c \in Clusters

Chain(f, c) ==
    LET walk[n \in 0..MaxCluster] ==
            IF n = 0 THEN IF IsCluster(c) THEN <<c>> ELSE << >>
            ELSE LET s == walk[n - 1]
                     x == IF s = << >> THEN Free ELSE f[s[Len(s)]]
                 IN  IF IsCluster(x) /\ x \notin Range(s) THEN Append(s, x) ELSE s
    IN  walk[MaxCluster]

(***************************************************************************)
(* find_root_entry and the scan of fat16_delete_file: the first slot of    *)
(* that name before the end of the directory.                              *)
(***************************************************************************)
Holds(d, name, s) ==
    /\ d[s].name = name
    /\ \A r \in Slots : r < s => d[r].name \notin {name, Never}

(***************************************************************************)
(* The bytes of a cluster, and the clusters a size is rounded up to.       *)
(***************************************************************************)
ClusterSize == SectorsPerCluster * SectorSize

OneMore(size) == size \div ClusterSize + 1      \* mutant: the round-up adds a cluster to full ones

NumClusters(size) == (size + ClusterSize - 1) \div ClusterSize

NumSectors(size) == (size + SectorSize - 1) \div SectorSize

(***************************************************************************)
(* The place of a file's n-th sector, n = 0, 1..., along its clusters.     *)
(***************************************************************************)
ClusterAt(cs, n) == cs[n \div SectorsPerCluster + 1]
PlaceAt(n) == n % SectorsPerCluster

(***************************************************************************)
(* fat16_read_file: sector after sector of the clusters along the chain,   *)
(* until the size or the end of the chain is reached.                      *)
(***************************************************************************)
ByteAt(b, ch, i) ==
    LET n == (i - 1) \div SectorSize
    IN  b[ClusterAt(ch, n)][PlaceAt(n)][(i - 1) % SectorSize]

ReadFile(name) ==
    IF ~ \E s \in Slots : Holds(dir, name, s)
    THEN NoFile
    ELSE LET e == dir[CHOOSE s \in Slots : Holds(dir, name, s)]
             ch == Chain(fat[1], e.first)
             z == Len(ch) * ClusterSize
         IN  [i \in 1..(IF z < e.size THEN z ELSE e.size) |-> ByteAt(data, ch, i)]

-----------------------------------------------------------------------------
(***************************************************************************)
(* Sector writes.  fat_set writes every copy of the FAT.                   *)
(***************************************************************************)
FirstCopyOnly(c, v) == <<[at |-> "fat", copy |-> 1, cluster |-> c, value |-> v]>>  \* mutant

FatSet(c, v) ==
    [k \in 1..NUM_FATS |-> [at |-> "fat", copy |-> k, cluster |-> c, value |-> v]]

DataWrite(c, p, b) == [at |-> "data", cluster |-> c, place |-> p, value |-> b]

DirWrite(s, n, c, z) ==
    [at |-> "dir", slot |-> s, value |-> [name |-> n, first |-> c, size |-> z]]

FreeAll(cs) == FlattenSeq([n \in 1..Len(cs) |-> FatSet(cs[n], Free)])

FreeChain(f, c) == FreeAll(Chain(f, c))

Cleared(f, c) == [x \in DOMAIN f |-> IF x \in Range(Chain(f, c)) THEN Free ELSE f[x]]

(***************************************************************************)
(* fat16_delete_file: free the chain, then mark the slot.                  *)
(***************************************************************************)
DeleteAt(s) ==
    FreeChain(fat[1], dir[s].first)
        \o <<DirWrite(s, Deleted, dir[s].first, dir[s].size)>>

DeleteWrites(name) ==
    IF \E s \in Slots : Holds(dir, name, s)
    THEN DeleteAt(CHOOSE s \in Slots : Holds(dir, name, s))
    ELSE << >>

(***************************************************************************)
(* The FAT and the directory as fat16_write_file finds them after it has   *)
(* deleted the old file.                                                   *)
(***************************************************************************)
FatAfterDelete(name) ==
    IF \E s \in Slots : Holds(dir, name, s)
    THEN Cleared(fat[1], dir[CHOOSE s \in Slots : Holds(dir, name, s)].first)
    ELSE fat[1]

DirAfterDelete(name) ==
    [s \in Slots |-> IF Holds(dir, name, s) THEN [dir[s] EXCEPT !.name = Deleted] ELSE dir[s]]

LooksFree(v) == v \in {Free, EOC}   \* mutant: the end of a chain is taken for free

IsFree(v) == v = Free

(***************************************************************************)
(* alloc_cluster n times: the n lowest free clusters, fewer if the disk    *)
(* is full.                                                                *)
(***************************************************************************)
AllocClusters(f, n) ==
    LET got[k \in 0..n] ==
            IF k = 0 THEN << >>
            ELSE LET s == got[k - 1]
                     left == {c \in Clusters : IsFree(f[c]) /\ c \notin Range(s)}
                 IN  IF left = {} THEN s
                     ELSE Append(s, CHOOSE c \in left : \A x \in left : c <= x)
    IN  got[n]

(***************************************************************************)
(* Each new cluster is marked as an end and then linked to from the one    *)
(* before it; the last one is marked once more.                            *)
(***************************************************************************)
LinkClusters(cs) ==
    FlattenSeq([n \in 1..Len(cs) |->
        FatSet(cs[n], EOC) \o IF n = 1 THEN << >> ELSE FatSet(cs[n - 1], cs[n])])

NoGiveBack(cs) == << >>             \* mutant: a write that fails keeps its clusters

GiveBack(cs) == FreeAll(cs)         \* free_chain(first)

(***************************************************************************)
(* The data: sector after sector, the last one padded.                     *)
(***************************************************************************)
SectorOf(content, n) ==
    [x \in 0..(SectorSize - 1) |->
        IF n * SectorSize + x < Len(content) THEN content[n * SectorSize + x + 1] ELSE Zero]

DataWrites(cs, content) ==
    [n \in 1..NumSectors(Len(content)) |->
        DataWrite(ClusterAt(cs, n - 1), PlaceAt(n - 1), SectorOf(content, n - 1))]

(***************************************************************************)
(* write_root_dirent: the first slot that is free, if there is one.        *)
(***************************************************************************)
DirentWrites(d, name, first, size) ==
    LET open == {s \in Slots : d[s].name \in {Never, Deleted}}
    IN  IF open = {} THEN << >>
        ELSE <<DirWrite(CHOOSE s \in open : \A r \in open : s <= r, name, first, size)>>

EntryFirst(links, blocks, entry) == links \o entry \o blocks       \* mutant

InOrder(links, blocks, entry) == links \o blocks \o entry

(***************************************************************************)
(* fat16_write_file: delete the old file, allocate and link clusters,      *)
(* write the data, write the directory entry.  When the disk is full the   *)
(* clusters are given back and there is no entry; when the directory is    *)
(* full the clusters stay allocated.                                       *)
(***************************************************************************)
WriteWrites(name, content) ==
    LET need  == NumClusters(Len(content))
        cs    == AllocClusters(FatAfterDelete(name), need)
        first == IF cs = << >> THEN 0 ELSE cs[1]
    IN  DeleteWrites(name) \o
        IF Len(cs) < need
        THEN LinkClusters(cs) \o GiveBack(cs)
        ELSE InOrder(LinkClusters(cs) \o IF cs = << >> THEN << >> ELSE FatSet(cs[Len(cs)], EOC),
                     DataWrites(cs, content),
                     DirentWrites(DirAfterDelete(name), name, first, Len(content)))

(***************************************************************************)
(* Whether the call can succeed, from its first look at the disk.          *)
(***************************************************************************)
DiskFull(name, content) ==
    LET need == NumClusters(Len(content))
    IN  Len(AllocClusters(FatAfterDelete(name), need)) < need

DirFull(name) == \A s \in Slots : DirAfterDelete(name)[s].name \notin {Never, Deleted}

-----------------------------------------------------------------------------
(***************************************************************************)
(* A freshly formatted partition.                                          *)
(***************************************************************************)
Init ==
    /\ fat = [k \in 1..NUM_FATS |-> [c \in Clusters |-> Free]]
    /\ dir = [s \in Slots |-> [name |-> Never, first |-> 0, size |-> 0]]
    /\ data = [c \in Clusters |-> [p \in Places |-> [x \in 0..(SectorSize - 1) |-> Zero]]]
    /\ todo = << >>
    /\ begun = FALSE
    /\ call = [name |-> Never, content |-> NoFile]
    /\ expect = [n \in Names |-> NoFile]
    /\ torn = {}
    /\ late = {}
    /\ stranded = FALSE
    /\ losses = 0

Idle == todo = << >>

(***************************************************************************)
(* SYS_FAT_WRITE and SYS_FAT_DELETE.  A call that writes no sector returns *)
(* at once.                                                                *)
(***************************************************************************)
Fat16WriteFile(name, content) ==
    /\ Idle
    /\ todo' = WriteWrites(name, content)
    /\ call' = [name |-> name,
                content |-> IF DiskFull(name, content) \/ DirFull(name) THEN NoFile ELSE content]
    /\ begun' = FALSE
    /\ expect' = IF todo' = << >> THEN [expect EXCEPT ![name] = call'.content] ELSE expect
    /\ stranded' = (stranded \/ DirFull(name))
    /\ late' = IF torn = {} THEN late ELSE late \cup {name}
    /\ UNCHANGED <<disk, torn, losses>>

Fat16DeleteFile(name) ==
    /\ Idle
    /\ todo' = DeleteWrites(name)
    /\ call' = [name |-> name, content |-> NoFile]
    /\ begun' = FALSE
    /\ expect' = IF todo' = << >> THEN [expect EXCEPT ![name] = NoFile] ELSE expect
    /\ UNCHANGED <<disk, torn, late, stranded, losses>>

(***************************************************************************)
(* ata_write_sectors: the next sector reaches the disk; with the last one  *)
(* the call returns.                                                       *)
(***************************************************************************)
WriteSector ==
    /\ ~Idle
    /\ LET w == Head(todo)
       IN  /\ fat' = IF w.at = "fat" THEN [fat EXCEPT ![w.copy][w.cluster] = w.value] ELSE fat
           /\ data' = IF w.at = "data" THEN [data EXCEPT ![w.cluster][w.place] = w.value] ELSE data
           /\ dir' = IF w.at = "dir" THEN [dir EXCEPT ![w.slot] = w.value] ELSE dir
    /\ todo' = Tail(todo)
    /\ begun' = TRUE
    /\ expect' = IF Tail(todo) = << >> THEN [expect EXCEPT ![call.name] = call.content] ELSE expect
    /\ UNCHANGED <<call, torn, late, stranded, losses>>

(***************************************************************************)
(* The power is lost between two sector writes.  The old file is torn when *)
(* some of its chain is freed and its entry is still there; otherwise the  *)
(* file is there if its entry is.                                          *)
(***************************************************************************)
Listed(name) == \E s \in Slots : Holds(dir, name, s)

DeletePending == \E i \in 1..Len(todo) : todo[i].at = "dir" /\ todo[i].value.name = Deleted

PowerLoss ==
    /\ ~Idle /\ begun /\ losses < MaxLosses
    /\ todo' = << >>
    /\ losses' = losses + 1
    /\ torn' = IF DeletePending THEN torn \cup {call.name} ELSE torn
    /\ expect' = [expect EXCEPT ![call.name] =
                    IF DeletePending THEN @ ELSE IF Listed(call.name) THEN call.content ELSE NoFile]
    /\ UNCHANGED <<disk, begun, call, late, stranded>>

Next ==
    \/ \E n \in Names, c \in Contents : Fat16WriteFile(n, c)
    \/ \E n \in Names : Fat16DeleteFile(n)
    \/ WriteSector
    \/ PowerLoss

Spec == Init /\ [][Next]_vars

-----------------------------------------------------------------------------
(***************************************************************************)
(* Every FAT entry is free, an end or a cluster, and every directory entry *)
(* that is in use has a first cluster exactly if it has a size.            *)
(***************************************************************************)
TypeOK ==
    /\ fat \in [1..NUM_FATS -> [Clusters -> {Free, EOC} \cup Clusters]]
    /\ \A s \in Slots :
        /\ dir[s].name \in Names \cup {Never, Deleted}
        /\ dir[s].size = 0 <=> dir[s].first = 0
        /\ dir[s].first \in {0} \cup Clusters
    /\ data \in [Clusters -> [Places -> Sectors]]
    /\ torn \subseteq Names
    /\ losses \in 0..MaxLosses

InUse == {s \in Slots : dir[s].name \in Names}

(***************************************************************************)
(* The files whose entry and chain are not just being changed.             *)
(***************************************************************************)
Settled(name) == Idle \/ name # call.name

(***************************************************************************)
(* Every file reads as it was last written, through any sequence of        *)
(* writes, overwrites and deletions on a full disk or an empty one.  A     *)
(* power loss while a file is being written leaves all others alone, and   *)
(* the new file is there whole or not at all, because its directory entry  *)
(* is written last.  A deletion that is cut short leaves an entry whose    *)
(* clusters are free; it is excepted with the files written afterwards,    *)
(* which may be given those clusters, and all the others stay intact       *)
(* whatever is done with these.                                            *)
(***************************************************************************)
Intact ==
    \A n \in Names \ (torn \cup late) : Settled(n) => ReadFile(n) = expect[n]

(***************************************************************************)
(* No two files share a cluster, no name is in the directory twice, and    *)
(* every chain has the clusters the size in its entry needs, and ends.     *)
(***************************************************************************)
ChainsApart ==
    torn = {} =>
        \A s, r \in {x \in InUse : Settled(dir[x].name)} :
            LET ch == Chain(fat[1], dir[s].first)
            IN  /\ Len(ch) = NumClusters(dir[s].size)
                /\ ch # << >> => fat[1][ch[Len(ch)]] = EOC
                /\ s # r => /\ dir[s].name # dir[r].name
                            /\ Range(ch) \cap Range(Chain(fat[1], dir[r].first)) = {}

(***************************************************************************)
(* Both copies of the FAT are kept the same: between two calls they differ *)
(* only after a power loss.                                                *)
(***************************************************************************)
FatsAgree == Idle /\ losses = 0 => \A k \in 1..NUM_FATS : fat[k] = fat[1]

(***************************************************************************)
(* No cluster is lost: between two calls every cluster that is not free    *)
(* belongs to a file, also after a write that did not fit on the disk.     *)
(* Power losses and writes that found the directory full are excepted.     *)
(***************************************************************************)
NoLeak ==
    Idle /\ losses = 0 /\ ~stranded =>
        \A c \in Clusters : fat[1][c] # Free =>
            \E s \in InUse : c \in Range(Chain(fat[1], dir[s].first))
=============================================================================
