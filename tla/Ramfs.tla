-------------------------------- MODULE Ramfs --------------------------------
(***************************************************************************)
(* The file system in memory, kernel/fs/ramfs.c, the descriptor table of   *)
(* kernel/fs/file.c and the redirections of tasks, with the system calls   *)
(* on them.  The table and the working directory are shared by all tasks,  *)
(* and a call runs to its end with interrupts off.                         *)
(*                                                                         *)
(* Nodes are addresses.  Unlinking frees a node whoever points to it; the  *)
(* next node that is allocated may get its address.  What a call does with *)
(* freed memory is undefined: the model records that it happens (wild) and *)
(* says nothing about what follows.                                        *)
(*                                                                         *)
(* Names are numbers.  A node keeps the first RAMFS_NAME_MAX - 1           *)
(* characters of its name, a path is cut into components of at most as     *)
(* many, but a name about to be created is compared as it is.              *)
(***************************************************************************)
EXTENDS Integers, Sequences, SequencesExt, FiniteSets

CONSTANTS
    Nodes,          \* addresses of nodes, numbers above 0
    Names,          \* what may stand between two slashes of a path
    Stored,         \* what str_copy keeps of a name
    Pieces,         \* the components that ramfs_lookup makes of it
    FilePaths,      \* paths of files in the calls: [abs, comps]
    DirPaths,       \* paths of directories in the calls
    FDs,            \* descriptors, 3..(MAX_FD - 1)
    Tasks,          \* tasks that may have redirections
    Bytes,          \* what is written
    MinCap,         \* the first capacity of a file, 64 in the code
    CallNodes,      \* bound: the addresses that the calls allocate
    MaxSize         \* bound: the largest file

NODE_FILE == 0
NODE_DIR  == 1
Null      == 0
Junk      == 99                     \* what kmalloc leaves in a buffer
NoName    == 0                      \* the empty name
Up        == 46                     \* the component ".."

ASSUME RamfsAssumption ==
    /\ CallNodes \subseteq Nodes
    /\ Nodes \subseteq Nat \ {Null} /\ Nodes # {} /\ IsFiniteSet(Nodes)
    /\ Names \subseteq Nat
    /\ Stored \in [Names -> Names] /\ \A n \in Names : Stored[Stored[n]] = Stored[n]
    /\ Pieces \in [Names -> Seq(Names)]
    /\ \A p \in FilePaths \cup DirPaths : /\ p.abs \in BOOLEAN
                                           /\ p.comps \in Seq(Names) /\ p.comps # << >>
    /\ FDs \subseteq Nat /\ Bytes \subseteq Nat \ {Junk} /\ MinCap \in Nat \ {0}

Root == CHOOSE n \in Nodes : \A x \in Nodes : n <= x

VARIABLES
    node,           \* what is at each address: [name, type, parent, kids, data, size]
    live,           \* the addresses that are allocated
    cwd,            \* the working directory
    fd,             \* the descriptor table
    redir,          \* stdin and stdout of each task: [node, pos]
    (* observers *)
    wild,           \* a freed node has been used
    cut,            \* files a position may lie beyond the end of
    owed            \* per descriptor of a directory: entries it has yet to return

rvars == <<node, live, cwd, fd, redir, wild, cut, owed>>

NoFd == [node |-> Null, pos |-> 0, dir |-> FALSE]
Free(f) == fd[f].node = Null        \* used = 0

-----------------------------------------------------------------------------
(***************************************************************************)
(* str_copy into the name of a node.                                       *)
(***************************************************************************)
Cut(name) == IF name \in Names THEN Stored[name] ELSE name

(***************************************************************************)
(* ramfs_find_child: the first entry with this name, which is compared     *)
(* uncut.                                                                  *)
(***************************************************************************)
FindChild(tab, dir, name) ==
    LET hit == {i \in 1..Len(tab[dir].kids) : tab[tab[dir].kids[i]].name = name}
    IN  IF tab[dir].type # NODE_DIR \/ hit = {} THEN Null
        ELSE tab[dir].kids[CHOOSE i \in hit : \A j \in hit : i <= j]

(***************************************************************************)
(* ramfs_lookup: ".." goes up from a file as well as from a directory, "." *)
(* and an empty component are skipped (they have no pieces), and what is   *)
(* longer than a name is taken for several components.                     *)
(***************************************************************************)
Flat(seqs) ==
    LET joined[i \in 0..Len(seqs)] ==
            IF i = 0 THEN << >> ELSE joined[i - 1] \o seqs[i]
    IN  joined[Len(seqs)]

Steps(comps) == Flat([i \in 1..Len(comps) |-> Pieces[comps[i]]])

Step(cur, c) ==
    IF cur = Null THEN Null
    ELSE IF c # Up THEN FindChild(node, cur, c)
    ELSE IF node[cur].parent = Null THEN cur ELSE node[cur].parent

Start(p) == IF p.abs THEN Root ELSE cwd

Walk(p, steps) ==
    LET at[i \in 0..Len(steps)] == IF i = 0 THEN Start(p) ELSE Step(at[i - 1], steps[i])
    IN  at[Len(steps)]

NoPath(p) == ~p.abs /\ p.comps = <<NoName>>

Lookup(p) == IF NoPath(p) THEN Null ELSE Walk(p, Steps(p.comps))

(***************************************************************************)
(* file_open and SYS_MKDIR split a path at its last slash.                 *)
(***************************************************************************)
ParentOf(p) == Walk(p, Steps(Front(p.comps)))

(***************************************************************************)
(* node_alloc, ramfs_create_file and ramfs_mkdir: a fresh node at address  *)
(* n, put at the head of the children of dir.  The name is looked for      *)
(* uncut, so two names that are cut to the same one are both created.      *)
(***************************************************************************)
NewNode(type, name, dir) ==
    [name |-> Cut(name), type |-> type, parent |-> dir, kids |-> << >>, data |-> << >>, size |-> 0]

InFront(n, kids) == <<n>> \o kids

Created(tab, n, type, name, dir) ==
    [tab EXCEPT ![n] = NewNode(type, name, dir), ![dir].kids = InFront(n, @)]

MayCreate(dir, name) ==
    /\ dir # Null
    /\ node[dir].type = NODE_DIR /\ FindChild(node, dir, name) = Null

(***************************************************************************)
(* Whether somebody, with the redirections r, is past the start of n: a    *)
(* node that is allocated at the address of a removed one is taken for it  *)
(* by those that still point there.                                        *)
(***************************************************************************)
Passed(n, r) ==
    \/ \E f \in FDs : fd[f].node = n /\ fd[f].pos > 0
    \/ \E t \in Tasks, w \in 0..1 : r[t][w].node = n /\ r[t][w].pos > 0

Pointed(n) ==
    \/ n = cwd
    \/ \E f \in FDs : fd[f].node = n
    \/ \E t \in Tasks, w \in 0..1 : redir[t][w].node = n

(***************************************************************************)
(* kmalloc returns any free address.  Those nobody points to are           *)
(* interchangeable, and the lowest of them stands for all.                 *)
(***************************************************************************)
Addresses ==
    {n \in CallNodes \ live : Pointed(n) \/ \A x \in CallNodes \ live : x < n => Pointed(x)}

Allocate(n, type, name, dir) ==
    /\ n \in Addresses
    /\ node' = Created(node, n, type, name, dir)
    /\ live' = live \cup {n}
    /\ cut' = IF Passed(n, redir) THEN cut \cup {n} ELSE cut \ {n}

(***************************************************************************)
(* ramfs_write.  The buffer doubles until it is large enough; what was in  *)
(* the file is copied, the rest of the new buffer is what kmalloc left.    *)
(***************************************************************************)
KeepCap(cap, need) == cap           \* mutant: no doubling

Grow(cap, need) ==
    LET grown[k \in 0..need] ==
            IF k = 0 THEN cap
            ELSE IF grown[k - 1] < need THEN 2 * grown[k - 1] ELSE grown[k - 1]
    IN  grown[need]

NotCopied(data, size, cap) == [i \in 1..cap |-> Junk]              \* mutant

Enlarged(data, size, cap) == [i \in 1..cap |-> IF i <= size THEN data[i] ELSE Junk]

RamfsWrite(x, bytes, off) ==
    LET need == off + Len(bytes)
        room == IF need <= Len(x.data) THEN x.data
                ELSE Enlarged(x.data, x.size,
                              Grow(IF x.data = << >> THEN MinCap ELSE Len(x.data), need))
    IN  [x EXCEPT !.data = [i \in 1..Len(room) |->
                              IF i \in (off + 1)..need THEN bytes[i - off] ELSE room[i]],
                  !.size = IF need > @ THEN need ELSE @]

(***************************************************************************)
(* ramfs_read: how many of n bytes are there from off on.                  *)
(***************************************************************************)
RamfsRead(x, n, off) ==
    IF off >= x.size THEN 0 ELSE IF n > x.size - off THEN x.size - off ELSE n

-----------------------------------------------------------------------------
(***************************************************************************)
(* ramfs_init and file_init.                                               *)
(***************************************************************************)
Empty == [n \in Nodes |-> NewNode(IF n = Root THEN NODE_DIR ELSE NODE_FILE, 0, Null)]

Nothing == [w \in 0..1 |-> [node |-> Null, pos |-> 0]]

RInit ==
    /\ node = Empty
    /\ live = {Root}
    /\ cwd = Root
    /\ fd = [f \in FDs |-> NoFd]
    /\ redir = [t \in Tasks |-> Nothing]
    /\ wild = FALSE
    /\ cut = {}
    /\ owed = [f \in FDs |-> {}]

(***************************************************************************)
(* A call touches the working directory if its path is relative, and the   *)
(* node a descriptor or a redirection points to.                           *)
(***************************************************************************)
Reaches(p) == ~wild /\ (p.abs \/ cwd \in live)

LowestFree(f) == Free(f) /\ \A g \in FDs : g < f => ~Free(g)

TableFull == \A f \in FDs : ~Free(f)

(***************************************************************************)
(* SYS_OPEN: a file that does not exist is created, also when there is no  *)
(* descriptor left for it.                                                 *)
(***************************************************************************)
OpenAt(n) ==
    /\ \/ \E f \in FDs : LowestFree(f) /\ fd' = [fd EXCEPT ![f] = [NoFd EXCEPT !.node = n]]
       \/ TableFull /\ UNCHANGED fd
    /\ UNCHANGED <<cwd, redir, wild, owed>>

FileOpen(p) ==
    /\ Reaches(p) /\ Lookup(p) # Null /\ node[Lookup(p)].type = NODE_FILE
    /\ OpenAt(Lookup(p))
    /\ UNCHANGED <<node, live, cut>>

FileOpenNew(p) ==
    /\ Reaches(p) /\ Lookup(p) = Null /\ MayCreate(ParentOf(p), Last(p.comps))
    /\ \E n \in Nodes : Allocate(n, NODE_FILE, Last(p.comps), ParentOf(p)) /\ OpenAt(n)

(***************************************************************************)
(* SYS_OPENDIR, SYS_CLOSE.                                                 *)
(***************************************************************************)
DirOpen(p) ==
    /\ Reaches(p) /\ Lookup(p) # Null /\ node[Lookup(p)].type = NODE_DIR
    /\ \E f \in FDs :
        /\ LowestFree(f)
        /\ fd' = [fd EXCEPT ![f] = [node |-> Lookup(p), pos |-> 0, dir |-> TRUE]]
        /\ owed' = [owed EXCEPT ![f] = ToSet(node[Lookup(p)].kids)]
    /\ UNCHANGED <<node, live, cwd, redir, wild, cut>>

FileClose(f) ==
    /\ ~wild /\ ~Free(f)
    /\ fd' = [fd EXCEPT ![f] = NoFd]
    /\ owed' = [owed EXCEPT ![f] = {}]
    /\ UNCHANGED <<node, live, cwd, redir, wild, cut>>

(***************************************************************************)
(* SYS_FREAD, SYS_FWRITE.  ramfs_write refuses a directory, which a        *)
(* descriptor of a file may have come to point to.                         *)
(***************************************************************************)
OnFile(f) == ~wild /\ ~fd[f].dir /\ fd[f].node \in live /\ node[fd[f].node].type = NODE_FILE

FileRead(f, n) ==
    /\ OnFile(f)
    /\ fd' = [fd EXCEPT ![f].pos = @ + RamfsRead(node[fd[f].node], n, fd[f].pos)]
    /\ UNCHANGED <<node, live, cwd, redir, wild, cut, owed>>

FileWrite(f, bytes) ==
    /\ OnFile(f) /\ fd[f].pos + Len(bytes) <= MaxSize
    /\ node' = [node EXCEPT ![fd[f].node] = RamfsWrite(@, bytes, fd[f].pos)]
    /\ fd' = [fd EXCEPT ![f].pos = @ + Len(bytes)]
    /\ UNCHANGED <<live, cwd, redir, wild, cut, owed>>

(***************************************************************************)
(* SYS_READDIR: the position is the number of entries already returned.    *)
(***************************************************************************)
EveryOther(pos) == pos + 2          \* mutant

NextEntry(pos) == pos + 1

DirRead(f) ==
    /\ ~wild /\ fd[f].dir /\ fd[f].node \in live
    /\ LET kids == node[fd[f].node].kids
       IN  /\ fd[f].pos < Len(kids)
           /\ fd' = [fd EXCEPT ![f].pos = NextEntry(@)]
           /\ owed' = [owed EXCEPT ![f] = @ \ {kids[fd[f].pos + 1]}]
    /\ UNCHANGED <<node, live, cwd, redir, wild, cut>>

(***************************************************************************)
(* SYS_MKDIR, SYS_CHDIR.                                                   *)
(***************************************************************************)
Mkdir(p) ==
    /\ Reaches(p) /\ MayCreate(ParentOf(p), Last(p.comps))
    /\ \E n \in Nodes : Allocate(n, NODE_DIR, Last(p.comps), ParentOf(p))
    /\ UNCHANGED <<cwd, fd, redir, wild, owed>>

Chdir(p) ==
    /\ Reaches(p) /\ Lookup(p) # Null /\ node[Lookup(p)].type = NODE_DIR
    /\ cwd' = Lookup(p)
    /\ UNCHANGED <<node, live, fd, redir, wild, cut, owed>>

(***************************************************************************)
(* SYS_UNLINK: everything but the root and directories with entries.  A    *)
(* listing of the directory that has passed the entry misses the one it    *)
(* would have returned next.                                               *)
(***************************************************************************)
AnyDirectory(n) == node[n].parent # Null                           \* mutant

Removable(n) == node[n].parent # Null /\ (node[n].type = NODE_DIR => node[n].kids = << >>)

Without(kids, at) == [i \in 1..(Len(kids) - 1) |-> kids[IF i < at THEN i ELSE i + 1]]

Unlink(p) ==
    /\ Reaches(p)
    /\ LET n    == Lookup(p)
           dir  == node[n].parent
           kids == node[dir].kids
           at   == CHOOSE i \in 1..Len(kids) : kids[i] = n
       IN  /\ n # Null /\ Removable(n)
           /\ node' = [node EXCEPT ![dir].kids = Without(@, at), ![n] = Empty[n]]
           /\ live' = live \ {n}
           /\ owed' = [f \in FDs |->
                         IF fd[f].dir /\ fd[f].node = dir
                         THEN owed[f] \ ({n} \cup IF at <= fd[f].pos /\ fd[f].pos < Len(kids)
                                                  THEN {kids[fd[f].pos + 1]} ELSE {})
                         ELSE IF fd[f].node = n THEN {} ELSE owed[f]]
    /\ UNCHANGED <<cwd, fd, redir, wild, cut>>

(***************************************************************************)
(* SYS_REDIR with file_open_node, which needs a free descriptor for a      *)
(* moment; w is 0 for stdin, 1 for stdout.  stdout empties the file but    *)
(* keeps its buffer, and nobody else's position in it is reset.            *)
(***************************************************************************)
Redirected(t, w, n) == redir' = [redir EXCEPT ![t][w] = [node |-> n, pos |-> 0]]

Redir(t, w, p) ==
    /\ Reaches(p) /\ ~TableFull
    /\ Lookup(p) # Null /\ node[Lookup(p)].type = NODE_FILE
    /\ Redirected(t, w, Lookup(p))
    /\ node' = IF w = 1 THEN [node EXCEPT ![Lookup(p)].size = 0] ELSE node
    /\ cut' = IF w = 1 /\ Passed(Lookup(p), redir') THEN cut \cup {Lookup(p)} ELSE cut
    /\ UNCHANGED <<live, cwd, fd, wild, owed>>

RedirNew(t, w, p) ==
    /\ Reaches(p) /\ ~TableFull
    /\ Lookup(p) = Null /\ MayCreate(ParentOf(p), Last(p.comps))
    /\ \E n \in Nodes : Allocate(n, NODE_FILE, Last(p.comps), ParentOf(p)) /\ Redirected(t, w, n)
    /\ UNCHANGED <<cwd, fd, wild, owed>>

(***************************************************************************)
(* SYS_WRITE and SYS_READ of a task that is redirected.  The position of   *)
(* stdout moves on also when the write has found no memory.                *)
(***************************************************************************)
OnRedirected(t, w) ==
    ~wild /\ redir[t][w].node \in live /\ node[redir[t][w].node].type = NODE_FILE

WriteOut(t, bytes) ==
    /\ OnRedirected(t, 1) /\ redir[t][1].pos + Len(bytes) <= MaxSize
    /\ redir' = [redir EXCEPT ![t][1].pos = @ + Len(bytes)]
    /\ LET n == redir[t][1].node
       IN  \/ /\ node' = [node EXCEPT ![n] = RamfsWrite(@, bytes, redir[t][1].pos)]
              /\ UNCHANGED cut
           \/ /\ redir[t][1].pos + Len(bytes) > Len(node[n].data)  \* kmalloc fails
              /\ cut' = cut \cup {n}
              /\ UNCHANGED node
    /\ UNCHANGED <<live, cwd, fd, wild, owed>>

ReadIn(t, n) ==
    /\ OnRedirected(t, 0)
    /\ redir' = [redir EXCEPT ![t][0].pos = @ + RamfsRead(node[redir[t][0].node], n, @)]
    /\ UNCHANGED <<node, live, cwd, fd, wild, cut, owed>>

(***************************************************************************)
(* task_fork: the child starts with the redirections of its parent.        *)
(***************************************************************************)
Inherit(t, u) ==
    /\ ~wild /\ t # u
    /\ redir' = [redir EXCEPT ![u] = redir[t]]
    /\ UNCHANGED <<node, live, cwd, fd, wild, cut, owed>>

(***************************************************************************)
(* A call goes to a node that has been freed and not allocated again.  The *)
(* state after it is not meant to be looked at.                            *)
(***************************************************************************)
UseRemoved ==
    /\ ~wild
    /\ \E n \in Nodes \ live : Pointed(n)
    /\ wild' = TRUE
    /\ node' = Empty /\ live' = {Root} /\ cwd' = Root /\ cut' = {}
    /\ fd' = [f \in FDs |-> NoFd] /\ owed' = [f \in FDs |-> {}]
    /\ redir' = [t \in Tasks |-> Nothing]

RNext ==
    \/ \E p \in FilePaths : FileOpen(p) \/ FileOpenNew(p)
    \/ \E p \in DirPaths : DirOpen(p) \/ Mkdir(p) \/ Chdir(p)
    \/ \E p \in FilePaths \cup DirPaths : Unlink(p)
    \/ \E f \in FDs : FileClose(f) \/ FileRead(f, 1) \/ DirRead(f)
    \/ \E f \in FDs, b \in Bytes : FileWrite(f, <<b>>)
    \/ \E t \in Tasks, w \in 0..1, p \in FilePaths : Redir(t, w, p) \/ RedirNew(t, w, p)
    \/ \E t \in Tasks, b \in Bytes : WriteOut(t, <<b>>)
    \/ \E t \in Tasks : ReadIn(t, 1)
    \/ \E t, u \in Tasks : Inherit(t, u)
    \/ UseRemoved

RSpec == RInit /\ [][RNext]_rvars

-----------------------------------------------------------------------------
(***************************************************************************)
(* The types of the table of nodes, the descriptors and the redirections.  *)
(***************************************************************************)
RTypeOK ==
    /\ DOMAIN node = Nodes /\ live \subseteq Nodes /\ cwd \in Nodes
    /\ \A n \in Nodes : /\ node[n].type \in {NODE_FILE, NODE_DIR}
                        /\ node[n].parent \in Nodes \cup {Null}
                        /\ node[n].size \in 0..Len(node[n].data)
    /\ \A f \in FDs : fd[f].node \in Nodes \cup {Null} /\ fd[f].pos \in Nat
    /\ cut \subseteq Nodes /\ wild \in BOOLEAN

(***************************************************************************)
(* The nodes at the end of a chain of k parents, or fewer.                 *)
(***************************************************************************)
Above(n) ==
    LET up[k \in 0..Cardinality(Nodes)] ==
            IF k = 0 THEN n
            ELSE LET x == up[k - 1] IN IF x = Null THEN Null ELSE node[x].parent
    IN  {up[k] : k \in DOMAIN up}

CutNames == {Stored[n] : n \in {x \in Names : Stored[x] # x}}     \* all of them 63 characters

(***************************************************************************)
(* The nodes are one tree.  Each one that is allocated is in the list of   *)
(* its parent exactly once and leads up to the root, every list holds only *)
(* allocated nodes, and two entries of a directory have the same name only *)
(* if it is what is left of a longer one: through every sequence of calls  *)
(* of all tasks, and for every image that is read from the disk, until     *)
(* somebody uses a node that is removed.                                   *)
(***************************************************************************)
TreeOK ==
    ~wild =>
        /\ Root \in live /\ node[Root].parent = Null
        /\ \A n \in live \ {Root} :
            LET dir == node[n].parent
            IN  /\ dir \in live /\ Root \in Above(n)
                /\ Cardinality({i \in 1..Len(node[dir].kids) : node[dir].kids[i] = n}) = 1
        /\ \A d \in live : \A i, j \in 1..Len(node[d].kids) :
            /\ node[d].type = NODE_DIR
            /\ node[d].kids[i] \in live /\ node[node[d].kids[i]].parent = d
            /\ i # j => \/ node[node[d].kids[i]].name # node[node[d].kids[j]].name
                        \/ node[node[d].kids[i]].name \in CutNames

(***************************************************************************)
(* Positions lie within the file and every byte of a file was written to   *)
(* it: a reader never sees what another owner left in the kernel heap,     *)
(* however many descriptors and redirected tasks share the file.  Excepted *)
(* are files that SYS_REDIR has emptied, or a failed SYS_WRITE has left    *)
(* short, under a position beyond the new end, and a node that took the    *)
(* address of one that was removed while in use.                           *)
(***************************************************************************)
NoGap ==
    \A n \in live \ cut : node[n].type = NODE_FILE =>
        /\ \A f \in FDs : fd[f].node = n /\ ~fd[f].dir => fd[f].pos <= node[n].size
        /\ \A t \in Tasks, w \in 0..1 : redir[t][w].node = n => redir[t][w].pos <= node[n].size
        /\ \A i \in 1..node[n].size : node[n].data[i] # Junk

(***************************************************************************)
(* A listing is complete: when SYS_READDIR has no more to return, every    *)
(* entry that was there when the directory was opened has been returned,   *)
(* whatever was created meanwhile.  Excepted are entries that were removed *)
(* and, for each removal of an entry already returned, the one after the   *)
(* position.                                                               *)
(***************************************************************************)
ListingComplete ==
    \A f \in FDs :
        ~wild /\ fd[f].dir /\ fd[f].node \in live /\ fd[f].pos >= Len(node[fd[f].node].kids)
            => owed[f] = {}
=============================================================================
