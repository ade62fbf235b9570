------------------------------- MODULE Space -------------------------------
(***************************************************************************)
(* Address spaces and stacks: the page tables of kernel/mm/vmm.c, the      *)
(* loader of kernel/mm/user.c, and what fork, exec, spawn and the switch   *)
(* of kernel/task/task.c do with them.                                     *)
(*                                                                         *)
(* The low half has one region per program and stack: a region is a 2 MB   *)
(* entry of a page directory, a table of TABLE_PAGES pages once it is      *)
(* split.  A program is one segment of PROG_PAGES pages at the start of    *)
(* its region, a stack one page.  Regions "init" and "prog" begin as huge  *)
(* pages of the identity map, the two stacks lie above it and begin empty. *)
(* Frames are numbered, and since nothing ever calls pmm_free_page they    *)
(* are handed out in order.  What lies above the regions in the identity   *)
(* map stays huge.                                                         *)
(***************************************************************************)
EXTENDS Integers, FiniteSets

CONSTANTS
    TABLE_PAGES,    \* entries of a page table
    PROG_PAGES,     \* pages of a program
    HEAP_PAGES,     \* frames the kernel heap takes first of all
    Memories,       \* numbers of frames the machine may have
    Heaps,          \* how many more blocks the kernel heap may have
    MaxTask         \* bound: the largest task id

ASSUME SpaceAssumption ==
    /\ TABLE_PAGES \in Nat \ {0} /\ HEAP_PAGES \in Nat /\ HEAP_PAGES >= TABLE_PAGES
    /\ PROG_PAGES \in 1..TABLE_PAGES
    /\ Memories \subseteq Nat /\ Heaps \subseteq Nat /\ MaxTask \in Nat \ {0}

Tasks == 0..MaxTask         \* 0 is kmain, 1 the shell
Slots == 0..(TABLE_PAGES - 1)
Programs == {"init", "prog"}
Stacks == {"ustack", "cstack"}
Regions == Programs \cup Stacks
Pages == 0..(PROG_PAGES - 1)
PagesOf(r) == IF r \in Programs THEN Pages ELSE {0}     \* the user's pages of a region
Position == [init |-> 1, prog |-> 2, ustack |-> 3, cstack |-> 4]
NoFrame == -1
NoStack == 0                \* kernel_stack_top of kmain
LowStack == -1              \* kernel_stack_top over a null stack base
Nowhere == [rip |-> "none", rsp |-> "none"]
Zero == -1                  \* what a page holds: zeros,
Elf == -2                   \* a program as it was loaded, or the task that wrote it last

-----------------------------------------------------------------------------
(***************************************************************************)
(* Page tables.  Frame numbers of the identity map: the first region's     *)
(* worth holds the kernel, then "init", both reserved by pmm_init, then    *)
(* "prog", whose frames the heap and its three tables use up.              *)
(***************************************************************************)
Identity(r, i) == Position[r] * TABLE_PAGES + i

Huge == [kind |-> "huge", pt |-> [i \in Slots |-> NoFrame]]
None == [kind |-> "none", pt |-> [i \in Slots |-> NoFrame]]
Table(f) == [kind |-> "table", pt |-> f]

HeapElsewhere == Position["prog"] * TABLE_PAGES     \* mutant: "prog" is not used up

FirstFree == Position["prog"] * TABLE_PAGES + HEAP_PAGES + 3

(***************************************************************************)
(* vmm_get_phys for the kernel, and the frame a user access reaches: a     *)
(* page that was never split off belongs to the supervisor.                *)
(***************************************************************************)
GetPhys(d, r, i) ==
    IF d[r].kind = "huge" THEN Identity(r, i) ELSE d[r].pt[i]

UserFrame(d, r, i) == IF d[r].kind = "table" THEN d[r].pt[i] ELSE NoFrame

UserFrames(d, R) == UNION {{UserFrame(d, r, i) : i \in PagesOf(r)} : r \in R}

(***************************************************************************)
(* vmm_map with next_table and split_huge_pd, for each page of F with its  *)
(* frame: the first call takes the frame next for a missing table, and     *)
(* without one nothing is mapped.                                          *)
(***************************************************************************)
NeedsTable(d, r) == d[r].kind # "table"

SplitTable(d, r) ==
    IF d[r].kind = "huge" THEN [i \in Slots |-> Identity(r, i)] ELSE d[r].pt

MapIfAbsent(d, r, F, next, end) ==      \* mutant: a page that is there stays
    IF ~NeedsTable(d, r) \/ next >= end THEN d
    ELSE [d EXCEPT ![r] = Table([i \in Slots |->
                             IF i \in DOMAIN F THEN F[i] ELSE SplitTable(d, r)[i]])]

Map(d, r, F, next, end) ==
    IF NeedsTable(d, r) /\ next >= end THEN d
    ELSE [d EXCEPT ![r] = Table([i \in Slots |->
                             IF i \in DOMAIN F THEN F[i] ELSE SplitTable(d, r)[i]])]

MapCost(d, r, next, end) == IF NeedsTable(d, r) /\ next < end THEN 1 ELSE 0

(***************************************************************************)
(* vmm_clone_pml4_deep: the frame numbers of the copy.  It allocates the   *)
(* PML4, the PDPT, then per PD the tables in order, each followed by its   *)
(* pages; a huge page is shared, a missing one stays missing.  The PD of   *)
(* the stacks comes after all that the programs have.                      *)
(***************************************************************************)
Present(d, r) == {i \in Slots : d[r].pt[i] # NoFrame}

Cost(d, r) == IF d[r].kind = "table" THEN 1 + Cardinality(Present(d, r)) ELSE 0

CostBelow(d, n) ==              \* of the regions below position n
    LET c(r) == IF Position[r] < n THEN Cost(d, r) ELSE 0
    IN  c("init") + c("prog") + c("ustack") + c("cstack")

CloneCost(d) == 4 + CostBelow(d, 5)

TableFrame(d, next, r) ==
    next + (IF r \in Programs THEN 3 ELSE 4) + CostBelow(d, Position[r])

CopiedFrame(d, next, r, i) ==
    IF d[r].pt[i] = NoFrame THEN NoFrame
    ELSE TableFrame(d, next, r) + 1 + Cardinality({j \in Present(d, r) : j < i})

DeepClone(d, next) ==
    [r \in Regions |-> IF d[r].kind # "table" THEN d[r]
                       ELSE Table([i \in Slots |-> CopiedFrame(d, next, r, i)])]

CloneTables(d, next) ==
    {next, next + 1, next + 2, next + 3 + CostBelow(d, Position["ustack"])}
        \cup {TableFrame(d, next, r) : r \in {s \in Regions : d[s].kind = "table"}}

(***************************************************************************)
(* Its copying of the pages of d, which the clone e has in new frames.     *)
(***************************************************************************)
IsPage(e, f) == \E r \in Regions, i \in Slots : e[r].pt[i] = f
PageAt(e, f) == CHOOSE p \in Regions \X Slots : e[p[1]].pt[p[2]] = f

CopyPages(m, d, e, frames) ==
    [f \in DOMAIN m |-> IF f \in frames /\ IsPage(e, f)
                       THEN m[d[PageAt(e, f)[1]].pt[PageAt(e, f)[2]]] ELSE m[f]]

(***************************************************************************)
(* user_load_elf and user_setup_stack_at on memory x: the directory, the   *)
(* frames' contents, the tables and the next free frame.                   *)
(*                                                                         *)
(* The loader allocates, clears and maps page after page, the table after  *)
(* the first, and returns 0 where a page has no frame: the pages before it *)
(* are replaced by then.  With all of them it writes the program through   *)
(* its virtual addresses.  No other allocation is checked: without a table *)
(* the page stays where the identity map has it, and without a frame the   *)
(* stack is frame 0.  "sound" says that neither has gone unnoticed.        *)
(***************************************************************************)
Memory(d, m, T, n, sound) == [d |-> d, m |-> m, tables |-> T, next |-> n, sound |-> sound]

Filled(m, frames, v) == [f \in DOMAIN m |-> IF f \in frames THEN v ELSE m[f]]

Cleared(x, frames, n, sound) ==
    Memory(x.d, Filled(x.m, frames, Zero), x.tables, n, x.sound /\ sound)

MapInto(x, r, F, end) ==
    LET cost == MapCost(x.d, r, x.next, end)
    IN  Memory(Map(x.d, r, F, x.next, end), x.m,
               IF cost = 1 THEN x.tables \cup {x.next} ELSE x.tables, x.next + cost,
               x.sound /\ ~(NeedsTable(x.d, r) /\ cost = 0))

PageFrame(x, p, i) ==
    IF i = 0 THEN x.next ELSE x.next + i + (IF NeedsTable(x.d, p) THEN 1 ELSE 0)

Got(x, p, end) == {i \in Pages : PageFrame(x, p, i) < end}     \* pages with a frame

Loads(x, p, end) == Got(x, p, end) = Pages

LoadElf(x, p, end) ==
    LET F == [i \in Got(x, p, end) |-> PageFrame(x, p, i)]
        y == MapInto(Cleared(x, {F[i] : i \in DOMAIN F}, x.next + 1, TRUE), p, F, end)
    IN  IF Loads(x, p, end)
        THEN Memory(y.d, Filled(y.m, {GetPhys(y.d, p, i) : i \in Pages}, Elf), y.tables,
                    y.next + PROG_PAGES - 1, y.sound)
        ELSE Memory(y.d, y.m, y.tables, end, x.sound)

SetupStack(x, s, end) ==
    IF x.next < end THEN MapInto(Cleared(x, {x.next}, x.next + 1, TRUE), s, [i \in {0} |-> x.next], end)
    ELSE MapInto(Cleared(x, {0}, x.next, FALSE), s, [i \in {0} |-> 0], end)

-----------------------------------------------------------------------------
VARIABLES
    dir,            \* the low half of each address space, by the space's number
    free, last,     \* the next free frame, the number of frames
    tables,         \* frames that hold page tables
    mem,            \* what each frame holds
    heap,           \* kernel heap blocks left for tasks and their stacks
    cr3,            \* space 0 is the boot tables, 1 the shell's, n the one forked for task n
    current,
    state,          \* "none", "ready", "running" or "dead"
    pml4,           \* task.pml4_phys: a space, 0 for none of its own
    kernel_stack_top, kernel_rsp,
    saved_user_rsp, \* the global of syscall_entry.S
    own_rsp,        \* task.saved_user_rsp
    mode,           \* where a task is: see below
    ctx,            \* user rip and rsp, on the kernel stack or in the registers
    spawn_used,
    forked,         \* forked tasks that have made no such call since
    view,           \* observer: what each task should find in each of its pages
    home,           \* observer: the space a task was loaded or cloned into
    stray, broken,  \* observers: a task has lost its memory, in one of the ways below
    starved,        \* observer: an allocation failed that nothing checks
    halted          \* a page fault has stopped the machine

memvars == <<dir, free, tables, mem>>
taskvars == <<pml4, kernel_stack_top, view, home>>
vars == <<memvars, last, heap, cr3, current, state, taskvars, kernel_rsp, saved_user_rsp, own_rsp,
          mode, ctx, spawn_used, forked, stray, broken, starved, halted>>

Spaces == Tasks

(***************************************************************************)
(* vmm_clone_pml4 copies the top level only: the shell's low half is the   *)
(* very tables of the boot space.                                          *)
(***************************************************************************)
LowHalf(s) == IF s = 0 THEN 1 ELSE s

Dir == dir[LowHalf(cr3)]

Start(end) == Memory([r \in Regions |-> IF r \in Programs THEN Huge ELSE None],
                     [f \in 0..(end - 1) |-> Zero], {}, FirstFree, TRUE)

(***************************************************************************)
(* kmain halts unless the loader has frames for the shell.                 *)
(***************************************************************************)
ASSUME BootAssumption == \A n \in Memories : Loads(Start(n), "init", n)

BootMemory(end) == SetupStack(LoadElf(Start(end), "init", end), "ustack", end)

(***************************************************************************)
(* A task that has not left the kernel yet is "new".  Then it is in "user" *)
(* mode; in a call that has put it to sleep, interrupts off: "wait"; in    *)
(* the loop of SYS_READ, whose sti leaves interrupts on: "read"; or in the *)
(* kernel at its "edge", on the user stack already with interrupts on: in  *)
(* user_enter, and before the sysretq of a SYS_READ that has slept.        *)
(*                                                                         *)
(* A task loses its memory when it is spawned and runs in a foreign space  *)
(* or when it spawns a task over its own stack: "stray"; when the timer    *)
(* switches to another space at its edge or when its exec fails over its   *)
(* own pages: "broken".                                                    *)
(***************************************************************************)

(***************************************************************************)
(* kmain up to its idle loop: the shell is loaded and ready, and the two   *)
(* frames more are the PD of the stacks and the shell's PML4.              *)
(***************************************************************************)
Init ==
    /\ last \in Memories /\ heap \in Heaps
    /\ LET x == BootMemory(last)
       IN  /\ dir = [s \in Spaces |-> x.d]
           /\ free = x.next + 2
           /\ tables = x.tables \cup {x.next, x.next + 1}
           /\ mem = x.m
           /\ starved = ~(x.sound /\ free <= last)
    /\ cr3 = 0 /\ current = 0
    /\ state = [t \in Tasks |-> IF t = 0 THEN "running" ELSE IF t = 1 THEN "ready" ELSE "none"]
    /\ pml4 = [t \in Tasks |-> IF t = 1 THEN 1 ELSE 0]
    /\ kernel_stack_top = [t \in Tasks |-> IF t = 1 THEN 1 ELSE NoStack]
    /\ kernel_rsp = NoStack
    /\ saved_user_rsp = "none" /\ own_rsp = [t \in Tasks |-> "none"]
    /\ mode = [t \in Tasks |-> IF t = 0 THEN "wait" ELSE "new"]
    /\ ctx = [t \in Tasks |-> IF t = 1 THEN [rip |-> "init", rsp |-> "ustack"] ELSE Nowhere]
    /\ spawn_used = FALSE /\ forked = {}
    /\ view = [t \in Tasks |-> [r \in Regions |-> IF r = "init" THEN Elf ELSE Zero]]
    /\ home = [t \in Tasks |-> 1]
    /\ stray = FALSE /\ broken = FALSE /\ halted = FALSE

-----------------------------------------------------------------------------
(***************************************************************************)
(* schedule, with the state s the old task is left in and the value of     *)
(* saved_user_rsp before.  Which ready task comes next is module Task's    *)
(* concern.  kmain has no kernel stack of its own to announce, kmain and   *)
(* spawned tasks no space to load.  cr3 is written before task_switch      *)
(* pushes the registers: at the edge that is a push into the other space.  *)
(***************************************************************************)
KeepRsp(n) == saved_user_rsp            \* mutant: the global is not swapped

LoadedRsp(n) == own_rsp[n]

StackFor(n) == IF kernel_stack_top[n] = NoStack THEN kernel_rsp ELSE kernel_stack_top[n]

SpaceFor(n) == IF pml4[n] = 0 THEN cr3 ELSE pml4[n]

LeavesStack(n) == mode[current] = "edge" /\ LowHalf(SpaceFor(n)) # LowHalf(cr3)

SwitchTo(n, s, rsp) ==
    /\ n # current /\ state[n] = "ready"
    /\ state' = [state EXCEPT ![current] = s, ![n] = "running"]
    /\ current' = n
    /\ kernel_rsp' = StackFor(n)
    /\ own_rsp' = [own_rsp EXCEPT ![current] = rsp]
    /\ saved_user_rsp' = LoadedRsp(n)
    /\ cr3' = SpaceFor(n)
    /\ stray' = (stray \/ (n # 0 /\ LowHalf(SpaceFor(n)) # home[n]))
    /\ broken' = (broken \/ LeavesStack(n))

(***************************************************************************)
(* The timer takes the CPU from any task that has interrupts on, kmain     *)
(* included.                                                               *)
(***************************************************************************)
Preempt(n) ==
    /\ mode[current] # "wait" \/ current = 0
    /\ ~LeavesStack(n)
    /\ SwitchTo(n, "ready", saved_user_rsp)
    /\ UNCHANGED <<memvars, last, heap, taskvars, mode, ctx, spawn_used, forked, starved, halted>>

PreemptAtEdge(n) ==
    /\ LeavesStack(n)
    /\ SwitchTo(n, "ready", saved_user_rsp)
    /\ LET frames == UserFrames(dir[LowHalf(SpaceFor(n))], {ctx[current].rsp})
       IN  halted' = (NoFrame \in frames) /\ mem' = Filled(mem, frames, current)
    /\ UNCHANGED <<dir, free, tables, last, heap, taskvars, mode, ctx, spawn_used, forked, starved>>

(***************************************************************************)
(* A task's first run: user_task_entry and child_task_entry call           *)
(* user_enter; a forked task has fork_child_entry, which stays on the      *)
(* kernel stack, with the two registers the fork left it.                  *)
(***************************************************************************)
UsesUserEnter(t) == t = 1 \/ pml4[t] = 0

Enter ==
    /\ mode[current] = "new"
    /\ mode' = [mode EXCEPT ![current] = IF UsesUserEnter(current) THEN "edge" ELSE "user"]
    /\ UNCHANGED <<memvars, last, heap, cr3, current, state, taskvars, kernel_rsp, saved_user_rsp,
                   own_rsp, ctx, spawn_used, forked, stray, broken, starved, halted>>

LeaveKernel ==          \* the iretq or the sysretq
    /\ mode[current] = "edge"
    /\ mode' = [mode EXCEPT ![current] = "user"]
    /\ UNCHANGED <<memvars, last, heap, cr3, current, state, taskvars, kernel_rsp, saved_user_rsp,
                   own_rsp, ctx, spawn_used, forked, stray, broken, starved, halted>>

(***************************************************************************)
(* The program writes to its code and data and to its stack, or SYS_READ   *)
(* to its buffer there.  vmm_page_fault_handler never returns.             *)
(***************************************************************************)
UserWrite ==
    /\ mode[current] \in {"user", "read"}
    /\ LET written == {ctx[current].rip, ctx[current].rsp}
           frames == UserFrames(Dir, written)
       IN  /\ halted' = (NoFrame \in frames)
           /\ mem' = Filled(mem, frames, current)
           /\ view' = [view EXCEPT ![current] =
                           [r \in Regions |-> IF r \in written THEN current ELSE @[r]]]
    /\ UNCHANGED <<dir, free, tables, last, heap, cr3, current, state, pml4, kernel_stack_top,
                   home, kernel_rsp, saved_user_rsp, own_rsp, mode, ctx, spawn_used, forked, stray,
                   broken, starved>>

-----------------------------------------------------------------------------
(***************************************************************************)
(* System calls run with interrupts off, but for SYS_READ: one that does   *)
(* not wait is a single step from syscall_entry to sysretq.  syscall_entry *)
(* leaves the caller's stack pointer in saved_user_rsp and its rip (rcx)   *)
(* on the kernel stack.                                                    *)
(***************************************************************************)
Syscall == mode[current] = "user" /\ saved_user_rsp' = ctx[current].rsp

(***************************************************************************)
(* A call that blocks: schedule runs after syscall_entry, and the task     *)
(* comes back from it with interrupts off.                                 *)
(***************************************************************************)
Block(n) ==
    /\ mode[current] = "user"
    /\ SwitchTo(n, "ready", ctx[current].rsp)
    /\ mode' = [mode EXCEPT ![current] = "wait"]
    /\ UNCHANGED <<memvars, last, heap, taskvars, ctx, spawn_used, forked, starved, halted>>

(***************************************************************************)
(* SYS_READ without a key waiting: its sti lets the timer in.              *)
(***************************************************************************)
ReadKeys ==
    /\ Syscall
    /\ mode' = [mode EXCEPT ![current] = "read"]
    /\ UNCHANGED <<memvars, last, heap, cr3, current, state, taskvars, kernel_rsp, own_rsp, ctx,
                   spawn_used, forked, stray, broken, starved, halted>>

(***************************************************************************)
(* The way out of syscall_entry after the wait, with interrupts off to the *)
(* end and with interrupts on.                                             *)
(***************************************************************************)
SyscallReturn ==
    /\ current # 0 /\ mode[current] \in {"wait", "read"}
    /\ mode' = [mode EXCEPT ![current] = IF @ = "wait" THEN "user" ELSE "edge"]
    /\ ctx' = [ctx EXCEPT ![current].rsp = saved_user_rsp]
    /\ UNCHANGED <<memvars, last, heap, cr3, current, state, taskvars, kernel_rsp, saved_user_rsp,
                   own_rsp, spawn_used, forked, stray, broken, starved, halted>>

Exit(n) ==
    /\ mode[current] = "user"
    /\ SwitchTo(n, "dead", ctx[current].rsp)
    /\ UNCHANGED <<memvars, last, heap, taskvars, mode, ctx, spawn_used, forked, starved, halted>>

Fresh == {t \in Tasks : state[t] = "none"}
NextId == CHOOSE t \in Fresh : \A u \in Fresh : t <= u

CallFails ==
    UNCHANGED <<memvars, last, heap, cr3, current, state, taskvars, kernel_rsp, own_rsp, mode, ctx,
                spawn_used, forked, stray, broken, starved, halted>>

(***************************************************************************)
(* task_fork clones the space in use and starts the child with the rip and *)
(* rsp that syscall_entry has stored in globals just before.  A clone that *)
(* runs out of frames keeps those it has got; the task's block is given    *)
(* back.  The second allocation, of the kernel stack, is not checked.      *)
(***************************************************************************)
Fork ==
    /\ Syscall /\ ctx[current].rip = "init" /\ Fresh # {}
    /\ \/ heap = 0 /\ CallFails
       \/ /\ heap > 0 /\ free + CloneCost(Dir) > last
          /\ free' = last
          /\ UNCHANGED <<dir, tables, mem, last, heap, cr3, current, state, taskvars, kernel_rsp,
                         own_rsp, mode, ctx, spawn_used, forked, stray, broken, starved, halted>>
       \/ /\ heap > 0 /\ free + CloneCost(Dir) <= last
          /\ LET c == NextId
                 clone == DeepClone(Dir, free)
                 frames == free..(free + CloneCost(Dir) - 1)
             IN  /\ dir' = [dir EXCEPT ![c] = clone]
                 /\ free' = free + CloneCost(Dir)
                 /\ tables' = tables \cup CloneTables(Dir, free)
                 /\ mem' = CopyPages(mem, Dir, clone, frames)
                 /\ heap' = IF heap < 2 THEN 0 ELSE heap - 2
                 /\ starved' = (starved \/ heap = 1)
                 /\ state' = [state EXCEPT ![c] = "ready"]
                 /\ pml4' = [pml4 EXCEPT ![c] = c]
                 /\ kernel_stack_top' = [kernel_stack_top EXCEPT
                                            ![c] = IF heap = 1 THEN LowStack ELSE c]
                 /\ own_rsp' = [own_rsp EXCEPT ![c] = ctx[current].rsp]
                 /\ ctx' = [ctx EXCEPT ![c] = ctx[current]]
                 /\ view' = [view EXCEPT ![c] = view[current]]
                 /\ home' = [home EXCEPT ![c] = c]
                 /\ forked' = (forked \ {current}) \cup {c}
          /\ UNCHANGED <<last, cr3, current, kernel_rsp, mode, spawn_used, stray, broken, halted>>

(***************************************************************************)
(* The loading half of SYS_EXEC and kernel_spawn_child, in the space in    *)
(* use; room says whether the heap has what the caller takes from it.      *)
(***************************************************************************)
Here == Memory(Dir, mem, tables, free, TRUE)

Becomes(y) ==
    /\ dir' = [dir EXCEPT ![LowHalf(cr3)] = y.d]
    /\ mem' = y.m /\ tables' = y.tables /\ free' = y.next

Install(p, room) ==
    /\ Loads(Here, p, last)
    /\ LET y == SetupStack(LoadElf(Here, p, last), "cstack", last)
       IN  Becomes(y) /\ starved' = (starved \/ ~y.sound \/ ~room)

InstallFails(p) == ~Loads(Here, p, last) /\ Becomes(LoadElf(Here, p, last))

Loaded(t, p) == [view EXCEPT ![t][p] = Elf, ![t]["cstack"] = Zero]

(***************************************************************************)
(* The calls of exec in user/: the child of cmd_run, at once, and calc on  *)
(* its way back to a shell.  A program that exec has failed to replace     *)
(* goes on.                                                                *)
(***************************************************************************)
CallsExec(t, p) == t \in forked \/ (pml4[t] = t /\ ctx[t].rip = "prog" /\ p = "init")

Exec(p) ==
    /\ mode[current] = "user" /\ CallsExec(current, p)
    /\ \/ /\ InstallFails(p)
          /\ saved_user_rsp' = ctx[current].rsp
          /\ broken' = (broken \/ (p = ctx[current].rip /\ dir' # dir))
          /\ UNCHANGED <<last, heap, cr3, current, state, taskvars, kernel_rsp, own_rsp, mode, ctx,
                         spawn_used, forked, stray, starved, halted>>
       \/ /\ Install(p, TRUE)
          /\ ctx' = [ctx EXCEPT ![current] = [rip |-> p, rsp |-> "cstack"]]
          /\ saved_user_rsp' = "cstack"
          /\ view' = Loaded(current, p)
          /\ forked' = forked \ {current}
          /\ UNCHANGED <<last, heap, cr3, current, state, pml4, kernel_stack_top, home, kernel_rsp,
                         own_rsp, mode, spawn_used, stray, broken, halted>>

(***************************************************************************)
(* kernel_spawn_child, once per boot even if it fails, and task_create,    *)
(* which checks neither of its allocations (address 0 is mapped, for the   *)
(* kernel).                                                                *)
(***************************************************************************)
Spawn ==
    /\ Syscall /\ ctx[current].rip = "init" /\ Fresh # {}
    /\ \/ spawn_used /\ CallFails
       \/ /\ ~spawn_used /\ spawn_used' = TRUE
          /\ InstallFails("prog")
          /\ UNCHANGED <<last, heap, cr3, current, state, taskvars, kernel_rsp, own_rsp,
                         mode, ctx, forked, stray, broken, starved, halted>>
       \/ /\ ~spawn_used /\ spawn_used' = TRUE
          /\ Install("prog", heap >= 2)
          /\ LET c == NextId
             IN  /\ state' = [state EXCEPT ![c] = "ready"]
                 /\ kernel_stack_top' = [kernel_stack_top EXCEPT
                                            ![c] = IF heap < 2 THEN LowStack ELSE c]
                 /\ ctx' = [ctx EXCEPT ![c] = [rip |-> "prog", rsp |-> "cstack"]]
                 /\ view' = Loaded(c, "prog")
                 /\ home' = [home EXCEPT ![c] = LowHalf(cr3)]
          /\ heap' = IF heap < 2 THEN 0 ELSE heap - 2
          /\ forked' = forked \ {current}
          /\ stray' = (stray \/ ctx[current].rsp = "cstack")
          /\ UNCHANGED <<last, cr3, current, pml4, kernel_rsp, own_rsp, mode, broken, halted>>

-----------------------------------------------------------------------------
(***************************************************************************)
(* The model is not followed past a halt, nor past a step that spoils      *)
(* memory in a way of its own: nothing is promised from there on.          *)
(***************************************************************************)
Trusted == ~stray /\ ~broken /\ ~starved

Next ==
    /\ ~halted /\ Trusted
    /\ \/ \E n \in Tasks : Preempt(n) \/ PreemptAtEdge(n) \/ Block(n) \/ Exit(n)
       \/ Enter \/ LeaveKernel \/ UserWrite \/ ReadKeys \/ SyscallReturn
       \/ Fork \/ Spawn \/ \E p \in Programs : Exec(p)

Spec == Init /\ [][Next]_vars

-----------------------------------------------------------------------------
Sees(t) ==
    \A r \in {ctx[t].rip, ctx[t].rsp} : \A i \in PagesOf(r) :
        UserFrame(Dir, r, i) # NoFrame /\ mem[UserFrame(Dir, r, i)] = view[t][r]

(***************************************************************************)
(* Whenever a program has the CPU it finds in its code, data and stack     *)
(* what it left there, what its parent had at the fork or what exec        *)
(* loaded, whatever the other tasks did in between, and no access faults:  *)
(* also after a load that failed partway and a tick at the kernel's edge.  *)
(***************************************************************************)
OwnMemory == Trusted => ~halted /\ (current # 0 => Sees(current))

(***************************************************************************)
(* The same without the exception of spawned tasks: task.pml4_phys is      *)
(* "this task's PML4".                                                     *)
(***************************************************************************)
EveryTaskItsMemory == ~starved /\ ~broken => ~halted /\ (current # 0 => Sees(current))

(***************************************************************************)
(* The next system call or interrupt of the running program lands on its   *)
(* own kernel stack, no two tasks have the same one, and a call that has   *)
(* slept returns with the stack pointer it came with, although             *)
(* saved_user_rsp and kernel_rsp are one variable each.                    *)
(***************************************************************************)
OwnStacks ==
    /\ current # 0 => kernel_rsp = kernel_stack_top[current]
    /\ current # 0 /\ mode[current] \in {"wait", "read"} => saved_user_rsp = ctx[current].rsp
    /\ ~starved => \A t, u \in Tasks \ {0} :
          t # u /\ state[t] # "none" /\ state[u] # "none"
              => kernel_stack_top[t] # kernel_stack_top[u]

(***************************************************************************)
(* The entries <<space, region, page>> of the tables in use.               *)
(***************************************************************************)
Entry(a) == dir[a[1]][a[2]].pt[a[3]]

Maps == {a \in (Spaces \ {0}) \X Regions \X Slots :
            /\ a[1] = 1 \/ pml4[a[1]] = a[1]
            /\ dir[a[1]][a[2]].kind = "table" /\ Entry(a) \notin {NoFrame, Identity(a[2], a[3])}}

(***************************************************************************)
(* A frame that one page table maps, identity apart, is mapped by no other *)
(* and is not itself a page table; and every frame the kernel still hands  *)
(* out or keeps tables in is found at its own address in the space in use, *)
(* for the loader, the clone and vmm_map reach frames by their number      *)
(* although programs are loaded over the identity map.                     *)
(***************************************************************************)
FramesApart ==
    ~starved =>
        /\ LET frames == {Entry(a) : a \in Maps}
           IN  Cardinality(frames) = Cardinality(Maps) /\ frames \cap tables = {}
        /\ \A r \in Programs, i \in Slots :
              Identity(r, i) \in tables \cup free..(last - 1) => GetPhys(Dir, r, i) = Identity(r, i)
=============================================================================
