# flyos: a TLA+ model of the kernel

flyos is a small operating system for one x86_64 processor, written from
nothing in C: memory management, preemptive tasks, system calls, a RAM file
system saved to disk, FAT16, a network card and a window system. This directory
holds TLA+ modules translated from its source, TLC configurations that
model-check them, and TLAPS proofs about them. Paths below are relative to
`src/`.

## 1. Inventory

### How the parts run

There is one processor. The `SYSCALL` instruction clears IF (FMASK,
`kernel/arch/syscall.c:48`) and so does every interrupt gate, so a handler runs
to its end, or to the task switch in `schedule()`, without interruption. Two places
in the kernel run with interrupts on. The loop of `SYS_READ` (`syscall.c:86-92`)
enables them to wait for a key, and they stay on until the `sysretq` of that call
(`syscall_entry.S:50-83`). A new task starts with interrupts on (`task.c:82`) and may
be interrupted up to the `iretq` of `user_enter`; so may kmain in its idle loop. The
interrupt gates have no stack of their own (`idt.c:58`), so a tick in the last
instructions of these ways out, with the user's stack loaded already, is served on
the user's stack. Concurrency is therefore: the order in which tasks make system
calls, the places where the timer takes the processor away, and the device
interrupts.

| Part | State | Operations | Talks to |
|---|---|---|---|
| Scheduler, `kernel/task/task.c` | circular list of tasks, `current`, task states, sleeper table, `child_exit_wq`, `foreground` | `schedule`, `scheduler_tick`, `task_block`, `wait_queue_wake_one/all`, `task_sleep`, `task_create`, `task_fork`, `task_kill_by_id`, `task_wait_child`, `task_signal_child_exit` | timer interrupt, system calls, semaphores |
| Semaphores, `kernel/task/sem.c` | count and wait queue of each | `sem_init`, `sem_wait`, `sem_post` | scheduler |
| System calls, `kernel/arch/syscall.c` | none of its own | `syscall_dispatch`: about 30 calls | everything |
| User programs, `user/*.c`, `user/lib` | program state; the stdout lock is semaphore 0 | shell commands, `puts`, `putchar`, `exit` | system calls |
| Physical memory, `kernel/mm/pmm.c` | bitmap, `used_pages`, `search_hint` | `pmm_init`, `pmm_alloc_page`, `pmm_free_page` | heap, page tables |
| Virtual memory, `kernel/mm/vmm.c`, `user.c` | page tables | `vmm_map`, `vmm_unmap`, `vmm_clone_pml4_deep`, `user_load_elf` | physical memory, fork, exec |
| Kernel heap, `kernel/mm/heap.c` | list of blocks | `kmalloc`, `kfree` | everything in the kernel |
| ramfs and files, `kernel/fs/ramfs.c`, `file.c` | node tree, working directory, descriptor table, redirection of tasks | create, mkdir, unlink, read, write, open, close | system calls, persistence |
| Persistence, `kernel/fs/persist.c` | image on disk | `persist_load`, `persist_save` | ramfs, ATA; called at every exit |
| FAT16, `kernel/fs/fat16.c` | FAT copies, root directory and data on disk | list, read, write, delete | ATA, system calls |
| Input, `kernel/drivers/keyboard.c`, `mouse.c` | ring buffer of characters, cursor position | interrupt handlers, `keyboard_getchar_nonblock` | `SYS_READ`, GUI |
| GUI, `kernel/gui` | stack of windows, drag state | add, remove, bring to front, `gui_on_mouse` | timer interrupt |
| Network, `kernel/drivers/e1000.c` | transmit and receive rings | send, receive, ARP, DNS | boot code |
| Screen, `kernel/drivers/fb_term.c`, `fb_cursor.c` | text and cursor of the terminal, pointer and the pixels under it | print, hide, show, move | GUI, `SYS_WRITE` |
| Serial and VGA output, boot, descriptor tables | - | - | - |

### What is hard, and what makes each part correct

* Scheduler: a task that blocks must give up the processor and must be where its
  waker looks; the list must survive inserts between any two switches; a killed
  task is still referenced by queues and slots; ready tasks must not starve.
* Semaphores: the sign of the count decides who blocks and who is woken.
* User programs: the lock around output is held across preemption; a child may
  exit before its parent waits; `kill` may hit a task anywhere.
* Physical memory: rounding of regions, overlapping ranges, the cached hint, the
  address 0 as an error value.
* FAT16 and persistence: a power loss between two sector writes.
* ramfs: a node is freed while a descriptor, a task or the working directory
  still points to it; a name is stored cut and looked for uncut.
* Heap: splitting and merging in any order of calls; the heap never grows.
* Virtual memory and the switch: programs are mapped over the identity map the
  kernel itself uses; one of several allocations fails, a load partway; pages are
  never given back; two global variables hold the stack pointers of every task.
* Input, network: rings shared with an interrupt handler or a device, one of them
  read with interrupts enabled.
* Screen: the pixels under the pointer are saved and put back by whoever draws, and
  windows are closed, raised and dragged through stored pointers.

`PROJECT.json` lists each hazard at its line with the properties that cover it.

## 2. Modules

| Module | Models | Used by |
|---|---|---|
| `Task` | `kernel/task/task.c`, `sem.c`, the system calls that change them, `kernel_spawn_child` | `MCTask`, `Shell`, `TaskProofs` |
| `Shell` | `user/init.c`, the lock of `user/lib/stdio.c`, `exit`; extends `Task` | `MCShell`, `TaskProofs` |
| `PageAllocator` | abstract specification: a set of free pages | `Pmm` |
| `Pmm` | `kernel/mm/pmm.c`, shown to implement `PageAllocator` | `MCPmm`, `PmmProofs` |
| `Fat16` | `kernel/fs/fat16.c` with the sector writes of `kernel/drivers/ata.c` | `MCFat16`, `Fat16Proofs` |
| `Heap` | `kernel/mm/heap.c` | `MCHeap`, `HeapProofs` |
| `Ramfs` | `kernel/fs/ramfs.c`, `file.c`, redirections, the file system calls | `Persist`, `PersistProofs` |
| `Persist` | `kernel/fs/persist.c` with its sector writes; extends `Ramfs` | `MCPersist`, `PersistProofs` |
| `BoundedQueue` | abstract specification: a queue of limited length | `Keyboard`, `E1000` |
| `Keyboard` | `kernel/drivers/keyboard.c`, the keyboard loop of `SYS_READ` | `MCDevices`, `RingProofs` |
| `Gui` | `kernel/gui`, `fb_cursor.c`, `fb_term.c`, `mouse.c` | `MCDevices`, `GuiProofs` |
| `E1000` | the rings of `kernel/drivers/e1000.c`, `net_test` of `kernel/main.c` | `MCDevices`, `RingProofs` |
| `Space` | `kernel/mm/vmm.c`, `user.c`, `syscall_entry.S`, `switch.S`, and what fork, exec, spawn and `schedule` do with page tables and stacks | `MCSpace`, `SpaceProofs` |
| `TaskProofs`, `PmmProofs`, `SpaceProofs`, `HeapProofs`, `Fat16Proofs`, `PersistProofs`, `GuiProofs`, `RingProofs` | theorems and proofs; `TaskProofs` also those of `Shell`, `PersistProofs` those of `Ramfs` and `Persist`, `RingProofs` those of `Keyboard` and `E1000` | - |

`PROJECT.json` maps each definition to its lines. Definitions marked "mutant" are
not used by any specification: each is a plausible bug in the definition that
follows it, kept to show that the property that guards against it notices it.

### Task

`ring` is the circular list read from `current` along `->next`, so `current` is
`ring[1]`, a switch to the i-th task of the list is the rotation `Rotate(ring, i)`,
and `task_create`/`task_fork` insert at position 2. `st`, `parent`, `next_id`,
`tick_in_slice`, `foreground`, `child_alive` and `spawn_used` are the C variables
of those names. `wq` holds every wait queue as the sequence of tasks along
`wq_next`. `sleeper[i]` and `left[i]` are `sleepers[i]`, with the absolute wake time
replaced by the ticks that are left, so that the state space is finite.
`halted` says that the shell's `SYS_EXIT` has stopped the machine.

One action is one handler: `Tick` (`scheduler_tick` with its call of `schedule`),
`SysSleep`, `SysRead` (the poll of a background reader), `SysSemWait`,
`SysSemPost`, `SysFork`, `SysSpawn`, `SysSpawnFails`, `SysWait`, `SysExit`, `SysKill`,
`SysSetFg`. A handler that blocks ends in the switch; the return from the call is
the task's next turn on the processor. The helper `Schedule(s, r)` takes the
states and the list at the time of the call, because a handler has already changed
them by then.

Page tables, stacks and stack pointers of the switch, and allocations that fail in
`task_fork`, are the subject of `Space`.

### Shell

A step is a system call of the current task joined with the step of its program,
the return from a blocking call, or a tick. `prog` says which program a task runs,
`pc` where it is between two calls, `child` what `sys_fork` returned. `puts` and
`putchar` are the pair `LockStdout`/`UnlockStdout` around output; `run` is
`CmdRun`, `RunWait`, `BackToShell` on the parent's side and `ChildSetFg`,
`ChildExec` or `ChildExecFails` and `Exit` on the child's. The output itself has no
state.

### Pmm and PageAllocator

`used` is the set of bits set, `used_pages` and `search_hint` are the counters of
the code, kept apart from `used` because the question is whether they agree with
it. `Init` runs `pmm_init` over any memory map in `MemoryMaps`, in bytes, with the
rounding of the code. `ret` is the page last returned (0 for failure), `held` the
pages callers have been given. `PageAllocator` knows only the set of free pages
and the result; the mapping is `free <- AllPages \ used` and
`out <- IF ret = 0 THEN NoPage ELSE ret`.

### Fat16

The driver keeps nothing in memory between calls and runs with interrupts off, so
a call is determined by the disk it finds: `WriteWrites` and `DeleteWrites` give
the sequence of its sector writes, in the order of the code, `WriteSector` makes
the next one and `PowerLoss` drops the rest. `ata_write_sectors` ends with a cache
flush, which is why writes reach the disk in order. Sizes are in bytes:
`NumClusters` is the round-up of `fat16.c:380`, `DataWrites` fills the clusters
sector by sector with the last sector padded, and `ReadFile` reads byte by byte
along the chain up to the size.
An entry of the FAT is written on its own, since a write of a FAT sector changes
one entry of it. `expect`, `torn`, `late` and `stranded` are observers and influence
nothing. Names are model values, which is what `parse_83` makes of two names that
differ in their first eight and three characters.

Left out: read and write errors. A failing write of data or of the directory
returns at once, which leaves the same disk as a power loss at that place; a
failing `fat_set` inside a chain is ignored by the code and not covered.

### Heap

`blocks` is the list from `head` along `next`, one record per header; `live` observes
what callers hold. `Kmalloc` takes the first block that fits and splits it when
the rest is worth it, `Kfree` marks the block and walks the list once
(`merge_all`, a recursive function on the list). Callers free what they hold, each pointer
once, as the kernel's callers do. Requests are small against 2^64: the largest the
kernel makes is a power of two not above 2^63, so `size + HEADER_SIZE` does not
wrap around. `prev` is written by the code and never read, and is left out.

### Ramfs and Persist

`node` is the memory nodes lie in, `live` the addresses that are allocated; a list
of children is a sequence, newest first, as `next` links them. Descriptor table and
working directory are shared by all tasks, as in the code. `ramfs_unlink_node`
frees a node whoever points to it, and the next allocation may get the same
address: such a pointer then leads to another file, and that is followed. A call
that goes to freed memory is undefined (`UseRemoved` sets `wild`), and nothing is
said from there on. `cut` marks files under a position beyond their end, `owed` the
entries a listing has yet to return; both are observers. Every task has one
standard input and one standard output that may be redirected, both at once and
several tasks at a time, and `fork` copies them.

A name is what stands between two slashes, of any length. Its characters are not
modelled, but what becomes of it in the three places that treat it differently is:
`Stored` is what `str_copy` keeps of it in a node, at most 63 characters
(`ramfs.c:14-18`); `Pieces` are the components `ramfs_lookup` makes of it, which
takes a long name for several (`ramfs.c:63`) and skips `.` and the empty one; and a
name about to be created is compared as it is (`ramfs.c:83`, `:93`). `Stored` and
`Pieces` are constants, so the theorems hold for any names.

`Persist` turns the tree into a sequence of units (magic, total, type, name, size,
bytes, end marks), cuts it into sectors and writes them one by one over the image
before. `Boot` may come at any time, between two sectors too, and reads whatever is
on the disk with the limits of `deserialize_node`: units are numbers, because a
torn image makes the reader take any of them for any other. Left out: disk errors,
and saves while descriptors are open (they are not part of the image).

### Keyboard and BoundedQueue

A handler is one step, and so is `SYS_READ` as far as it gets with interrupts off.
From its first `sti; hlt` on they stay enabled, so there each access to the ring is
a step: the test, the fetch, the second read of the tail and its store. `BoundedQueue`
says what a ring promises; the mapping is `q <- Waiting`, the characters from tail to
head, and `out <- given`. The observer `kcall` (`rxcall` in `E1000`) holds the last call
on the ring with the item it offered and changes at every call, so a call that leaves
the ring as it is, such as a key that is dropped, is still a step of the queue and is
allowed only where the queue is full. `Flow` are the two ends of a queue, which is all
the receive ring has; `QNext` adds `Clear`, a call of its own, for the drain of
`SYS_EXIT` (`syscall.c:102-105`). `raced` marks the case in which the promise is broken:
a second task moves the tail while a reader is between its test and its store.

### Gui

The screen is one row of cells, a window a row of title bar, content and, on the
demo, the close button. A cell shows what was drawn last; `Hide` and `Show` put back
and save the cells under the pointer, which is opaque on its first cell and shows
what is below on the others. The mouse sends bytes; `MouseByte` assembles packets
with the resynchronisation of `mouse_handler` and `MouseMove` acts on a whole one.
`gui_on_mouse`, called by the timer, is the five actions from `CloseWindow` to `Drag`.
`fb_term_putc` is `PutChar`, `NewLine`, `Return` and `Backspace` (a tab is one to four
blanks). Every one of them is one step, for they run with interrupts off. `canvas`
observes the screen without a pointer.

### E1000

`rdh`, `rdt`, `tdh`, `tdt` are the registers of the card, `rx_cur` and `tx_cur` the
driver's indices. The card is external: it fills descriptors up to the tail, drops
packets when none is left, sends up to the transmit tail, and does so at any time.
`net_test` is the four stages ARP, ICMP, DNS and TCP, each a request, a pause and a
number of polls. Packets are known by their kind, "other" among them; layout and
checksums are left out.

### Space

A region is one 2 MB entry of a page directory; there are four, for the two programs
(`USER_LOAD` and the child's address) and the two stacks. A program is one segment of
`PROG_PAGES` pages at the start of its region, a stack one page. `Map` is `vmm_map`: it
splits a huge page or makes a table. `DeepClone` is `vmm_clone_pml4_deep`, `LoadElf` and
`SetupStack` are `user.c`. The loader allocates, clears and maps page by page, with a
table after the first page where one is missing, and returns where a page has no frame:
`Got` are the pages it has by then, which are replaced by cleared ones already, and the
caller goes on with them (`InstallFails`). Frames are numbers handed out in order, since
`pmm_free_page` has no caller. `mem` says who wrote a frame last, and `view` what a task
has reason to find in each region. `kernel_rsp` and `saved_user_rsp` are the two globals of
`syscall_entry.S`, exchanged in `schedule`.

`mode` says where a task is: `new`, not yet out of the kernel, with interrupts on; `user`;
`wait`, in a call that has put it to sleep with interrupts off; `read`, in the loop of
`SYS_READ`, with interrupts on; and `edge`, still in the kernel but on its user stack with
interrupts on, which is `user_enter` before its `iretq` and the end of `syscall_entry` after
a `SYS_READ` that has waited. `Preempt` is the tick in every mode but `wait`. At the edge,
when the next task has another space, `schedule` writes `cr3` before `task_switch` pushes the
registers, so they go to whatever the other space has at that address (`PreemptAtEdge`).
Which ready task is next is the concern of `Task`, so any may be.

There are ways in which the code does lose a program's memory, and the model takes the step
and is not followed past it: a spawned task that runs in a foreign space, or is loaded over
the stack of its caller (`stray`); a switch to another space at the edge, and an exec of the
running program itself that fails partway (`broken`); an allocation failure that the code does
not check (`starved`). Left out: `vmm_unmap` (no caller), the framebuffer, which all spaces
share, the higher half, and programs of several segments, which the loader treats one after
the other.

## 3. Runs

| Run | Checks | Result |
|---|---|---|
| `task` | `TypeOK`, `RingOK`, `OneRunning`, `WaitsInOnePlace`, `BlockedIsFindable`, `SemBalance`, `DeadStaysDead`, and `ReadyRuns`, `SleeperWakes` under `WF(Tick)` | hold, about 143 000 states |
| `shell` | `MutualExclusion`, `LockAccounts`, `PutsReturnsUnlessKilled`, with `kill` of any program at any time | hold, about 9 000 states |
| `shell_kill` | `PutsReturns` | violated: finding 1 |
| `shell_wait` | `ShellReturns` | violated: finding 2 |
| `shell_back` | `BackMeansExited` | violated: finding 3 |
| `pmm` | `TypeOK`, `Accounting`, `NoneBelowHint`, `OnlyMemory`, `Implements` | hold, 36 memory maps, about 1 000 states |
| `fat16` | `TypeOK`, `Intact`, `ChainsApart`, `FatsAgree`, `NoLeak` | hold, about 3 990 000 states |
| `heap` | `Tiles`, `OwnedApart`, `RoomIsFound` | hold, about 137 000 states |
| `files` | `TypeOK`, `TreeOK`, `NoGap`, `ListingComplete`, `Restored` | hold, about 550 000 states |
| `devices` | `KeysDelivered`; `CursorClean`, `PictureOK`, `HandlesLive`; `RxImplements`, `TxInOrder`, `NoReplyMissed` | hold, about 812 000 states |
| `space` | `OwnMemory`, `OwnStacks`, `FramesApart` | hold, about 768 000 states |
| `space_stray` | `EveryTaskItsMemory` | violated: finding 4 |

### Findings

1. `task_kill_by_id` sets `TASK_DEAD` and nothing else. A task killed between
   `sys_sem_wait(0)` and `sys_sem_post(0)` keeps the lock, one killed while it
   waits is handed the lock and keeps it; from then on nobody gets out of `puts`,
   the shell included. `PutsReturnsUnlessKilled` shows that this is the only way:
   a kill anywhere else is harmless.
2. `task_wait_child` blocks without asking whether the child is still there. If
   the child gets through `SYS_EXIT` before the shell is in `sys_wait`, the shell
   waits for ever.
3. `task_signal_child_exit` wakes every waiter at every exit. A spawned program
   that exits brings the shell back to its prompt while the program it has run
   goes on.
4. `kernel_spawn_child` loads the child into the address space of its caller and gives
   it none of its own. Its stack goes to `CHILD_STACK_BASE`, which is where the stack
   of a shell started with `run shell` already is: that shell returns from `spawn` to a
   stack of zeros. And with `pml4_phys` 0 the child runs on whatever page table the
   task before it used, which after a `fork` is another program's. `OwnMemory`
   shows that without them, and without the other losses that section 2 names
   (`broken`, `starved`), every program finds its own memory.

### Bounds, and why they are enough

* `MaxTask = 3`: kmain, the shell and two more tasks. Two tasks meet in a queue or
  a lock while a third acts on them; the list is long enough for an insertion
  point, a predecessor and a rest. The theorems hold for every number.
* `TIMESLICE = 2`: a tick that switches and one that does not.
* `MAX_SLEEPERS = 1` in `task`: a sleeper, and a full table when another task sleeps;
  2 in `shell`. `SEM_MAX = 2`: the semaphore in use and one
  that was never initialised, on which the calls do nothing; `MaxCount = 1` lets a
  semaphore be posted without a wait up to its initial value.
* `WORD = 64` stands for 2^64; `SleepMs = {0, 15, 63}` is a sleep rounded up from
  zero, one of two ticks, and one for which `ms + 9` wraps around.
* `pmm`: eight pages of four bytes; regions end inside a page, overlap, lie beyond
  the largest memory or are no memory at all; a reserved range covers part of the
  low memory, another crosses region borders unaligned.
* `fat16`: three files, a directory of two slots and a disk of three clusters, so
  that both fill up; clusters of two sectors of two bytes, and contents that are empty,
  that fill one cluster exactly and that are one byte longer; two copies of the FAT;
  one power loss at any sector write. The file names are symmetric (no property
  or action tells them apart).

* `heap`: all sizes of the code divided by eight, and room for eight blocks, so
  that a free block has used and free neighbours on either side and requests of
  three sizes meet every kind of rest.
* `files`: the image does not hold redirections, so the initial state picks one of two parts
  that are explored side by side. In the first there are a file, a directory, and a name too
  long that is kept as the name of the directory and looked up as directory and file, so that
  duplicates arise and paths are misread; relative paths and `..`, which can also be created;
  one descriptor and two addresses for new nodes, so that one removed is soon used again; two
  more for the nodes a torn image may name. Files of up to two bytes outgrow their first
  capacity of one. Nine units in three sectors hold the tree of two nodes and not the
  largest, and two entries of one name; two saves and a boot, with three calls after the first
  save, let a shorter image follow a longer one. In the second part two tasks, each with both
  redirections, and a descriptor share one file, whose address a directory or another file may
  take when it is removed; nothing is saved and the working directory stays. The tasks are
  symmetric.
* `devices`: keyboard, desktop and card share no variable, so the initial state picks
  one of them and the run explores their sum, not their product; the keyboard is not
  followed past a race of two readers. A ring of three
  slots fills with two characters, and a reader may want two. On six cells two
  windows of four always overlap somewhere; the mouse bytes press (9) and release (254)
  the button or are out of step (0), and as the second byte of a packet move the
  pointer four to the right, one to the left or not at all. Three receive
  descriptors, with at least as many polls as the ring can hold packets, as in the
  code (30 for 15), and more transmit descriptors than requests.
* `space`: page tables of two entries and programs of two pages. Boot takes the frames up
  to 15 and the first fork those up to 24; the load after it takes a page, a table and a
  page, and its stack two frames more. Memories of 25 to 29 frames end at each of these
  allocations, in the middle of the program among them, and 39 are enough for two forks, of
  which one can load. A heap of two blocks lacks the block of the second new task, one of three
  its kernel stack, one of four nothing. Three tasks besides kmain.

`CHECK_DEADLOCK FALSE` where the system may stop: in the runs of `Task` and `Shell` when
the shell exits and the kernel executes `cli; hlt`; in `devices` when `net_test` has
ended; in `files` and `space` when the bounds on calls and boots are used up, the machine
has halted, or nothing is promised any more.

### Fairness

`WF(Tick)`: the PIT is programmed to 100 Hz and no code keeps interrupts off for
ever before the halt. The run `task` assumes nothing else. The liveness properties of
`Shell` add strong fairness of three steps of each task, in which no input decides
what comes next: ending output that has begun, entering `sys_wait`, returning
from it. Strong, because a tick may take the processor away each time; a task that
is scheduled again and again does execute its next instruction.

## 4. Proofs

`TaskProofs` proves the safety properties of the run `task` for every number of
tasks, slots and semaphores and every `TIMESLICE`, from the assumptions named in
`Task` only (at least the shell and kmain exist, one tick per slice at least,
semaphore 0 exists, sleep arguments fit the word). The invariant `IInv` is the
conjunction of `TypeOK`, `RingOK`, `OneRunning`, `WaitsInOnePlace`,
`BlockedIsFindable` and `SemBalance`. No part is inductive alone: `task_block` is
right only because `schedule()` finds another ready task, for which kmain must be
on the list and never blocked; a wake is right only because the woken task waits in
no other place; `sem_post` finds its waiter because the count is the length of the
queue. The proof regroups the parts (`Core`) and treats each handler through
lemmas about the operators: rotation and insertion keep the list, appending to and
taking from a queue keep every task in one place, `Schedule` keeps one task
running. `DeadCorrect` is an action property that follows from the invariant.

`TaskProofs` then proves `MutualExclusion` and `LockAccounts` for any number of tasks and
any kills. Each step of `Shell` contains a step of `Task` (`ProgramsOnTask`), so `IInv`
holds there too, and `LockInv` is inductive on top of it: the count of semaphore 0 is
one less the tasks inside `puts`, the killed ones among them included; those in its queue
are among them; an id not yet given out is not (`Fresh`); and a lock that is not free has
a holder (`Held`). Exclusion is then a matter of counting.

`PmmProofs` proves `TypeOK`, `Accounting` and `NoneBelowHint` for every memory map,
page size and set of reserved ranges, and `Refinement`: `Pmm` implements
`PageAllocator`. Its invariant adds that page 0 is neither free nor held (so that
0 can mean failure) and that held pages have their bit set. The refinement needs
that the two loops miss no free page: `ScanFinds`, from the existence of a least
element of a set of naturals. A consequence of `NoneBelowHint` is that the second
loop of `pmm_alloc_page` never finds anything.

`OnlyMemory` rests on the rounding of `pmm_init`: a page between the rounded ends of a
region lies inside it (`MapAssumption`: regions are given in whole bytes).

`SpaceProofs` proves `OwnStacks`, `OwnMemory` and `FramesApart` for programs, tables,
memories and heaps of any size. `StackInv` keeps the saved stack pointers, the two globals
and `mode` in step; `SpaceInv` says that tables and pages of different spaces are different frames
below the allocator's, that each region of a live task is mapped or shared the way its
program expects, and what was last written there. What a load does is summed up once,
for loads that succeed and loads that end anywhere (`Grown`: the entries of other regions
stay, those of the loaded one are as before or new frames; `HasPages`: a region has all its
pages; `Installed`: nothing outside those regions of the space in use has changed), and the
actions use only that.
A load that fails leaves the caller its memory because the pages replaced belong to the other
program, which is why `broken` is about an exec of the running one. A tick at the edge keeps the
memory because space and stack stay the same. `BootAssumption` says that the loader has
frames for the shell: `kmain` halts when it fails (`kernel/main.c:342-346`).
A boot that runs out of memory while it makes the shell is `starved`, like any later step.
The proof found an error in an earlier form of `CloneTables`, which named a wrong frame
for one of the clone's tables; the model is now as the code is.

`HeapProofs` proves `Tiles`, `OwnedApart` and `RoomIsFound` for any heap and any requests.
The invariant is that the list tiles the heap, that no two neighbours are free between two
calls, and that used blocks and what callers hold are one to one. What `merge_all` leaves
behind is proved along its walk: the part passed so far is merged, tiles what it has
replaced and has kept the used blocks.

`Fat16Proofs` proves all five properties of the run `fat16`, for sectors, clusters, disks,
directories, files and numbers of FAT copies of any size and any number of power losses. The
invariant speaks of the future: the writes a call has yet to make lead from the disk as it is to
one that
is whole with the outcome of the call (`Whole`), and every disk on the way is `Fine`: the
files other than the one written have chains of their own into which nothing else leads,
and read as expected. Until the mark in the directory the remaining writes hold that mark,
which is how `PowerLoss` knows a torn file; after it no entry bears the name, which is
why a power loss leaves no file or the whole one. The lemmas are, in order: what `Chain`
returns (`ChainLinks`, `LinksChain`), what `alloc_cluster` gives (`AllocAllotted`),
sequences of writes as walks through sets of disks (`Runs`), that writes outside the chains
in use change nothing of what is `Fine` (`FrameFine`), and the four phases of a call: chain
freed, clusters linked, given back or filled, entry written. That a file reads as its content
rests on the arithmetic of bytes, sectors and clusters: the sectors of a content fit its rounded
number of clusters, no two have the same place, and byte `i` is in the sector and the cluster
in which the reader looks for it. Two parts of the invariant were
not seen at first: no chain leads to a free cluster (`NoDangling`, until a deletion is cut
short), without which a new file could become the tail of another, and the entries of
excepted files lead into no other chain (`Closed`). `FatAssumption` bounds the clusters by
what `alloc_cluster` looks at (`fat16.c:263`).

`PersistProofs` proves all five properties of the run `files`, for any names and any way of
cutting them, any paths, descriptors and tasks, any number of nodes, images and
sectors of any size, and any number of calls,
saves, power losses and boots. Besides what the code has, it assumes that the addresses a
node may have are finitely many and that the area on disk has room for the two units of the
header (`persist.c` reserves 512 KB). The argument has three parts.

* The calls. `Tree` is an invariant in which `TreeOK`'s walk to the root is replaced by a
  rank of each node, one more than that of its parent, because a rank survives insertions and
  removals elsewhere; `LeadsUp` turns ranks into walks again. `RInv` adds the positions of
  descriptors and redirections (`Gapless`), what is owed to each listing, and that nothing
  but an address of a node is stored anywhere. There is a lemma for each action.
* Any image. `WalkIs` says that `ramfs_deserialize` makes a tree of whatever it reads, well
  formed or not: each turn of the reader either stops or adds one fresh node below one it
  has already made. This is why a torn image can lose files but not the tree.
* An image that was saved. `SerIs` and `SpotsExist` give each node of the saved tree its
  place in the image. `Sim` then relates the reader's state in the middle of an image to the
  saved tree: the directories it is inside are a chain from the root (`Chain`), it has read
  a first part of the children of each, and what it has built matches what it has read
  (`Alike`, `Matches`). Every entry it meets is the next file, the next directory or the end
  of the one it is in (`TakesFile`, `TakesDir`, `TakesEnd`), and each takes it to the next
  such state (`ReadsFile`, `ReadsDir`, `ReadsEnd`, `ReadsLast`). Where the next entry has the
  name of one already read the reader stops, and what it has built is a part of what was
  saved. Each of the others moves the
  reader forward, so it arrives (`TurnProgress`, `ReadsBack`), and matching trees have the
  same files (`FilesEqual`). `Underway` states how far a save has come: the sectors written
  are those of the new image, the others those of the disk before.

The library's induction theorems cannot be used, since they take an operator as parameter.
`SetInduction` states induction for a set, from the library's well-foundedness of the
naturals, and every fact about a recursive function in this module rests on it.

`GuiProofs` proves `CursorClean`, `PictureOK` and `HandlesLive` for every screen and window
size. The invariant: `canvas` is what `Hide` would make of the screen, each cell of it
outside the dirty region is that of the topmost window there, and the stored pointers lead
to windows on the list, the dragged one on top.

`RingProofs` proves that the keyboard's ring and the receive ring implement
`BoundedQueue` for any size (each call is an offer, which appends unless the queue is full, a
removal at the other end or, on the keyboard only, the drain of `SYS_EXIT`), that packets
leave in the order of `net_test` (`TxInOrder`), and that no stage of `net_test` gives up on
an answer that was there (`NoReplyMissed`). The invariants relate the indices of driver and
device to the descriptors between them.

Only model-checked:

* liveness (`ReadyRuns`, `SleeperWakes`, `PutsReturnsUnlessKilled`), which is outside what
  the prover can do;
* the violations of section 3: a counterexample is TLC's to find.

## 5. Read in the code, outside the properties

* `spawn` prints "spawn failed" when it has succeeded: `user/init.c:370` compares
  the result with 0, while `kernel_spawn_child` returns the id of the task.
* `help` lists `fork` (`user/init.c:33`), which `dispatch` does not know.
* `child_alive` is never incremented, so the number of children in `sysinfo` is
  always 0.
* A task that kills itself runs on; its next blocking call sets it to BLOCKED and
  it comes back to life.
* `task_create` leaves `stdin_node` and `stdout_node` as `kmalloc` returned them.
* `pmm_free_page` and `task_kill_all_children` have no caller.
* `fat16_write_file` deletes the old file first: when the disk or the directory is
  full, the old content is lost, and with a full directory the new clusters too.
* `fat16_delete_file` frees the chain before it marks the directory entry. After a power
  loss in between the old entry names clusters that the next file is given, and
  deleting or overwriting the old name then frees the new file's chain. `Intact` excepts
  the file of the old entry and every file written after the loss, `ChainsApart` is about
  disks without such an entry.
* Errors of `fat_set` inside a chain are ignored.
* `mkdir a/` on an existing directory creates an entry with an empty name in it, and
  `mkdir ..` one named `..`; `ramfs_lookup` finds neither, so they cannot be removed.
* A name longer than 63 characters is stored cut and looked for uncut: it can be created over
  and over, and each time leaves another entry of the same name in the directory. No path
  leads to it as it was given, since `ramfs_lookup` takes it for several components. At the
  next boot the reader of the image refuses the second entry and stops there: what comes
  after it in the image is lost, and the save of the next exit makes the loss final.
* After a `SYS_READ` that has waited, and in `user_enter`, a tick may come when the user's
  stack is loaded and the kernel not yet left. `schedule` then writes `cr3` and pushes the
  registers into the space of the next task; the task is later resumed from its own stack,
  where they are not.
* An `exec` that runs out of memory returns -1 to a program whose first pages may already
  have been replaced, when it is the program itself that was to be loaded again.
* `mark_used` rounds inward, so a page only partly reserved stays free; this can matter for
  the multiboot information, which `fb_init` reads after the heap has taken its pages.
* Descriptors are not closed when a task exits: 61 of them fill the table for good.
* `edit` and pipes need `/tmp`, made when a shell starts (`user/init.c:383`). A shell
  woken early (finding 3) unlinks `/tmp/_pipe` while its child still writes to it.
* `SYS_REDIR` empties a file under the positions of others, and a `SYS_WRITE` whose
  `kmalloc` fails still moves the position; the next write leaves a gap that is filled
  with what the heap held.
* `SYS_EXIT` ignores what `persist_save` returns, and a tree too large is not saved.
* A `SYS_EXIT` that drains the keyboard, or a second reader, while a reader is inside
  `keyboard_getchar_nonblock` leaves the tail past the head: old characters come again.
* Terminal output is drawn over a window that covers the terminal, until the next
  redraw (`overdrawn`).
* In `net_test` a TCP reset is announced as an answer to the SYN (`kernel/main.c:225`), and
  `if (n < 42) continue;` in the DNS loop skips the delay, so that without traffic the
  30 polls are over at once.
* Out of memory: `user_setup_stack_at` maps frame 0 unchecked; when `vmm_map` fails, which
  it does silently, the loader writes to the identity map; `task_fork` and `task_create`
  do not check the kernel stack, and `heap_init` calls its whole range free even when
  pages ran out.
* `split_huge_pd` opens a whole region to user mode. That the kernel's frames are not in
  it rests on sizes: `pmm_init` reserves the first 8 MB, and the heap with its tables uses
  up the frames from there to the end of the child's region. `HEAP_PAGES >= TABLE_PAGES` in
  `Space` states it. Each `fork` copies every split region whole, and nothing is given back.

## 6. Not modelled

* serial and VGA output, the descriptor tables, PCI enumeration and the start-up
  dialogues with devices: written once, or output that no other part reads;
* packet layout and checksums, glyphs and pixels, the formatting and strings of the user
  library: data no property tells apart;
* the editor, the games and the shell's line parsing: sequential programs whose effect on
  the system is the system calls, which are modelled in any order;
* disk errors, on both file systems;
* who has the foreground after the parent it should go to has died (`syscall.c:98`): the
  state is in `Task`, but nothing in the repository says what should happen.

Every safety property that a run checks is also proved. What is left to model-checking alone
is listed at the end of section 4.
