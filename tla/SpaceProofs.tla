---------------------------- MODULE SpaceProofs ----------------------------
(***************************************************************************)
(* Proofs about module Space, for any table and memory size, any heap and  *)
(* any number of tasks.                                                    *)
(***************************************************************************)
EXTENDS Space, FiniteSetTheorems, WellFoundedInduction, TLAPS

(***************************************************************************)
(* The stacks of the tasks.  A task that waits inside a call has its user  *)
(* stack pointer in its own task structure, the running one still in the   *)
(* global; and every task but kmain brings a kernel stack of its own to    *)
(* the switch, or the low stack of a failed allocation.                    *)
(***************************************************************************)
StackType ==
    /\ current \in Tasks /\ heap \in Nat /\ starved \in BOOLEAN
    /\ state \in [Tasks -> {"none", "ready", "running", "dead"}]
    /\ mode \in [Tasks -> {"new", "user", "wait", "read", "edge"}]
    /\ kernel_stack_top \in [Tasks -> Int]
    /\ own_rsp \in [Tasks -> Regions \cup {"none"}] /\ saved_user_rsp \in Regions \cup {"none"}
    /\ ctx \in [Tasks -> [rip : Regions \cup {"none"}, rsp : Regions \cup {"none"}]]

InCall(t) == mode[t] \in {"wait", "read"}

Born(t) == t \in Tasks \ {0} /\ state[t] # "none"

StackInv ==
    /\ StackType
    /\ state[0] # "none" /\ state[1] # "none" /\ state[current] # "none"
    /\ \A t \in Tasks : state[t] = "none" => mode[t] = "new"
    /\ \A t \in Tasks : Born(t) => kernel_stack_top[t] \in {t, LowStack}
    /\ ~starved => \A t \in Tasks : Born(t) => kernel_stack_top[t] = t
    /\ current # 0 => kernel_rsp = kernel_stack_top[current]
    /\ current # 0 /\ InCall(current) => saved_user_rsp = ctx[current].rsp
    /\ \A t \in Tasks \ {current, 0} : InCall(t) => own_rsp[t] = ctx[t].rsp

LEMMA LowestFresh ==
    ASSUME Fresh # {}
    PROVE  NextId \in Tasks /\ state[NextId] = "none"
<1> DEFINE R == {ss \in Nat \X Nat : ss[1] < ss[2]}
<1>1. IsWellFoundedOn(R, Nat)
  BY NatLessThanWellFounded, Zenon DEF OpToRel
<1>2. \A x, y \in Nat : x < y => <<x, y>> \in R
  OBVIOUS
<1>3. Fresh \subseteq Nat /\ Fresh \subseteq Tasks
  BY SpaceAssumption DEF Fresh, Tasks
<1> HIDE DEF R
<1>4. PICK x \in Fresh : \A y \in Fresh : ~ (<<y, x>> \in R)
  BY <1>1, <1>3, WFMin
<1>5. \A y \in Fresh : x <= y
  <2>1. \A y \in Fresh : y \in Nat /\ x \in Nat /\ ~ (y < x)
    BY <1>2, <1>3, <1>4
  <2> QED
    BY <2>1
<1>6. NextId \in Fresh
  BY <1>5 DEF NextId
<1> QED
  BY <1>3, <1>6 DEF Fresh

(***************************************************************************)
(* schedule hands the global stack pointers over with the CPU.             *)
(***************************************************************************)
LEMMA SwitchStacks ==
    ASSUME StackInv, NEW n \in Tasks, NEW s \in {"ready", "dead"}, NEW rsp \in Regions \cup {"none"},
           SwitchTo(n, s, rsp),
           UNCHANGED <<heap, kernel_stack_top, ctx, starved>>,
           NEW m \in {"new", "user", "wait", "read", "edge"}, mode' = [mode EXCEPT ![current] = m],
           m \in {"wait", "read"} /\ current # 0 => rsp = ctx[current].rsp
    PROVE  StackInv'
<1>1. /\ n # current /\ state[n] = "ready" /\ current' = n
      /\ state' = [state EXCEPT ![current] = s, ![n] = "running"]
      /\ kernel_rsp' = StackFor(n)
      /\ own_rsp' = [own_rsp EXCEPT ![current] = rsp]
      /\ saved_user_rsp' = own_rsp[n]
  BY DEF SwitchTo, LoadedRsp
<1> USE DEF StackInv, StackType, InCall
<1>2. StackType'
  BY <1>1
<1>3. \A t \in Tasks : (state'[t] = "none") <=> (state[t] = "none")
  BY <1>1
<1>4. 0 \in Tasks /\ 1 \in Tasks
  BY SpaceAssumption DEF Tasks
<1>5. /\ state'[0] # "none" /\ state'[1] # "none" /\ state'[current'] # "none"
      /\ \A t \in Tasks : state'[t] = "none" => mode'[t] = "new"
  BY <1>1, <1>3, <1>4
<1>6. /\ \A t \in Tasks : Born(t)' => kernel_stack_top'[t] \in {t, LowStack}
      /\ ~starved' => \A t \in Tasks : Born(t)' => kernel_stack_top'[t] = t
  BY <1>3 DEF Born
<1>7. current' # 0 => kernel_rsp' = kernel_stack_top'[current']
  <2>1. n # 0 => kernel_stack_top[n] # NoStack
    BY <1>1 DEF Born, NoStack, LowStack, Tasks
  <2> QED
    BY <1>1, <2>1 DEF StackFor
<1>8. current' # 0 /\ InCall(current)' => saved_user_rsp' = ctx'[current'].rsp
  BY <1>1
<1>9. ASSUME NEW t \in Tasks \ {n, 0}, InCall(t)'
      PROVE  own_rsp'[t] = ctx'[t].rsp
  <2>1. CASE t = current
    BY <1>1, <1>9, <2>1
  <2>2. CASE t # current
    BY <1>1, <1>9, <2>2
  <2> QED
    BY <2>1, <2>2
<1> QED
  BY <1>1, <1>2, <1>5, <1>6, <1>7, <1>8, <1>9

(***************************************************************************)
(* A new task gets a stack nobody has, or the low one when the heap is out.*)
(***************************************************************************)
LEMMA NewTaskStacks ==
    ASSUME StackInv, mode[current] = "user", Fresh # {},
           state' = [state EXCEPT ![NextId] = "ready"],
           NEW low \in BOOLEAN, low => starved', starved => starved', starved' \in BOOLEAN,
           kernel_stack_top' = [kernel_stack_top EXCEPT ![NextId] = IF low THEN LowStack ELSE NextId],
           NEW w \in [rip : Regions \cup {"none"}, rsp : Regions \cup {"none"}],
           ctx' = [ctx EXCEPT ![NextId] = w],
           NEW o \in Regions \cup {"none"},
           own_rsp' = own_rsp \/ own_rsp' = [own_rsp EXCEPT ![NextId] = o],
           heap' \in Nat, saved_user_rsp' \in Regions \cup {"none"}, UNCHANGED <<mode, current, kernel_rsp>>
    PROVE  StackInv'
<1> DEFINE c == NextId
<1>1. c \in Tasks /\ state[c] = "none"
  BY LowestFresh
<1> HIDE DEF c
<1>2. c # 0 /\ c # 1 /\ c # current /\ mode[c] = "new"
  BY <1>1 DEF StackInv
<1> USE DEF StackInv, StackType, InCall
<1>3. c \in Int /\ LowStack \in Int /\ 0 \in Tasks /\ 1 \in Tasks
  BY <1>1, SpaceAssumption DEF Tasks, LowStack
<1>4. StackType'
  BY <1>1, <1>3 DEF c
<1>5. /\ state' = [state EXCEPT ![c] = "ready"] /\ ctx' = [ctx EXCEPT ![c] = w]
      /\ kernel_stack_top' = [kernel_stack_top EXCEPT ![c] = IF low THEN LowStack ELSE c]
      /\ own_rsp' = own_rsp \/ own_rsp' = [own_rsp EXCEPT ![c] = o]
  BY DEF c
<1>6. /\ state'[0] # "none" /\ state'[1] # "none" /\ state'[current'] # "none"
      /\ \A t \in Tasks : state'[t] = "none" => mode'[t] = "new"
  BY <1>2, <1>3, <1>5
<1>7. \A t \in Tasks : Born(t)' => kernel_stack_top'[t] \in {t, LowStack}
  BY <1>1, <1>2, <1>5 DEF Born
<1>8. ~starved' => \A t \in Tasks : Born(t)' => kernel_stack_top'[t] = t
  BY <1>1, <1>2, <1>5 DEF Born
<1>9. current' # 0 => kernel_rsp' = kernel_stack_top'[current']
  BY <1>1, <1>2, <1>5
<1>10. \A t \in Tasks \ {current', 0} : InCall(t)' => own_rsp'[t] = ctx'[t].rsp
  BY <1>1, <1>2, <1>5
<1> QED
  BY <1>4, <1>6, <1>7, <1>8, <1>9, <1>10

LEMMA StackStep ==
    ASSUME StackInv, Next
    PROVE  StackInv'
<1> USE DEF StackInv, StackType, InCall
<1>1. /\ ctx[current].rsp \in Regions \cup {"none"} /\ ctx[current].rip \in Regions \cup {"none"}
      /\ ctx[current] \in [rip : Regions \cup {"none"}, rsp : Regions \cup {"none"}]
  OBVIOUS
<1>2. ASSUME NEW n \in Tasks, Preempt(n) \/ PreemptAtEdge(n) PROVE StackInv'
  <2>1. /\ mode' = mode /\ SwitchTo(n, "ready", saved_user_rsp)
        /\ UNCHANGED <<heap, kernel_stack_top, ctx, starved>>
    BY <1>2 DEF Preempt, PreemptAtEdge, taskvars
  <2>2. PICK m \in {"new", "user", "wait", "read", "edge"} : m = mode[current]
    OBVIOUS
  <2>3. mode' = [mode EXCEPT ![current] = m]
    BY <2>1, <2>2
  <2>4. m \in {"wait", "read"} /\ current # 0 => saved_user_rsp = ctx[current].rsp
    BY <2>2
  <2> QED
    BY <2>1, <2>3, <2>4, SwitchStacks
<1>3. ASSUME NEW n \in Tasks, Block(n) PROVE StackInv'
  <2>1. /\ mode' = [mode EXCEPT ![current] = "wait"] /\ SwitchTo(n, "ready", ctx[current].rsp)
        /\ UNCHANGED <<heap, kernel_stack_top, ctx, starved>>
    BY <1>3 DEF Block, taskvars
  <2> QED
    BY <1>1, <2>1, SwitchStacks
<1>4. ASSUME NEW n \in Tasks, Exit(n) PROVE StackInv'
  <2>1. /\ mode' = [mode EXCEPT ![current] = mode[current]]
        /\ mode[current] = "user" /\ SwitchTo(n, "dead", ctx[current].rsp)
        /\ UNCHANGED <<heap, kernel_stack_top, ctx, starved>>
    BY <1>4 DEF Exit, taskvars
  <2> QED
    BY <1>1, <2>1, SwitchStacks
<1>5. CASE Enter
  <2>1. PICK m \in {"edge", "user"} : mode' = [mode EXCEPT ![current] = m]
    BY <1>5 DEF Enter
  <2>2. UNCHANGED <<heap, current, state, kernel_stack_top, kernel_rsp, saved_user_rsp, own_rsp, ctx, starved>>
    BY <1>5 DEF Enter, taskvars
  <2> QED
    BY <2>1, <2>2 DEF Born
<1>11. CASE LeaveKernel
  BY <1>11 DEF LeaveKernel, taskvars, Born
<1>12. CASE ReadKeys
  <2>1. /\ mode[current] = "user" /\ saved_user_rsp' = ctx[current].rsp
        /\ mode' = [mode EXCEPT ![current] = "read"]
        /\ UNCHANGED <<heap, current, state, kernel_stack_top, kernel_rsp, own_rsp, ctx, starved>>
    BY <1>12 DEF ReadKeys, Syscall, taskvars
  <2> QED
    BY <1>1, <2>1 DEF Born
<1>6. CASE UserWrite
  BY <1>6 DEF UserWrite, Born
<1>7. CASE SyscallReturn
  <2>1. PICK m \in {"edge", "user"} : mode' = [mode EXCEPT ![current] = m]
    BY <1>7 DEF SyscallReturn
  <2>2. /\ ctx' = [ctx EXCEPT ![current].rsp = saved_user_rsp] /\ current # 0
        /\ UNCHANGED <<heap, current, state, kernel_stack_top, kernel_rsp, saved_user_rsp, own_rsp, starved>>
    BY <1>7 DEF SyscallReturn, taskvars
  <2> QED
    BY <2>1, <2>2 DEF Born
<1>8. CASE Fork
  <2>1. mode[current] = "user" /\ saved_user_rsp' = ctx[current].rsp /\ Fresh # {}
    BY <1>8 DEF Fork, Syscall
  <2>2. CASE heap = 0 /\ CallFails
    BY <1>1, <2>1, <2>2 DEF CallFails, taskvars, Born
  <2>3. CASE /\ UNCHANGED <<heap, current, state, taskvars, kernel_rsp, own_rsp, mode, ctx, starved>>
    BY <1>1, <2>1, <2>3 DEF taskvars, Born
  <2>4. CASE /\ heap > 0
             /\ heap' = IF heap < 2 THEN 0 ELSE heap - 2
             /\ starved' = (starved \/ heap = 1)
             /\ state' = [state EXCEPT ![NextId] = "ready"]
             /\ kernel_stack_top' = [kernel_stack_top EXCEPT ![NextId] = IF heap = 1 THEN LowStack ELSE NextId]
             /\ own_rsp' = [own_rsp EXCEPT ![NextId] = ctx[current].rsp]
             /\ ctx' = [ctx EXCEPT ![NextId] = ctx[current]]
             /\ UNCHANGED <<current, kernel_rsp, mode>>
    <3> DEFINE low == heap = 1
    <3>1. low \in BOOLEAN /\ (low => starved') /\ starved' \in BOOLEAN /\ (starved => starved')
      BY <2>4, Zenon
    <3>2. heap' \in Nat
      BY <2>4
    <3>3. kernel_stack_top' = [kernel_stack_top EXCEPT ![NextId] = IF low THEN LowStack ELSE NextId]
      BY <2>4
    <3> HIDE DEF low
    <3> QED
      BY <1>1, <2>1, <2>4, <3>1, <3>3, <3>2, NewTaskStacks
  <2> QED
    BY <1>8, <2>2, <2>3, <2>4, Zenon DEF Fork
<1>9. CASE Spawn
  <2>1. mode[current] = "user" /\ saved_user_rsp' = ctx[current].rsp /\ Fresh # {}
    BY <1>9 DEF Spawn, Syscall
  <2>2. CASE CallFails
    BY <1>1, <2>1, <2>2 DEF CallFails, taskvars, Born
  <2>3. CASE UNCHANGED <<heap, current, state, taskvars, kernel_rsp, own_rsp, mode, ctx, starved>>
    BY <1>1, <2>1, <2>3 DEF taskvars, Born
  <2>4. CASE /\ Install("prog", heap >= 2)
             /\ state' = [state EXCEPT ![NextId] = "ready"]
             /\ kernel_stack_top' = [kernel_stack_top EXCEPT ![NextId] = IF heap < 2 THEN LowStack ELSE NextId]
             /\ ctx' = [ctx EXCEPT ![NextId] = [rip |-> "prog", rsp |-> "cstack"]]
             /\ heap' = IF heap < 2 THEN 0 ELSE heap - 2
             /\ UNCHANGED <<current, kernel_rsp, own_rsp, mode>>
    <3> DEFINE low == heap < 2
               w == [rip |-> "prog", rsp |-> "cstack"]
    <3>1. /\ low \in BOOLEAN /\ (low => starved') /\ starved' \in BOOLEAN /\ (starved => starved')
      <4>1. low <=> ~(heap >= 2)
        OBVIOUS
      <4> HIDE DEF low
      <4> QED
        BY <2>4, <4>1, Zenon DEF Install
    <3>2. /\ kernel_stack_top' = [kernel_stack_top EXCEPT ![NextId] = IF low THEN LowStack ELSE NextId]
          /\ heap' \in Nat
          /\ w \in [rip : Regions \cup {"none"}, rsp : Regions \cup {"none"}]
          /\ ctx' = [ctx EXCEPT ![NextId] = w]
      BY <2>4 DEF Regions, Programs, Stacks
    <3> HIDE DEF low, w
    <3> QED
      BY <1>1, <2>1, <2>4, <3>1, <3>2, NewTaskStacks
  <2> QED
    BY <1>9, <2>2, <2>3, <2>4, Zenon DEF Spawn
<1>10. ASSUME NEW p \in Programs, Exec(p) PROVE StackInv'
  <2>1. mode[current] = "user"
    BY <1>10 DEF Exec
  <2>2. CASE /\ saved_user_rsp' = ctx[current].rsp
             /\ UNCHANGED <<heap, current, state, taskvars, kernel_rsp, own_rsp, mode, ctx, starved>>
    BY <1>1, <2>1, <2>2 DEF taskvars, Born
  <2>3. CASE /\ Install(p, TRUE)
             /\ ctx' = [ctx EXCEPT ![current] = [rip |-> p, rsp |-> "cstack"]]
             /\ saved_user_rsp' = "cstack"
             /\ UNCHANGED <<heap, current, state, kernel_stack_top, kernel_rsp, own_rsp, mode>>
    <3>1. starved' \in BOOLEAN /\ (starved => starved')
      BY <2>3 DEF Install
    <3>2. [rip |-> p, rsp |-> "cstack"] \in [rip : Regions \cup {"none"}, rsp : Regions \cup {"none"}]
          /\ "cstack" \in Regions
      BY DEF Regions, Programs, Stacks
    <3> QED
      BY <2>1, <2>3, <3>1, <3>2 DEF Born
  <2> QED
    BY <1>10, <2>2, <2>3, Zenon DEF Exec
<1> QED
  BY <1>2, <1>3, <1>4, <1>5, <1>6, <1>7, <1>8, <1>9, <1>10, <1>11, <1>12 DEF Next

LEMMA StackStart ==
    ASSUME Init
    PROVE  StackInv
<1>1. 0 \in Tasks /\ 1 \in Tasks /\ Tasks \subseteq Int
  BY SpaceAssumption DEF Tasks
<1>2. state = [t \in Tasks |-> IF t = 0 THEN "running" ELSE IF t = 1 THEN "ready" ELSE "none"]
  BY DEF Init
<1>3. StackType
  BY <1>1, <1>2, SpaceAssumption DEF Init, StackType, NoStack, Nowhere, Regions, Programs, Stacks
<1> QED
  BY <1>1, <1>2, <1>3 DEF Init, StackInv, InCall, Born, NoStack, Nowhere

(***************************************************************************)
(* schedule, syscall_entry, task_fork and task_create never mix two stacks *)
(* up, whichever call sleeps and whichever task is forked in between: the  *)
(* property OwnStacks, and with it that the one saved_user_rsp is enough.  *)
(***************************************************************************)
THEOREM StacksOwned == Spec => []OwnStacks
<1>1. Init => StackInv
  BY StackStart
<1>2. StackInv /\ [Next]_vars => StackInv'
  <2> SUFFICES ASSUME StackInv, [Next]_vars PROVE StackInv'
    OBVIOUS
  <2>1. CASE Next
    BY <2>1, StackStep
  <2>2. CASE UNCHANGED vars
    BY <2>2 DEF StackInv, StackType, InCall, Born, vars, taskvars
  <2> QED
    BY <2>1, <2>2
<1>3. StackInv => OwnStacks
  BY DEF StackInv, InCall, OwnStacks, Born
<1> QED
  BY <1>1, <1>2, <1>3, PTL DEF Spec

-----------------------------------------------------------------------------
(***************************************************************************)
(* Frames.  The spaces L with directories D, frames below n in use and the *)
(* page tables in T: an entry is empty, a page of the identity map, or a   *)
(* frame that no other entry has and that is no page table.                *)
(***************************************************************************)
Region == [kind : {"huge", "none", "table"}, pt : [Slots -> Int]]

DirOK(d) ==
    /\ d \in [Regions -> Region]
    /\ \A r \in Regions :
          /\ r \in Stacks => d[r].kind # "huge"
          /\ d[r].kind # "table" => \A i \in Slots : d[r].pt[i] = NoFrame

EntryOK(v, r, i, n, T) ==
    \/ v = NoFrame
    \/ r \in Programs /\ v = Identity(r, i)
    \/ v \in (FirstFree..(n - 1)) \ T

Kept(D, L, n, T) ==
    /\ T \subseteq FirstFree..(n - 1)
    /\ \A s \in L : DirOK(D[s])
    /\ \A s \in L, r \in Regions, i \in Slots : EntryOK(D[s][r].pt[i], r, i, n, T)
    /\ \A s, u \in L, r, q \in Regions, i, j \in Slots :
          D[s][r].pt[i] = D[u][q].pt[j] /\ D[s][r].pt[i] >= FirstFree
              => s = u /\ r = q /\ i = j

(***************************************************************************)
(* The spaces in use: the shell's and those task_fork has cloned.          *)
(***************************************************************************)
Live == {s \in Tasks \ {0} : s = 1 \/ pml4[s] = s}

FramesInv ==
    /\ last \in Nat /\ free \in FirstFree..last
    /\ cr3 \in Tasks /\ LowHalf(cr3) \in Live
    /\ mem \in [0..(last - 1) -> Int]
    /\ dir \in [Spaces -> [Regions -> Region]]
    /\ Kept(dir, Live, free, tables)

(***************************************************************************)
(* Tasks and their spaces.  A task owns the space of its number or, as the *)
(* one spawned child, lives in the space of a parent that keeps to its own *)
(* two regions from then on.                                               *)
(***************************************************************************)
Owner(t) == pml4[t] = t /\ home[t] = t

Spawned(t) ==
    /\ pml4[t] = 0 /\ spawn_used /\ t \notin forked
    /\ ctx[t] = [rip |-> "prog", rsp |-> "cstack"]
    /\ home[t] \in Live /\ Born(home[t])
    /\ home[t] \notin forked
    /\ ctx[home[t]] = [rip |-> "init", rsp |-> "ustack"]

HomeInv ==
    /\ pml4 \in [Tasks -> Tasks] /\ home \in [Tasks -> Tasks] /\ forked \subseteq Tasks
    /\ spawn_used \in BOOLEAN
    /\ mode[0] = "wait"
    /\ \A t \in Tasks : ~Born(t) => (t # 0 => pml4[t] = 0) /\ t \notin forked
    /\ pml4[0] = 0
    /\ \A t \in Tasks : Born(t) => /\ Owner(t) \/ Spawned(t)
                                   /\ ctx[t].rip \in Programs /\ ctx[t].rsp \in Stacks
    /\ \A t, u \in Tasks : Born(t) /\ Born(u) /\ pml4[t] = 0 /\ pml4[u] = 0 => t = u
    /\ current # 0 => LowHalf(cr3) = home[current]

(***************************************************************************)
(* What every task has in its two regions: all pages are there, in frames  *)
(* that were handed out, and hold v.                                       *)
(***************************************************************************)
HasPages(d, m, r, v) ==
    /\ d[r].kind = "table"
    /\ \A i \in PagesOf(r) : d[r].pt[i] >= FirstFree /\ m[d[r].pt[i]] = v

PagesInv ==
    /\ view \in [Tasks -> [Regions -> Int]]
    /\ \A t \in Tasks : Born(t) =>
          \A r \in {ctx[t].rip, ctx[t].rsp} : HasPages(dir[home[t]], mem, r, view[t][r])

SpaceInv ==
    /\ ~starved => FramesInv
    /\ Trusted => ~halted /\ HomeInv /\ PagesInv

-----------------------------------------------------------------------------
(***************************************************************************)
(* The heap takes the frames of the identity map that programs are loaded  *)
(* over, so no frame that is handed out has an address in a program.       *)
(***************************************************************************)
LEMMA Layout ==
    /\ FirstFree \in Nat /\ FirstFree > 0 /\ 0 \in Slots /\ Slots \subseteq Nat
    /\ NoFrame \in Int /\ NoFrame < FirstFree
    /\ \A r \in Programs, i \in Slots : Identity(r, i) \in Nat /\ Identity(r, i) < FirstFree
    /\ \A r \in Regions, i \in Slots : Identity(r, i) \in Nat
    /\ Pages \subseteq Slots /\ 0 \in Pages
    /\ \A r \in Regions : PagesOf(r) \subseteq Slots
<1> USE SpaceAssumption DEF FirstFree, Slots, Position, NoFrame
<1>1. FirstFree = 2 * TABLE_PAGES + HEAP_PAGES + 3
  OBVIOUS
<1>2. \A i \in Slots : Identity("init", i) = TABLE_PAGES + i /\ Identity("prog", i) = 2 * TABLE_PAGES + i
  BY DEF Identity
<1>3. \A i \in Slots : Identity("ustack", i) = 3 * TABLE_PAGES + i /\ Identity("cstack", i) = 4 * TABLE_PAGES + i
  BY DEF Identity
<1>4. Pages \subseteq Slots /\ 0 \in Pages /\ 0 \in Slots
  BY DEF Pages
<1>5. \A r \in Regions : PagesOf(r) \subseteq Slots
  BY <1>4 DEF PagesOf
<1> QED
  BY <1>1, <1>2, <1>3, <1>4, <1>5 DEF Programs, Regions, Stacks

(***************************************************************************)
(* Directories D2 that keep old entries, take pages of the identity map or *)
(* none, and otherwise hold fresh frames, each once and none of them a     *)
(* page table.                                                             *)
(***************************************************************************)
LEMMA KeptChange ==
    ASSUME NEW D, NEW L, NEW n \in Nat, NEW T, Kept(D, L, n, T), n >= FirstFree,
           NEW D2, NEW L2, NEW n2 \in Nat, NEW T2, n <= n2,
           T \subseteq T2, T2 \ T \subseteq n..(n2 - 1),
           \A s \in L2 : DirOK(D2[s]),
           \A s \in L2, r \in Regions, i \in Slots :
              \/ s \in L /\ D2[s][r].pt[i] = D[s][r].pt[i]
              \/ D2[s][r].pt[i] = NoFrame
              \/ r \in Programs /\ D2[s][r].pt[i] = Identity(r, i)
              \/ D2[s][r].pt[i] \in (n..(n2 - 1)) \ T2,
           \A s, u \in L2, r, q \in Regions, i, j \in Slots :
              D2[s][r].pt[i] = D2[u][q].pt[j] /\ D2[s][r].pt[i] >= n
                  => s = u /\ r = q /\ i = j
    PROVE  Kept(D2, L2, n2, T2)
<1>1. T2 \subseteq FirstFree..(n2 - 1)
  <2> SUFFICES ASSUME NEW x \in T2 PROVE x \in FirstFree..(n2 - 1)
    OBVIOUS
  <2>1. CASE x \in T
    <3>1. x \in FirstFree..(n - 1)
      BY <2>1 DEF Kept
    <3> QED
      BY <3>1, Layout
  <2>2. CASE x \in n..(n2 - 1)
    BY <2>2, Layout
  <2> QED
    BY <2>1, <2>2
<1>2. ASSUME NEW s \in L2, NEW r \in Regions, NEW i \in Slots
      PROVE  EntryOK(D2[s][r].pt[i], r, i, n2, T2)
  <2> DEFINE v == D2[s][r].pt[i]
  <2>1. CASE s \in L /\ v = D[s][r].pt[i]
    <3>1. EntryOK(v, r, i, n, T)
      BY <2>1 DEF Kept
    <3> HIDE DEF v
    <3>2. v \in (FirstFree..(n - 1)) \ T => v \in (FirstFree..(n2 - 1)) \ T2
      BY Layout
    <3>3. EntryOK(v, r, i, n2, T2)
      BY <3>1, <3>2 DEF EntryOK
    <3> QED
      BY <3>3 DEF v
  <2>2. CASE v \in (n..(n2 - 1)) \ T2
    <3>1. v \in (FirstFree..(n2 - 1)) \ T2
      BY <2>2, Layout
    <3> QED
      BY <3>1 DEF EntryOK
  <2>3. CASE v = NoFrame \/ (r \in Programs /\ v = Identity(r, i))
    BY <2>3 DEF EntryOK
  <2> QED
    BY <2>1, <2>2, <2>3
<1>3. ASSUME NEW s \in L2, NEW u \in L2, NEW r \in Regions, NEW q \in Regions,
             NEW i \in Slots, NEW j \in Slots,
             D2[s][r].pt[i] = D2[u][q].pt[j], D2[s][r].pt[i] >= FirstFree
      PROVE  s = u /\ r = q /\ i = j
  <2> DEFINE v == D2[s][r].pt[i]
             w == D2[u][q].pt[j]
  <2>1. \/ s \in L /\ v = D[s][r].pt[i]
        \/ v = NoFrame
        \/ r \in Programs /\ v = Identity(r, i)
        \/ v \in (n..(n2 - 1)) \ T2
    OBVIOUS
  <2>2. \/ u \in L /\ w = D[u][q].pt[j]
        \/ w = NoFrame
        \/ q \in Programs /\ w = Identity(q, j)
        \/ w \in (n..(n2 - 1)) \ T2
    OBVIOUS
  <2>3. v = w /\ v >= FirstFree /\ (v >= n => s = u /\ r = q /\ i = j)
    BY <1>3
  <2> HIDE DEF v, w
  <2>4. v # NoFrame /\ w # NoFrame /\ ~(r \in Programs /\ v = Identity(r, i)) /\ ~(q \in Programs /\ w = Identity(q, j))
    BY <2>3, Layout
  <2>5. CASE v \in (n..(n2 - 1)) \ T2 \/ w \in (n..(n2 - 1)) \ T2
    BY <2>3, <2>5
  <2>6. CASE s \in L /\ v = D[s][r].pt[i] /\ u \in L /\ w = D[u][q].pt[j]
    <3>1. D[s][r].pt[i] = D[u][q].pt[j] /\ D[s][r].pt[i] >= FirstFree
      BY <2>3, <2>6
    <3>2. \A a, b \in L, e, g \in Regions, k, l \in Slots :
            D[a][e].pt[k] = D[b][g].pt[l] /\ D[a][e].pt[k] >= FirstFree => a = b /\ e = g /\ k = l
      BY Zenon DEF Kept
    <3> QED
      BY <2>6, <3>1, <3>2
  <2>7. (s \in L /\ v = D[s][r].pt[i]) \/ v \in (n..(n2 - 1)) \ T2
    BY <2>1, <2>4
  <2>8. (u \in L /\ w = D[u][q].pt[j]) \/ w \in (n..(n2 - 1)) \ T2
    BY <2>2, <2>4
  <2> QED
    BY <2>5, <2>6, <2>7, <2>8
<1> QED
  BY <1>1, <1>2, <1>3 DEF Kept

(***************************************************************************)
(* vmm_map when it has a table: the region is a table with the frames of F *)
(* in their places.                                                        *)
(***************************************************************************)
Mapped(d, r, F) ==
    [d EXCEPT ![r] = Table([i \in Slots |-> IF i \in DOMAIN F THEN F[i] ELSE SplitTable(d, r)[i]])]

MapsTo(e, d, r, S, F) ==
    /\ DirOK(e)
    /\ e[r].kind = "table" /\ \A i \in S : e[r].pt[i] = F[i]
    /\ \A q \in Regions : q # r => e[q] = d[q]
    /\ \A i \in Slots \ S : e[r].pt[i] = d[r].pt[i] \/ (r \in Programs /\ e[r].pt[i] = Identity(r, i))

LEMMA MappedEntries ==
    ASSUME NEW d, DirOK(d), NEW r \in Regions, NEW S \in SUBSET Slots, NEW F \in [S -> Int]
    PROVE  MapsTo(Mapped(d, r, F), d, r, S, F)
<1> DEFINE e == Mapped(d, r, F)
           b == SplitTable(d, r)
           p == [i \in Slots |-> IF i \in DOMAIN F THEN F[i] ELSE b[i]]
<1>1. d \in [Regions -> Region] /\ d[r] \in Region
  BY DEF DirOK
<1>2. [i \in Slots |-> Identity(r, i)] \in [Slots -> Int]
  BY Layout
<1>3. b \in [Slots -> Int]
  BY <1>1, <1>2 DEF Region, SplitTable
<1>4. d[r].kind = "huge" => r \in Programs
  BY DEF DirOK, Regions
<1>5. \A i \in Slots : b[i] = d[r].pt[i] \/ (r \in Programs /\ b[i] = Identity(r, i))
  BY <1>4 DEF SplitTable
<1> HIDE DEF b
<1>6. p \in [Slots -> Int] /\ (\A i \in S : p[i] = F[i]) /\ \A i \in Slots \ S : p[i] = b[i]
  BY <1>3
<1>7. e = [d EXCEPT ![r] = Table(p)]
  BY DEF Mapped, b
<1> HIDE DEF e, p
<1>8. e[r] = [kind |-> "table", pt |-> p] /\ \A q \in Regions : q # r => e[q] = d[q]
  BY <1>1, <1>7 DEF Table
<1>9. e \in [Regions -> Region]
  BY <1>1, <1>6, <1>7 DEF Table, Region
<1>10. DirOK(e)
  BY <1>8, <1>9 DEF DirOK
<1>11. e[r].kind = "table" /\ e[r].pt = p
  BY <1>8
<1>12. MapsTo(e, d, r, S, F)
  BY <1>5, <1>6, <1>8, <1>10, <1>11 DEF MapsTo
<1> QED
  BY <1>12 DEF e

-----------------------------------------------------------------------------
(***************************************************************************)
(* The loader, step by step on the memory it works on.                     *)
(***************************************************************************)
LEMMA MemoryFields ==
    ASSUME NEW d, NEW m, NEW T, NEW n, NEW b
    PROVE  /\ Memory(d, m, T, n, b).d = d /\ Memory(d, m, T, n, b).m = m
           /\ Memory(d, m, T, n, b).tables = T /\ Memory(d, m, T, n, b).next = n
           /\ Memory(d, m, T, n, b).sound = b
  BY DEF Memory

LEMMA MemorySound ==
    ASSUME NEW d, NEW m, NEW T, NEW n, NEW b, Memory(d, m, T, n, b).sound
    PROVE  b
<1>1. Memory(d, m, T, n, b).sound = b
  BY Zenon DEF Memory
<1> QED
  BY <1>1, Zenon

(***************************************************************************)
(* MapInto, with a table and without one.                                  *)
(***************************************************************************)
Lacks(x, r, end) == NeedsTable(x.d, r) /\ x.next >= end

MapsInto(y, x, r, F) ==
    /\ y.d = Mapped(x.d, r, F) /\ y.m = x.m
    /\ IF NeedsTable(x.d, r) THEN y.tables = x.tables \cup {x.next} /\ y.next = x.next + 1
       ELSE y.tables = x.tables /\ y.next = x.next

LEMMA MapIntoFields ==
    ASSUME NEW x, x.next \in Int, NEW r, NEW F, NEW end \in Int, NEW y, y = MapInto(x, r, F, end)
    PROVE  /\ Lacks(x, r, end) => y.d = x.d /\ y.m = x.m /\ y.tables = x.tables /\ y.next = x.next
           /\ ~Lacks(x, r, end) => MapsInto(y, x, r, F)
           /\ y.sound => x.sound /\ ~Lacks(x, r, end)
<1> DEFINE c == MapCost(x.d, r, x.next, end)
           ok == x.sound /\ ~(NeedsTable(x.d, r) /\ c = 0)
           a == Map(x.d, r, F, x.next, end)
           T == IF c = 1 THEN x.tables \cup {x.next} ELSE x.tables
           n == x.next + c
           m == x.m
<1>1. y = Memory(a, m, T, n, ok)
  BY DEF MapInto
<1>2. /\ c \in {0, 1} /\ (Lacks(x, r, end) => c = 0)
      /\ (NeedsTable(x.d, r) /\ ~Lacks(x, r, end) => c = 1) /\ (~NeedsTable(x.d, r) => c = 0)
  BY DEF MapCost, Lacks
<1>3. (Lacks(x, r, end) => a = x.d) /\ (~Lacks(x, r, end) => a = Mapped(x.d, r, F))
  BY DEF Map, Mapped, Lacks
<1> HIDE DEF c, ok, a, T, n, m
<1>4. y.d = a /\ y.m = m /\ y.tables = T /\ y.next = n
  BY <1>1, MemoryFields
<1>5. y.sound => x.sound /\ ~(NeedsTable(x.d, r) /\ c = 0)
  BY <1>1, MemorySound, Zenon DEF ok
<1>6. y.sound => x.sound /\ ~Lacks(x, r, end)
  BY <1>2, <1>5 DEF Lacks
<1>7. Lacks(x, r, end) => T = x.tables /\ n = x.next
  BY <1>2 DEF T, n
<1>8. ~Lacks(x, r, end) => IF NeedsTable(x.d, r) THEN T = x.tables \cup {x.next} /\ n = x.next + 1
                           ELSE T = x.tables /\ n = x.next
  BY <1>2 DEF T, n
<1>9. m = x.m
  BY DEF m
<1> QED
  BY <1>3, <1>4, <1>6, <1>7, <1>8, <1>9 DEF MapsInto

(***************************************************************************)
(* Memory y has come from x by handing out frames from x.next on: tables,  *)
(* and new pages of the regions R, each in a frame of its own.  Pages that *)
(* were there before hold what they held.                                  *)
(***************************************************************************)
Ready(x, end) ==
    /\ end \in Nat /\ x.next \in Nat /\ x.next >= FirstFree /\ x.next <= end
    /\ DirOK(x.d) /\ x.m \in [0..(end - 1) -> Int]
    /\ \A f \in x.tables : f \in Int /\ f < x.next
    /\ \A r \in Regions, i \in Slots : x.d[r].pt[i] \in Int /\ x.d[r].pt[i] < x.next

NewOrOld(y, x, r, i) ==
    \/ y.d[r].pt[i] = x.d[r].pt[i]
    \/ r \in Programs /\ y.d[r].pt[i] = Identity(r, i)
    \/ y.d[r].pt[i] \in (x.next..(y.next - 1)) \ y.tables

Once(y, x) ==
    \A r, q \in Regions, i, j \in Slots :
        y.d[r].pt[i] = y.d[q].pt[j] /\ y.d[r].pt[i] >= x.next => r = q /\ i = j

Extends(y, x, end) ==
    /\ y.next \in Nat /\ x.next <= y.next /\ y.next <= end
    /\ x.tables \subseteq y.tables /\ y.tables \ x.tables \subseteq x.next..(y.next - 1)
    /\ y.m \in [0..(end - 1) -> Int] /\ \A f \in 0..(x.next - 1) : y.m[f] = x.m[f]

Grown(y, x, R, end) ==
    /\ Extends(y, x, end)
    /\ DirOK(y.d) /\ \A r \in Regions \ R : y.d[r] = x.d[r]
    /\ \A r \in Regions, i \in Slots : NewOrOld(y, x, r, i)
    /\ Once(y, x)

LEMMA GrownReady ==
    ASSUME NEW end, NEW x, Ready(x, end), NEW R, NEW y, Grown(y, x, R, end)
    PROVE  Ready(y, end)
<1>1. /\ end \in Nat /\ x.next \in Nat /\ x.next >= FirstFree /\ FirstFree \in Nat
      /\ y.next \in Nat /\ x.next <= y.next /\ y.next <= end
  BY Layout DEF Ready, Grown, Extends
<1>2. \A f \in y.tables : f \in Int /\ f < y.next
  <2> SUFFICES ASSUME NEW f \in y.tables PROVE f \in Int /\ f < y.next
    OBVIOUS
  <2>1. (f \in Int /\ f < x.next) \/ f \in x.next..(y.next - 1)
    BY DEF Ready, Grown, Extends
  <2> QED
    BY <1>1, <2>1
<1>3. ASSUME NEW r \in Regions, NEW i \in Slots PROVE y.d[r].pt[i] \in Int /\ y.d[r].pt[i] < y.next
  <2>1. PICK v : v = y.d[r].pt[i]
    OBVIOUS
  <2>2. PICK w : w = x.d[r].pt[i] /\ w \in Int /\ w < x.next
    BY DEF Ready
  <2>3. v = w \/ (r \in Programs /\ v = Identity(r, i)) \/ v \in x.next..(y.next - 1)
    BY <2>1, <2>2 DEF Grown, NewOrOld
  <2>4. v \in Int /\ v < y.next
    BY <1>1, <2>2, <2>3, Layout
  <2> QED
    BY <2>1, <2>4
<1>4. DirOK(y.d) /\ y.m \in [0..(end - 1) -> Int]
  BY DEF Grown, Extends
<1>5. y.next >= FirstFree
  BY <1>1
<1> QED
  BY <1>1, <1>2, <1>3, <1>4, <1>5 DEF Ready

LEMMA GrownTwice ==
    ASSUME NEW end, NEW x, Ready(x, end), NEW R, NEW y, Grown(y, x, R, end),
           NEW Q, NEW z, Grown(z, y, Q, end)
    PROVE  Grown(z, x, R \cup Q, end)
<1>1. /\ x.next \in Nat /\ x.next >= FirstFree /\ FirstFree \in Nat /\ end \in Nat
      /\ y.next \in Nat /\ x.next <= y.next /\ z.next \in Nat /\ y.next <= z.next /\ z.next <= end
  BY Layout DEF Ready, Grown, Extends
<1>2. /\ x.tables \subseteq y.tables /\ y.tables \ x.tables \subseteq x.next..(y.next - 1)
      /\ y.tables \subseteq z.tables /\ z.tables \ y.tables \subseteq y.next..(z.next - 1)
  BY DEF Grown, Extends
<1>3. Extends(z, x, end)
  <2>1. x.tables \subseteq z.tables /\ z.tables \ x.tables \subseteq x.next..(z.next - 1)
    BY <1>1, <1>2
  <2>2. z.m \in [0..(end - 1) -> Int]
    BY DEF Grown, Extends
  <2>3. ASSUME NEW f \in 0..(x.next - 1) PROVE z.m[f] = x.m[f]
    <3>1. f \in 0..(y.next - 1)
      BY <1>1
    <3> QED
      BY <3>1 DEF Grown, Extends
  <2> QED
    BY <1>1, <2>1, <2>2, <2>3 DEF Extends
<1>4. DirOK(z.d) /\ \A r \in Regions \ (R \cup Q) : z.d[r] = x.d[r]
  BY DEF Grown
<1>5. ASSUME NEW r \in Regions, NEW i \in Slots
      PROVE  /\ NewOrOld(z, x, r, i)
             /\ z.d[r].pt[i] >= x.next /\ z.d[r].pt[i] < y.next => z.d[r].pt[i] = y.d[r].pt[i]
             /\ z.d[r].pt[i] \in Int
  <2>1. PICK u : u = x.d[r].pt[i] /\ u \in Int /\ u < x.next
    BY DEF Ready
  <2>2. PICK v : v = y.d[r].pt[i]
    OBVIOUS
  <2>3. PICK w : w = z.d[r].pt[i]
    OBVIOUS
  <2>4. v = u \/ (r \in Programs /\ v = Identity(r, i)) \/ v \in (x.next..(y.next - 1)) \ y.tables
    BY <2>1, <2>2 DEF Grown, NewOrOld
  <2>5. w = v \/ (r \in Programs /\ w = Identity(r, i)) \/ w \in (y.next..(z.next - 1)) \ z.tables
    BY <2>2, <2>3 DEF Grown, NewOrOld
  <2>6. r \in Programs => Identity(r, i) \in Nat /\ Identity(r, i) < FirstFree
    BY Layout
  <2>7. v \in (x.next..(y.next - 1)) \ y.tables => v \in (x.next..(z.next - 1)) \ z.tables
    <3> SUFFICES ASSUME v \in (x.next..(y.next - 1)) \ y.tables PROVE v \in (x.next..(z.next - 1)) \ z.tables
      OBVIOUS
    <3>1. v \notin z.tables
      BY <1>1, <1>2
    <3> QED
      BY <1>1, <3>1
  <2>8. w \in (y.next..(z.next - 1)) \ z.tables => w \in (x.next..(z.next - 1)) \ z.tables
    BY <1>1
  <2>9. w = u \/ (r \in Programs /\ w = Identity(r, i)) \/ w \in (x.next..(z.next - 1)) \ z.tables
    BY <2>4, <2>5, <2>7, <2>8
  <2>10. (w >= x.next /\ w < y.next => w = v) /\ w \in Int
    BY <1>1, <2>1, <2>4, <2>5, <2>6
  <2> QED
    BY <2>1, <2>2, <2>3, <2>9, <2>10 DEF NewOrOld
<1>6. Once(z, x)
  <2> SUFFICES ASSUME NEW r \in Regions, NEW q \in Regions, NEW i \in Slots, NEW j \in Slots,
                      z.d[r].pt[i] = z.d[q].pt[j], z.d[r].pt[i] >= x.next
               PROVE  r = q /\ i = j
    BY DEF Once
  <2>1. Once(z, y) /\ Once(y, x)
    BY DEF Grown
  <2>2. CASE z.d[r].pt[i] >= y.next
    BY <2>1, <2>2, Zenon DEF Once
  <2>3. CASE ~(z.d[r].pt[i] >= y.next)
    <3>1. PICK w \in Int : w = z.d[r].pt[i]
      BY <1>5
    <3>2. w >= x.next /\ w < y.next
      BY <1>1, <2>3, <3>1
    <3>3. w = y.d[r].pt[i]
      BY <1>5, <3>1, <3>2
    <3>4. w = z.d[q].pt[j]
      BY <3>1
    <3>5. w = y.d[q].pt[j]
      BY <1>5, <3>2, <3>4
    <3>6. y.d[r].pt[i] = y.d[q].pt[j] /\ y.d[r].pt[i] >= x.next
      BY <3>2, <3>3, <3>5
    <3> QED
      BY <2>1, <3>6 DEF Once
  <2> QED
    BY <2>2, <2>3
<1> QED
  BY <1>3, <1>4, <1>5, <1>6 DEF Grown

(***************************************************************************)
(* Pages F mapped into one region of x, in frames from x.next on; the      *)
(* table, if one was missing, is the second frame.                         *)
(***************************************************************************)
Frames(F, S, x, n, T) ==
    /\ F \in [S -> Int]
    /\ \A i \in S : F[i] >= x.next /\ F[i] < n /\ F[i] \notin T \ x.tables
    /\ \A i, j \in S : F[i] = F[j] => i = j

MapMakes(y, x, r, S, F, end) ==
    /\ r \in Regions /\ S \in SUBSET Slots
    /\ y.d = Mapped(x.d, r, F)
    /\ Extends(y, x, end)
    /\ Frames(F, S, x, y.next, y.tables)

MapResult(y, x, r, S, F, end) ==
    /\ Grown(y, x, {r}, end)
    /\ y.d[r].kind = "table" /\ \A i \in S : y.d[r].pt[i] = F[i]

LEMMA MapGrown ==
    ASSUME NEW end, NEW x, Ready(x, end), NEW r, NEW S, NEW F,
           NEW y, MapMakes(y, x, r, S, F, end)
    PROVE  MapResult(y, x, r, S, F, end)
<1>0. r \in Regions /\ S \in SUBSET Slots
  BY DEF MapMakes
<1>1. PICK e : e = y.d
  OBVIOUS
<1>2. PICK d : d = x.d
  OBVIOUS
<1>3. F \in [S -> Int] /\ DirOK(d)
  BY <1>2 DEF MapMakes, Frames, Ready
<1>4. MapsTo(e, d, r, S, F)
  <2>1. e = Mapped(d, r, F)
    BY <1>1, <1>2 DEF MapMakes
  <2> QED
    BY <1>0, <1>3, <2>1, MappedEntries
<1>5. /\ x.next \in Nat /\ y.next \in Nat /\ x.next >= FirstFree /\ FirstFree \in Nat
      /\ \A f \in x.tables : f < x.next
  BY Layout DEF Ready, MapMakes, Extends
<1>6. ASSUME NEW q \in Regions, NEW i \in Slots
      PROVE  \/ e[q].pt[i] = d[q].pt[i]
             \/ q \in Programs /\ e[q].pt[i] = Identity(q, i)
             \/ q = r /\ i \in S /\ e[q].pt[i] = F[i]
  BY <1>0, <1>4 DEF MapsTo
<1>7. ASSUME NEW i \in S PROVE F[i] \in (x.next..(y.next - 1)) \ y.tables
  <2>1. F[i] \in Int /\ F[i] >= x.next /\ F[i] < y.next /\ F[i] \notin y.tables \ x.tables
    BY DEF MapMakes, Frames
  <2> QED
    BY <1>5, <2>1
<1>8. ASSUME NEW q \in Regions, NEW i \in Slots PROVE NewOrOld(y, x, q, i)
  BY <1>0, <1>1, <1>2, <1>6, <1>7 DEF NewOrOld
<1>9. ASSUME NEW q \in Regions, NEW i \in Slots, e[q].pt[i] >= x.next
      PROVE  q = r /\ i \in S /\ e[q].pt[i] = F[i]
  <2>1. d[q].pt[i] \in Int /\ d[q].pt[i] < x.next
    BY <1>2 DEF Ready
  <2>2. q \in Programs => Identity(q, i) \in Nat /\ Identity(q, i) < FirstFree
    BY Layout
  <2>3. e[q].pt[i] # d[q].pt[i]
    BY <1>5, <1>9, <2>1
  <2>4. ~(q \in Programs /\ e[q].pt[i] = Identity(q, i))
    BY <1>5, <1>9, <2>2
  <2> QED
    BY <1>6, <2>3, <2>4
<1>10. Once(y, x)
  <2> SUFFICES ASSUME NEW a \in Regions, NEW b \in Regions, NEW i \in Slots, NEW j \in Slots,
                      e[a].pt[i] = e[b].pt[j], e[a].pt[i] >= x.next
               PROVE  a = b /\ i = j
    BY <1>1 DEF Once
  <2>1. a = r /\ i \in S /\ e[a].pt[i] = F[i] /\ b = r /\ j \in S /\ e[b].pt[j] = F[j]
    BY <1>9
  <2> QED
    BY <2>1 DEF MapMakes, Frames
<1>11. DirOK(e) /\ e[r].kind = "table" /\ (\A i \in S : e[r].pt[i] = F[i]) /\ \A q \in Regions \ {r} : e[q] = d[q]
  BY <1>4 DEF MapsTo
<1>12. Grown(y, x, {r}, end)
  BY <1>1, <1>2, <1>8, <1>10, <1>11 DEF Grown, MapMakes
<1> QED
  BY <1>1, <1>11, <1>12 DEF MapResult

(***************************************************************************)
(* A memory that only takes frames has grown as well.                      *)
(***************************************************************************)
LEMMA SameGrown ==
    ASSUME NEW end, NEW x, Ready(x, end), NEW y, y.d = x.d, Extends(y, x, end), NEW R
    PROVE  Grown(y, x, R, end)
<1>1. DirOK(y.d) /\ \A r \in Regions \ R : y.d[r] = x.d[r]
  BY DEF Ready
<1>2. \A r \in Regions, i \in Slots : NewOrOld(y, x, r, i)
  BY DEF NewOrOld
<1>3. Once(y, x)
  <2> SUFFICES ASSUME NEW r \in Regions, NEW i \in Slots PROVE ~(y.d[r].pt[i] >= x.next)
    BY DEF Once
  <2>1. PICK v \in Int : v = x.d[r].pt[i] /\ v < x.next /\ x.next \in Int
    BY DEF Ready
  <2>2. ~(v >= x.next)
    BY <2>1
  <2> QED
    BY <2>1, <2>2
<1> QED
  BY <1>1, <1>2, <1>3 DEF Grown

Fills(m2, m, G, v, end) ==
    /\ m2 \in [0..(end - 1) -> Int]
    /\ \A f \in 0..(end - 1) : m2[f] = IF f \in G THEN v ELSE m[f]

LEMMA FilledPages ==
    ASSUME NEW end, NEW m, m \in [0..(end - 1) -> Int], NEW G, NEW v, v \in Int
    PROVE  Fills(Filled(m, G, v), m, G, v, end)
<1>1. Filled(m, G, v) = [f \in 0..(end - 1) |-> IF f \in G THEN v ELSE m[f]]
  BY DEF Filled
<1> QED
  BY <1>1 DEF Fills

(***************************************************************************)
(* The frames of the loader's pages: one after the other but for the       *)
(* table.                                                                  *)
(***************************************************************************)
Extra(x, p) == IF NeedsTable(x.d, p) THEN 1 ELSE 0

LoadFrames(F, x, p, end) ==
    /\ F \in [Got(x, p, end) -> Int] /\ Got(x, p, end) \in SUBSET Slots
    /\ \A i \in Got(x, p, end) : F[i] >= x.next /\ F[i] < end /\ (NeedsTable(x.d, p) => F[i] # x.next + 1)
    /\ \A i, j \in Got(x, p, end) : F[i] = F[j] => i = j
    /\ Loads(x, p, end) => \A i \in Pages : F[i] < x.next + PROG_PAGES + Extra(x, p)
    /\ Loads(x, p, end) /\ ~(NeedsTable(x.d, p) /\ x.next + 1 >= end)
          => x.next + PROG_PAGES + Extra(x, p) <= end

LEMMA LoaderFrames ==
    ASSUME NEW end \in Nat, NEW x, x.next \in Nat, NEW p,
           NEW F, F = [i \in Got(x, p, end) |-> PageFrame(x, p, i)]
    PROVE  LoadFrames(F, x, p, end)
<1>1. PICK k \in {0, 1} : k = Extra(x, p) /\ (NeedsTable(x.d, p) <=> k = 1)
  BY DEF Extra
<1>2. PICK n \in Nat : n = x.next
  OBVIOUS
<1>3. \A i \in Pages : i \in Nat /\ i <= PROG_PAGES - 1 /\ PageFrame(x, p, i) = IF i = 0 THEN n ELSE n + i + k
  BY <1>1, <1>2, SpaceAssumption DEF Pages, PageFrame
<1>4. Got(x, p, end) \subseteq Pages /\ \A i \in Got(x, p, end) : PageFrame(x, p, i) < end
  BY DEF Got
<1>5. /\ Pages \subseteq Slots /\ 0 \in Pages /\ PROG_PAGES - 1 \in Pages /\ PROG_PAGES \in Nat /\ PROG_PAGES >= 1
  BY Layout, SpaceAssumption DEF Pages
<1>6. \A i \in Got(x, p, end) : F[i] = (IF i = 0 THEN n ELSE n + i + k) /\ F[i] < end /\ i \in Nat
  BY <1>3, <1>4
<1>7. F \in [Got(x, p, end) -> Int]
  BY <1>3, <1>4
<1>8. Loads(x, p, end) => \A i \in Pages : F[i] < n + PROG_PAGES + k
  <2> SUFFICES ASSUME Loads(x, p, end), NEW i \in Pages PROVE F[i] < n + PROG_PAGES + k
    OBVIOUS
  <2>1. i \in Got(x, p, end)
    BY DEF Loads
  <2> QED
    BY <1>3, <1>5, <1>6, <2>1
<1>9. Loads(x, p, end) /\ ~(k = 1 /\ n + 1 >= end) => n + PROG_PAGES + k <= end
  <2> SUFFICES ASSUME Loads(x, p, end), ~(k = 1 /\ n + 1 >= end) PROVE n + PROG_PAGES + k <= end
    OBVIOUS
  <2>1. Got(x, p, end) = Pages
    BY DEF Loads
  <2>2. F[0] = n /\ n < end
    BY <1>5, <1>6, <2>1
  <2>3. CASE PROG_PAGES = 1
    BY <2>2, <2>3
  <2>4. CASE PROG_PAGES # 1
    <3>1. PROG_PAGES - 1 # 0
      BY <1>5, <2>4
    <3>2. F[PROG_PAGES - 1] = n + (PROG_PAGES - 1) + k /\ F[PROG_PAGES - 1] < end
      BY <1>5, <1>6, <2>1, <3>1
    <3> QED
      BY <1>5, <3>2
  <2> QED
    BY <2>3, <2>4
<1>10. \A i \in Got(x, p, end) : F[i] >= n /\ (k = 1 => F[i] # n + 1)
  BY <1>6
<1>11. \A i, j \in Got(x, p, end) : F[i] = F[j] => i = j
  BY <1>6
<1>12. Got(x, p, end) \in SUBSET Slots
  BY <1>4, <1>5
<1> QED
  BY <1>1, <1>2, <1>6, <1>7, <1>8, <1>9, <1>10, <1>11, <1>12 DEF LoadFrames

Holds(z, x, r, v) ==
    /\ z.d[r].kind = "table"
    /\ \A i \in PagesOf(r) : z.d[r].pt[i] >= x.next /\ z.m[z.d[r].pt[i]] = v

(***************************************************************************)
(* What the loader has mapped and taken when it stops, early or not.       *)
(***************************************************************************)
Mapping(y, x, p, F, m, end) ==
    \/ NeedsTable(x.d, p) /\ x.next + 1 >= end /\ y.d = x.d /\ y.tables = x.tables /\ y.m = m
    \/ /\ ~(NeedsTable(x.d, p) /\ x.next + 1 >= end)
       /\ y.d = Mapped(x.d, p, F) /\ y.m = m /\ y.next = x.next + 1 + Extra(x, p)
       /\ y.tables = IF NeedsTable(x.d, p) THEN x.tables \cup {x.next + 1} ELSE x.tables

Finished(z, y, x, p, end) ==
    \/ /\ ~Loads(x, p, end) /\ z.d = y.d /\ z.m = y.m /\ z.tables = y.tables /\ z.next = end
    \/ /\ Loads(x, p, end) /\ z.d = y.d /\ z.tables = y.tables /\ z.next = y.next + PROG_PAGES - 1
       /\ z.m = Filled(y.m, {GetPhys(y.d, p, i) : i \in Pages}, Elf)

LoadsBy(z, x, p, F, end) ==
    \E y : /\ Mapping(y, x, p, F, Filled(x.m, {F[i] : i \in Got(x, p, end)}, Zero), end)
           /\ Finished(z, y, x, p, end)
           /\ Loads(x, p, end) /\ z.sound => ~(NeedsTable(x.d, p) /\ x.next + 1 >= end)

LEMMA LoaderSteps ==
    ASSUME NEW end, end \in Nat, NEW x, x.next \in Nat, NEW p, NEW z, z = LoadElf(x, p, end),
           NEW F, F = [i \in Got(x, p, end) |-> PageFrame(x, p, i)]
    PROVE  LoadsBy(z, x, p, F, end)
<1> DEFINE G == {F[i] : i \in DOMAIN F}
           c == Cleared(x, G, x.next + 1, TRUE)
           y == MapInto(c, p, F, end)
<1>1. DOMAIN F = Got(x, p, end)
  OBVIOUS
<1>2. z = IF Loads(x, p, end)
          THEN Memory(y.d, Filled(y.m, {GetPhys(y.d, p, i) : i \in Pages}, Elf), y.tables,
                      y.next + PROG_PAGES - 1, y.sound)
          ELSE Memory(y.d, y.m, y.tables, end, x.sound)
  BY DEF LoadElf
<1>3. /\ c.d = x.d /\ c.m = Filled(x.m, G, Zero) /\ c.tables = x.tables /\ c.next = x.next + 1
  BY MemoryFields DEF Cleared
<1> HIDE DEF c, G
<1>5. PICK w : w = y
  OBVIOUS
<1>6. /\ Lacks(c, p, end) => w.d = c.d /\ w.m = c.m /\ w.tables = c.tables /\ w.next = c.next
      /\ ~Lacks(c, p, end) => MapsInto(w, c, p, F)
      /\ w.sound => c.sound /\ ~Lacks(c, p, end)
  <2>1. w = MapInto(c, p, F, end) /\ c.next \in Int /\ end \in Int
    BY <1>3, <1>5
  <2> HIDE DEF y
  <2> QED
    BY <2>1, MapIntoFields
<1>7. Lacks(c, p, end) <=> NeedsTable(x.d, p) /\ x.next + 1 >= end
  BY <1>3 DEF Lacks
<1>8. NeedsTable(c.d, p) <=> NeedsTable(x.d, p)
  BY <1>3
<1>9. Mapping(w, x, p, F, Filled(x.m, {F[i] : i \in Got(x, p, end)}, Zero), end)
  <2>1. Filled(x.m, {F[i] : i \in Got(x, p, end)}, Zero) = c.m
    BY <1>1, <1>3 DEF G
  <2>2. CASE Lacks(c, p, end)
    BY <1>3, <1>6, <1>7, <2>1, <2>2 DEF Mapping
  <2>3. CASE ~Lacks(c, p, end)
    <3>1. MapsInto(w, c, p, F)
      BY <1>6, <2>3
    <3>2. w.d = Mapped(x.d, p, F) /\ w.m = c.m
      BY <1>3, <3>1 DEF MapsInto
    <3>3. w.next = x.next + 1 + Extra(x, p)
      BY <1>3, <1>8, <3>1 DEF MapsInto, Extra
    <3>4. w.tables = IF NeedsTable(x.d, p) THEN x.tables \cup {x.next + 1} ELSE x.tables
      BY <1>3, <1>8, <3>1 DEF MapsInto
    <3> QED
      BY <1>7, <2>1, <2>3, <3>2, <3>3, <3>4 DEF Mapping
  <2> QED
    BY <2>2, <2>3
<1> HIDE DEF y
<1>10. Finished(z, w, x, p, end)
  <2>1. CASE Loads(x, p, end)
    <3>1. z = Memory(w.d, Filled(w.m, {GetPhys(w.d, p, i) : i \in Pages}, Elf), w.tables,
                     w.next + PROG_PAGES - 1, w.sound)
      BY <1>2, <1>5, <2>1
    <3> QED
      BY <2>1, <3>1, MemoryFields DEF Finished
  <2>2. CASE ~Loads(x, p, end)
    <3>1. z = Memory(w.d, w.m, w.tables, end, x.sound)
      BY <1>2, <1>5, <2>2
    <3> QED
      BY <2>2, <3>1, MemoryFields DEF Finished
  <2> QED
    BY <2>1, <2>2
<1>11. Loads(x, p, end) /\ z.sound => ~(NeedsTable(x.d, p) /\ x.next + 1 >= end)
  <2> SUFFICES ASSUME Loads(x, p, end), z.sound
               PROVE  ~(NeedsTable(x.d, p) /\ x.next + 1 >= end)
    OBVIOUS
  <2>1. PICK m : m = Filled(w.m, {GetPhys(w.d, p, i) : i \in Pages}, Elf)
    OBVIOUS
  <2>2. PICK n : n = w.next + PROG_PAGES - 1
    OBVIOUS
  <2>3. z = Memory(w.d, m, w.tables, n, w.sound)
    BY <1>2, <1>5, <2>1, <2>2
  <2>4. w.sound
    <3>1. Memory(w.d, m, w.tables, n, w.sound).sound
      BY <2>3, Zenon
    <3>2. Memory(w.d, m, w.tables, n, w.sound).sound = w.sound
      BY Zenon DEF Memory
    <3> QED
      BY <3>1, <3>2, Zenon
  <2> QED
    BY <1>6, <1>7, <2>4, Zenon
<1> QED
  BY <1>9, <1>10, <1>11, Zenon DEF LoadsBy

(***************************************************************************)
(* user_load_elf: whole, or stopped after some of its pages.               *)
(***************************************************************************)
LEMMA LoadGrown ==
    ASSUME NEW end, NEW x, Ready(x, end), NEW p \in Programs, NEW z, z = LoadElf(x, p, end),
           Loads(x, p, end) => z.sound
    PROVE  Grown(z, x, {p}, end) /\ (Loads(x, p, end) => Holds(z, x, p, Elf))
<1>1. PICK F : F = [i \in Got(x, p, end) |-> PageFrame(x, p, i)]
  OBVIOUS
<1>2. PICK S : S = Got(x, p, end)
  OBVIOUS
<1>3. PICK G : G = {F[i] : i \in S}
  OBVIOUS
<1>4. PICK m : m = Filled(x.m, G, Zero)
  OBVIOUS
<1>5. /\ end \in Nat /\ x.next \in Nat /\ x.next <= end /\ p \in Regions /\ x.m \in [0..(end - 1) -> Int]
      /\ PROG_PAGES \in Nat /\ PROG_PAGES >= 1 /\ Extra(x, p) \in {0, 1}
      /\ \A f \in x.tables : f < x.next
  BY SpaceAssumption DEF Ready, Regions, Extra
<1>6. LoadFrames(F, x, p, end)
  BY <1>1, <1>5, LoaderFrames
<1>7. PICK y : /\ Mapping(y, x, p, F, m, end) /\ Finished(z, y, x, p, end)
               /\ Loads(x, p, end) => ~(NeedsTable(x.d, p) /\ x.next + 1 >= end)
  <2>1. LoadsBy(z, x, p, F, end)
    BY <1>1, <1>5, LoaderSteps, Zenon
  <2>2. m = Filled(x.m, {F[i] : i \in Got(x, p, end)}, Zero)
    BY <1>2, <1>3, <1>4, Zenon
  <2> QED
    BY <2>1, <2>2, Zenon DEF LoadsBy
<1>8. S \in SUBSET Slots /\ F \in [S -> Int] /\ \A i \in S : F[i] \in Int /\ F[i] >= x.next /\ F[i] < end
  BY <1>2, <1>6 DEF LoadFrames
<1>9. /\ m \in [0..(end - 1) -> Int]
      /\ \A f \in 0..(end - 1) : m[f] = IF f \in G THEN Zero ELSE x.m[f]
  <2>1. Zero \in Int /\ x.m \in [0..(end - 1) -> Int]
    BY <1>5 DEF Zero
  <2>2. Fills(m, x.m, G, Zero, end)
    BY <1>4, <2>1, FilledPages, Zenon
  <2> QED
    BY <2>2 DEF Fills
<1>10. \A f \in 0..(x.next - 1) : f \in 0..(end - 1) /\ f \notin G
  BY <1>3, <1>5, <1>8
<1>11. \A f \in 0..(x.next - 1) : m[f] = x.m[f]
  BY <1>9, <1>10
<1>12. CASE NeedsTable(x.d, p) /\ x.next + 1 >= end
  <2>1. ~Loads(x, p, end) /\ y.d = x.d /\ y.tables = x.tables /\ y.m = m
    BY <1>7, <1>12 DEF Mapping
  <2>2. z.d = x.d /\ z.m = m /\ z.tables = x.tables /\ z.next = end
    BY <1>7, <2>1 DEF Finished
  <2>3. Extends(z, x, end)
    BY <1>5, <1>9, <1>11, <2>2 DEF Extends
  <2> QED
    BY <2>1, <2>2, <2>3, SameGrown
<1>13. CASE ~(NeedsTable(x.d, p) /\ x.next + 1 >= end)
  <2>1. /\ y.d = Mapped(x.d, p, F) /\ y.m = m /\ y.next = x.next + 1 + Extra(x, p)
        /\ y.tables = IF NeedsTable(x.d, p) THEN x.tables \cup {x.next + 1} ELSE x.tables
    BY <1>7, <1>13 DEF Mapping
  <2>2. z.d = y.d /\ z.tables = y.tables
    BY <1>7 DEF Finished
  <2>3. /\ NeedsTable(x.d, p) => Extra(x, p) = 1
        /\ \A i \in S : NeedsTable(x.d, p) => F[i] # x.next + 1
        /\ \A i, j \in S : F[i] = F[j] => i = j
    BY <1>2, <1>6 DEF LoadFrames, Extra
  <2>4. \A i \in S : F[i] \notin z.tables \ x.tables
    BY <2>1, <2>2, <2>3
  <2>5. /\ z.next \in Nat /\ x.next <= z.next /\ z.next <= end
        /\ NeedsTable(x.d, p) => x.next + 1 < z.next
        /\ \A i \in S : F[i] < z.next
    <3>1. CASE Loads(x, p, end)
      <4>1. z.next = x.next + PROG_PAGES + Extra(x, p)
        <5>1. z.next = y.next + PROG_PAGES - 1
          BY <1>7, <3>1 DEF Finished
        <5>2. y.next = x.next + 1 + Extra(x, p)
          BY <2>1
        <5>3. x.next \in Int /\ PROG_PAGES \in Int /\ Extra(x, p) \in Int
          BY <1>5
        <5> QED
          BY <5>1, <5>2, <5>3
      <4>2. S = Pages /\ z.next <= end /\ \A i \in S : F[i] < z.next
        BY <1>2, <1>6, <1>13, <3>1, <4>1 DEF LoadFrames, Loads
      <4> QED
        BY <1>5, <2>3, <4>1, <4>2
    <3>2. CASE ~Loads(x, p, end)
      <4>1. z.next = end
        BY <1>7, <3>2 DEF Finished
      <4> QED
        BY <1>5, <1>8, <1>13, <4>1
    <3> QED
      BY <3>1, <3>2
  <2>6. ASSUME Loads(x, p, end), NEW e, MapsTo(e, x.d, p, S, F), y.d = e PROVE z.m = Filled(m, G, Elf)
    <3>1. S = Pages /\ e[p].kind = "table" /\ \A i \in S : e[p].pt[i] = F[i]
      BY <1>2, <2>6 DEF MapsTo, Loads
    <3>2. \A i \in Pages : GetPhys(y.d, p, i) = F[i]
      BY <2>6, <3>1 DEF GetPhys
    <3>3. {GetPhys(y.d, p, i) : i \in Pages} = G
      BY <1>3, <3>1, <3>2
    <3> QED
      BY <1>7, <2>1, <2>6, <3>3 DEF Finished
  <2>7. MapsTo(y.d, x.d, p, S, F)
    <3>1. DirOK(x.d)
      BY DEF Ready
    <3> QED
      BY <1>5, <1>8, <2>1, <3>1, MappedEntries
  <2>8. Loads(x, p, end) => z.m = Filled(m, G, Elf)
    BY <2>6, <2>7
  <2>9. /\ z.m \in [0..(end - 1) -> Int] /\ \A f \in 0..(x.next - 1) : z.m[f] = x.m[f]
        /\ Loads(x, p, end) => \A f \in G : z.m[f] = Elf
    <3>1. CASE Loads(x, p, end)
      <4>1. /\ z.m \in [0..(end - 1) -> Int]
            /\ \A f \in 0..(end - 1) : z.m[f] = IF f \in G THEN Elf ELSE m[f]
        <5>1. Elf \in Int /\ m \in [0..(end - 1) -> Int] /\ z.m = Filled(m, G, Elf)
          BY <1>9, <2>8, <3>1 DEF Elf
        <5>2. Fills(z.m, m, G, Elf, end)
          BY <5>1, FilledPages, Zenon
        <5> QED
          BY <5>2 DEF Fills
      <4>2. G \subseteq 0..(end - 1)
        BY <1>3, <1>5, <1>8
      <4> QED
        BY <1>10, <1>11, <4>1, <4>2
    <3>2. CASE ~Loads(x, p, end)
      <4>1. z.m = m
        BY <1>7, <2>1, <3>2 DEF Finished
      <4> QED
        BY <1>9, <1>11, <3>2, <4>1
    <3> QED
      BY <3>1, <3>2
  <2>10. Extends(z, x, end)
    <3>1. z.tables \ x.tables \subseteq x.next..(z.next - 1) /\ x.tables \subseteq z.tables
      BY <1>5, <2>1, <2>2, <2>5
    <3> QED
      BY <2>5, <2>9, <3>1 DEF Extends
  <2>11. Frames(F, S, x, z.next, z.tables)
    BY <1>8, <2>3, <2>4, <2>5 DEF Frames
  <2>12. MapMakes(z, x, p, S, F, end)
    BY <1>5, <1>8, <2>1, <2>2, <2>10, <2>11 DEF MapMakes
  <2>13. Grown(z, x, {p}, end) /\ z.d[p].kind = "table" /\ \A i \in S : z.d[p].pt[i] = F[i]
    <3>1. MapResult(z, x, p, S, F, end)
      BY <2>12, MapGrown, Zenon
    <3> QED
      BY <3>1 DEF MapResult
  <2>14. ASSUME Loads(x, p, end) PROVE Holds(z, x, p, Elf)
    <3>1. PagesOf(p) = S
      BY <1>2, <2>14 DEF PagesOf, Loads
    <3>2. \A i \in S : z.d[p].pt[i] = F[i] /\ F[i] \in G /\ F[i] >= x.next
      BY <1>3, <1>8, <2>13
    <3> QED
      BY <2>9, <2>13, <2>14, <3>1, <3>2 DEF Holds
  <2> QED
    BY <2>13, <2>14
<1> QED
  BY <1>12, <1>13

(***************************************************************************)
(* user_setup_stack_at, when it has found its frames.                      *)
(***************************************************************************)
LEMMA StackGrown ==
    ASSUME NEW end, NEW x, Ready(x, end), NEW s \in Stacks, NEW z, z = SetupStack(x, s, end), z.sound
    PROVE  x.sound /\ Grown(z, x, {s}, end) /\ Holds(z, x, s, Zero)
<1>1. PICK k : k = x.next
  OBVIOUS
<1>2. /\ end \in Nat /\ k \in Nat /\ k <= end /\ s \in Regions /\ x.m \in [0..(end - 1) -> Int]
      /\ 0 \in Slots /\ s \notin Programs /\ \A f \in x.tables : f < k
  BY <1>1, Layout DEF Ready, Regions, Stacks, Programs
<1>3. k < end
  <2> SUFFICES ASSUME ~(k < end) PROVE FALSE
    OBVIOUS
  <2>1. PICK c : c = Cleared(x, {0}, x.next, FALSE)
    OBVIOUS
  <2>2. z = MapInto(c, s, [i \in {0} |-> 0], end)
    BY <1>1, <2>1 DEF SetupStack
  <2>3. c.next \in Int /\ end \in Int
    BY <1>1, <1>2, <2>1, MemoryFields DEF Cleared
  <2>4. c.sound
    BY <2>2, <2>3, MapIntoFields
  <2>5. c = Memory(x.d, Filled(x.m, {0}, Zero), x.tables, x.next, x.sound /\ FALSE)
    BY <2>1 DEF Cleared
  <2>6. x.sound /\ FALSE
    BY <2>4, <2>5, MemorySound, Zenon
  <2> QED
    BY <2>6
<1>4. PICK F : F = [i \in {0} |-> k]
  OBVIOUS
<1>5. PICK c : c = Cleared(x, {k}, k + 1, TRUE)
  OBVIOUS
<1>6. z = MapInto(c, s, F, end)
  BY <1>1, <1>3, <1>4, <1>5 DEF SetupStack
<1>7. c.d = x.d /\ c.m = Filled(x.m, {k}, Zero) /\ c.tables = x.tables /\ c.next = k + 1
  BY <1>5, MemoryFields DEF Cleared
<1>8. c.sound /\ ~Lacks(c, s, end) /\ MapsInto(z, c, s, F)
  <2>1. c.next \in Int /\ end \in Int
    BY <1>2, <1>7
  <2> QED
    BY <1>6, <2>1, MapIntoFields
<1>9. x.sound
  <2>1. c = Memory(x.d, Filled(x.m, {k}, Zero), x.tables, k + 1, x.sound /\ TRUE)
    BY <1>5 DEF Cleared
  <2>2. x.sound /\ TRUE
    BY <1>8, <2>1, MemorySound, Zenon
  <2> QED
    BY <2>2
<1>10. /\ z.d = Mapped(x.d, s, F) /\ z.m = Filled(x.m, {k}, Zero)
       /\ \/ z.tables = x.tables \cup {k + 1} /\ z.next = k + 2 /\ k + 1 < end
          \/ z.tables = x.tables /\ z.next = k + 1
  <2>1. NeedsTable(c.d, s) => c.next < end
    BY <1>2, <1>7, <1>8 DEF Lacks
  <2>2. k + 1 + 1 = k + 2
    BY <1>2
  <2> QED
    BY <1>7, <1>8, <2>1, <2>2 DEF MapsInto
<1>11. /\ z.m \in [0..(end - 1) -> Int]
       /\ \A f \in 0..(end - 1) : z.m[f] = IF f \in {k} THEN Zero ELSE x.m[f]
  <2>1. Zero \in Int /\ x.m \in [0..(end - 1) -> Int] /\ z.m = Filled(x.m, {k}, Zero)
    BY <1>2, <1>10 DEF Zero
  <2>2. Fills(z.m, x.m, {k}, Zero, end)
    BY <2>1, FilledPages, Zenon
  <2> QED
    BY <2>2 DEF Fills
<1>12. z.next \in Nat /\ k < z.next /\ z.next <= end
  BY <1>2, <1>3, <1>10
<1>13. Extends(z, x, end)
  <2>1. z.tables \ x.tables \subseteq k..(z.next - 1) /\ x.tables \subseteq z.tables
    BY <1>2, <1>10
  <2>2. \A f \in 0..(k - 1) : z.m[f] = x.m[f]
    BY <1>2, <1>3, <1>11
  <2> QED
    BY <1>1, <1>2, <1>11, <1>12, <2>1, <2>2 DEF Extends
<1>14. Frames(F, {0}, x, z.next, z.tables)
  <2>1. F \in [{0} -> Int] /\ \A i \in {0} : F[i] = k
    BY <1>2, <1>4
  <2>2. k \notin z.tables \ x.tables
    BY <1>2, <1>10
  <2> QED
    BY <1>1, <1>2, <1>12, <2>1, <2>2 DEF Frames
<1>15. MapMakes(z, x, s, {0}, F, end)
  <2>1. {0} \in SUBSET Slots
    BY <1>2
  <2> QED
    BY <1>2, <1>10, <1>13, <1>14, <2>1 DEF MapMakes
<1>16. Grown(z, x, {s}, end) /\ z.d[s].kind = "table" /\ z.d[s].pt[0] = k
  <2>1. MapResult(z, x, s, {0}, F, end)
    BY <1>15, MapGrown, Zenon
  <2> QED
    BY <1>4, <2>1 DEF MapResult
<1>17. Holds(z, x, s, Zero)
  <2>1. PagesOf(s) = {0} /\ z.m[k] = Zero /\ k >= x.next
    BY <1>1, <1>2, <1>3, <1>11 DEF PagesOf
  <2> QED
    BY <1>16, <2>1 DEF Holds
<1> QED
  BY <1>9, <1>16, <1>17

LEMMA EntryBelow ==
    ASSUME NEW D, NEW L, NEW n \in Nat, NEW T, Kept(D, L, n, T), n >= FirstFree,
           NEW s \in L, NEW r \in Regions, NEW i \in Slots
    PROVE  /\ D[s][r].pt[i] \in Int /\ D[s][r].pt[i] < n
           /\ D[s][r].pt[i] # NoFrame => D[s][r].pt[i] \in Nat
<1> DEFINE v == D[s][r].pt[i]
<1>1. EntryOK(v, r, i, n, T)
  BY DEF Kept
<1> HIDE DEF v
<1>2. v \in Int /\ v < n /\ (v # NoFrame => v \in Nat)
  BY <1>1, Layout DEF EntryOK
<1> QED
  BY <1>2 DEF v

(***************************************************************************)
(* A space s whose directory is replaced by one that has grown.            *)
(***************************************************************************)
Replaces(D2, D, L, s, d) == \A u \in L : D2[u] = IF u = s THEN d ELSE D[u]

InUse(x, D, L, s) == Kept(D, L, x.next, x.tables) /\ s \in L /\ x.d = D[s]

LEMMA GrownKept ==
    ASSUME NEW end, NEW x, Ready(x, end), NEW D, NEW L, NEW s, InUse(x, D, L, s),
           NEW R, NEW y, Grown(y, x, R, end), NEW D2, Replaces(D2, D, L, s, y.d)
    PROVE  Kept(D2, L, y.next, y.tables)
<1>1. PICK n \in Nat : n = x.next
  BY DEF Ready
<1>2. PICK k \in Nat : k = y.next
  BY DEF Grown, Extends
<1>3. PICK T : T = x.tables
  OBVIOUS
<1>4. PICK U : U = y.tables
  OBVIOUS
<1>5. /\ n <= k /\ n >= FirstFree /\ FirstFree \in Nat /\ T \subseteq U /\ U \ T \subseteq n..(k - 1)
      /\ Kept(D, L, n, T) /\ s \in L /\ D[s] = x.d
  BY <1>1, <1>2, <1>3, <1>4, Layout DEF Ready, Grown, Extends, InUse
<1>6. D2[s] = y.d /\ \A u \in L : u # s => D2[u] = D[u]
  BY <1>5 DEF Replaces
<1>7. \A u \in L : DirOK(D2[u])
  BY <1>5, <1>6 DEF Grown, Kept
<1>8. \A u \in L, r \in Regions, i \in Slots : D[u][r].pt[i] \in Int /\ D[u][r].pt[i] < n
  BY <1>5, EntryBelow
<1>9. ASSUME NEW u \in L, NEW r \in Regions, NEW i \in Slots
      PROVE  \/ u \in L /\ D2[u][r].pt[i] = D[u][r].pt[i]
             \/ D2[u][r].pt[i] = NoFrame
             \/ r \in Programs /\ D2[u][r].pt[i] = Identity(r, i)
             \/ D2[u][r].pt[i] \in (n..(k - 1)) \ U
  <2>1. CASE u = s
    <3>1. NewOrOld(y, x, r, i)
      BY DEF Grown
    <3> QED
      BY <1>1, <1>2, <1>4, <1>5, <1>6, <2>1, <3>1 DEF NewOrOld
  <2>2. CASE u # s
    BY <1>6, <2>2
  <2> QED
    BY <2>1, <2>2
<1>10. ASSUME NEW u \in L, NEW r \in Regions, NEW i \in Slots, D2[u][r].pt[i] >= n
       PROVE  u = s /\ D2[u][r].pt[i] = y.d[r].pt[i]
  <2>1. CASE u = s
    BY <1>6, <2>1
  <2>2. CASE u # s
    BY <1>6, <1>8, <1>10, <2>2
  <2> QED
    BY <2>1, <2>2
<1>11. ASSUME NEW u \in L, NEW v \in L, NEW r \in Regions, NEW q \in Regions,
              NEW i \in Slots, NEW j \in Slots,
              D2[u][r].pt[i] = D2[v][q].pt[j], D2[u][r].pt[i] >= n
       PROVE  u = v /\ r = q /\ i = j
  <2>1. u = s /\ v = s /\ y.d[r].pt[i] = y.d[q].pt[j] /\ y.d[r].pt[i] >= n
    BY <1>10, <1>11
  <2>2. Once(y, x)
    BY DEF Grown
  <2>3. r = q /\ i = j
    BY <1>1, <2>1, <2>2 DEF Once
  <2> QED
    BY <2>1, <2>3
<1>12. Kept(D2, L, k, U)
  BY <1>5, <1>7, <1>9, <1>11, KeptChange
<1> QED
  BY <1>2, <1>4, <1>12

LEMMA StackSound ==
    ASSUME NEW end, NEW x, NEW s, NEW z, z = SetupStack(x, s, end), z.sound
    PROVE  x.sound
<1>1. ASSUME NEW G, NEW n, NEW b, NEW F, z = MapInto(Cleared(x, G, n, b), s, F, end)
      PROVE  x.sound
  <2>1. PICK c : c = Cleared(x, G, n, b)
    OBVIOUS
  <2>2. PICK d : d = Map(c.d, s, F, c.next, end)
    OBVIOUS
  <2>3. PICK k : k = MapCost(c.d, s, c.next, end)
    OBVIOUS
  <2>4. PICK T : T = IF k = 1 THEN c.tables \cup {c.next} ELSE c.tables
    OBVIOUS
  <2>5. PICK l : l = c.next + k
    OBVIOUS
  <2>6. z = Memory(d, c.m, T, l, c.sound /\ ~(NeedsTable(c.d, s) /\ k = 0))
    BY <1>1, <2>1, <2>2, <2>3, <2>4, <2>5 DEF MapInto
  <2>7. c.sound
    BY <2>6, MemorySound, Zenon
  <2>8. c = Memory(x.d, Filled(x.m, G, Zero), x.tables, n, x.sound /\ b)
    BY <2>1 DEF Cleared
  <2>9. x.sound /\ b
    BY <2>7, <2>8, MemorySound, Zenon
  <2> QED
    BY <2>9
<1>2. CASE x.next < end
  BY <1>1, <1>2 DEF SetupStack
<1>3. CASE ~(x.next < end)
  BY <1>1, <1>3 DEF SetupStack
<1> QED
  BY <1>2, <1>3

(***************************************************************************)
(* The loader and then the stack, all found: both regions hold what they   *)
(* should.                                                                 *)
(***************************************************************************)
LEMMA InstallGrown ==
    ASSUME NEW end, NEW x, Ready(x, end), NEW p \in Programs, NEW s \in Stacks, Loads(x, p, end),
           NEW z, z = SetupStack(LoadElf(x, p, end), s, end), z.sound
    PROVE  Grown(z, x, {p, s}, end) /\ Holds(z, x, p, Elf) /\ Holds(z, x, s, Zero)
<1>1. PICK y : y = LoadElf(x, p, end)
  OBVIOUS
<1>2. z = SetupStack(y, s, end)
  BY <1>1
<1>3. y.sound
  BY <1>2, StackSound
<1>4. Grown(y, x, {p}, end) /\ Holds(y, x, p, Elf)
  BY <1>1, <1>3, LoadGrown
<1>5. Ready(y, end)
  BY <1>4, GrownReady
<1>6. Grown(z, y, {s}, end) /\ Holds(z, y, s, Zero)
  BY <1>2, <1>5, StackGrown
<1>7. Grown(z, x, {p} \cup {s}, end)
  BY <1>4, <1>6, GrownTwice
<1>8. /\ x.next \in Nat /\ y.next \in Nat /\ x.next <= y.next
      /\ p \in Regions /\ s \in Regions /\ p # s
  BY <1>4 DEF Ready, Grown, Extends, Programs, Stacks, Regions
<1>9. Holds(z, x, p, Elf)
  <2>1. z.d[p] = y.d[p] /\ \A f \in 0..(y.next - 1) : z.m[f] = y.m[f]
    BY <1>6, <1>8 DEF Grown, Extends
  <2>2. ASSUME NEW i \in PagesOf(p) PROVE y.d[p].pt[i] >= x.next /\ z.m[y.d[p].pt[i]] = Elf
    <3>1. i \in Slots
      BY <1>8, Layout
    <3>2. PICK v \in Int : v = y.d[p].pt[i] /\ v < y.next
      BY <1>5, <1>8, <3>1 DEF Ready
    <3>3. v >= x.next /\ y.m[v] = Elf
      BY <1>4, <3>2 DEF Holds
    <3>4. v \in 0..(y.next - 1)
      BY <1>8, <3>2, <3>3
    <3> QED
      BY <2>1, <3>2, <3>3, <3>4
  <2> QED
    BY <1>4, <2>1, <2>2 DEF Holds
<1>10. Holds(z, x, s, Zero)
  <2>1. ASSUME NEW i \in PagesOf(s) PROVE z.d[s].pt[i] >= x.next
    <3>1. i \in Slots /\ Ready(z, end)
      BY <1>5, <1>6, <1>8, Layout, GrownReady
    <3>2. PICK v \in Int : v = z.d[s].pt[i]
      BY <1>8, <3>1 DEF Ready
    <3>3. v >= y.next
      BY <1>6, <3>2 DEF Holds
    <3>4. v >= x.next
      BY <1>8, <3>3
    <3> QED
      BY <3>2, <3>4
  <2> QED
    BY <1>6, <2>1 DEF Holds
<1> QED
  BY <1>7, <1>9, <1>10

-----------------------------------------------------------------------------
(***************************************************************************)
(* The clone.  vmm_clone_pml4_deep allocates a block of frames per table,  *)
(* the table first and its pages after it, so the rank of a page among the *)
(* present ones is its place in the block.                                 *)
(***************************************************************************)
Rank(S, i) == Cardinality({j \in S : j < i})

LEMMA Ranks ==
    ASSUME NEW S \in SUBSET Slots
    PROVE  /\ Cardinality(S) \in Nat
           /\ \A i \in S : Rank(S, i) \in 0..(Cardinality(S) - 1)
           /\ \A i, j \in S : i # j => Rank(S, i) # Rank(S, j)
<1>1. IsFiniteSet(Slots)
  BY SpaceAssumption, FS_Interval DEF Slots
<1>2. IsFiniteSet(S) /\ S \subseteq Nat
  BY <1>1, FS_Subset, Layout
<1>3. Cardinality(S) \in Nat
  BY <1>2, FS_CardinalityType
<1>4. ASSUME NEW A, NEW B, IsFiniteSet(B), A \subseteq B, A # B
      PROVE  Cardinality(A) < Cardinality(B) /\ Cardinality(A) \in Nat
  <2>1. IsFiniteSet(A) /\ Cardinality(A) <= Cardinality(B) /\ Cardinality(A) # Cardinality(B)
    BY <1>4, FS_Subset
  <2>2. Cardinality(A) \in Nat /\ Cardinality(B) \in Nat
    BY <1>4, <2>1, FS_CardinalityType
  <2> QED
    BY <2>1, <2>2
<1>5. ASSUME NEW i \in S PROVE Rank(S, i) \in 0..(Cardinality(S) - 1)
  <2>1. {j \in S : j < i} \subseteq S /\ {j \in S : j < i} # S
    BY <1>2
  <2>2. Cardinality({j \in S : j < i}) < Cardinality(S) /\ Cardinality({j \in S : j < i}) \in Nat
    BY <1>2, <1>4, <2>1
  <2> QED
    BY <1>3, <2>2 DEF Rank
<1>6. ASSUME NEW i \in S, NEW j \in S, i < j PROVE Rank(S, i) < Rank(S, j)
  <2> DEFINE A == {k \in S : k < i}
             B == {k \in S : k < j}
  <2>1. A \subseteq B /\ A # B
    <3>1. i \in B /\ i \notin A
      BY <1>2, <1>6
    <3>2. \A k \in S : k \in Nat /\ i \in Nat /\ j \in Nat /\ (k < i => k < j)
      BY <1>2, <1>6
    <3> QED
      BY <3>1, <3>2
  <2>2. IsFiniteSet(B)
    BY <1>2, FS_Subset
  <2> HIDE DEF A, B
  <2>3. Cardinality(A) < Cardinality(B)
    BY <1>4, <2>1, <2>2
  <2> QED
    BY <2>3 DEF Rank, A, B
<1>7. ASSUME NEW i \in S, NEW j \in S, i # j PROVE Rank(S, i) # Rank(S, j)
  <2>1. Rank(S, i) \in Int /\ Rank(S, j) \in Int
    BY <1>3, <1>5
  <2>2. i < j \/ j < i
    BY <1>2, <1>7
  <2> QED
    BY <1>6, <2>1, <2>2
<1> QED
  BY <1>3, <1>5, <1>7

(***************************************************************************)
(* The blocks of the clone lie apart, after the three tables it begins     *)
(* with, and the PD of the stacks is between them.                         *)
(***************************************************************************)
LEMMA Blocks ==
    ASSUME NEW d, DirOK(d), NEW n \in Nat
    PROVE  /\ CloneCost(d) \in Nat /\ CloneCost(d) >= 4
           /\ CostBelow(d, Position["ustack"]) \in Nat
           /\ CostBelow(d, Position["ustack"]) + 4 <= CloneCost(d)
           /\ \A r \in Regions :
                 /\ Cost(d, r) \in Nat /\ TableFrame(d, n, r) \in Nat
                 /\ n + 3 <= TableFrame(d, n, r)
                 /\ TableFrame(d, n, r) + Cost(d, r) <= n + CloneCost(d)
                 /\ \/ TableFrame(d, n, r) + Cost(d, r) <= n + 3 + CostBelow(d, Position["ustack"])
                    \/ n + 3 + CostBelow(d, Position["ustack"]) < TableFrame(d, n, r)
           /\ \A r, q \in Regions : r # q =>
                 \/ TableFrame(d, n, r) + Cost(d, r) <= TableFrame(d, n, q)
                 \/ TableFrame(d, n, q) + Cost(d, q) <= TableFrame(d, n, r)
<1> DEFINE a == Cost(d, "init")
           b == Cost(d, "prog")
           u == Cost(d, "ustack")
           c == Cost(d, "cstack")
<1>1. \A r \in Regions : Cost(d, r) \in Nat
  <2> SUFFICES ASSUME NEW r \in Regions PROVE Cost(d, r) \in Nat
    OBVIOUS
  <2>1. Cardinality(Present(d, r)) \in Nat
    BY Ranks DEF Present
  <2> QED
    BY <2>1 DEF Cost
<1>2. a \in Nat /\ b \in Nat /\ u \in Nat /\ c \in Nat
  BY <1>1 DEF Regions, Programs, Stacks
<1> HIDE DEF a, b, u, c
<1>3. \A k \in Int : CostBelow(d, k) = (IF 1 < k THEN a ELSE 0) + (IF 2 < k THEN b ELSE 0)
                                       + (IF 3 < k THEN u ELSE 0) + (IF 4 < k THEN c ELSE 0)
  BY DEF CostBelow, Position, a, b, u, c
<1>4. /\ CloneCost(d) = 4 + a + b + u + c
      /\ CostBelow(d, Position["ustack"]) = a + b
  BY <1>2, <1>3 DEF CloneCost, Position
<1>5. /\ TableFrame(d, n, "init") = n + 3
      /\ TableFrame(d, n, "prog") = n + 3 + a
      /\ TableFrame(d, n, "ustack") = n + 4 + a + b
      /\ TableFrame(d, n, "cstack") = n + 4 + a + b + u
  <2>1. /\ CostBelow(d, 1) = 0 /\ CostBelow(d, 2) = a
        /\ CostBelow(d, 3) = a + b /\ CostBelow(d, 4) = a + b + u
    BY <1>2, <1>3
  <2>2. Position["init"] = 1 /\ Position["prog"] = 2 /\ Position["ustack"] = 3 /\ Position["cstack"] = 4
    BY DEF Position
  <2> QED
    BY <1>2, <2>1, <2>2 DEF TableFrame, Programs
<1>6. Cost(d, "init") = a /\ Cost(d, "prog") = b /\ Cost(d, "ustack") = u /\ Cost(d, "cstack") = c
  BY DEF a, b, u, c
<1> QED
  BY <1>1, <1>2, <1>4, <1>5, <1>6 DEF Regions, Programs, Stacks

(***************************************************************************)
(* An entry of the clone is empty where the original's is, and otherwise a *)
(* fresh frame that is no table and that no other entry of it has.         *)
(***************************************************************************)
LEMMA CloneEntries ==
    ASSUME NEW d, DirOK(d), NEW n \in Nat, NEW e, e = DeepClone(d, n)
    PROVE  /\ DirOK(e)
           /\ \A r \in Regions : e[r].kind = d[r].kind
           /\ \A r \in Regions, i \in Slots :
                 IF d[r].pt[i] = NoFrame THEN e[r].pt[i] = NoFrame
                 ELSE /\ d[r].kind = "table"
                      /\ e[r].pt[i] \in TableFrame(d, n, r) + 1 .. TableFrame(d, n, r) + Cost(d, r) - 1
           /\ \A r \in Regions, i, j \in Slots :
                 d[r].pt[i] # NoFrame /\ d[r].pt[j] # NoFrame /\ i # j => e[r].pt[i] # e[r].pt[j]
<1> DEFINE P(r) == [i \in Slots |-> CopiedFrame(d, n, r, i)]
<1>1. /\ e \in [Regions -> {d[r] : r \in Regions} \cup {Table(P(r)) : r \in Regions}]
      /\ \A r \in Regions : e[r] = IF d[r].kind # "table" THEN d[r] ELSE [kind |-> "table", pt |-> P(r)]
  BY DEF DeepClone, Table
<1>2. d \in [Regions -> Region]
  BY DEF DirOK
<1>3. \A r \in Regions : Cost(d, r) \in Nat /\ TableFrame(d, n, r) \in Nat
  BY Blocks
<1>4. ASSUME NEW r \in Regions, NEW i \in Slots, d[r].kind = "table", d[r].pt[i] # NoFrame
      PROVE  /\ i \in Present(d, r)
             /\ CopiedFrame(d, n, r, i) = TableFrame(d, n, r) + 1 + Rank(Present(d, r), i)
             /\ Rank(Present(d, r), i) \in 0..(Cost(d, r) - 2)
             /\ CopiedFrame(d, n, r, i) \in TableFrame(d, n, r) + 1 .. TableFrame(d, n, r) + Cost(d, r) - 1
  <2>1. i \in Present(d, r) /\ Present(d, r) \in SUBSET Slots
    BY <1>4 DEF Present
  <2>2. CopiedFrame(d, n, r, i) = TableFrame(d, n, r) + 1 + Rank(Present(d, r), i)
    BY <1>4 DEF CopiedFrame, Rank
  <2>3. Cost(d, r) = 1 + Cardinality(Present(d, r)) /\ Cardinality(Present(d, r)) \in Nat
    BY <1>4, <2>1, Ranks DEF Cost
  <2>4. Rank(Present(d, r), i) \in 0..(Cardinality(Present(d, r)) - 1)
    BY <2>1, Ranks
  <2> QED
    BY <1>3, <2>1, <2>2, <2>3, <2>4
<1>5. ASSUME NEW r \in Regions, d[r].kind = "table"
      PROVE  P(r) \in [Slots -> Int]
  <2> SUFFICES ASSUME NEW i \in Slots PROVE CopiedFrame(d, n, r, i) \in Int
    OBVIOUS
  <2>1. CASE d[r].pt[i] = NoFrame
    BY <2>1, Layout DEF CopiedFrame
  <2>2. CASE d[r].pt[i] # NoFrame
    BY <1>3, <1>4, <1>5, <2>2
  <2> QED
    BY <2>1, <2>2
<1>6. ASSUME NEW r \in Regions
      PROVE  /\ e[r] \in Region /\ e[r].kind = d[r].kind
             /\ d[r].kind = "table" => \A i \in Slots : e[r].pt[i] = CopiedFrame(d, n, r, i)
             /\ d[r].kind # "table" => e[r] = d[r]
  <2>1. CASE d[r].kind = "table"
    <3>1. e[r] = [kind |-> "table", pt |-> P(r)]
      BY <1>1, <2>1
    <3>2. e[r] \in Region
      <4> HIDE DEF P
      <4> QED
        BY <1>5, <2>1, <3>1 DEF Region
    <3> QED
      BY <2>1, <3>1, <3>2
  <2>2. CASE d[r].kind # "table"
    BY <1>1, <1>2, <2>2
  <2> QED
    BY <2>1, <2>2
<1> HIDE DEF P
<1>7. DirOK(e)
  <2>1. e \in [Regions -> Region]
    BY <1>1, <1>6
  <2>2. \A r \in Regions :
          /\ r \in Stacks => e[r].kind # "huge"
          /\ e[r].kind # "table" => \A i \in Slots : e[r].pt[i] = NoFrame
    BY <1>6 DEF DirOK
  <2> QED
    BY <2>1, <2>2 DEF DirOK
<1>8. ASSUME NEW r \in Regions, NEW i \in Slots
      PROVE  IF d[r].pt[i] = NoFrame THEN e[r].pt[i] = NoFrame
             ELSE /\ d[r].kind = "table"
                  /\ e[r].pt[i] \in TableFrame(d, n, r) + 1 .. TableFrame(d, n, r) + Cost(d, r) - 1
  <2>1. CASE d[r].pt[i] = NoFrame
    BY <1>6, <2>1 DEF CopiedFrame
  <2>2. CASE d[r].pt[i] # NoFrame
    <3>1. d[r].kind = "table"
      BY <2>2 DEF DirOK
    <3> QED
      BY <1>4, <1>6, <2>2, <3>1
  <2> QED
    BY <2>1, <2>2
<1>9. ASSUME NEW r \in Regions, NEW i \in Slots, NEW j \in Slots,
             d[r].pt[i] # NoFrame, d[r].pt[j] # NoFrame, i # j
      PROVE  e[r].pt[i] # e[r].pt[j]
  <2>1. d[r].kind = "table"
    BY <1>9 DEF DirOK
  <2>2. Present(d, r) \in SUBSET Slots /\ i \in Present(d, r) /\ j \in Present(d, r)
    BY <1>9 DEF Present
  <2>3. Rank(Present(d, r), i) # Rank(Present(d, r), j)
    BY <1>9, <2>2, Ranks
  <2>4. /\ CopiedFrame(d, n, r, i) = TableFrame(d, n, r) + 1 + Rank(Present(d, r), i)
        /\ CopiedFrame(d, n, r, j) = TableFrame(d, n, r) + 1 + Rank(Present(d, r), j)
        /\ Rank(Present(d, r), i) \in Int /\ Rank(Present(d, r), j) \in Int
    BY <1>3, <1>4, <1>9, <2>1
  <2> QED
    BY <1>3, <1>6, <2>1, <2>3, <2>4
<1> QED
  BY <1>6, <1>7, <1>8, <1>9

ClonedTo(e, d, n, top, T) ==
    /\ T \subseteq n..(top - 1)
    /\ \A r \in Regions, i \in Slots : IF d[r].pt[i] = NoFrame THEN e[r].pt[i] = NoFrame
                                       ELSE e[r].pt[i] \in (n..(top - 1)) \ T
    /\ \A r, q \in Regions, i, j \in Slots :
          e[r].pt[i] = e[q].pt[j] /\ e[r].pt[i] # NoFrame => r = q /\ i = j

LEMMA ClonePages ==
    ASSUME NEW d, DirOK(d), NEW n \in Nat, NEW e, e = DeepClone(d, n)
    PROVE  ClonedTo(e, d, n, n + CloneCost(d), CloneTables(d, n))
<1> DEFINE F(r) == TableFrame(d, n, r)
           C(r) == Cost(d, r)
           pd == n + 3 + CostBelow(d, Position["ustack"])
           top == n + CloneCost(d)
<1>1. /\ top \in Nat /\ top >= n + 4 /\ pd \in Nat /\ pd < top /\ pd >= n + 3
      /\ \A r \in Regions : /\ C(r) \in Nat /\ F(r) \in Nat /\ n + 3 <= F(r) /\ F(r) + C(r) <= top
                            /\ F(r) + C(r) <= pd \/ pd < F(r)
      /\ \A r, q \in Regions : r # q => F(r) + C(r) <= F(q) \/ F(q) + C(q) <= F(r)
  BY Blocks
<1>2. /\ \A r \in Regions, i \in Slots :
            IF d[r].pt[i] = NoFrame THEN e[r].pt[i] = NoFrame
            ELSE d[r].kind = "table" /\ e[r].pt[i] \in F(r) + 1 .. F(r) + C(r) - 1
      /\ \A r \in Regions, i, j \in Slots :
            d[r].pt[i] # NoFrame /\ d[r].pt[j] # NoFrame /\ i # j => e[r].pt[i] # e[r].pt[j]
  BY CloneEntries
<1>3. \A r \in Regions : d[r].kind = "table" => C(r) >= 1
  <2> SUFFICES ASSUME NEW r \in Regions, d[r].kind = "table" PROVE C(r) >= 1
    OBVIOUS
  <2>1. Present(d, r) \in SUBSET Slots
    BY DEF Present
  <2>2. Cardinality(Present(d, r)) \in Nat
    BY <2>1, Ranks
  <2> QED
    BY <2>2 DEF Cost
<1>4. \A x \in CloneTables(d, n) : \/ x \in {n, n + 1, n + 2, pd}
                                   \/ \E r \in Regions : d[r].kind = "table" /\ x = F(r)
  BY DEF CloneTables
<1> HIDE DEF F, C, pd, top
<1>5. \A x \in CloneTables(d, n) : x \in n..(top - 1)
  BY <1>1, <1>3, <1>4
<1>6. ASSUME NEW r \in Regions, NEW i \in Slots, d[r].pt[i] # NoFrame
      PROVE  e[r].pt[i] \in (n..(top - 1)) \ CloneTables(d, n)
  <2> DEFINE v == e[r].pt[i]
  <2>1. v \in F(r) + 1 .. F(r) + C(r) - 1
    BY <1>2, <1>6
  <2> HIDE DEF v
  <2>2. v \in n..(top - 1)
    BY <1>1, <2>1
  <2>3. v \notin {n, n + 1, n + 2, pd}
    BY <1>1, <2>1
  <2>4. ASSUME NEW q \in Regions, d[q].kind = "table" PROVE v # F(q)
    <3>1. CASE q = r
      BY <1>1, <2>1, <3>1
    <3>2. CASE q # r
      BY <1>1, <1>3, <2>1, <2>4, <3>2
    <3> QED
      BY <3>1, <3>2
  <2>5. v \notin CloneTables(d, n)
    BY <1>4, <2>3, <2>4
  <2> QED
    BY <2>2, <2>5 DEF v
<1>7. ASSUME NEW r \in Regions, NEW q \in Regions, NEW i \in Slots, NEW j \in Slots,
             e[r].pt[i] = e[q].pt[j], e[r].pt[i] # NoFrame
      PROVE  r = q /\ i = j
  <2>1. d[r].pt[i] # NoFrame /\ d[q].pt[j] # NoFrame
    BY <1>2, <1>7
  <2>2. e[r].pt[i] \in F(r) + 1 .. F(r) + C(r) - 1 /\ e[q].pt[j] \in F(q) + 1 .. F(q) + C(q) - 1
    BY <1>2, <2>1
  <2>3. r = q
    BY <1>1, <1>7, <2>2
  <2> QED
    BY <1>2, <1>7, <2>1, <2>3
<1>8. ClonedTo(e, d, n, top, CloneTables(d, n))
  <2>1. CloneTables(d, n) \subseteq n..(top - 1)
    BY <1>5
  <2>2. \A r \in Regions, i \in Slots : IF d[r].pt[i] = NoFrame THEN e[r].pt[i] = NoFrame
                                       ELSE e[r].pt[i] \in (n..(top - 1)) \ CloneTables(d, n)
    BY <1>2, <1>6
  <2>3. \A r, q \in Regions, i, j \in Slots :
          e[r].pt[i] = e[q].pt[j] /\ e[r].pt[i] # NoFrame => r = q /\ i = j
    BY <1>7, SMT
  <2> QED
    BY <2>1, <2>2, <2>3, Zenon DEF ClonedTo
<1> QED
  BY <1>8 DEF top

LEMMA CloneKept ==
    ASSUME NEW D, NEW L, NEW n \in Nat, NEW T, Kept(D, L, n, T), n >= FirstFree,
           NEW s \in L, NEW c, c \notin L, NEW d, d = D[s],
           NEW D2, \A u \in L : D2[u] = D[u], D2[c] = DeepClone(d, n)
    PROVE  Kept(D2, L \cup {c}, n + CloneCost(d), T \cup CloneTables(d, n))
<1> DEFINE e == DeepClone(d, n)
           n2 == n + CloneCost(d)
           T2 == T \cup CloneTables(d, n)
           L2 == L \cup {c}
<1>1. DirOK(d)
  BY DEF Kept
<1>2. DirOK(e)
  BY <1>1, CloneEntries
<1>3. /\ CloneTables(d, n) \subseteq n..(n2 - 1)
      /\ \A r \in Regions, i \in Slots :
            IF d[r].pt[i] = NoFrame THEN e[r].pt[i] = NoFrame
            ELSE e[r].pt[i] \in (n..(n2 - 1)) \ CloneTables(d, n)
      /\ \A r, q \in Regions, i, j \in Slots :
            e[r].pt[i] = e[q].pt[j] /\ e[r].pt[i] # NoFrame => r = q /\ i = j
  <2>1. ClonedTo(e, d, n, n2, CloneTables(d, n))
    BY <1>1, ClonePages
  <2> HIDE DEF e, n2
  <2> QED
    BY <2>1, Zenon DEF ClonedTo
<1>4. n2 \in Nat /\ n <= n2
  BY <1>1, Blocks
<1> HIDE DEF e, n2
<1>5. \A x \in T : x < n
  BY DEF Kept
<1>6. T2 \ T \subseteq n..(n2 - 1) /\ T \subseteq T2
  BY <1>3
<1>7. \A u \in L2 : DirOK(D2[u])
  BY <1>2 DEF e, Kept
<1>8. \A u \in L, r \in Regions, i \in Slots : D[u][r].pt[i] \in Int /\ D[u][r].pt[i] < n
  BY EntryBelow
<1>9. ASSUME NEW u \in L2, NEW r \in Regions, NEW i \in Slots
      PROVE  /\ \/ u \in L /\ D2[u][r].pt[i] = D[u][r].pt[i]
                \/ D2[u][r].pt[i] = NoFrame
                \/ r \in Programs /\ D2[u][r].pt[i] = Identity(r, i)
                \/ D2[u][r].pt[i] \in (n..(n2 - 1)) \ T2
             /\ D2[u][r].pt[i] >= n => u = c /\ D2[u][r].pt[i] = e[r].pt[i] /\ e[r].pt[i] # NoFrame
  <2>1. CASE u = c
    <3>1. D2[u] = e
      BY <2>1 DEF e
    <3>2. d[r].pt[i] # NoFrame => e[r].pt[i] \in (n..(n2 - 1)) \ T2
      BY <1>3, <1>5
    <3>3. ~(NoFrame >= n)
      BY Layout
    <3> QED
      BY <1>3, <2>1, <3>1, <3>2, <3>3
  <2>2. CASE u \in L
    <3>1. D2[u] = D[u]
      BY <2>2
    <3> QED
      BY <1>8, <2>2, <3>1
  <2> QED
    BY <2>1, <2>2
<1>10. ASSUME NEW u \in L2, NEW v \in L2, NEW r \in Regions, NEW q \in Regions,
              NEW i \in Slots, NEW j \in Slots,
              D2[u][r].pt[i] = D2[v][q].pt[j], D2[u][r].pt[i] >= n
       PROVE  u = v /\ r = q /\ i = j
  <2>1. /\ u = c /\ D2[u][r].pt[i] = e[r].pt[i] /\ e[r].pt[i] # NoFrame
        /\ v = c /\ D2[v][q].pt[j] = e[q].pt[j]
    BY <1>9, <1>10
  <2> QED
    BY <1>3, <1>10, <2>1
<1>11. Kept(D2, L2, n2, T2)
  <2> HIDE DEF L2, T2
  <2> QED
    BY <1>4, <1>6, <1>7, <1>9, <1>10, KeptChange
<1> QED
  BY <1>11 DEF n2

(***************************************************************************)
(* The pages of the clone hold what those of the original hold, and every  *)
(* frame in use before is as it was.                                       *)
(***************************************************************************)
CopyOf(m, d, e, F, f) ==
    IF f \in F /\ IsPage(e, f) THEN m[d[PageAt(e, f)[1]].pt[PageAt(e, f)[2]]] ELSE m[f]

LEMMA CopyFunction ==
    ASSUME NEW m, NEW d, NEW e, NEW F, NEW m2, m2 = CopyPages(m, d, e, F)
    PROVE  /\ DOMAIN m2 = DOMAIN m
           /\ \A f \in DOMAIN m : m2[f] = CopyOf(m, d, e, F, f)
           /\ m2 = [f \in DOMAIN m |-> m2[f]]
<1>1. m2 = [f \in DOMAIN m |-> CopyOf(m, d, e, F, f)]
  BY DEF CopyPages, CopyOf
<1> QED
  BY <1>1

PagesBelow(d, end) == \A r \in Regions, i \in Slots : d[r].pt[i] # NoFrame => d[r].pt[i] \in 0..(end - 1)

CopiesTo(m2, m, d, e, n, end) ==
    /\ m2 \in [0..(end - 1) -> Int]
    /\ \A f \in 0..(n - 1) : m2[f] = m[f]
    /\ \A r \in Regions, i \in Slots : d[r].pt[i] # NoFrame => m2[e[r].pt[i]] = m[d[r].pt[i]]

LEMMA CloneMemory ==
    ASSUME NEW d, DirOK(d), NEW n \in Nat, NEW e, e = DeepClone(d, n),
           NEW end \in Nat, n + CloneCost(d) <= end, NEW m \in [0..(end - 1) -> Int], PagesBelow(d, end),
           NEW F, F = n..(n + CloneCost(d) - 1), NEW m2, m2 = CopyPages(m, d, e, F)
    PROVE  CopiesTo(m2, m, d, e, n, end)
<1> DEFINE top == n + CloneCost(d)
           T == CloneTables(d, n)
           Hit(f) == f \in n..(top - 1) /\ IsPage(e, f)
           Pick(f) == PageAt(e, f)
<1>1. ClonedTo(e, d, n, top, T)
  BY ClonePages
<1>2. /\ DOMAIN m2 = 0..(end - 1)
      /\ \A f \in 0..(end - 1) : m2[f] = IF Hit(f) THEN m[d[Pick(f)[1]].pt[Pick(f)[2]]] ELSE m[f]
      /\ m2 = [f \in 0..(end - 1) |-> m2[f]]
  <2>1. F = n..(top - 1)
    <3>1. CloneCost(d) \in Nat
      BY Blocks
    <3> QED
      BY <3>1
  <2>2. DOMAIN m = 0..(end - 1)
    OBVIOUS
  <2>3. /\ DOMAIN m2 = 0..(end - 1)
        /\ \A f \in 0..(end - 1) : m2[f] = CopyOf(m, d, e, F, f)
        /\ m2 = [f \in 0..(end - 1) |-> m2[f]]
    BY <2>1, <2>2, CopyFunction
  <2> QED
    BY <2>1, <2>3 DEF CopyOf
<1>3. top \in Nat /\ n <= top /\ top <= end
  BY Blocks
<1> HIDE DEF top, T
<1>4. ~(NoFrame \in n..(top - 1))
  BY DEF NoFrame
<1>5. ASSUME NEW r \in Regions, NEW i \in Slots, e[r].pt[i] \in n..(top - 1)
      PROVE  Pick(e[r].pt[i]) = <<r, i>>
  <2> DEFINE v == e[r].pt[i]
             Q == {p \in Regions \X Slots : e[p[1]].pt[p[2]] = v}
  <2>1. \A p \in Regions \X Slots : e[p[1]].pt[p[2]] = v => p = <<r, i>>
    <3> SUFFICES ASSUME NEW p \in Regions \X Slots, e[p[1]].pt[p[2]] = v PROVE p = <<r, i>>
      OBVIOUS
    <3>1. p[1] \in Regions /\ p[2] \in Slots /\ p = <<p[1], p[2]>>
      OBVIOUS
    <3>2. v # NoFrame
      BY <1>4, <1>5
    <3>3. p[1] = r /\ p[2] = i
      BY <1>1, <3>1, <3>2 DEF ClonedTo
    <3> QED
      BY <3>1, <3>3
  <2>2. <<r, i>> \in Regions \X Slots /\ e[<<r, i>>[1]].pt[<<r, i>>[2]] = v
    OBVIOUS
  <2> HIDE DEF v
  <2>3. (CHOOSE p \in Regions \X Slots : e[p[1]].pt[p[2]] = v) = <<r, i>>
    BY <2>1, <2>2
  <2> QED
    BY <2>3 DEF v, PageAt
<1> HIDE DEF Pick
<1>6. ASSUME NEW r \in Regions, NEW i \in Slots, e[r].pt[i] \in n..(top - 1)
      PROVE  m2[e[r].pt[i]] = m[d[r].pt[i]] /\ m2[e[r].pt[i]] \in Int
  <2> DEFINE v == e[r].pt[i]
  <2>1. d[r].pt[i] # NoFrame
    BY <1>1, <1>4, <1>6 DEF ClonedTo
  <2>2. v \in 0..(end - 1) /\ Hit(v)
    BY <1>3, <1>6 DEF IsPage
  <2>3. m2[v] = m[d[Pick(v)[1]].pt[Pick(v)[2]]]
    BY <1>2, <2>2
  <2>4. Pick(v) = <<r, i>>
    BY <1>5, <1>6
  <2>5. m2[v] = m[d[r].pt[i]]
    BY <2>3, <2>4
  <2>6. m[d[r].pt[i]] \in Int
    BY <2>1 DEF PagesBelow
  <2> QED
    BY <2>5, <2>6
<1>7. ASSUME NEW f \in 0..(end - 1) PROVE m2[f] \in Int
  <2>1. CASE Hit(f)
    BY <1>6, <2>1 DEF IsPage
  <2>2. CASE ~Hit(f)
    BY <1>2, <2>2
  <2> QED
    BY <2>1, <2>2
<1>8. m2 \in [0..(end - 1) -> Int]
  BY <1>2, <1>7
<1>9. ASSUME NEW f \in 0..(n - 1) PROVE m2[f] = m[f]
  <2>1. ~Hit(f) /\ f \in 0..(end - 1)
    BY <1>3
  <2> QED
    BY <1>2, <2>1
<1>10. ASSUME NEW r \in Regions, NEW i \in Slots, d[r].pt[i] # NoFrame
       PROVE  m2[e[r].pt[i]] = m[d[r].pt[i]]
  <2>1. e[r].pt[i] \in n..(top - 1)
    BY <1>1, <1>10 DEF ClonedTo
  <2> QED
    BY <1>6, <2>1
<1> QED
  BY <1>8, <1>9, <1>10 DEF CopiesTo

LEMMA KeptGrow ==
    ASSUME NEW D, NEW L, NEW n \in Nat, NEW T, Kept(D, L, n, T), n >= FirstFree,
           NEW n2 \in Nat, n <= n2, NEW T2, T \subseteq T2, T2 \ T \subseteq n..(n2 - 1)
    PROVE  Kept(D, L, n2, T2)
<1>1. \A s \in L, r \in Regions, i \in Slots : D[s][r].pt[i] \in Int /\ D[s][r].pt[i] < n
  BY EntryBelow
<1>2. \A s, u \in L, r, q \in Regions, i, j \in Slots :
         D[s][r].pt[i] = D[u][q].pt[j] /\ D[s][r].pt[i] >= n => s = u /\ r = q /\ i = j
  BY <1>1
<1>3. \A s \in L : DirOK(D[s])
  BY DEF Kept
<1> QED
  BY <1>2, <1>3, KeptChange


-----------------------------------------------------------------------------
(***************************************************************************)
(* The steps of the system on the invariant, first the switch: whatever    *)
(* else it does to memory, the tables stay as they are.                    *)
(***************************************************************************)
LEMMA SwitchFrames ==
    ASSUME FramesInv, HomeInv, NEW n \in Tasks, NEW s, NEW rsp, SwitchTo(n, s, rsp),
           UNCHANGED <<dir, free, tables, last, pml4>>, mem' \in [0..(last - 1) -> Int]
    PROVE  FramesInv'
<1>1. n # current /\ state[n] = "ready" /\ cr3' = SpaceFor(n)
  BY DEF SwitchTo
<1>2. Live' = Live
  BY DEF Live
<1>3. cr3' \in Tasks /\ LowHalf(cr3') \in Live
  <2>1. CASE pml4[n] = 0
    BY <1>1, <2>1 DEF SpaceFor, FramesInv
  <2>2. CASE pml4[n] # 0
    <3>1. n # 0 /\ Born(n)
      BY <1>1, <2>2 DEF HomeInv, Born
    <3>2. pml4[n] = n
      BY <2>2, <3>1 DEF HomeInv, Owner, Spawned
    <3> QED
      BY <1>1, <2>2, <3>1, <3>2 DEF SpaceFor, LowHalf, Live
  <2> QED
    BY <2>1, <2>2
<1> QED
  BY <1>2, <1>3 DEF FramesInv, LowHalf

LEMMA SwitchSpaces ==
    ASSUME StackInv, FramesInv, HomeInv, PagesInv, Trusted, ~halted,
           NEW n \in Tasks, NEW s \in {"ready", "dead"}, NEW rsp, SwitchTo(n, s, rsp),
           mode'[0] = "wait",
           UNCHANGED <<dir, free, tables, mem, last, pml4, view, home, ctx, spawn_used, forked,
                       starved, halted>>
    PROVE  SpaceInv'
<1>1. /\ n # current /\ state[n] = "ready" /\ current' = n /\ cr3' = SpaceFor(n)
      /\ state' = [state EXCEPT ![current] = s, ![n] = "running"]
      /\ ~stray' => (n # 0 => LowHalf(SpaceFor(n)) = home[n])
  BY DEF SwitchTo
<1>2. \A t \in Tasks : Born(t)' <=> Born(t)
  BY <1>1 DEF Born, StackInv, StackType
<1>3. Live' = Live
  BY DEF Live
<1>4. FramesInv'
  <2>1. mem' \in [0..(last - 1) -> Int]
    BY DEF FramesInv
  <2> QED
    BY <2>1, SwitchFrames
<1>5. \A t \in Tasks : (Owner(t)' <=> Owner(t)) /\ (Born(home[t])' <=> Born(home[t]))
  BY <1>2 DEF Owner, HomeInv
<1>6. \A t \in Tasks : Spawned(t) => Spawned(t)'
  BY <1>3, <1>5 DEF Spawned
<1>7. ~stray' => HomeInv'
  <2>1. ~stray' => (current' # 0 => LowHalf(cr3)' = home'[current'])
    BY <1>1 DEF LowHalf
  <2> QED
    BY <1>2, <1>5, <1>6, <2>1 DEF HomeInv
<1>8. PagesInv'
  BY <1>2 DEF PagesInv, HasPages
<1> QED
  BY <1>4, <1>7, <1>8 DEF SpaceInv, Trusted

(***************************************************************************)
(* A tick at the edge that loads another space writes somewhere there.     *)
(***************************************************************************)
LEMMA EdgeSpaces ==
    ASSUME StackInv, FramesInv, HomeInv, Trusted, NEW n \in Tasks, PreemptAtEdge(n)
    PROVE  SpaceInv'
<1>1. /\ SwitchTo(n, "ready", saved_user_rsp) /\ LeavesStack(n)
      /\ UNCHANGED <<dir, free, tables, last, pml4>>
  BY DEF PreemptAtEdge, taskvars
<1>2. PICK G : mem' = Filled(mem, G, current)
  BY DEF PreemptAtEdge
<1>3. current \in Int /\ mem \in [0..(last - 1) -> Int]
  BY DEF StackInv, StackType, Tasks, FramesInv
<1>4. mem' \in [0..(last - 1) -> Int]
  <2>1. Fills(mem', mem, G, current, last)
    BY <1>2, <1>3, FilledPages, Zenon
  <2> QED
    BY <2>1 DEF Fills
<1>5. FramesInv'
  BY <1>1, <1>4, SwitchFrames
<1>6. broken'
  BY <1>1, Zenon DEF SwitchTo
<1> QED
  BY <1>5, <1>6 DEF SpaceInv, Trusted

LEMMA QuietSpaces ==
    ASSUME StackInv, FramesInv, HomeInv, PagesInv, Trusted, ~halted, mode'[0] = "wait",
           UNCHANGED <<dir, free, tables, mem, last, cr3, current, state, pml4, view, home, ctx,
                       forked, stray, broken, starved, halted>>,
           spawn_used' \in BOOLEAN, spawn_used => spawn_used'
    PROVE  SpaceInv'
<1>1. Live' = Live /\ \A t \in Tasks : (Born(t)' <=> Born(t)) /\ (Born(home[t])' <=> Born(home[t]))
  BY DEF Live, Born
<1>2. FramesInv'
  BY <1>1 DEF FramesInv, LowHalf
<1>3. \A t \in Tasks : (Owner(t)' <=> Owner(t)) /\ (Spawned(t) => Spawned(t)')
  BY <1>1 DEF Owner, Spawned
<1>4. HomeInv'
  BY <1>1, <1>3 DEF HomeInv, LowHalf
<1>5. PagesInv'
  BY <1>1 DEF PagesInv, HasPages
<1> QED
  BY <1>2, <1>4, <1>5 DEF SpaceInv, Trusted

LEMMA FailSpaces ==
    ASSUME StackInv, FramesInv, HomeInv, PagesInv, Trusted, ~halted, CallFails
    PROVE  SpaceInv'
<1>1. UNCHANGED <<dir, free, tables, mem, last, cr3, current, state, pml4, view, home, ctx, mode,
                  forked, stray, broken, starved, halted, spawn_used>>
  BY DEF CallFails, memvars, taskvars
<1>2. mode'[0] = "wait" /\ spawn_used' \in BOOLEAN /\ (spawn_used => spawn_used')
  BY <1>1 DEF HomeInv
<1> QED
  BY <1>1, <1>2, QuietSpaces

(***************************************************************************)
(* Two tasks in one space keep to different regions.                       *)
(***************************************************************************)
LEMMA Neighbours ==
    ASSUME HomeInv, NEW t \in Tasks, NEW u \in Tasks, t # u, Born(t), Born(u), home[t] = home[u]
    PROVE  {ctx[t].rip, ctx[t].rsp} \cap {ctx[u].rip, ctx[u].rsp} = {}
<1>1. ASSUME NEW a \in Tasks, NEW b \in Tasks, Owner(a), Spawned(b), home[a] = home[b]
      PROVE  {ctx[a].rip, ctx[a].rsp} \cap {ctx[b].rip, ctx[b].rsp} = {}
  <2>1. ctx[b] = [rip |-> "prog", rsp |-> "cstack"] /\ ctx[a] = [rip |-> "init", rsp |-> "ustack"]
    BY <1>1 DEF Owner, Spawned
  <2> QED
    BY <2>1
<1>2. (Owner(t) \/ Spawned(t)) /\ (Owner(u) \/ Spawned(u))
  BY DEF HomeInv
<1>3. ~(Owner(t) /\ Owner(u))
  BY DEF Owner
<1>4. ~(Spawned(t) /\ Spawned(u))
  BY DEF HomeInv, Spawned
<1>5. CASE Owner(t) /\ Spawned(u)
  BY <1>1, <1>5
<1>6. CASE Owner(u) /\ Spawned(t)
  BY <1>1, <1>6
<1> QED
  BY <1>2, <1>3, <1>4, <1>5, <1>6

(***************************************************************************)
(* The pages of a born task: in a live space and in frames below free.     *)
(***************************************************************************)
InFrames(d, m, r, v, n) ==
    /\ d[r].kind = "table"
    /\ \A i \in PagesOf(r) : d[r].pt[i] >= FirstFree /\ d[r].pt[i] \in 0..(n - 1) /\ m[d[r].pt[i]] = v

LEMMA BornPages ==
    ASSUME FramesInv, HomeInv, PagesInv, NEW t \in Tasks, Born(t), NEW r \in {ctx[t].rip, ctx[t].rsp}
    PROVE  r \in Regions /\ home[t] \in Live /\ InFrames(dir[home[t]], mem, r, view[t][r], free)
<1>1. HasPages(dir[home[t]], mem, r, view[t][r])
  BY DEF PagesInv
<1>2. r \in Regions /\ home[t] \in Live
  BY DEF HomeInv, Regions, Spawned, Owner, Live, Born
<1>3. free \in Nat /\ free >= FirstFree /\ FirstFree \in Nat /\ Kept(dir, Live, free, tables)
  BY Layout DEF FramesInv
<1>4. ASSUME NEW i \in PagesOf(r) PROVE dir[home[t]][r].pt[i] \in 0..(free - 1)
  <2>1. i \in Slots
    BY <1>2, Layout
  <2>2. dir[home[t]][r].pt[i] \in Int /\ dir[home[t]][r].pt[i] < free
    BY <1>2, <1>3, <2>1, EntryBelow
  <2>3. dir[home[t]][r].pt[i] >= FirstFree
    BY <1>1 DEF HasPages
  <2> QED
    BY <1>3, <2>2, <2>3
<1> QED
  BY <1>1, <1>2, <1>4 DEF HasPages, InFrames

(***************************************************************************)
(* Pages that no step has touched are still there.                         *)
(***************************************************************************)
SamePages(e, m2, d, m, r, n) == e[r] = d[r] /\ \A f \in 0..(n - 1) : m2[f] = m[f]

LEMMA KeptPages ==
    ASSUME NEW d, NEW m, NEW r, NEW v, NEW n, InFrames(d, m, r, v, n),
           NEW e, NEW m2, SamePages(e, m2, d, m, r, n)
    PROVE  HasPages(e, m2, r, v)
<1> SUFFICES ASSUME NEW i \in PagesOf(r)
             PROVE  e[r].pt[i] >= FirstFree /\ m2[e[r].pt[i]] = v
  BY DEF InFrames, HasPages, SamePages
<1>1. d[r].pt[i] >= FirstFree /\ d[r].pt[i] \in 0..(n - 1) /\ m[d[r].pt[i]] = v
  BY DEF InFrames
<1> QED
  BY <1>1 DEF SamePages

(***************************************************************************)
(* A program that writes finds its pages, and they are no other program's. *)
(***************************************************************************)
LEMMA WriteSpaces ==
    ASSUME StackInv, FramesInv, HomeInv, PagesInv, Trusted, ~halted, UserWrite
    PROVE  SpaceInv'
<1> DEFINE written == {ctx[current].rip, ctx[current].rsp}
           here == dir[home[current]]
<1>1. PICK G : G = UserFrames(Dir, written)
  OBVIOUS
<1>2. /\ mode[current] \in {"user", "read"}
      /\ halted' = (NoFrame \in G)
      /\ mem' = Filled(mem, G, current)
      /\ view' = [view EXCEPT ![current] = [r \in Regions |-> IF r \in written THEN current ELSE view[current][r]]]
      /\ UNCHANGED <<dir, free, tables, last, cr3, current, state, pml4, home, mode, ctx, spawn_used,
                     forked, stray, broken, starved>>
  BY <1>1 DEF UserWrite
<1>3. current \in Tasks /\ current # 0 /\ Born(current) /\ current \in Int
  BY <1>2 DEF HomeInv, StackInv, StackType, Born, Tasks
<1>4. Dir = here /\ home[current] \in Live
  BY <1>3 DEF HomeInv, Dir, FramesInv
<1>5. \A r \in written : r \in Regions /\ InFrames(here, mem, r, view[current][r], free)
  BY <1>3, BornPages
<1>6. \A r \in written : \A i \in PagesOf(r) : UserFrame(Dir, r, i) = here[r].pt[i]
  BY <1>4, <1>5 DEF InFrames, UserFrame
<1> HIDE DEF written, here
<1>7. /\ \A r \in written : \A i \in PagesOf(r) : here[r].pt[i] \in G
      /\ \A f \in G : \E r \in written : \E i \in PagesOf(r) : f = here[r].pt[i]
  BY <1>1, <1>6 DEF UserFrames
<1>8. NoFrame \notin G
  <2> SUFFICES ASSUME NEW r \in written, NEW i \in PagesOf(r), NoFrame = here[r].pt[i] PROVE FALSE
    BY <1>7
  <2>1. here[r].pt[i] >= FirstFree
    BY <1>5 DEF InFrames
  <2> QED
    BY <2>1, Layout
<1>9. ~halted'
  BY <1>2, <1>8
<1>10. Live' = Live /\ \A t \in Tasks : Born(t)' <=> Born(t)
  BY <1>2 DEF Live, Born
<1>11. Fills(mem', mem, G, current, last)
  <2>1. mem \in [0..(last - 1) -> Int]
    BY DEF FramesInv
  <2> QED
    BY <1>2, <1>3, <2>1, FilledPages, Zenon
<1>12. mem' \in [0..(last - 1) -> Int] /\ \A f \in 0..(last - 1) : mem'[f] = IF f \in G THEN current ELSE mem[f]
  BY <1>11 DEF Fills
<1>13. FramesInv'
  BY <1>2, <1>10, <1>12 DEF FramesInv, LowHalf
<1>14. HomeInv'
  <2>1. \A t \in Tasks : Born(home[t])' <=> Born(home[t])
    BY <1>2 DEF Born
  <2>2. \A t \in Tasks : (Owner(t)' <=> Owner(t)) /\ (Spawned(t) => Spawned(t)')
    BY <1>2, <1>10, <2>1 DEF Owner, Spawned
  <2> QED
    BY <1>2, <1>10, <2>2 DEF HomeInv, LowHalf
<1>15. view' \in [Tasks -> [Regions -> Int]]
  <2> DEFINE w == [r \in Regions |-> IF r \in written THEN current ELSE view[current][r]]
  <2>1. w \in [Regions -> Int]
    BY <1>3 DEF PagesInv
  <2> HIDE DEF w
  <2>2. view' = [view EXCEPT ![current] = w]
    BY <1>2 DEF w
  <2> QED
    BY <2>1, <2>2 DEF PagesInv
<1>16. free \in Nat /\ last \in Nat /\ free <= last /\ FirstFree \in Nat
  BY Layout DEF FramesInv
<1>17. ASSUME NEW t \in Tasks, Born(t), NEW r \in {ctx[t].rip, ctx[t].rsp}
       PROVE  HasPages(dir[home[t]], mem', r, view'[t][r])
  <2>1. r \in Regions /\ home[t] \in Live /\ InFrames(dir[home[t]], mem, r, view[t][r], free)
    BY <1>17, BornPages
  <2>2. ASSUME NEW i \in PagesOf(r)
        PROVE  /\ dir[home[t]][r].pt[i] >= FirstFree /\ dir[home[t]][r].pt[i] \in 0..(last - 1)
               /\ mem[dir[home[t]][r].pt[i]] = view[t][r] /\ i \in Slots
    <3>1. dir[home[t]][r].pt[i] >= FirstFree /\ dir[home[t]][r].pt[i] \in 0..(free - 1)
      BY <2>1 DEF InFrames
    <3> QED
      BY <1>16, <2>1, <3>1, Layout DEF InFrames
  <2>3. CASE t = current
    <3>1. r \in written /\ here = dir[home[t]]
      BY <1>17, <2>3 DEF written, here
    <3>2. view'[t][r] = current
      BY <1>2, <1>3, <2>1, <2>3, <3>1 DEF PagesInv
    <3>3. \A i \in PagesOf(r) : mem'[dir[home[t]][r].pt[i]] = current
      BY <1>7, <1>12, <2>2, <3>1
    <3> QED
      BY <2>1, <2>2, <3>2, <3>3 DEF HasPages, InFrames
  <2>4. CASE t # current
    <3>1. ASSUME NEW i \in PagesOf(r) PROVE dir[home[t]][r].pt[i] \notin G
      <4> SUFFICES ASSUME NEW q \in written, NEW j \in PagesOf(q), dir[home[t]][r].pt[i] = here[q].pt[j] PROVE FALSE
        BY <1>7
      <4>1. q \in Regions /\ j \in Slots
        BY <1>5, Layout
      <4>2. dir[home[t]][r].pt[i] = dir[home[current]][q].pt[j] /\ dir[home[t]][r].pt[i] >= FirstFree /\ i \in Slots
        BY <2>2 DEF here
      <4>3. \A a, b \in Live, k, l \in Regions, g, h \in Slots :
               dir[a][k].pt[g] = dir[b][l].pt[h] /\ dir[a][k].pt[g] >= FirstFree => a = b /\ k = l /\ g = h
        BY Zenon DEF FramesInv, Kept
      <4>4. home[t] = home[current] /\ r = q
        BY <1>4, <2>1, <4>1, <4>2, <4>3
      <4> QED
        BY <1>3, <1>17, <2>4, <4>4, Neighbours DEF written
    <3>2. \A i \in PagesOf(r) : mem'[dir[home[t]][r].pt[i]] = mem[dir[home[t]][r].pt[i]]
      BY <1>12, <2>2, <3>1
    <3>3. view'[t] = view[t]
      BY <1>2, <2>4 DEF PagesInv
    <3> QED
      BY <2>1, <2>2, <3>2, <3>3 DEF HasPages, InFrames
  <2> QED
    BY <2>3, <2>4
<1>18. PagesInv'
  BY <1>2, <1>10, <1>15, <1>17 DEF PagesInv
<1> QED
  BY <1>9, <1>13, <1>14, <1>18 DEF SpaceInv

(***************************************************************************)
(* What the loading half of exec and spawn does to the spaces: nothing but *)
(* in regions R of the space s in use.                                     *)
(***************************************************************************)
Installed(s, R) ==
    /\ \A u \in Live : u # s => dir'[u] = dir[u]
    /\ \A r \in Regions \ R : dir'[s][r] = dir[s][r]
    /\ \A f \in 0..(free - 1) : mem'[f] = mem[f]

LEMMA HereReady ==
    ASSUME FramesInv
    PROVE  /\ Ready(Here, last) /\ InUse(Here, dir, Live, LowHalf(cr3))
           /\ Here.d = dir[LowHalf(cr3)] /\ Here.m = mem /\ Here.tables = tables /\ Here.next = free
<1>1. Here.d = dir[LowHalf(cr3)] /\ Here.m = mem /\ Here.tables = tables /\ Here.next = free
  BY DEF Here, Dir, Memory
<1>2. /\ last \in Nat /\ free \in Nat /\ free >= FirstFree /\ free <= last /\ FirstFree \in Nat
      /\ Kept(dir, Live, free, tables) /\ LowHalf(cr3) \in Live /\ mem \in [0..(last - 1) -> Int]
  BY Layout DEF FramesInv
<1>3. DirOK(dir[LowHalf(cr3)])
  BY <1>2 DEF Kept
<1>4. \A f \in tables : f \in Int /\ f < free
  BY <1>2 DEF Kept
<1>5. \A r \in Regions, i \in Slots :
         dir[LowHalf(cr3)][r].pt[i] \in Int /\ dir[LowHalf(cr3)][r].pt[i] < free
  BY <1>2, EntryBelow
<1>6. Ready(Here, last)
  BY <1>1, <1>2, <1>3, <1>4, <1>5 DEF Ready
<1>7. InUse(Here, dir, Live, LowHalf(cr3))
  BY <1>1, <1>2 DEF InUse
<1> QED
  BY <1>1, <1>6, <1>7

LEMMA BecomesFrames ==
    ASSUME FramesInv, NEW y, NEW R, Grown(y, Here, R, last), Becomes(y), UNCHANGED <<last, cr3, pml4>>
    PROVE  /\ FramesInv' /\ Installed(LowHalf(cr3), R)
           /\ dir'[LowHalf(cr3)] = y.d /\ mem' = y.m
<1> DEFINE s == LowHalf(cr3)
<1>1. /\ dir' = [dir EXCEPT ![s] = y.d] /\ mem' = y.m /\ tables' = y.tables /\ free' = y.next
  BY DEF Becomes
<1>2. s \in Live /\ Live \subseteq Spaces /\ dir \in [Spaces -> [Regions -> Region]]
  BY DEF FramesInv, Live, Spaces
<1>3. DirOK(y.d)
  BY DEF Grown
<1> HIDE DEF s
<1>4. dir'[s] = y.d /\ \A u \in Live : u # s => dir'[u] = dir[u]
  BY <1>1, <1>2
<1>5. PICK D : D = dir'
  OBVIOUS
<1>6. Replaces(D, dir, Live, s, y.d)
  BY <1>4, <1>5 DEF Replaces
<1>7. Kept(D, Live, y.next, y.tables)
  BY <1>6, HereReady, GrownKept DEF s
<1>8. Live' = Live /\ LowHalf(cr3)' = s
  BY DEF Live, LowHalf, s
<1>9. /\ y.next \in Nat /\ free <= y.next /\ y.next <= last /\ y.m \in [0..(last - 1) -> Int]
      /\ \A f \in 0..(free - 1) : y.m[f] = mem[f]
  BY HereReady DEF Grown, Extends
<1>10. dir' \in [Spaces -> [Regions -> Region]]
  BY <1>1, <1>2, <1>3 DEF DirOK
<1>11. free' \in FirstFree..last
  BY <1>1, <1>9, Layout DEF FramesInv
<1>12. FramesInv'
  <2>1. Kept(dir', Live', free', tables')
    BY <1>1, <1>5, <1>7, <1>8
  <2>2. cr3' \in Tasks /\ LowHalf(cr3)' \in Live' /\ last' \in Nat
    BY <1>2, <1>8 DEF FramesInv
  <2> QED
    BY <1>1, <1>9, <1>10, <1>11, <2>1, <2>2 DEF FramesInv
<1>13. \A r \in Regions \ R : y.d[r] = dir[s][r]
  BY HereReady DEF Grown, s
<1>14. Installed(s, R)
  BY <1>1, <1>4, <1>9, <1>13 DEF Installed
<1> QED
  BY <1>1, <1>4, <1>12, <1>14 DEF s

LEMMA HoldsPages ==
    ASSUME FramesInv, NEW y, NEW r, NEW v, Holds(y, Here, r, v), Ready(y, last), r \in Regions
    PROVE  HasPages(y.d, y.m, r, v)
<1> SUFFICES ASSUME NEW i \in PagesOf(r) PROVE y.d[r].pt[i] >= FirstFree
  BY DEF Holds, HasPages
<1>1. i \in Slots
  BY Layout
<1>2. PICK w \in Int : w = y.d[r].pt[i]
  BY <1>1 DEF Ready
<1>3. w >= free
  BY <1>2, HereReady DEF Holds
<1>4. free \in Nat /\ free >= FirstFree /\ FirstFree \in Nat
  BY Layout DEF FramesInv
<1>5. w >= FirstFree
  BY <1>2, <1>3, <1>4
<1> QED
  BY <1>2, <1>5

LEMMA InstallFrames ==
    ASSUME FramesInv, NEW p \in Programs, NEW room, Install(p, room), ~starved',
           UNCHANGED <<last, cr3, pml4>>
    PROVE  /\ FramesInv' /\ Installed(LowHalf(cr3), {p, "cstack"})
           /\ HasPages(dir'[LowHalf(cr3)], mem', p, Elf)
           /\ HasPages(dir'[LowHalf(cr3)], mem', "cstack", Zero)
<1>1. PICK y : y = SetupStack(LoadElf(Here, p, last), "cstack", last)
  OBVIOUS
<1>2. Loads(Here, p, last) /\ Becomes(y)
  BY <1>1 DEF Install
<1>3. y.sound
  BY <1>1, Zenon DEF Install
<1>4. /\ "cstack" \in Stacks /\ "cstack" \in Regions /\ p \in Regions
  BY DEF Stacks, Regions
<1>5. Ready(Here, last)
  BY HereReady
<1>6. Grown(y, Here, {p, "cstack"}, last) /\ Holds(y, Here, p, Elf) /\ Holds(y, Here, "cstack", Zero)
  BY <1>1, <1>2, <1>3, <1>4, <1>5, InstallGrown
<1>7. Ready(y, last)
  BY <1>5, <1>6, GrownReady
<1>8. HasPages(y.d, y.m, p, Elf) /\ HasPages(y.d, y.m, "cstack", Zero)
  BY <1>4, <1>6, <1>7, HoldsPages
<1>9. /\ FramesInv' /\ Installed(LowHalf(cr3), {p, "cstack"})
      /\ dir'[LowHalf(cr3)] = y.d /\ mem' = y.m
  BY <1>2, <1>6, BecomesFrames
<1> QED
  BY <1>8, <1>9

LEMMA FailedFrames ==
    ASSUME FramesInv, NEW p \in Programs, InstallFails(p), UNCHANGED <<last, cr3, pml4>>
    PROVE  FramesInv' /\ Installed(LowHalf(cr3), {p})
<1>1. PICK y : y = LoadElf(Here, p, last)
  OBVIOUS
<1>2. ~Loads(Here, p, last) /\ Becomes(y)
  BY <1>1 DEF InstallFails
<1>3. Grown(y, Here, {p}, last)
  BY <1>1, <1>2, HereReady, LoadGrown
<1> QED
  BY <1>2, <1>3, BecomesFrames

(***************************************************************************)
(* A load that has failed: only its own region can have changed, and the   *)
(* tasks that run from it, if it changed, are broken.                      *)
(***************************************************************************)
LEMMA FailedSpaces ==
    ASSUME StackInv, FramesInv, HomeInv, PagesInv, Trusted, ~halted, NEW p \in Programs, InstallFails(p),
           UNCHANGED <<last, cr3, current, state, pml4, view, home, ctx, mode, forked, stray, starved, halted>>,
           spawn_used' \in BOOLEAN, spawn_used => spawn_used',
           \A t \in Tasks : Born(t) /\ home[t] = LowHalf(cr3) /\ ctx[t].rip = p => broken' \/ dir' = dir
    PROVE  SpaceInv'
<1> DEFINE s == LowHalf(cr3)
<1>1. FramesInv' /\ Installed(s, {p})
  BY FailedFrames
<1>2. Live' = Live /\ \A t \in Tasks : (Born(t)' <=> Born(t)) /\ (Born(home[t])' <=> Born(home[t]))
  BY DEF Live, Born
<1>3. \A t \in Tasks : (Owner(t)' <=> Owner(t)) /\ (Spawned(t) => Spawned(t)')
  BY <1>2 DEF Owner, Spawned
<1>4. HomeInv'
  BY <1>2, <1>3 DEF HomeInv, LowHalf
<1> HIDE DEF s
<1>5. ASSUME ~broken', NEW t \in Tasks, Born(t), NEW r \in {ctx[t].rip, ctx[t].rsp}
      PROVE  HasPages(dir'[home[t]], mem', r, view[t][r])
  <2>1. r \in Regions /\ home[t] \in Live /\ InFrames(dir[home[t]], mem, r, view[t][r], free)
    BY <1>5, BornPages
  <2>2. dir'[home[t]][r] = dir[home[t]][r]
    <3>1. CASE home[t] # s
      BY <1>1, <2>1, <3>1 DEF Installed
    <3>2. CASE home[t] = s /\ r # p
      BY <1>1, <2>1, <3>2 DEF Installed
    <3>3. CASE home[t] = s /\ r = p
      <4>1. ctx[t].rsp \in Stacks /\ p \notin Stacks
        BY <1>5 DEF HomeInv, Programs, Stacks
      <4>2. ctx[t].rip = p
        BY <3>3, <4>1
      <4>3. dir' = dir
        BY <1>5, <3>3, <4>2 DEF s
      <4> QED
        BY <4>3
    <3> QED
      BY <3>1, <3>2, <3>3
  <2>3. \A f \in 0..(free - 1) : mem'[f] = mem[f]
    BY <1>1 DEF Installed
  <2>4. SamePages(dir'[home[t]], mem', dir[home[t]], mem, r, free)
    BY <2>2, <2>3 DEF SamePages
  <2> QED
    BY <2>1, <2>4, KeptPages, Zenon
<1>6. ~broken' => PagesInv'
  BY <1>2, <1>5 DEF PagesInv
<1> QED
  BY <1>1, <1>4, <1>6 DEF SpaceInv, Trusted

(***************************************************************************)
(* exec is called by a task alone in its space: a forked task has spawned  *)
(* nothing yet, and one that runs "prog" was not there to spawn.           *)
(***************************************************************************)
LEMMA ExecAlone ==
    ASSUME StackInv, HomeInv, current \in Tasks, current # 0, Born(current),
           NEW p \in Programs, CallsExec(current, p)
    PROVE  /\ Owner(current) /\ LowHalf(cr3) = current
           /\ \A t \in Tasks : Born(t) /\ home[t] = current => t = current
<1>1. Owner(current) /\ LowHalf(cr3) = current
  BY DEF HomeInv, CallsExec, Spawned, Owner
<1>2. ASSUME NEW t \in Tasks, Born(t), t # current, home[t] = current PROVE FALSE
  <2>1. Spawned(t)
    BY <1>2 DEF HomeInv, Owner
  <2>2. ctx[current].rip = "init" /\ current \notin forked
    BY <1>2, <2>1 DEF Spawned
  <2> QED
    BY <2>2 DEF CallsExec
<1> QED
  BY <1>1, <1>2

LEMMA ExecSpaces ==
    ASSUME StackInv, FramesInv, HomeInv, PagesInv, Trusted, ~halted, NEW p \in Programs, Exec(p)
    PROVE  SpaceInv'
<1>1. mode[current] = "user" /\ CallsExec(current, p)
  BY DEF Exec
<1>2. current \in Tasks /\ current # 0 /\ Born(current)
  BY <1>1 DEF HomeInv, StackInv, StackType, Born, Tasks
<1>3. CASE /\ InstallFails(p)
           /\ broken' = (broken \/ (p = ctx[current].rip /\ dir' # dir))
           /\ UNCHANGED <<last, cr3, current, state, taskvars, mode, ctx, spawn_used, forked, stray,
                          starved, halted>>
  <2>1. UNCHANGED <<last, cr3, current, state, pml4, view, home, ctx, mode, spawn_used, forked, stray,
                    starved, halted>>
    BY <1>3 DEF taskvars
  <2>2. spawn_used' \in BOOLEAN /\ (spawn_used => spawn_used')
    BY <2>1 DEF HomeInv
  <2>3. ASSUME NEW t \in Tasks, Born(t), home[t] = LowHalf(cr3), ctx[t].rip = p
        PROVE  broken' \/ dir' = dir
    <3>1. t = current
      BY <1>1, <1>2, <2>3, ExecAlone
    <3> QED
      BY <1>3, <2>3, <3>1, Zenon
  <2> QED
    BY <1>3, <2>1, <2>2, <2>3, FailedSpaces
<1>4. CASE /\ Install(p, TRUE)
           /\ ctx' = [ctx EXCEPT ![current] = [rip |-> p, rsp |-> "cstack"]]
           /\ view' = Loaded(current, p)
           /\ forked' = forked \ {current}
           /\ UNCHANGED <<last, cr3, current, state, pml4, home, mode, spawn_used, stray, broken, halted>>
  <2> DEFINE s == LowHalf(cr3)
  <2> SUFFICES ASSUME ~starved' PROVE SpaceInv'
    BY DEF SpaceInv, Trusted
  <2>1. /\ FramesInv' /\ Installed(s, {p, "cstack"})
        /\ HasPages(dir'[s], mem', p, Elf) /\ HasPages(dir'[s], mem', "cstack", Zero)
    BY <1>4, InstallFrames
  <2>3. Owner(current) /\ s = current /\ \A t \in Tasks : Born(t) /\ home[t] = current => t = current
    BY <1>1, <1>2, ExecAlone
  <2>4. \A t \in Tasks : Born(t) /\ t # current => home[t] # current
    BY <2>3
  <2>5. Live' = Live /\ \A t \in Tasks : Born(t)' <=> Born(t)
    BY <1>4 DEF Live, Born
  <2>6. HomeInv'
    <3>1. \A t \in Tasks : Born(home[t])' <=> Born(home[t])
      BY <1>4 DEF Born
    <3>2. \A t \in Tasks : Owner(t)' <=> Owner(t)
      BY <1>4 DEF Owner
    <3>3. ASSUME NEW t \in Tasks, Born(t), Spawned(t), t # current PROVE Spawned(t)'
      <4>1. ctx'[t] = ctx[t] /\ ctx'[home[t]] = ctx[home[t]]
        BY <1>4, <2>4, <3>3 DEF StackInv, StackType, HomeInv
      <4> QED
        BY <1>4, <2>5, <3>1, <3>3, <4>1 DEF Spawned
    <3>4. ASSUME NEW t \in Tasks, Born(t)
          PROVE  /\ Owner(t)' \/ Spawned(t)'
                 /\ ctx'[t].rip \in Programs /\ ctx'[t].rsp \in Stacks
      <4>1. CASE t = current
        BY <1>4, <2>3, <3>2, <4>1 DEF StackInv, StackType, Stacks
      <4>2. CASE t # current
        <5>1. ctx'[t] = ctx[t]
          BY <1>4, <4>2 DEF StackInv, StackType
        <5> QED
          BY <3>2, <3>3, <3>4, <4>2, <5>1 DEF HomeInv
      <4> QED
        BY <4>1, <4>2
    <3> QED
      BY <1>4, <2>5, <3>4 DEF HomeInv, LowHalf
  <2>7. view' \in [Tasks -> [Regions -> Int]]
        /\ view'[current][p] = Elf /\ view'[current]["cstack"] = Zero
        /\ \A t \in Tasks : t # current => view'[t] = view[t]
    <3>1. p \in Regions /\ "cstack" \in Regions /\ p # "cstack" /\ Elf \in Int /\ Zero \in Int
      BY DEF Regions, Programs, Stacks, Elf, Zero
    <3> QED
      BY <1>2, <1>4, <3>1 DEF Loaded, PagesInv
  <2>8. ASSUME NEW t \in Tasks, Born(t), NEW r \in {ctx'[t].rip, ctx'[t].rsp}
        PROVE  HasPages(dir'[home[t]], mem', r, view'[t][r])
    <3>1. CASE t = current
      <4>1. home[t] = s /\ r \in {p, "cstack"}
        BY <1>4, <2>3, <2>8, <3>1 DEF StackInv, StackType, Owner
      <4> QED
        BY <2>1, <2>7, <3>1, <4>1
    <3>2. CASE t # current
      <4>1. ctx'[t] = ctx[t]
        BY <1>4, <3>2 DEF StackInv, StackType
      <4>2. home[t] \in Live /\ InFrames(dir[home[t]], mem, r, view[t][r], free)
        BY <2>8, <4>1, BornPages
      <4>3. dir'[home[t]] = dir[home[t]] /\ \A f \in 0..(free - 1) : mem'[f] = mem[f]
        BY <2>1, <2>3, <2>4, <2>8, <3>2, <4>2 DEF Installed
      <4>4. SamePages(dir'[home[t]], mem', dir[home[t]], mem, r, free)
        BY <4>3 DEF SamePages
      <4>5. HasPages(dir'[home[t]], mem', r, view[t][r])
        BY <4>2, <4>4, KeptPages, Zenon
      <4> QED
        BY <2>7, <3>2, <4>5
    <3> QED
      BY <3>1, <3>2
  <2>9. PagesInv'
    BY <1>4, <2>5, <2>7, <2>8 DEF PagesInv
  <2> QED
    BY <1>4, <2>1, <2>6, <2>9 DEF SpaceInv
<1> QED
  BY <1>3, <1>4, Zenon DEF Exec

(***************************************************************************)
(* The one spawned task moves in beside a parent that runs "init" on its   *)
(* first stack.                                                            *)
(***************************************************************************)
LEMMA SpawnSpaces ==
    ASSUME StackInv, FramesInv, HomeInv, PagesInv, Trusted, ~halted, Spawn
    PROVE  SpaceInv'
<1>1. mode[current] = "user" /\ ctx[current].rip = "init" /\ Fresh # {}
  BY DEF Spawn, Syscall
<1>2. current \in Tasks /\ current # 0 /\ Born(current)
  BY <1>1 DEF HomeInv, StackInv, StackType, Born, Tasks
<1>3. CASE CallFails
  BY <1>3, FailSpaces
<1>4. CASE /\ ~spawn_used /\ spawn_used' = TRUE
           /\ InstallFails("prog")
           /\ UNCHANGED <<last, cr3, current, state, taskvars, mode, ctx, forked, stray, broken,
                          starved, halted>>
  <2>1. UNCHANGED <<last, cr3, current, state, pml4, view, home, ctx, mode, forked, stray, starved, halted>>
    BY <1>4 DEF taskvars
  <2>2. spawn_used' \in BOOLEAN /\ (spawn_used => spawn_used') /\ "prog" \in Programs
    BY <1>4 DEF Programs
  <2>3. ASSUME NEW t \in Tasks, Born(t), home[t] = LowHalf(cr3), ctx[t].rip = "prog" PROVE FALSE
    <3>1. Owner(t) /\ Owner(current) /\ home[current] = LowHalf(cr3)
      BY <1>2, <1>4, <2>3 DEF HomeInv, Spawned
    <3>2. t = current
      BY <2>3, <3>1 DEF Owner
    <3> QED
      BY <1>1, <2>3, <3>2
  <2> QED
    BY <1>4, <2>1, <2>2, <2>3, FailedSpaces
<1>5. CASE /\ ~spawn_used /\ spawn_used' = TRUE
           /\ Install("prog", heap >= 2)
           /\ state' = [state EXCEPT ![NextId] = "ready"]
           /\ ctx' = [ctx EXCEPT ![NextId] = [rip |-> "prog", rsp |-> "cstack"]]
           /\ view' = Loaded(NextId, "prog")
           /\ home' = [home EXCEPT ![NextId] = LowHalf(cr3)]
           /\ forked' = forked \ {current}
           /\ stray' = (stray \/ ctx[current].rsp = "cstack")
           /\ UNCHANGED <<last, cr3, current, pml4, mode, broken, halted>>
  <2> DEFINE s == LowHalf(cr3)
             w == [rip |-> "prog", rsp |-> "cstack"]
  <2> SUFFICES ASSUME ~starved' PROVE SpaceInv'
    BY DEF SpaceInv, Trusted
  <2>1. /\ FramesInv' /\ Installed(s, {"prog", "cstack"})
        /\ HasPages(dir'[s], mem', "prog", Elf) /\ HasPages(dir'[s], mem', "cstack", Zero)
    <3>1. "prog" \in Programs /\ UNCHANGED <<last, cr3, pml4>>
      BY <1>5 DEF Programs
    <3> QED
      BY <1>5, <3>1, InstallFrames
  <2>3. PICK c \in Tasks : c = NextId /\ state[c] = "none"
    BY <1>1, LowestFresh
  <2>4. /\ state' = [state EXCEPT ![c] = "ready"] /\ ctx' = [ctx EXCEPT ![c] = w]
        /\ view' = Loaded(c, "prog") /\ home' = [home EXCEPT ![c] = s]
    BY <1>5, <2>3
  <2> HIDE DEF w
  <2>5. ~Born(c) /\ c # 0 /\ c # current /\ c \notin forked /\ pml4[c] = 0
    BY <1>2, <2>3 DEF Born, StackInv, HomeInv
  <2>6. Owner(current) /\ s = current
    BY <1>1, <1>2 DEF HomeInv, Spawned, Owner
  <2>7. Live' = Live /\ s \in Live
    BY <1>5 DEF Live, FramesInv
  <2>8. \A t \in Tasks : Born(t)' <=> (Born(t) \/ t = c)
    BY <2>3, <2>4, <2>5 DEF Born, StackInv, StackType
  <2>9. \A t \in Tasks : Born(t) => Owner(t) /\ t # c /\ pml4[t] # 0
    BY <1>5, <2>5 DEF HomeInv, Spawned, Owner, Born
  <2>10. \A t \in Tasks : Born(t) => home'[t] = home[t] /\ ctx'[t] = ctx[t]
    BY <2>4, <2>9 DEF HomeInv, StackInv, StackType
  <2>11. home'[c] = current /\ ctx'[c] = w
    BY <2>3, <2>4, <2>6 DEF HomeInv, StackInv, StackType
  <2>12. ASSUME ~stray' PROVE HomeInv'
    <3>1. ctx[current].rsp = "ustack"
      BY <1>2, <1>5, <2>12 DEF HomeInv, Stacks
    <3>2. ctx'[current] = [rip |-> "init", rsp |-> "ustack"]
      BY <1>1, <1>2, <2>10, <3>1 DEF StackInv, StackType
    <3>3. Born(home[c])'
      BY <1>2, <2>4, <2>11 DEF Born, StackInv, StackType
    <3>4. Spawned(c)'
      BY <1>2, <1>5, <2>5, <2>6, <2>7, <2>11, <3>2, <3>3 DEF Spawned, w
    <3>5. ASSUME NEW t \in Tasks, Born(t)'
          PROVE  /\ Owner(t)' \/ Spawned(t)'
                 /\ ctx'[t].rip \in Programs /\ ctx'[t].rsp \in Stacks
      <4>1. CASE t = c
        BY <2>11, <3>4, <4>1 DEF Programs, Stacks, w
      <4>2. CASE Born(t)
        BY <1>5, <2>9, <2>10, <4>2 DEF HomeInv, Owner
      <4> QED
        BY <2>8, <3>5, <4>1, <4>2
    <3>6. home' \in [Tasks -> Tasks] /\ LowHalf(cr3)' = home'[current]
      <4>1. s \in Tasks /\ home'[current] = s /\ LowHalf(cr3)' = s
        BY <1>2, <1>5, <2>6, <2>10 DEF Owner, LowHalf
      <4> HIDE DEF s
      <4> QED
        BY <2>4, <4>1 DEF HomeInv
    <3>7. \A t \in Tasks : ~Born(t)' => (t # 0 => pml4'[t] = 0) /\ t \notin forked'
      BY <1>5, <2>8 DEF HomeInv
    <3>8. \A t, u \in Tasks : Born(t)' /\ Born(u)' /\ pml4'[t] = 0 /\ pml4'[u] = 0 => t = u
      BY <1>5, <2>8, <2>9
    <3> QED
      BY <1>5, <3>5, <3>6, <3>7, <3>8 DEF HomeInv
  <2>13. view' \in [Tasks -> [Regions -> Int]]
         /\ view'[c]["prog"] = Elf /\ view'[c]["cstack"] = Zero
         /\ \A t \in Tasks : t # c => view'[t] = view[t]
    <3>1. "prog" \in Regions /\ "cstack" \in Regions /\ Elf \in Int /\ Zero \in Int
      BY DEF Regions, Programs, Stacks, Elf, Zero
    <3> QED
      BY <2>3, <2>4, <3>1 DEF Loaded, PagesInv
  <2>14. ASSUME ~stray', NEW t \in Tasks, Born(t)', NEW r \in {ctx'[t].rip, ctx'[t].rsp}
         PROVE  HasPages(dir'[home'[t]], mem', r, view'[t][r])
    <3>1. CASE t = c
      <4>1. home'[t] = s /\ r \in {"prog", "cstack"}
        BY <2>6, <2>11, <2>14, <3>1 DEF w
      <4> QED
        BY <2>1, <2>13, <3>1, <4>1
    <3>2. CASE Born(t)
      <4>1. /\ home'[t] = home[t] /\ r \in {ctx[t].rip, ctx[t].rsp}
        BY <2>10, <2>14, <3>2
      <4>2. home[t] \in Live /\ r \in Regions /\ InFrames(dir[home[t]], mem, r, view[t][r], free)
        BY <3>2, <4>1, BornPages
      <4>3. dir'[home[t]][r] = dir[home[t]][r]
        <5>1. CASE t = current
          <6>1. ctx[current].rsp = "ustack"
            BY <1>2, <1>5, <2>14 DEF HomeInv, Stacks
          <6>2. home[t] = s /\ r \notin {"prog", "cstack"}
            BY <1>1, <2>6, <4>1, <5>1, <6>1 DEF Owner
          <6> QED
            BY <2>1, <4>2, <6>2 DEF Installed
        <5>2. CASE t # current
          <6>1. home[t] # s
            BY <2>6, <2>9, <3>2, <5>2 DEF Owner
          <6> QED
            BY <2>1, <4>2, <6>1 DEF Installed
        <5> QED
          BY <5>1, <5>2
      <4>4. \A f \in 0..(free - 1) : mem'[f] = mem[f]
        BY <2>1 DEF Installed
      <4>5. SamePages(dir'[home[t]], mem', dir[home[t]], mem, r, free)
        BY <4>3, <4>4 DEF SamePages
      <4>6. HasPages(dir'[home[t]], mem', r, view[t][r])
        BY <4>2, <4>5, KeptPages, Zenon
      <4>7. view'[t] = view[t]
        BY <2>9, <2>13, <3>2
      <4> QED
        BY <4>1, <4>6, <4>7
    <3> QED
      BY <2>8, <2>14, <3>1, <3>2
  <2>15. ~stray' => PagesInv'
    BY <2>13, <2>14 DEF PagesInv
  <2> QED
    BY <1>5, <2>1, <2>12, <2>15 DEF SpaceInv, Trusted
<1> QED
  BY <1>3, <1>4, <1>5, Zenon DEF Spawn

(***************************************************************************)
(* A forked task begins in a copy of its parent's pages that nobody else   *)
(* has.                                                                    *)
(***************************************************************************)
LEMMA ForkSpaces ==
    ASSUME StackInv, FramesInv, HomeInv, PagesInv, Trusted, ~halted, Fork
    PROVE  SpaceInv'
<1>1. mode[current] = "user" /\ ctx[current].rip = "init" /\ Fresh # {}
  BY DEF Fork, Syscall
<1>2. current \in Tasks /\ current # 0 /\ Born(current)
  BY <1>1 DEF HomeInv, StackInv, StackType, Born, Tasks
<1>3. CASE CallFails
  BY <1>3, FailSpaces
<1>4. CASE /\ free' = last
           /\ UNCHANGED <<dir, tables, mem, last, cr3, current, state, taskvars, mode, ctx,
                          spawn_used, forked, stray, broken, starved, halted>>
  <2>1. UNCHANGED <<dir, tables, mem, last, cr3, current, state, pml4, view, home, ctx, mode,
                    spawn_used, forked, stray, broken, starved, halted>>
    BY <1>4 DEF taskvars
  <2>2. Live' = Live /\ \A t \in Tasks : (Born(t)' <=> Born(t)) /\ (Born(home[t])' <=> Born(home[t]))
    BY <2>1 DEF Live, Born
  <2>3. Kept(dir, Live, last, tables)
    <3>1. /\ free \in Nat /\ last \in Nat /\ free <= last /\ free >= FirstFree
          /\ Kept(dir, Live, free, tables) /\ tables \subseteq tables /\ tables \ tables \subseteq free..(last - 1)
      BY Layout DEF FramesInv
    <3> QED
      BY <3>1, KeptGrow
  <2>4. FramesInv'
    <3>1. last \in FirstFree..last
      BY Layout DEF FramesInv
    <3> QED
      BY <1>4, <2>1, <2>2, <2>3, <3>1 DEF FramesInv, LowHalf
  <2>5. \A t \in Tasks : (Owner(t)' <=> Owner(t)) /\ (Spawned(t) => Spawned(t)')
    BY <2>1, <2>2 DEF Owner, Spawned
  <2>6. HomeInv'
    BY <2>1, <2>2, <2>5 DEF HomeInv, LowHalf
  <2>7. PagesInv'
    BY <2>1, <2>2 DEF PagesInv, HasPages
  <2> QED
    BY <2>1, <2>4, <2>6, <2>7 DEF SpaceInv, Trusted
<1>5. CASE LET clone == DeepClone(Dir, free)
               frames == free..(free + CloneCost(Dir) - 1)
           IN  /\ free + CloneCost(Dir) <= last
               /\ dir' = [dir EXCEPT ![NextId] = clone]
               /\ free' = free + CloneCost(Dir)
               /\ tables' = tables \cup CloneTables(Dir, free)
               /\ mem' = CopyPages(mem, Dir, clone, frames)
               /\ state' = [state EXCEPT ![NextId] = "ready"]
               /\ pml4' = [pml4 EXCEPT ![NextId] = NextId]
               /\ ctx' = [ctx EXCEPT ![NextId] = ctx[current]]
               /\ view' = [view EXCEPT ![NextId] = view[current]]
               /\ home' = [home EXCEPT ![NextId] = NextId]
               /\ forked' = (forked \ {current}) \cup {NextId}
               /\ UNCHANGED <<last, cr3, current, mode, spawn_used, stray, broken, halted>>
  <2>1. PICK c \in Tasks : c = NextId /\ state[c] = "none"
    BY <1>1, LowestFresh
  <2>2. PICK d : d = Dir
    OBVIOUS
  <2>3. PICK e : e = DeepClone(d, free)
    OBVIOUS
  <2> DEFINE F == free..(free + CloneCost(d) - 1)
  <2>4. /\ free + CloneCost(d) <= last
        /\ dir' = [dir EXCEPT ![c] = e]
        /\ free' = free + CloneCost(d)
        /\ tables' = tables \cup CloneTables(d, free)
        /\ mem' = CopyPages(mem, d, e, F)
        /\ state' = [state EXCEPT ![c] = "ready"]
        /\ pml4' = [pml4 EXCEPT ![c] = c]
        /\ ctx' = [ctx EXCEPT ![c] = ctx[current]]
        /\ view' = [view EXCEPT ![c] = view[current]]
        /\ home' = [home EXCEPT ![c] = c]
        /\ forked' = (forked \ {current}) \cup {c}
        /\ UNCHANGED <<last, cr3, current, mode, spawn_used, stray, broken, halted>>
    BY <1>5, <2>1, <2>2, <2>3, Zenon
  <2>5. ~Born(c) /\ c # 0 /\ c # 1 /\ c # current /\ c \notin forked /\ pml4[c] = 0 /\ c \notin Live
    BY <1>2, <2>1 DEF Born, StackInv, HomeInv, Live
  <2>6. Owner(current) /\ LowHalf(cr3) = current /\ home[current] = current /\ current \in Live
    BY <1>1, <1>2 DEF HomeInv, Spawned, Owner, FramesInv
  <2>7. d = dir[current] /\ DirOK(d)
    BY <2>2, <2>6 DEF Dir, FramesInv, Kept
  <2>8. Live' = Live \cup {c}
    BY <2>1, <2>4, <2>5 DEF Live, HomeInv
  <2>9. /\ free \in Nat /\ last \in Nat /\ free >= FirstFree /\ free <= last /\ FirstFree \in Nat
        /\ Kept(dir, Live, free, tables) /\ 0 \in Slots /\ mem \in [0..(last - 1) -> Int]
        /\ CloneCost(d) \in Nat
    BY <2>7, Layout, Blocks DEF FramesInv
  <2>10. PagesBelow(d, last)
    <3>1. \A r \in Regions, i \in Slots :
             d[r].pt[i] \in Int /\ d[r].pt[i] < free /\ (d[r].pt[i] # NoFrame => d[r].pt[i] \in Nat)
      BY <2>6, <2>7, <2>9, EntryBelow
    <3> QED
      BY <2>9, <3>1 DEF PagesBelow
  <2>11. /\ mem' \in [0..(last - 1) -> Int]
         /\ \A f \in 0..(free - 1) : mem'[f] = mem[f]
         /\ \A r \in Regions, i \in Slots : d[r].pt[i] # NoFrame => mem'[e[r].pt[i]] = mem[d[r].pt[i]]
    <3>1. PICK G : G = F
      OBVIOUS
    <3>2. PICK m : m = mem'
      OBVIOUS
    <3>3. m = CopyPages(mem, d, e, G) /\ G = free..(free + CloneCost(d) - 1)
      BY <2>4, <3>1, <3>2
    <3>4. CopiesTo(m, mem, d, e, free, last)
      BY <2>3, <2>4, <2>7, <2>9, <2>10, <3>3, CloneMemory
    <3> QED
      BY <3>2, <3>4 DEF CopiesTo
  <2>12. /\ dir' \in [Spaces -> [Regions -> Region]] /\ dir'[c] = e
         /\ \A u \in Live : dir'[u] = dir[u]
    <3>1. DirOK(e)
      BY <2>3, <2>7, <2>9, CloneEntries
    <3>2. c \in Spaces /\ Live \subseteq Spaces
      BY DEF Spaces, Live
    <3> QED
      BY <2>4, <2>5, <3>1, <3>2 DEF FramesInv, DirOK
  <2>13. Kept(dir', Live', free', tables')
    <3>1. PICK D : D = dir'
      OBVIOUS
    <3>2. Kept(D, Live \cup {c}, free + CloneCost(d), tables \cup CloneTables(d, free))
      <4>1. D[c] = DeepClone(d, free) /\ \A u \in Live : D[u] = dir[u]
        BY <2>3, <2>12, <3>1
      <4> QED
        BY <2>5, <2>6, <2>7, <2>9, <4>1, CloneKept
    <3> QED
      BY <2>4, <2>8, <3>1, <3>2
  <2>14. FramesInv'
    <3>1. free' \in FirstFree..last /\ cr3 \in Tasks /\ LowHalf(cr3)' = LowHalf(cr3)
      BY <2>4, <2>9 DEF FramesInv, LowHalf
    <3> QED
      BY <2>4, <2>6, <2>8, <2>9, <2>11, <2>12, <2>13, <3>1 DEF FramesInv
  <2>15. \A t \in Tasks : Born(t)' <=> (Born(t) \/ t = c)
    BY <2>1, <2>4, <2>5 DEF Born, StackInv, StackType
  <2>16. \A t \in Tasks : t # c => pml4'[t] = pml4[t] /\ home'[t] = home[t] /\ ctx'[t] = ctx[t] /\ view'[t] = view[t]
    BY <2>4 DEF HomeInv, StackInv, StackType, PagesInv
  <2>17. pml4'[c] = c /\ home'[c] = c /\ ctx'[c] = ctx[current] /\ view'[c] = view[current]
    BY <2>4 DEF HomeInv, StackInv, StackType, PagesInv
  <2>18. HomeInv'
    <3>1. Owner(c)'
      BY <2>17 DEF Owner
    <3>2. ASSUME NEW t \in Tasks, Born(t), Spawned(t) PROVE Spawned(t)'
      <4>1. t # c /\ home[t] # c /\ home[t] \in Tasks
        BY <2>5, <3>2 DEF Spawned, HomeInv
      <4>2. Born(home[t])'
        BY <2>4, <2>16, <3>2, <4>1 DEF Born, Spawned, StackInv, StackType
      <4> QED
        BY <2>4, <2>8, <2>16, <3>2, <4>1, <4>2 DEF Spawned
    <3>3. ASSUME NEW t \in Tasks, Born(t)'
          PROVE  /\ Owner(t)' \/ Spawned(t)'
                 /\ ctx'[t].rip \in Programs /\ ctx'[t].rsp \in Stacks
      <4>1. CASE t = c
        BY <1>2, <2>17, <3>1, <4>1 DEF HomeInv
      <4>2. CASE t # c
        <5>1. Born(t)
          BY <2>15, <3>3, <4>2
        <5>2. Owner(t) => Owner(t)'
          BY <2>16, <4>2 DEF Owner
        <5> QED
          BY <2>16, <3>2, <4>2, <5>1, <5>2 DEF HomeInv
      <4> QED
        BY <4>1, <4>2
    <3>4. /\ pml4' \in [Tasks -> Tasks] /\ home' \in [Tasks -> Tasks] /\ forked' \subseteq Tasks
          /\ LowHalf(cr3)' = home'[current]
      <4>1. LowHalf(cr3)' = home'[current]
        BY <1>2, <2>4, <2>5, <2>6, <2>16 DEF LowHalf
      <4> QED
        BY <2>4, <4>1 DEF HomeInv
    <3>5. \A t \in Tasks : ~Born(t)' => (t # 0 => pml4'[t] = 0) /\ t \notin forked'
      BY <2>4, <2>15, <2>16 DEF HomeInv
    <3>6. pml4'[0] = 0 /\ mode'[0] = "wait"
      BY <2>4, <2>5 DEF HomeInv
    <3>7. \A t, u \in Tasks : Born(t)' /\ Born(u)' /\ pml4'[t] = 0 /\ pml4'[u] = 0 => t = u
      BY <2>5, <2>15, <2>16, <2>17 DEF HomeInv
    <3> QED
      BY <2>4, <3>3, <3>4, <3>5, <3>6, <3>7 DEF HomeInv
  <2>19. ASSUME NEW t \in Tasks, Born(t)', NEW r \in {ctx'[t].rip, ctx'[t].rsp}
         PROVE  HasPages(dir'[home'[t]], mem', r, view'[t][r])
    <3>1. CASE t = c
      <4>1. home'[t] = c /\ r \in {ctx[current].rip, ctx[current].rsp} /\ dir'[home'[t]] = e
        BY <2>12, <2>17, <2>19, <3>1
      <4>2. r \in Regions /\ InFrames(d, mem, r, view[current][r], free)
        BY <1>2, <2>6, <2>7, <4>1, BornPages
      <4>3. e[r].kind = "table"
        BY <2>3, <4>2 DEF DeepClone, Table, InFrames
      <4>4. ClonedTo(e, d, free, free + CloneCost(d), CloneTables(d, free))
        BY <2>3, <2>7, <2>9, ClonePages
      <4>5. ASSUME NEW i \in PagesOf(r)
            PROVE  e[r].pt[i] >= FirstFree /\ mem'[e[r].pt[i]] = view[current][r]
        <5>1. i \in Slots /\ d[r].pt[i] \in 0..(free - 1) /\ mem[d[r].pt[i]] = view[current][r]
          BY <4>2, Layout DEF InFrames
        <5>2. d[r].pt[i] # NoFrame
          BY <5>1 DEF NoFrame
        <5>3. e[r].pt[i] \in free..((free + CloneCost(d)) - 1)
          BY <4>2, <4>4, <5>1, <5>2 DEF ClonedTo
        <5>4. e[r].pt[i] >= FirstFree
          BY <2>9, <5>3
        <5> QED
          BY <2>11, <4>2, <5>1, <5>2, <5>4
      <4>6. HasPages(e, mem', r, view[current][r])
        BY <4>3, <4>5 DEF HasPages
      <4> QED
        BY <2>17, <3>1, <4>1, <4>6
    <3>2. CASE t # c
      <4>1. Born(t) /\ home'[t] = home[t] /\ r \in {ctx[t].rip, ctx[t].rsp} /\ view'[t] = view[t]
        BY <2>15, <2>16, <2>19, <3>2
      <4>2. home[t] \in Live /\ InFrames(dir[home[t]], mem, r, view[t][r], free)
        BY <4>1, BornPages
      <4>3. dir'[home[t]] = dir[home[t]]
        BY <2>12, <4>2
      <4>4. SamePages(dir'[home[t]], mem', dir[home[t]], mem, r, free)
        BY <2>11, <4>3 DEF SamePages
      <4>5. HasPages(dir'[home[t]], mem', r, view[t][r])
        BY <4>2, <4>4, KeptPages, Zenon
      <4> QED
        BY <4>1, <4>5
    <3> QED
      BY <3>1, <3>2
  <2>20. PagesInv'
    <3>1. view' \in [Tasks -> [Regions -> Int]]
      BY <1>2, <2>4 DEF PagesInv
    <3> QED
      BY <2>19, <3>1 DEF PagesInv
  <2> QED
    BY <2>4, <2>14, <2>18, <2>20 DEF SpaceInv
<1> QED
  BY <1>3, <1>4, <1>5, Zenon DEF Fork

-----------------------------------------------------------------------------
(***************************************************************************)
(* The boot, when nothing was missing.                                     *)
(***************************************************************************)
LEMMA SpaceStart ==
    ASSUME Init
    PROVE  SpaceInv
<1> SUFFICES ASSUME ~starved PROVE SpaceInv
  BY DEF SpaceInv, Trusted
<1> DEFINE d0 == [r \in Regions |-> IF r \in Programs THEN Huge ELSE None]
           D0 == [s \in {1} |-> d0]
<1>1. PICK x : x = Start(last)
  OBVIOUS
<1>2. PICK y : y = BootMemory(last)
  OBVIOUS
<1>3. /\ dir = [s \in Spaces |-> y.d] /\ free = y.next + 2 /\ mem = y.m
      /\ tables = y.tables \cup {y.next, y.next + 1}
      /\ last \in Memories /\ last \in Nat /\ free <= last
  <2>1. free <= last
    BY <1>2, Zenon DEF Init
  <2> QED
    BY <1>2, <2>1, SpaceAssumption DEF Init
<1>4. y = SetupStack(LoadElf(x, "init", last), "ustack", last) /\ Loads(x, "init", last)
  BY <1>1, <1>2, <1>3, BootAssumption DEF BootMemory
<1>5. /\ FirstFree \in Nat /\ 0 \in Slots /\ 0 \in Tasks /\ 1 \in Tasks /\ 0 \in Pages
      /\ "init" \in Programs /\ "ustack" \in Stacks /\ "init" \in Regions /\ "ustack" \in Regions
  BY Layout, SpaceAssumption DEF Programs, Stacks, Regions, Tasks
<1>6. x.d = d0 /\ x.m = [f \in 0..(last - 1) |-> Zero] /\ x.tables = {} /\ x.next = FirstFree
  BY <1>1 DEF Memory, Start
<1>7. DirOK(d0) /\ \A r \in Regions, i \in Slots : d0[r].pt[i] = NoFrame
  <2>1. [i \in Slots |-> NoFrame] \in [Slots -> Int]
    BY Layout
  <2>2. Huge \in Region /\ None \in Region
    BY <2>1 DEF Huge, None, Region
  <2>3. \A r \in Regions : d0[r] = IF r \in Programs THEN Huge ELSE None
    OBVIOUS
  <2>4. d0 \in [Regions -> Region]
    BY <2>2
  <2>5. \A r \in Stacks : r \notin Programs
    BY DEF Stacks, Programs
  <2> HIDE DEF d0
  <2>6. \A r \in Regions, i \in Slots : d0[r].pt[i] = NoFrame
    BY <2>3 DEF Huge, None
  <2>7. \A r \in Regions : d0[r].kind # "table" /\ (r \in Stacks => d0[r].kind # "huge")
    BY <2>3, <2>5 DEF Huge, None
  <2> QED
    BY <2>4, <2>6, <2>7 DEF DirOK
<1> HIDE DEF d0
<1>8. y.sound
  BY <1>2, Zenon DEF Init
<1>9. Ready(x, last)
  <2>1. FirstFree <= last
    <3>1. 0 \in Got(x, "init", last)
      BY <1>4, <1>5 DEF Loads
    <3>2. PageFrame(x, "init", 0) < last
      BY <3>1 DEF Got
    <3> QED
      BY <1>3, <1>5, <1>6, <3>2 DEF PageFrame
  <2>2. x.m \in [0..(last - 1) -> Int]
    BY <1>6 DEF Zero
  <2>3. \A r \in Regions, i \in Slots : x.d[r].pt[i] \in Int /\ x.d[r].pt[i] < x.next
    BY <1>6, <1>7, Layout
  <2> QED
    BY <1>3, <1>5, <1>6, <1>7, <2>1, <2>2, <2>3 DEF Ready
<1>10. Grown(y, x, {"init", "ustack"}, last) /\ Holds(y, x, "init", Elf) /\ Holds(y, x, "ustack", Zero)
  BY <1>4, <1>5, <1>8, <1>9, InstallGrown
<1>11. Kept(D0, {1}, FirstFree, {})
  <2>1. D0[1] = d0
    OBVIOUS
  <2> HIDE DEF D0
  <2>2. \A s \in {1}, r \in Regions, i \in Slots : D0[s][r].pt[i] = NoFrame
    BY <1>7, <2>1
  <2>3. ~(NoFrame >= FirstFree)
    BY Layout
  <2> QED
    BY <1>7, <2>1, <2>2, <2>3 DEF Kept, EntryOK
<1>12. Kept(dir, {1}, y.next, y.tables)
  <2>1. PICK D : D = D0
    OBVIOUS
  <2>2. PICK L : L = {1}
    OBVIOUS
  <2>3. InUse(x, D, L, 1)
    BY <1>6, <1>11, <2>1, <2>2 DEF InUse
  <2>4. Replaces(dir, D, L, 1, y.d)
    BY <1>3, <1>5, <2>2 DEF Replaces, Spaces
  <2>5. Kept(dir, L, y.next, y.tables)
    BY <1>9, <1>10, <2>3, <2>4, GrownKept
  <2> QED
    BY <2>2, <2>5
<1>13. y.next \in Nat /\ FirstFree <= y.next /\ y.next <= last /\ y.m \in [0..(last - 1) -> Int]
  BY <1>6, <1>10 DEF Grown, Extends
<1>14. Kept(dir, {1}, free, tables)
  <2>1. PICK T : T = y.tables
    OBVIOUS
  <2>2. PICK n : n = y.next
    OBVIOUS
  <2>3. /\ n \in Nat /\ free \in Nat /\ n <= free /\ n >= FirstFree /\ T \subseteq tables
        /\ tables \ T \subseteq n..(free - 1) /\ Kept(dir, {1}, n, T)
    BY <1>3, <1>5, <1>12, <1>13, <2>1, <2>2
  <2> QED
    BY <2>3, KeptGrow
<1>15. Live = {1} /\ LowHalf(cr3) = 1 /\ cr3 = 0
  BY <1>5 DEF Live, LowHalf, Init
<1>16. FramesInv
  <2>1. dir \in [Spaces -> [Regions -> Region]]
    BY <1>3, <1>10 DEF Grown, DirOK
  <2>2. free \in FirstFree..last
    BY <1>3, <1>5, <1>13
  <2> QED
    BY <1>3, <1>5, <1>13, <1>14, <1>15, <2>1, <2>2 DEF FramesInv
<1>17. /\ state = [t \in Tasks |-> IF t = 0 THEN "running" ELSE IF t = 1 THEN "ready" ELSE "none"]
       /\ pml4 = [t \in Tasks |-> IF t = 1 THEN 1 ELSE 0] /\ home = [t \in Tasks |-> 1]
       /\ ctx = [t \in Tasks |-> IF t = 1 THEN [rip |-> "init", rsp |-> "ustack"] ELSE Nowhere]
       /\ view = [t \in Tasks |-> [r \in Regions |-> IF r = "init" THEN Elf ELSE Zero]]
       /\ mode = [t \in Tasks |-> IF t = 0 THEN "wait" ELSE "new"]
       /\ forked = {} /\ spawn_used = FALSE /\ current = 0 /\ halted = FALSE
  BY DEF Init
<1>18. \A t \in Tasks : Born(t) <=> t = 1
  BY <1>5, <1>17 DEF Born
<1>19. ctx[1] = [rip |-> "init", rsp |-> "ustack"] /\ home[1] = 1 /\ pml4[1] = 1
  BY <1>5, <1>17
<1>20. HomeInv
  BY <1>5, <1>17, <1>18, <1>19 DEF HomeInv, Owner
<1>21. PagesInv
  <2>1. view \in [Tasks -> [Regions -> Int]] /\ view[1]["init"] = Elf /\ view[1]["ustack"] = Zero
    BY <1>5, <1>17 DEF Elf, Zero
  <2>2. dir[1] = y.d
    BY <1>3, <1>5 DEF Spaces
  <2>3. ASSUME NEW r, NEW v, Holds(y, x, r, v) PROVE HasPages(dir[1], mem, r, v)
    BY <1>3, <1>6, <2>2, <2>3 DEF Holds, HasPages
  <2>4. HasPages(dir[1], mem, "init", Elf) /\ HasPages(dir[1], mem, "ustack", Zero)
    BY <1>10, <2>3
  <2>5. \A r \in {ctx[1].rip, ctx[1].rsp} : r \in {"init", "ustack"}
    BY <1>19
  <2>6. \A r \in {"init", "ustack"} : HasPages(dir[home[1]], mem, r, view[1][r])
    BY <1>19, <2>1, <2>4
  <2> QED
    BY <1>18, <2>1, <2>5, <2>6 DEF PagesInv
<1> QED
  BY <1>16, <1>17, <1>20, <1>21 DEF SpaceInv

LEMMA SpaceStep ==
    ASSUME StackInv, SpaceInv, Next
    PROVE  SpaceInv'
<1>1. Trusted /\ ~halted /\ FramesInv /\ HomeInv /\ PagesInv
  BY DEF Next, SpaceInv, Trusted
<1>2. ASSUME NEW n \in Tasks, Preempt(n) PROVE SpaceInv'
  <2>1. /\ SwitchTo(n, "ready", saved_user_rsp)
        /\ UNCHANGED <<dir, free, tables, mem, last, pml4, view, home, ctx, spawn_used, forked,
                       starved, halted, mode>>
    BY <1>2 DEF Preempt, memvars, taskvars
  <2>2. mode'[0] = "wait"
    BY <1>1, <2>1 DEF HomeInv
  <2> QED
    BY <1>1, <2>1, <2>2, SwitchSpaces
<1>3. ASSUME NEW n \in Tasks, Block(n) PROVE SpaceInv'
  <2>1. PICK rsp : SwitchTo(n, "ready", rsp)
    BY <1>3 DEF Block
  <2>2. /\ mode' = [mode EXCEPT ![current] = "wait"]
        /\ UNCHANGED <<dir, free, tables, mem, last, pml4, view, home, ctx, spawn_used, forked,
                       starved, halted>>
    BY <1>3 DEF Block, memvars, taskvars
  <2>3. mode'[0] = "wait"
    BY <1>1, <2>2 DEF HomeInv, StackInv, StackType
  <2> QED
    BY <1>1, <2>1, <2>2, <2>3, SwitchSpaces
<1>4. ASSUME NEW n \in Tasks, Exit(n) PROVE SpaceInv'
  <2>1. /\ SwitchTo(n, "dead", ctx[current].rsp)
        /\ UNCHANGED <<dir, free, tables, mem, last, pml4, view, home, ctx, spawn_used, forked,
                       starved, halted, mode>>
    BY <1>4 DEF Exit, memvars, taskvars
  <2>2. mode'[0] = "wait"
    BY <1>1, <2>1 DEF HomeInv
  <2> QED
    BY <1>1, <2>1, <2>2, SwitchSpaces
<1>5. ASSUME /\ mode[current] # "wait" \/ current # 0
             /\ mode' = [mode EXCEPT ![current] = mode'[current]]
             /\ UNCHANGED <<memvars, last, cr3, current, state, taskvars, ctx, forked, stray, broken,
                            starved, halted, spawn_used>>
      PROVE  SpaceInv'
  <2>1. UNCHANGED <<dir, free, tables, mem, last, cr3, current, state, pml4, view, home, ctx,
                    forked, stray, broken, starved, halted, spawn_used>>
    BY <1>5 DEF memvars, taskvars
  <2>2. mode'[0] = "wait" /\ spawn_used' \in BOOLEAN /\ (spawn_used => spawn_used')
    <3>1. mode[0] = "wait" /\ spawn_used \in BOOLEAN
      BY <1>1 DEF HomeInv
    <3>2. current # 0
      BY <1>5, <3>1
    <3>3. PICK v : mode' = [mode EXCEPT ![current] = v]
      BY <1>5
    <3>4. 0 \in DOMAIN mode
      BY SpaceAssumption DEF StackInv, StackType, Tasks
    <3>5. mode'[0] = mode[0]
      BY <3>2, <3>3, <3>4
    <3> QED
      BY <2>1, <3>1, <3>5
  <2> QED
    BY <1>1, <2>1, <2>2, QuietSpaces
<1>6. CASE UserWrite
  BY <1>1, <1>6, WriteSpaces
<1>7. CASE Enter \/ LeaveKernel \/ ReadKeys \/ SyscallReturn
  <2>1. current \in DOMAIN mode
    BY DEF StackInv, StackType
  <2>2. CASE SyscallReturn
    <3>1. ctx' = ctx
      BY <2>2 DEF SyscallReturn, StackInv, StackType, InCall
    <3>2. /\ current # 0 /\ mode' = [mode EXCEPT ![current] = mode'[current]]
          /\ UNCHANGED <<memvars, last, cr3, current, state, taskvars, forked, stray, broken,
                         starved, halted, spawn_used>>
      BY <2>1, <2>2 DEF SyscallReturn
    <3> QED
      BY <1>5, <3>1, <3>2
  <2>3. CASE Enter
    BY <1>5, <2>1, <2>3 DEF Enter
  <2>4. CASE LeaveKernel
    BY <1>5, <2>1, <2>4 DEF LeaveKernel
  <2>5. CASE ReadKeys
    BY <1>5, <2>1, <2>5 DEF ReadKeys, Syscall
  <2> QED
    BY <1>7, <2>2, <2>3, <2>4, <2>5
<1>8. CASE Fork
  BY <1>1, <1>8, ForkSpaces
<1>9. CASE Spawn
  BY <1>1, <1>9, SpawnSpaces
<1>10. ASSUME NEW p \in Programs, Exec(p) PROVE SpaceInv'
  BY <1>1, <1>10, ExecSpaces
<1>11. ASSUME NEW n \in Tasks, PreemptAtEdge(n) PROVE SpaceInv'
  BY <1>1, <1>11, EdgeSpaces
<1> QED
  BY <1>2, <1>3, <1>4, <1>6, <1>7, <1>8, <1>9, <1>10, <1>11 DEF Next

(***************************************************************************)
(* The invariant holds of every reachable state, whatever forks, execs,    *)
(* spawns and switches came before.                                        *)
(***************************************************************************)
THEOREM SpaceInvariance == Spec => [](StackInv /\ SpaceInv)
<1>1. Init => StackInv /\ SpaceInv
  BY StackStart, SpaceStart
<1>2. StackInv /\ SpaceInv /\ [Next]_vars => (StackInv /\ SpaceInv)'
  <2> SUFFICES ASSUME StackInv, SpaceInv, [Next]_vars PROVE StackInv' /\ SpaceInv'
    OBVIOUS
  <2>1. CASE Next
    BY <2>1, StackStep, SpaceStep
  <2>2. CASE UNCHANGED vars
    <3>1. StackInv'
      BY <2>2 DEF StackInv, StackType, Born, InCall, vars, taskvars
    <3>2. /\ UNCHANGED <<dir, free, tables, mem, last, cr3, current, state, pml4, view, home, ctx,
                         forked, stray, broken, starved, halted, spawn_used, mode>>
      BY <2>2 DEF vars, memvars, taskvars
    <3>3. (FramesInv => FramesInv') /\ (HomeInv => HomeInv') /\ (PagesInv => PagesInv')
      BY <3>2 DEF FramesInv, HomeInv, PagesInv, HasPages, Owner, Spawned, Born, Live, LowHalf
    <3>4. SpaceInv'
      BY <3>2, <3>3 DEF SpaceInv, Trusted
    <3> QED
      BY <3>1, <3>4
  <2> QED
    BY <2>1, <2>2
<1> QED
  BY <1>1, <1>2, PTL DEF Spec

(***************************************************************************)
(* A program finds in its pages what it left there, its parent had or exec *)
(* loaded, and never faults: the property OwnMemory.                       *)
(***************************************************************************)
THEOREM MemoryOwned == Spec => []OwnMemory
<1>1. StackInv /\ SpaceInv => OwnMemory
  <2> SUFFICES ASSUME StackInv, SpaceInv, Trusted PROVE ~halted /\ (current # 0 => Sees(current))
    BY DEF OwnMemory
  <2>1. ~halted /\ FramesInv /\ HomeInv /\ PagesInv
    BY DEF SpaceInv, Trusted
  <2> SUFFICES ASSUME current # 0 PROVE Sees(current)
    BY <2>1
  <2>2. current \in Tasks /\ Born(current)
    BY DEF StackInv, StackType, Born
  <2>3. Dir = dir[home[current]]
    BY <2>1, <2>2 DEF HomeInv, Dir
  <2>4. ASSUME NEW r \in {ctx[current].rip, ctx[current].rsp}, NEW i \in PagesOf(r)
        PROVE  UserFrame(Dir, r, i) # NoFrame /\ mem[UserFrame(Dir, r, i)] = view[current][r]
    <3>1. HasPages(dir[home[current]], mem, r, view[current][r])
      BY <2>1, <2>2 DEF PagesInv
    <3>2. /\ UserFrame(Dir, r, i) = dir[home[current]][r].pt[i] /\ dir[home[current]][r].pt[i] >= FirstFree
          /\ mem[dir[home[current]][r].pt[i]] = view[current][r]
      BY <2>3, <3>1 DEF UserFrame, HasPages
    <3> QED
      BY <3>2, Layout
  <2> QED
    BY <2>4 DEF Sees
<1> QED
  BY <1>1, SpaceInvariance, PTL

(***************************************************************************)
(* No frame is in two page tables or a page table itself, and the frames   *)
(* the kernel hands out or keeps tables in are found at their own address: *)
(* the property FramesApart.                                               *)
(***************************************************************************)
THEOREM FramesNeverShared == Spec => []FramesApart
<1>1. SpaceInv => FramesApart
  <2> SUFFICES ASSUME SpaceInv, ~starved
               PROVE  /\ Cardinality({Entry(a) : a \in Maps}) = Cardinality(Maps)
                      /\ {Entry(a) : a \in Maps} \cap tables = {}
                      /\ \A r \in Programs, i \in Slots :
                            Identity(r, i) \in tables \cup free..(last - 1)
                                => GetPhys(Dir, r, i) = Identity(r, i)
    BY DEF FramesApart
  <2> DEFINE frames == {Entry(a) : a \in Maps}
             f == [a \in Maps |-> Entry(a)]
  <2>1. FramesInv
    BY DEF SpaceInv
  <2>2. free \in Nat /\ free >= FirstFree /\ FirstFree \in Nat
    BY <2>1, Layout DEF FramesInv
  <2>3. ASSUME NEW a \in Maps
        PROVE  /\ a[1] \in Live /\ a[2] \in Regions /\ a[3] \in Slots /\ a = <<a[1], a[2], a[3]>>
               /\ Entry(a) \in (FirstFree..(free - 1)) \ tables
    <3>1. /\ a[1] \in Live /\ a[2] \in Regions /\ a[3] \in Slots /\ a = <<a[1], a[2], a[3]>>
          /\ Entry(a) # NoFrame /\ Entry(a) # Identity(a[2], a[3])
      BY DEF Maps, Live, Spaces
    <3>2. EntryOK(Entry(a), a[2], a[3], free, tables)
      BY <2>1, <3>1 DEF FramesInv, Kept, Entry
    <3> QED
      BY <3>1, <3>2 DEF EntryOK
  <2>4. ASSUME NEW a \in Maps, NEW b \in Maps, Entry(a) = Entry(b) PROVE a = b
    <3>1. /\ a[1] \in Live /\ a[2] \in Regions /\ a[3] \in Slots /\ a = <<a[1], a[2], a[3]>>
          /\ b[1] \in Live /\ b[2] \in Regions /\ b[3] \in Slots /\ b = <<b[1], b[2], b[3]>>
          /\ Entry(a) >= FirstFree
      BY <2>2, <2>3
    <3>2. \A s, u \in Live, r, q \in Regions, i, j \in Slots :
             dir[s][r].pt[i] = dir[u][q].pt[j] /\ dir[s][r].pt[i] >= FirstFree => s = u /\ r = q /\ i = j
      BY <2>1, Zenon DEF FramesInv, Kept
    <3>3. a[1] = b[1] /\ a[2] = b[2] /\ a[3] = b[3]
      BY <2>4, <3>1, <3>2 DEF Entry
    <3> QED
      BY <3>1, <3>3
  <2>5. frames \cap tables = {}
    BY <2>3
  <2>6. Cardinality(frames) = Cardinality(Maps)
    <3>1. IsFiniteSet(FirstFree..(free - 1)) /\ frames \in SUBSET (FirstFree..(free - 1))
      BY <2>2, <2>3, FS_Interval
    <3>2. IsFiniteSet(frames)
      BY <3>1, FS_Subset
    <3>3. f \in [Maps -> frames] /\ (\A a \in Maps : f[a] = Entry(a)) /\ \A v \in frames : \E a \in Maps : f[a] = v
      OBVIOUS
    <3> HIDE DEF f, frames
    <3>4. f \in Injection(Maps, frames)
      BY <2>4, <3>3 DEF Injection, IsInjective
    <3>5. f \in Surjection(Maps, frames)
      BY <3>3 DEF Surjection
    <3> QED
      BY <3>2, <3>4, <3>5, FS_Injection
  <2>7. ASSUME NEW r \in Programs, NEW i \in Slots
        PROVE  Identity(r, i) \notin tables \cup free..(last - 1)
    <3>1. Identity(r, i) \in Nat /\ Identity(r, i) < FirstFree
      BY Layout
    <3>2. tables \subseteq FirstFree..(free - 1)
      BY <2>1 DEF FramesInv, Kept
    <3> QED
      BY <2>2, <3>1, <3>2
  <2> QED
    BY <2>5, <2>6, <2>7
<1> QED
  BY <1>1, SpaceInvariance, PTL
=============================================================================
