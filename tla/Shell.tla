-------------------------------- MODULE Shell --------------------------------
(***************************************************************************)
(* User programs on top of the scheduler: the shell of user/init.c, the    *)
(* programs it runs, and the lock that user/lib/stdio.c keeps around       *)
(* output in semaphore 0.  A step is one system call of the current task   *)
(* (an action of Task together with the program's own step), the return    *)
(* from a call that blocked, or a tick.                                    *)
(***************************************************************************)
EXTENDS Task, FiniteSets

CONSTANT Victims        \* the pids that are given to the kill command

ASSUME VictimsAssumption == Victims \subseteq Ids

VARIABLES
    prog,       \* the program a task runs: "shell", or "app" for hello, calc, ...
    pc,         \* where it is between two system calls
    child       \* what sys_fork returned to a shell, 0 before

shellVars == <<prog, pc, child>>
allVars   == <<vars, prog, pc, child>>

Progs  == {"shell", "app"}
Labels == {"loop", "print", "started", "waiting", "forked", "exec", "failed"}

Goto(t, l) == pc' = [pc EXCEPT ![t] = l]
At(l)      == pc[current] = l

SInit ==
    /\ Init
    /\ prog = [t \in Ids |-> "shell"]
    /\ pc = [t \in Ids |-> "loop"]
    /\ child = [t \in Ids |-> 0]

(***************************************************************************)
(* puts, putchar, and lock_stdout ... unlock_stdout in hello: the lock is  *)
(* taken with sys_sem_wait(0) and released with sys_sem_post(0).           *)
(***************************************************************************)
LockStdout ==
    /\ At("loop") /\ SysSemWait(0)
    /\ Goto(current, "print") /\ UNCHANGED <<prog, child>>

UnlockStdout ==
    /\ At("print") /\ SysSemPost(0)
    /\ Goto(current, "loop") /\ UNCHANGED <<prog, child>>

(***************************************************************************)
(* cmd_run and cmd_redirect in the shell: fork, print without the lock,    *)
(* wait; the return from sys_wait; and the child's side, which takes the   *)
(* foreground and becomes the program, or fails to and exits.              *)
(***************************************************************************)
CmdRun ==
    /\ At("loop") /\ prog[current] = "shell" /\ SysFork
    /\ pc' = [pc EXCEPT ![current] = "started", ![next_id] = "forked"]
    /\ prog' = [prog EXCEPT ![next_id] = "shell"]
    /\ child' = [child EXCEPT ![current] = next_id]

RunWait ==
    /\ At("started") /\ SysWait
    /\ Goto(current, "waiting") /\ UNCHANGED <<prog, child>>

BackToShell ==
    /\ At("waiting") /\ InSyscall
    /\ Goto(current, "loop") /\ UNCHANGED <<vars, prog, child>>

ChildSetFg ==
    /\ At("forked") /\ SysSetFg
    /\ Goto(current, "exec") /\ UNCHANGED <<prog, child>>

ChildExec(p) ==
    /\ At("exec") /\ InSyscall
    /\ Goto(current, "loop")
    /\ prog' = [prog EXCEPT ![current] = p]
    /\ UNCHANGED <<vars, child>>

ChildExecFails ==
    /\ At("exec") /\ InSyscall
    /\ Goto(current, "failed") /\ UNCHANGED <<vars, prog, child>>

Exit ==
    /\ At("loop") \/ At("failed")
    /\ SysExit
    /\ UNCHANGED shellVars

(***************************************************************************)
(* The spawn, kill and sleep commands, sleeps and reads of any program.    *)
(***************************************************************************)
CmdSpawn ==
    /\ At("loop") /\ prog[current] = "shell" /\ SysSpawn
    /\ prog' = [prog EXCEPT ![next_id] = "app"]
    /\ UNCHANGED <<pc, child>>

CmdSpawnFails ==
    /\ At("loop") /\ prog[current] = "shell" /\ SysSpawnFails
    /\ UNCHANGED shellVars

CmdKill(id) ==
    /\ At("loop") /\ prog[current] = "shell" /\ SysKill(id)
    /\ UNCHANGED shellVars

Sleep(ms) == At("loop") /\ SysSleep(ms) /\ UNCHANGED shellVars

Read == At("loop") /\ SysRead /\ UNCHANGED shellVars

STick == Tick /\ UNCHANGED shellVars

SNext ==
    \/ STick
    \/ LockStdout
    \/ UnlockStdout
    \/ CmdRun
    \/ RunWait
    \/ BackToShell
    \/ ChildSetFg
    \/ \E p \in Progs : ChildExec(p)
    \/ ChildExecFails
    \/ Exit
    \/ CmdSpawn
    \/ CmdSpawnFails
    \/ \E id \in Victims : CmdKill(id)
    \/ \E ms \in SleepMs : Sleep(ms)
    \/ Read

SSpec == SInit /\ [][SNext]_allVars

(***************************************************************************)
(* Ticks keep coming.  A task that is given the processor again and again  *)
(* gets on with its program where no input decides what it does next: it   *)
(* ends the output it has begun, enters sys_wait, and returns from it.     *)
(* Strong fairness, because each tick may take the processor away again.   *)
(***************************************************************************)
SFairSpec ==
    /\ SSpec
    /\ WF_allVars(STick)
    /\ \A t \in Ids \ {0} :
        SF_allVars(current = t /\ (UnlockStdout \/ RunWait \/ BackToShell))

-----------------------------------------------------------------------------
(***************************************************************************)
(* The tasks between sys_sem_wait(0) and sys_sem_post(0), and those of     *)
(* them that have returned from sys_sem_wait.                              *)
(***************************************************************************)
Printing == {t \in Ids : pc[t] = "print"}
Holders  == Printing \ Waiting(0)

(***************************************************************************)
(* The lock of stdio.c excludes: two tasks are never both between          *)
(* sys_sem_wait(0) and sys_sem_post(0), although a waiter is handed the    *)
(* lock without trying again for it.                                       *)
(***************************************************************************)
MutualExclusion == \A t, u \in Holders : t = u

(***************************************************************************)
(* The lock is not lost either: semaphore 0 accounts for every task in     *)
(* the locked region or waiting for it, and whoever waits, waits for a     *)
(* holder that is still there.                                             *)
(***************************************************************************)
LockAccounts ==
    /\ count[0] = 1 - Cardinality(Printing)
    /\ Waiting(0) \subseteq Printing
    /\ Waiting(0) # {} => Holders # {}

(***************************************************************************)
(* Output ends: a task that calls puts returns from it or is killed, or    *)
(* the machine halts.  Killing a task between sys_sem_wait(0) and          *)
(* sys_sem_post(0) is the only thing that can keep the others out for      *)
(* ever; killing it anywhere else does them no harm.                       *)
(***************************************************************************)
PutsReturnsUnlessKilled ==
    \A t \in Ids : pc[t] = "print" ~> \/ pc[t] # "print" \/ halted
                                      \/ \E u \in Printing : st[u] = "DEAD"

(***************************************************************************)
(* What the shell relies on after "killed pid" (user/init.c:256): puts of  *)
(* the next prompt returns, whomever kill has ended.                       *)
(***************************************************************************)
PutsReturns ==
    \A t \in Ids : pc[t] = "print" ~> (pc[t] # "print" \/ st[t] = "DEAD" \/ halted)

(***************************************************************************)
(* The shell comes back from run: once its child has exited it prints      *)
(* "[child exited, back to shell]" (user/init.c:272).                      *)
(***************************************************************************)
ShellReturns ==
    (pc[1] = "waiting" /\ st[child[1]] = "DEAD") ~> (pc[1] # "waiting" \/ halted)

(***************************************************************************)
(* The same message is true when it is printed: the shell returns from     *)
(* sys_wait only after the child it has run has exited.                    *)
(***************************************************************************)
BackMeansExited ==
    [][\A t \in Ids : pc[t] = "waiting" /\ pc'[t] = "loop" => st[child[t]] = "DEAD"]_allVars
=============================================================================
