\* The scheduler: kmain, the shell and two more tasks.  Safety, and liveness
\* under the fairness of the timer.
CONSTANTS
    MaxTask = 3
    TIMESLICE = 2
    MAX_SLEEPERS = 1
    SEM_MAX = 2
    MaxCount = 1
    WORD = 64
    SleepMs <- MCSleepMs
SPECIFICATION FairSpec
INVARIANTS TypeOK RingOK OneRunning WaitsInOnePlace BlockedIsFindable SemBalance
PROPERTIES DeadStaysDead ReadyRuns SleeperWakes
CHECK_DEADLOCK FALSE
