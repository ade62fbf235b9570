\* The stdout lock under the shell and two programs, which may be killed.
CONSTANTS
    MaxTask = 3
    TIMESLICE = 2
    MAX_SLEEPERS = 2
    SEM_MAX = 1
    MaxCount = 1
    WORD = 64
    SleepMs <- MCSleepMs
    Victims <- Programs
SPECIFICATION SFairSpec
INVARIANTS MutualExclusion LockAccounts
PROPERTY PutsReturnsUnlessKilled
CHECK_DEADLOCK FALSE
