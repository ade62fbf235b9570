\* The shell comes back from run: violated.
CONSTANTS
    MaxTask = 2
    TIMESLICE = 1
    MAX_SLEEPERS = 1
    SEM_MAX = 1
    MaxCount = 1
    WORD = 64
    SleepMs <- MCSleepMs
    Victims <- NoVictim
SPECIFICATION SFairSpec
PROPERTY ShellReturns
CHECK_DEADLOCK FALSE
