\* Output ends, with the kill command: violated.
CONSTANTS
    MaxTask = 2
    TIMESLICE = 1
    MAX_SLEEPERS = 1
    SEM_MAX = 1
    MaxCount = 1
    WORD = 64
    SleepMs <- MCSleepMs
    Victims <- HelloPid
SPECIFICATION SFairSpec
PROPERTY PutsReturns
CHECK_DEADLOCK FALSE
