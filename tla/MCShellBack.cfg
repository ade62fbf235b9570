\* The shell comes back only when its child has exited: violated.
CONSTANTS
    MaxTask = 3
    TIMESLICE = 1
    MAX_SLEEPERS = 1
    SEM_MAX = 1
    MaxCount = 1
    WORD = 64
    SleepMs <- MCSleepMs
    Victims <- NoVictim
SPECIFICATION SSpec
PROPERTY BackMeansExited
CHECK_DEADLOCK FALSE
