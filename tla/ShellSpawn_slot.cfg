SPECIFICATION SpawnSpec
CONSTANTS
    PROC_MAX = 4
    SCHED_TICKS = 1
    Spawned = 1
    Calls = {"exec"}
    MaxPid = 4
PROPERTY LiveKeepsPid
