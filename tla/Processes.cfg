SPECIFICATION ProcSpec
CONSTANTS
    PROC_MAX = 3
    SCHED_TICKS = 2
    Spawned = 1
    Calls = {"exit", "fork", "wait", "exec"}
    MaxPid = 4
INVARIANTS PidsUnique RunningIsCurrent
PROPERTIES ZombieOnlyReaped ScanAdvances
