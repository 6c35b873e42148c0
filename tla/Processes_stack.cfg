SPECIFICATION ProcSpec
CONSTANTS
    PROC_MAX = 2
    SCHED_TICKS = 2
    Spawned = 1
    Calls = {"exit"}
    MaxPid = 2
PROPERTY SwitchRestoresContext
