SPECIFICATION Spec
CONSTANTS
    DISK_CACHE_SLOTS = 2
    Lba = {l0, l1, l2}
    Data = {a, b}
    Faults = {"read", "write"}
INVARIANTS NoAlias NothingLost Durable FlushCompletes
