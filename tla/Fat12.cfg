SPECIFICATION Spec
CONSTANTS
    TotalClusters = 3
    SectorsPerCluster = 1
    RootEntries = 2
    FatSectorBytes = 4
    FatSectors = 2
    NumFats = 1
    ShortNames = {a, b}
    LongNames = {long}
    Cut = a
    Values = {v}
    MaxSectors = 2
    ABSENT = ABSENT
INVARIANTS ChainsDisjoint CrashKeepsOthers EntriesFound
PROPERTIES NoLeak IsFileStore
