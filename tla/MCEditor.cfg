SPECIFICATION Spec
CONSTANTS
    ED_MAX_LINES = 3
    ED_LINE_MAX = 2
    ED_ROWS = 2
    Capacity = 4
    a = 97
    b = 32
    Break = 10
    Byte = {10, 32, 97}
    Chars = {32, 97}
    Queries <- MCQueries
    OtherFiles <- MCFiles
    MaxChars = 3
    ABSENT = ABSENT
    NOBUF = NOBUF
    LINE_BUF = 3
    GREP_BUF = 4
    SORT_LINES = 3
    RING = 2
    Count = 2
    Blanks = {32}
    Patterns <- MCPatterns
    Stale <- MCStale
INVARIANTS CursorVisible UnmodifiedIsSaved ToolsPrintLines ToolsFindAndCount
PROPERTY IsTextBuffer
