SPECIFICATION FdSpec
CONSTANTS
    FD_MAX = 4
    PIPE_MAX = 1
    PIPE_BUF_SIZE = 1
    CAPACITY = 2
    Nodes = {file, dir}
    Dirs = {dir}
    NO_NODE = NO_NODE
    Sizes = {0, 1, 3}
INVARIANTS OffsetsInFile EntriesUsable
