SPECIFICATION Spec
CONSTANTS
    Names = {"etc","dev"}
    MAX_CHILDREN = 2
    MaxNodes = 6
    MaxDepth = 1
INVARIANTS TreeShape CwdIsDirectory
PROPERTIES NothingLost
