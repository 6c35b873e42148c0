SPECIFICATION Spec
CONSTANTS
    PIPE_BUF_SIZE = 3
    Byte = {0, 1}
    MaxWrite = 4
    Writes <- MCWrites
    Reads = {0, 1, 2, 4}
PROPERTY IsFifo
