SPECIFICATION Spec
CONSTANTS
    CMD_BUF_SIZE = 4
    HISTORY_SIZE = 2
    Alphabet = {"a", "l", " "}
    Chars = {"a"}
    NUL = "0"
    Blank = " "
    cmds <- MCWords
    REBOOT <- MCReboot
    RUN <- MCRun
    BANG <- MCBang
    Scripts <- MCScripts
    Nesting = 2
    OldFiles <- MCFiles
    MaxLines = 2
    MaxQuery = 1
    ENV_MAX_VARS = 2
    ENV_KEY_MAX = 3
    ENV_VAL_MAX = 2
    Keys <- MCKeys
    Values <- MCValues
    NoValue = NoValue
    EnvCalls <- MCCalls
INVARIANTS LineKept HistoryIsEntered CalcFollowsGrammar EnvironmentIsMap
PROPERTIES RecallShowsEntry ScriptEnds
