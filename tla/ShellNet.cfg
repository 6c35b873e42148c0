SPECIFICATION Spec
CONSTANTS
    NumTx = 3
    NumRx = 2
    NoFrame = NoFrame
    NoMac = NoMac
    MaxSent = 2
    Ips <- MCIps
    Macs <- MCMacs
    my_ip <- me
    gw_ip <- gateway
    gw_mac = 0
    Frames <- MCFrames
    Typed <- MCTyped
    ARP_CACHE_SIZE = 2
    ArpTries = 2
    PingTries = 1
    MaxCommands = 2
INVARIANTS RxIsQueue CacheIsLatest
PROPERTIES AckedIsSent WireInOrder SentToLatest CallsReturn
CHECK_DEADLOCK FALSE
