SPECIFICATION Spec
CONSTANTS
    Sockets = {s1, s2, s3}
    NoSocket = NoSocket
    Never = Never
    Watchdog = 8
    WatchEvery = 2
    MaxBackoff = 10
    MinBackoff = 1
    ShowAfter = 3
    Prompt = 3
INVARIANTS
    OneVoice
    SocketOrTimer
    OpenIsHonest
    SilenceBounded
PROPERTIES
    Reconnects
