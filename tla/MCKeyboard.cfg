CONSTANTS
    Keys = {"lshift", "rshift", "letter", "up", "kpslash", "pause"}
    QueueMax = 4
SPECIFICATION KeyboardSpec
INVARIANTS KeyboardTypeOK NothingLeftOver
PROPERTIES KeysAsTyped
