CONSTANTS
    Lbas = {l1}
    Data = {a, b}
    Garbage = garbage
    Wirings <- AllDisks
    Polls = 2
SPECIFICATION Spec
INVARIANTS ReadsTellTheTruth SectorsAsWritten CallsFailOnErrors
PROPERTIES NeverTalksOver CallsReturn ScanReturns
