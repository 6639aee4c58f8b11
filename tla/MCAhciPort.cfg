CONSTANTS
    Lbas = {l1,l2}
    Data = {x, y}
    Bufs = {b1,b2}
    Polls = 2
SPECIFICATION Spec
INVARIANTS SectorsAsWritten
PROPERTIES ReadsTellTheTruth BuffersAreQuiet CallsReturn
