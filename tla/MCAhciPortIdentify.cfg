CONSTANTS
    Lbas = {l1}
    Data = {x, y}
    Bufs = {b1}
    Polls = 2
SPECIFICATION Spec
PROPERTIES CapacityIsTheDisks
