\* Four slots and positions of four bits: the words wrap around.
CONSTANTS
    Slots = 4
    WordSize = 16
    Payload = {ping, text}
    Garbage = Garbage
SPECIFICATION Spec
INVARIANTS
    ViewIsHead
PROPERTIES
    ImplementsFifo
    RefusedOnlyWhenFull
