SPECIFICATION PrSpec
CONSTANTS
    Events = {e1, e2, e3}
    Handlers = {h1, h2}
    NoEvent = NoEvent
    MaxNumber = 2
    MaxSecond = 1
    MaxTorn = 1
SYMMETRY Symmetry
INVARIANTS
    RecordConverges
    CardConvergesUntorn
PROPERTIES
    RecordOnlyAdvances
