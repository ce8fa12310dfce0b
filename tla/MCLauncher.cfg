SPECIFICATION LiveSpec
CONSTANTS
    Clients = {grader, gate}
    Nobody = Nobody
    Probe = Probe
    Patience = 15
    Quick = {1, 7}
    Slow = {17}
    Rests = {1, 2}
    Cases = 2
    Backlog = 4
    MaxProbes = 2
PROPERTIES
    NoNeedlessTimeout
    ClientsAreServed
