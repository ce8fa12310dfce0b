SPECIFICATION LiveSpec
CONSTANTS
    t1 = t1
    t2 = t2
    Rows = {1, 2}
    Threads = {poller, hook}
    Poller = poller
    Shas = {s1, s2}
    Texts = {t1, t2}
    bare = bare
    suffixed = suffixed
    Words = {bare, suffixed}
    Number <- Numbers
    Branchable = {suffixed}
    Gradable = {}
    Scenarios <- Mixed
    None = None
INVARIANTS
    OneStarter
    WithheldUntilReady
    CardTellsTheTruth
PROPERTIES
    CalmBoardIsServed
