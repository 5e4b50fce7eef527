\* Two calls on the spec tier, one on a hand-written Service; any may hang.
SPECIFICATION FairSpec
CONSTANTS
    c1 = c1
    c2 = c2
    c3 = c3
    Calls = {c1, c2, c3}
    MinCalls = 3
    Scripts <- MCScripts
    Custom = {c1}
    CustomMessages <- MCMessages
    MaxMessages = 2
    ChunkSize = 1
INVARIANTS VerdictSound VerdictComplete SpecDeliversOneResult NothingLeftBehind
PROPERTY CaseReturns
