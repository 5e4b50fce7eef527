\* One call, two Permissions streams, every kind of fragment.
SPECIFICATION FairSpec
CONSTANTS
    s1 = s1
    Calls = {c1}
    Sessions = {s1}
    SessionOf <- OneSession
    Streams = {p1, p2}
    Fragments <- AllFragments
    MaxFragments = 3
INVARIANTS TypeOK ResolvedHasCause
PROPERTIES ResolvedEntryFrozen CallReturns DyingStreamWakesCallers
