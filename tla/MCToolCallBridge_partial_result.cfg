\* A partial result does not stop the write-off.
SPECIFICATION Spec
CONSTANTS
    s1 = s1
    Calls = {c1}
    Sessions = {s1}
    SessionOf <- OneSession
    Streams = {p1}
    Fragments <- AllFragments
    MaxFragments = 2
INVARIANT UnsupportedMeansNoResult
