\* Two calls of one session, two Permissions streams, unchunked results.
SPECIFICATION Spec
CONSTANTS
    s1 = s1
    Calls = {c1, c2}
    Sessions = {s1}
    SessionOf <- OneSession
    Streams = {p1, p2}
    Fragments <- WholeOnly
    MaxFragments = 1
INVARIANTS NoDoubleClose NoLostCaller NoLeak CachedOnlyAfterBareGrant
PROPERTY ImplementsContract
SYMMETRY Symmetry
