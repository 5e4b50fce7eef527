\* A call over two connections whose handlers overlap.
SPECIFICATION RemoteFairSpec
CONSTANTS
    s1 = s1
    Conns = {k1, k2}
    Calls = {c1}
    Sessions = {s1}
    SessionOf <- OneSession
    Fragments <- WholeOnly
    MaxFragments = 1
INVARIANT NoEntryOutlivesConnection
PROPERTY LostConnectionEndsHandlers
