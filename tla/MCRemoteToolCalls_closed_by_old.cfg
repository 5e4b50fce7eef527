\* The end of the old Permissions stream fails a call of the new connection.
SPECIFICATION RemoteSpec
CONSTANTS
    s1 = s1
    Conns = {k1, k2}
    Calls = {c1}
    Sessions = {s1}
    SessionOf <- OneSession
    Fragments <- WholeOnly
    MaxFragments = 1
INVARIANT ClosedMeansNoReply
