\* A call_error after a chunk loses its type.
SPECIFICATION Spec
CONSTANTS
    s1 = s1
    Calls = {c1}
    Sessions = {s1}
    SessionOf <- OneSession
    Streams = {p1}
    Fragments <- AllFragments
    MaxFragments = 2
INVARIANT CallErrorIsTyped
