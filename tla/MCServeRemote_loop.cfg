\* Up to two connections whose goroutines overlap.
SPECIFICATION FairSpec
CONSTANTS
    Conns = {k1, k2}
    Options <- UsualOptions
    DefaultInitial = 1
    DefaultMax = 30
    MaxSleeps = 7
INVARIANTS TypeOK HandshakeFirst BackoffFollowsFailures
PROPERTIES DropEndsServe ConnectionsReleased KeepsRedialling KeepsOneConnection
