\* Two goroutines that log, and the heartbeat.
SPECIFICATION FairSpec
CONSTANTS
    Writers = {w1, w2}
    Heartbeat = hb
INVARIANTS TypeOK SerialSends StreamKeptAlive HandlerSpeaksForImpl
PROPERTIES HeartbeatsContinue TeardownCompletes ErrorPropagated
