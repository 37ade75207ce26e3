SPECIFICATION FairSpec
CONSTANTS
    Queues = {q1}
    Sockets = {s1}
    Workers = {w1, w2}
    MESSAGE_AGENT_MAX_QUEUE_SIZE = 1
    MaxMsgs = 2
    Undecodable = {2}
    MaxAckFailures = 1
    MaxOutages = 1
    MaxLostAnswers = 1
    None = None
INVARIANTS NothingLost OverrunIsBounded
CHECK_DEADLOCK FALSE
PROPERTY EventuallyGot
