CONSTANTS
    x = x
    Script <- MCScript
    Changes <- MCChanges
    MaxConnections = 2
    MaxSubscriptions = 2
    MaxVersion = 1
    MaxSessions = 3
    Quiet <- MCQuiet
SPECIFICATION FairSpec
INVARIANTS TypeOK
PROPERTIES HeadersInOrder HeadersLearn SubscriberLearnsUnlessChurned
