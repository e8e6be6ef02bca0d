CONSTANTS
    x = x
    Script <- MCScript
    Changes <- MCChanges
    MaxConnections = 2
    MaxSubscriptions = 2
    MaxVersion = 1
    MaxSessions = 2
    Quiet <- MCQuiet
SPECIFICATION FairSpec
PROPERTIES SubscriberLearns
