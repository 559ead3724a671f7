SPECIFICATION FairSpec
CONSTANTS
    a1 = a1
    a2 = a2
    Addrs = {a1, a2}
    ChannelOf <- TwoChannels
    Writes <- SomeWrites
    Others <- SomeOthers
    QMax = 1
    MaxPkts = 3

INVARIANTS
    TypeOK
    StallsMatchPeer
    CountersMatch
    ResponseScheduled
    DeletedUnused
PROPERTIES
    ImplementsPort
    RequestRetried
    RequestAnswered
