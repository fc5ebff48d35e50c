CONSTANTS
    Timelines = {t1}
    NodeNames = {n1, n2}
    Threads = {h1}
    NoValue = NoValue
    AccIn <- MCAccIn
    ResIn <- MCResIn
    MetaIn <- MCMetaIn
    MaxNum = 3
    ZkFaults = FALSE
    NatsFaults = FALSE
SPECIFICATION Spec
INVARIANT TypeOK
INVARIANT NumNodesMatches
INVARIANT QoTCoversMembers
INVARIANT MirrorMatchesDB
INVARIANT PublishedMatchesDB
