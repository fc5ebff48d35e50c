CONSTANTS
    Timelines = {t1}
    NodeNames = {n1, n2}
    Threads = {h1}
    NoValue = NoValue
    AccIn <- MCAccInFaults
    ResIn <- MCResInFaults
    MetaIn <- MCMetaIn
    MaxNum = 3
    ZkFaults = TRUE
    NatsFaults = TRUE
SPECIFICATION Spec
INVARIANT NumNodesMatches
INVARIANT QoTCoversMembers
