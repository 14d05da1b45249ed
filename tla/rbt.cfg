CONSTANTS
    Nodes = {n1, n2, n3}
    Keys = {0, 1, 2, 3}
    Sentinel = sentinel
    NULL = null
SPECIFICATION Spec
INVARIANTS
    NothingToRebalance
    NodesAreHanded
