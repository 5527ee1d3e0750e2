SPECIFICATION Spec
CONSTANTS
    Bootstrap = {s1}
    Brokers = {b1, b2}
    Partitions = {p1, p2}
    MemberIds = {m1}
    NoMember = NoMember
    Generations = {g1}
    NoGeneration = NoGeneration
    MaxOffset = 1
    Absent = Absent
    NULL = NULL
SYMMETRY Symmetry
INVARIANTS TypeOK EventHandled PointersUsable OwnershipIndexed CommitsAdvance RoundStartsConnected
PROPERTIES TrapsAreFinal JoinsConnected RoundsShrink BrokersAsPromised
