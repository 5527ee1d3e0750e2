SPECIFICATION RecoverySpec
CONSTANTS
    Bootstrap = {s1}
    Brokers = {b1, b2}
    Partitions = {p1}
    MemberIds = {m1}
    NoMember = NoMember
    Generations = {g1}
    NoGeneration = NoGeneration
    MaxOffset = 1
    Absent = Absent
    NULL = NULL
PROPERTIES Recovers
