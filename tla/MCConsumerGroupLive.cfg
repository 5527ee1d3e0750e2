SPECIFICATION LiveSpec
CONSTANTS
    Bootstrap = {s1}
    Brokers = {b1}
    Partitions = {p1}
    MemberIds = {m1, m2, m3}
    NoMember = NoMember
    Generations = {1, 2, 3, 4, 5}
    NoGeneration = NoGeneration
    MaxOffset = 1
    Absent = Absent
    NULL = NULL
    Empty = Empty
    None = None
    MaxFaults = 0
PROPERTIES KeepsFetching
