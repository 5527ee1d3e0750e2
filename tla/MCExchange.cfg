SPECIFICATION Spec
CONSTANTS
    Group = 5
    Topic = 4
    PartitionLists <- MCPartitionLists
    BrokerLists <- MCBrokerLists
    ReplicaLists <- MCReplicaLists
    MemberLists <- MCMemberLists
    ErrorCodes = {0, 16}
    MessageSetSizes = {0, 30}
    MemberIds <- MCMemberIds
    Generations = {1}
    OffsetLists <- MCOffsetLists
    Assignments <- MCAssignments
    Brokers = {1, 2}
    NoRequest = NoRequest
    RequestsSent <- WireRequests
    CorrelationId <- WireCorrelationId
    PacketSize <- WirePacketSize
    Understands <- WireUnderstands
    Answers <- WireAnswers
    Cuts <- MCCuts
INVARIANTS TypeOK RequestsUnderstood Drained EndingsKnown
PROPERTIES ExchangeEnds
