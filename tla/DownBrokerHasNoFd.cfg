SPECIFICATION Spec
CONSTANTS
    s1 = s1
    s2 = s2
    Bootstrap = {s1, s2}
    Brokers = {1, 2, 3}
    Server <- MCServer
    Ip <- MCIp
    MaxFd = 6
    Closed = 0
PROPERTY DownBrokerHasNoFd
