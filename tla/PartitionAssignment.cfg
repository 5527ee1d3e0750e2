SPECIFICATION Spec
CONSTANTS
    MaxPartitions = 5
    MaxMembers = 6
INVARIANTS TypeOK NeverPastTheEnd ExactlyOneOwner Balanced StoresShares
PROPERTIES Terminates
