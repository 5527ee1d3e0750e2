SPECIFICATION Spec
CONSTANTS
    MessageSizes = {14, 17}
    MaxMessages = 2
    MaxPartitions = 2
INVARIANTS TypeOK HeadersFound SizesAgree CompleteMessages OnlyCutFirst
PROPERTIES Ends
