\* Late and lost replies, retries, LIST walks and a round that ends in a call.
CONSTANTS
    Nonces = {n1, n2, n3}
    MaxAttempts = 3
    MaxPages = 2
    MaxLosses = 1
    MaxRoundEnds = 1
SPECIFICATION FairSpec
INVARIANTS TypeOK
PROPERTIES WaitsForItsReply CallsAdvance OperationSpec
