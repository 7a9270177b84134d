CONSTANT QueueLimit = 2
SPECIFICATION FairSpec
INVARIANTS TypeOK TransferExists FreedQuiescent QueueBounded NoHandleLeft
PROPERTIES CloseReturns OpenReturns
