CONSTANT QueueLimit = 2
SPECIFICATION Spec
INVARIANT TransferIdleAtFree
