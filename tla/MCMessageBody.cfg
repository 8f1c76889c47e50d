SPECIFICATION Spec
CONSTANT Requests <- MCRequests
INVARIANTS MessageIsBuilt ReceivedIsSent
