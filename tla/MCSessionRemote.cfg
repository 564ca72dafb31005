CONSTANTS
    Remotes = {r1, r2}
    Users = {u1}
    NoUser = NoUser
    MaxLost = 2
SPECIFICATION RemoteFairSpec
INVARIANTS RemoteTypeOK NeverStalls
PROPERTIES DisposeReturns TerminateEnds
