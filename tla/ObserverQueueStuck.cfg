CONSTANTS
    Requests = {q1, q2}
    NoRequest = NoRequest
    Clients = {c1}
    MaxNested = 1
SPECIFICATION ObserverFairSpec
PROPERTY QueueDrains
