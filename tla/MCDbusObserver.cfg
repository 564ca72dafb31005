CONSTANTS
    Requests = {q1, q2, q3}
    NoRequest = NoRequest
    Clients = {c1}
    MaxNested = 2
SPECIFICATION ObserverFairSpec
INVARIANTS ObserverTypeOK AnsweredOnce ActiveInLoop
PROPERTY ScheduledAnswered
