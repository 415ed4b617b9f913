SPECIFICATION FairSpec
CONSTANTS
    p1 = p1
    p2 = p2
    c1 = c1
    c2 = c2
    Producers = {p1, p2}
    Steadfast = {p2}
    TryConsumers = {c1}
    TimedConsumers = {c2}
    Maxsize = 1
    MaxPuts = 2
INVARIANTS
    TrueAnswers
    AtMostOneLate
PROPERTIES
    PutReleased
    ConsumersEnd
CHECK_DEADLOCK FALSE
