SPECIFICATION ThrottleSpec
CONSTANTS
    Clients = {client}
    Rates <- MCRates
    Bursts <- MCBursts
    DefaultRate = 500
    DefaultBurst = 1
    TicksPerMs = 2
    NoBucket = NoBucket
    MaxGap = 0
    MaxTime = 8
    Consumers = {c1, c2, c3}
    Sizes <- MCSizes
    InitialSize = 3
    MaxAccepted = 4
INVARIANTS SteadyClientIsServed
