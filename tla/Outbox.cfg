CONSTANTS
    r1 = r1
    r2 = r2
    Events <- ThreeEvents
    Relays <- TwoRelays
    Batch = 2
    MaxFaults = 1
SPECIFICATION FairSpec
INVARIANTS
    TypeOK
    MarkedAfterTold
    RepeatsHaveCauses
    SuspensionTakesHold
PROPERTIES
    ImplementsAnnouncements
    EveryEventIsTold
