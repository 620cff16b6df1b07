SPECIFICATION FairSpec
CONSTANTS
    max_length = 4
    MaxAdds = 9
INVARIANTS
    NoSlotRace
    InOrder
PROPERTIES
    Delivered
    ImplementsChannel
