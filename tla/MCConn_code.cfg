\* Two writers, two messages each, a channel of capacity one.
CONSTANTS
    w1 = w1
    w2 = w2
    o1 = o1
    o2 = o2
    o3 = o3
    o4 = o4
    Nobody = Nobody
    Writers <- TwoWriters
    Payloads <- FourPayloads
    Cap = 1
    MaxWrites = 2
SPECIFICATION FairSpec
INVARIANTS ConnInv
PROPERTIES QueueSpec WritesReturn Delivery
CHECK_DEADLOCK FALSE
