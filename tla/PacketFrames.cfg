SPECIFICATION FairSpec
CONSTANTS
    Base = 4
    PacketStartByte = 2
    Payloads <- SomePayloads
    Noise <- AnyNoise
    Padding <- Zeros
    Beyond <- Zeros
    MaxPackets = 2
INVARIANTS
    TypeOK
    RoundTrips
    DamageIsLocal
PROPERTIES
    ReadingEnds
CHECK_DEADLOCK FALSE
