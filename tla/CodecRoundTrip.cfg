SPECIFICATION CodecSpec
CONSTANTS
    Channels <- AllChannels
    Voltages <- SomeVoltages
    Orders <- LowFirst
    Faults <- AllFaults
INVARIANTS
    CodecTypeOK
    MeasurementsArrive
    StampAligned
