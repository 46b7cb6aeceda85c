CONSTANTS
    Source = a
    Sink = b
    End <- TwoEnds
    SendCap = 1
    ReceivedCap = 1
    WireCap = 1
    Transactional <- TheSource
    MaxSends <- SixAndOne
    StaysUp = FALSE
SPECIFICATION Spec
PROPERTIES
    ImplementsLink
    CloseEnds
    Delivered
CHECK_DEADLOCK FALSE
