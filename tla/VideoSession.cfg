SPECIFICATION FairSpec
CONSTANTS
    Modulus = 8
    MaxBuffered = 1
    QueueLimit = 2
    Window = 2
    MaxFaults = 1

    
PROPERTIES
    DecodesInSequence
    ViewerRecovers
