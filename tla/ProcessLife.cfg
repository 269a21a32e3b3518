SPECIFICATION FairSpec
CONSTANTS
    IntBits = 5
    WordBits = 6
    IntText <- Ints
    DurText <- Durs
    UnitScale <- Scales
    PlainWords = {"word", "-", "", "0", "1", "3", "9", "20"}
    Defaults <- DefaultCfg
    DefaultPort = 3
    Starts <- AllStarts
    Clients = {"c1", "c2"}
    Probe = "probe"
    MaxPort = 10
    MaxAcceptErrs = 1
INVARIANTS
    
    NoOrphan
    SlotsExact
PROPERTIES
    
    LaunchReturns
    AcceptReaches
CHECK_DEADLOCK FALSE
