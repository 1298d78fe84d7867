\* Start, stop and their failures, with two /stop requests, signals and the log;
\* every thread scheduled fairly.
SPECIFICATION FairSigSpec
CONSTANTS
    h1 = h1
    h2 = h2
    Stopper <- MCStopper
    Main = main
    LevelText <- MCLevelText
INVARIANTS
    TypeOK
    SigTypeOK
    DrainNeverCutShort
    OnlyFailedListenerLeaks
    OneSleeper
    WaitsEnd
    SinkHeldAtStartOnly
PROPERTIES
    PhasesRefined
    OnlyChanceWakes
    StopHonoured
    FailedStartExits
