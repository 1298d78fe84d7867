\* An HTTP port that cannot be bound.
SPECIFICATION Spec
CONSTANTS
    h1 = h1
    h2 = h2
    Stopper <- MCStopper
    Main = main
INVARIANTS
    ThreadsJoinedAtExit
