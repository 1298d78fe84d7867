\* The completion notified before its waiter sleeps.
SPECIFICATION FairSpec
CONSTANTS
    h1 = h1
    h2 = h2
    Stopper <- MCStopper
    Main = main
PROPERTIES
    ShutdownExits
