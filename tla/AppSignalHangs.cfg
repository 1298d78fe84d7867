\* A signal taken in the middle of a log call.
SPECIFICATION SigSpec
CONSTANTS
    h1 = h1
    h2 = h2
    Stopper <- MCStopper
    Main = main
    LevelText <- MCLevelText
INVARIANTS
    HandlerNeverHangs
