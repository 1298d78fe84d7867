\* Server files with up to two unusual keys, read or not, and client files beside them.
SPECIFICATION BothSpec
CONSTANTS
    Document <- MCDocument
    CountModulus <- MCModulus
    ClientFiles <- MCClientFiles
INVARIANTS
    TypeOK
    LoadExact
    VerdictExact
    ReadyIsUsable
    ClientLoadExact
    PortsAgree
PROPERTIES
    ClientEnds
