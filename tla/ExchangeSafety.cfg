\* Two clients and other senders over a network that loses, repeats and delays.
SPECIFICATION Spec
CONSTANTS
    Imsi <- MCImsi
    Blacklisted <- MCBlacklisted
    Client = {c1, c2}
    Flooder = {f1}
    Other = {o1}
    Datagram <- MCDatagram
    Argument <- MCArgument
INVARIANTS
    TypeOK
    ExtractsTheImsi
    AnswersAreVerdicts
