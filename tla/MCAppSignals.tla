----------------------------- MODULE MCAppSignals -----------------------------
(***************************************************************************)
(* AppSignals for TLC: two /stop requests, signals of both kinds, and a    *)
(* log level for each way in which the handler and the drain may log.      *)
(***************************************************************************)
EXTENDS AppSignals

CONSTANTS h1, h2

MCStopper == {h1, h2}

\* "verbose" is no level, and stands for INFO, where handlers hang; at WARN they
\* are silent and main and drain may not be.  Off, where all are, comes with SigInit.
MCLevelText == {"verbose", "WARN"}
===============================================================================
