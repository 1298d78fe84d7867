--------------------------- MODULE MCAppLifecycle ---------------------------
(* AppLifecycle for TLC: two /stop requests and the main thread's signals. *)
EXTENDS AppLifecycle

CONSTANTS h1, h2

MCStopper == {h1, h2}
=============================================================================
