--------------------------- MODULE MCRateLimiter ---------------------------
(* RateLimiter for TLC: two subscribers, none of them blacklisted.         *)
EXTENDS RateLimiter

CONSTANTS a, b

MCImsi == {a, b}
MCNobody == {}
=============================================================================
