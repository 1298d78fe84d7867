------------------------- MODULE MCSessionLifecycle -------------------------
(***************************************************************************)
(* SessionLifecycle for TLC: three subscribers, of which one blacklisted,  *)
(* and model values for everything else.                                   *)
(***************************************************************************)
EXTENDS SessionLifecycle, TLC

CONSTANTS a, b, x

MCImsi == {a, b, x}
MCBlacklisted == {x}
MCTwoImsi == {a, x}

\* a and b are interchangeable: only x is named by a constant.
MCSymmetry == Permutations({a, b})
=============================================================================
