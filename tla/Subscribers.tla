---------------------------- MODULE Subscribers ----------------------------
(***************************************************************************)
(* The subscribers the server knows of.  An IMSI is a model value: the     *)
(* decoding of a packet into one is the business of BcdCodec.              *)
(* domain/Blacklist is a set filled once, before any thread starts         *)
(* (AppBootstrap::setupComponents), hence a constant.                      *)
(***************************************************************************)
CONSTANTS Imsi,         \* the well-formed IMSIs that requests carry
          Blacklisted   \* Blacklist::_blacklist

ASSUME BlacklistAssumption == Blacklisted \subseteq Imsi

IsBlacklisted(i) == i \in Blacklisted
=============================================================================
