---------------------------- MODULE MCUdpExchange ----------------------------
(***************************************************************************)
(* UdpExchange for TLC: two IMSIs that differ in their last digit, one of  *)
(* them blacklisted, and datagrams around every test of the decoder.       *)
(***************************************************************************)
EXTENDS UdpExchange

MCServed == <<0, 0, 1, 0, 1, 0, 1, 2, 3, 4, 5, 6, 7, 8, 0>>
MCBarred == <<0, 0, 1, 0, 1, 0, 1, 2, 3, 4, 5, 6, 7, 8, 9>>

MCImsi == {MCServed, MCBarred}
MCBlacklisted == {MCBarred}

\* A proper IMSI and one that lacks its last digit.
MCArgument == MCImsi \cup {SubSeq(MCServed, 1, 14)}

MCProper == EncodeImsiToBcd(MCServed)

\* An empty datagram; one just too short to be looked into and one just long
\* enough; one digit missing, with the filler where it should not be; a trailing byte,
\* a digit in place of the filler; a bad digit in a low and in a high half.
MCDatagram ==
    {<<>>, SubSeq(MCProper, 1, 7), SubSeq(MCProper, 1, 8), SubSeq(MCProper, 1, 11),
     [MCProper EXCEPT ![11] = 240 + Low(@)],
     [SubSeq(MCProper, 1, 11) EXCEPT ![11] = 240 + Low(@)],
     Append(MCProper, 255),
     [MCProper EXCEPT ![12] = Low(@)],
     [MCProper EXCEPT ![6] = 10],
     [MCProper EXCEPT ![6] = 160]}
=============================================================================
