------------------------------ MODULE BcdCodec ------------------------------
(***************************************************************************)
(* The request datagram: PgwClient::encodeImsiToBcd and the tests that the *)
(* loop of UdpServer::extractImsiFromBcd makes of each byte.  A byte is a  *)
(* number below 256, an IMSI the sequence of its digits; what the library  *)
(* does with characters is left out.                                       *)
(***************************************************************************)
EXTENDS Sequences, Integers

Byte  == 0..255
Digit == 0..9

ImsiLength == 15
HeaderSize == 4
MinLength  == 8          \* shorter datagrams are not looked into
Filler     == 15         \* 0xF, for the digit that is missing

\* imsi.length() == 15, and every character a digit.
IsImsi(s) == Len(s) = ImsiLength /\ \A k \in 1..Len(s) : s[k] \in Digit

Low(byte)  == byte % 16
High(byte) == byte \div 16

\* Mutant of PairByte: the digits of a pair change places.
PairByteSwapped(s, k) == (IF k < Len(s) THEN s[k + 1] ELSE Filler) + 16 * s[k]

\* The byte that holds digits k and k + 1 of s: the first in the low half; the
\* filler stands for a second one that s does not have.
PairByte(s, k) == s[k] + 16 * (IF k < Len(s) THEN s[k + 1] ELSE Filler)

Header == <<1, 0, 0, 0>>

\* encodeImsiToBcd of a valid IMSI.
EncodeImsiToBcd(s) ==
    [n \in 1..(HeaderSize + (Len(s) + 1) \div 2) |->
        IF n <= HeaderSize THEN Header[n] ELSE PairByte(s, 2 * (n - HeaderSize) - 1)]

-----------------------------------------------------------------------------
(* What the decoder is there to compute, said without its loop.            *)

\* Half k of the bytes that follow the header, counted from the low half of
\* the first one.
Nibble(packet, k) ==
    IF k % 2 = 1 THEN Low(packet[HeaderSize + (k + 1) \div 2])
                 ELSE High(packet[HeaderSize + k \div 2])

\* There are fifteen digits, and nothing else, at the head of the payload.
\* What follows them, the last half of their last byte included, is ignored.
WellFormed(packet) ==
    /\ 2 * (Len(packet) - HeaderSize) >= ImsiLength
    /\ \A k \in 1..ImsiLength : Nibble(packet, k) \in Digit

ImsiOf(packet) == [k \in 1..ImsiLength |-> Nibble(packet, k)]
=============================================================================
