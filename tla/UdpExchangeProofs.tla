-------------------------- MODULE UdpExchangeProofs --------------------------
(***************************************************************************)
(* Encoding and decoding agree for every IMSI and every datagram, and no   *)
(* client is told what was said of somebody else, for any set of senders   *)
(* and whatever the network does.  ExtractInv says how far the decoder's   *)
(* loop has come; RouteInv follows an IMSI from the client that asked to   *)
(* the answer it gets.                                                     *)
(***************************************************************************)
EXTENDS UdpExchange, SequenceTheorems, TLAPS

LEMMA Halves ==
    ASSUME NEW a \in 0..15, NEW b \in 0..15
    PROVE  /\ a + 16 * b \in Byte
           /\ Low(a + 16 * b) = a
           /\ High(a + 16 * b) = b
  BY DEF Byte, Low, High

LEMMA FilledHalf ==
    ASSUME NEW a \in 0..15
    PROVE  a + 16 * 15 \in Byte /\ Low(a + 16 * 15) = a
  BY DEF Byte, Low

LEMMA ByteHalves ==
    ASSUME NEW b \in Byte
    PROVE  Low(b) \in 0..15 /\ High(b) \in 0..15
  BY DEF Byte, Low, High

\* A function on 1..n is a sequence of length n.
LEMMA FunctionIsSeq ==
    ASSUME NEW S, NEW n \in Nat, NEW f \in [1..n -> S]
    PROVE  f \in Seq(S)
<1>1. f \in UNION {[1..m -> S] : m \in Nat}
  OBVIOUS
<1> QED
  BY <1>1, SeqDef, Zenon

\* Two digits more.
LEMMA TwoMore ==
    ASSUME NEW s \in Seq(Digit), NEW a \in Digit, NEW b \in Digit
    PROVE  /\ s \o <<a, b>> \in Seq(Digit)
           /\ Len(s \o <<a, b>>) = Len(s) + 2
           /\ \A k \in 1..Len(s) : (s \o <<a, b>>)[k] = s[k]
           /\ (s \o <<a, b>>)[Len(s) + 1] = a
           /\ (s \o <<a, b>>)[Len(s) + 2] = b
<1> DEFINE t == <<a, b>>
<1>1. t \in Seq(Digit) /\ Len(t) = 2 /\ t[1] = a /\ t[2] = b
  OBVIOUS
<1>2. Len(s) \in Nat
  OBVIOUS
<1> HIDE DEF t
<1>3. /\ s \o t \in Seq(Digit)
      /\ Len(s \o t) = Len(s) + Len(t)
      /\ \A k \in 1..Len(s) + Len(t) : (s \o t)[k] = IF k <= Len(s) THEN s[k] ELSE t[k - Len(s)]
  BY <1>1, ConcatProperties
<1>4. /\ Len(s) + 1 \in 1..Len(s) + 2 /\ ~(Len(s) + 1 <= Len(s)) /\ (Len(s) + 1) - Len(s) = 1
      /\ Len(s) + 2 \in 1..Len(s) + 2 /\ ~(Len(s) + 2 <= Len(s)) /\ (Len(s) + 2) - Len(s) = 2
      /\ \A k \in 1..Len(s) : k \in 1..Len(s) + 2 /\ k <= Len(s)
  BY <1>2
<1>5. (s \o t)[Len(s) + 1] = a /\ (s \o t)[Len(s) + 2] = b
  BY <1>1, <1>3, <1>4
<1>6. \A k \in 1..Len(s) : (s \o t)[k] = s[k]
  BY <1>1, <1>3, <1>4
<1>7. s \o t \in Seq(Digit) /\ Len(s \o t) = Len(s) + 2
  BY <1>1, <1>3
<1> QED
  BY <1>5, <1>6, <1>7 DEF t

\* What encodeImsiToBcd makes of a valid IMSI: twelve bytes, half k of the
\* payload being digit k.
LEMMA Encoded ==
    ASSUME NEW s \in Seq(Nat), IsImsi(s)
    PROVE  /\ s \in Seq(Digit)
           /\ EncodeImsiToBcd(s) \in Seq(Byte)
           /\ Len(EncodeImsiToBcd(s)) = 12
           /\ \A k \in 1..ImsiLength : Nibble(EncodeImsiToBcd(s), k) = s[k]
<1> DEFINE p == EncodeImsiToBcd(s)
<1>1. Len(s) = 15 /\ DOMAIN s = 1..15 /\ \A k \in 1..15 : s[k] \in 0..9
  BY DEF IsImsi, ImsiLength, Digit
<1>2. s \in Seq(Digit)
  <2>1. s \in [1..15 -> Digit]
    BY <1>1, LenProperties DEF Digit
  <2> QED
    BY <2>1, FunctionIsSeq
<1>3. \A k \in 1..15 : PairByte(s, k) = s[k] + 16 * (IF k < 15 THEN s[k + 1] ELSE 15)
  BY <1>1 DEF PairByte, Filler
<1>4. \A k \in 1..15 : /\ PairByte(s, k) \in Byte
                       /\ Low(PairByte(s, k)) = s[k]
                       /\ k < 15 => High(PairByte(s, k)) = s[k + 1]
  <2> TAKE k \in 1..15
  <2>1. s[k] \in 0..15 /\ (k < 15 => s[k + 1] \in 0..15)
    BY <1>1
  <2>2. CASE k < 15
    BY <1>3, <2>1, <2>2, Halves
  <2>3. CASE k = 15
    <3>1. PairByte(s, k) = s[k] + 16 * 15
      BY <1>3, <2>3
    <3>2. s[k] + 16 * 15 \in Byte /\ Low(s[k] + 16 * 15) = s[k]
      BY <2>1, FilledHalf
    <3> QED
      BY <2>3, <3>1, <3>2
  <2> QED
    BY <2>2, <2>3
<1>5. p = [n \in 1..12 |-> IF n <= 4 THEN Header[n] ELSE PairByte(s, 2 * (n - 4) - 1)]
  BY <1>1 DEF EncodeImsiToBcd, HeaderSize
<1>6. \A n \in 1..12 : p[n] \in Byte
  <2> HIDE DEF p
  <2> TAKE n \in 1..12
  <2>1. CASE n <= 4
    <3>1. p[n] = Header[n] /\ n \in {1, 2, 3, 4}
      BY <1>5, <2>1
    <3>2. Header[1] = 1 /\ Header[2] = 0 /\ Header[3] = 0 /\ Header[4] = 0
      BY DEF Header
    <3>3. Header[n] \in {0, 1}
      BY <3>1, <3>2
    <3>4. {0, 1} \subseteq Byte
      BY DEF Byte
    <3> QED
      BY <3>1, <3>3, <3>4
  <2>2. CASE n > 4
    <3>1. p[n] = PairByte(s, 2 * (n - 4) - 1)
      BY <1>5, <2>2
    <3>2. 2 * (n - 4) - 1 \in 1..15
      BY <2>2
    <3> QED
      BY <1>4, <3>1, <3>2
  <2> QED
    BY <2>1, <2>2
<1>7. p \in Seq(Byte) /\ Len(p) = 12
  <2>1. p \in [1..12 -> Byte]
    BY <1>5, <1>6, Zenon
  <2> HIDE DEF p
  <2>2. p \in Seq(Byte)
    BY <2>1, FunctionIsSeq
  <2>3. DOMAIN p = 1..12 /\ Len(p) \in Nat /\ DOMAIN p = 1..Len(p)
    BY <2>1, <2>2, LenProperties
  <2> QED
    BY <2>2, <2>3
<1>8. \A k \in 1..ImsiLength : Nibble(p, k) = s[k]
  <2> SUFFICES ASSUME NEW k \in 1..15 PROVE Nibble(p, k) = s[k]
    BY DEF ImsiLength
  <2> HIDE DEF p
  <2>1. CASE k % 2 = 1
    <3>1. PICK m \in 0..7 : k = 2 * m + 1
      BY <2>1
    <3>2. Nibble(p, k) = Low(p[m + 5])
      BY <2>1, <3>1 DEF Nibble, HeaderSize
    <3>3. p[m + 5] = PairByte(s, k)
      BY <1>5, <3>1
    <3> QED
      BY <1>4, <3>2, <3>3
  <2>2. CASE k % 2 # 1
    <3>1. PICK m \in 1..7 : k = 2 * m
      BY <2>2
    <3>2. Nibble(p, k) = High(p[m + 4])
      BY <2>2, <3>1 DEF Nibble, HeaderSize
    <3>3. p[m + 4] = PairByte(s, k - 1)
      BY <1>5, <3>1
    <3>4. k - 1 \in 1..15 /\ k - 1 < 15 /\ (k - 1) + 1 = k
      BY <3>1
    <3> QED
      BY <1>4, <3>2, <3>3, <3>4
  <2> QED
    BY <2>1, <2>2
<1> QED
  BY <1>2, <1>7, <1>8

\* What the server makes of a datagram that pgw_client or pgw_flood_client has
\* encoded is the IMSI that went in.
THEOREM RoundTrip ==
    ASSUME NEW s \in Seq(Nat), IsImsi(s)
    PROVE  WellFormed(EncodeImsiToBcd(s)) /\ ImsiOf(EncodeImsiToBcd(s)) = s
<1>1. Len(s) = 15 /\ s = [k \in 1..15 |-> s[k]] /\ \A k \in 1..15 : s[k] \in Digit
  BY DEF IsImsi, ImsiLength
<1>2. WellFormed(EncodeImsiToBcd(s))
  <2>1. /\ Len(EncodeImsiToBcd(s)) = 12
        /\ \A k \in 1..ImsiLength : Nibble(EncodeImsiToBcd(s), k) = s[k]
    BY Encoded
  <2>2. 2 * (12 - 4) >= 15
    OBVIOUS
  <2> HIDE DEF ImsiLength
  <2>3. \A k \in 1..ImsiLength : Nibble(EncodeImsiToBcd(s), k) \in Digit
    BY <1>1, <2>1 DEF ImsiLength
  <2> QED
    BY <2>1, <2>2, <2>3 DEF WellFormed, HeaderSize, ImsiLength
<1>3. ImsiOf(EncodeImsiToBcd(s)) = [k \in 1..15 |-> s[k]]
  BY Encoded DEF ImsiOf, ImsiLength
<1> QED
  BY <1>1, <1>2, <1>3

-----------------------------------------------------------------------------
(* Types.                                                                  *)

LEMMA SenderFacts ==
    /\ Client \subseteq Sender /\ Flooder \subseteq Sender /\ Other \subseteq Sender
    /\ \A i \in Imsi : i \in Seq(Nat) /\ IsImsi(i)
    /\ Argument \subseteq Seq(Nat)
    /\ Datagram \subseteq Seq(Byte)
  BY ExchangeAssumption DEF Sender, Digit

LEMMA TypingStep ==
    ASSUME TypeOK, [Next]_vars
    PROVE  TypeOK'
<1> USE SenderFacts DEF TypeOK, Verdict
<1>1. ASSUME NEW c \in Client, NEW s \in Argument, SendRequest(c, s)
      PROVE  TypeOK'
  <2>1. requests' \subseteq Sender \X Seq(Byte)
    <3>1. CASE requests' = requests
      BY <3>1
    <3>2. CASE IsImsi(s) /\ requests' = requests \cup {<<c, EncodeImsiToBcd(s)>>}
      <4>1. EncodeImsiToBcd(s) \in Seq(Byte)
        BY <3>2, Encoded
      <4> QED
        BY <3>2, <4>1
    <3> QED
      BY <1>1, <3>1, <3>2 DEF SendRequest, Finish
  <2>2. /\ clientPc' \in [Client -> {"start", "poll", "done"}]
        /\ asked' \in [Client -> Seq(Nat)]
        /\ outcome' \in [Client -> {"none", "failed"} \cup Verdict]
    BY <1>1 DEF SendRequest, Finish
  <2> QED
    BY <1>1, <2>1, <2>2 DEF SendRequest, server
<1>2. ASSUME NEW c \in Client, ReceiveResponse(c) \/ PollTimeout(c)
      PROVE  TypeOK'
  BY <1>2 DEF ReceiveResponse, PollTimeout, Finish, server
<1>3. ASSUME NEW f \in Flooder, NEW i \in Imsi, Flood(f, i)
      PROVE  TypeOK'
  <2>1. EncodeImsiToBcd(i) \in Seq(Byte)
    BY Encoded
  <2> QED
    BY <1>3, <2>1 DEF Flood, clients, server
<1>4. CASE ReceivePacket
  <2>1. from' \in Sender /\ packet' \in Seq(Byte)
    BY <1>4 DEF ReceivePacket
  <2> QED
    BY <1>4, <2>1 DEF ReceivePacket, clients, HeaderSize
<1>5. CASE DecodeByte
  <2>1. ByteAt \in Byte
    BY <1>5 DEF DecodeByte, ByteAt
  <2>2. imsi' \in Seq(Digit) /\ at' \in Nat /\ serverPc' \in {"decode", "answer"}
    <3>1. CASE imsi' = <<>> /\ at' = at
      BY <1>5, <3>1 DEF DecodeByte, Refuse
    <3>2. CASE Low(ByteAt) \in Digit /\ High(ByteAt) \in Digit
               /\ imsi' = imsi \o <<Low(ByteAt), High(ByteAt)>>
      BY <1>5, <3>2, TwoMore DEF DecodeByte, Refuse
    <3>3. CASE Low(ByteAt) \in Digit /\ imsi' = Append(imsi, Low(ByteAt))
      BY <1>5, <3>3 DEF DecodeByte, Refuse
    <3> QED
      BY <1>5, <3>1, <3>2, <3>3 DEF DecodeByte, Refuse
  <2> QED
    BY <1>5, <2>2 DEF DecodeByte, clients
<1>6. CASE EndDecode
  <2>1. imsi' \in Seq(Digit) /\ at' \in Nat /\ serverPc' \in {"create", "answer"}
    <3>1. CASE Len(imsi) = ImsiLength
      <4>1. imsi' = imsi /\ at' = at /\ serverPc' = "create"
        BY <1>6, <3>1 DEF EndDecode
      <4> QED
        BY <4>1
    <3>2. CASE Len(imsi) # ImsiLength
      <4>1. imsi' = <<>> /\ at' = at /\ serverPc' = "answer"
        BY <1>6, <3>2 DEF EndDecode, Refuse
      <4> QED
        BY <4>1
    <3> QED
      BY <3>1, <3>2
  <2> QED
    BY <1>6, <2>1 DEF EndDecode, clients
<1>7. CASE CreateSession
  BY <1>7 DEF CreateSession, clients
<1>8. CASE SendResponse
  BY <1>8 DEF SendResponse, clients
<1>9. CASE UNCHANGED vars
  BY <1>9 DEF vars, clients, server
<1> QED
  BY <1>1, <1>2, <1>3, <1>4, <1>5, <1>6, <1>7, <1>8, <1>9 DEF Next, ServerNext

\* The variables keep their types: in particular only digits are ever taken for
\* an IMSI.
THEOREM ExchangeTypeCorrect == Spec => []TypeOK
<1>1. Init => TypeOK
  BY DEF Init, TypeOK, Verdict
<1> QED
  BY <1>1, TypingStep, PTL DEF Spec

-----------------------------------------------------------------------------
(* The decoder's loop.                                                     *)

\* As long as the loop runs, the digits found are the first halves of the
\* payload.  It stands before a byte, or it has fifteen digits, or it has
\* met the filler in the last byte.
LoopInv ==
    serverPc = "decode" =>
        /\ at >= HeaderSize /\ at <= Len(packet)
        /\ Len(imsi) <= ImsiLength
        /\ Len(imsi) <= 2 * (Len(packet) - HeaderSize)
        /\ \A k \in 1..Len(imsi) : imsi[k] = Nibble(packet, k)
        /\ \/ Len(imsi) = ImsiLength
           \/ Len(imsi) = 2 * (at - HeaderSize)
           \/ at = Len(packet) /\ Len(imsi) + 1 = 2 * (at - HeaderSize)

ExtractInv == LoopInv /\ ExtractsTheImsi

\* Where the loop stands before a byte, and where it has come to its end.
LEMMA LoopArithmetic ==
    ASSUME NEW n \in Nat, NEW a \in Nat, NEW l \in Nat, n <= 15, a <= l,
           n = 15 \/ n = 2 * (a - 4) \/ (a = l /\ n + 1 = 2 * (a - 4))
    PROVE  /\ a < l /\ n < 15 => n = 2 * (a - 4)
           /\ a >= l /\ n # 15 => 2 * (l - 4) < 15
  OBVIOUS

\* The two halves of the byte the loop stands before.
LEMMA NextNibbles ==
    ASSUME TypeOK, LoopInv, serverPc = "decode", at < Len(packet), Len(imsi) < ImsiLength
    PROVE  /\ Len(imsi) \in Nat /\ Len(imsi) = 2 * (at - HeaderSize)
           /\ ByteAt \in Byte
           /\ Nibble(packet, Len(imsi) + 1) = Low(ByteAt)
           /\ Nibble(packet, Len(imsi) + 2) = High(ByteAt)
<1>1. /\ at \in Nat /\ at >= 4 /\ packet \in Seq(Byte) /\ imsi \in Seq(Digit)
      /\ Len(imsi) = 2 * (at - 4)
  <2>1. at \in Nat /\ packet \in Seq(Byte) /\ imsi \in Seq(Digit)
    BY DEF TypeOK
  <2>2. Len(packet) \in Nat /\ Len(imsi) \in Nat
    BY <2>1
  <2>3. /\ at >= 4
        /\ \/ Len(imsi) = 15
           \/ Len(imsi) = 2 * (at - 4)
           \/ at = Len(packet) /\ Len(imsi) + 1 = 2 * (at - 4)
    BY DEF LoopInv, HeaderSize, ImsiLength
  <2> QED
    <3>1. Len(imsi) <= 15 /\ at <= Len(packet) /\ at < Len(packet) /\ Len(imsi) < 15
      BY <2>1, <2>2 DEF ImsiLength
    <3>2. Len(imsi) = 2 * (at - 4)
      BY <2>1, <2>2, <2>3, <3>1, LoopArithmetic
    <3> QED
      BY <2>1, <2>3, <3>2
<1>2. ByteAt \in Byte
  BY <1>1 DEF ByteAt
<1>3. PICK m \in Nat : at = m + 4 /\ Len(imsi) = 2 * m
  BY <1>1
<1>4. /\ (2 * m + 1) % 2 = 1 /\ (2 * m + 2) \div 2 = m + 1
      /\ (2 * m + 2) % 2 = 0
  BY <1>3
<1>5. Nibble(packet, 2 * m + 1) = Low(packet[4 + (m + 1)])
  <2>1. (2 * m + 1) + 1 = 2 * m + 2
    BY <1>3
  <2> QED
    BY <1>4, <2>1 DEF Nibble, HeaderSize
<1>6. Nibble(packet, 2 * m + 2) = High(packet[4 + (m + 1)])
  BY <1>4 DEF Nibble, HeaderSize
<1>7. at + 1 = 4 + (m + 1)
  BY <1>3
<1> QED
  BY <1>1, <1>2, <1>3, <1>5, <1>6, <1>7 DEF ByteAt, HeaderSize

LEMMA ExtractStep ==
    ASSUME TypeOK, ExtractInv, [Next]_vars
    PROVE  ExtractInv'
<1> USE DEF ExtractInv
<1>1. CASE UNCHANGED <<serverPc, packet, at, imsi>>
  BY <1>1 DEF LoopInv, ExtractsTheImsi
<1>2. CASE ReceivePacket
  <2>1. packet' \in Seq(Byte) /\ Len(packet') \in Nat
    BY <1>2, SenderFacts DEF ReceivePacket, TypeOK
  <2>2. CASE Len(packet') < 8
    <3>1. serverPc' = "answer" /\ imsi' = <<>>
      BY <1>2, <2>2 DEF ReceivePacket, MinLength
    <3>2. ~WellFormed(packet')
      BY <2>1, <2>2 DEF WellFormed, HeaderSize, ImsiLength
    <3> QED
      BY <3>1, <3>2 DEF LoopInv, ExtractsTheImsi
  <2>3. CASE Len(packet') >= 8
    <3>1. serverPc' = "decode" /\ imsi' = <<>> /\ at' = 4
      BY <1>2, <2>1, <2>3 DEF ReceivePacket, MinLength, HeaderSize
    <3> QED
      BY <2>1, <2>3, <3>1 DEF LoopInv, ExtractsTheImsi, HeaderSize, ImsiLength
  <2> QED
    BY <2>1, <2>2, <2>3
<1>3. CASE DecodeByte
  <2> USE DEF HeaderSize, ImsiLength
  <2>1. /\ serverPc = "decode" /\ at < Len(packet) /\ Len(imsi) < 15
        /\ packet' = packet
    BY <1>3 DEF DecodeByte
  <2>2. /\ at \in Nat /\ at >= 4 /\ imsi \in Seq(Digit)
        /\ packet \in Seq(Byte) /\ Len(packet) \in Nat
        /\ Len(imsi) \in Nat /\ Len(imsi) = 2 * (at - 4)
        /\ Nibble(packet, Len(imsi) + 1) = Low(ByteAt)
        /\ Nibble(packet, Len(imsi) + 2) = High(ByteAt)
        /\ \A k \in 1..Len(imsi) : imsi[k] = Nibble(packet, k)
    BY <2>1, NextNibbles DEF TypeOK, LoopInv
  <2>3. ASSUME Refuse, Low(ByteAt) \notin Digit
        PROVE  ExtractInv'
    <3>1. ~WellFormed(packet)
      <4>1. Len(imsi) + 1 \in 1..15
        BY <2>1, <2>2
      <4> QED
        BY <2>2, <2>3, <4>1 DEF WellFormed
    <3> QED
      BY <2>1, <2>3, <3>1 DEF Refuse, LoopInv, ExtractsTheImsi
  <2>4. ASSUME imsi' = Append(imsi, Low(ByteAt)), Low(ByteAt) \in Digit,
               serverPc' = "decode",
               \/ Len(imsi) + 1 = 15 /\ at' = at
               \/ at + 1 = Len(packet) /\ at' = Len(packet)
        PROVE  ExtractInv'
    <3>1. Len(imsi') = Len(imsi) + 1 /\ Len(imsi) + 1 <= 15
      BY <2>1, <2>2, <2>4
    <3>2. \A k \in 1..Len(imsi') : imsi'[k] = Nibble(packet, k)
      BY <2>2, <2>4, <3>1
    <3>3. at' >= 4 /\ at' <= Len(packet)
      BY <2>1, <2>2, <2>4
    <3>4. Len(imsi') <= 2 * (Len(packet) - 4)
      BY <2>1, <2>2, <3>1
    <3>5. Len(imsi') = 15 \/ (at' = Len(packet) /\ Len(imsi') + 1 = 2 * (at' - 4))
      <4>1. CASE Len(imsi) + 1 = 15
        BY <3>1, <4>1
      <4>2. CASE at + 1 = Len(packet) /\ at' = Len(packet)
        <5>1. at' - 4 = (at - 4) + 1
          BY <2>2, <4>2
        <5>2. Len(imsi') + 1 = 2 * (at - 4) + 2
          BY <2>2, <3>1
        <5> QED
          BY <2>2, <4>2, <5>1, <5>2
      <4> QED
        BY <2>4, <4>1, <4>2
    <3> QED
      BY <2>1, <2>4, <3>1, <3>2, <3>3, <3>4, <3>5 DEF LoopInv, ExtractsTheImsi
  <2>5. ASSUME imsi' = imsi \o <<Low(ByteAt), High(ByteAt)>>,
               Low(ByteAt) \in Digit, High(ByteAt) \in Digit,
               Len(imsi) + 1 < 15, at' = at + 1, serverPc' = "decode"
        PROVE  ExtractInv'
    <3>1. /\ Len(imsi') = Len(imsi) + 2
          /\ \A k \in 1..Len(imsi) : imsi'[k] = imsi[k]
          /\ imsi'[Len(imsi) + 1] = Low(ByteAt)
          /\ imsi'[Len(imsi) + 2] = High(ByteAt)
      <4>1. imsi \in Seq(Digit) /\ Low(ByteAt) \in Digit /\ High(ByteAt) \in Digit
        BY <2>2, <2>5
      <4>2. /\ Len(imsi \o <<Low(ByteAt), High(ByteAt)>>) = Len(imsi) + 2
            /\ \A k \in 1..Len(imsi) :
                  (imsi \o <<Low(ByteAt), High(ByteAt)>>)[k] = imsi[k]
            /\ (imsi \o <<Low(ByteAt), High(ByteAt)>>)[Len(imsi) + 1] = Low(ByteAt)
            /\ (imsi \o <<Low(ByteAt), High(ByteAt)>>)[Len(imsi) + 2] = High(ByteAt)
        BY <4>1, TwoMore
      <4> QED
        BY <2>5, <4>2, Zenon
    <3>2. \A k \in 1..Len(imsi') : imsi'[k] = Nibble(packet, k)
      <4> SUFFICES ASSUME NEW k \in 1..Len(imsi') PROVE imsi'[k] = Nibble(packet, k)
        OBVIOUS
      <4>1. k \in 1..Len(imsi) \/ k = Len(imsi) + 1 \/ k = Len(imsi) + 2
        BY <2>2, <3>1
      <4> QED
        BY <2>2, <3>1, <4>1
    <3> QED
      BY <2>1, <2>2, <2>5, <3>1, <3>2 DEF LoopInv, ExtractsTheImsi
  <2>6. ASSUME Refuse, High(ByteAt) \notin Digit, Len(imsi) + 1 < 15
        PROVE  ExtractInv'
    <3>1. ~WellFormed(packet)
      <4>1. Len(imsi) + 2 \in 1..15
        BY <2>2, <2>6
      <4> QED
        BY <2>2, <2>6, <4>1 DEF WellFormed
    <3> QED
      BY <2>1, <2>6, <3>1 DEF Refuse, LoopInv, ExtractsTheImsi
  <2> QED
    BY <1>3, <2>1, <2>3, <2>4, <2>5, <2>6 DEF DecodeByte
<1>4. CASE EndDecode
  <2> USE DEF HeaderSize, ImsiLength
  <2>1. /\ at \in Nat /\ imsi \in Seq(Digit) /\ Len(imsi) \in Nat
        /\ packet \in Seq(Byte) /\ Len(packet) \in Nat /\ packet' = packet
    BY <1>4 DEF EndDecode, TypeOK
  <2>2. CASE Len(imsi) = 15
    <3>1. serverPc' = "create" /\ imsi' = imsi
      BY <1>4, <2>2 DEF EndDecode
    <3>2. /\ \A k \in 1..15 : imsi[k] = Nibble(packet, k)
          /\ 15 <= 2 * (Len(packet) - 4)
      BY <1>4, <2>2 DEF EndDecode, LoopInv
    <3>5. \A k \in 1..15 : imsi[k] \in Digit
      BY <2>1, <2>2, ElementOfSeq
    <3>3. imsi = [k \in 1..15 |-> imsi[k]]
      BY <2>1, <2>2
    <3>4. WellFormed(packet) /\ ImsiOf(packet) = imsi
      BY <2>1, <3>2, <3>3, <3>5 DEF WellFormed, ImsiOf
    <3> QED
      BY <2>1, <3>1, <3>4 DEF LoopInv, ExtractsTheImsi
  <2>3. CASE Len(imsi) # 15
    <3>1. serverPc' = "answer" /\ imsi' = <<>>
      BY <1>4, <2>3 DEF EndDecode, Refuse
    <3>4. /\ at >= Len(packet) \/ Len(imsi) = 15
          /\ at <= Len(packet) /\ Len(imsi) <= 15
          /\ \/ Len(imsi) = 15
             \/ Len(imsi) = 2 * (at - 4)
             \/ at = Len(packet) /\ Len(imsi) + 1 = 2 * (at - 4)
      BY <1>4 DEF EndDecode, LoopInv
    <3>2. 2 * (Len(packet) - 4) < 15
      BY <2>1, <2>3, <3>4, LoopArithmetic
    <3>3. ~WellFormed(packet)
      BY <2>1, <3>2 DEF WellFormed
    <3> QED
      BY <2>1, <3>1, <3>3 DEF LoopInv, ExtractsTheImsi
  <2> QED
    BY <2>2, <2>3
<1>5. CASE CreateSession
  BY <1>5 DEF CreateSession, LoopInv, ExtractsTheImsi
<1>6. CASE SendResponse
  BY <1>6 DEF SendResponse, LoopInv, ExtractsTheImsi
<1>7. ASSUME NEW c \in Client,
             (\E s \in Argument : SendRequest(c, s)) \/ ReceiveResponse(c) \/ PollTimeout(c)
      PROVE  ExtractInv'
  BY <1>1, <1>7 DEF SendRequest, ReceiveResponse, PollTimeout, server
<1>8. ASSUME NEW f \in Flooder, NEW i \in Imsi, Flood(f, i)
      PROVE  ExtractInv'
  BY <1>1, <1>8 DEF Flood, server
<1>9. CASE UNCHANGED vars
  BY <1>1, <1>9 DEF vars, server
<1> QED
  BY <1>2, <1>3, <1>4, <1>5, <1>6, <1>7, <1>8, <1>9 DEF Next, ServerNext

\* The decoder's loop computes its closed form, for every datagram.
THEOREM DecoderCorrect == Spec => []ExtractsTheImsi
<1>1. Init => ExtractInv
  BY DEF Init, ExtractInv, LoopInv, ExtractsTheImsi
<1>2. ExtractInv => ExtractsTheImsi
  BY DEF ExtractInv
<1> QED
  BY <1>1, <1>2, ExtractStep, ExchangeTypeCorrect, PTL DEF Spec

-----------------------------------------------------------------------------
(* From the question to the answer.                                        *)

Asked(c) == clientPc[c] # "start" /\ IsImsi(asked[c])

\* A client's datagram, wherever it is, holds what the client asked for.
RequestsInv == \A m \in requests :
    m[1] \in Client => Asked(m[1]) /\ m[2] = EncodeImsiToBcd(asked[m[1]])

PacketInv == serverPc # "wait" /\ from \in Client =>
    Asked(from) /\ packet = EncodeImsiToBcd(asked[from])

\* A decoded IMSI is answered with what was said of it.
ResultInv == serverPc = "answer" /\ imsi # <<>> => <<imsi, result>> \in verdicts

ResponsesInv == \A m \in responses :
    m[1] \in Client => Asked(m[1]) /\ <<asked[m[1]], m[2]>> \in verdicts

StartInv == \A c \in Client : clientPc[c] = "start" => outcome[c] = "none"

RouteInv == RequestsInv /\ PacketInv /\ ResultInv /\ ResponsesInv /\ StartInv
            /\ AnswersAreVerdicts

LEMMA RouteClient ==
    ASSUME TypeOK, RouteInv, NEW c \in Client,
           (\E s \in Argument : SendRequest(c, s)) \/ ReceiveResponse(c) \/ PollTimeout(c)
    PROVE  RouteInv'
<1> USE DEF RouteInv, RequestsInv, PacketInv, ResultInv, ResponsesInv, StartInv,
            AnswersAreVerdicts, Asked
<1>t. /\ clientPc \in [Client -> {"start", "poll", "done"}]
      /\ asked \in [Client -> Seq(Nat)]
      /\ outcome \in [Client -> {"none", "failed"} \cup Verdict]
  BY DEF TypeOK
<1>1. ASSUME NEW s \in Argument, SendRequest(c, s)
      PROVE  RouteInv'
  <2>1. /\ clientPc[c] = "start"
        /\ asked' = [asked EXCEPT ![c] = s]
        /\ UNCHANGED <<responses, serverPc, from, packet, at, imsi, result, verdicts>>
    BY <1>1 DEF SendRequest, server
  <2>2. /\ clientPc'[c] # "start" /\ asked'[c] = s
        /\ \A d \in Client \ {c} : /\ clientPc'[d] = clientPc[d]
                                   /\ asked'[d] = asked[d]
                                   /\ outcome'[d] = outcome[d]
    BY <1>1, <1>t, <2>1 DEF SendRequest, Finish
  <2>3. outcome'[c] \in {"none", "failed"}
    BY <1>1, <1>t, <2>1 DEF SendRequest, Finish
  <2>4. requests' = requests \/
            (IsImsi(s) /\ requests' = requests \cup {<<c, EncodeImsiToBcd(s)>>})
    BY <1>1 DEF SendRequest
  <2>5. RequestsInv'
    <3> SUFFICES ASSUME NEW m \in requests', m[1] \in Client
                 PROVE  Asked(m[1])' /\ m[2] = EncodeImsiToBcd(asked'[m[1]])
      BY Zenon
    <3>1. CASE m \in requests
      <4>1. Asked(m[1]) /\ m[2] = EncodeImsiToBcd(asked[m[1]])
        BY <3>1
      <4>2. m[1] # c
        BY <2>1, <4>1
      <4> QED
        BY <2>2, <4>1, <4>2
    <3>2. CASE IsImsi(s) /\ m = <<c, EncodeImsiToBcd(s)>>
      BY <2>2, <3>2
    <3> QED
      BY <2>4, <3>1, <3>2
  <2>6. PacketInv'
    <3>1. CASE serverPc # "wait" /\ from \in Client
      <4>1. from # c
        BY <2>1, <3>1
      <4> QED
        BY <2>1, <2>2, <3>1, <4>1
    <3>2. CASE ~(serverPc # "wait" /\ from \in Client)
      BY <2>1, <3>2
    <3> QED
      BY <3>1, <3>2
  <2>7. ResultInv' /\ ResponsesInv'
    <3>1. ResultInv'
      BY <2>1
    <3>2. ASSUME NEW m \in responses, m[1] \in Client
          PROVE  Asked(m[1])' /\ <<asked'[m[1]], m[2]>> \in verdicts
      <4>1. Asked(m[1]) /\ <<asked[m[1]], m[2]>> \in verdicts
        BY <3>2
      <4>2. m[1] # c
        BY <2>1, <4>1
      <4> QED
        BY <2>2, <3>2, <4>1, <4>2
    <3> QED
      BY <2>1, <3>1, <3>2
  <2>8. StartInv' /\ AnswersAreVerdicts'
    BY <2>1, <2>2, <2>3 DEF Verdict
  <2> QED
    BY <2>5, <2>6, <2>7, <2>8
<1>2. ASSUME ReceiveResponse(c) \/ PollTimeout(c)
      PROVE  RouteInv'
  <2>1. /\ clientPc[c] = "poll"
        /\ clientPc' = [clientPc EXCEPT ![c] = "done"]
        /\ UNCHANGED <<requests, responses, asked, serverPc, from, packet, at, imsi,
                       result, verdicts>>
    BY <1>2 DEF ReceiveResponse, PollTimeout, Finish, server
  <2>2. PICK r \in Verdict \cup {"failed"} :
            /\ outcome' = [outcome EXCEPT ![c] = r]
            /\ r \in Verdict => <<c, r>> \in responses
    BY <1>2 DEF ReceiveResponse, PollTimeout, Finish, Verdict
  <2>3. clientPc'[c] = "done" /\ \A d \in Client \ {c} : clientPc'[d] = clientPc[d]
    BY <1>t, <2>1
  <2>4. outcome'[c] = r /\ \A d \in Client \ {c} : outcome'[d] = outcome[d]
    BY <1>t, <2>2
  <2>5. \A d \in Client : clientPc[d] # "start" => clientPc'[d] # "start"
    BY <2>1, <2>3
  <2>6. RequestsInv' /\ PacketInv' /\ ResultInv' /\ ResponsesInv'
    BY <2>1, <2>5
  <2>7. StartInv'
    BY <2>3, <2>4
  <2>8. AnswersAreVerdicts'
    <3> SUFFICES ASSUME NEW d \in Client, outcome'[d] \in Verdict
                 PROVE  <<asked[d], outcome'[d]>> \in verdicts
      BY <2>1
    <3>1. CASE d = c
      <4>1. <<c, r>> \in responses /\ outcome'[d] = r
        BY <2>2, <2>4, <3>1
      <4>2. <<asked[c], r>> \in verdicts
        BY <4>1
      <4> QED
        BY <3>1, <4>1, <4>2
    <3>2. CASE d # c
      BY <2>4, <3>2
    <3> QED
      BY <3>1, <3>2
  <2> QED
    BY <2>6, <2>7, <2>8
<1> QED
  BY <1>1, <1>2

LEMMA RouteStep ==
    ASSUME TypeOK, ExtractsTheImsi, RouteInv, [Next]_vars
    PROVE  RouteInv'
<1> USE DEF RouteInv, RequestsInv, PacketInv, ResultInv, ResponsesInv, StartInv,
            AnswersAreVerdicts, Asked
<1>1. ASSUME NEW f \in Flooder, NEW i \in Imsi, Flood(f, i)
      PROVE  RouteInv'
  <2>1. f \notin Client
    BY ExchangeAssumption
  <2> QED
    BY <1>1, <2>1 DEF Flood, clients, server
<1>2. CASE ReceivePacket
  <2>1. imsi' = <<>> /\ UNCHANGED <<requests, responses, clientPc, asked, outcome, verdicts>>
    BY <1>2 DEF ReceivePacket, clients
  <2>2. PICK m \in requests \cup (Other \X Datagram) : from' = m[1] /\ packet' = m[2]
    BY <1>2 DEF ReceivePacket
  <2>3. m[1] \in Client => m \in requests
    BY <2>2, ExchangeAssumption
  <2> QED
    BY <2>1, <2>2, <2>3
<1>3. CASE DecodeByte \/ EndDecode
  <2>1. /\ serverPc = "decode"
        /\ serverPc' \in {"decode", "create"} \/ (serverPc' = "answer" /\ imsi' = <<>>)
        /\ UNCHANGED <<requests, responses, clientPc, asked, outcome, from, packet, verdicts>>
    BY <1>3 DEF DecodeByte, EndDecode, Refuse, clients
  <2> QED
    BY <2>1
<1>4. CASE CreateSession
  <2>1. /\ serverPc = "create" /\ serverPc' = "answer"
        /\ verdicts' = verdicts \cup {<<imsi, result'>>}
        /\ UNCHANGED <<requests, responses, clientPc, asked, outcome, from, packet, imsi>>
    BY <1>4 DEF CreateSession, clients
  <2> QED
    BY <2>1
<1>5. CASE SendResponse
  <2>1. /\ serverPc = "answer" /\ serverPc' = "wait" /\ imsi' = <<>>
        /\ responses' = responses \cup {<<from, result>>}
        /\ UNCHANGED <<requests, clientPc, asked, outcome, verdicts>>
    BY <1>5 DEF SendResponse, clients
  <2>2. from \in Client => Asked(from) /\ <<asked[from], result>> \in verdicts
    <3> SUFFICES ASSUME from \in Client
                 PROVE  Asked(from) /\ <<asked[from], result>> \in verdicts
      OBVIOUS
    <3>1. Asked(from) /\ packet = EncodeImsiToBcd(asked[from])
      BY <2>1
    <3>2. asked[from] \in Seq(Nat)
      BY DEF TypeOK
    <3>3. WellFormed(packet) /\ ImsiOf(packet) = asked[from]
      BY <3>1, <3>2, RoundTrip
    <3>4. imsi = asked[from]
      BY <2>1, <3>3 DEF ExtractsTheImsi
    <3>5. asked[from] # <<>>
      BY <3>1, <3>2 DEF IsImsi, ImsiLength
    <3> QED
      BY <2>1, <3>1, <3>4, <3>5
  <2>3. ResponsesInv'
    BY <2>1, <2>2
  <2> QED
    BY <2>1, <2>3
<1>6. CASE UNCHANGED vars
  BY <1>6 DEF vars, clients, server
<1>7. ASSUME NEW c \in Client,
             (\E s \in Argument : SendRequest(c, s)) \/ ReceiveResponse(c) \/ PollTimeout(c)
      PROVE  RouteInv'
  BY <1>7, RouteClient
<1> QED
  BY <1>1, <1>2, <1>3, <1>4, <1>5, <1>6, <1>7 DEF Next, ServerNext

\* No client is ever told what was said of another IMSI, or nothing was said of.
THEOREM AnswersCorrect == Spec => []AnswersAreVerdicts
<1>1. Init => RouteInv
  BY DEF Init, RouteInv, RequestsInv, PacketInv, ResultInv, ResponsesInv, StartInv,
         AnswersAreVerdicts, Verdict
<1>2. RouteInv => AnswersAreVerdicts
  BY DEF RouteInv
<1> QED
  BY <1>1, <1>2, RouteStep, DecoderCorrect, ExchangeTypeCorrect, PTL DEF Spec
=============================================================================
