----------------------------- MODULE UdpExchange -----------------------------
(***************************************************************************)
(* Requests and answers over UDP: pgw_client (one request, one socket and  *)
(* one process each), pgw_flood_client (sends and never reads), other      *)
(* senders whose datagrams nobody vouches for, and the UDP thread of       *)
(* pgw_server, which decodes a datagram byte by byte, asks                 *)
(* SessionManager::createSession and answers to the sender's address.      *)
(*                                                                         *)
(* The network is the set of all datagrams ever sent: each may be lost     *)
(* (never delivered), delivered late, out of order, or more than once.     *)
(* What other senders send may arrive at any time.                         *)
(***************************************************************************)
EXTENDS Subscribers, BcdCodec

CONSTANTS Client,     \* runs of pgw_client, each with a socket of its own
          Flooder,    \* FloodWorkers
          Other,      \* other senders
          Datagram,   \* what those send: any sequences of bytes
          Argument    \* what pgw_client is given for an IMSI

Sender == Client \cup Flooder \cup Other

ASSUME ExchangeAssumption ==
    /\ \A i \in Imsi : i \in Seq(Digit) /\ IsImsi(i)
    /\ Argument \subseteq Seq(Nat)
    /\ Datagram \subseteq Seq(Byte)
    /\ Client \cap (Flooder \cup Other) = {}

VARIABLES requests,   \* datagrams <<sender, bytes>> sent by clients and flooders
          responses,  \* datagrams <<sender, text>> sent by it
          clientPc,   \* where each run of pgw_client is
          asked,      \* the IMSI it asked for
          outcome,    \* what sendRequest returned
          serverPc,   \* where the UDP thread is
          from,       \* clientAddr
          packet,     \* buffer, length
          at,         \* extractImsiFromBcd: bytes of the packet consumed
          imsi,       \* extractImsiFromBcd: digits found, <<>> when refused
          result,     \* what the server is about to answer
          verdicts    \* history: what createSession said of whom

clients == <<clientPc, asked, outcome>>
server  == <<serverPc, from, packet, at, imsi, result>>
vars    == <<requests, responses, clients, server, verdicts>>

Verdict == {"created", "rejected"}

Init == /\ requests = {} /\ responses = {}
        /\ clientPc = [c \in Client |-> "start"]
        /\ asked = [c \in Client |-> <<>>]
        /\ outcome = [c \in Client |-> "none"]
        /\ serverPc = "wait"
        /\ from \in Sender
        /\ packet = <<>> /\ at = 0 /\ imsi = <<>>
        /\ result = "rejected"
        /\ verdicts = {}

-----------------------------------------------------------------------------
(* Senders.                                                                *)

Finish(c, r) == /\ clientPc' = [clientPc EXCEPT ![c] = "done"]
                /\ outcome' = [outcome EXCEPT ![c] = r]

\* main and sendRequest refuse what is no IMSI; encodeImsiToBcd and
\* sendUdpPacket follow.  sendto may fail.
SendRequest(c, s) ==
    /\ clientPc[c] = "start"
    /\ asked' = [asked EXCEPT ![c] = s]
    /\ \/ /\ IsImsi(s)
          /\ requests' = requests \cup {<<c, EncodeImsiToBcd(s)>>}
          /\ clientPc' = [clientPc EXCEPT ![c] = "poll"]
          /\ UNCHANGED outcome
       \/ Finish(c, "failed") /\ UNCHANGED requests
    /\ UNCHANGED <<responses, server, verdicts>>

\* receiveResponse: poll, then recvfrom on the client's own socket.
ReceiveResponse(c) ==
    /\ clientPc[c] = "poll"
    /\ \E r \in Verdict : <<c, r>> \in responses /\ Finish(c, r)
    /\ UNCHANGED <<requests, responses, asked, server, verdicts>>

\* poll returns 0 after receive_timeout_ms, or an error.
PollTimeout(c) ==
    /\ clientPc[c] = "poll"
    /\ Finish(c, "failed")
    /\ UNCHANGED <<requests, responses, asked, server, verdicts>>

\* FloodWorker::run: encode, send, go on.
Flood(f, i) ==
    /\ requests' = requests \cup {<<f, EncodeImsiToBcd(i)>>}
    /\ UNCHANGED <<responses, clients, server, verdicts>>

-----------------------------------------------------------------------------
(* The UDP thread.                                                         *)

\* recvfrom; an empty datagram is passed over.  extractImsiFromBcd begins: a
\* datagram below its minimum length is refused at once.
ReceivePacket ==
    /\ serverPc = "wait"
    /\ \E m \in requests \cup (Other \X Datagram) :
          /\ m[2] # <<>>
          /\ from' = m[1]
          /\ packet' = m[2]
    /\ imsi' = <<>>
    /\ at' = HeaderSize
    /\ serverPc' = IF Len(packet') < MinLength THEN "answer" ELSE "decode"
    /\ result' = "rejected"
    /\ UNCHANGED <<requests, responses, clients, verdicts>>

\* return "": handleIncomingPacket answers "rejected".
Refuse == /\ imsi' = <<>>
          /\ serverPc' = "answer"
          /\ UNCHANGED at

ByteAt == packet[at + 1]

\* Mutant of DecodeByte: whatever the halves hold is taken for a digit.
DecodeByteUnchecked ==
    /\ serverPc = "decode"
    /\ at < Len(packet) /\ Len(imsi) < ImsiLength
    /\ imsi' = imsi \o (IF Len(imsi) + 1 = ImsiLength THEN <<Low(ByteAt)>>
                        ELSE <<Low(ByteAt), High(ByteAt)>>)
    /\ at' = at + 1
    /\ UNCHANGED <<requests, responses, clients, serverPc, from, packet, result, verdicts>>

\* One round of extractImsiFromBcd's loop.
DecodeByte ==
    /\ serverPc = "decode"
    /\ at < Len(packet) /\ Len(imsi) < ImsiLength
    /\ \/ /\ Low(ByteAt) \notin Digit
          /\ Refuse
       \/ /\ Low(ByteAt) \in Digit
          /\ Len(imsi) + 1 = ImsiLength
          /\ imsi' = Append(imsi, Low(ByteAt))
          /\ UNCHANGED <<at, serverPc>>
       \/ /\ Low(ByteAt) \in Digit
          /\ Len(imsi) + 1 < ImsiLength
          /\ \/ /\ High(ByteAt) \in Digit
                /\ imsi' = imsi \o <<Low(ByteAt), High(ByteAt)>>
                /\ at' = at + 1
                /\ UNCHANGED serverPc
             \/ /\ High(ByteAt) = Filler /\ at + 1 = Len(packet)
                /\ imsi' = Append(imsi, Low(ByteAt))
                /\ at' = Len(packet)
                /\ UNCHANGED serverPc
             \/ /\ High(ByteAt) \notin Digit
                /\ ~(High(ByteAt) = Filler /\ at + 1 = Len(packet))
                /\ Refuse
    /\ UNCHANGED <<requests, responses, clients, from, packet, result, verdicts>>

\* Mutant of EndDecode: the length is not looked at.
EndDecodeUnchecked ==
    /\ serverPc = "decode"
    /\ at >= Len(packet) \/ Len(imsi) = ImsiLength
    /\ serverPc' = "create"
    /\ UNCHANGED <<requests, responses, clients, from, packet, at, imsi, result, verdicts>>

\* The loop is over: fifteen digits, or nothing.
EndDecode ==
    /\ serverPc = "decode"
    /\ at >= Len(packet) \/ Len(imsi) = ImsiLength
    /\ IF Len(imsi) = ImsiLength
       THEN serverPc' = "create" /\ UNCHANGED <<imsi, at>>
       ELSE Refuse
    /\ UNCHANGED <<requests, responses, clients, from, packet, result, verdicts>>

\* createSession.  Whom it serves is SessionLifecycle's subject; what counts
\* here is that it says no to a blacklisted IMSI and may say no to any.  An
\* exception that leaves it is caught by the handler and answered "rejected"
\* like a refusal, and is one of its verdicts here.
CreateSession ==
    /\ serverPc = "create"
    /\ \E r \in Verdict :
          /\ r = "created" => ~IsBlacklisted(imsi)
          /\ result' = r
          /\ verdicts' = verdicts \cup {<<imsi, r>>}
    /\ serverPc' = "answer"
    /\ UNCHANGED <<requests, responses, clients, from, packet, at, imsi>>

\* sendResponse, to the address the datagram came from; the locals of
\* handleIncomingPacket go out of scope.
SendResponse ==
    /\ serverPc = "answer"
    /\ responses' = responses \cup {<<from, result>>}
    /\ serverPc' = "wait"
    /\ packet' = <<>> /\ at' = 0 /\ imsi' = <<>> /\ result' = "rejected"
    /\ UNCHANGED <<requests, clients, from, verdicts>>

ServerNext == ReceivePacket \/ DecodeByte \/ EndDecode \/ CreateSession \/ SendResponse

Next == \/ \E c \in Client : \/ \E s \in Argument : SendRequest(c, s)
                             \/ ReceiveResponse(c) \/ PollTimeout(c)
        \/ \E f \in Flooder, i \in Imsi : Flood(f, i)
        \/ ServerNext

Spec == Init /\ [][Next]_vars

-----------------------------------------------------------------------------
(* Properties.                                                             *)

TypeOK == /\ requests \subseteq Sender \X Seq(Byte)
          /\ responses \subseteq Sender \X Verdict
          /\ clientPc \in [Client -> {"start", "poll", "done"}]
          /\ asked \in [Client -> Seq(Nat)]
          /\ outcome \in [Client -> {"none", "failed"} \cup Verdict]
          /\ serverPc \in {"wait", "decode", "create", "answer"}
          /\ from \in Sender
          /\ packet \in Seq(Byte)
          /\ at \in Nat
          /\ imsi \in Seq(Digit)
          /\ result \in Verdict
          /\ verdicts \subseteq Seq(Digit) \X Verdict

\* extractImsiFromBcd returns an IMSI exactly when the datagram begins with
\* fifteen digits, and returns those: no shorter, shifted or padded IMSI ever
\* reaches createSession, and no proper request is refused for its form.
ExtractsTheImsi ==
    serverPc \in {"create", "answer"} =>
        imsi = (IF WellFormed(packet) THEN ImsiOf(packet) ELSE <<>>)

\* What a client is told is what createSession said of the very IMSI it asked
\* for, whatever is lost, repeated or sent by others: through encoding, address
\* and decoding, answers do not get mixed up.
AnswersAreVerdicts ==
    \A c \in Client : outcome[c] \in Verdict => <<asked[c], outcome[c]>> \in verdicts
=============================================================================
