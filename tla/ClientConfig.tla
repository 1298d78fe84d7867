----------------------------- MODULE ClientConfig -----------------------------
(***************************************************************************)
(* pgw_client beside the server of ConfigLoad: ClientConfig::loadConfig    *)
(* looks for each key by text search instead of parsing the file, main     *)
(* goes no further when it refuses, and what it loaded decides where the   *)
(* one request is sent and how long its answer is waited for.  What is in  *)
(* request and answer is UdpExchange's subject.                            *)
(*                                                                         *)
(* The text of the file is a sequence of tokens: quoted strings, numbers,  *)
(* other words and the marks the search looks for.  No string holds a      *)
(* quote or one of the marks, a number is within unsigned long, and white  *)
(* space, which is skipped where a value begins, is left out.              *)
(***************************************************************************)
EXTENDS ConfigLoad

CONSTANT ClientFiles    \* by the server's file: entries in order, closed or cut short

ClientTextKey == {"server_ip", "log_file", "log_level"}
ClientKey     == ClientTextKey \cup {"server_port", "receive_timeout_ms"}

LogLevels == {"DEBUG", "INFO", "WARN", "ERROR", "CRITICAL"}

\* setDefaults.
ClientDefault == [server_ip |-> "127.0.0.1", server_port |-> 9000,
                  log_file |-> "client.log", log_level |-> "INFO",
                  receive_timeout_ms |-> 5000]

\* An entry's value is a string, a number or some other word.
ASSUME ClientAssumption ==
    \A d \in Document : \A f \in ClientFiles[d] :
        /\ f.closed \in BOOLEAN
        /\ Len(f.entries) \in Nat
        /\ \A n \in 1..Len(f.entries) :
              LET v == f.entries[n].value
              IN  /\ v.kind \in {"text", "number", "word"}
                  /\ v.kind = "number" => v.number \in Int

VARIABLES clientFile,     \* its configuration file
          clientPc,       \* where main is
          clientConfig    \* ClientConfig::_config

client == <<clientFile, clientPc, clientConfig>>
cvars  == <<vars, client>>

ClientInit == /\ Init
              /\ clientFile \in ClientFiles[file]
              /\ clientPc = "load"
              /\ clientConfig = ClientDefault

-----------------------------------------------------------------------------
(* The search.                                                             *)

Mark(c)   == [kind |-> c]
Quoted(s) == [kind |-> "quoted", text |-> s]

\* A value as it stands in the file.
Token(v) == IF v.kind = "text" THEN Quoted(v.text) ELSE v

\* { "key" : value , "key" : value } - the last brace may be missing, and with
\* it any new line, which ends a number as well.
Tokens(f) ==
    LET n == Len(f.entries)
        Entry(m) == f.entries[m]
        Part(p) == LET m == (p + 3) \div 4
                   IN  CASE p % 4 = 1 -> Quoted(Entry(m).key)
                         [] p % 4 = 2 -> Mark("colon")
                         [] p % 4 = 3 -> Token(Entry(m).value)
                         [] OTHER     -> Mark(IF m = n THEN "brace" ELSE "comma")
    IN  [p \in 1..(IF f.closed \/ n = 0 THEN 4 * n ELSE 4 * n - 1) |-> Part(p)]

\* npos
None == 0

First(S) == IF S = {} THEN None ELSE CHOOSE p \in S : \A q \in S : p <= q

\* find from p on; nothing is found from npos on.
FindFrom(t, p, kinds) == IF p = None THEN None
                         ELSE First({q \in p..Len(t) : t[q].kind \in kinds})

\* Mutant of FindColon: the last mention of the key is taken.
FindLastColon(t, k) ==
    LET hits == {q \in 1..Len(t) : t[q] = Quoted(k)}
    IN  IF hits = {} THEN None
        ELSE FindFrom(t, CHOOSE p \in hits : \A q \in hits : q <= p, {"colon"})

\* The colon after the first mention of the key, be it a key or a value.
FindColon(t, k) == FindFrom(t, First({q \in 1..Len(t) : t[q] = Quoted(k)}), {"colon"})

\* parseJsonValue: the next quoted string, whatever the value is.
ParseJsonValue(t, k, value) ==
    LET q == FindFrom(t, FindColon(t, k), {"quoted"})
    IN  IF q = None THEN value ELSE t[q].text

\* What fits an int.
IntRange == -(CountModulus \div 2) .. (CountModulus \div 2 - 1)

\* parseJsonUint16 and parseJsonUint32: what stands between colon and end is a
\* number for stoi or stoul, or the value stays.
ParseJsonNumber(t, k, value) ==
    LET colon == FindColon(t, k)
        end   == FindFrom(t, colon, {"comma", "brace"})
    IN  IF /\ end # None /\ t[colon + 1].kind = "number"
           /\ k = "server_port" => t[colon + 1].number \in IntRange
        THEN t[colon + 1].number % (IF k = "server_port" THEN 65536 ELSE CountModulus)
        ELSE value

ParsedConfig(t) ==
    [k \in ClientKey |-> IF k \in ClientTextKey
                         THEN ParseJsonValue(t, k, clientConfig[k])
                         ELSE ParseJsonNumber(t, k, clientConfig[k])]

\* validateConfig.
ValidConfig(c) == /\ c["server_ip"] # "" /\ c["server_port"] # 0
                  /\ c["log_level"] \in LogLevels
                  /\ c["receive_timeout_ms"] # 0

-----------------------------------------------------------------------------
(* main.                                                                   *)

\* initialize: the file does not open, or loadConfig reads all it can and
\* judges the result.  Opening the socket may fail.
Initialize ==
    /\ clientPc = "load"
    /\ \/ UNCHANGED clientConfig /\ clientPc' = "failed"
       \/ /\ clientConfig' = ParsedConfig(Tokens(clientFile))
          /\ clientPc' \in IF ValidConfig(clientConfig') THEN {"send", "failed"}
                                                         ELSE {"failed"}
    /\ UNCHANGED <<vars, clientFile>>

\* sendUdpPacket, to server_port of the local host: server_ip is not used.
SendUdpPacket == /\ clientPc = "send"
                 /\ clientPc' \in {"poll", "failed"}
                 /\ UNCHANGED <<vars, clientFile, clientConfig>>

\* receiveResponse: the server is up, it listens where the request went, and
\* neither packet was lost.
ReceiveAnswer == /\ clientPc = "poll"
                 /\ pc = "ready" /\ number["udp_port"] = clientConfig["server_port"]
                 /\ clientPc' = "answered"
                 /\ UNCHANGED <<vars, clientFile, clientConfig>>

\* Mutant of PollWait: the timeout goes through a sixteen-bit type.
PollWaitShort == LET n == clientConfig["receive_timeout_ms"] % 65536
                 IN  IF n >= 32768 THEN n - 65536 ELSE n

\* poll takes an int.
PollWait == LET n == clientConfig["receive_timeout_ms"]
            IN  IF n \in IntRange THEN n ELSE n - CountModulus

\* poll returns 0 when its time is over; a negative one never is.
PollTimeout == /\ clientPc = "poll" /\ PollWait >= 0
               /\ clientPc' = "failed"
               /\ UNCHANGED <<vars, clientFile, clientConfig>>

ClientNext == Initialize \/ SendUdpPacket \/ ReceiveAnswer \/ PollTimeout

BothNext == (Next /\ UNCHANGED client) \/ ClientNext

ClientFairness == WF_cvars(Initialize \/ SendUdpPacket) /\ WF_cvars(PollTimeout)

BothSpec == ClientInit /\ [][BothNext]_cvars /\ ClientFairness

-----------------------------------------------------------------------------
(* Properties.                                                             *)

Loaded == clientPc \in {"send", "poll", "answered"}

\* The entry of k the search comes upon; 0 when there is none.
EntryOf(k) == First({n \in 1..Len(clientFile.entries) : clientFile.entries[n].key = k})

Says(k) == IF EntryOf(k) = 0 THEN Absent ELSE clientFile.entries[EntryOf(k)].value

\* No value is spelled like a key.
Unambiguous == \A n \in 1..Len(clientFile.entries) :
                  LET v == clientFile.entries[n].value
                  IN  v.kind = "text" => v.text \notin ClientKey

\* Whatever the order of the keys, each setting is its own entry's value - the
\* first one's, if there are several - or else the default; but a text whose
\* value is no string becomes the name of the key that follows it.  The number
\* that ends a file cut short is not taken, nor a port beyond int.
ClientLoadExact ==
    Loaded /\ Unambiguous =>
        \A k \in ClientKey :
            LET n == EntryOf(k)
                last == n = Len(clientFile.entries)
                v == Says(k)
            IN  clientConfig[k] =
                   CASE k \in ClientTextKey /\ v.kind = "text" -> v.text
                     [] k \in ClientTextKey /\ v.kind \notin {"text", "absent"} /\ ~last
                          -> clientFile.entries[n + 1].key
                     [] /\ k \notin ClientTextKey /\ v.kind = "number"
                        /\ last => clientFile.closed
                        /\ k = "server_port" => v.number \in IntRange
                          -> v.number % (IF k = "server_port" THEN 65536 ELSE CountModulus)
                     [] OTHER -> ClientDefault[k]

\* The two programs read their files in different ways, yet a server and a client
\* whose files say the same of the port, be it nothing, nonsense or a number too
\* large for a port, use the same one.
PortsAgree ==
    (/\ pc = "ready" /\ readable /\ FitUpTo(1)
     /\ Loaded /\ Unambiguous
     /\ file["udp_port"] = Says("server_port")
     /\ file["udp_port"].kind = "number" =>
            file["udp_port"].number \in IntRange /\ clientFile.closed)
        => clientConfig["server_port"] = number["udp_port"]

\* A client whose file gives a timeout poll can take, or none that is a number,
\* comes to an end, be there a server or not.  Any other it waits for for ever.
ClientEnds ==
    LET v == Says("receive_timeout_ms")
    IN  (Unambiguous /\ (v.kind = "number" => v.number % CountModulus \in IntRange))
            ~> clientPc \in {"failed", "answered"}
===============================================================================
