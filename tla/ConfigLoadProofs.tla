-------------------------- MODULE ConfigLoadProofs --------------------------
(***************************************************************************)
(* ConfigLoad for files of any content and any width of uint32_t.          *)
(***************************************************************************)
EXTENDS ConfigLoad, TLAPS

-----------------------------------------------------------------------------
(* The keys.                                                               *)

\* load reads eleven keys, and every key of the configuration is one of them.
LEMMA KeysRead ==
    /\ Len(Keys) = 11
    /\ \A n \in 1..11 : Keys[n] \in Key
    /\ \A k \in Key : \E n \in 1..11 : Keys[n] = k
<1>1. Len(Keys) = 11
  BY DEF Keys
<1>2. /\ Keys[1] = "udp_ip" /\ Keys[2] = "udp_port" /\ Keys[3] = "session_timeout_sec"
      /\ Keys[4] = "cleanup_interval_sec" /\ Keys[5] = "cdr_file" /\ Keys[6] = "http_port"
      /\ Keys[7] = "graceful_shutdown_rate" /\ Keys[8] = "max_requests_per_minute"
      /\ Keys[9] = "log_file" /\ Keys[10] = "log_level" /\ Keys[11] = "blacklist"
  BY DEF Keys
<1>3. \A n \in 1..11 : Keys[n] \in Key
  BY <1>2 DEF Key, TextKey, NumberKey, PortKey, CountKey
<1>4. ASSUME NEW k \in Key PROVE \E n \in 1..11 : Keys[n] = k
  <2>1. k \in {"udp_ip", "udp_port", "session_timeout_sec", "cleanup_interval_sec",
               "cdr_file", "http_port", "graceful_shutdown_rate",
               "max_requests_per_minute", "log_file", "log_level", "blacklist"}
    BY DEF Key, TextKey, NumberKey, PortKey, CountKey
  <2> HIDE DEF Keys
  <2> QED
    BY <1>2, <2>1
<1> QED
  BY <1>1, <1>3, <1>4

\* No key is of two types.
LEMMA KeysTyped ==
    /\ TextKey \cap NumberKey = {} /\ "blacklist" \notin TextKey \cup NumberKey
    /\ TextKey \subseteq Key /\ NumberKey \subseteq Key /\ "blacklist" \in Key
    /\ PortKey \subseteq NumberKey
  BY DEF Key, TextKey, NumberKey, PortKey, CountKey

\* The defaults are a configuration that validateConfig accepts.
LEMMA DefaultsTyped ==
    /\ DOMAIN DefaultText = TextKey
    /\ DefaultNumber \in [NumberKey -> Nat \ {0}]
    /\ \A k \in PortKey : DefaultNumber[k] < 65536
<1>1. DOMAIN DefaultText = TextKey
  BY DEF DefaultText, TextKey
<1>2. DefaultNumber \in [NumberKey -> Nat \ {0}]
  BY DEF DefaultNumber, NumberKey, PortKey, CountKey
<1>3. \A k \in PortKey : DefaultNumber[k] < 65536
  BY DEF DefaultNumber, PortKey
<1> QED
  BY <1>1, <1>2, <1>3

\* A conversion yields what its type holds.
LEMMA NarrowedTyped ==
    ASSUME NEW k, NEW n \in Int
    PROVE  Narrowed(k, n) \in Nat /\ (k \in PortKey => Narrowed(k, n) < 65536)
  BY ConfigAssumption DEF Narrowed

-----------------------------------------------------------------------------
(* Types.                                                                  *)

LEMMA TypingStep == TypeOK /\ [Next]_vars => TypeOK'
<1> SUFFICES ASSUME TypeOK, [Next]_vars PROVE TypeOK'
  OBVIOUS
<1> USE KeysRead
<1>t. /\ \A k \in Key : file[k].kind = "number" => file[k].number \in Int
      /\ readable \in BOOLEAN /\ isValid \in BOOLEAN
      /\ at \in 1..12
      /\ DOMAIN text = TextKey
      /\ number \in [NumberKey -> Nat]
      /\ \A k \in PortKey : number[k] < 65536
  BY DEF TypeOK
<1>1. CASE FindConfigFile
  BY <1>t, <1>1 DEF FindConfigFile, TypeOK, config
<1>2. CASE Open
  BY <1>t, <1>2 DEF Open, TypeOK, config
<1>3. CASE ReadKey
  <2>1. at \in 1..11 /\ Keys[at] \in Key /\ UNCHANGED <<file, readable, isValid>>
    BY <1>t, <1>3 DEF ReadKey
  <2>2. CASE pc' = "setup" /\ at' = 1 /\ UNCHANGED config
    BY <1>t, <2>1, <2>2 DEF TypeOK, config
  <2>3. CASE /\ at' = at + 1 /\ pc = "read" /\ UNCHANGED pc
             /\ text' = IF Keys[at] \in TextKey /\ file[Keys[at]].kind = "text"
                        THEN [text EXCEPT ![Keys[at]] = file[Keys[at]].text] ELSE text
             /\ number' = IF Keys[at] \in NumberKey /\ file[Keys[at]].kind = "number"
                          THEN [number EXCEPT ![Keys[at]] =
                                    Narrowed(Keys[at], file[Keys[at]].number)] ELSE number
    <3>2. DOMAIN text' = TextKey
      BY <1>t, <2>3
    <3>3. number' \in [NumberKey -> Nat] /\ \A k \in PortKey : number'[k] < 65536
      <4>1. CASE Keys[at] \in NumberKey /\ file[Keys[at]].kind = "number"
        <5> DEFINE n == file[Keys[at]].number
                   v == Narrowed(Keys[at], n)
        <5>a. n \in Int
          BY <1>t, <2>1, <4>1
        <5>1. v \in Nat /\ (Keys[at] \in PortKey => v < 65536)
          BY <5>a, NarrowedTyped
        <5>2. number' = [number EXCEPT ![Keys[at]] = v]
          BY <2>3, <4>1
        <5> HIDE DEF v
        <5> QED
          BY <1>t, <4>1, <5>1, <5>2, KeysTyped
      <4>2. CASE ~(Keys[at] \in NumberKey /\ file[Keys[at]].kind = "number")
        BY <1>t, <2>3, <4>2
      <4> QED
        BY <4>1, <4>2
    <3> QED
      BY <1>t, <2>1, <2>3, <3>2, <3>3 DEF TypeOK
  <2> QED
    BY <1>3, <2>2, <2>3 DEF ReadKey
<1>4. CASE Validate
  BY <1>t, <1>4 DEF Validate, TypeOK, config
<1>5. CASE Build
  <2>1. Len(Components) = 6
    BY DEF Components
  <2> QED
    BY <1>t, <1>5, <2>1 DEF Build, TypeOK, config
<1>6. CASE Initialized
  BY <1>t, <1>6 DEF Initialized, TypeOK, config
<1>7. CASE Ended \/ UNCHANGED vars
  BY <1>t, <1>7 DEF Ended, TypeOK, vars, config
<1> QED
  BY <1>1, <1>2, <1>3, <1>4, <1>5, <1>6, <1>7 DEF Next

\* Every number of the configuration stays within the width of its type, for
\* files of any content.
THEOREM ConfigTypeCorrect == Spec => []TypeOK
<1>1. ASSUME Init PROVE TypeOK
  <2>1. \A k \in Key : file[k].kind = "number" => file[k].number \in Int
    BY <1>1, ConfigAssumption, Zenon DEF Init
  <2>2. number \in [NumberKey -> Nat] /\ \A k \in PortKey : number[k] < 65536
    BY <1>1, DefaultsTyped DEF Init
  <2>3. DOMAIN text = TextKey
    BY <1>1, DefaultsTyped DEF Init
  <2>4. at \in 1..(Len(Keys) + 1)
    BY <1>1, KeysRead DEF Init
  <2>5. readable \in BOOLEAN /\ isValid \in BOOLEAN
    BY <1>1, Zenon DEF Init
  <2> QED
    BY <1>1, <2>1, <2>2, <2>3, <2>4, <2>5 DEF Init, TypeOK
<1> QED
  BY <1>1, TypingStep, PTL DEF Spec

-----------------------------------------------------------------------------
(* What load leaves in the configuration.                                  *)

\* The first n keys.
Read(n) == {Keys[m] : m \in 1..n}

\* The configuration is the file's for the keys in S and the defaults for others.
Taken(S) ==
    /\ \A k \in TextKey :
          text[k] = IF k \in S /\ file[k].kind = "text" THEN file[k].text ELSE DefaultText[k]
    /\ \A k \in NumberKey :
          number[k] = IF k \in S /\ file[k].kind = "number"
                      THEN Narrowed(k, file[k].number) ELSE DefaultNumber[k]
    /\ blacklist = IF "blacklist" \in S /\ file["blacklist"].kind = "list"
                   THEN Strings(file["blacklist"].list) ELSE {}

\* The keys whose values count.
Counted == {k \in Key : Counts(k)}

\* Before, in and after load's loop.
LoopInv ==
    /\ pc \in {"find", "open"} => at = 1 /\ Taken({})
    /\ pc = "read" => readable /\ FitUpTo(at - 1) /\ Taken(Read(at - 1))
    /\ pc \in {"find", "open", "read"} => ~isValid
    /\ pc \in {"setup", "ready"} => Taken(Counted)

LoadInv == LoopInv /\ VerdictExact

\* When the loop ends, what counts is what was read.
LEMMA CountsRead ==
    ASSUME readable, NEW n \in 0..11, FitUpTo(n), n = 11 \/ ~Fits(Keys[n + 1], file[Keys[n + 1]]),
           NEW k
    PROVE  Counts(k) <=> k \in Read(n)
<1> USE KeysRead
<1>1. ASSUME k \in Read(n) PROVE Counts(k)
  <2>1. PICK m \in 1..n : Keys[m] = k
    BY <1>1 DEF Read
  <2>2. FitUpTo(m) /\ m \in 1..11
    BY <2>1 DEF FitUpTo
  <2> QED
    BY <2>1, <2>2 DEF Counts
<1>2. ASSUME Counts(k) PROVE k \in Read(n)
  <2>1. PICK m \in 1..11 : Keys[m] = k /\ FitUpTo(m)
    BY <1>2 DEF Counts
  <2>2. m \in 1..n
    BY <2>1 DEF FitUpTo
  <2> QED
    BY <2>1, <2>2 DEF Read
<1> QED
  BY <1>1, <1>2

\* One more key is taken.
LEMMA ReadKeyTakes ==
    ASSUME TypeOK, LoopInv, ReadKey, Fits(Keys[at], file[Keys[at]])
    PROVE  /\ pc = "read" /\ pc' = "read" /\ at' = at + 1 /\ at \in 1..11
           /\ FitUpTo(at - 1)' /\ Taken(Read(at - 1))'
<1> USE KeysRead
<1> DEFINE k0 == Keys[at]
           v0 == file[Keys[at]]
<1>1. /\ pc = "read" /\ at \in 1..11 /\ k0 \in Key
      /\ pc' = pc /\ at' = at + 1 /\ UNCHANGED <<file, readable, isValid>>
      /\ text' = IF k0 \in TextKey /\ v0.kind = "text"
                 THEN [text EXCEPT ![k0] = v0.text] ELSE text
      /\ number' = IF k0 \in NumberKey /\ v0.kind = "number"
                   THEN [number EXCEPT ![k0] = Narrowed(k0, v0.number)] ELSE number
      /\ blacklist' = IF k0 = "blacklist" /\ v0.kind = "list" THEN Strings(v0.list) ELSE blacklist
  BY DEF TypeOK, ReadKey
<1>2. FitUpTo(at - 1) /\ Taken(Read(at - 1))
  BY <1>1 DEF LoopInv
<1>3. FitUpTo(at - 1)'
  <2>1. \A m \in 1..at : Fits(Keys[m], file[Keys[m]])
    BY <1>1, <1>2 DEF FitUpTo
  <2>2. at' - 1 = at /\ file' = file
    BY <1>1
  <2> QED
    BY <2>1, <2>2 DEF FitUpTo
<1>4. \A k : k \in Read(at - 1)' <=> (k \in Read(at - 1) \/ k = k0)
  BY <1>1 DEF Read
<1>5. ASSUME NEW k \in TextKey
      PROVE  text'[k] = IF k \in Read(at - 1)' /\ file'[k].kind = "text"
                        THEN file'[k].text ELSE DefaultText[k]
  <2>1. text[k] = IF k \in Read(at - 1) /\ file[k].kind = "text"
                  THEN file[k].text ELSE DefaultText[k]
    BY <1>2 DEF Taken
  <2>2. CASE k = k0 /\ v0.kind = "text"
    <3>1. text'[k] = v0.text
      BY <1>1, <2>2 DEF TypeOK
    <3> QED
      BY <1>1, <1>4, <2>2, <3>1
  <2>3. CASE ~(k = k0 /\ v0.kind = "text")
    <3>1. text'[k] = text[k]
      BY <1>1, <2>3 DEF TypeOK
    <3> QED
      BY <1>1, <1>4, <2>1, <2>3, <3>1
  <2> QED
    BY <2>2, <2>3
<1>6. ASSUME NEW k \in NumberKey
      PROVE  number'[k] = IF k \in Read(at - 1)' /\ file'[k].kind = "number"
                          THEN Narrowed(k, file'[k].number) ELSE DefaultNumber[k]
  <2>1. number[k] = IF k \in Read(at - 1) /\ file[k].kind = "number"
                    THEN Narrowed(k, file[k].number) ELSE DefaultNumber[k]
    BY <1>2 DEF Taken
  <2>2. CASE k = k0 /\ v0.kind = "number"
    <3>1. number'[k] = Narrowed(k, v0.number)
      BY <1>1, <2>2 DEF TypeOK
    <3> QED
      BY <1>1, <1>4, <2>2, <3>1
  <2>3. CASE ~(k = k0 /\ v0.kind = "number")
    <3>1. number'[k] = number[k]
      BY <1>1, <2>3 DEF TypeOK
    <3> QED
      BY <1>1, <1>4, <2>1, <2>3, <3>1
  <2> QED
    BY <2>2, <2>3
<1>7. blacklist' = IF "blacklist" \in Read(at - 1)' /\ file'["blacklist"].kind = "list"
                   THEN Strings(file'["blacklist"].list) ELSE {}
  <2>1. blacklist = IF "blacklist" \in Read(at - 1) /\ file["blacklist"].kind = "list"
                    THEN Strings(file["blacklist"].list) ELSE {}
    BY <1>2 DEF Taken
  <2>2. CASE k0 = "blacklist" /\ v0.kind = "list"
    BY <1>1, <1>4, <2>2
  <2>3. CASE ~(k0 = "blacklist" /\ v0.kind = "list")
    BY <1>1, <1>4, <2>1, <2>3
  <2> QED
    BY <2>2, <2>3
<1>8. Taken(Read(at - 1))'
  BY <1>5, <1>6, <1>7 DEF Taken
<1> QED
  BY <1>1, <1>3, <1>8

\* What leaves file and configuration alone leaves these alone.
LEMMA LoadUnmoved ==
    ASSUME UNCHANGED <<file, readable, text, number, blacklist>>
    PROVE  /\ Taken({}) => Taken({})'
           /\ Taken(Counted) => Taken(Counted)'
           /\ Counted' = Counted
<1>1. Counted' = Counted
  BY DEF Counted, Counts, FitUpTo
<1> QED
  BY <1>1 DEF Taken

LEMMA LoadStep == TypeOK /\ LoadInv /\ [Next]_vars => LoadInv'
<1> SUFFICES ASSUME TypeOK, LoadInv, [Next]_vars PROVE LoadInv'
  OBVIOUS
<1> USE KeysRead
<1>1. CASE FindConfigFile
  <2>1. Taken({}) => Taken({})'
    BY <1>1, LoadUnmoved DEF FindConfigFile, config
  <2> QED
    BY <1>1, <2>1 DEF FindConfigFile, LoadInv, LoopInv, VerdictExact
<1>2. CASE Open
  <2>1. /\ Taken({}) /\ at = 1 /\ ~isValid
        /\ pc' = IF readable THEN "read" ELSE "setup"
        /\ UNCHANGED <<file, readable, at, text, number, blacklist, isValid>>
    BY <1>2 DEF Open, config, LoadInv, LoopInv
  <2>2. CASE readable
    <3>1. Read(at - 1)' = {}
      BY <2>1 DEF Read
    <3>2. FitUpTo(at - 1)'
      BY <2>1 DEF FitUpTo
    <3>3. Taken(Read(at - 1))'
      BY <2>1, <3>1 DEF Taken
    <3> QED
      BY <2>1, <2>2, <3>2, <3>3 DEF LoadInv, LoopInv, VerdictExact
  <2>3. CASE ~readable
    <3>1. Counted' = {}
      BY <2>1, <2>3 DEF Counted, Counts
    <3>2. Taken(Counted)'
      BY <2>1, <3>1 DEF Taken
    <3> QED
      BY <2>1, <2>3, <3>2 DEF LoadInv, LoopInv, VerdictExact
  <2> QED
    BY <2>2, <2>3
<1>3. CASE ReadKey
  <2>1. /\ pc = "read" /\ at \in 1..11 /\ readable /\ ~isValid
        /\ FitUpTo(at - 1) /\ Taken(Read(at - 1))
        /\ UNCHANGED <<file, readable, isValid>>
    BY <1>3 DEF ReadKey, TypeOK, LoadInv, LoopInv
  <2>2. CASE Fits(Keys[at], file[Keys[at]])
    <3>1. pc' = "read" /\ FitUpTo(at - 1)' /\ Taken(Read(at - 1))'
      BY <1>3, <2>2, ReadKeyTakes DEF LoadInv
    <3> QED
      BY <2>1, <3>1 DEF LoadInv, LoopInv, VerdictExact
  <2>3. CASE ~Fits(Keys[at], file[Keys[at]])
    <3>1. pc' = "setup" /\ UNCHANGED <<text, number, blacklist>>
      BY <1>3, <2>3 DEF ReadKey, config
    <3>2. at - 1 \in 0..11 /\ (at - 1) + 1 = at
      BY <2>1
    <3>3. \A k : Counts(k) <=> k \in Read(at - 1)
      BY <2>1, <2>3, <3>2, CountsRead
    <3>4. Taken(Counted)
      BY <2>1, <3>3, KeysTyped DEF Taken, Counted
    <3>5. Taken(Counted)'
      BY <2>1, <3>1, <3>4, LoadUnmoved
    <3>6. ~FitUpTo(Len(Keys))'
      BY <2>1, <2>3 DEF FitUpTo
    <3> QED
      BY <2>1, <3>1, <3>5, <3>6 DEF LoadInv, LoopInv, VerdictExact
  <2> QED
    BY <2>2, <2>3
<1>4. CASE Validate
  <2>1. /\ at = 12 /\ readable /\ pc' = "setup"
        /\ FitUpTo(11) /\ Taken(Read(11))
        /\ isValid' = (\A k \in NumberKey : number[k] # 0)
        /\ UNCHANGED <<file, readable, text, number, blacklist>>
    BY <1>4 DEF Validate, TypeOK, config, LoadInv, LoopInv
  <2>2. \A k : Counts(k) <=> k \in Read(11)
    BY <2>1, CountsRead
  <2>3. Taken(Counted)'
    <3>1. Taken(Counted)
      BY <2>1, <2>2, KeysTyped DEF Taken, Counted
    <3> QED
      BY <2>1, <3>1, LoadUnmoved
  <2>4. \A k \in NumberKey : number[k] # 0 <=>
            (file[k].kind = "number" => Narrowed(k, file[k].number) # 0)
    <3> SUFFICES ASSUME NEW k \in NumberKey
                 PROVE  number[k] # 0 <=>
                            (file[k].kind = "number" => Narrowed(k, file[k].number) # 0)
      OBVIOUS
    <3>1. k \in Read(11)
      BY KeysTyped DEF Read
    <3>2. DefaultNumber[k] # 0
      BY DefaultsTyped
    <3> QED
      BY <2>1, <3>1, <3>2 DEF Taken
  <2>5. FitUpTo(Len(Keys))'
    BY <2>1 DEF FitUpTo
  <2>6. VerdictExact'
    BY <2>1, <2>4, <2>5 DEF VerdictExact
  <2> QED
    BY <2>1, <2>3, <2>6 DEF LoadInv, LoopInv
<1>5. CASE Build \/ Initialized
  <2>1. /\ pc = "setup" /\ pc' \in {"setup", "ready", "failed"}
        /\ UNCHANGED <<file, readable, text, number, blacklist, isValid>>
    BY <1>5 DEF Build, Initialized, config
  <2>2. Taken(Counted)'
    BY <2>1, LoadUnmoved DEF LoadInv, LoopInv
  <2>3. FitUpTo(Len(Keys))' <=> FitUpTo(Len(Keys))
    BY <2>1 DEF FitUpTo
  <2> QED
    BY <2>1, <2>2, <2>3 DEF LoadInv, LoopInv, VerdictExact
<1>6. CASE Ended \/ UNCHANGED vars
  <2>1. UNCHANGED vars
    BY <1>6 DEF Ended
  <2>2. /\ Taken({}) => Taken({})'
        /\ Taken(Counted) => Taken(Counted)'
    BY <2>1, LoadUnmoved DEF vars, config
  <2>3. Taken(Read(at - 1))' <=> Taken(Read(at - 1))
    BY <2>1 DEF vars, config, Taken, Read
  <2>4. /\ FitUpTo(Len(Keys))' <=> FitUpTo(Len(Keys))
        /\ FitUpTo(at - 1)' <=> FitUpTo(at - 1)
    BY <2>1 DEF vars, config, FitUpTo
  <2> QED
    BY <2>1, <2>2, <2>3, <2>4 DEF vars, config, LoadInv, LoopInv, VerdictExact
<1> QED
  BY <1>1, <1>2, <1>3, <1>4, <1>5, <1>6 DEF Next

LEMMA LoadInit == Init => LoadInv
  BY DEF Init, LoadInv, LoopInv, Taken, VerdictExact

\* The loop of load computes the closed form for files of any content.
THEOREM LoadCorrect == Spec => []LoadExact
<1>1. LoadInv => LoadExact
  BY KeysTyped, Zenon DEF LoadInv, LoopInv, LoadExact, Taken, Counted
<1> QED
  BY <1>1, LoadInit, LoadStep, ConfigTypeCorrect, PTL DEF Spec

\* load's verdict is exact for files of any content.
THEOREM VerdictCorrect == Spec => []VerdictExact
<1>1. LoadInv => VerdictExact
  BY DEF LoadInv
<1> QED
  BY <1>1, LoadInit, LoadStep, ConfigTypeCorrect, PTL DEF Spec

-----------------------------------------------------------------------------
(* What the constructors let through.                                      *)

\* Whatever has been built has accepted the configuration.
SetupInv ==
    /\ pc = "setup" => \A m \in 1..(at - 1) : Accepts(Components[m])
    /\ pc = "ready" => \A m \in 1..6 : Accepts(Components[m])

\* What the four demanding constructors accept is usable.
LEMMA SetupUsable == SetupInv => ReadyIsUsable
<1> SUFFICES ASSUME \A m \in 1..6 : Accepts(Components[m])
             PROVE  /\ \A k \in NumberKey \ {"max_requests_per_minute"} : number[k] # 0
                    /\ text["udp_ip"] # ""
  BY DEF SetupInv, ReadyIsUsable
<1>1. /\ Components[3] = "SessionCleaner" /\ Components[4] = "GracefulShutdownManager"
      /\ Components[5] = "UdpServer" /\ Components[6] = "HttpServer"
  BY DEF Components
<1>2. /\ Accepts("SessionCleaner") /\ Accepts("GracefulShutdownManager")
      /\ Accepts("UdpServer") /\ Accepts("HttpServer")
  BY <1>1
<1> QED
  BY <1>2 DEF Accepts, NumberKey, PortKey, CountKey

LEMMA SetupStep == TypeOK /\ LoadInv /\ SetupInv /\ [Next]_vars => SetupInv'
<1> SUFFICES ASSUME TypeOK, LoadInv, SetupInv, [Next]_vars PROVE SetupInv'
  OBVIOUS
<1>0. Len(Components) = 6 /\ at \in Nat
  BY KeysRead DEF Components, TypeOK
<1>1. CASE FindConfigFile \/ Open \/ ReadKey \/ Validate
  <2>1. pc' \in {"open", "read", "setup", "failed"} /\ (pc' = "setup" => at' = 1)
    BY <1>1 DEF FindConfigFile, Open, ReadKey, Validate, LoadInv, LoopInv
  <2> QED
    BY <2>1 DEF SetupInv
<1>2. CASE Build
  <2>1. /\ \A m \in 1..(at - 1) : Accepts(Components[m])
        /\ \/ Accepts(Components[at]) /\ at' = at + 1 /\ pc' = "setup"
           \/ pc' = "failed"
        /\ \A c : Accepts(c)' <=> Accepts(c)
    BY <1>2 DEF Build, SetupInv, Accepts, config
  <2> QED
    BY <1>0, <2>1 DEF SetupInv
<1>3. CASE Initialized
  <2>1. \A m \in 1..6 : Accepts(Components[m])
    BY <1>0, <1>3 DEF Initialized, SetupInv
  <2>2. \A c : Accepts(c)' <=> Accepts(c)
    BY <1>3 DEF Initialized, Accepts, config
  <2>3. pc' = "ready"
    BY <1>3 DEF Initialized
  <2> QED
    BY <2>1, <2>2, <2>3 DEF SetupInv
<1>4. CASE Ended \/ UNCHANGED vars
  <2>1. pc' = pc /\ at' = at /\ \A c : Accepts(c)' <=> Accepts(c)
    BY <1>4 DEF Ended, vars, config, Accepts
  <2> QED
    BY <2>1 DEF SetupInv
<1> QED
  BY <1>1, <1>2, <1>3, <1>4 DEF Next

\* Whatever load made of the file, no server comes up with a zero port, timeout,
\* interval or rate or without an address.
THEOREM ReadyCorrect == Spec => []ReadyIsUsable
<1>1. Init => SetupInv
  BY DEF Init, SetupInv
<1> QED
  BY <1>1, SetupStep, SetupUsable, LoadInit, LoadStep, ConfigTypeCorrect, PTL DEF Spec
===============================================================================
