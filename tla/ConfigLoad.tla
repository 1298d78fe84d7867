------------------------------ MODULE ConfigLoad ------------------------------
(***************************************************************************)
(* From the configuration file to a server that can run:                   *)
(* JsonConfigAdapter::load reads one key after the other into a            *)
(* configuration that already holds the defaults, and stops at the first   *)
(* value it cannot convert; AppBootstrap::setupComponents does not look at *)
(* what load returns and builds the components from whatever was read.     *)
(*                                                                         *)
(* A JSON value is a record of its kind and what it holds.  Numbers are    *)
(* whole, and true and false count as 1 and 0; a conversion to uint16_t or *)
(* uint32_t keeps the low bits.                                            *)
(***************************************************************************)
EXTENDS Integers, Sequences

CONSTANTS Document,       \* files: functions from Key to JSON values
          CountModulus    \* 2^32, the range of uint32_t

Keys == <<"udp_ip", "udp_port", "session_timeout_sec", "cleanup_interval_sec",
          "cdr_file", "http_port", "graceful_shutdown_rate",
          "max_requests_per_minute", "log_file", "log_level", "blacklist">>

TextKey   == {"udp_ip", "cdr_file", "log_file", "log_level"}
PortKey   == {"udp_port", "http_port"}
CountKey  == {"session_timeout_sec", "cleanup_interval_sec",
              "graceful_shutdown_rate", "max_requests_per_minute"}
NumberKey == PortKey \cup CountKey
Key       == TextKey \cup NumberKey \cup {"blacklist"}

Absent    == [kind |-> "absent"]
Text(s)   == [kind |-> "text", text |-> s]
Number(n) == [kind |-> "number", number |-> n]
List(s)   == [kind |-> "list", list |-> s]

ASSUME ConfigAssumption ==
    /\ CountModulus \in Nat \ {0}
    /\ \A f \in Document, k \in Key : f[k].kind = "number" => f[k].number \in Int

DefaultText == [udp_ip |-> "0.0.0.0", cdr_file |-> "cdr.log",
                log_file |-> "pgw.log", log_level |-> "INFO"]

DefaultNumber == [udp_port |-> 9000, http_port |-> 8080, session_timeout_sec |-> 30,
                  cleanup_interval_sec |-> 5, graceful_shutdown_rate |-> 10,
                  max_requests_per_minute |-> 100]

VARIABLES file,       \* what stands in the file
          readable,   \* whether it opens and parses
          pc,         \* where AppBootstrap::initialize is
          at,         \* load: the key it is at; setupComponents: the component
          text,       \* _config, its strings
          number,     \* _config, its numbers
          blacklist,  \* _config.blacklist
          isValid     \* _isValid, and what load returns

config == <<text, number, blacklist>>
vars   == <<file, readable, pc, at, config, isValid>>

Init == /\ file \in Document
        /\ readable \in BOOLEAN
        /\ pc = "find" /\ at = 1
        /\ text = DefaultText
        /\ number = DefaultNumber
        /\ blacklist = {}
        /\ isValid = FALSE

-----------------------------------------------------------------------------
(* JsonConfigAdapter.                                                      *)

\* findConfigFile: the first of five paths that opens, or an exception.
FindConfigFile == /\ pc = "find"
                  /\ pc' \in {"open", "failed"}
                  /\ UNCHANGED <<file, readable, at, config, isValid>>

Open == /\ pc = "open"
        /\ pc' = IF readable THEN "read" ELSE "setup"
        /\ UNCHANGED <<file, readable, at, config, isValid>>

\* Mutant of Narrowed: the width of the type is forgotten.
NarrowedNot(k, n) == n

\* get<uint16_t>() and get<uint32_t>().
Narrowed(k, n) == n % (IF k \in PortKey THEN 65536 ELSE CountModulus)

\* contains, and get of the key's type does not throw.  A blacklist is passed
\* over unless it is an array, and in it whatever is no string.
Fits(k, v) == \/ v.kind = "absent"
              \/ k \in TextKey /\ v.kind = "text"
              \/ k \in NumberKey /\ v.kind = "number"
              \/ k = "blacklist"

Strings(items) == {v.text : v \in {i \in items : i.kind = "text"}}

\* Mutant of ReadKey: a value that does not fit is passed over.
ReadKeyLenient ==
    /\ pc = "read" /\ at <= Len(Keys)
    /\ LET k == Keys[at]
           v == file[Keys[at]]
       IN  /\ text' = IF k \in TextKey /\ v.kind = "text"
                      THEN [text EXCEPT ![k] = v.text] ELSE text
           /\ number' = IF k \in NumberKey /\ v.kind = "number"
                        THEN [number EXCEPT ![k] = Narrowed(k, v.number)] ELSE number
           /\ blacklist' = IF k = "blacklist" /\ v.kind = "list"
                           THEN Strings(v.list) ELSE blacklist
           /\ at' = at + 1
    /\ UNCHANGED <<file, readable, pc, isValid>>

\* load, one key.  The exception of a value that does not fit ends it.
ReadKey ==
    /\ pc = "read" /\ at <= Len(Keys)
    /\ LET k == Keys[at]
           v == file[Keys[at]]
       IN  \/ /\ ~Fits(k, v)
              /\ pc' = "setup" /\ at' = 1
              /\ UNCHANGED config
           \/ /\ Fits(k, v)
              /\ text' = IF k \in TextKey /\ v.kind = "text"
                         THEN [text EXCEPT ![k] = v.text] ELSE text
              /\ number' = IF k \in NumberKey /\ v.kind = "number"
                           THEN [number EXCEPT ![k] = Narrowed(k, v.number)] ELSE number
              /\ blacklist' = IF k = "blacklist" /\ v.kind = "list"
                              THEN Strings(v.list) ELSE blacklist
              /\ at' = at + 1
              /\ UNCHANGED pc
    /\ UNCHANGED <<file, readable, isValid>>

\* Mutant of Validate: the ports are not looked at.
ValidateCounts ==
    /\ pc = "read" /\ at > Len(Keys)
    /\ isValid' = (\A k \in CountKey : number[k] # 0)
    /\ pc' = "setup" /\ at' = 1
    /\ UNCHANGED <<file, readable, config>>

\* validateConfig, and the end of load.
Validate ==
    /\ pc = "read" /\ at > Len(Keys)
    /\ isValid' = (\A k \in NumberKey : number[k] # 0)
    /\ pc' = "setup" /\ at' = 1
    /\ UNCHANGED <<file, readable, config>>

-----------------------------------------------------------------------------
(* setupComponents.                                                        *)

\* The components whose constructors may throw, in the order they are built,
\* and the rate limiter, which takes any limit.
Components == <<"ServerMetrics", "RateLimiter", "SessionCleaner",
                "GracefulShutdownManager", "UdpServer", "HttpServer">>

\* Mutant of Accepts: the shutdown manager takes any rate.
AcceptsAnyRate(c) ==
    CASE c = "SessionCleaner" -> number["session_timeout_sec"] # 0
                                 /\ number["cleanup_interval_sec"] # 0
      [] c = "UdpServer"      -> number["udp_port"] # 0 /\ text["udp_ip"] # ""
      [] c = "HttpServer"     -> number["http_port"] # 0 /\ text["udp_ip"] # ""
      [] OTHER                -> TRUE

\* What each constructor demands of the configuration.
Accepts(c) ==
    CASE c = "SessionCleaner" -> number["session_timeout_sec"] # 0
                                 /\ number["cleanup_interval_sec"] # 0
      [] c = "GracefulShutdownManager" -> number["graceful_shutdown_rate"] # 0
      [] c = "UdpServer"      -> number["udp_port"] # 0 /\ text["udp_ip"] # ""
      [] c = "HttpServer"     -> number["http_port"] # 0 /\ text["udp_ip"] # ""
      [] OTHER                -> TRUE

\* One component.  The metrics endpoint fails when its port is taken.
Build ==
    /\ pc = "setup" /\ at <= Len(Components)
    /\ \/ Accepts(Components[at]) /\ at' = at + 1 /\ UNCHANGED pc
       \/ /\ ~Accepts(Components[at]) \/ Components[at] = "ServerMetrics"
          /\ pc' = "failed"
          /\ UNCHANGED at
    /\ UNCHANGED <<file, readable, config, isValid>>

\* initialize registers the signal handlers and returns.
Initialized == /\ pc = "setup" /\ at > Len(Components)
               /\ pc' = "ready"
               /\ UNCHANGED <<file, readable, at, config, isValid>>

\* run() is AppLifecycle's; a failed initialize ends the program.
Ended == pc \in {"ready", "failed"} /\ UNCHANGED vars

Next == FindConfigFile \/ Open \/ ReadKey \/ Validate \/ Build \/ Initialized \/ Ended

Spec == Init /\ [][Next]_vars

-----------------------------------------------------------------------------
(* Properties.                                                             *)

\* Numbers stay within the width of their types.
TypeOK == /\ \A k \in Key : file[k].kind = "number" => file[k].number \in Int
          /\ readable \in BOOLEAN
          /\ pc \in {"find", "open", "read", "setup", "ready", "failed"}
          /\ at \in 1..(Len(Keys) + 1)
          /\ DOMAIN text = TextKey
          /\ number \in [NumberKey -> Nat]
          /\ \A k \in PortKey : number[k] < 65536
          /\ isValid \in BOOLEAN

\* Keys up to and including the n-th can all be taken.
FitUpTo(n) == \A m \in 1..n : Fits(Keys[m], file[Keys[m]])

\* What the file says counts for k: it stands before the first bad value.
Counts(k) == readable /\ \E n \in 1..Len(Keys) : Keys[n] = k /\ FitUpTo(n)

\* After load the configuration is the file's up to its first bad value and
\* the defaults from there on - the blacklist, which comes last, among them -
\* and no value is half taken or taken for another key.
LoadExact ==
    pc \in {"setup", "ready"} =>
        /\ \A k \in TextKey :
              text[k] = IF Counts(k) /\ file[k].kind = "text" THEN file[k].text
                                                              ELSE DefaultText[k]
        /\ \A k \in NumberKey :
              number[k] = IF Counts(k) /\ file[k].kind = "number"
                          THEN Narrowed(k, file[k].number) ELSE DefaultNumber[k]
        /\ blacklist = IF Counts("blacklist") /\ file["blacklist"].kind = "list"
                       THEN Strings(file["blacklist"].list) ELSE {}

\* load returns true exactly for a file that can be read, has no bad value and,
\* after narrowing, no zero.
VerdictExact ==
    pc \in {"setup", "ready"} =>
        (isValid <=> /\ readable
                     /\ FitUpTo(Len(Keys))
                     /\ \A k \in NumberKey :
                           file[k].kind = "number" => Narrowed(k, file[k].number) # 0)

\* Although nobody looks at load's verdict, no server comes up with a zero port,
\* timeout, interval or rate or without an address: the constructors refuse what
\* validateConfig refused, all but the request limit.
ReadyIsUsable ==
    pc = "ready" => /\ \A k \in NumberKey \ {"max_requests_per_minute"} : number[k] # 0
                    /\ text["udp_ip"] # ""
===============================================================================
