----------------------------- MODULE MCConfigLoad -----------------------------
(***************************************************************************)
(* Server and client for TLC: every server file that differs from a proper *)
(* one in at most two keys, beside a proper client file; those that differ *)
(* in address or port beside client files to watch as well.                *)
(***************************************************************************)
EXTENDS ClientConfig

MCModulus == 1048576    \* stands for 2^32, which is beyond TLC's integers

\* The key is missing, its value is of another kind, or it is a value to
\* watch: no text; zero, and numbers that do not fit the width or int.
MCValues(k) ==
    CASE k \in TextKey  -> {Absent, Number(5), Text(""), Text("other")}
      [] k \in PortKey  -> {Absent, Text("5"), Number(0), Number(65536), Number(65545),
                            Number(-1), Number(600000)}
      [] k \in CountKey -> {Absent, Text("5"), Number(0), Number(MCModulus), Number(-1)}
      [] OTHER          -> {Absent, Text("x"), List({}), List({Text("x"), Number(5)})}

MCProper == [k \in Key |-> IF k \in TextKey THEN Text(k)
                           ELSE IF k \in NumberKey THEN Number(7) ELSE List({Text("x")})]

\* What the client can notice of the server's file: its port, and a bad value
\* that comes before.
MCNearProper == UNION {{[MCProper EXCEPT ![k] = v] : v \in MCValues(k)} : k \in {"udp_ip", "udp_port"}}

MCDocument == UNION {{[MCProper EXCEPT ![k] = v, ![l] = w] :
                          v \in MCValues(k), w \in MCValues(l)} : k \in Key, l \in Key}

\* The client's keys: one may be missing or unusual, one more spelled twice.
MCClientOrders ==
    {<<"server_ip", "server_port", "log_file", "log_level", "receive_timeout_ms">>,
     <<"receive_timeout_ms", "log_level", "log_file", "server_port", "server_ip">>,
     <<"log_file", "server_ip", "server_port", "receive_timeout_ms", "server_port">>,
     <<"server_ip", "log_level">>}

MCOther == [kind |-> "word"]

MCClientProper == [k \in ClientKey |-> CASE k = "log_level" -> Text("DEBUG")
                                         [] k \in ClientTextKey -> Text(k \o "?")
                                         [] OTHER -> Number(7)]

MCClientValues(k) ==
    CASE k = "log_level"      -> {Number(5), Text("loud"), MCOther}
      [] k \in ClientTextKey  -> {Number(5), Text(""), Text("server_port"), MCOther}
      [] k = "server_port"    -> {Text("5"), Number(0), Number(65545), Number(-1), Number(600000), MCOther}
      [] OTHER                -> {Text("5"), Number(0), Number(-1), Number(MCModulus + 40000), MCOther}

MCLaidOut(values, order, closed) ==
    [entries |-> [n \in 1..Len(order) |-> [key |-> order[n], value |-> values[order[n]]]],
     closed |-> closed]

MCClientFiles ==
    LET plain == {MCLaidOut(MCClientProper, CHOOSE o \in MCClientOrders : Len(o) = 5, TRUE)}
        odd   == UNION {{MCLaidOut([MCClientProper EXCEPT ![k] = v], o, c) : v \in MCClientValues(k)} :
                            k \in ClientKey, o \in MCClientOrders, c \in BOOLEAN}
    IN  [d \in MCDocument |-> IF d \in MCNearProper THEN odd ELSE plain]
===============================================================================
