--------------------------- MODULE RequestService ---------------------------
(***************************************************************************)
(* What SessionManager::createSession promises to whoever calls it: a      *)
(* thread takes one request at a time, decides on it once and answers what *)
(* it has decided.  "created" is decided at a moment at which the          *)
(* subscriber HAS a session, found or stored, and never for a blacklisted  *)
(* one; "rejected" may come at once (blacklist, rate limit) or later.      *)
(* What becomes of the session between the decision and the answer is      *)
(* nobody's promise.  A decision takes several calls in SessionLifecycle.  *)
(***************************************************************************)
EXTENDS Subscribers

CONSTANTS Server,   \* the threads that take requests
          Nobody    \* the IMSI of a thread that has no request

VARIABLES sessions,   \* subscribers that have a session
          serves,     \* the IMSI each thread serves
          verdict     \* what it has decided: "none" before it has

serviceVars == <<sessions, serves, verdict>>

ServiceInit == /\ sessions = {}
               /\ serves = [s \in Server |-> Nobody]
               /\ verdict = [s \in Server |-> "none"]

Decide(s, v) == /\ serves[s] # Nobody
                /\ verdict[s] = "none"
                /\ verdict' = [verdict EXCEPT ![s] = v]
                /\ UNCHANGED serves

\* A request, refused at once or not.
Take(s) == /\ serves[s] = Nobody
           /\ serves'[s] # Nobody
           /\ serves' = [serves EXCEPT ![s] = serves'[s]]
           /\ UNCHANGED verdict \/ verdict' = [verdict EXCEPT ![s] = "rejected"]
           /\ UNCHANGED sessions

\* The session is there.
Confirm(s) == /\ serves[s] \in sessions
              /\ Decide(s, "created")
              /\ UNCHANGED sessions

\* The session is stored.
Store(s) == /\ serves[s] \notin sessions
            /\ ~IsBlacklisted(serves[s])
            /\ Decide(s, "created")
            /\ sessions' = sessions \cup {serves[s]}

Deny(s) == Decide(s, "rejected") /\ UNCHANGED sessions

Answer(s) == /\ verdict[s] # "none"
             /\ serves' = [serves EXCEPT ![s] = Nobody]
             /\ verdict' = [verdict EXCEPT ![s] = "none"]
             /\ UNCHANGED sessions

\* A timeout or a shutdown takes a session away.
Remove == /\ \E i \in sessions : sessions' = sessions \ {i}
          /\ UNCHANGED <<serves, verdict>>

ServiceNext == \/ \E s \in Server : Take(s) \/ Confirm(s) \/ Store(s) \/ Deny(s) \/ Answer(s)
               \/ Remove

ServiceSpec == ServiceInit /\ [][ServiceNext]_serviceVars
=============================================================================
