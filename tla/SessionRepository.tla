------------------------- MODULE SessionRepository -------------------------
(***************************************************************************)
(* persistence/InMemorySessionRepository: a map from IMSI to Session       *)
(* behind one mutex, and domain/Session: the creation time and the expiry  *)
(* test.  Every public method of the repository takes the mutex for its    *)
(* whole body, so each is ONE step here; what callers do between two calls *)
(* is the business of the modules that extend this one.                    *)
(*                                                                         *)
(* Time is counted in ticks, TicksPerSecond of them to a second, because   *)
(* Session::isExpired truncates the age to whole seconds.                  *)
(***************************************************************************)
EXTENDS Subscribers, Integers

CONSTANTS SessionTimeout,   \* session_timeout_sec
          TicksPerSecond,   \* resolution of the modelled clock
          MaxTime,          \* bound: the clock stops here
          Absent            \* "no session": not a time

ASSUME TimeAssumption ==
    /\ SessionTimeout \in Nat \ {0}
    /\ TicksPerSecond \in Nat \ {0}
    /\ MaxTime \in Nat
    /\ Absent \notin Nat

VARIABLES now,          \* std::chrono::system_clock
          createdAt     \* _sessions: IMSI -> Session::_createdAt, or Absent

RepoTypeOK == /\ now \in Nat
              /\ createdAt \in [Imsi -> Nat \cup {Absent}]

RepoInit == /\ now = 0
            /\ createdAt = [i \in Imsi |-> Absent]

SessionExists(i) == createdAt[i] # Absent

GetAllImsis == {i \in Imsi : SessionExists(i)}

\* Session::isExpired: the age, truncated to seconds, EXCEEDS the timeout.
IsExpired(i) == (now - createdAt[i]) \div TicksPerSecond > SessionTimeout

\* Mutant of GetExpiredSessions: reaching the timeout is enough.
GetExpiredSessionsEarly ==
    {i \in GetAllImsis : (now - createdAt[i]) \div TicksPerSecond >= SessionTimeout}

GetExpiredSessions == {i \in GetAllImsis : IsExpired(i)}

\* addSession of a Session constructed at time t; the map never overwrites.
AddSession(i, t) ==
    createdAt' = IF SessionExists(i) THEN createdAt ELSE [createdAt EXCEPT ![i] = t]

RemoveSession(i) == createdAt' = [createdAt EXCEPT ![i] = Absent]

\* Mutant of RefreshSession: the session is set back, not forward.
RefreshBackdated(i) ==
    createdAt' = IF SessionExists(i) THEN [createdAt EXCEPT ![i] = now - SessionTimeout]
                                     ELSE createdAt

\* refreshSession returns false, and changes nothing, when the IMSI is gone.
RefreshSession(i) ==
    createdAt' = IF SessionExists(i) THEN [createdAt EXCEPT ![i] = now] ELSE createdAt

AdvanceClock == /\ now < MaxTime
                /\ now' = now + 1
=============================================================================
