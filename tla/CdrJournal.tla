----------------------------- MODULE CdrJournal -----------------------------
(***************************************************************************)
(* persistence/FileCdrRepository: the append-only CDR file.  A line is     *)
(* abstracted to <<IMSI, action>> and the file to how many lines of each   *)
(* kind it holds: timestamps and the order of unrelated lines carry no     *)
(* property here.  writeCdr holds the repository's own mutex, which is NOT *)
(* the session repository's: a line is written in a step of its own, after *)
(* the session operation it reports.                                       *)
(***************************************************************************)
EXTENDS Subscribers, Integers

Opening == {"create"}
Closing == {"timeout", "graceful_shutdown"}
Refusal == {"rejected_blacklist", "rejected_rate_limit"}
CdrAction == Opening \cup Closing \cup Refusal

VARIABLES journal,      \* lines of the file, counted per IMSI and action
          cdrHealthy    \* _isHealthy: nothing ever sets it back to TRUE

JournalTypeOK == /\ journal \in [Imsi -> [CdrAction -> Nat]]
                 /\ cdrHealthy \in BOOLEAN

\* The constructor opens the file, which may fail.
JournalInit == /\ journal = [i \in Imsi |-> [a \in CdrAction |-> 0]]
               /\ cdrHealthy \in BOOLEAN

\* writeCdr: a failed open or write loses the line and makes the repository
\* unhealthy for good; an unhealthy repository drops every line.  The caller
\* (SessionManager::logCdr) only logs the result.
WriteCdr(i, a) ==
    \/ /\ cdrHealthy
       /\ journal' = [journal EXCEPT ![i][a] = @ + 1]
       /\ UNCHANGED cdrHealthy
    \/ /\ cdrHealthy' = FALSE
       /\ UNCHANGED journal
=============================================================================
