--------------------------- MODULE SessionLedger ---------------------------
(***************************************************************************)
(* What the session subsystem promises about its bookkeeping, whatever its *)
(* threads do in between: a session is opened only when the subscriber has *)
(* none and closed only when it has one; opening, closing and refusing     *)
(* each leave the acting thread owing exactly one journal line, which it   *)
(* writes before it does anything else; a line is lost only when the       *)
(* journal breaks, and a broken journal takes no line ever again.          *)
(***************************************************************************)
EXTENDS CdrJournal, FiniteSets

CONSTANTS Thread,   \* whoever opens, closes or refuses sessions
          NoDebt    \* a thread that owes no line

VARIABLES sessions,   \* subscribers that have a session
          debt        \* the line each thread owes the journal

ledgerVars == <<journal, cdrHealthy, sessions, debt>>

LedgerTypeOK == /\ JournalTypeOK
                /\ sessions \subseteq Imsi
                /\ debt \in [Thread -> (Imsi \X CdrAction) \cup {NoDebt}]

LedgerInit == /\ JournalInit
              /\ sessions = {}
              /\ debt = [t \in Thread |-> NoDebt]

Owe(t, i, a) == /\ debt[t] = NoDebt
                /\ debt' = [debt EXCEPT ![t] = <<i, a>>]
                /\ UNCHANGED <<journal, cdrHealthy>>

Open(t, i) == /\ i \notin sessions
              /\ ~IsBlacklisted(i)
              /\ sessions' = sessions \cup {i}
              /\ Owe(t, i, "create")

Close(t, i, a) == /\ i \in sessions
                  /\ sessions' = sessions \ {i}
                  /\ Owe(t, i, a)

Refuse(t, i, a) == /\ Owe(t, i, a)
                   /\ UNCHANGED sessions

Settle(t, i, a) == /\ debt[t] = <<i, a>>
                   /\ debt' = [debt EXCEPT ![t] = NoDebt]
                   /\ WriteCdr(i, a)
                   /\ UNCHANGED sessions

LedgerNext ==
    \E t \in Thread, i \in Imsi :
        \/ Open(t, i)
        \/ \E a \in Closing : Close(t, i, a)
        \/ \E a \in Refusal : Refuse(t, i, a)
        \/ \E a \in CdrAction : Settle(t, i, a)

LedgerSpec == LedgerInit /\ [][LedgerNext]_ledgerVars

-----------------------------------------------------------------------------
(* What follows for anyone who reads the journal.                          *)

\* The threads that owe line a about subscriber i.
Owing(i, a) == {t \in Thread : debt[t] = <<i, a>>}

Lines(i, a) == journal[i][a] + Cardinality(Owing(i, a))

\* While the journal is healthy, the lines written and owed about a subscriber
\* balance: as many sessions were opened as were closed, plus the one that is
\* there.  Violated by a removal logged twice or never, by two threads that
\* both believe they removed the session, or by a session stored unlogged.
Balanced ==
    cdrHealthy =>
        \A i \in Imsi : Lines(i, "create")
                            = Lines(i, "timeout") + Lines(i, "graceful_shutdown")
                              + (IF i \in sessions THEN 1 ELSE 0)

\* A blacklisted subscriber never has a session, nor a line that says so.
BlacklistRespected ==
    \A i \in Blacklisted : /\ i \notin sessions
                           /\ Lines(i, "create") = 0

LedgerInv == LedgerTypeOK /\ Balanced /\ BlacklistRespected
=============================================================================
