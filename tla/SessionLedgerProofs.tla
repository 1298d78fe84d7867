------------------------ MODULE SessionLedgerProofs ------------------------
(***************************************************************************)
(* The promise of SessionLedger is kept by every behaviour it allows:      *)
(* LedgerInv is inductive.  The argument counts: every step either makes   *)
(* one thread owe one line, or turns one owed line into a written one, so  *)
(* Lines (written plus owed) changes by one, and in step with sessions.    *)
(***************************************************************************)
EXTENDS SessionLedger, FiniteSetTheorems, TLAPS

(***************************************************************************)
(* The threads that owe a line are finitely many.                          *)
(***************************************************************************)
LEMMA OwingCount ==
    ASSUME IsFiniteSet(Thread), LedgerTypeOK, NEW i \in Imsi, NEW a \in CdrAction
    PROVE  /\ IsFiniteSet(Owing(i, a))
           /\ Cardinality(Owing(i, a)) \in Nat
           /\ Lines(i, a) \in Nat
           /\ Lines(i, a) = 0 => Owing(i, a) = {}
<1>1. IsFiniteSet(Owing(i, a))
  <2>1. Owing(i, a) \subseteq Thread
    BY DEF Owing
  <2> QED
    BY <2>1, FS_Subset
<1>2. /\ Cardinality(Owing(i, a)) \in Nat
      /\ Cardinality(Owing(i, a)) = 0 <=> Owing(i, a) = {}
  BY <1>1, FS_CardinalityType, FS_EmptySet
<1>3. journal[i][a] \in Nat
  BY DEF LedgerTypeOK, JournalTypeOK
<1> QED
  BY <1>1, <1>2, <1>3 DEF Lines

(***************************************************************************)
(* When a thread comes to owe a line, the count of exactly that kind of    *)
(* line grows by one.                                                      *)
(***************************************************************************)
LEMMA OweCounts ==
    ASSUME IsFiniteSet(Thread), NoDebt \notin Imsi \X CdrAction, LedgerTypeOK,
           NEW t \in Thread, NEW i \in Imsi, NEW a \in CdrAction, Owe(t, i, a),
           NEW j \in Imsi, NEW b \in CdrAction
    PROVE  Lines(j, b)' = Lines(j, b) + (IF j = i /\ b = a THEN 1 ELSE 0)
<1>1. /\ IsFiniteSet(Owing(j, b))
      /\ Cardinality(Owing(j, b)) \in Nat
      /\ journal[j][b] \in Nat
  BY OwingCount DEF LedgerTypeOK, JournalTypeOK
<1>2. journal' = journal
  BY DEF Owe
<1>3. <<i, a>> \in Imsi \X CdrAction /\ debt[t] # <<i, a>> /\ debt[t] # <<j, b>>
  BY DEF Owe
<1>4. t \notin Owing(j, b)
  BY <1>3 DEF Owing
<1>5. debt' = [debt EXCEPT ![t] = <<i, a>>] /\ DOMAIN debt = Thread
  BY DEF Owe, LedgerTypeOK
<1>6. CASE j = i /\ b = a
  <2>1. Owing(j, b)' = Owing(j, b) \cup {t}
    BY <1>5, <1>6 DEF Owing
  <2>2. Cardinality(Owing(j, b)') = Cardinality(Owing(j, b)) + 1
    BY <2>1, <1>1, <1>4, FS_AddElement
  <2> QED
    BY <2>2, <1>1, <1>2, <1>6 DEF Lines
<1>7. CASE ~(j = i /\ b = a)
  <2>1. <<i, a>> # <<j, b>>
    BY <1>7
  <2>2. Owing(j, b)' = Owing(j, b)
    BY <2>1, <1>3, <1>5 DEF Owing
  <2> QED
    BY <2>2, <1>1, <1>2, <1>7 DEF Lines
<1> QED
  BY <1>6, <1>7

(***************************************************************************)
(* Writing an owed line to a healthy journal changes no count; if the line *)
(* is lost, the count of that kind drops by one.                           *)
(***************************************************************************)
LEMMA SettleCounts ==
    ASSUME IsFiniteSet(Thread), NoDebt \notin Imsi \X CdrAction, LedgerTypeOK,
           NEW t \in Thread, NEW i \in Imsi, NEW a \in CdrAction, Settle(t, i, a),
           NEW j \in Imsi, NEW b \in CdrAction
    PROVE  /\ cdrHealthy' => Lines(j, b)' = Lines(j, b)
           /\ Lines(j, b)' \in {Lines(j, b), Lines(j, b) - 1}
           /\ (j # i \/ b # a) => Lines(j, b)' = Lines(j, b)
<1>1. /\ IsFiniteSet(Owing(j, b))
      /\ Cardinality(Owing(j, b)) \in Nat
      /\ journal \in [Imsi -> [CdrAction -> Nat]]
      /\ journal[j][b] \in Nat
  BY OwingCount DEF LedgerTypeOK, JournalTypeOK
<1>2. /\ debt[t] = <<i, a>>
      /\ debt' = [debt EXCEPT ![t] = NoDebt]
      /\ DOMAIN debt = Thread
      /\ NoDebt # <<j, b>>
  BY DEF Settle, LedgerTypeOK
<1>3. CASE j = i /\ b = a
  <2>1. Owing(j, b)' = Owing(j, b) \ {t} /\ t \in Owing(j, b)
    BY <1>2, <1>3 DEF Owing
  <2>2. Cardinality(Owing(j, b)') = Cardinality(Owing(j, b)) - 1
    BY <2>1, <1>1, FS_RemoveElement
  <2>3. CASE cdrHealthy'
    <3>1. journal' = [journal EXCEPT ![i][a] = @ + 1]
      BY <2>3 DEF Settle, WriteCdr
    <3>2. journal'[j][b] = journal[j][b] + 1
      BY <3>1, <1>1, <1>3
    <3> QED
      BY <3>2, <2>2, <1>1, <1>3 DEF Lines
  <2>4. CASE ~cdrHealthy'
    <3>1. journal' = journal
      BY <2>4 DEF Settle, WriteCdr
    <3> QED
      BY <3>1, <2>2, <2>4, <1>1, <1>3 DEF Lines
  <2> QED
    BY <2>3, <2>4
<1>4. CASE ~(j = i /\ b = a)
  <2>1. <<i, a>> # <<j, b>>
    BY <1>4
  <2>2. Owing(j, b)' = Owing(j, b)
    BY <2>1, <1>2 DEF Owing
  <2>3. journal'[j][b] = journal[j][b]
    BY <1>1, <1>4 DEF Settle, WriteCdr
  <2> QED
    BY <2>2, <2>3, <1>1, <1>4 DEF Lines
<1> QED
  BY <1>3, <1>4

(***************************************************************************)
(* The ledger's variables keep their types.                                *)
(***************************************************************************)
LEMMA LedgerTyping ==
    ASSUME LedgerTypeOK, [LedgerNext]_ledgerVars
    PROVE  LedgerTypeOK'
<1> USE DEF LedgerTypeOK, JournalTypeOK
<1>1. CASE UNCHANGED ledgerVars
  BY <1>1 DEF ledgerVars
<1>2. ASSUME NEW t \in Thread, NEW i \in Imsi, Open(t, i)
      PROVE  LedgerTypeOK'
  BY <1>2 DEF Open, Owe, CdrAction, Opening
<1>3. ASSUME NEW t \in Thread, NEW i \in Imsi, NEW a \in Closing, Close(t, i, a)
      PROVE  LedgerTypeOK'
  BY <1>3 DEF Close, Owe, CdrAction
<1>4. ASSUME NEW t \in Thread, NEW i \in Imsi, NEW a \in Refusal, Refuse(t, i, a)
      PROVE  LedgerTypeOK'
  BY <1>4 DEF Refuse, Owe, CdrAction
<1>5. ASSUME NEW t \in Thread, NEW i \in Imsi, NEW a \in CdrAction, Settle(t, i, a)
      PROVE  LedgerTypeOK'
  <2>1. journal' \in [Imsi -> [CdrAction -> Nat]]
    <3>1. CASE journal' = [journal EXCEPT ![i][a] = @ + 1]
      <4>1. [journal[i] EXCEPT ![a] = @ + 1] \in [CdrAction -> Nat]
        OBVIOUS
      <4> QED
        BY <3>1, <4>1
    <3>2. CASE journal' = journal
      BY <3>2
    <3> QED
      BY <1>5, <3>1, <3>2 DEF Settle, WriteCdr
  <2>2. cdrHealthy' \in BOOLEAN
    BY <1>5 DEF Settle, WriteCdr
  <2>3. sessions' = sessions /\ debt' = [debt EXCEPT ![t] = NoDebt]
    BY <1>5 DEF Settle
  <2> QED
    BY <2>1, <2>2, <2>3
<1> QED
  BY <1>1, <1>2, <1>3, <1>4, <1>5 DEF LedgerNext

(***************************************************************************)
(* Every step of the ledger keeps the journal balanced.                    *)
(***************************************************************************)
LEMMA LedgerBalance ==
    ASSUME IsFiniteSet(Thread), NoDebt \notin Imsi \X CdrAction,
           LedgerTypeOK, Balanced, [LedgerNext]_ledgerVars
    PROVE  Balanced'
<1> SUFFICES ASSUME cdrHealthy', NEW j \in Imsi
             PROVE  Lines(j, "create")' = Lines(j, "timeout")' + Lines(j, "graceful_shutdown")'
                                          + (IF j \in sessions' THEN 1 ELSE 0)
  BY DEF Balanced
<1> {"create", "timeout", "graceful_shutdown"} \subseteq CdrAction
  BY DEF CdrAction, Opening, Closing
<1>0. /\ Lines(j, "create") \in Nat
      /\ Lines(j, "timeout") \in Nat
      /\ Lines(j, "graceful_shutdown") \in Nat
  BY OwingCount
<1>1. CASE UNCHANGED ledgerVars
  BY <1>1 DEF ledgerVars, Balanced, Lines, Owing
<1>2. ASSUME NEW t \in Thread, NEW i \in Imsi, Open(t, i)
      PROVE  Lines(j, "create")' = Lines(j, "timeout")' + Lines(j, "graceful_shutdown")'
                                   + (IF j \in sessions' THEN 1 ELSE 0)
  <2>1. Owe(t, i, "create") /\ cdrHealthy /\ i \notin sessions /\ sessions' = sessions \cup {i}
    BY <1>2 DEF Open, Owe
  <2>2. /\ Lines(j, "create")' = Lines(j, "create") + (IF j = i THEN 1 ELSE 0)
        /\ Lines(j, "timeout")' = Lines(j, "timeout")
        /\ Lines(j, "graceful_shutdown")' = Lines(j, "graceful_shutdown")
    BY <2>1, <1>0, OweCounts
  <2> QED
    BY <2>1, <2>2, <1>0 DEF Balanced
<1>3. ASSUME NEW t \in Thread, NEW i \in Imsi, NEW a \in Closing, Close(t, i, a)
      PROVE  Lines(j, "create")' = Lines(j, "timeout")' + Lines(j, "graceful_shutdown")'
                                   + (IF j \in sessions' THEN 1 ELSE 0)
  <2>1. Owe(t, i, a) /\ cdrHealthy /\ i \in sessions /\ sessions' = sessions \ {i}
    BY <1>3 DEF Close, Owe
  <2>2. a \in CdrAction /\ a # "create" /\ a \in {"timeout", "graceful_shutdown"}
    BY DEF Closing, CdrAction
  <2>3. /\ Lines(j, "create")' = Lines(j, "create")
        /\ Lines(j, "timeout")' = Lines(j, "timeout")
                                  + (IF j = i /\ a = "timeout" THEN 1 ELSE 0)
        /\ Lines(j, "graceful_shutdown")' = Lines(j, "graceful_shutdown")
                                  + (IF j = i /\ a = "graceful_shutdown" THEN 1 ELSE 0)
    BY <2>1, <2>2, <1>0, OweCounts
  <2> QED
    BY <2>1, <2>2, <2>3, <1>0 DEF Balanced
<1>4. ASSUME NEW t \in Thread, NEW i \in Imsi, NEW a \in Refusal, Refuse(t, i, a)
      PROVE  Lines(j, "create")' = Lines(j, "timeout")' + Lines(j, "graceful_shutdown")'
                                   + (IF j \in sessions' THEN 1 ELSE 0)
  <2>1. Owe(t, i, a) /\ cdrHealthy /\ sessions' = sessions
    BY <1>4 DEF Refuse, Owe
  <2>2. a \in CdrAction /\ a \notin {"create", "timeout", "graceful_shutdown"}
    BY DEF Refusal, CdrAction
  <2>3. /\ Lines(j, "create")' = Lines(j, "create")
        /\ Lines(j, "timeout")' = Lines(j, "timeout")
        /\ Lines(j, "graceful_shutdown")' = Lines(j, "graceful_shutdown")
    BY <2>1, <2>2, <1>0, OweCounts
  <2> QED
    BY <2>1, <2>3 DEF Balanced
<1>5. ASSUME NEW t \in Thread, NEW i \in Imsi, NEW a \in CdrAction, Settle(t, i, a)
      PROVE  Lines(j, "create")' = Lines(j, "timeout")' + Lines(j, "graceful_shutdown")'
                                   + (IF j \in sessions' THEN 1 ELSE 0)
  <2>1. cdrHealthy /\ sessions' = sessions
    BY <1>5 DEF Settle, WriteCdr
  <2>2. /\ Lines(j, "create")' = Lines(j, "create")
        /\ Lines(j, "timeout")' = Lines(j, "timeout")
        /\ Lines(j, "graceful_shutdown")' = Lines(j, "graceful_shutdown")
    BY <1>5, SettleCounts
  <2> QED
    BY <2>1, <2>2 DEF Balanced
<1> QED
  BY <1>1, <1>2, <1>3, <1>4, <1>5 DEF LedgerNext

(***************************************************************************)
(* No step gives a blacklisted subscriber a session or a line about one.   *)
(***************************************************************************)
LEMMA LedgerBlacklist ==
    ASSUME IsFiniteSet(Thread), NoDebt \notin Imsi \X CdrAction,
           LedgerTypeOK, BlacklistRespected, [LedgerNext]_ledgerVars
    PROVE  BlacklistRespected'
<1> SUFFICES ASSUME NEW j \in Blacklisted
             PROVE  j \notin sessions' /\ Lines(j, "create")' = 0
  BY DEF BlacklistRespected
<1> "create" \in CdrAction /\ j \in Imsi
  BY BlacklistAssumption DEF CdrAction, Opening
<1>0. j \notin sessions /\ Lines(j, "create") = 0 /\ Owing(j, "create") = {}
  BY OwingCount DEF BlacklistRespected
<1>1. CASE UNCHANGED ledgerVars
  BY <1>0, <1>1 DEF ledgerVars, Lines, Owing
<1>2. ASSUME NEW t \in Thread, NEW i \in Imsi, Open(t, i)
      PROVE  j \notin sessions' /\ Lines(j, "create")' = 0
  <2>1. Owe(t, i, "create") /\ j # i /\ sessions' = sessions \cup {i}
    BY <1>2 DEF Open, IsBlacklisted
  <2>2. Lines(j, "create")' = Lines(j, "create") + 0
    BY <2>1, OweCounts
  <2> QED
    BY <2>1, <2>2, <1>0
<1>3. ASSUME NEW t \in Thread, NEW i \in Imsi, NEW a \in Closing \cup Refusal,
             Owe(t, i, a), sessions' \subseteq sessions
      PROVE  j \notin sessions' /\ Lines(j, "create")' = 0
  <2>1. a \in CdrAction /\ a # "create"
    BY DEF Closing, Refusal, CdrAction
  <2>2. Lines(j, "create")' = Lines(j, "create") + 0
    BY <2>1, <1>3, OweCounts
  <2> QED
    BY <2>2, <1>0, <1>3
<1>4. ASSUME NEW t \in Thread, NEW i \in Imsi, NEW a \in CdrAction, Settle(t, i, a)
      PROVE  j \notin sessions' /\ Lines(j, "create")' = 0
  <2>1. j # i \/ "create" # a
    BY <1>0, <1>4 DEF Settle, Owing
  <2>2. Lines(j, "create")' = Lines(j, "create")
    BY <2>1, <1>4, SettleCounts
  <2> QED
    BY <2>2, <1>0, <1>4 DEF Settle
<1> QED
  <2>1. ASSUME NEW t \in Thread, NEW i \in Imsi, NEW a \in Closing, Close(t, i, a)
        PROVE  j \notin sessions' /\ Lines(j, "create")' = 0
    BY <2>1, <1>3 DEF Close
  <2>2. ASSUME NEW t \in Thread, NEW i \in Imsi, NEW a \in Refusal, Refuse(t, i, a)
        PROVE  j \notin sessions' /\ Lines(j, "create")' = 0
    BY <2>2, <1>3 DEF Refuse
  <2> QED
    BY <1>1, <1>2, <1>4, <2>1, <2>2 DEF LedgerNext

(***************************************************************************)
(* Initially nothing is written, owed or stored.                           *)
(***************************************************************************)
LEMMA LedgerStart ==
    ASSUME NoDebt \notin Imsi \X CdrAction, LedgerInit
    PROVE  LedgerInv
<1>1. LedgerTypeOK
  BY DEF LedgerInit, JournalInit, LedgerTypeOK, JournalTypeOK
<1>2. \A i \in Imsi, a \in CdrAction : Lines(i, a) = 0
  <2> SUFFICES ASSUME NEW i \in Imsi, NEW a \in CdrAction
               PROVE  Lines(i, a) = 0
    OBVIOUS
  <2>1. Owing(i, a) = {}
    BY DEF LedgerInit, Owing
  <2> QED
    BY <2>1, FS_EmptySet DEF LedgerInit, JournalInit, Lines
<1>3. {"create", "timeout", "graceful_shutdown"} \subseteq CdrAction
  BY DEF CdrAction, Opening, Closing
<1>4. Balanced
  <2>1. \A i \in Imsi : /\ Lines(i, "create") = 0
                        /\ Lines(i, "timeout") = 0
                        /\ Lines(i, "graceful_shutdown") = 0
    BY <1>2, <1>3
  <2>2. SUFFICES ASSUME NEW i \in Imsi
                 PROVE  Lines(i, "create") = Lines(i, "timeout") + Lines(i, "graceful_shutdown")
                                             + (IF i \in sessions THEN 1 ELSE 0)
    BY DEF Balanced
  <2>3. i \notin sessions
    BY DEF LedgerInit
  <2>4. Lines(i, "create") = 0 /\ Lines(i, "timeout") = 0 /\ Lines(i, "graceful_shutdown") = 0
    BY <2>1
  <2> QED
    BY <2>3, <2>4
<1>5. BlacklistRespected
  BY <1>2, <1>3, BlacklistAssumption DEF BlacklistRespected, LedgerInit
<1> QED
  BY <1>1, <1>4, <1>5 DEF LedgerInv

(***************************************************************************)
(* Any system that follows the ledger keeps the journal balanced while it  *)
(* is healthy and its blacklisted subscribers without sessions, for any    *)
(* finite set of threads.                                                  *)
(***************************************************************************)
THEOREM LedgerCorrect ==
    ASSUME IsFiniteSet(Thread), NoDebt \notin Imsi \X CdrAction
    PROVE  LedgerSpec => []LedgerInv
<1>1. LedgerInit => LedgerInv
  BY LedgerStart
<1>2. LedgerInv /\ [LedgerNext]_ledgerVars => LedgerInv'
  BY LedgerTyping, LedgerBalance, LedgerBlacklist DEF LedgerInv
<1> QED
  BY <1>1, <1>2, PTL DEF LedgerSpec
=============================================================================
