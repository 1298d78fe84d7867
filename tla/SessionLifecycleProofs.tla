----------------------- MODULE SessionLifecycleProofs -----------------------
(***************************************************************************)
(* What SessionLifecycle guarantees for every set of subscribers and       *)
(* request threads, every timeout and every number of requests.            *)
(***************************************************************************)
EXTENDS SessionLifecycle, FiniteSetTheorems, TLAPS

(***************************************************************************)
(* The variables keep their types, and each thread has in hand what its    *)
(* position requires.                                                      *)
(***************************************************************************)
LEMMA TypingInit == Init => TypeOK
<1> SUFFICES ASSUME Init
             PROVE  TypeOK
  OBVIOUS
<1> USE ThreadAssumption, TimeAssumption DEF Init, Thread
<1>1. RepoTypeOK /\ JournalTypeOK
  BY DEF RepoTypeOK, RepoInit, JournalTypeOK, JournalInit
<1>2. /\ pc[Cleaner] = "sweep" /\ pc[Drainer] = "off"
      /\ \A w \in Worker : pc[w] = "idle"
  OBVIOUS
<1>3. pc \in [Thread -> WorkerPc \cup CleanerPc \cup DrainerPc]
  BY DEF WorkerPc, CleanerPc, DrainerPc
<1>4. HandTypeOK
  BY <1>2 DEF HandTypeOK, Free
<1> QED
  BY <1>1, <1>2, <1>3, <1>4
     DEF TypeOK, WorkerPc, CleanerPc, DrainerPc, AppPc, Answer

LEMMA TypingJournal ==
    ASSUME JournalTypeOK, NEW i \in Imsi, NEW a \in CdrAction, WriteCdr(i, a)
    PROVE  JournalTypeOK'
<1> USE DEF JournalTypeOK, WriteCdr
<1>1. CASE cdrHealthy' = FALSE /\ UNCHANGED journal
  BY <1>1
<1>2. CASE UNCHANGED cdrHealthy /\ journal' = [journal EXCEPT ![i][a] = @ + 1]
  <2>1. [journal[i] EXCEPT ![a] = @ + 1] \in [CdrAction -> Nat]
    OBVIOUS
  <2> QED
    BY <1>2, <2>1
<1> QED
  BY <1>1, <1>2

LEMMA TypingWorker ==
    ASSUME TypeOK, NEW w \in Worker, WorkerNext(w)
    PROVE  TypeOK'
<1> USE ThreadAssumption, TimeAssumption
    DEF TypeOK, RepoTypeOK, JournalTypeOK, HandTypeOK, Thread, WorkerPc, CleanerPc, DrainerPc, Free,
        Goto, GotoCdr, ctl, work
<1>1. ASSUME NEW i \in Imsi, NEW admitted \in BOOLEAN, Request(w, i, admitted)
      PROVE  TypeOK'
  <2>1. CASE ~IsBlacklisted(i) /\ admitted
    <3>1. /\ Goto(w, "exists")
          /\ target' = [target EXCEPT ![w] = i]
          /\ UNCHANGED <<record, answer>>
          /\ requests' = requests + 1
          /\ UNCHANGED <<now, createdAt, journal, cdrHealthy, stamp, victims,
                         todo, app, late, touched>>
      BY <1>1, <2>1, Zenon DEF Request
    <3> QED
      BY <3>1, <2>1
  <2>2. CASE ~(~IsBlacklisted(i) /\ admitted)
    <3>1. PICK a \in Refusal : GotoCdr(w, i, a)
      BY <1>1, <2>2 DEF Request, Refusal
    <3>2. a \in CdrAction
      BY DEF CdrAction
    <3>3. answer' \in [Worker -> Answer]
      BY <1>1, <2>2 DEF Request, Answer
    <3> QED
      BY <1>1, <3>1, <3>2, <3>3 DEF Request
  <2> QED
    BY <2>1, <2>2
<1>2. ASSUME CheckExists(w)
      PROVE  TypeOK'
  BY <1>2 DEF CheckExists
<1>3. ASSUME Refresh(w)
      PROVE  TypeOK'
  BY <1>3 DEF Refresh, RefreshSession, Answer
<1>4. ASSUME NewSession(w)
      PROVE  TypeOK'
  BY <1>4 DEF NewSession
<1>5. ASSUME Add(w)
      PROVE  TypeOK'
  <2>1. createdAt' \in [Imsi -> Nat \cup {Absent}]
    BY <1>5 DEF Add, AddSession
  <2>2. stamp' \in [Worker -> Nat \cup {Absent}] /\ answer' \in [Worker -> Answer]
    BY <1>5 DEF Add, Answer
  <2>3. late' \subseteq Imsi /\ touched' \subseteq Imsi
    BY <1>5 DEF Add
  <2>4. CASE SessionExists(target[w])
    <3>1. /\ pc' = [pc EXCEPT ![w] = "reply"] /\ stamp' = [stamp EXCEPT ![w] = Absent]
          /\ UNCHANGED <<target, record, now, journal, cdrHealthy, requests, victims, todo, app>>
      BY <1>5, <2>4, Zenon DEF Add
    <3>2. HandTypeOK'
      <4>1. pc[w] = "add" /\ target[w] \in Imsi
        BY <1>5 DEF Add
      <4> QED
        BY <3>1, <4>1
    <3> HIDE DEF HandTypeOK
    <3> QED
      BY <2>1, <2>2, <2>3, <3>1, <3>2
  <2>5. CASE ~SessionExists(target[w])
    <3>1. GotoCdr(w, target[w], "create") /\ "create" \in Opening /\ "create" \in CdrAction
      BY <1>5, <2>5 DEF Add, Opening, CdrAction
    <3> QED
      BY <1>5, <2>1, <2>2, <2>3, <3>1 DEF Add
  <2> QED
    BY <2>4, <2>5
<1>6. ASSUME WorkerCdr(w)
      PROVE  TypeOK'
  <2>1. JournalTypeOK'
    BY <1>6, TypingJournal DEF WorkerCdr, CdrAction
  <2> QED
    BY <1>6, <2>1 DEF WorkerCdr
<1>7. ASSUME Reply(w)
      PROVE  TypeOK'
  BY <1>7 DEF Reply, Answer
<1> QED
  BY <1>1, <1>2, <1>3, <1>4, <1>5, <1>6, <1>7 DEF WorkerNext

LEMMA TypingCleaner ==
    ASSUME TypeOK, CleanerNext
    PROVE  TypeOK'
<1> USE ThreadAssumption, TimeAssumption
    DEF TypeOK, RepoTypeOK, HandTypeOK, Thread, WorkerPc, CleanerPc, DrainerPc, Free,
        Goto, GotoCdr, ctl, work
<1>1. CASE Sweep
  <2>1. victims' \subseteq Imsi /\ touched' \subseteq Imsi
    BY <1>1 DEF Sweep, GetExpiredSessions, GetAllImsis
  <2>2. Goto(Cleaner, "next") \/ Goto(Cleaner, "done")
    BY <1>1 DEF Sweep
  <2> QED
    BY <1>1, <2>1, <2>2 DEF Sweep, JournalTypeOK
<1>2. ASSUME NEW v \in Imsi, RemoveExpired(v)
      PROVE  TypeOK'
  <2>1. createdAt' \in [Imsi -> Nat \cup {Absent}]
    BY <1>2 DEF RemoveExpired, RemoveSession
  <2>2. victims' \subseteq Imsi
    BY <1>2 DEF RemoveExpired
  <2>3. CASE GotoCdr(Cleaner, v, "timeout")
    <3>1. "timeout" \in CdrAction
      BY DEF CdrAction, Closing
    <3> QED
      BY <1>2, <2>1, <2>2, <2>3, <3>1 DEF RemoveExpired, JournalTypeOK
  <2>4. CASE UNCHANGED ctl
    BY <1>2, <2>1, <2>2, <2>4 DEF RemoveExpired, JournalTypeOK
  <2> QED
    BY <1>2, <2>3, <2>4 DEF RemoveExpired
<1>3. CASE CleanerCdr
  <2>1. JournalTypeOK'
    BY <1>3, TypingJournal DEF CleanerCdr, CdrAction, Closing
  <2> QED
    BY <1>3, <2>1 DEF CleanerCdr
<1>4. CASE EndSweep
  BY <1>4 DEF EndSweep, JournalTypeOK
<1>5. CASE CleanerWake
  BY <1>5 DEF CleanerWake, JournalTypeOK
<1> QED
  BY <1>1, <1>2, <1>3, <1>4, <1>5 DEF CleanerNext

LEMMA TypingDrainer ==
    ASSUME TypeOK, InitiateShutdown \/ DrainerNext
    PROVE  TypeOK'
<1> USE ThreadAssumption, TimeAssumption
    DEF TypeOK, RepoTypeOK, HandTypeOK, Thread, WorkerPc, CleanerPc, DrainerPc, Free,
        Goto, GotoCdr, ctl, work
<1>1. CASE InitiateShutdown
  BY <1>1 DEF InitiateShutdown, JournalTypeOK
<1>2. CASE Snapshot
  BY <1>2 DEF Snapshot, GetAllImsis, JournalTypeOK
<1>3. ASSUME NEW v \in Imsi, CheckActive(v)
      PROVE  TypeOK'
  BY <1>3 DEF CheckActive, JournalTypeOK
<1>4. CASE RemoveDrained
  <2>1. createdAt' \in [Imsi -> Nat \cup {Absent}]
    BY <1>4 DEF RemoveDrained, RemoveSession
  <2>2. late' \subseteq Imsi
    BY <1>4 DEF RemoveDrained
  <2>3. CASE SessionExists(target[Drainer])
    <3>1. GotoCdr(Drainer, target[Drainer], "graceful_shutdown")
      BY <1>4, <2>3 DEF RemoveDrained
    <3>2. "graceful_shutdown" \in CdrAction
      BY DEF CdrAction, Closing
    <3> QED
      BY <1>4, <2>1, <2>2, <3>1, <3>2 DEF RemoveDrained, JournalTypeOK
  <2>4. CASE ~SessionExists(target[Drainer])
    <3>1. /\ Goto(Drainer, "count")
          /\ target' = [target EXCEPT ![Drainer] = NoImsi]
          /\ UNCHANGED record
      BY <1>4, <2>4 DEF RemoveDrained
    <3> QED
      BY <1>4, <2>1, <2>2, <3>1 DEF RemoveDrained, JournalTypeOK
  <2> QED
    BY <2>3, <2>4
<1>5. CASE DrainerCdr
  <2>1. JournalTypeOK'
    BY <1>5, TypingJournal DEF DrainerCdr, CdrAction, Closing
  <2> QED
    BY <1>5, <2>1 DEF DrainerCdr
<1>6. CASE CountRemaining
  BY <1>6 DEF CountRemaining, JournalTypeOK
<1>7. CASE DrainerWake
  BY <1>7 DEF DrainerWake, JournalTypeOK
<1>8. CASE CompleteShutdown
  BY <1>8 DEF CompleteShutdown, JournalTypeOK
<1> QED
  BY <1>1, <1>2, <1>3, <1>4, <1>5, <1>6, <1>7, <1>8 DEF DrainerNext

LEMMA TypingRest ==
    ASSUME TypeOK, StopServices \/ Tick \/ UNCHANGED vars
    PROVE  TypeOK'
<1> USE DEF TypeOK, RepoTypeOK, HandTypeOK, Free, JournalTypeOK, ctl, work
<1>1. CASE StopServices
  BY <1>1 DEF StopServices, StopUdp, StopCleaner, StopShutdown, Exit, AppPc
<1>2. CASE Tick
  BY <1>2 DEF Tick, AdvanceClock
<1>3. CASE UNCHANGED vars
  BY <1>3 DEF vars
<1> QED
  BY <1>1, <1>2, <1>3

THEOREM TypeCorrect == Spec => []TypeOK
<1>1. TypeOK /\ [Next]_vars => TypeOK'
  BY TypingWorker, TypingCleaner, TypingDrainer, TypingRest DEF Next, Stopped
<1> QED
  BY <1>1, TypingInit, PTL DEF Spec

-----------------------------------------------------------------------------
(***************************************************************************)
(* Only Add stores a session where there was none, and it remembers that   *)
(* it did; every other step of a worker leaves the stored IMSIs alone.     *)
(***************************************************************************)
LEMMA WorkerStores ==
    ASSUME TypeOK, NEW w \in Worker, WorkerNext(w)
    PROVE  /\ UNCHANGED <<todo, victims, app, now>>
           /\ pc'[Drainer] = pc[Drainer] /\ target'[Drainer] = target[Drainer]
           /\ pc'[Cleaner] = pc[Cleaner] /\ target'[Cleaner] = target[Cleaner]
           /\ late \subseteq late' /\ touched \subseteq touched'
           /\ \A i \in Imsi :
                 \/ createdAt'[i] = createdAt[i]
                 \/ createdAt'[i] # Absent /\ i \in touched'
                    /\ (SessionExists(i) \/ i \in late' \/ pc[Drainer] \in {"off", "snapshot"})
<1> USE ThreadAssumption, TimeAssumption
    DEF TypeOK, RepoTypeOK, HandTypeOK, Free, Thread, Goto, GotoCdr, ctl, work
<1>1. ASSUME NEW i \in Imsi, NEW admitted \in BOOLEAN, Request(w, i, admitted)
      PROVE  /\ UNCHANGED <<createdAt, todo, victims, app, now, late, touched>>
             /\ pc'[Drainer] = pc[Drainer] /\ target'[Drainer] = target[Drainer]
             /\ pc'[Cleaner] = pc[Cleaner] /\ target'[Cleaner] = target[Cleaner]
  <2>1. PICK l \in WorkerPc : Goto(w, l)
    BY <1>1, Zenon DEF Request, WorkerPc
  <2>2. target' = [target EXCEPT ![w] = i]
    BY <1>1, Zenon DEF Request
  <2> QED
    BY <1>1, <2>1, <2>2 DEF Request
<1>2. CASE CheckExists(w)
  BY <1>2 DEF CheckExists
<1>3. CASE Refresh(w)
  BY <1>3 DEF Refresh, RefreshSession, SessionExists
<1>4. CASE NewSession(w)
  BY <1>4 DEF NewSession
<1>5. CASE Add(w)
  <2>1. CASE SessionExists(target[w])
    BY <1>5, <2>1 DEF Add, AddSession
  <2>2. CASE ~SessionExists(target[w])
    BY <1>5, <2>2 DEF Add, AddSession, SessionExists
  <2> QED
    BY <2>1, <2>2
<1>6. CASE WorkerCdr(w)
  BY <1>6 DEF WorkerCdr
<1>7. CASE Reply(w)
  BY <1>7 DEF Reply
<1> QED
  BY <1>1, <1>2, <1>3, <1>4, <1>5, <1>6, <1>7 DEF WorkerNext

(***************************************************************************)
(* The shutdown thread loses sight of no session of its snapshot.          *)
(***************************************************************************)
LEMMA DrainStep ==
    ASSUME TypeOK, DrainCoversSnapshot, [Next]_vars
    PROVE  DrainCoversSnapshot'
<1> USE ThreadAssumption
    DEF TypeOK, RepoTypeOK, Thread, DrainCoversSnapshot, GetAllImsis, SessionExists, stopRequested
<1>1. ASSUME NEW w \in Worker, WorkerNext(w)
      PROVE  DrainCoversSnapshot'
  BY <1>1, WorkerStores
<1>2. CASE CleanerNext
  <2>1. /\ UNCHANGED <<todo, late, app>>
        /\ pc'[Drainer] = pc[Drainer] /\ target'[Drainer] = target[Drainer]
        /\ \A i \in Imsi : createdAt'[i] \in {createdAt[i], Absent}
    BY <1>2 DEF CleanerNext, Sweep, RemoveExpired, RemoveSession, CleanerCdr, EndSweep,
                CleanerWake, Goto, GotoCdr, ctl
  <2> QED
    BY <2>1
<1>3. CASE InitiateShutdown
  BY <1>3 DEF InitiateShutdown, Goto
<1>4. CASE Snapshot
  BY <1>4 DEF Snapshot, Goto
<1>5. ASSUME NEW v \in Imsi, CheckActive(v)
      PROVE  DrainCoversSnapshot'
  BY <1>5 DEF CheckActive, Goto
<1>6. CASE RemoveDrained
  BY <1>6 DEF RemoveDrained, RemoveSession, Goto, GotoCdr
<1>7. CASE DrainerCdr
  BY <1>7 DEF DrainerCdr, Goto
<1>8. CASE CountRemaining
  BY <1>8 DEF CountRemaining, Goto
<1>9. CASE DrainerWake
  BY <1>9 DEF DrainerWake, Goto
<1>10. CASE CompleteShutdown
  BY <1>10 DEF CompleteShutdown, Goto
<1>11. CASE StopServices
  BY <1>11 DEF StopServices, StopUdp, StopCleaner, StopShutdown, Exit, ctl
<1>12. CASE Tick
  BY <1>12 DEF Tick, ctl
<1>13. CASE UNCHANGED vars
  BY <1>13 DEF vars
<1> QED
  BY <1>1, <1>2, <1>3, <1>4, <1>5, <1>6, <1>7, <1>8, <1>9, <1>10, <1>11, <1>12, <1>13
     DEF Next, DrainerNext, Stopped

(***************************************************************************)
(* A completed shutdown leaves only sessions stored after its snapshot,    *)
(* unless stop() broke it off, however requests and the cleaner interfere. *)
(***************************************************************************)
THEOREM DrainCorrect == Spec => []DrainCoversSnapshot
<1>1. Init => DrainCoversSnapshot
  BY ThreadAssumption DEF Init, Thread, DrainCoversSnapshot
<1>2. TypeOK /\ DrainCoversSnapshot /\ [Next]_vars => DrainCoversSnapshot'
  BY DrainStep
<1> QED
  BY <1>1, <1>2, TypeCorrect, PTL DEF Spec

-----------------------------------------------------------------------------
(***************************************************************************)
(* The sweep: a victim that has expired stays expired while nobody touches *)
(* it, because time does not run backwards.                                *)
(***************************************************************************)
LEMMA DivMonotone ==
    ASSUME NEW k \in Nat \ {0}, NEW m \in Int, NEW n \in Int, m <= n
    PROVE  m \div k <= n \div k /\ m \div k \in Int /\ n \div k \in Int
OBVIOUS

LEMMA StaysExpired ==
    ASSUME TypeOK, NEW i \in Imsi, SessionExists(i), IsExpired(i),
           createdAt'[i] = createdAt[i], now' \in Nat, now <= now'
    PROVE  IsExpired(i)'
<1>1. now - createdAt[i] \in Int /\ now' - createdAt'[i] \in Int
      /\ now - createdAt[i] <= now' - createdAt'[i]
  BY DEF TypeOK, RepoTypeOK, SessionExists
<1>2. SessionTimeout \in Int /\ TicksPerSecond \in Nat \ {0}
  BY TimeAssumption
<1> DEFINE m == now - createdAt[i]
           n == now' - createdAt'[i]
<1>3. m \div TicksPerSecond > SessionTimeout
  BY DEF IsExpired
<1> HIDE DEF m, n
<1>4. m \in Int /\ n \in Int /\ m <= n
  BY <1>1 DEF m, n
<1>5. n \div TicksPerSecond > SessionTimeout
  BY <1>2, <1>3, <1>4, DivMonotone
<1> QED
  BY <1>5 DEF IsExpired, n

LEMMA SweepStep ==
    ASSUME TypeOK, TypeOK', VictimsExpiredOrTouched, [Next]_vars
    PROVE  VictimsExpiredOrTouched'
<1> SUFFICES ASSUME NEW v \in victims', SessionExists(v)', v \notin touched'
             PROVE  IsExpired(v)'
  BY DEF VictimsExpiredOrTouched
<1> v \in Imsi /\ now \in Nat /\ now' \in Nat
  BY DEF TypeOK, RepoTypeOK
<1>1. ASSUME v \in victims, v \notin touched, createdAt'[v] = createdAt[v], now <= now'
      PROVE  IsExpired(v)'
  BY <1>1, StaysExpired DEF VictimsExpiredOrTouched, SessionExists
<1>2. ASSUME NEW w \in Worker, WorkerNext(w)
      PROVE  IsExpired(v)'
  BY <1>1, <1>2, WorkerStores
<1>3. CASE Sweep
  <2>1. CASE cleanerRunning
    BY <1>3, <2>1 DEF Sweep, GetExpiredSessions, IsExpired
  <2>2. CASE ~cleanerRunning
    BY <1>1, <1>3, <2>2 DEF Sweep
  <2> QED
    BY <2>1, <2>2
<1>4. CASE \E i \in Imsi : RemoveExpired(i)
  BY <1>1, <1>4 DEF RemoveExpired, RemoveSession, SessionExists, TypeOK, RepoTypeOK
<1>5. CASE CleanerCdr \/ EndSweep \/ CleanerWake
  BY <1>1, <1>5 DEF CleanerCdr, EndSweep, CleanerWake
<1>6. CASE InitiateShutdown
  BY <1>1, <1>6 DEF InitiateShutdown
<1>7. CASE RemoveDrained
  BY <1>1, <1>7 DEF RemoveDrained, RemoveSession, SessionExists, TypeOK, RepoTypeOK
<1>8. CASE \E i \in Imsi : CheckActive(i)
  BY <1>1, <1>8 DEF CheckActive
<1>9. CASE Snapshot \/ DrainerCdr \/ CountRemaining \/ DrainerWake \/ CompleteShutdown
  BY <1>1, <1>9 DEF Snapshot, DrainerCdr, CountRemaining, DrainerWake, CompleteShutdown
<1>10. CASE StopServices
  BY <1>1, <1>10 DEF StopServices
<1>11. CASE Tick
  BY <1>1, <1>11 DEF Tick, AdvanceClock
<1>12. CASE UNCHANGED vars
  BY <1>1, <1>12 DEF vars
<1> QED
  BY <1>2, <1>3, <1>4, <1>5, <1>6, <1>7, <1>8, <1>9, <1>10, <1>11, <1>12
     DEF Next, CleanerNext, DrainerNext, Stopped

(***************************************************************************)
(* The only live sessions the cleaner can take before their time are those *)
(* refreshed or stored while the sweep was under way.                      *)
(***************************************************************************)
THEOREM SweepCorrect == Spec => []VictimsExpiredOrTouched
<1>1. Init => VictimsExpiredOrTouched
  BY DEF Init, VictimsExpiredOrTouched
<1>2. TypeOK /\ TypeOK' /\ VictimsExpiredOrTouched /\ [Next]_vars => VictimsExpiredOrTouched'
  BY SweepStep
<1> QED
  BY <1>1, <1>2, TypeCorrect, PTL DEF Spec

(***************************************************************************)
(* A worker that is alone never sees addSession fail.                      *)
(***************************************************************************)
LEMMA SoleWorkerStep ==
    ASSUME TypeOK, SoleWorkerNeverFails, [Next]_vars
    PROVE  SoleWorkerNeverFails'
<1> SUFFICES ASSUME NEW w \in Worker, Worker = {w}, pc'[w] \in {"new", "add"}
             PROVE  createdAt'[target'[w]] = Absent
  BY DEF SoleWorkerNeverFails, SessionExists
<1> USE ThreadAssumption
    DEF TypeOK, RepoTypeOK, HandTypeOK, Free, Thread, Goto, GotoCdr, ctl, work
<1>1. ASSUME pc[w] \in {"new", "add"}, target'[w] = target[w],
             createdAt'[target[w]] \in {createdAt[target[w]], Absent}
      PROVE  createdAt'[target'[w]] = Absent
  BY <1>1 DEF SoleWorkerNeverFails, SessionExists
<1>2. ASSUME NEW i \in Imsi, NEW admitted \in BOOLEAN, Request(w, i, admitted)
      PROVE  FALSE
  <2>1. PICK l \in {"exists", "cdr"} : Goto(w, l)
    BY <1>2, Zenon DEF Request
  <2> QED
    BY <2>1
<1>3. CASE CheckExists(w)
  BY <1>3 DEF CheckExists, SessionExists
<1>4. CASE Refresh(w) \/ Add(w) \/ WorkerCdr(w) \/ Reply(w)
  BY <1>4 DEF Refresh, Add, WorkerCdr, Reply
<1>5. CASE NewSession(w)
  BY <1>1, <1>5 DEF NewSession
<1>6. CASE CleanerNext
  BY <1>1, <1>6 DEF CleanerNext, Sweep, RemoveExpired, RemoveSession, CleanerCdr, EndSweep,
                    CleanerWake
<1>7. CASE InitiateShutdown \/ DrainerNext
  BY <1>1, <1>7 DEF InitiateShutdown, DrainerNext, Snapshot, CheckActive, RemoveDrained,
                    RemoveSession, DrainerCdr, CountRemaining, DrainerWake, CompleteShutdown
<1>8. CASE StopServices \/ Tick \/ UNCHANGED vars
  BY <1>1, <1>8 DEF StopServices, Tick, vars
<1> QED
  BY <1>2, <1>3, <1>4, <1>5, <1>6, <1>7, <1>8 DEF Next, WorkerNext, Stopped

(***************************************************************************)
(* In the deployed server, with its single request thread, a subscriber is *)
(* never turned away because somebody else stored the session first.       *)
(***************************************************************************)
THEOREM SoleWorkerCorrect == Spec => []SoleWorkerNeverFails
<1>1. Init => SoleWorkerNeverFails
  BY ThreadAssumption DEF Init, Thread, SoleWorkerNeverFails
<1>2. TypeOK /\ SoleWorkerNeverFails /\ [Next]_vars => SoleWorkerNeverFails'
  BY SoleWorkerStep
<1> QED
  BY <1>1, <1>2, TypeCorrect, PTL DEF Spec

-----------------------------------------------------------------------------
(***************************************************************************)
(* Refinement: the threads implement SessionLedger.  Three lemmas say what *)
(* a thread's step does to the debts of SessionLedger.                     *)
(***************************************************************************)
LEMMA DebtTyping ==
    ASSUME TypeOK
    PROVE  /\ \A t \in Thread : pc[t] = "cdr" => target[t] \in Imsi /\ record[t] \in CdrAction
           /\ \A t \in Thread : debt[t] = NoDebt <=> pc[t] # "cdr"
<1>1. \A t \in Thread : pc[t] = "cdr" => target[t] \in Imsi /\ record[t] \in CdrAction
  BY DEF TypeOK, HandTypeOK, Free, Thread, CdrAction, Closing
<1>2. NoImsi \notin Imsi
  BY ThreadAssumption
<1> QED
  BY <1>1, <1>2 DEF debt, NoDebt

LEMMA DebtStays ==
    ASSUME TypeOK, UNCHANGED <<journal, cdrHealthy>>, NEW t \in Thread,
           pc[t] # "cdr", pc'[t] # "cdr",
           \A u \in Thread \ {t} : /\ pc'[u] = pc[u]
                                   /\ target'[u] = target[u]
                                   /\ record'[u] = record[u]
    PROVE  UNCHANGED <<journal, cdrHealthy, debt>>
BY DEF debt

LEMMA DebtGrows ==
    ASSUME TypeOK, UNCHANGED <<journal, cdrHealthy>>, NEW t \in Thread, pc[t] # "cdr",
           NEW i \in Imsi, NEW a \in CdrAction, GotoCdr(t, i, a)
    PROVE  Ledger!Owe(t, i, a)
<1>1. debt[t] = NoDebt
  BY DebtTyping
<1>2. debt' = [debt EXCEPT ![t] = <<i, a>>]
  BY DEF GotoCdr, Goto, debt, TypeOK
<1> QED
  BY <1>1, <1>2 DEF Ledger!Owe

LEMMA DebtSettles ==
    ASSUME TypeOK, NEW t \in Thread, pc[t] = "cdr", pc'[t] # "cdr",
           WriteCdr(target[t], record[t]), UNCHANGED createdAt,
           \A u \in Thread \ {t} : /\ pc'[u] = pc[u]
                                   /\ target'[u] = target[u]
                                   /\ record'[u] = record[u]
    PROVE  Ledger!LedgerNext
<1>1. target[t] \in Imsi /\ record[t] \in CdrAction
  BY DebtTyping
<1>2. debt[t] = <<target[t], record[t]>> /\ debt' = [debt EXCEPT ![t] = NoDebt]
  BY DEF debt
<1>3. GetAllImsis' = GetAllImsis
  BY DEF GetAllImsis, SessionExists
<1>4. Ledger!Settle(t, target[t], record[t])
  BY <1>2, <1>3 DEF Ledger!Settle, Ledger!WriteCdr, WriteCdr
<1>5. record[t] \in Ledger!CdrAction
  BY <1>1 DEF CdrAction, Opening, Closing, Refusal,
              Ledger!CdrAction, Ledger!Opening, Ledger!Closing, Ledger!Refusal
<1> QED
  BY <1>1, <1>4, <1>5 DEF Ledger!LedgerNext

(***************************************************************************)
(* createSession opens at most the session it logs, and refuses what it    *)
(* logs as refused.                                                        *)
(***************************************************************************)
LEMMA RefineWorker ==
    ASSUME TypeOK, NEW w \in Worker, WorkerNext(w)
    PROVE  [Ledger!LedgerNext]_(Ledger!ledgerVars)
<1> w \in Thread
  BY DEF Thread
<1> DEFINE Quiet == UNCHANGED <<journal, cdrHealthy, debt>> /\ UNCHANGED GetAllImsis
<1>0. Quiet => UNCHANGED Ledger!ledgerVars
  BY DEF Ledger!ledgerVars
<1>1. ASSUME NEW i \in Imsi, NEW admitted \in BOOLEAN, Request(w, i, admitted)
      PROVE  [Ledger!LedgerNext]_(Ledger!ledgerVars)
  <2>1. pc[w] = "idle" /\ UNCHANGED <<journal, cdrHealthy, createdAt>>
    BY <1>1 DEF Request
  <2>2. UNCHANGED GetAllImsis
    BY <2>1 DEF GetAllImsis, SessionExists
  <2>3. CASE ~IsBlacklisted(i) /\ admitted
    <3>1. Goto(w, "exists") /\ target' = [target EXCEPT ![w] = i] /\ UNCHANGED record
      BY <1>1, <2>3, Zenon DEF Request
    <3> QED
      BY <1>0, <2>1, <2>2, <3>1, DebtStays DEF Goto, TypeOK
  <2>4. CASE ~(~IsBlacklisted(i) /\ admitted)
    <3>1. PICK a \in Refusal : GotoCdr(w, i, a)
      BY <1>1, <2>4 DEF Request, Refusal
    <3>2. Ledger!Owe(w, i, a)
      BY <2>1, <3>1, DebtGrows DEF CdrAction
    <3>3. Ledger!Refuse(w, i, a) /\ a \in Ledger!Refusal
      BY <3>2, <2>2 DEF Ledger!Refuse, Ledger!Refusal, Refusal
    <3> QED
      BY <3>3 DEF Ledger!LedgerNext
  <2> QED
    BY <2>3, <2>4
<1>2. CASE CheckExists(w) \/ NewSession(w) \/ Reply(w)
  <2>1. UNCHANGED <<journal, cdrHealthy, debt>>
    BY <1>2, DebtStays DEF CheckExists, NewSession, Reply, Goto, TypeOK, work
  <2>2. UNCHANGED GetAllImsis
    BY <1>2 DEF CheckExists, NewSession, Reply, GetAllImsis, SessionExists
  <2> QED
    BY <1>0, <2>1, <2>2
<1>3. CASE Refresh(w)
  <2>1. UNCHANGED <<journal, cdrHealthy, debt>>
    BY <1>3, DebtStays DEF Refresh, Goto, TypeOK
  <2>2. UNCHANGED GetAllImsis
    BY <1>3, TimeAssumption
       DEF Refresh, RefreshSession, GetAllImsis, SessionExists, TypeOK, RepoTypeOK
  <2> QED
    BY <1>0, <2>1, <2>2
<1>4. CASE Add(w)
  <2>1. CASE SessionExists(target[w])
    <3>1. UNCHANGED <<journal, cdrHealthy, debt>>
      BY <1>4, <2>1, DebtStays DEF Add, Goto, TypeOK
    <3>2. UNCHANGED GetAllImsis
      BY <1>4, <2>1 DEF Add, AddSession, GetAllImsis, SessionExists
    <3> QED
      BY <1>0, <3>1, <3>2
  <2>2. CASE ~SessionExists(target[w])
    <3>1. /\ target[w] \in Imsi /\ ~IsBlacklisted(target[w]) /\ stamp[w] \in Nat
      BY <1>4 DEF Add, TypeOK, HandTypeOK, Free
    <3>2. /\ target[w] \notin GetAllImsis
          /\ GetAllImsis' = GetAllImsis \cup {target[w]}
      BY <1>4, <2>2, <3>1, TimeAssumption
         DEF Add, AddSession, GetAllImsis, SessionExists, TypeOK, RepoTypeOK
    <3>3. "create" \in CdrAction
      BY DEF CdrAction, Opening
    <3>4. Ledger!Owe(w, target[w], "create")
      BY <1>4, <2>2, <3>1, <3>3, DebtGrows DEF Add
    <3>5. Ledger!Open(w, target[w])
      BY <3>1, <3>2, <3>4 DEF Ledger!Open, Ledger!IsBlacklisted, IsBlacklisted
    <3> QED
      BY <3>1, <3>5 DEF Ledger!LedgerNext
  <2> QED
    BY <2>1, <2>2
<1>5. CASE WorkerCdr(w)
  BY <1>5, DebtSettles DEF WorkerCdr, Goto, TypeOK
<1> QED
  BY <1>1, <1>2, <1>3, <1>4, <1>5 DEF WorkerNext

(***************************************************************************)
(* cleanExpiredSessions and removeSession close exactly the sessions whose *)
(* removal they log.                                                       *)
(***************************************************************************)
LEMMA RefineRemoval ==
    ASSUME TypeOK, NEW t \in Thread, pc[t] # "cdr", NEW v \in Imsi, NEW a \in Closing,
           RemoveSession(v), UNCHANGED <<journal, cdrHealthy>>,
           SessionExists(v) => GotoCdr(t, v, a),
           ~SessionExists(v) => UNCHANGED debt
    PROVE  [Ledger!LedgerNext]_(Ledger!ledgerVars)
<1>1. GetAllImsis' = GetAllImsis \ {v}
  BY DEF RemoveSession, GetAllImsis, SessionExists, TypeOK, RepoTypeOK
<1>2. CASE SessionExists(v)
  <2>1. Ledger!Owe(t, v, a)
    BY <1>2, DebtGrows DEF CdrAction
  <2>2. Ledger!Close(t, v, a) /\ a \in Ledger!Closing
    BY <1>1, <1>2, <2>1 DEF Ledger!Close, GetAllImsis, Ledger!Closing, Closing
  <2> QED
    BY <2>2 DEF Ledger!LedgerNext
<1>3. CASE ~SessionExists(v)
  <2>1. GetAllImsis' = GetAllImsis
    BY <1>1, <1>3 DEF GetAllImsis
  <2> QED
    BY <1>3, <2>1 DEF Ledger!ledgerVars
<1> QED
  BY <1>2, <1>3

LEMMA RefineCleaner ==
    ASSUME TypeOK, CleanerNext
    PROVE  [Ledger!LedgerNext]_(Ledger!ledgerVars)
<1> Cleaner \in Thread
  BY DEF Thread
<1>1. CASE Sweep \/ EndSweep \/ CleanerWake
  <2>1. UNCHANGED <<journal, cdrHealthy, debt>>
    BY <1>1, DebtStays DEF Sweep, EndSweep, CleanerWake, Goto, TypeOK
  <2>2. UNCHANGED GetAllImsis
    BY <1>1 DEF Sweep, EndSweep, CleanerWake, GetAllImsis, SessionExists
  <2> QED
    BY <2>1, <2>2 DEF Ledger!ledgerVars
<1>2. ASSUME NEW v \in Imsi, RemoveExpired(v)
      PROVE  [Ledger!LedgerNext]_(Ledger!ledgerVars)
  <2>1. pc[Cleaner] # "cdr" /\ RemoveSession(v) /\ UNCHANGED <<journal, cdrHealthy>>
    BY <1>2 DEF RemoveExpired
  <2>2. SessionExists(v) => GotoCdr(Cleaner, v, "timeout")
    BY <1>2 DEF RemoveExpired
  <2>3. ~SessionExists(v) => UNCHANGED debt
    BY <1>2 DEF RemoveExpired, ctl, debt
  <2> QED
    BY <2>1, <2>2, <2>3, RefineRemoval DEF Closing
<1>3. CASE CleanerCdr
  BY <1>3, DebtSettles DEF CleanerCdr, Goto, TypeOK
<1> QED
  BY <1>1, <1>2, <1>3 DEF CleanerNext

LEMMA RefineDrainer ==
    ASSUME TypeOK, InitiateShutdown \/ DrainerNext
    PROVE  [Ledger!LedgerNext]_(Ledger!ledgerVars)
<1> Drainer \in Thread
  BY DEF Thread
<1>1. CASE \/ InitiateShutdown \/ Snapshot \/ (\E v \in Imsi : CheckActive(v))
           \/ CountRemaining \/ DrainerWake \/ CompleteShutdown
  <2>1. UNCHANGED <<journal, cdrHealthy, debt>>
    BY <1>1, DebtStays DEF InitiateShutdown, Snapshot, CheckActive, CountRemaining, DrainerWake,
                           CompleteShutdown, Goto, TypeOK
  <2>2. UNCHANGED GetAllImsis
    BY <1>1 DEF InitiateShutdown, Snapshot, CheckActive, CountRemaining, DrainerWake,
                CompleteShutdown, GetAllImsis, SessionExists
  <2> QED
    BY <2>1, <2>2 DEF Ledger!ledgerVars
<1>2. CASE RemoveDrained
  <2>1. /\ pc[Drainer] # "cdr" /\ RemoveSession(target[Drainer])
        /\ UNCHANGED <<journal, cdrHealthy>> /\ target[Drainer] \in Imsi
    BY <1>2 DEF RemoveDrained, TypeOK, HandTypeOK, Free
  <2>2. SessionExists(target[Drainer]) =>
            GotoCdr(Drainer, target[Drainer], "graceful_shutdown")
    BY <1>2 DEF RemoveDrained
  <2>3. ~SessionExists(target[Drainer]) => UNCHANGED debt
    BY <1>2, <2>1, DebtStays DEF RemoveDrained, Goto, TypeOK
  <2> QED
    BY <2>1, <2>2, <2>3, RefineRemoval DEF Closing
<1>3. CASE DrainerCdr
  BY <1>3, DebtSettles DEF DrainerCdr, Goto, TypeOK
<1> QED
  BY <1>1, <1>2, <1>3 DEF DrainerNext

LEMMA RefineRest ==
    ASSUME StopServices \/ Tick \/ UNCHANGED vars
    PROVE  UNCHANGED Ledger!ledgerVars
BY DEF StopServices, Tick, vars, ctl, Ledger!ledgerVars, debt, GetAllImsis, SessionExists

(***************************************************************************)
(* However the threads interleave, what they do to sessions and journal is *)
(* a behaviour of SessionLedger.                                           *)
(***************************************************************************)
THEOREM LedgerImplemented == Spec => LedgerRefined
<1>1. Init => Ledger!LedgerInit
  <2> SUFFICES ASSUME Init
               PROVE  Ledger!LedgerInit
    OBVIOUS
  <2>1. Ledger!JournalInit
    BY DEF Init, JournalInit, Ledger!JournalInit, CdrAction, Opening, Closing, Refusal,
           Ledger!CdrAction, Ledger!Opening, Ledger!Closing, Ledger!Refusal
  <2>2. GetAllImsis = {}
    BY DEF Init, RepoInit, GetAllImsis, SessionExists
  <2>3. debt = [t \in Thread |-> NoDebt]
    BY DEF Init, debt
  <2> QED
    BY <2>1, <2>2, <2>3 DEF Ledger!LedgerInit
<1>2. TypeOK /\ [Next]_vars => [Ledger!LedgerNext]_(Ledger!ledgerVars)
  BY RefineWorker, RefineCleaner, RefineDrainer, RefineRest DEF Next, Stopped
<1> QED
  BY <1>1, <1>2, TypeCorrect, PTL DEF Spec, LedgerRefined, Ledger!LedgerSpec

(***************************************************************************)
(* What SessionLedgerProofs proves of the ledger therefore holds of the    *)
(* threads.  LP is the same instance as Ledger, with its theorem.          *)
(***************************************************************************)
LP == INSTANCE SessionLedgerProofs WITH sessions <- GetAllImsis

LEMMA SameCardinality ==
    /\ \A S : Ledger!Cardinality(S) = LP!Cardinality(S)
    /\ \A S : IsFiniteSet(S) => LP!IsFiniteSet(S)
<1>1. \A S : Ledger!Cardinality(S) = LP!Cardinality(S)
  BY Zenon DEF Ledger!Cardinality, LP!Cardinality
<1>2. \A S : IsFiniteSet(S) => LP!IsFiniteSet(S)
  BY Zenon DEF IsFiniteSet, LP!IsFiniteSet
<1> QED
  BY <1>1, <1>2

LEMMA SameLedger ==
    /\ Ledger!LedgerInit => LP!LedgerInit
    /\ [Ledger!LedgerNext]_(Ledger!ledgerVars) => [LP!LedgerNext]_(LP!ledgerVars)
    /\ LP!LedgerInv => CdrBalanced /\ BlacklistRespected
<1>1. Ledger!LedgerInit => LP!LedgerInit
  BY DEF Ledger!LedgerInit, LP!LedgerInit, Ledger!JournalInit, LP!JournalInit,
         Ledger!CdrAction, LP!CdrAction, Ledger!Opening, LP!Opening, Ledger!Closing, LP!Closing,
         Ledger!Refusal, LP!Refusal
<1>2. [Ledger!LedgerNext]_(Ledger!ledgerVars) => [LP!LedgerNext]_(LP!ledgerVars)
  BY DEF Ledger!LedgerNext, LP!LedgerNext, Ledger!ledgerVars, LP!ledgerVars,
         Ledger!Open, LP!Open, Ledger!Close, LP!Close, Ledger!Refuse, LP!Refuse,
         Ledger!Settle, LP!Settle, Ledger!Owe, LP!Owe, Ledger!WriteCdr, LP!WriteCdr,
         Ledger!CdrAction, LP!CdrAction, Ledger!Opening, LP!Opening, Ledger!Closing, LP!Closing,
         Ledger!Refusal, LP!Refusal, Ledger!IsBlacklisted, LP!IsBlacklisted
<1>3. LP!LedgerInv => CdrBalanced /\ BlacklistRespected
  BY SameCardinality
     DEF LP!LedgerInv, CdrBalanced, BlacklistRespected, Ledger!Balanced, LP!Balanced,
         Ledger!BlacklistRespected, LP!BlacklistRespected, Ledger!Lines, LP!Lines,
         Ledger!Owing, LP!Owing
<1> QED
  BY <1>1, <1>2, <1>3

(***************************************************************************)
(* Every session of every subscriber is journalled as opened once and as   *)
(* closed once while the journal is healthy, although removal and logging  *)
(* are separate steps and three kinds of threads compete; and a            *)
(* blacklisted subscriber never has a session.                             *)
(***************************************************************************)
THEOREM JournalCorrect == Spec => [](CdrBalanced /\ BlacklistRespected)
<1>1. IsFiniteSet(Thread)
  <2>1. IsFiniteSet(Worker \cup {Cleaner}) /\ IsFiniteSet((Worker \cup {Cleaner}) \cup {Drainer})
    BY ThreadAssumption, FS_AddElement
  <2>2. Thread = (Worker \cup {Cleaner}) \cup {Drainer}
    BY DEF Thread
  <2> QED
    BY <2>1, <2>2
<1>2. NoDebt \notin Imsi \X LP!CdrAction
  BY ThreadAssumption DEF NoDebt
<1>3. LP!LedgerSpec => []LP!LedgerInv
  BY <1>1, <1>2, SameCardinality, BlacklistAssumption, LP!LedgerCorrect
<1>4. Spec => Ledger!LedgerSpec
  BY LedgerImplemented, PTL DEF LedgerRefined
<1> QED
  BY <1>3, <1>4, SameLedger, PTL DEF Ledger!LedgerSpec, LP!LedgerSpec

\* A blacklisted subscriber has no session and no line that says it had one,
\* whichever thread is asked and at whatever moment.
THEOREM BlacklistKept == Spec => []BlacklistRespected
  BY JournalCorrect, PTL

-----------------------------------------------------------------------------
(***************************************************************************)
(* Refinement: the request threads implement RequestService.  A thread has *)
(* an answer in hand exactly when it is about to log or to send it.        *)
(***************************************************************************)
AnswerInv == \A w \in Worker : answer[w] = "none" <=> pc[w] \notin {"cdr", "reply"}

\* A worker's step concerns no other worker, and no other thread any worker.
Apart(w) == \A u \in Worker \ {w} : /\ pc'[u] = pc[u]
                                    /\ target'[u] = target[u]
                                    /\ answer'[u] = answer[u]

LEMMA ServiceMoves ==
    ASSUME NEW w \in Worker, Apart(w)
    PROVE  /\ serves' = [serves EXCEPT ![w] = serves'[w]]
           /\ verdict' = [verdict EXCEPT ![w] = verdict'[w]]
BY DEF serves, Free, verdict, Apart

LEMMA ServiceStays ==
    ASSUME NEW w \in Worker, Apart(w)
    PROVE  /\ serves'[w] = serves[w] => UNCHANGED serves
           /\ verdict'[w] = verdict[w] => UNCHANGED verdict
BY DEF serves, Free, verdict, Apart

\* What a worker has taken and decided, by where it is.
LEMMA ServiceAt ==
    ASSUME TypeOK, AnswerInv, NEW w \in Worker
    PROVE  /\ pc[w] \in Free => serves[w] = NoImsi
           /\ pc[w] \notin Free => serves[w] = target[w] /\ serves[w] # NoImsi
           /\ pc[w] = "refresh" => verdict[w] = "created"
           /\ pc[w] \in Free \cup {"exists", "new", "add"} => verdict[w] = "none"
           /\ pc[w] \in {"cdr", "reply"} => verdict[w] = OnTheWire(answer[w]) /\ verdict[w] # "none"
BY ThreadAssumption
   DEF TypeOK, HandTypeOK, Free, AnswerInv, WorkerPc, Answer, serves, verdict, OnTheWire

\* What a worker's step leaves of the others and does to itself.
LEMMA WorkerApart ==
    ASSUME TypeOK, NEW w \in Worker, WorkerNext(w)
    PROVE  Apart(w)
<1> USE ThreadAssumption DEF TypeOK, Thread, Goto, GotoCdr, Apart, work
<1>1. ASSUME NEW i \in Imsi, NEW admitted \in BOOLEAN, Request(w, i, admitted)
      PROVE  Apart(w)
  <2>1. PICK l \in WorkerPc, a \in Answer :
            /\ Goto(w, l) /\ target' = [target EXCEPT ![w] = i]
            /\ answer' = [answer EXCEPT ![w] = a] \/ answer' = answer
    BY <1>1, Zenon DEF Request, WorkerPc, Answer
  <2> QED
    BY <2>1
<1>2. CASE CheckExists(w) \/ NewSession(w) \/ WorkerCdr(w)
  BY <1>2 DEF CheckExists, NewSession, WorkerCdr
<1>3. CASE Refresh(w) \/ Reply(w)
  BY <1>3 DEF Refresh, Reply
<1>4. CASE Add(w)
  <2>1. CASE SessionExists(target[w])
    BY <1>4, <2>1 DEF Add
  <2>2. CASE ~SessionExists(target[w])
    BY <1>4, <2>2 DEF Add
  <2> QED
    BY <2>1, <2>2
<1> QED
  BY <1>1, <1>2, <1>3, <1>4 DEF WorkerNext

\* No other thread puts a hand on a request, and none but a worker adds sessions.
LEMMA OthersApart ==
    ASSUME TypeOK, [Next]_vars, ~(\E w \in Worker : WorkerNext(w))
    PROVE  /\ \A w \in Worker : pc'[w] = pc[w] /\ target'[w] = target[w] /\ answer'[w] = answer[w]
           /\ GetAllImsis' = GetAllImsis \/ \E i \in GetAllImsis : GetAllImsis' = GetAllImsis \ {i}
<1> USE ThreadAssumption
    DEF TypeOK, RepoTypeOK, Thread, Goto, GotoCdr, work, ctl, GetAllImsis, SessionExists
<1>1. ASSUME NEW v \in Imsi, RemoveExpired(v)
      PROVE  /\ \A w \in Worker : /\ pc'[w] = pc[w] /\ target'[w] = target[w]
                                  /\ answer'[w] = answer[w]
             /\ \/ GetAllImsis' = GetAllImsis
                \/ \E i \in GetAllImsis : GetAllImsis' = GetAllImsis \ {i}
  <2>1. \A w \in Worker : pc'[w] = pc[w] /\ target'[w] = target[w] /\ answer'[w] = answer[w]
    BY <1>1 DEF RemoveExpired
  <2>2. GetAllImsis' = GetAllImsis \ {v}
    BY <1>1 DEF RemoveExpired, RemoveSession
  <2> QED
    BY <2>1, <2>2
<1>2. CASE RemoveDrained
  <2>1. \A w \in Worker : pc'[w] = pc[w] /\ target'[w] = target[w] /\ answer'[w] = answer[w]
    BY <1>2 DEF RemoveDrained
  <2>2. GetAllImsis' = GetAllImsis \ {target[Drainer]}
    BY <1>2 DEF RemoveDrained, RemoveSession
  <2> QED
    BY <2>1, <2>2
<1>3. CASE Sweep \/ CleanerCdr \/ EndSweep \/ CleanerWake
  BY <1>3 DEF Sweep, CleanerCdr, EndSweep, CleanerWake
<1>4. CASE \/ InitiateShutdown \/ Snapshot \/ DrainerCdr \/ CountRemaining \/ DrainerWake
           \/ CompleteShutdown
  BY <1>4 DEF InitiateShutdown, Snapshot, DrainerCdr, CountRemaining, DrainerWake, CompleteShutdown
<1>5. CASE \E v \in Imsi : CheckActive(v)
  BY <1>5 DEF CheckActive
<1>6. CASE StopServices \/ Tick \/ UNCHANGED vars
  BY <1>6 DEF StopServices, Tick, vars
<1> QED
  BY <1>1, <1>2, <1>3, <1>4, <1>5, <1>6 DEF Next, CleanerNext, DrainerNext, Stopped

LEMMA AnswerWorker ==
    ASSUME TypeOK, AnswerInv, NEW w \in Worker, WorkerNext(w)
    PROVE  answer'[w] = "none" <=> pc'[w] \notin {"cdr", "reply"}
<1> USE ThreadAssumption DEF TypeOK, Thread, Goto, GotoCdr, work, AnswerInv, Answer
<1>1. ASSUME NEW i \in Imsi, NEW admitted \in BOOLEAN, Request(w, i, admitted)
      PROVE  answer'[w] = "none" <=> pc'[w] \notin {"cdr", "reply"}
  <2>1. pc[w] = "idle" /\ answer[w] = "none"
    BY <1>1 DEF Request
  <2>2. \/ Goto(w, "exists") /\ UNCHANGED answer
        \/ Goto(w, "cdr") /\ answer' = [answer EXCEPT ![w] = "rejected"]
    BY <1>1, Zenon DEF Request
  <2> QED
    BY <2>1, <2>2
<1>2. CASE CheckExists(w) \/ NewSession(w) \/ WorkerCdr(w)
  BY <1>2 DEF CheckExists, NewSession, WorkerCdr
<1>3. CASE Refresh(w) \/ Reply(w)
  BY <1>3 DEF Refresh, Reply
<1>4. CASE Add(w)
  <2>1. CASE SessionExists(target[w])
    BY <1>4, <2>1 DEF Add
  <2>2. CASE ~SessionExists(target[w])
    BY <1>4, <2>2 DEF Add
  <2> QED
    BY <2>1, <2>2
<1> QED
  BY <1>1, <1>2, <1>3, <1>4 DEF WorkerNext

LEMMA AnswerStep ==
    ASSUME TypeOK, AnswerInv, [Next]_vars
    PROVE  AnswerInv'
<1>1. ASSUME NEW w \in Worker, WorkerNext(w)
      PROVE  AnswerInv'
  BY <1>1, AnswerWorker, WorkerApart DEF AnswerInv, Apart
<1>2. CASE ~(\E w \in Worker : WorkerNext(w))
  BY <1>2, OthersApart DEF AnswerInv
<1> QED
  BY <1>1, <1>2

\* Each step of createSession takes, decides or answers, or says nothing yet.
LEMMA ServeWorker ==
    ASSUME TypeOK, TypeOK', AnswerInv, AnswerInv', NEW w \in Worker, WorkerNext(w)
    PROVE  [Service!ServiceNext]_(Service!serviceVars)
<1> USE DEF Service!serviceVars
<1>0. Apart(w)
  BY WorkerApart
<1>a. /\ serves' = [serves EXCEPT ![w] = serves'[w]]
      /\ verdict' = [verdict EXCEPT ![w] = verdict'[w]]
  BY <1>0, ServiceMoves
<1>b. /\ pc[w] \in Free => serves[w] = NoImsi
      /\ pc[w] \notin Free => serves[w] = target[w] /\ serves[w] # NoImsi
      /\ pc[w] = "refresh" => verdict[w] = "created"
      /\ pc[w] \in Free \cup {"exists", "new", "add"} => verdict[w] = "none"
      /\ pc[w] \in {"cdr", "reply"} => verdict[w] = OnTheWire(answer[w]) /\ verdict[w] # "none"
  BY ServiceAt
<1>c. /\ pc'[w] \in Free => serves'[w] = NoImsi
      /\ pc'[w] \notin Free => serves'[w] = target'[w] /\ serves'[w] # NoImsi
      /\ pc'[w] = "refresh" => verdict'[w] = "created"
      /\ pc'[w] \in Free \cup {"exists", "new", "add"} => verdict'[w] = "none"
      /\ pc'[w] \in {"cdr", "reply"} => verdict'[w] = OnTheWire(answer'[w])
  <2>1. /\ (pc[w] \in Free => serves[w] = NoImsi)'
        /\ (pc[w] \notin Free => serves[w] = target[w] /\ serves[w] # NoImsi)'
    BY ThreadAssumption DEF TypeOK, HandTypeOK, Free, serves
  <2>2. /\ (pc[w] = "refresh" => verdict[w] = "created")'
        /\ (pc[w] # "refresh" => verdict[w] = OnTheWire(answer[w]))'
    BY DEF verdict
  <2>3. (pc[w] \in Free \cup {"exists", "new", "add"} => answer[w] = "none")'
    BY DEF Free, AnswerInv
  <2> QED
    BY <2>1, <2>2, <2>3, Zenon DEF Free, OnTheWire
<1>d. pc \in [Thread -> WorkerPc \cup CleanerPc \cup DrainerPc] /\ w \in Thread
      /\ answer \in [Worker -> Answer] /\ target \in [Thread -> Imsi \cup {NoImsi}]
  BY DEF TypeOK, Thread
<1> USE DEF Goto, GotoCdr
<1>1. ASSUME NEW i \in Imsi, NEW admitted \in BOOLEAN, Request(w, i, admitted)
      PROVE  Service!ServiceNext
  <2>1. pc[w] = "idle" /\ UNCHANGED createdAt
    BY <1>1 DEF Request
  <2>2. \/ pc'[w] = "exists"
        \/ pc'[w] = "cdr" /\ answer'[w] = "rejected"
    <3>1. \/ Goto(w, "exists")
          \/ Goto(w, "cdr") /\ answer' = [answer EXCEPT ![w] = "rejected"]
      BY <1>1, Zenon DEF Request
    <3> QED
      BY <1>d, <3>1
  <2>3. UNCHANGED GetAllImsis
    BY <2>1 DEF GetAllImsis, SessionExists
  <2>4. serves[w] = NoImsi /\ serves'[w] # NoImsi /\ verdict[w] = "none"
    BY <1>b, <1>c, <2>1, <2>2 DEF Free
  <2>5. verdict'[w] \in {"none", "rejected"}
    BY <1>c, <2>2 DEF OnTheWire
  <2>6. UNCHANGED verdict \/ verdict' = [verdict EXCEPT ![w] = "rejected"]
    BY <1>0, <1>a, <2>4, <2>5, ServiceStays
  <2>7. Service!Take(w)
    BY <1>a, <2>3, <2>4, <2>6 DEF Service!Take
  <2> QED
    BY <2>7 DEF Service!ServiceNext
<1>2. CASE CheckExists(w)
  <2>1. /\ pc[w] = "exists" /\ UNCHANGED GetAllImsis /\ target'[w] = target[w]
        /\ pc'[w] = IF SessionExists(target[w]) THEN "refresh" ELSE "new"
        /\ target[w] \in Imsi
    BY <1>2, <1>d DEF CheckExists, GetAllImsis, SessionExists, TypeOK, HandTypeOK, Free
  <2>2. CASE SessionExists(target[w])
    <3>1. serves'[w] = serves[w] /\ verdict'[w] = "created" /\ verdict[w] = "none"
          /\ serves[w] # NoImsi /\ serves[w] \in GetAllImsis
      BY <1>b, <1>c, <2>1, <2>2 DEF Free, GetAllImsis
    <3>2. UNCHANGED serves
      BY <1>0, <3>1, ServiceStays
    <3>3. Service!Confirm(w)
      BY <1>a, <2>1, <3>1, <3>2 DEF Service!Confirm, Service!Decide
    <3> QED
      BY <3>3 DEF Service!ServiceNext
  <2>3. CASE ~SessionExists(target[w])
    <3>1. serves'[w] = serves[w] /\ verdict'[w] = verdict[w]
      BY <1>b, <1>c, <2>1, <2>3 DEF Free
    <3> QED
      BY <1>0, <2>1, <3>1, ServiceStays
  <2> QED
    BY <2>2, <2>3
<1>3. CASE Refresh(w)
  <2>1. /\ pc[w] = "refresh" /\ pc'[w] = "reply" /\ target'[w] = target[w]
        /\ answer'[w] = "created"
    BY <1>3, <1>d DEF Refresh
  <2>2. UNCHANGED GetAllImsis
    BY <1>3, TimeAssumption
       DEF Refresh, RefreshSession, GetAllImsis, SessionExists, TypeOK, RepoTypeOK
  <2>3. serves'[w] = serves[w] /\ verdict'[w] = verdict[w]
    BY <1>b, <1>c, <2>1 DEF OnTheWire
  <2> QED
    BY <1>0, <2>2, <2>3, ServiceStays
<1>4. CASE NewSession(w)
  <2>1. /\ pc[w] = "new" /\ pc'[w] = "add" /\ target'[w] = target[w] /\ UNCHANGED GetAllImsis
    BY <1>4, <1>d DEF NewSession, GetAllImsis, SessionExists
  <2>2. serves'[w] = serves[w] /\ verdict'[w] = verdict[w]
    BY <1>b, <1>c, <2>1 DEF Free
  <2> QED
    BY <1>0, <2>1, <2>2, ServiceStays
<1>5. CASE Add(w)
  <2>1. /\ pc[w] = "add" /\ target[w] \in Imsi /\ ~IsBlacklisted(target[w]) /\ stamp[w] \in Nat
    BY <1>5 DEF Add, TypeOK, HandTypeOK, Free
  <2>2. CASE SessionExists(target[w])
    <3>1. /\ pc'[w] = "reply" /\ target'[w] = target[w] /\ answer'[w] = "error"
          /\ UNCHANGED GetAllImsis
      BY <1>5, <1>d, <2>2 DEF Add, AddSession, GetAllImsis, SessionExists
    <3>2. serves'[w] = serves[w] /\ verdict'[w] = "rejected" /\ verdict[w] = "none"
          /\ serves[w] # NoImsi
      BY <1>b, <1>c, <2>1, <3>1 DEF Free, OnTheWire
    <3>3. UNCHANGED serves
      BY <1>0, <3>2, ServiceStays
    <3>4. Service!Deny(w)
      BY <1>a, <3>1, <3>2, <3>3 DEF Service!Deny, Service!Decide
    <3> QED
      BY <3>4 DEF Service!ServiceNext
  <2>3. CASE ~SessionExists(target[w])
    <3>1. /\ pc'[w] = "cdr" /\ target'[w] = target[w] /\ answer'[w] = "created"
      BY <1>5, <1>d, <2>3 DEF Add
    <3>2. /\ target[w] \notin GetAllImsis
          /\ GetAllImsis' = GetAllImsis \cup {target[w]}
      BY <1>5, <2>1, <2>3, TimeAssumption
         DEF Add, AddSession, GetAllImsis, SessionExists, TypeOK, RepoTypeOK
    <3>3. serves'[w] = serves[w] /\ verdict'[w] = "created" /\ verdict[w] = "none"
          /\ serves[w] # NoImsi /\ serves[w] = target[w]
      BY <1>b, <1>c, <2>1, <3>1 DEF Free, OnTheWire
    <3>4. UNCHANGED serves
      BY <1>0, <3>3, ServiceStays
    <3>5. Service!Store(w)
      BY <1>a, <2>1, <3>2, <3>3, <3>4
         DEF Service!Store, Service!Decide, Service!IsBlacklisted, IsBlacklisted
    <3> QED
      BY <3>5 DEF Service!ServiceNext
  <2> QED
    BY <2>2, <2>3
<1>6. CASE WorkerCdr(w)
  <2>1. /\ pc[w] = "cdr" /\ pc'[w] = "reply" /\ target'[w] = target[w] /\ answer'[w] = answer[w]
        /\ UNCHANGED GetAllImsis
    BY <1>6, <1>d DEF WorkerCdr, work, GetAllImsis, SessionExists
  <2>2. serves'[w] = serves[w] /\ verdict'[w] = verdict[w]
    BY <1>b, <1>c, <2>1
  <2> QED
    BY <1>0, <2>1, <2>2, ServiceStays
<1>7. CASE Reply(w)
  <2>1. pc[w] = "reply" /\ pc'[w] \in Free /\ UNCHANGED GetAllImsis
    BY <1>7, <1>d DEF Free, Reply, GetAllImsis, SessionExists
  <2>2. serves'[w] = NoImsi /\ verdict'[w] = "none" /\ verdict[w] # "none"
    BY <1>b, <1>c, <2>1
  <2>3. Service!Answer(w)
    BY <1>a, <2>1, <2>2 DEF Service!Answer
  <2> QED
    BY <2>3 DEF Service!ServiceNext
<1> QED
  BY <1>1, <1>2, <1>3, <1>4, <1>5, <1>6, <1>7 DEF WorkerNext

(***************************************************************************)
(* Whatever the cleaner and the shutdown thread remove under its hands,    *)
(* createSession decides on a request as if at one moment: "created" only  *)
(* while the subscriber has a session, and never for a blacklisted one     *)
(* that has none.                                                          *)
(***************************************************************************)
THEOREM ServiceImplemented == Spec => ServiceRefined
<1>1. Init => Service!ServiceInit /\ AnswerInv
  <2> SUFFICES ASSUME Init
               PROVE  Service!ServiceInit /\ AnswerInv
    OBVIOUS
  <2>1. GetAllImsis = {}
    BY DEF Init, RepoInit, GetAllImsis, SessionExists
  <2>2. \A w \in Worker : pc[w] = "idle" /\ answer[w] = "none"
    BY ThreadAssumption DEF Init, Thread
  <2> QED
    BY <2>1, <2>2 DEF Service!ServiceInit, AnswerInv, serves, Free, verdict, OnTheWire
<1>2. TypeOK /\ AnswerInv /\ [Next]_vars => AnswerInv'
  BY AnswerStep
<1>3. TypeOK /\ TypeOK' /\ AnswerInv /\ AnswerInv' /\ [Next]_vars
          => [Service!ServiceNext]_(Service!serviceVars)
  <2> SUFFICES ASSUME TypeOK, TypeOK', AnswerInv, AnswerInv', [Next]_vars
               PROVE  [Service!ServiceNext]_(Service!serviceVars)
    OBVIOUS
  <2>1. ASSUME NEW w \in Worker, WorkerNext(w)
        PROVE  [Service!ServiceNext]_(Service!serviceVars)
    BY <2>1, ServeWorker
  <2>2. CASE ~(\E w \in Worker : WorkerNext(w))
    <3>1. UNCHANGED <<serves, verdict>>
      BY <2>2, OthersApart DEF serves, Free, verdict
    <3> QED
      BY <2>2, <3>1, OthersApart DEF Service!ServiceNext, Service!Remove, Service!serviceVars
  <2> QED
    BY <2>1, <2>2
<1> QED
  BY <1>1, <1>2, <1>3, TypeCorrect, PTL DEF Spec, ServiceRefined, Service!ServiceSpec
-----------------------------------------------------------------------------
(***************************************************************************)
(* A drain and a sweep end: both work off a finite snapshot.  That the     *)
(* repository is finite at every moment comes from RequestService, where   *)
(* sessions come one at a time.                                            *)
(***************************************************************************)
FiniteInv == IsFiniteSet(GetAllImsis) /\ IsFiniteSet(todo) /\ IsFiniteSet(victims)

\* Both snapshots are taken of the repository and only get smaller.
LEMMA SnapshotsShrink ==
    ASSUME TypeOK, [Next]_vars
    PROVE  /\ todo' \subseteq todo \/ todo' = GetAllImsis
           /\ victims' \subseteq victims \/ victims' \subseteq GetAllImsis
<1>1. CASE \E w \in Worker : WorkerNext(w)
  BY <1>1, WorkerStores
<1>2. CASE Sweep
  BY <1>2 DEF Sweep, GetExpiredSessions
<1>3. CASE (\E v \in Imsi : RemoveExpired(v)) \/ CleanerCdr \/ EndSweep \/ CleanerWake
  BY <1>3 DEF RemoveExpired, CleanerCdr, EndSweep, CleanerWake
<1>4. CASE InitiateShutdown \/ Snapshot \/ \E v \in Imsi : CheckActive(v)
  BY <1>4 DEF InitiateShutdown, Snapshot, CheckActive
<1>5. CASE RemoveDrained \/ DrainerCdr \/ CountRemaining \/ DrainerWake \/ CompleteShutdown
  BY <1>5 DEF RemoveDrained, DrainerCdr, CountRemaining, DrainerWake, CompleteShutdown
<1>6. CASE StopServices \/ Tick \/ UNCHANGED vars
  BY <1>6 DEF StopServices, Tick, vars
<1> QED
  BY <1>1, <1>2, <1>3, <1>4, <1>5, <1>6 DEF Next, CleanerNext, DrainerNext, Stopped

LEMMA FiniteStep ==
    ASSUME TypeOK, FiniteInv, [Next]_vars, [Service!ServiceNext]_(Service!serviceVars)
    PROVE  FiniteInv'
<1>1. IsFiniteSet(GetAllImsis')
  <2>1. \/ GetAllImsis' = GetAllImsis
        \/ \E i : GetAllImsis' = GetAllImsis \cup {i}
        \/ GetAllImsis' \subseteq GetAllImsis
    BY DEF Service!ServiceNext, Service!serviceVars, Service!Take, Service!Confirm, Service!Store,
           Service!Deny, Service!Answer, Service!Remove
  <2> QED
    BY <2>1, FS_AddElement, FS_Subset DEF FiniteInv
<1>2. IsFiniteSet(todo') /\ IsFiniteSet(victims')
  BY SnapshotsShrink, FS_Subset DEF FiniteInv
<1> QED
  BY <1>1, <1>2 DEF FiniteInv

LEMMA AlwaysFinite == Spec => []FiniteInv
<1>1. Init => FiniteInv
  <2>1. Init => GetAllImsis = {} /\ todo = {} /\ victims = {}
    BY DEF Init, RepoInit, GetAllImsis, SessionExists
  <2> QED
    BY <2>1, FS_EmptySet DEF FiniteInv
<1>2. Spec => [][Service!ServiceNext]_(Service!serviceVars)
  BY ServiceImplemented, PTL DEF ServiceRefined, Service!ServiceSpec
<1>3. TypeOK /\ FiniteInv /\ [Next]_vars /\ [Service!ServiceNext]_(Service!serviceVars)
          => FiniteInv'
  BY FiniteStep
<1> QED
  BY <1>1, <1>2, <1>3, TypeCorrect, PTL DEF Spec

\* Nobody but the shutdown thread touches its snapshot, nobody but the cleaner
\* the cleaner's.
LEMMA SnapshotsKept ==
    ASSUME TypeOK, [Next]_vars
    PROVE  /\ DrainerNext \/ InitiateShutdown \/ (todo' = todo /\ pc'[Drainer] = pc[Drainer])
           /\ CleanerNext \/ (victims' = victims /\ pc'[Cleaner] = pc[Cleaner])
<1> USE ThreadAssumption DEF TypeOK, Thread, Goto, GotoCdr, ctl
<1>1. CASE \E w \in Worker : WorkerNext(w)
  BY <1>1, WorkerStores
<1>2. CASE CleanerNext
  BY <1>2 DEF CleanerNext, Sweep, RemoveExpired, CleanerCdr, EndSweep, CleanerWake
<1>3. CASE DrainerNext
  BY <1>3 DEF DrainerNext, Snapshot, CheckActive, RemoveDrained, DrainerCdr, CountRemaining,
              DrainerWake, CompleteShutdown
<1>4. CASE InitiateShutdown
  BY <1>4 DEF InitiateShutdown
<1>5. CASE StopServices \/ Tick \/ UNCHANGED vars
  BY <1>5 DEF StopServices, Tick, vars
<1> QED
  BY <1>1, <1>2, <1>3, <1>4, <1>5 DEF Next, Stopped

\* One element less.
LEMMA OneLess ==
    ASSUME NEW S, IsFiniteSet(S), NEW x \in S
    PROVE  /\ Cardinality(S) \in Nat /\ Cardinality(S \ {x}) \in Nat
           /\ Cardinality(S \ {x}) = Cardinality(S) - 1
BY FS_RemoveElement, FS_CardinalityType

LEMMA DrainShortens ==
    ASSUME TypeOK, FiniteInv, DrainerNext, pc[Drainer] # "snapshot"
    PROVE  DrainLeft' < DrainLeft
<1> DEFINE n == Cardinality(todo)
           m == Cardinality(todo')
           Rank(l) == CASE l = "remove" -> 5
                        [] l = "cdr"    -> 4
                        [] l = "count"  -> 3
                        [] l = "wait"   -> 2
                        [] l = "next"   -> 1
                        [] OTHER        -> 0
<1>1. DrainLeft = 6 * n + Rank(pc[Drainer]) /\ DrainLeft' = 6 * m + Rank(pc'[Drainer])
  BY DEF DrainLeft
<1>2. n \in Nat
  BY FS_CardinalityType DEF FiniteInv
<1>3. /\ Rank("remove") = 5 /\ Rank("cdr") = 4 /\ Rank("count") = 3
      /\ Rank("wait") = 2 /\ Rank("next") = 1 /\ Rank("done") = 0
  OBVIOUS
<1> HIDE DEF n, m, Rank
<1> USE ThreadAssumption DEF TypeOK, Thread, Goto, GotoCdr
<1>4. ASSUME NEW v \in Imsi, CheckActive(v)
      PROVE  DrainLeft' < DrainLeft
  <2>1. pc[Drainer] = "next" /\ pc'[Drainer] \in {"remove", "count"} /\ v \in todo
        /\ todo' = todo \ {v}
    BY <1>4 DEF CheckActive
  <2>2. m = n - 1
    BY <2>1, OneLess DEF n, m, FiniteInv
  <2> QED
    BY <1>1, <1>2, <1>3, <2>1, <2>2
<1>5. CASE RemoveDrained
  <2>1. pc[Drainer] = "remove" /\ pc'[Drainer] \in {"cdr", "count"} /\ m = n
    BY <1>5 DEF RemoveDrained, m, n
  <2> QED
    BY <1>1, <1>2, <1>3, <2>1
<1>6. CASE DrainerCdr
  <2>1. pc[Drainer] = "cdr" /\ pc'[Drainer] = "count" /\ m = n
    BY <1>6 DEF DrainerCdr, m, n
  <2> QED
    BY <1>1, <1>2, <1>3, <2>1
<1>7. CASE CountRemaining
  <2>1. pc[Drainer] = "count" /\ pc'[Drainer] \in {"done", "wait"} /\ (todo' = {} \/ todo' = todo)
    BY <1>7 DEF CountRemaining
  <2>2. m = 0 \/ m = n
    BY <2>1, FS_EmptySet DEF m, n
  <2> QED
    BY <1>1, <1>2, <1>3, <2>1, <2>2
<1>8. CASE DrainerWake
  <2>1. pc[Drainer] = "wait" /\ pc'[Drainer] = "next" /\ m = n
    BY <1>8 DEF DrainerWake, m, n
  <2> QED
    BY <1>1, <1>2, <1>3, <2>1
<1>9. CASE CompleteShutdown
  <2>1. pc[Drainer] = "next" /\ pc'[Drainer] = "done" /\ m = n
    BY <1>9 DEF CompleteShutdown, m, n
  <2> QED
    BY <1>1, <1>2, <1>3, <2>1
<1>10. ~Snapshot
  BY DEF Snapshot
<1> QED
  BY <1>4, <1>5, <1>6, <1>7, <1>8, <1>9, <1>10 DEF DrainerNext

LEMMA SweepShortens ==
    ASSUME TypeOK, FiniteInv, CleanerNext, pc[Cleaner] \in {"next", "cdr"}
    PROVE  SweepLeft' < SweepLeft
<1> DEFINE n == Cardinality(victims)
           m == Cardinality(victims')
           Rank(l) == CASE l = "cdr" -> 2 [] l = "next" -> 1 [] OTHER -> 0
<1>1. SweepLeft = 2 * n + Rank(pc[Cleaner]) /\ SweepLeft' = 2 * m + Rank(pc'[Cleaner])
  BY DEF SweepLeft
<1>2. n \in Nat
  BY FS_CardinalityType DEF FiniteInv
<1>3. Rank("cdr") = 2 /\ Rank("next") = 1 /\ Rank("wait") = 0
  OBVIOUS
<1> HIDE DEF n, m, Rank
<1> USE ThreadAssumption DEF TypeOK, Thread, Goto, GotoCdr, ctl
<1>4. ASSUME NEW v \in Imsi, RemoveExpired(v)
      PROVE  SweepLeft' < SweepLeft
  <2>1. pc[Cleaner] = "next" /\ pc'[Cleaner] \in {"cdr", "next"} /\ v \in victims
        /\ victims' = victims \ {v}
    BY <1>4 DEF RemoveExpired
  <2>2. m = n - 1
    BY <2>1, OneLess DEF n, m, FiniteInv
  <2> QED
    BY <1>1, <1>2, <1>3, <2>1, <2>2
<1>5. CASE CleanerCdr
  <2>1. pc[Cleaner] = "cdr" /\ pc'[Cleaner] = "next" /\ m = n
    BY <1>5 DEF CleanerCdr, m, n
  <2> QED
    BY <1>1, <1>2, <1>3, <2>1
<1>6. CASE EndSweep
  <2>1. pc[Cleaner] = "next" /\ pc'[Cleaner] = "wait" /\ m = 0
    BY <1>6, FS_EmptySet DEF EndSweep, m
  <2> QED
    BY <1>1, <1>2, <1>3, <2>1
<1>7. ~Sweep /\ ~CleanerWake
  BY DEF Sweep, CleanerWake
<1> QED
  BY <1>4, <1>5, <1>6, <1>7 DEF CleanerNext

(***************************************************************************)
(* The shutdown thread comes closer to its end with every step of its own, *)
(* and no request, sweep or tick of the clock puts the end off.            *)
(***************************************************************************)
THEOREM DrainBounded == Spec => DrainRunsOut
<1>1. ASSUME TypeOK, FiniteInv, [Next]_vars, pc[Drainer] \notin {"off", "snapshot"}
      PROVE  DrainLeft' <= DrainLeft /\ (pc'[Drainer] # pc[Drainer] => DrainLeft' < DrainLeft)
  <2>1. DrainLeft \in Int /\ DrainLeft' \in Int
    <3>1. Cardinality(todo) \in Nat
      BY <1>1, FS_CardinalityType DEF FiniteInv
    <3>2. Cardinality(todo') \in Nat
      BY <1>1, <3>1, SnapshotsShrink, FS_Subset, FS_CardinalityType DEF FiniteInv
    <3> QED
      BY <3>1, <3>2 DEF DrainLeft
  <2>2. CASE DrainerNext
    BY <1>1, <2>1, <2>2, DrainShortens
  <2>3. CASE ~DrainerNext
    <3>1. todo' = todo /\ pc'[Drainer] = pc[Drainer]
      BY <1>1, <2>3, SnapshotsKept DEF InitiateShutdown
    <3>2. DrainLeft' = DrainLeft
      BY <3>1 DEF DrainLeft
    <3> QED
      BY <2>1, <3>1, <3>2
  <2> QED
    BY <2>2, <2>3
<1>2. TypeOK /\ FiniteInv /\ [Next]_vars =>
         [pc[Drainer] \notin {"off", "snapshot"} =>
             /\ DrainLeft' <= DrainLeft
             /\ pc'[Drainer] # pc[Drainer] => DrainLeft' < DrainLeft]_vars
  BY <1>1
<1> QED
  BY <1>2, AlwaysFinite, TypeCorrect, PTL DEF Spec, DrainRunsOut

(***************************************************************************)
(* So does the cleaner while it sweeps: what is stored or refreshed under  *)
(* its hands makes no sweep longer.                                        *)
(***************************************************************************)
THEOREM SweepBounded == Spec => SweepRunsOut
<1>1. ASSUME TypeOK, FiniteInv, [Next]_vars, pc[Cleaner] \in {"next", "cdr"}
      PROVE  /\ SweepLeft' <= SweepLeft
             /\ pc'[Cleaner] # pc[Cleaner] \/ victims' # victims => SweepLeft' < SweepLeft
  <2>1. SweepLeft \in Int /\ SweepLeft' \in Int
    <3>1. Cardinality(victims) \in Nat
      BY <1>1, FS_CardinalityType DEF FiniteInv
    <3>2. Cardinality(victims') \in Nat
      BY <1>1, <3>1, SnapshotsShrink, FS_Subset, FS_CardinalityType DEF FiniteInv
    <3> QED
      BY <3>1, <3>2 DEF SweepLeft
  <2>2. CASE CleanerNext
    BY <1>1, <2>1, <2>2, SweepShortens
  <2>3. CASE ~CleanerNext
    <3>1. victims' = victims /\ pc'[Cleaner] = pc[Cleaner]
      BY <1>1, <2>3, SnapshotsKept
    <3>2. SweepLeft' = SweepLeft
      BY <3>1 DEF SweepLeft
    <3> QED
      BY <2>1, <3>1, <3>2
  <2> QED
    BY <2>2, <2>3
<1>2. TypeOK /\ FiniteInv /\ [Next]_vars =>
         [pc[Cleaner] \in {"next", "cdr"} =>
             /\ SweepLeft' <= SweepLeft
             /\ pc'[Cleaner] # pc[Cleaner] \/ victims' # victims => SweepLeft' < SweepLeft]_vars
  BY <1>1
<1> QED
  BY <1>2, AlwaysFinite, TypeCorrect, PTL DEF Spec, SweepRunsOut
=============================================================================
