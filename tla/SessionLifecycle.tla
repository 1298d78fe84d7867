-------------------------- MODULE SessionLifecycle --------------------------
(***************************************************************************)
(* The life of a subscriber session across the threads of pgw_server that  *)
(* touch it: the request threads (udp/UdpServer and                        *)
(* SessionManager::createSession; the deployed server runs exactly one),   *)
(* the cleaner thread (SessionCleaner, cleanExpiredSessions), the shutdown *)
(* thread (GracefulShutdownManager::shutdownWorker, removeSession), and    *)
(* AppBootstrap::stopServices, which stops them in order.                  *)
(*                                                                         *)
(* SessionManager has no lock of its own: each repository or journal call  *)
(* is one step, and any other thread may run between two of them.          *)
(***************************************************************************)
EXTENDS SessionRepository, CdrJournal, FiniteSets

CONSTANTS Worker,       \* threads that call createSession
          Cleaner,      \* the SessionCleaner thread
          Drainer,      \* the GracefulShutdownManager thread
          MaxRequests,  \* bound: requests accepted in a behaviour
          StopMayInterrupt,  \* stop() may be called while the drain goes on
          NoImsi        \* a thread that works on no IMSI

Thread == Worker \cup {Cleaner, Drainer}

ASSUME ThreadAssumption ==
    /\ NoImsi \notin Imsi
    /\ IsFiniteSet(Worker)
    /\ Cleaner \notin Worker
    /\ Drainer \notin Worker
    /\ Cleaner # Drainer
    /\ MaxRequests \in Nat
    /\ StopMayInterrupt \in BOOLEAN

VARIABLES pc,        \* where each thread is
          target,    \* the IMSI each thread works on
          record,    \* the action of the CDR line each thread is to write
          stamp,     \* creation time of a worker's Session not yet stored
          answer,    \* what a worker will send to its client
          victims,   \* cleanExpiredSessions: the snapshot still to process
          todo,      \* shutdownWorker: the snapshot still to process
          app,       \* how far stopServices has come
          requests,  \* number of requests accepted
          late,      \* history: IMSIs stored since the shutdown snapshot
          touched    \* history: IMSIs stored or refreshed since the last sweep

ctl  == <<pc, target, record>>
work == <<stamp, answer, requests>>
vars == <<now, createdAt, journal, cdrHealthy, pc, target, record, stamp,
          answer, victims, todo, app, requests, late, touched>>

\* stopServices clears these flags one after the other.
udpRunning     == app = "running"
cleanerRunning == app \in {"running", "stop_udp"}
stopRequested  == app \in {"stop_shutdown", "stopped"}

WorkerPc  == {"ended", "idle", "exists", "refresh", "new", "add", "cdr", "reply"}
CleanerPc == {"sweep", "next", "cdr", "wait", "done"}
DrainerPc == {"off", "snapshot", "next", "remove", "cdr", "count", "wait", "done"}
Free      == {"idle", "ended"}   \* a worker without a request
AppPc     == {"running", "stop_udp", "stop_cleaner", "stop_shutdown", "stopped"}
Answer    == {"none", "created", "rejected", "error"}

Init == /\ RepoInit
        /\ JournalInit
        /\ pc = [t \in Thread |-> CASE t = Cleaner -> "sweep"
                                    [] t = Drainer -> "off"
                                    [] OTHER       -> "idle"]
        /\ target = [t \in Thread |-> NoImsi]
        /\ record = [t \in Thread |-> "none"]
        /\ stamp = [w \in Worker |-> Absent]
        /\ answer = [w \in Worker |-> "none"]
        /\ victims = {}
        /\ todo = {}
        /\ app = "running"
        /\ requests = 0
        /\ late = {}
        /\ touched = {}

Goto(t, l) == pc' = [pc EXCEPT ![t] = l]

\* Thread t goes on to log action a for IMSI i.
GotoCdr(t, i, a) == /\ Goto(t, "cdr")
                    /\ target' = [target EXCEPT ![t] = i]
                    /\ record' = [record EXCEPT ![t] = a]

-----------------------------------------------------------------------------
(* Request threads: UdpServer::handleIncomingPacket, createSession.        *)

\* A packet arrives; a thread that waits for one is past its look at _running, and
\* takes it also if stop() has cleared that meanwhile.  The blacklist and the rate limiter (its verdict is free
\* here, see RateLimiter) are consulted before the repository is.
Request(w, i, admitted) ==
    /\ pc[w] = "idle"
    /\ app \in {"running", "stop_udp"}
    /\ requests < MaxRequests
    /\ requests' = requests + 1
    /\ IF ~IsBlacklisted(i) /\ admitted
       THEN /\ Goto(w, "exists")
            /\ target' = [target EXCEPT ![w] = i]
            /\ UNCHANGED <<record, answer>>
       ELSE /\ GotoCdr(w, i, IF IsBlacklisted(i) THEN "rejected_blacklist"
                                                  ELSE "rejected_rate_limit")
            /\ answer' = [answer EXCEPT ![w] = "rejected"]
    /\ UNCHANGED <<now, createdAt, journal, cdrHealthy, stamp, victims, todo, app, late, touched>>

\* Mutant of CheckExists: the check that precedes the construction is left out.
CheckExistsSkipped(w) ==
    /\ pc[w] = "exists"
    /\ Goto(w, "new")
    /\ UNCHANGED <<now, createdAt, journal, cdrHealthy, target, record, work,
                   victims, todo, app, late, touched>>

\* Mutant of CheckExists: every request is taken for a repeated one.
CheckExistsTrusting(w) ==
    /\ pc[w] = "exists"
    /\ Goto(w, "refresh")
    /\ UNCHANGED <<now, createdAt, journal, cdrHealthy, target, record, work,
                   victims, todo, app, late, touched>>

\* if (_sessionRepo->sessionExists(imsi))
CheckExists(w) ==
    /\ pc[w] = "exists"
    /\ Goto(w, IF SessionExists(target[w]) THEN "refresh" ELSE "new")
    /\ UNCHANGED <<now, createdAt, journal, cdrHealthy, target, record, work,
                   victims, todo, app, late, touched>>

\* refreshSession; its result is ignored and the client is told "created".
Refresh(w) ==
    /\ pc[w] = "refresh"
    /\ RefreshSession(target[w])
    /\ Goto(w, "reply")
    /\ answer' = [answer EXCEPT ![w] = "created"]
    /\ touched' = touched \cup {target[w]}
    /\ UNCHANGED <<now, journal, cdrHealthy, target, record, stamp, requests,
                   victims, todo, app, late>>

\* Session session(imsi, _logger): the creation time is read here, before the
\* repository's mutex is taken.
NewSession(w) ==
    /\ pc[w] = "new"
    /\ stamp' = [stamp EXCEPT ![w] = now]
    /\ Goto(w, "add")
    /\ UNCHANGED <<now, createdAt, journal, cdrHealthy, target, record, answer,
                   requests, victims, todo, app, late, touched>>

\* Mutant of Add: the result of addSession is not looked at.
AddUnchecked(w) ==
    /\ pc[w] = "add"
    /\ AddSession(target[w], stamp[w])
    /\ stamp' = [stamp EXCEPT ![w] = Absent]
    /\ GotoCdr(w, target[w], "create")
    /\ answer' = [answer EXCEPT ![w] = "created"]
    /\ UNCHANGED <<now, journal, cdrHealthy, requests, victims, todo, app, late, touched>>

\* addSession: stores the session, or fails when the IMSI has one by now
\* (SessionResult::ERROR: no CDR line, and "rejected" on the wire).
Add(w) ==
    /\ pc[w] = "add"
    /\ AddSession(target[w], stamp[w])
    /\ stamp' = [stamp EXCEPT ![w] = Absent]
    /\ IF SessionExists(target[w])
       THEN /\ Goto(w, "reply")
            /\ answer' = [answer EXCEPT ![w] = "error"]
            /\ UNCHANGED <<target, record, late, touched>>
       ELSE /\ GotoCdr(w, target[w], "create")
            /\ answer' = [answer EXCEPT ![w] = "created"]
            /\ late' = IF pc[Drainer] \in {"off", "snapshot"}
                       THEN late ELSE late \cup {target[w]}
            /\ touched' = touched \cup {target[w]}
    /\ UNCHANGED <<now, journal, cdrHealthy, requests, victims, todo, app>>

\* Mutant of WorkerCdr: a line that could not be written is tried again.
WorkerCdrRetried(w) ==
    /\ pc[w] = "cdr"
    /\ WriteCdr(target[w], record[w])
    /\ IF cdrHealthy'
       THEN Goto(w, "reply") /\ record' = [record EXCEPT ![w] = "none"]
       ELSE UNCHANGED <<pc, record>>
    /\ UNCHANGED <<now, createdAt, target, work, victims, todo, app, late, touched>>

WorkerCdr(w) ==
    /\ pc[w] = "cdr"
    /\ WriteCdr(target[w], record[w])
    /\ Goto(w, "reply")
    /\ record' = [record EXCEPT ![w] = "none"]
    /\ UNCHANGED <<now, createdAt, target, work, victims, todo, app, late, touched>>

\* sendResponse; then while (_running), before the next packet.
Reply(w) ==
    /\ pc[w] = "reply"
    /\ Goto(w, IF udpRunning THEN "idle" ELSE "ended")
    /\ target' = [target EXCEPT ![w] = NoImsi]
    /\ answer' = [answer EXCEPT ![w] = "none"]
    /\ UNCHANGED <<now, createdAt, journal, cdrHealthy, record, stamp, requests,
                   victims, todo, app, late, touched>>

WorkerNext(w) ==
    \/ \E i \in Imsi, admitted \in BOOLEAN : Request(w, i, admitted)
    \/ CheckExists(w) \/ Refresh(w) \/ NewSession(w) \/ Add(w)
    \/ WorkerCdr(w) \/ Reply(w)

-----------------------------------------------------------------------------
(* The cleaner thread: cleanerWorker and cleanExpiredSessions.             *)

\* Mutant of Sweep: while (true).
SweepForEver ==
    /\ pc[Cleaner] = "sweep"
    /\ Goto(Cleaner, "next")
    /\ victims' = GetExpiredSessions
    /\ touched' = {}
    /\ UNCHANGED <<now, createdAt, journal, cdrHealthy, target, record, work,
                   todo, app, late>>

\* while (_running) { expiredSessions = getExpiredSessions(timeout) ... }
Sweep ==
    /\ pc[Cleaner] = "sweep"
    /\ IF cleanerRunning
       THEN Goto(Cleaner, "next") /\ victims' = GetExpiredSessions /\ touched' = {}
       ELSE Goto(Cleaner, "done") /\ UNCHANGED <<victims, touched>>
    /\ UNCHANGED <<now, createdAt, journal, cdrHealthy, target, record, work,
                   todo, app, late>>

\* Mutant of RemoveExpired: the list is looked up anew in every round.
RemoveExpiredAnew(v) ==
    /\ pc[Cleaner] = "next"
    /\ cleanerRunning
    /\ v \in victims
    /\ victims' = GetExpiredSessions \ {v}
    /\ RemoveSession(v)
    /\ IF SessionExists(v)
       THEN GotoCdr(Cleaner, v, "timeout")
       ELSE UNCHANGED ctl
    /\ UNCHANGED <<now, journal, cdrHealthy, work, todo, app, late, touched>>

\* One round of the loop: the session is removed by IMSI alone, whatever has
\* happened to it since the snapshot; only a successful removal is logged.
RemoveExpired(v) ==
    /\ pc[Cleaner] = "next"
    /\ cleanerRunning
    /\ v \in victims
    /\ victims' = victims \ {v}
    /\ RemoveSession(v)
    /\ IF SessionExists(v)
       THEN GotoCdr(Cleaner, v, "timeout")
       ELSE UNCHANGED ctl
    /\ UNCHANGED <<now, journal, cdrHealthy, work, todo, app, late, touched>>

CleanerCdr ==
    /\ pc[Cleaner] = "cdr"
    /\ WriteCdr(target[Cleaner], record[Cleaner])
    /\ Goto(Cleaner, "next")
    /\ target' = [target EXCEPT ![Cleaner] = NoImsi]
    /\ record' = [record EXCEPT ![Cleaner] = "none"]
    /\ UNCHANGED <<now, createdAt, work, victims, todo, app, late, touched>>

\* The sweep is over, or the stop flag breaks it off.
EndSweep ==
    /\ pc[Cleaner] = "next"
    /\ victims = {} \/ ~cleanerRunning
    /\ Goto(Cleaner, "wait")
    /\ victims' = {}
    /\ UNCHANGED <<now, createdAt, journal, cdrHealthy, target, record, work,
                   todo, app, late, touched>>

\* Mutant of CleanerWake: one sweep, no loop.
CleanerWakeOnce ==
    /\ pc[Cleaner] = "wait"
    /\ Goto(Cleaner, "done")
    /\ UNCHANGED <<now, createdAt, journal, cdrHealthy, target, record, work,
                   victims, todo, app, late, touched>>

\* _cv.wait_for: ends with the interval or with the stop notification.
CleanerWake ==
    /\ pc[Cleaner] = "wait"
    /\ Goto(Cleaner, "sweep")
    /\ UNCHANGED <<now, createdAt, journal, cdrHealthy, target, record, work,
                   victims, todo, app, late, touched>>

CleanerNext == Sweep \/ (\E v \in Imsi : RemoveExpired(v)) \/ CleanerCdr
               \/ EndSweep \/ CleanerWake

-----------------------------------------------------------------------------
(* The shutdown thread.                                                    *)

\* initiateShutdown (from /stop or a signal): only the first call starts it.
InitiateShutdown ==
    /\ udpRunning
    /\ pc[Drainer] = "off"
    /\ Goto(Drainer, "snapshot")
    /\ UNCHANGED <<now, createdAt, journal, cdrHealthy, target, record, work,
                   victims, todo, app, late, touched>>

\* imsis = getAllActiveImsis(); nothing to do when there are none.
Snapshot ==
    /\ pc[Drainer] = "snapshot"
    /\ todo' = GetAllImsis
    /\ Goto(Drainer, IF GetAllImsis = {} THEN "done" ELSE "next")
    /\ UNCHANGED <<now, createdAt, journal, cdrHealthy, target, record, work,
                   victims, app, late, touched>>

\* Mutant of CheckActive: the IMSI stays in line until its session is gone.
CheckActiveKept(v) ==
    /\ pc[Drainer] = "next"
    /\ ~stopRequested
    /\ v \in todo
    /\ IF SessionExists(v)
       THEN /\ Goto(Drainer, "remove") /\ target' = [target EXCEPT ![Drainer] = v]
            /\ UNCHANGED todo
       ELSE Goto(Drainer, "count") /\ todo' = todo \ {v} /\ UNCHANGED target
    /\ UNCHANGED <<now, createdAt, journal, cdrHealthy, record, work, victims,
                   app, late, touched>>

\* isSessionActive, and the sessionExists check that opens removeSession.
CheckActive(v) ==
    /\ pc[Drainer] = "next"
    /\ ~stopRequested
    /\ v \in todo
    /\ todo' = todo \ {v}
    /\ IF SessionExists(v)
       THEN Goto(Drainer, "remove") /\ target' = [target EXCEPT ![Drainer] = v]
       ELSE Goto(Drainer, "count") /\ UNCHANGED target
    /\ UNCHANGED <<now, createdAt, journal, cdrHealthy, record, work, victims,
                   app, late, touched>>

\* Mutant of RemoveDrained: the result of removeSession is not looked at.
RemoveDrainedUnchecked ==
    /\ pc[Drainer] = "remove"
    /\ RemoveSession(target[Drainer])
    /\ late' = late \ {target[Drainer]}
    /\ GotoCdr(Drainer, target[Drainer], "graceful_shutdown")
    /\ UNCHANGED <<now, journal, cdrHealthy, work, victims, todo, app, touched>>

\* removeSession: the erase may find that the cleaner was faster.
RemoveDrained ==
    /\ pc[Drainer] = "remove"
    /\ RemoveSession(target[Drainer])
    /\ late' = late \ {target[Drainer]}
    /\ IF SessionExists(target[Drainer])
       THEN GotoCdr(Drainer, target[Drainer], "graceful_shutdown")
       ELSE /\ Goto(Drainer, "count")
            /\ target' = [target EXCEPT ![Drainer] = NoImsi]
            /\ UNCHANGED record
    /\ UNCHANGED <<now, journal, cdrHealthy, work, victims, todo, app, touched>>

DrainerCdr ==
    /\ pc[Drainer] = "cdr"
    /\ WriteCdr(target[Drainer], record[Drainer])
    /\ Goto(Drainer, "count")
    /\ target' = [target EXCEPT ![Drainer] = NoImsi]
    /\ record' = [record EXCEPT ![Drainer] = "none"]
    /\ UNCHANGED <<now, createdAt, work, victims, todo, app, late, touched>>

\* Mutant of CountRemaining: off by one.
CountRemainingOffByOne ==
    /\ pc[Drainer] = "count"
    /\ IF Cardinality(GetAllImsis) <= 1
       THEN Goto(Drainer, "done") /\ todo' = {}
       ELSE Goto(Drainer, "wait") /\ UNCHANGED todo
    /\ UNCHANGED <<now, createdAt, journal, cdrHealthy, target, record, work,
                   victims, app, late, touched>>

\* if (getActiveSessionsCount() == 0) break; else wait for the next turn.
CountRemaining ==
    /\ pc[Drainer] = "count"
    /\ IF GetAllImsis = {}
       THEN Goto(Drainer, "done") /\ todo' = {}
       ELSE Goto(Drainer, "wait") /\ UNCHANGED todo
    /\ UNCHANGED <<now, createdAt, journal, cdrHealthy, target, record, work,
                   victims, app, late, touched>>

DrainerWake ==
    /\ pc[Drainer] = "wait"
    /\ Goto(Drainer, "next")
    /\ UNCHANGED <<now, createdAt, journal, cdrHealthy, target, record, work,
                   victims, todo, app, late, touched>>

\* Mutant of CompleteShutdown: the shutdown waits until no session is left.
CompleteWhenEmpty ==
    /\ pc[Drainer] = "next"
    /\ GetAllImsis = {} \/ stopRequested
    /\ Goto(Drainer, "done")
    /\ UNCHANGED <<now, createdAt, journal, cdrHealthy, target, record, work,
                   victims, todo, app, late, touched>>

\* The loop ends, by exhaustion or by stop(); leftovers are only logged, and
\* _shutdownComplete is set in every case.
CompleteShutdown ==
    /\ pc[Drainer] = "next"
    /\ todo = {} \/ stopRequested
    /\ Goto(Drainer, "done")
    /\ UNCHANGED <<now, createdAt, journal, cdrHealthy, target, record, work,
                   victims, todo, app, late, touched>>

DrainerNext == Snapshot \/ (\E v \in Imsi : CheckActive(v)) \/ RemoveDrained
               \/ DrainerCdr \/ CountRemaining \/ DrainerWake \/ CompleteShutdown

-----------------------------------------------------------------------------
(* AppBootstrap::stopServices.  Each stop() joins its thread before the    *)
(* next one is called.  The stop() methods do not ask for a drain: that    *)
(* the deployed server begins to stop only when its drain is complete, or  *)
(* has none, is what AppLifecycle shows of it (ServerPhases), and what is  *)
(* assumed here unless StopMayInterrupt.                                   *)

StopUdp == /\ app = "running"
           /\ pc[Drainer] \in {"off", "done"} \/ StopMayInterrupt
           /\ app' = "stop_udp"

StopCleaner == /\ app = "stop_udp"
               /\ \A w \in Worker : pc[w] \in Free
               /\ app' = "stop_cleaner"

StopShutdown == /\ app = "stop_cleaner"
                /\ pc[Cleaner] = "done"
                /\ app' = "stop_shutdown"

Exit == /\ app = "stop_shutdown"
        /\ pc[Drainer] \in {"off", "done"}
        /\ app' = "stopped"

StopServices == /\ StopUdp \/ StopCleaner \/ StopShutdown \/ Exit
                /\ UNCHANGED <<now, createdAt, journal, cdrHealthy, ctl, work,
                               victims, todo, late, touched>>

Tick == /\ AdvanceClock
        /\ UNCHANGED <<createdAt, journal, cdrHealthy, ctl, work, victims,
                       todo, app, late, touched>>

Stopped == /\ app = "stopped"
           /\ UNCHANGED vars

Next == \/ \E w \in Worker : WorkerNext(w)
        \/ CleanerNext
        \/ InitiateShutdown
        \/ DrainerNext
        \/ StopServices
        \/ Tick
        \/ Stopped

\* The operating system schedules every thread; requests, the clock and the
\* decision to shut down are up to the environment, so they get no fairness.
Fairness ==
    /\ \A w \in Worker : WF_vars(CheckExists(w) \/ Refresh(w) \/ NewSession(w)
                                 \/ Add(w) \/ WorkerCdr(w) \/ Reply(w))
    /\ WF_vars(CleanerNext)
    /\ WF_vars(DrainerNext)
    /\ WF_vars(StopServices /\ app # "running")

Spec == Init /\ [][Next]_vars
FairSpec == Spec /\ Fairness

-----------------------------------------------------------------------------
(* Properties.                                                             *)

\* The variables have their types, and a thread has in hand what its position
\* requires: an IMSI to work on, the Session to store, the line to write.
HandTypeOK ==
    /\ \A w \in Worker :
          /\ pc[w] \notin Free => target[w] \in Imsi
          /\ pc[w] \in {"exists", "refresh", "new", "add"} => ~IsBlacklisted(target[w])
          /\ pc[w] = "add" => stamp[w] \in Nat
          /\ pc[w] = "cdr" => record[w] \in Opening \cup Refusal
    /\ pc[Cleaner] = "cdr" => target[Cleaner] \in Imsi /\ record[Cleaner] = "timeout"
    /\ pc[Drainer] \in {"remove", "cdr"} => target[Drainer] \in Imsi
    /\ pc[Drainer] = "cdr" => record[Drainer] = "graceful_shutdown"

TypeOK ==
    /\ RepoTypeOK
    /\ JournalTypeOK
    /\ pc \in [Thread -> WorkerPc \cup CleanerPc \cup DrainerPc]
    /\ \A w \in Worker : pc[w] \in WorkerPc
    /\ pc[Cleaner] \in CleanerPc
    /\ pc[Drainer] \in DrainerPc
    /\ target \in [Thread -> Imsi \cup {NoImsi}]
    /\ record \in [Thread -> CdrAction \cup {"none"}]
    /\ stamp \in [Worker -> Nat \cup {Absent}]
    /\ answer \in [Worker -> Answer]
    /\ victims \subseteq Imsi
    /\ todo \subseteq Imsi
    /\ late \subseteq Imsi
    /\ touched \subseteq Imsi
    /\ app \in AppPc
    /\ requests \in Nat
    /\ HandTypeOK

\* A thread whose next step is logCdr owes the line it is about to write.
NoDebt == <<NoImsi, "none">>
debt == [t \in Thread |-> IF pc[t] = "cdr" THEN <<target[t], record[t]>> ELSE NoDebt]

\* The threads implement the bookkeeping the ledger promises: createSession,
\* removeSession and cleanExpiredSessions each open or close a session and log
\* exactly that, in whatever order they interleave.
Ledger == INSTANCE SessionLedger WITH sessions <- GetAllImsis
LedgerRefined == Ledger!LedgerSpec

\* What a request thread has decided, as its client will read it.  That the
\* session is there is the decision; refreshing it comes after.
OnTheWire(a) == IF a = "error" THEN "rejected" ELSE a
serves  == [w \in Worker |-> IF pc[w] \in Free THEN NoImsi ELSE target[w]]
verdict == [w \in Worker |-> IF pc[w] = "refresh" THEN "created" ELSE OnTheWire(answer[w])]

\* createSession serves its callers as RequestService says, however many there
\* are and whatever is removed under their hands: who is told "created" had a
\* session at one moment, at least, between asking and being told.
Service == INSTANCE RequestService
           WITH Server <- Worker, Nobody <- NoImsi, sessions <- GetAllImsis
ServiceRefined == Service!ServiceSpec

\* The journal balances with the repository (see SessionLedger): although
\* removal and logging are separate steps, and two threads may go for the same
\* session, every session is logged as opened once and as closed once.
CdrBalanced == Ledger!Balanced

\* createSession checks the blacklist before anything else, so that a
\* blacklisted IMSI never reaches the repository.
BlacklistRespected == Ledger!BlacklistRespected

\* With the single request thread the server really has, addSession cannot
\* fail: nobody stores the session between sessionExists and addSession.
SoleWorkerNeverFails ==
    \A w \in Worker : (Worker = {w} /\ pc[w] \in {"new", "add"}) => ~SessionExists(target[w])

\* Once the shutdown thread has taken its snapshot, every session is one it has
\* still to visit, the one it is removing, or one stored since; and it completes
\* with a visit outstanding only if stop() has broken it off.
DrainCoversSnapshot ==
    /\ pc[Drainer] \notin {"off", "snapshot"} =>
           GetAllImsis \subseteq todo \cup late \cup
               (IF pc[Drainer] = "remove" THEN {target[Drainer]} ELSE {})
    /\ pc[Drainer] = "done" => todo = {} \/ stopRequested

\* The cleaner removes by IMSI, long after it looked: among the sessions it is
\* about to remove, one that is not expired has been refreshed or stored anew
\* since the sweep began.  No other live session is ever in danger.
VictimsExpiredOrTouched ==
    \A v \in victims : SessionExists(v) => IsExpired(v) \/ v \in touched

\* How many steps the shutdown thread still takes at most, and the cleaner until
\* its sweep is over.
DrainLeft == 6 * Cardinality(todo) + CASE pc[Drainer] = "remove" -> 5
                                       [] pc[Drainer] = "cdr"    -> 4
                                       [] pc[Drainer] = "count"  -> 3
                                       [] pc[Drainer] = "wait"   -> 2
                                       [] pc[Drainer] = "next"   -> 1
                                       [] OTHER                  -> 0
SweepLeft == 2 * Cardinality(victims) + CASE pc[Cleaner] = "cdr"  -> 2
                                          [] pc[Cleaner] = "next" -> 1
                                          [] OTHER                -> 0

\* A drain and a sweep get shorter with every step their thread takes and are
\* lengthened by nobody: not by requests that store or refresh what they are
\* about to remove, and not by each other.
DrainRunsOut ==
    [][pc[Drainer] \notin {"off", "snapshot"} =>
          /\ DrainLeft' <= DrainLeft
          /\ pc'[Drainer] # pc[Drainer] => DrainLeft' < DrainLeft]_vars
SweepRunsOut ==
    [][pc[Cleaner] \in {"next", "cdr"} =>
          /\ SweepLeft' <= SweepLeft
          /\ pc'[Cleaner] # pc[Cleaner] \/ victims' # victims => SweepLeft' < SweepLeft]_vars

\* An expired session does not stay: it is removed or refreshed, unless the
\* cleaner has been told to stop.
ExpiredSessionsGo ==
    \A i \in Imsi : (i \in GetExpiredSessions) ~> (i \notin GetExpiredSessions \/ ~cleanerRunning)

\* Every request is answered, whatever the other threads do to its session.
RequestsAnswered == \A w \in Worker : (pc[w] \notin Free) ~> (pc[w] \in Free)

\* A shutdown, once initiated, is reported complete even when clients keep
\* adding sessions: its work is bounded by the snapshot.
ShutdownCompletes == (pc[Drainer] # "off") ~> (pc[Drainer] = "done")

\* stopServices comes to its end: each thread it joins does terminate.
ServicesStop == (app # "running") ~> (app = "stopped")

-----------------------------------------------------------------------------
(* What the documentation says and the code does not keep: each of these   *)
(* is checked by a run of its own, which refutes it.                       *)

\* README, scenario 3: a repeated request finds the session, updates its time
\* and is answered "created".  The time of a session that the cleaner or the
\* shutdown thread took away after sessionExists is not updated, and the client
\* is told "created" all the same.
RepeatedRequestExtends ==
    [][\A w \in Worker :
          (pc[w] = "refresh" /\ answer'[w] = "created") => SessionExists(target[w])']_vars

\* README, scenario 4, and SessionManager.h: the cleaner removes expired
\* sessions.  It also removes one refreshed or stored after it looked.
TimeoutMeansExpired ==
    [][\A i \in Imsi :
          (pc[Cleaner] = "next" /\ pc'[Cleaner] = "cdr" /\ target'[Cleaner] = i)
              => IsExpired(i)]_vars

\* AppBootstrap::initiateShutdown logs, when the shutdown is complete, that all
\* sessions have been offloaded.  Requests are served until the UDP server is
\* stopped, and what they store after the snapshot stays.
CompleteMeansEmpty == (pc[Drainer] = "done" /\ ~stopRequested) => GetAllImsis = {}
=============================================================================
