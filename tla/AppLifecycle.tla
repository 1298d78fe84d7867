---------------------------- MODULE AppLifecycle ----------------------------
(***************************************************************************)
(* AppBootstrap and the threads it starts and joins: the main thread       *)
(* (run, startServices, stopServices), the callers of initiateShutdown     *)
(* (HTTP /stop handlers, and the signal handler, which runs on the main    *)
(* thread), the shutdown thread with its condition variable, the cleaner   *)
(* with its own, the UDP thread and the HTTP listener.                     *)
(*                                                                         *)
(* What the threads do to sessions is SessionLifecycle's subject; here the *)
(* drain is one stretch of work that ends by itself.                       *)
(*                                                                         *)
(* A condition variable is modelled by its three moments: the predicate is *)
(* evaluated ("lock"), found false ("armed"), and the thread is put to     *)
(* sleep ("waiting").  notify_all reaches only threads that sleep.  No     *)
(* notifier in this code holds the mutex, so it may act in between.        *)
(*                                                                         *)
(* Assumed of the system the program runs on, which may choose any thread  *)
(* for the handler of a signal, as none blocks it: as long as no drain has *)
(* begun it chooses the main thread.  Once one has, a signal is refused,   *)
(* and may be on any thread (RefusedSignal).                               *)
(***************************************************************************)
EXTENDS Naturals

CONSTANTS Stopper,   \* HTTP /stop requests, each handled by a thread
          Main       \* the main thread

ASSUME MainAssumption == Main \notin Stopper

Caller == Stopper \cup {Main}

VARIABLES
    mainPc,          \* run(), from before its start to its return
    running,         \* AppBootstrap::_running
    callPc,          \* each caller's place in AppBootstrap::initiateShutdown
    inProgress,      \* GracefulShutdownManager::_shutdownInProgress
    complete,        \* _shutdownComplete
    stopRequested,   \* _stopRequested
    drainPc,         \* _shutdownThread
    cleanerPc,       \* SessionCleaner::_cleanerThread
    cleanerRunning,  \* SessionCleaner::_running
    udpPc,           \* UdpServer::_serverThread
    udpRunning,      \* UdpServer::_running
    httpPc,          \* HttpServer::_serverThread
    httpRunning,     \* HttpServer::_running
    httpStopped      \* httplib::Server::stop has reached a listening server

app     == <<mainPc, running>>
manager == <<inProgress, complete, stopRequested, drainPc>>
cleaner == <<cleanerPc, cleanerRunning>>
udp     == <<udpPc, udpRunning>>
http    == <<httpPc, httpRunning, httpStopped>>
vars    == <<app, callPc, manager, cleaner, udp, http>>

Starting == {"start_cleaner", "start_udp", "start_http", "await_http", "start_failed"}
StoppingHttp == {"stop_http", "join_http"}
StoppingRest == {"stop_udp", "join_udp", "stop_cleaner", "join_cleaner",
                 "stop_drain", "join_drain"}
MainPc == {"boot", "poll", "exited"} \cup Starting \cup StoppingHttp \cup StoppingRest
CallPc == {"idle", "enter", "exchange", "check", "lock", "armed", "waiting",
           "clear", "done"}

FlagTypes ==
    /\ running \in BOOLEAN
    /\ inProgress \in BOOLEAN /\ complete \in BOOLEAN /\ stopRequested \in BOOLEAN
    /\ cleanerRunning \in BOOLEAN /\ udpRunning \in BOOLEAN
    /\ httpRunning \in BOOLEAN /\ httpStopped \in BOOLEAN

PlaceTypes ==
    /\ mainPc \in MainPc
    /\ callPc \in [Caller -> CallPc]
    /\ drainPc \in {"none", "drain", "notify", "notified", "ended", "joined"}
    /\ cleanerPc \in {"none", "loop", "lock", "armed", "waiting", "ended", "joined"}
    /\ udpPc \in {"none", "serving", "ended", "joined"}
    /\ httpPc \in {"none", "binding", "listening", "failed", "ended", "joined"}

\* What a flag says of the thread it belongs to.
FlagsAgree ==
    /\ inProgress <=> drainPc # "none"
    /\ complete <=> drainPc \in {"notify", "notified", "ended", "joined"}
    /\ cleanerRunning => cleanerPc \in {"loop", "lock", "armed", "waiting"}

TypeOK == FlagTypes /\ PlaceTypes /\ FlagsAgree

Init == /\ mainPc = "boot"
        /\ running = FALSE
        /\ callPc = [c \in Caller |-> "idle"]
        /\ inProgress = FALSE /\ complete = FALSE /\ stopRequested = FALSE
        /\ drainPc = "none"
        /\ cleanerPc = "none" /\ cleanerRunning = FALSE
        /\ udpPc = "none" /\ udpRunning = FALSE
        /\ httpPc = "none" /\ httpRunning = FALSE /\ httpStopped = FALSE

-----------------------------------------------------------------------------
(* AppBootstrap::initiateShutdown, in the thread of caller c.              *)

At(c, l) == callPc[c] = l

Move(c, l) == callPc' = [callPc EXCEPT ![c] = l]

\* notify_all on _shutdownCondition: sleepers re-evaluate their predicate.
NotifyCallers ==
    callPc' = [c \in Caller |-> IF callPc[c] = "waiting" THEN "lock" ELSE callPc[c]]

Return(c) == Move(c, IF c = Main THEN "idle" ELSE "done")

\* GET /stop reaches a listening server.
StopRequest(c) ==
    /\ c \in Stopper
    /\ httpPc = "listening" /\ ~httpStopped
    /\ At(c, "idle")
    /\ Move(c, "enter")
    /\ UNCHANGED <<app, manager, cleaner, udp, http>>

\* SIGINT or SIGTERM on the main thread: the handler has been installed before
\* run() is called, and keeps the main thread from going on.
Signal ==
    /\ mainPc # "exited"
    /\ At(Main, "idle")
    /\ Move(Main, "enter")
    /\ UNCHANGED <<app, manager, cleaner, udp, http>>

\* A signal during a drain, be it on top of the handler that waits for it (the
\* other of the two signals) or on another thread (the same signal, which the
\* main thread blocks meanwhile): initiateShutdown is refused, and this second
\* handler clears _running.
RefusedSignal ==
    /\ inProgress
    /\ running
    /\ running' = FALSE
    /\ UNCHANGED <<mainPc, callPc, manager, cleaner, udp, http>>

\* Mutant of Enter: _running is not looked at.
EnterAnyTime(c) ==
    /\ At(c, "enter")
    /\ Move(c, "exchange")
    /\ UNCHANGED <<app, manager, cleaner, udp, http>>

\* if (!_running.load()) return;
Enter(c) ==
    /\ At(c, "enter")
    /\ IF running THEN Move(c, "exchange") ELSE Return(c)
    /\ UNCHANGED <<app, manager, cleaner, udp, http>>

\* Mutant of Exchange: whoever calls goes on to wait.
ExchangeUnchecked(c) ==
    /\ At(c, "exchange")
    /\ inProgress' = TRUE
    /\ Move(c, "check")
    /\ drainPc' = IF inProgress THEN drainPc ELSE "drain"
    /\ UNCHANGED <<app, complete, stopRequested, cleaner, udp, http>>

\* GracefulShutdownManager::initiateShutdown: the first caller starts the
\* thread and goes on to waitForCompletion, the others are refused.
Exchange(c) ==
    /\ At(c, "exchange")
    /\ inProgress' = TRUE
    /\ IF inProgress
       THEN Move(c, "clear") /\ UNCHANGED drainPc
       ELSE Move(c, "check") /\ drainPc' = "drain"
    /\ UNCHANGED <<app, complete, stopRequested, cleaner, udp, http>>

\* waitForCompletion's early return, and the predicate of its wait.
CheckComplete(c) ==
    /\ callPc[c] \in {"check", "lock"}
    /\ Move(c, IF complete THEN "clear" ELSE IF At(c, "check") THEN "lock" ELSE "armed")
    /\ UNCHANGED <<app, manager, cleaner, udp, http>>

Sleep(c) ==
    /\ At(c, "armed")
    /\ Move(c, "waiting")
    /\ UNCHANGED <<app, manager, cleaner, udp, http>>

\* The standard allows it; nothing makes it happen.
SpuriousWakeup(c) ==
    /\ At(c, "waiting")
    /\ Move(c, "lock")
    /\ UNCHANGED <<app, manager, cleaner, udp, http>>

\* Mutant of ClearRunning: _running is not cleared.
ClearRunningForgotten(c) ==
    /\ At(c, "clear")
    /\ Return(c)
    /\ UNCHANGED <<app, manager, cleaner, udp, http>>

ClearRunning(c) ==
    /\ At(c, "clear")
    /\ running' = FALSE
    /\ Return(c)
    /\ UNCHANGED <<mainPc, manager, cleaner, udp, http>>

CallerNext(c) == \/ Enter(c) \/ Exchange(c) \/ CheckComplete(c) \/ Sleep(c)
                 \/ ClearRunning(c)

-----------------------------------------------------------------------------
(* The threads.                                                            *)

\* Mutant of DrainComplete: _shutdownComplete is not set.
DrainUncompleted ==
    /\ drainPc = "drain"
    /\ drainPc' = "notify"
    /\ UNCHANGED <<app, callPc, inProgress, complete, stopRequested, cleaner, udp, http>>

\* shutdownWorker: _shutdownComplete is stored first and notified next, and
\* _shutdownMutex is held for neither.
DrainComplete ==
    /\ drainPc = "drain"
    /\ complete' = TRUE
    /\ drainPc' = "notify"
    /\ UNCHANGED <<app, callPc, inProgress, stopRequested, cleaner, udp, http>>

DrainNotify ==
    /\ drainPc = "notify"
    /\ NotifyCallers
    /\ drainPc' = "notified"
    /\ UNCHANGED <<app, inProgress, complete, stopRequested, cleaner, udp, http>>

\* One more message, and the thread is at its end.
DrainEnds ==
    /\ drainPc = "notified"
    /\ drainPc' = "ended"
    /\ UNCHANGED <<app, callPc, inProgress, complete, stopRequested, cleaner, udp, http>>

\* Mutant of CleanerLoop: while (true).
CleanerLoopForEver ==
    /\ cleanerPc \in {"loop", "lock"}
    /\ cleanerPc' = IF cleanerPc = "loop" THEN "lock" ELSE "armed"
    /\ UNCHANGED <<app, callPc, manager, cleanerRunning, udp, http>>

\* cleanerWorker: while (_running) { clean; wait_for(interval, !_running) }
CleanerLoop ==
    /\ cleanerPc \in {"loop", "lock"}
    /\ cleanerPc' = IF cleanerPc = "loop"
                    THEN (IF cleanerRunning THEN "lock" ELSE "ended")
                    ELSE (IF cleanerRunning THEN "armed" ELSE "loop")
    /\ UNCHANGED <<app, callPc, manager, cleanerRunning, udp, http>>

CleanerSleep ==
    /\ cleanerPc = "armed"
    /\ cleanerPc' = "waiting"
    /\ UNCHANGED <<app, callPc, manager, cleanerRunning, udp, http>>

\* cleanup_interval_sec has passed.
CleanerTimeout ==
    /\ cleanerPc = "waiting"
    /\ cleanerPc' = "loop"
    /\ UNCHANGED <<app, callPc, manager, cleanerRunning, udp, http>>

\* serverLoop sees the flag within one epoll timeout.
UdpLoopEnds ==
    /\ udpPc = "serving"
    /\ ~udpRunning
    /\ udpPc' = "ended"
    /\ UNCHANGED <<app, callPc, manager, cleaner, udpRunning, http>>

\* epoll_wait fails: the loop is left, and _running is not told.
UdpLoopBreaks ==
    /\ udpPc = "serving"
    /\ udpPc' = "ended"
    /\ UNCHANGED <<app, callPc, manager, cleaner, udpRunning, http>>

\* server->listen binds and serves, or fails and clears _running.
HttpListen ==
    /\ httpPc = "binding"
    /\ \/ httpPc' = "listening" /\ UNCHANGED httpRunning
       \/ httpPc' = "failed" /\ httpRunning' = FALSE
    /\ UNCHANGED <<app, callPc, manager, cleaner, udp, httpStopped>>

\* Mutant of HttpListenEnds: handlers are left to themselves.
HttpListenEndsAtOnce ==
    /\ httpPc = "listening"
    /\ httpStopped
    /\ httpPc' = "ended"
    /\ UNCHANGED <<app, callPc, manager, cleaner, udp, httpRunning, httpStopped>>

\* listen returns once it has been stopped and the handlers have finished.
HttpListenEnds ==
    /\ httpPc = "listening"
    /\ httpStopped
    /\ \A c \in Stopper : callPc[c] \in {"idle", "done"}
    /\ httpPc' = "ended"
    /\ UNCHANGED <<app, callPc, manager, cleaner, udp, httpRunning, httpStopped>>

-----------------------------------------------------------------------------
(* The main thread.                                                        *)

\* Main is at l, and no signal handler runs on it.
MainAt(l) == mainPc = l /\ At(Main, "idle")

MainGoto(l) == mainPc' = l

Run == /\ MainAt("boot")
       /\ running' = TRUE
       /\ MainGoto("start_cleaner")
       /\ UNCHANGED <<callPc, manager, cleaner, udp, http>>

StartCleaner == /\ MainAt("start_cleaner")
                /\ cleanerRunning' = TRUE
                /\ cleanerPc' = "loop"
                /\ MainGoto("start_udp")
                /\ UNCHANGED <<running, callPc, manager, udp, http>>

\* UdpServer::start: the socket may not bind; startServices throws.
StartUdp == /\ MainAt("start_udp")
            /\ \/ /\ udpRunning' = TRUE
                  /\ udpPc' = "serving"
                  /\ MainGoto("start_http")
               \/ MainGoto("start_failed") /\ UNCHANGED udp
            /\ UNCHANGED <<running, callPc, manager, cleaner, http>>

\* HttpServer::start: the thread is started, and _running read 100 ms later,
\* whether or not listen has made up its mind.
StartHttp == /\ MainAt("start_http")
             /\ httpRunning' = TRUE
             /\ httpPc' = "binding"
             /\ MainGoto("await_http")
             /\ UNCHANGED <<running, callPc, manager, cleaner, udp, httpStopped>>

AwaitHttp == /\ MainAt("await_http")
             /\ MainGoto(IF httpRunning THEN "poll" ELSE "start_failed")
             /\ UNCHANGED <<running, callPc, manager, cleaner, udp, http>>

\* catch in run(): the error has been logged, and _running is cleared after that.
StartFails == /\ MainAt("start_failed")
              /\ running' = FALSE
              /\ MainGoto("stop_http")
              /\ UNCHANGED <<callPc, manager, cleaner, udp, http>>

\* while (_running) sleep; then stopServices.
Poll == /\ MainAt("poll")
        /\ ~running
        /\ MainGoto("stop_http")
        /\ UNCHANGED <<running, callPc, manager, cleaner, udp, http>>

\* HttpServer::stop returns at once, without a join, when _running is false.
\* httplib's stop does nothing to a server that does not listen yet.
StopHttp == /\ MainAt("stop_http")
            /\ IF httpRunning
               THEN /\ httpRunning' = FALSE
                    /\ httpStopped' = (httpPc = "listening")
                    /\ MainGoto("join_http")
               ELSE UNCHANGED <<httpRunning, httpStopped>> /\ MainGoto("stop_udp")
            /\ UNCHANGED <<running, callPc, manager, cleaner, udp, httpPc>>

JoinHttp == /\ MainAt("join_http")
            /\ httpPc \in {"ended", "failed"}
            /\ httpPc' = "joined"
            /\ MainGoto("stop_udp")
            /\ UNCHANGED <<running, callPc, manager, cleaner, udp, httpRunning, httpStopped>>

StopUdp == /\ MainAt("stop_udp")
           /\ udpRunning' = FALSE
           /\ MainGoto(IF udpRunning THEN "join_udp" ELSE "stop_cleaner")
           /\ UNCHANGED <<running, callPc, manager, cleaner, udpPc, http>>

JoinUdp == /\ MainAt("join_udp")
           /\ udpPc = "ended"
           /\ udpPc' = "joined"
           /\ MainGoto("stop_cleaner")
           /\ UNCHANGED <<running, callPc, manager, cleaner, udpRunning, http>>

\* SessionCleaner::stop: flag, then notify_all, both without the mutex.
StopCleaner == /\ MainAt("stop_cleaner")
               /\ IF cleanerRunning
                  THEN /\ cleanerRunning' = FALSE
                       /\ MainGoto("join_cleaner")
                       /\ cleanerPc' = IF cleanerPc = "waiting" THEN "loop" ELSE cleanerPc
                  ELSE MainGoto("stop_drain") /\ UNCHANGED cleaner
               /\ UNCHANGED <<running, callPc, manager, udp, http>>

JoinCleaner == /\ MainAt("join_cleaner")
               /\ cleanerPc = "ended"
               /\ cleanerPc' = "joined"
               /\ MainGoto("stop_drain")
               /\ UNCHANGED <<running, callPc, manager, cleanerRunning, udp, http>>

\* Mutant of StopDrain: the thread is not joined.
StopDrainUnjoined ==
    /\ MainAt("stop_drain")
    /\ stopRequested' = TRUE
    /\ NotifyCallers
    /\ MainGoto("exited")
    /\ UNCHANGED <<running, inProgress, complete, drainPc, cleaner, udp, http>>

\* GracefulShutdownManager::stop: joins the thread if there is one.
StopDrain == /\ MainAt("stop_drain")
             /\ stopRequested' = TRUE
             /\ NotifyCallers
             /\ MainGoto(IF drainPc = "none" THEN "exited" ELSE "join_drain")
             /\ UNCHANGED <<running, inProgress, complete, drainPc, cleaner, udp, http>>

JoinDrain == /\ MainAt("join_drain")
             /\ drainPc = "ended"
             /\ drainPc' = "joined"
             /\ MainGoto("exited")
             /\ UNCHANGED <<running, callPc, inProgress, complete, stopRequested,
                            cleaner, udp, http>>

MainNext == \/ Run \/ StartCleaner \/ StartUdp \/ StartHttp \/ AwaitHttp \/ StartFails
            \/ Poll \/ StopHttp \/ JoinHttp \/ StopUdp \/ JoinUdp \/ StopCleaner
            \/ JoinCleaner \/ StopDrain \/ JoinDrain

Exited == mainPc = "exited" /\ UNCHANGED vars

Next == \/ MainNext
        \/ \E c \in Caller : StopRequest(c) \/ CallerNext(c) \/ SpuriousWakeup(c)
        \/ Signal \/ RefusedSignal
        \/ DrainComplete \/ DrainNotify \/ DrainEnds
        \/ CleanerLoop \/ CleanerSleep \/ CleanerTimeout
        \/ UdpLoopEnds \/ UdpLoopBreaks
        \/ HttpListen \/ HttpListenEnds
        \/ Exited

\* Every thread that can go on does, and the interval of the cleaner passes.
\* The main thread gets on however often signals interrupt it (SF).  Signals,
\* /stop requests, spurious wakeups and epoll errors may never come.
Fairness == /\ SF_vars(MainNext)
            /\ \A c \in Caller : WF_vars(CallerNext(c))
            /\ WF_vars(DrainComplete \/ DrainNotify \/ DrainEnds)
            /\ WF_vars(CleanerLoop \/ CleanerSleep \/ CleanerTimeout)
            /\ WF_vars(UdpLoopEnds)
            /\ WF_vars(HttpListen \/ HttpListenEnds)

Spec == Init /\ [][Next]_vars
FairSpec == Spec /\ Fairness

-----------------------------------------------------------------------------
(* Properties.                                                             *)

\* stopServices never overtakes a drain: whoever started it still waits for it,
\* on the main thread or in an HTTP handler that HttpServer::stop joins.  So
\* requests are served, and _stopRequested stays false, until it is complete,
\* even if a second /stop or signal clears _running early.
DrainNeverCutShort ==
    inProgress /\ ~complete => mainPc \notin StoppingRest \cup {"exited"}

\* Drain and stop follow on each other as ServerPhases says: no call, signal or
\* failed start begins a drain once the services are being stopped, or begins a
\* second one, or stops them while one runs.
drainPhase == CASE drainPc = "none"  -> "none"
                [] drainPc = "drain" -> "running"
                [] OTHER             -> "complete"
servicePhase == CASE mainPc \in StoppingRest -> "stopping"
                  [] mainPc = "exited"      -> "down"
                  [] OTHER                  -> "up"
Phases == INSTANCE ServerPhases WITH drain <- drainPhase, services <- servicePhase
PhasesRefined == Phases!PhaseSpec

\* run() returns with every thread joined, but for an HTTP listener that failed.
OnlyFailedListenerLeaks ==
    mainPc = "exited" => /\ {drainPc, cleanerPc, udpPc} \subseteq {"none", "joined"}
                         /\ httpPc \in {"none", "joined", "failed"}

\* A caller that has been told of the completion, or refused, gets away: only
\* the one caller that started the drain can sleep.
OneSleeper ==
    \A c, d \in Caller :
        callPc[c] \in {"check", "lock", "armed", "waiting"} /\
        callPc[d] \in {"check", "lock", "armed", "waiting"} => c = d

\* Whoever sleeps while the drain goes on sleeps on a drain that has begun.
CallersServed == \A c \in Caller : At(c, "waiting") /\ ~complete => drainPc = "drain"

\* A shutdown that has been accepted is not forgotten: as long as _running is
\* set, a caller is on its way to clear it.
StopRemembered ==
    inProgress /\ running =>
        \E c \in Caller : callPc[c] \in {"check", "lock", "armed", "waiting", "clear"}

\* What stopServices joins has been started and told to end, and is not joined
\* twice.
JoinsEnd ==
    /\ mainPc = "join_http"    => httpPc \notin {"none", "joined"} /\ ~httpRunning
    /\ mainPc = "join_udp"     => udpPc \in {"serving", "ended"} /\ ~udpRunning
    /\ mainPc = "join_cleaner" => cleanerPc \notin {"none", "joined"} /\ ~cleanerRunning
    /\ mainPc = "join_drain"   => drainPc \in {"notify", "notified", "ended"}

\* Nobody waits in a circle: the waits of main, of a listener that is stopped,
\* of its handlers and of the signal handler end in a thread that waits for
\* nobody.  (It may get there too late: the two calls below.)
WaitsEnd == CallersServed /\ StopRemembered /\ JoinsEnd

\* A notification that came too early, before its waiter slept, is lost for good:
\* GracefulShutdownManager::stop notifies once more, but only after everybody who
\* might sleep has been joined.
Forgotten(c) == At(c, "waiting") /\ drainPc \in {"notified", "ended"}
OnlyChanceWakes == [][\A c \in Caller : Forgotten(c) => Forgotten(c)' \/ SpuriousWakeup(c)]_vars

\* The two calls that come too early: the only notification, when its waiter
\* does not sleep yet, and the stop of the HTTP server, when it does not listen.
NotifiedTooEarly == \E c \in Caller : Forgotten(c)
StoppedTooEarly  == mainPc = "join_http" /\ httpPc = "listening" /\ ~httpStopped

-----------------------------------------------------------------------------
(* What comments and messages say and the code does not keep.              *)

\* GracefulShutdownManager.h gives waitForCompletion a timeout, and the README
\* a shutdown_timeout_sec: a shutdown ends (where the stop of the HTTP server is
\* not lost).  There is no timeout, and the one notification can come between
\* the predicate and the sleep.
ShutdownExits == inProgress ~> (mainPc = "exited" \/ StoppedTooEarly)

\* HttpServer.h: the destructor stops the server.  stop() returns without a
\* join once listen has failed, and the destructor of a joinable std::thread
\* terminates the program.
ThreadsJoinedAtExit ==
    mainPc = "exited" => {drainPc, cleanerPc, udpPc, httpPc} \subseteq {"none", "joined"}
=============================================================================
