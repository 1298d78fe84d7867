------------------------------ MODULE AppSignals ------------------------------
(***************************************************************************)
(* AppLifecycle with the log it writes.  Logger::log hands a message to    *)
(* spdlog, which drops it if it is below the level set, and otherwise      *)
(* holds the mutex of a sink while it writes.  A signal handler runs on    *)
(* top of the main thread, whatever the main thread is doing: in the       *)
(* middle of a log call it finds the mutex held by the very thread that    *)
(* it keeps from releasing it.                                             *)
(*                                                                         *)
(* That the thread interrupted is the main thread is AppLifecycle's        *)
(* assumption, so only its log calls take two steps here; what another     *)
(* thread writes, it writes in the step it belongs to, once the mutex is   *)
(* free.  A message written in the course of a step counts as written at   *)
(* its end.  The drain and the cleaner may have more to write than the     *)
(* messages of an orderly step (warnings and errors about sessions and     *)
(* CDRs): "troubled" are those that wait for the mutex with such a message *)
(* in hand, or for a lock held by a thread that does.                      *)
(***************************************************************************)
EXTENDS AppLifecycle

CONSTANT LevelText   \* what may stand for log_level in the configuration

\* LogLevel, with Nothing for a step that is silent and Off for a Logger that
\* could not open its file and is no longer _isHealthy.
Nothing == 0
DEBUG   == 1
INFO    == 2
WARN    == 3
ERROR   == 4
CRITICAL == 5
Off     == 6

VARIABLES
    threshold,   \* the level the Logger has been given
    log,         \* the main thread and the sink: "out" of any log call; "in"
                 \* one, with what runs on top; in one that lies "below" a
                 \* signal handler; or "stuck", the handler in one as well
    troubled     \* which of the drain and the cleaner wait for the sink with
                 \* a message of WARN or above

svars == <<vars, threshold, log, troubled>>

\* Logger::stringToLevel.
StringToLevel(s) == CASE s = "DEBUG"    -> DEBUG
                      [] s = "INFO"     -> INFO
                      [] s = "WARN"     -> WARN
                      [] s = "ERROR"    -> ERROR
                      [] s = "CRITICAL" -> CRITICAL
                      [] OTHER          -> INFO

\* Logger::log, behind spdlog's level.
Logs(severity) == severity # Nothing /\ severity >= threshold

\* initialize has installed the handlers and is about to return, or still logs.
SigInit == /\ Init
           /\ threshold \in {StringToLevel(s) : s \in LevelText} \cup {Off}
           /\ log = IF Logs(INFO) THEN "in" ELSE "out"
           /\ troubled = {}

-----------------------------------------------------------------------------
(* What the steps write: the most severe message of each.                  *)

\* run, and the start and stop methods it calls: what may be the most severe
\* message of the step that is being taken.  A start that failed has been logged
\* before _running is cleared.  SO_REUSEADDR may not be had: a warning between the
\* start of the cleaner and that of the UDP thread.
MainSays ==
    CASE mainPc' = "start_failed" -> {ERROR}
      [] mainPc = "start_cleaner" -> {INFO, WARN}
      [] mainPc' \in {"start_http", "poll"}
         \/ mainPc \in {"join_http", "join_udp", "stop_cleaner", "join_cleaner",
                        "stop_drain", "join_drain"} -> {INFO}
      [] OTHER -> {Nothing}

\* Mutant of CallSays: the first message of initiateShutdown is one for debugging.
CallSaysLess(c) ==
    CASE At(c, "enter")    -> DEBUG
      [] At(c, "exchange") -> IF inProgress THEN WARN ELSE INFO
      [] callPc[c] \in {"check", "lock"} /\ complete -> INFO
      [] OTHER -> Nothing

\* AppBootstrap::initiateShutdown and what it calls.
CallSays(c) ==
    CASE At(c, "enter")    -> IF running THEN INFO ELSE DEBUG
      [] At(c, "exchange") -> IF inProgress THEN WARN ELSE INFO
      [] callPc[c] \in {"check", "lock"} /\ complete -> INFO
      [] OTHER -> Nothing

\* The same, of a second handler.
RefusedSays == IF ~running THEN DEBUG ELSE IF inProgress THEN WARN ELSE INFO

\* A thread of its own gets to write when the main thread is out of the sink.
Heard(severity) == Logs(severity) => log = "out"

-----------------------------------------------------------------------------
(* The main thread and the handlers on top of it.                          *)

\* log of a step that says something with nothing held below, or on top of a
\* log call that has been interrupted.
Written(severity) == IF ~Logs(severity) THEN log ELSE IF log = "out" THEN "in" ELSE "stuck"

MainStep == /\ log = "out"
            /\ MainNext
            /\ \E severity \in MainSays : log' = Written(severity)
            /\ UNCHANGED <<threshold, troubled>>

EndLog == /\ log = "in"
          /\ log' = "out"
          /\ UNCHANGED <<vars, threshold, troubled>>

TakeSignal == /\ log \in {"out", "in"}
              /\ Signal
              /\ log' = IF log = "in" THEN "below" ELSE "out"
              /\ UNCHANGED <<threshold, troubled>>

\* Mutant of HandlerStep: what lay below is forgotten.
HandlerStepForgets ==
    /\ log \in {"out", "below"}
    /\ CallerNext(Main)
    /\ log' = Written(CallSays(Main))
    /\ UNCHANGED <<threshold, troubled>>

\* One step of the handler.  When it returns, the log call it lay on goes on.
HandlerStep ==
    /\ log \in {"out", "below"}
    /\ CallerNext(Main)
    /\ log' = IF Written(CallSays(Main)) = "below" /\ callPc'[Main] = "idle"
              THEN "in" ELSE Written(CallSays(Main))
    /\ UNCHANGED <<threshold, troubled>>

\* The other of the two signals, on top of the handler of the first.
TakeNested ==
    /\ ~At(Main, "idle")
    /\ IF log \in {"in", "below"} /\ Logs(RefusedSays)
       THEN log' = "stuck" /\ UNCHANGED vars
       ELSE log # "stuck" /\ RefusedSignal /\ UNCHANGED log
    /\ UNCHANGED <<threshold, troubled>>

-----------------------------------------------------------------------------
(* The other threads.                                                      *)

Unwritten == UNCHANGED <<threshold, log>>

\* The thread has no warning to write first, or gets to write it.
Untroubled(thread) == /\ thread \in troubled => log = "out"
                      /\ troubled' = troubled \ {thread}

StopperStep == /\ \E c \in Stopper : Heard(CallSays(c)) /\ CallerNext(c)
               /\ Unwritten /\ UNCHANGED troubled

\* Nobody announces the store, and the notification between it and the last message.
DrainStep == /\ \/ Heard(INFO) /\ DrainComplete /\ Untroubled("drain")
                \/ DrainNotify /\ UNCHANGED troubled
                \/ Heard(INFO) /\ DrainEnds /\ UNCHANGED troubled
             /\ Unwritten

CleanerStep == /\ \/ Heard(DEBUG) /\ CleanerLoop /\ Untroubled("cleaner")
                  \/ CleanerSleep /\ UNCHANGED troubled
                  \/ CleanerTimeout /\ UNCHANGED troubled
               /\ Unwritten

\* listen's thread announces itself, or its failure.
HttpStep == /\ \/ /\ HttpListen
                  /\ Heard(IF httpPc' = "failed" THEN ERROR ELSE INFO)
               \/ HttpListenEnds
            /\ Unwritten /\ UNCHANGED troubled

ServiceStep == \/ DrainStep
               \/ HttpStep
               \/ UdpLoopEnds /\ Unwritten /\ UNCHANGED troubled

\* The drain, or a sweep, comes to a session that cannot be removed, a CDR that
\* cannot be written or sessions that are left (none where UDP never served),
\* while the main thread holds the sink.
Trouble == /\ Logs(CRITICAL)
           /\ log \in {"in", "below"}
           /\ udpPc # "none"
           /\ \E thread \in {"drain", "cleaner"} \ troubled :
                 /\ thread = "drain"   => drainPc = "drain"
                 /\ thread = "cleaner" => cleanerPc = "loop" /\ cleanerRunning
                 /\ troubled' = troubled \cup {thread}
           /\ Unwritten /\ UNCHANGED vars

\* A signal during a drain, taken by one of the other threads.
TakeElsewhere == Heard(RefusedSays) /\ RefusedSignal

\* What nobody can count on.
OutsideStep == \/ Trouble
               \/ /\ \/ \E c \in Stopper : Heard(INFO) /\ StopRequest(c)
                     \/ \E c \in Caller : (c = Main => log # "stuck") /\ SpuriousWakeup(c)
                     \/ Heard(ERROR) /\ UdpLoopBreaks
                     \/ TakeElsewhere
                  /\ Unwritten /\ UNCHANGED troubled

\* run() has returned, or never will.
Over == /\ log = "stuck" \/ (log = "out" /\ mainPc = "exited")
        /\ UNCHANGED svars

SigNext == \/ MainStep \/ EndLog
           \/ TakeSignal \/ HandlerStep \/ TakeNested
           \/ StopperStep \/ ServiceStep \/ CleanerStep \/ OutsideStep
           \/ Over

\* As in AppLifecycle.  The main thread gets on, and to the end of a log call,
\* however often signals interrupt it, and the others get the mutex of a sink
\* that is free again and again (SF).  The services' last steps come in turn.
SigFairness == /\ SF_svars(MainStep)
               /\ SF_svars(EndLog)
               /\ WF_svars(HandlerStep)
               /\ SF_svars(StopperStep)
               /\ SF_svars(ServiceStep)
               /\ SF_svars(CleanerStep)

SigSpec == SigInit /\ [][SigNext]_svars
FairSigSpec == SigSpec /\ SigFairness

-----------------------------------------------------------------------------
(* Properties.                                                             *)

\* The mutex is held for a message that passed the level, a call lies below a
\* handler only while there is one, and nobody is troubled who does not run.
SigTypeOK == /\ threshold \in DEBUG..Off
             /\ log \in {"out", "in", "below", "stuck"}
             /\ troubled \subseteq {"drain", "cleaner"}
             /\ log # "out" => Logs(ERROR)
             /\ log = "below" => ~At(Main, "idle")
             /\ "drain" \in troubled => drainPc = "drain"
             /\ "cleaner" \in troubled => cleanerPc = "loop"

\* Nowhere but in a start that fails does the main thread hold the sink against a
\* drain it waits for: a handler gets past its first message with the sink held
\* below only if that message is not written, so on top of a warning or an error,
\* and before the failure there is no drain that has anything to warn of.
SinkHeldAtStartOnly ==
    log = "below" /\ callPc[Main] \notin {"idle", "enter"} =>
        /\ ~Logs(INFO)
        /\ mainPc \in {"start_udp", "start_failed"}
        /\ "drain" \in troubled => mainPc = "start_failed"

\* There it does: the handler waits for the drain, and the drain for the sink.
SinkCircle == /\ log = "below"
              /\ callPc[Main] \in {"check", "lock", "armed", "waiting"}
              /\ "drain" \in troubled

\* A signal or /stop that finds run() entered ends the program, whatever others
\* come before and after it and whichever service fails, unless a call came too
\* early, a handler hangs in the log, or the drain it waits for does.  (One that
\* comes before run() is dropped.)
StopHonoured ==
    (mainPc # "boot" /\ \E c \in Caller : At(c, "enter"))
        ~> \/ mainPc = "exited"
           \/ NotifiedTooEarly \/ StoppedTooEarly
           \/ log = "stuck" \/ SinkCircle

\* A run that could not start its services ends by itself.
FailedStartExits ==
    mainPc = "start_failed" ~> (mainPc = "exited" \/ inProgress \/ log = "stuck")

-----------------------------------------------------------------------------
(* What a comment says and the code does not keep.                         *)

\* AppBootstrap.h: initiateShutdown begins a graceful end of the program, and
\* the signal handler calls it at any moment of the main thread; that holds not
\* even at the level a server has that was given none.
HandlerNeverHangs == threshold = INFO => log # "stuck"
===============================================================================
