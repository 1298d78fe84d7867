--------------------------- MODULE AppSignalsProofs ---------------------------
(***************************************************************************)
(* What is proved of AppLifecycle's threads holds of the server with its   *)
(* log; and where the main thread can hold the sink of the log while it    *)
(* waits for a drain.                                                      *)
(***************************************************************************)
EXTENDS AppSignals, AppLifecycleProofs

-----------------------------------------------------------------------------
(* Every step is one of AppLifecycle or leaves its variables alone.        *)

LEMMA StepImplemented == ASSUME [SigNext]_svars PROVE [Next]_vars
<1>1. CASE MainStep
  BY <1>1 DEF MainStep, Next
<1>2. CASE EndLog
  BY <1>2 DEF EndLog
<1>3. CASE TakeSignal
  BY <1>3 DEF TakeSignal, Next
<1>4. CASE HandlerStep
  BY <1>4 DEF HandlerStep, Next, Caller
<1>5. CASE TakeNested
  BY <1>5 DEF TakeNested, Next
<1>6. CASE StopperStep
  BY <1>6 DEF StopperStep, Next, Caller
<1>7. CASE ServiceStep
  BY <1>7 DEF ServiceStep, DrainStep, HttpStep, Next
<1>8. CASE CleanerStep
  BY <1>8 DEF CleanerStep, Next
<1>9. CASE OutsideStep
  BY <1>9 DEF OutsideStep, Trouble, TakeElsewhere, Next, Caller
<1>10. CASE Over \/ UNCHANGED svars
  BY <1>10 DEF Over, svars
<1> QED
  BY <1>1, <1>2, <1>3, <1>4, <1>5, <1>6, <1>7, <1>8, <1>9, <1>10 DEF SigNext

LEMMA SpecImplemented == SigSpec => Spec
<1>1. SigInit => Init
  BY DEF SigInit
<1> QED
  BY <1>1, StepImplemented, PTL DEF SigSpec, Spec

\* What AppLifecycle promises of drains, threads and waiters, the server with
\* its log and its signals keeps, hung or not.
THEOREM ServerSafe ==
    SigSpec => [](TypeOK /\ DrainNeverCutShort /\ OneSleeper /\ OnlyFailedListenerLeaks)
  BY SpecImplemented, AppTypeCorrect, DrainUninterrupted, SoleWaiter, ThreadsJoined, PTL

\* Drain and stop follow on each other as ServerPhases says also where signals
\* interrupt log calls, and up to the moment where one of them hangs.
THEOREM SignalledPhases == SigSpec => PhasesRefined
  BY SpecImplemented, AppPhases, PTL

\* A missed notification is not made up for by any of the signals either.
THEOREM SignalledLost == SigSpec => OnlyChanceWakes
  BY SpecImplemented, LostForGood, PTL

-----------------------------------------------------------------------------
(* The mutex of the sink.                                                  *)

UdpUnstarted == mainPc \in {"boot", "start_cleaner", "start_udp"} => udpPc = "none"

LEMMA UdpUnstartedHolds == SigSpec => []UdpUnstarted
<1>1. Init => UdpUnstarted
  BY DEF Init, UdpUnstarted
<1>2. UdpUnstarted /\ [Next]_vars => UdpUnstarted'
  <2> SUFFICES ASSUME UdpUnstarted, [Next]_vars PROVE UdpUnstarted'
    OBVIOUS
  <2> USE DEF UdpUnstarted, app, udp
  <2>1. CASE MainNext
    BY <2>1 DEF MainNext, MainAt, MainGoto, Run, StartCleaner, StartUdp, StartHttp, AwaitHttp,
       StartFails, Poll, StopHttp, JoinHttp, StopUdp, JoinUdp, StopCleaner, JoinCleaner,
       StopDrain, JoinDrain
  <2>2. CASE \E c \in Caller : StopRequest(c) \/ CallerNext(c) \/ SpuriousWakeup(c)
    BY <2>2 DEF StopRequest, CallerNext, Enter, Exchange, CheckComplete, Sleep, ClearRunning,
       SpuriousWakeup
  <2>3. CASE Signal \/ RefusedSignal \/ DrainComplete \/ DrainNotify \/ DrainEnds
    BY <2>3 DEF Signal, RefusedSignal, DrainComplete, DrainNotify, DrainEnds
  <2>4. CASE \/ CleanerLoop \/ CleanerSleep \/ CleanerTimeout
             \/ UdpLoopEnds \/ UdpLoopBreaks \/ HttpListen \/ HttpListenEnds
    BY <2>4 DEF CleanerLoop, CleanerSleep, CleanerTimeout, UdpLoopEnds, UdpLoopBreaks,
       HttpListen, HttpListenEnds
  <2>5. CASE UNCHANGED vars
    BY <2>5 DEF vars
  <2> QED
    BY <2>1, <2>2, <2>3, <2>4, <2>5 DEF Next, Exited
<1> QED
  BY <1>1, <1>2, SpecImplemented, PTL DEF Spec

\* A handler that is past its first message on top of a log call is one whose
\* message the level drops, so that what main was writing is a warning or an error
\* of the start; and nobody is troubled before UDP has served.
SinkInv ==
    /\ log = "below" \/ (log = "in" /\ At(Main, "idle")) =>
           Logs(INFO) \/ mainPc \in {"start_udp", "start_failed"}
    /\ log = "below" /\ callPc[Main] \notin {"idle", "enter"} => ~Logs(INFO)
    /\ troubled # {} => udpPc # "none"

LogInv == SigTypeOK /\ SinkInv

\* What main does to the others takes nobody from where it is troubled.
LEMMA MainLeavesTroubled ==
    ASSUME MainNext
    PROVE  /\ drainPc = "drain" => drainPc' = "drain"
           /\ cleanerPc = "loop" => cleanerPc' = "loop"
           /\ udpPc # "none" => udpPc' # "none"
           /\ mainPc = "start_cleaner" => mainPc' = "start_udp"
  BY DEF MainNext, MainAt, MainGoto, Run, StartCleaner, StartUdp, StartHttp, AwaitHttp,
     StartFails, Poll, StopHttp, JoinHttp, StopUdp, JoinUdp, StopCleaner, JoinCleaner,
     StopDrain, JoinDrain, manager, cleaner, udp

LEMMA LogMain == ASSUME TypeOK, LogInv, MainStep PROVE LogInv'
<1> USE DEF LogInv, SigTypeOK, SinkInv, Logs, Nothing, DEBUG, INFO, WARN, ERROR, CRITICAL, Off
<1>1. log = "out" /\ MainNext /\ UNCHANGED <<threshold, troubled>>
  BY DEF MainStep
<1>2. PICK severity \in MainSays : log' = Written(severity)
  BY DEF MainStep
<1>3. severity \in Nothing..ERROR
  BY <1>2 DEF MainSays
<1>4. severity > INFO => mainPc' \in {"start_udp", "start_failed"}
  BY <1>1, <1>2, MainLeavesTroubled DEF MainSays
<1>5. log' = IF Logs(severity) THEN "in" ELSE "out"
  BY <1>1, <1>2 DEF Written
<1> QED
  BY <1>1, <1>3, <1>4, <1>5, MainLeavesTroubled DEF At

LEMMA LogEnds == ASSUME TypeOK, LogInv, EndLog PROVE LogInv'
  BY DEF EndLog, vars, app, manager, cleaner, udp, LogInv, SigTypeOK, SinkInv, Logs, At

LEMMA LogInterrupted == ASSUME TypeOK, LogInv, TakeSignal PROVE LogInv'
  BY MainAssumption DEF TakeSignal, Signal, Move, At, Caller, TypeOK, PlaceTypes,
     app, manager, cleaner, udp, LogInv, SigTypeOK, SinkInv, Logs

\* A caller's step leaves what the log depends on alone, but for the caller's place
\* and a drain that it starts.
LEMMA CallerLeavesTroubled ==
    ASSUME TypeOK, NEW c \in Caller, CallerNext(c)
    PROVE  /\ UNCHANGED <<mainPc, cleanerPc, udpPc>>
           /\ drainPc = "drain" => drainPc' = "drain"
           /\ ~At(c, "idle")
           /\ callPc' = [callPc EXCEPT ![c] = callPc'[c]]
           /\ At(c, "enter") => running <=> callPc'[c] = "exchange"
           /\ c # Main => callPc'[c] # "idle"
           /\ c = Main => callPc'[c] # "done"
           /\ callPc'[c] = "idle" => callPc[c] \in {"enter", "clear"}
           /\ At(c, "enter") => callPc'[c] \in {"exchange", "idle", "done"}
  BY MainAssumption DEF CallerNext, Enter, Exchange, CheckComplete, Sleep, ClearRunning, Return, Move, At, TypeOK,
     PlaceTypes, FlagsAgree, Caller, app, manager, cleaner, udp

LEMMA LogHandled == ASSUME TypeOK, LogInv, HandlerStep PROVE LogInv'
<1> USE DEF LogInv, SigTypeOK, SinkInv, Logs, Nothing, DEBUG, INFO, WARN, ERROR, CRITICAL, Off
<1>1. CallerNext(Main) /\ UNCHANGED <<threshold, troubled>> /\ log \in {"out", "below"}
  BY DEF HandlerStep
<1>2. /\ UNCHANGED <<mainPc, cleanerPc, udpPc>>
      /\ drainPc = "drain" => drainPc' = "drain"
      /\ ~At(Main, "idle")
      /\ At(Main, "enter") => callPc'[Main] = "idle" \/ running
      /\ callPc'[Main] = "idle" => callPc[Main] \in {"enter", "clear"}
      /\ callPc'[Main] = "idle" => ~running \/ At(Main, "clear")
  BY <1>1, CallerLeavesTroubled DEF Caller, At
<1>3. CallSays(Main) \in Nothing..WARN
  BY DEF CallSays
<1>4. At(Main, "enter") /\ callPc'[Main] # "idle" => CallSays(Main) = INFO
  BY <1>2 DEF CallSays, At
<1>5. callPc'[Main] = "idle" => CallSays(Main) \in {Nothing, DEBUG}
  BY <1>2 DEF CallSays, At
<1>6. /\ log' = "below" => log = "below" /\ ~Logs(CallSays(Main)) /\ callPc'[Main] # "idle"
      /\ log' = "in" => \/ log = "below"
                        \/ log = "out" /\ Logs(CallSays(Main))
      /\ log' = "stuck" => Logs(CallSays(Main)) \/ log = "below"
      /\ log' \in {"out", "in", "below", "stuck"}
  BY <1>1 DEF HandlerStep, Written
<1> QED
  BY <1>1, <1>2, <1>3, <1>4, <1>5, <1>6 DEF At

LEMMA LogNested == ASSUME TypeOK, LogInv, TakeNested PROVE LogInv'
<1> USE DEF LogInv, SigTypeOK, SinkInv, Logs, Nothing, DEBUG, INFO, WARN, ERROR, CRITICAL, Off
<1>1. RefusedSays \in Nothing..WARN
  BY DEF RefusedSays
<1>2. CASE log \in {"in", "below"} /\ Logs(RefusedSays)
  <2>1. log' = "stuck" /\ UNCHANGED <<threshold, troubled, mainPc, drainPc, cleanerPc, udpPc>>
    BY <1>2 DEF TakeNested, vars, app, manager, cleaner, udp
  <2> QED
    BY <1>1, <1>2, <2>1
<1>3. CASE ~(log \in {"in", "below"} /\ Logs(RefusedSays))
  <2>1. RefusedSignal /\ UNCHANGED <<threshold, troubled, log>>
    BY <1>3 DEF TakeNested
  <2> QED
    BY <2>1 DEF RefusedSignal, At, app, manager, cleaner, udp
<1> QED
  BY <1>2, <1>3

\* The other threads do not touch the sink while main holds it, and neither enter
\* the handler nor return from it for main; whoever moves on is troubled no more.
LEMMA LogOthers ==
    ASSUME TypeOK, LogInv, StopperStep \/ ServiceStep \/ CleanerStep \/ OutsideStep
    PROVE  LogInv'
<1> USE MainAssumption DEF TypeOK, PlaceTypes, Caller, At, Move, Unwritten, Untroubled,
        LogInv, SigTypeOK, SinkInv, Logs, app, manager, cleaner, udp
<1>1. CASE StopperStep
  <2>1. PICK c \in Stopper : CallerNext(c)
    BY <1>1 DEF StopperStep
  <2>2. callPc'[Main] = callPc[Main] /\ UNCHANGED <<threshold, log, troubled>>
    BY <1>1, <2>1, CallerLeavesTroubled DEF StopperStep
  <2> QED
    BY <2>1, <2>2, CallerLeavesTroubled
<1>2. CASE DrainStep
  BY <1>2 DEF DrainStep, DrainComplete, DrainNotify, DrainEnds, NotifyCallers
<1>3. CASE HttpStep \/ (UdpLoopEnds /\ Unwritten /\ UNCHANGED troubled)
  BY <1>3 DEF HttpStep, HttpListen, HttpListenEnds, UdpLoopEnds
<1>4. CASE CleanerStep
  BY <1>4 DEF CleanerStep, CleanerLoop, CleanerSleep, CleanerTimeout
<1>5. CASE Trouble
  BY <1>5 DEF Trouble, vars
<1>6. CASE OutsideStep /\ ~Trouble
  BY <1>6 DEF OutsideStep, StopRequest, SpuriousWakeup, UdpLoopBreaks, TakeElsewhere,
     RefusedSignal
<1> QED
  BY <1>1, <1>2, <1>3, <1>4, <1>5, <1>6 DEF ServiceStep

LEMMA LogStep == TypeOK /\ LogInv /\ [SigNext]_svars => LogInv'
<1> SUFFICES ASSUME TypeOK, LogInv, [SigNext]_svars PROVE LogInv'
  OBVIOUS
<1>1. CASE Over \/ UNCHANGED svars
  BY <1>1 DEF Over, svars, vars, app, manager, cleaner, udp, LogInv, SigTypeOK, SinkInv, Logs, At
<1> QED
  BY <1>1, LogMain, LogEnds, LogInterrupted, LogHandled, LogNested, LogOthers DEF SigNext

LEMMA LogHolds == SigSpec => []LogInv
<1>1. SigInit => LogInv
  BY DEF SigInit, Init, At, LogInv, SigTypeOK, SinkInv, Logs, StringToLevel,
     Nothing, DEBUG, INFO, WARN, ERROR, CRITICAL, Off
<1> QED
  BY <1>1, LogStep, ServerSafe, PTL DEF SigSpec

\* The mutex of the sink is held for messages that pass the level, a log call lies
\* below a handler only while there is one, and the drain or the cleaner is troubled
\* only while it is at work.
THEOREM SigTypeCorrect == SigSpec => []SigTypeOK
<1>1. LogInv => SigTypeOK
  BY DEF LogInv
<1> QED
  BY <1>1, LogHolds, PTL

\* Whatever the level and however many signals and /stop requests: a handler that
\* waits for a drain keeps it from the sink in a start that failed, and nowhere else.
THEOREM SinkHeldCorrect == SigSpec => []SinkHeldAtStartOnly
<1>1. LogInv /\ UdpUnstarted => SinkHeldAtStartOnly
  BY DEF LogInv, SigTypeOK, SinkInv, UdpUnstarted, SinkHeldAtStartOnly
<1> QED
  BY <1>1, LogHolds, UdpUnstartedHolds, PTL
===============================================================================
