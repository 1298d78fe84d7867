------------------------- MODULE AppLifecycleProofs -------------------------
(***************************************************************************)
(* Proofs about AppLifecycle, for any number of /stop requests: its types, *)
(* that the stop sequence never overtakes a drain, that at most one caller *)
(* waits for it, and that run() leaves no thread behind but a listener     *)
(* that failed.                                                            *)
(***************************************************************************)
EXTENDS AppLifecycle, TLAPS

LEMMA TypingInit == Init => TypeOK
  BY DEF Init, TypeOK, FlagTypes, PlaceTypes, FlagsAgree, MainPc, CallPc

LEMMA FlagsTyped == FlagTypes /\ [Next]_vars => FlagTypes'
<1> USE DEF FlagTypes, app, manager, cleaner, udp, http
<1> SUFFICES ASSUME FlagTypes, [Next]_vars PROVE FlagTypes'
  OBVIOUS
<1>1. ASSUME NEW c \in Caller, StopRequest(c) \/ CallerNext(c) \/ SpuriousWakeup(c)
      PROVE  FlagTypes'
  BY <1>1, Zenon DEF StopRequest, CallerNext, Enter, Exchange, CheckComplete, Sleep,
     ClearRunning, SpuriousWakeup
<1>2. CASE Signal \/ RefusedSignal \/ DrainComplete \/ DrainNotify \/ DrainEnds
  BY <1>2, Zenon DEF Signal, RefusedSignal, DrainComplete, DrainNotify, DrainEnds
<1>3. CASE \/ CleanerLoop \/ CleanerSleep \/ CleanerTimeout
           \/ UdpLoopEnds \/ UdpLoopBreaks \/ HttpListen \/ HttpListenEnds
  BY <1>3, Zenon DEF CleanerLoop, CleanerSleep, CleanerTimeout, UdpLoopEnds, UdpLoopBreaks,
     HttpListen, HttpListenEnds
<1>4. CASE MainNext
  <2>1. CASE Run \/ StartCleaner \/ StartUdp
    BY <2>1, Zenon DEF Run, StartCleaner, StartUdp
  <2>2. CASE StartHttp \/ AwaitHttp \/ StartFails \/ Poll
    BY <2>2, Zenon DEF StartHttp, AwaitHttp, StartFails, Poll
  <2>3. CASE StopHttp \/ JoinHttp \/ StopUdp \/ JoinUdp
    BY <2>3, Zenon DEF StopHttp, JoinHttp, StopUdp, JoinUdp
  <2>4. CASE StopCleaner \/ JoinCleaner \/ StopDrain \/ JoinDrain
    BY <2>4, Zenon DEF StopCleaner, JoinCleaner, StopDrain, JoinDrain
  <2> QED
    BY <1>4, <2>1, <2>2, <2>3, <2>4 DEF MainNext
<1>5. CASE UNCHANGED vars
  BY <1>5, Zenon DEF vars
<1> QED
  BY <1>1, <1>2, <1>3, <1>4, <1>5 DEF Next, Exited

LEMMA PlacesTyped ==
    TypeOK /\ [Next]_vars => PlaceTypes' /\ FlagsAgree'
<1> USE DEF TypeOK, FlagTypes, PlaceTypes, FlagsAgree, CallPc, Move, Return, At,
            app, manager, cleaner, udp, http
<1> SUFFICES ASSUME TypeOK, [Next]_vars PROVE PlaceTypes' /\ FlagsAgree'
  OBVIOUS
<1>1. ASSUME NEW c \in Caller, StopRequest(c) \/ CallerNext(c) \/ SpuriousWakeup(c)
      PROVE  PlaceTypes' /\ FlagsAgree'
  <2>1. CASE StopRequest(c) \/ Enter(c) \/ Exchange(c)
    BY <2>1 DEF StopRequest, Enter, Exchange
  <2>2. CASE CheckComplete(c) \/ Sleep(c) \/ ClearRunning(c) \/ SpuriousWakeup(c)
    BY <2>2 DEF CheckComplete, Sleep, ClearRunning, SpuriousWakeup
  <2> QED
    BY <1>1, <2>1, <2>2 DEF CallerNext
<1>2. CASE Signal \/ RefusedSignal \/ DrainComplete \/ DrainNotify \/ DrainEnds
  BY <1>2 DEF Signal, RefusedSignal, DrainComplete, DrainNotify, DrainEnds, NotifyCallers, Caller
<1>3. CASE CleanerLoop \/ CleanerSleep \/ CleanerTimeout
  BY <1>3 DEF CleanerLoop, CleanerSleep, CleanerTimeout
<1>4. CASE UdpLoopEnds \/ UdpLoopBreaks \/ HttpListen \/ HttpListenEnds
  BY <1>4 DEF UdpLoopEnds, UdpLoopBreaks, HttpListen, HttpListenEnds
<1>5. CASE MainNext
  <2> USE DEF MainPc, Starting, StoppingHttp, StoppingRest, MainAt, MainGoto
  <2>1. CASE Run \/ StartCleaner \/ StartUdp
    BY <2>1 DEF Run, StartCleaner, StartUdp
  <2>2. CASE StartHttp \/ AwaitHttp \/ StartFails \/ Poll
    BY <2>2 DEF StartHttp, AwaitHttp, StartFails, Poll
  <2>3. CASE StopHttp \/ JoinHttp \/ StopUdp \/ JoinUdp
    BY <2>3 DEF StopHttp, JoinHttp, StopUdp, JoinUdp
  <2>4. CASE StopCleaner \/ JoinCleaner
    BY <2>4 DEF StopCleaner, JoinCleaner
  <2>5. CASE StopDrain \/ JoinDrain
    BY <2>5 DEF StopDrain, JoinDrain, NotifyCallers
  <2> QED
    BY <1>5, <2>1, <2>2, <2>3, <2>4, <2>5 DEF MainNext
<1>6. CASE UNCHANGED vars
  BY <1>6 DEF vars
<1> QED
  BY <1>1, <1>2, <1>3, <1>4, <1>5, <1>6 DEF Next, Exited

LEMMA TypingStep == TypeOK /\ [Next]_vars => TypeOK'
  BY FlagsTyped, PlacesTyped DEF TypeOK

\* The variables keep their types and the flags agree with their threads.
THEOREM AppTypeCorrect == Spec => []TypeOK
  BY TypingInit, TypingStep, PTL DEF Spec

-----------------------------------------------------------------------------
(* Who waits for a drain, and what keeps the main thread from passing by.  *)

Waiting(c) == callPc[c] \in {"check", "lock", "armed", "waiting"}

\* Whoever waits has started the drain, and as long as it goes on somebody does.
DrainWaited == /\ drainPc = "drain" => \E c \in Caller : Waiting(c)
               /\ \A c \in Caller : Waiting(c) => drainPc # "none"

\* _running is set only while the main thread starts or polls, and a signal
\* that did not find it cleared keeps the main thread there.
MainHeld == /\ running => mainPc \in Starting \cup {"poll"}
            /\ callPc[Main] \notin {"idle", "enter"} => mainPc \in Starting \cup {"poll"}

\* A handler runs only while the listener does, which the main thread joins
\* before it stops anything else.
HandlersJoined ==
    /\ \A c \in Stopper : callPc[c] \notin {"idle", "done"} => httpPc = "listening"
    /\ httpPc \in {"binding", "listening"} =>
           \/ mainPc \in {"await_http", "poll", "stop_http"} /\ httpRunning
           \/ mainPc = "join_http"

SafetyInv == DrainWaited /\ MainHeld /\ HandlersJoined /\ OneSleeper

LEMMA SafetyCaller ==
    ASSUME TypeOK, SafetyInv, NEW c \in Caller,
           StopRequest(c) \/ CallerNext(c) \/ SpuriousWakeup(c)
    PROVE  SafetyInv'
<1> USE MainAssumption DEF TypeOK, FlagTypes, PlaceTypes, FlagsAgree, SafetyInv, DrainWaited, MainHeld, HandlersJoined,
            OneSleeper, Waiting, Caller, Move, Return, At, app, manager, cleaner, udp, http
<1>1. CASE StopRequest(c)
  BY <1>1 DEF StopRequest
<1>2. CASE Enter(c)
  BY <1>2 DEF Enter
<1>3. CASE Exchange(c)
  BY <1>3 DEF Exchange
<1>4. CASE CheckComplete(c)
  BY <1>4 DEF CheckComplete
<1>5. CASE Sleep(c)
  BY <1>5 DEF Sleep
<1>6. CASE ClearRunning(c)
  BY <1>6 DEF ClearRunning
<1>7. CASE SpuriousWakeup(c)
  BY <1>7 DEF SpuriousWakeup
<1> QED
  BY <1>1, <1>2, <1>3, <1>4, <1>5, <1>6, <1>7 DEF CallerNext

LEMMA SafetyThreads ==
    ASSUME TypeOK, SafetyInv,
           \/ Signal \/ RefusedSignal \/ DrainComplete \/ DrainNotify \/ DrainEnds
           \/ CleanerLoop \/ CleanerSleep \/ CleanerTimeout
           \/ UdpLoopEnds \/ UdpLoopBreaks \/ HttpListen \/ HttpListenEnds
    PROVE  SafetyInv'
<1> USE MainAssumption DEF TypeOK, FlagTypes, PlaceTypes, FlagsAgree, SafetyInv, DrainWaited, MainHeld, HandlersJoined,
            OneSleeper, Waiting, Caller, Move, At, NotifyCallers, app, manager, cleaner, udp, http
<1>1. CASE Signal
  BY <1>1 DEF Signal
<1>2. CASE RefusedSignal
  BY <1>2 DEF RefusedSignal
<1>3. CASE DrainComplete
  BY <1>3 DEF DrainComplete
<1>4. CASE DrainNotify \/ DrainEnds
  BY <1>4 DEF DrainNotify, DrainEnds
<1>5. CASE CleanerLoop \/ CleanerSleep \/ CleanerTimeout
  BY <1>5 DEF CleanerLoop, CleanerSleep, CleanerTimeout
<1>6. CASE UdpLoopEnds \/ UdpLoopBreaks
  BY <1>6 DEF UdpLoopEnds, UdpLoopBreaks
<1>7. CASE HttpListen
  BY <1>7 DEF HttpListen
<1>8. CASE HttpListenEnds
  BY <1>8 DEF HttpListenEnds
<1> QED
  BY <1>1, <1>2, <1>3, <1>4, <1>5, <1>6, <1>7, <1>8

LEMMA SafetyMain == ASSUME TypeOK, SafetyInv, MainNext PROVE SafetyInv'
<1> USE MainAssumption DEF TypeOK, FlagTypes, PlaceTypes, FlagsAgree, SafetyInv, DrainWaited, MainHeld, HandlersJoined,
            OneSleeper, Waiting, Caller, Starting, MainAt, MainGoto, At, app, manager,
            cleaner, udp, http
<1>1. CASE Run \/ StartCleaner \/ StartUdp
  BY <1>1 DEF Run, StartCleaner, StartUdp
<1>2. CASE StartHttp \/ AwaitHttp \/ StartFails \/ Poll
  BY <1>2 DEF StartHttp, AwaitHttp, StartFails, Poll
<1>3. CASE StopHttp \/ JoinHttp
  BY <1>3 DEF StopHttp, JoinHttp
<1>4. CASE StopUdp \/ JoinUdp \/ StopCleaner \/ JoinCleaner
  BY <1>4 DEF StopUdp, JoinUdp, StopCleaner, JoinCleaner
<1>5. CASE StopDrain
  BY <1>5 DEF StopDrain, NotifyCallers
<1>6. CASE JoinDrain
  BY <1>6 DEF JoinDrain
<1> QED
  BY <1>1, <1>2, <1>3, <1>4, <1>5, <1>6 DEF MainNext

LEMMA SafetyStep == TypeOK /\ SafetyInv /\ [Next]_vars => SafetyInv'
<1> SUFFICES ASSUME TypeOK, SafetyInv, [Next]_vars PROVE SafetyInv'
  OBVIOUS
<1>1. CASE UNCHANGED vars
  BY <1>1 DEF SafetyInv, DrainWaited, MainHeld, HandlersJoined, OneSleeper, Waiting,
              vars, app, manager, cleaner, udp, http
<1> QED
  BY <1>1, SafetyCaller, SafetyThreads, SafetyMain DEF Next, Exited

LEMMA SafetyHolds == Spec => []SafetyInv
<1>1. Init => SafetyInv
  BY DEF Init, SafetyInv, DrainWaited, MainHeld, HandlersJoined, OneSleeper, Waiting, Caller
<1> QED
  BY <1>1, SafetyStep, AppTypeCorrect, PTL DEF Spec

\* stopServices reaches the UDP server, the cleaner and the shutdown manager
\* only once no drain is under way: whoever waits for it is a handler that
\* HttpServer::stop joins or a signal handler on the main thread itself.
THEOREM DrainUninterrupted == Spec => []DrainNeverCutShort
<1>1. TypeOK /\ SafetyInv => DrainNeverCutShort
  BY MainAssumption DEF TypeOK, FlagTypes, PlaceTypes, FlagsAgree, SafetyInv, DrainWaited, MainHeld, HandlersJoined, Waiting,
     Caller, Starting, StoppingRest, DrainNeverCutShort
<1> QED
  BY <1>1, SafetyHolds, AppTypeCorrect, PTL

\* However many /stop requests and signals arrive, one of them waits for the drain:
\* the one notification that announces its end never has to reach two.
THEOREM SoleWaiter == Spec => []OneSleeper
<1>1. SafetyInv => OneSleeper
  BY DEF SafetyInv
<1> QED
  BY <1>1, SafetyHolds, PTL

-----------------------------------------------------------------------------
(* The order of drain and stop.                                            *)

PhaseStep == [Phases!PhaseNext]_(Phases!phases)

LEMMA PhaseCaller ==
    ASSUME TypeOK, SafetyInv, NEW c \in Caller,
           StopRequest(c) \/ CallerNext(c) \/ SpuriousWakeup(c)
    PROVE  PhaseStep
<1> USE DEF PhaseStep, Phases!PhaseNext, Phases!phases, drainPhase, servicePhase,
            app, manager, cleaner, udp, http
<1>1. CASE Exchange(c)
  <2>1. mainPc \notin StoppingRest \cup {"exited"}
    BY <1>1, MainAssumption
       DEF Exchange, SafetyInv, MainHeld, HandlersJoined, Caller, At, Starting, StoppingRest
  <2>2. inProgress => UNCHANGED <<drainPc, mainPc>>
    BY <1>1 DEF Exchange
  <2>3. ~inProgress => drainPc = "none" /\ drainPc' = "drain" /\ UNCHANGED mainPc
    BY <1>1 DEF Exchange, TypeOK, FlagsAgree
  <2> QED
    BY <2>1, <2>2, <2>3 DEF Phases!Begin
<1>2. CASE ~Exchange(c)
  BY <1>2 DEF StopRequest, CallerNext, SpuriousWakeup, Enter, CheckComplete, Sleep, ClearRunning
<1> QED
  BY <1>1, <1>2

LEMMA PhaseThreads ==
    ASSUME TypeOK, SafetyInv,
           \/ Signal \/ RefusedSignal \/ DrainComplete \/ DrainNotify \/ DrainEnds
           \/ CleanerLoop \/ CleanerSleep \/ CleanerTimeout
           \/ UdpLoopEnds \/ UdpLoopBreaks \/ HttpListen \/ HttpListenEnds
    PROVE  PhaseStep
<1> USE DEF PhaseStep, Phases!PhaseNext, Phases!phases, drainPhase, servicePhase,
            app, manager, cleaner, udp, http
<1>1. CASE DrainComplete
  <2>1. mainPc \notin StoppingRest \cup {"exited"}
    BY <1>1, MainAssumption
       DEF DrainComplete, SafetyInv, DrainWaited, Waiting, MainHeld, HandlersJoined, Caller,
           Starting, StoppingRest
  <2> QED
    BY <1>1, <2>1 DEF DrainComplete, Phases!Complete
<1>2. CASE DrainNotify \/ DrainEnds
  BY <1>2 DEF DrainNotify, DrainEnds
<1>3. CASE Signal \/ RefusedSignal
  BY <1>3 DEF Signal, RefusedSignal
<1>4. CASE CleanerLoop \/ CleanerSleep \/ CleanerTimeout
  BY <1>4 DEF CleanerLoop, CleanerSleep, CleanerTimeout
<1>5. CASE UdpLoopEnds \/ UdpLoopBreaks \/ HttpListen \/ HttpListenEnds
  BY <1>5 DEF UdpLoopEnds, UdpLoopBreaks, HttpListen, HttpListenEnds
<1> QED
  BY <1>1, <1>2, <1>3, <1>4, <1>5

LEMMA PhaseMain ==
    ASSUME TypeOK, SafetyInv, DrainNeverCutShort, DrainNeverCutShort', MainNext
    PROVE  PhaseStep
<1> USE DEF PhaseStep, Phases!PhaseNext, Phases!phases, drainPhase, servicePhase, StoppingRest,
            MainAt, MainGoto, app, manager, cleaner, udp, http
<1>1. CASE Run \/ StartCleaner \/ StartUdp \/ StartHttp \/ AwaitHttp \/ StartFails \/ Poll
  BY <1>1 DEF Run, StartCleaner, StartUdp, StartHttp, AwaitHttp, StartFails, Poll
<1>2. CASE StopHttp \/ JoinHttp
  <2>1. UNCHANGED <<drainPc, inProgress, complete>>
    BY <1>2 DEF StopHttp, JoinHttp
  <2>2. mainPc' \in {"join_http", "stop_udp"} /\ mainPc \in {"stop_http", "join_http"}
    BY <1>2 DEF StopHttp, JoinHttp
  <2>3. mainPc' = "stop_udp" => drainPc # "drain"
    BY <2>1 DEF DrainNeverCutShort, TypeOK, FlagsAgree
  <2> QED
    BY <2>1, <2>2, <2>3 DEF Phases!StopBegins
<1>3. CASE StopUdp \/ JoinUdp \/ StopCleaner \/ JoinCleaner
  BY <1>3 DEF StopUdp, JoinUdp, StopCleaner, JoinCleaner
<1>4. CASE StopDrain
  BY <1>4 DEF StopDrain, Phases!StopEnds
<1>5. CASE JoinDrain
  BY <1>5 DEF JoinDrain, Phases!StopEnds
<1> QED
  BY <1>1, <1>2, <1>3, <1>4, <1>5 DEF MainNext

\* The threads of the application are a behaviour of ServerPhases: what
\* SessionLifecycle takes for granted of its callers when StopMayInterrupt is
\* FALSE, the deployed server gives.
THEOREM AppPhases == Spec => PhasesRefined
<1>1. Init => Phases!PhaseInit
  BY DEF Init, Phases!PhaseInit, drainPhase, servicePhase, StoppingRest
<1>2. /\ TypeOK /\ SafetyInv /\ DrainNeverCutShort /\ DrainNeverCutShort' /\ [Next]_vars
      => [Phases!PhaseNext]_(Phases!phases)
  <2>1. ASSUME UNCHANGED vars PROVE UNCHANGED Phases!phases
    BY <2>1 DEF vars, app, manager, Phases!phases, drainPhase, servicePhase
  <2> QED
    BY <2>1, PhaseCaller, PhaseThreads, PhaseMain DEF Next, Exited, PhaseStep
<1> QED
  BY <1>1, <1>2, SafetyHolds, AppTypeCorrect, DrainUninterrupted, PTL
     DEF Spec, PhasesRefined, Phases!PhaseSpec

-----------------------------------------------------------------------------
(* What has been joined when run() returns.                                *)

AfterHttp == StoppingRest \cup {"exited"}
AfterUdp == {"stop_cleaner", "join_cleaner", "stop_drain", "join_drain", "exited"}
AfterCleaner == {"stop_drain", "join_drain", "exited"}

\* A thread runs on only under a flag that makes its stop() join it.
HttpJoined == /\ httpStopped => mainPc \in AfterHttp \cup {"join_http"}
              /\ mainPc \notin AfterHttp \cup {"join_http"} =>
                     httpPc \in {"none", "failed"} \/ httpRunning
              /\ mainPc \in AfterHttp => httpPc \in {"none", "joined", "failed"}

UdpJoined == /\ mainPc \notin AfterUdp \cup {"join_udp"} => udpPc = "none" \/ udpRunning
             /\ mainPc \in AfterUdp => udpPc \in {"none", "joined"}

CleanerJoined == /\ mainPc \notin AfterCleaner \cup {"join_cleaner"} =>
                        cleanerPc = "none" \/ cleanerRunning
                 /\ mainPc \in AfterCleaner => cleanerPc \in {"none", "joined"}

DrainJoined == mainPc = "exited" => drainPc \in {"none", "joined"}

JoinInv == HttpJoined /\ UdpJoined /\ CleanerJoined /\ DrainJoined

LEMMA JoinCaller ==
    ASSUME TypeOK, SafetyInv, JoinInv, NEW c \in Caller,
           StopRequest(c) \/ CallerNext(c) \/ SpuriousWakeup(c)
    PROVE  JoinInv'
<1> USE DEF JoinInv, HttpJoined, UdpJoined, CleanerJoined, DrainJoined, app, manager,
            cleaner, udp, http
<1>1. CASE Exchange(c)
  BY <1>1, MainAssumption DEF Exchange, At, Move, Caller, SafetyInv, MainHeld,
     HandlersJoined, Starting
<1>2. CASE StopRequest(c) \/ Enter(c) \/ CheckComplete(c) \/ Sleep(c) \/ ClearRunning(c)
           \/ SpuriousWakeup(c)
  BY <1>2 DEF StopRequest, Enter, CheckComplete, Sleep, ClearRunning, SpuriousWakeup
<1> QED
  BY <1>1, <1>2 DEF CallerNext

LEMMA JoinThreads ==
    ASSUME TypeOK, JoinInv,
           \/ Signal \/ RefusedSignal \/ DrainComplete \/ DrainNotify \/ DrainEnds
           \/ CleanerLoop \/ CleanerSleep \/ CleanerTimeout
           \/ UdpLoopEnds \/ UdpLoopBreaks \/ HttpListen \/ HttpListenEnds
    PROVE  JoinInv'
<1> USE DEF TypeOK, FlagTypes, PlaceTypes, FlagsAgree, JoinInv, HttpJoined, UdpJoined, CleanerJoined, DrainJoined,
            AfterHttp, AfterUdp, AfterCleaner, StoppingRest, app, manager, cleaner, udp, http
<1>1. CASE Signal \/ RefusedSignal
  BY <1>1 DEF Signal, RefusedSignal
<1>2. CASE DrainComplete \/ DrainNotify \/ DrainEnds
  BY <1>2 DEF DrainComplete, DrainNotify, DrainEnds
<1>3. CASE CleanerLoop \/ CleanerSleep \/ CleanerTimeout
  BY <1>3 DEF CleanerLoop, CleanerSleep, CleanerTimeout
<1>4. CASE UdpLoopEnds \/ UdpLoopBreaks
  BY <1>4 DEF UdpLoopEnds, UdpLoopBreaks
<1>5. CASE HttpListen \/ HttpListenEnds
  BY <1>5 DEF HttpListen, HttpListenEnds
<1> QED
  BY <1>1, <1>2, <1>3, <1>4, <1>5

LEMMA JoinMain == ASSUME TypeOK, SafetyInv, JoinInv, MainNext PROVE JoinInv'
<1> USE DEF TypeOK, FlagTypes, PlaceTypes, FlagsAgree, JoinInv, HttpJoined, UdpJoined, CleanerJoined, DrainJoined,
            AfterHttp, AfterUdp, AfterCleaner, StoppingRest, MainAt, MainGoto,
            app, manager, cleaner, udp, http
<1>1. CASE Run \/ StartCleaner \/ StartUdp
  BY <1>1 DEF Run, StartCleaner, StartUdp
<1>2. CASE StartHttp \/ AwaitHttp \/ StartFails \/ Poll
  BY <1>2 DEF StartHttp, AwaitHttp, StartFails, Poll
<1>3. CASE StopHttp \/ JoinHttp
  BY <1>3 DEF StopHttp, JoinHttp
<1>4. CASE StopUdp \/ JoinUdp
  BY <1>4 DEF StopUdp, JoinUdp
<1>5. CASE StopCleaner \/ JoinCleaner
  BY <1>5 DEF StopCleaner, JoinCleaner
<1>6. CASE StopDrain \/ JoinDrain
  BY <1>6 DEF StopDrain, JoinDrain
<1> QED
  BY <1>1, <1>2, <1>3, <1>4, <1>5, <1>6 DEF MainNext

LEMMA JoinStep == TypeOK /\ SafetyInv /\ JoinInv /\ [Next]_vars => JoinInv'
<1> SUFFICES ASSUME TypeOK, SafetyInv, JoinInv, [Next]_vars PROVE JoinInv'
  OBVIOUS
<1>1. CASE UNCHANGED vars
  BY <1>1 DEF JoinInv, HttpJoined, UdpJoined, CleanerJoined, DrainJoined,
              vars, app, manager, cleaner, udp, http
<1> QED
  BY <1>1, JoinCaller, JoinThreads, JoinMain DEF Next, Exited

LEMMA JoinHolds == Spec => []JoinInv
<1>1. Init => JoinInv
  BY DEF Init, JoinInv, HttpJoined, UdpJoined, CleanerJoined, DrainJoined,
     AfterHttp, AfterUdp, AfterCleaner, StoppingRest
<1> QED
  BY <1>1, JoinStep, SafetyHolds, AppTypeCorrect, PTL DEF Spec

\* run() returns with every thread it or its components started joined, except
\* an HTTP listener that failed.
THEOREM ThreadsJoined == Spec => []OnlyFailedListenerLeaks
<1>1. JoinInv => OnlyFailedListenerLeaks
  BY DEF JoinInv, HttpJoined, UdpJoined, CleanerJoined, DrainJoined,
     AfterHttp, AfterUdp, AfterCleaner, OnlyFailedListenerLeaks
<1> QED
  BY <1>1, JoinHolds, PTL

-----------------------------------------------------------------------------
(* What the threads wait for.                                              *)

\* A flag that makes a stop() join a thread belongs to one that was started.
FlagsHonest == /\ httpRunning => httpPc \in {"binding", "listening"}
               /\ udpRunning => udpPc \in {"serving", "ended"}
               /\ drainPc = "joined" => mainPc = "exited"
               /\ inProgress => mainPc # "boot"

WaitInv == FlagsHonest /\ StopRemembered /\ JoinsEnd

LEMMA WaitCaller ==
    ASSUME TypeOK, SafetyInv, WaitInv, NEW c \in Caller,
           StopRequest(c) \/ CallerNext(c) \/ SpuriousWakeup(c)
    PROVE  WaitInv'
<1> USE DEF WaitInv, FlagsHonest, StopRemembered, JoinsEnd, TypeOK, PlaceTypes, FlagsAgree,
            At, Move, Return, app, manager, cleaner, udp, http
<1>1. CASE StopRequest(c) \/ SpuriousWakeup(c)
  BY <1>1 DEF StopRequest, SpuriousWakeup
<1>2. CASE Enter(c)
  BY <1>2 DEF Enter
<1>3. CASE Exchange(c)
  <2>1. mainPc \notin StoppingRest \cup {"boot", "exited"}
    BY <1>3, MainAssumption DEF Exchange, SafetyInv, MainHeld, HandlersJoined, Caller, Starting,
       StoppingRest
  <2> QED
    BY <1>3, <2>1 DEF Exchange, StoppingRest
<1>4. CASE CheckComplete(c)
  BY <1>4 DEF CheckComplete
<1>5. CASE Sleep(c)
  BY <1>5 DEF Sleep
<1>6. CASE ClearRunning(c)
  BY <1>6 DEF ClearRunning
<1> QED
  BY <1>1, <1>2, <1>3, <1>4, <1>5, <1>6 DEF CallerNext

LEMMA WaitThreads ==
    ASSUME TypeOK, JoinInv, WaitInv,
           \/ Signal \/ RefusedSignal \/ DrainComplete \/ DrainNotify \/ DrainEnds
           \/ CleanerLoop \/ CleanerSleep \/ CleanerTimeout
           \/ UdpLoopEnds \/ UdpLoopBreaks \/ HttpListen \/ HttpListenEnds
    PROVE  WaitInv'
<1> USE DEF WaitInv, FlagsHonest, StopRemembered, JoinsEnd, TypeOK, FlagTypes, PlaceTypes, FlagsAgree,
            At, Move, app, manager, cleaner, udp, http
<1>1. CASE Signal \/ RefusedSignal
  BY <1>1 DEF Signal, RefusedSignal
<1>2. CASE DrainComplete
  BY <1>2 DEF DrainComplete
<1>3. CASE DrainNotify
  <2>1. /\ drainPc = "notify" /\ drainPc' = "notified"
        /\ UNCHANGED <<app, inProgress, complete, cleaner, udp, http>>
    BY <1>3 DEF DrainNotify
  <2>2. \A c \in Caller : callPc'[c] = IF callPc[c] = "waiting" THEN "lock" ELSE callPc[c]
    BY <1>3 DEF DrainNotify, NotifyCallers
  <2>3. StopRemembered'
    BY <2>1, <2>2
  <2> QED
    BY <2>1, <2>3
<1>4. CASE CleanerLoop \/ CleanerSleep \/ CleanerTimeout
  BY <1>4 DEF CleanerLoop, CleanerSleep, CleanerTimeout
<1>5. CASE UdpLoopEnds \/ UdpLoopBreaks
  BY <1>5 DEF UdpLoopEnds, UdpLoopBreaks
<1>6. CASE HttpListen
  BY <1>6 DEF HttpListen
<1>7. CASE HttpListenEnds
  <2>1. ~httpRunning
    BY <1>7 DEF HttpListenEnds, JoinInv, HttpJoined
  <2> QED
    BY <1>7, <2>1 DEF HttpListenEnds
<1>8. CASE DrainEnds
  BY <1>8 DEF DrainEnds
<1> QED
  BY <1>1, <1>2, <1>3, <1>4, <1>5, <1>6, <1>7, <1>8

LEMMA WaitMain ==
    ASSUME TypeOK, SafetyInv, DrainNeverCutShort, WaitInv, MainNext
    PROVE  WaitInv'
<1> USE DEF WaitInv, FlagsHonest, StopRemembered, JoinsEnd, TypeOK, FlagTypes, PlaceTypes, FlagsAgree,
            At, MainAt, MainGoto, app, manager, cleaner, udp, http
<1>1. CASE Run
  BY <1>1 DEF Run
<1>2. CASE StartCleaner \/ StartUdp
  BY <1>2 DEF StartCleaner, StartUdp
<1>3. CASE StartHttp \/ AwaitHttp \/ StartFails \/ Poll
  BY <1>3 DEF StartHttp, AwaitHttp, StartFails, Poll
<1>4. CASE StopHttp
  BY <1>4 DEF StopHttp
<1>5. CASE JoinHttp
  BY <1>5 DEF JoinHttp
<1>6. CASE StopUdp \/ JoinUdp
  BY <1>6 DEF StopUdp, JoinUdp
<1>7. CASE StopCleaner \/ JoinCleaner
  BY <1>7 DEF StopCleaner, JoinCleaner
<1>8. CASE StopDrain
  BY <1>8 DEF StopDrain, NotifyCallers, DrainNeverCutShort, StoppingRest
<1>9. CASE JoinDrain
  BY <1>9 DEF JoinDrain
<1> QED
  BY <1>1, <1>2, <1>3, <1>4, <1>5, <1>6, <1>7, <1>8, <1>9 DEF MainNext

LEMMA WaitStep ==
    TypeOK /\ SafetyInv /\ JoinInv /\ DrainNeverCutShort /\ WaitInv /\ [Next]_vars => WaitInv'
<1> SUFFICES ASSUME TypeOK, SafetyInv, JoinInv, DrainNeverCutShort, WaitInv, [Next]_vars
             PROVE  WaitInv'
  OBVIOUS
<1>1. CASE UNCHANGED vars
  BY <1>1 DEF WaitInv, FlagsHonest, StopRemembered, JoinsEnd, vars, app, manager, cleaner, udp, http
<1> QED
  BY <1>1, WaitCaller, WaitThreads, WaitMain DEF Next, Exited

\* However many stop requests and signals there are, no circle of waits comes
\* about: what sleeps sleeps on a drain that runs, what is joined has been
\* started and told to end, and an accepted shutdown has somebody to finish it.
THEOREM NoCircularWait == Spec => []WaitsEnd
<1>1. Init => WaitInv
  BY DEF Init, WaitInv, FlagsHonest, StopRemembered, JoinsEnd
<1>2. TypeOK /\ SafetyInv /\ WaitInv => WaitsEnd
  BY DEF WaitInv, WaitsEnd, CallersServed, TypeOK, PlaceTypes, FlagsAgree, SafetyInv, DrainWaited, Waiting, At
<1> QED
  BY <1>1, <1>2, WaitStep, SafetyHolds, JoinHolds, DrainUninterrupted, AppTypeCorrect, PTL DEF Spec

\* By the time stopServices comes to the shutdown manager nobody sleeps.
LEMMA NobodySleeps ==
    TypeOK /\ SafetyInv /\ mainPc \in StoppingRest => \A c \in Caller : ~At(c, "waiting")
  BY MainAssumption DEF TypeOK, PlaceTypes, SafetyInv, MainHeld, HandlersJoined, Caller, Starting,
     StoppingRest, At

\* A waiter that has missed its notification stays where it is, and the program
\* with it, unless a spurious wakeup helps.
THEOREM LostForGood == Spec => OnlyChanceWakes
<1> DEFINE Kept == \A c \in Caller : Forgotten(c) => Forgotten(c)' \/ SpuriousWakeup(c)
<1>1. TypeOK /\ SafetyInv /\ [Next]_vars => [Kept]_vars
  <2> SUFFICES ASSUME TypeOK, SafetyInv, Next, NEW c \in Caller, Forgotten(c)
               PROVE  Forgotten(c)' \/ SpuriousWakeup(c)
    OBVIOUS
  <2> USE DEF Forgotten, At, Move, Return, TypeOK, PlaceTypes, app, manager, cleaner, udp, http
  <2>1. ASSUME NEW d \in Caller, StopRequest(d) \/ CallerNext(d) \/ SpuriousWakeup(d)
        PROVE  Forgotten(c)' \/ SpuriousWakeup(c)
    BY <2>1 DEF StopRequest, CallerNext, SpuriousWakeup, Enter, Exchange, CheckComplete, Sleep,
       ClearRunning, FlagsAgree
  <2>2. CASE MainNext
    <3>1. mainPc \notin StoppingRest
      BY NobodySleeps
    <3> QED
      BY <2>2, <3>1 DEF MainNext, MainAt, MainGoto, StoppingRest, Run, StartCleaner, StartUdp,
         StartHttp, AwaitHttp, StartFails, Poll, StopHttp, JoinHttp, StopUdp, JoinUdp,
         StopCleaner, JoinCleaner, StopDrain, JoinDrain
  <2>3. CASE Signal \/ RefusedSignal \/ DrainComplete \/ DrainNotify \/ DrainEnds
    BY <2>3 DEF Signal, RefusedSignal, DrainComplete, DrainNotify, DrainEnds
  <2>4. CASE \/ CleanerLoop \/ CleanerSleep \/ CleanerTimeout
             \/ UdpLoopEnds \/ UdpLoopBreaks \/ HttpListen \/ HttpListenEnds \/ Exited
    BY <2>4 DEF CleanerLoop, CleanerSleep, CleanerTimeout, UdpLoopEnds, UdpLoopBreaks,
       HttpListen, HttpListenEnds, Exited, vars
  <2> QED
    BY <2>1, <2>2, <2>3, <2>4 DEF Next
<1> QED
  BY <1>1, SafetyHolds, AppTypeCorrect, PTL DEF Spec, OnlyChanceWakes
=============================================================================
