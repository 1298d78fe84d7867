# MiniPGW: TLA+ models and proofs

MiniPGW (`src/`) is a small Packet Gateway: `pgw_server` keeps one session per
subscriber (IMSI), created by a UDP request, closed by a cleaner thread when it
times out or by a paced drain when the server is shut down, and journals every
opening and closing in a CDR file. This directory holds TLA+ models of the
server's concurrent parts, TLC configurations that check them on small
instances, and TLAPS proofs of the main results for every instance.

    tlasany M.tla                                    parse
    tlc -workers 2 -config X.cfg MCsomething.tla     model-check
    tlapm SomethingProofs.tla                        check proofs

`PROJECT.json` lists components, runs, mutants (one per property: a plausible
bug in a mapped definition that the property must catch), the definition-to-source
map, findings, hazards and theorems.


## 1. Inventory

### Components

| component | state it keeps | operations | what makes it correct |
|---|---|---|---|
| `SessionManager` | none, and no lock: it calls the repository, journal, blacklist and limiter one after the other | `createSession`, `removeSession`, `cleanExpiredSessions`, queries | whatever threads interleave between two of its calls, each session opened is journalled as opened once and as closed once; a blacklisted subscriber never has one |
| `InMemorySessionRepository`, `Session` | map IMSI -> session (creation time), one mutex per call | `addSession` (never overwrites), `removeSession`, `refreshSession`, `sessionExists`, `getExpiredSessions`, `getAllImsis` | atomic per call; the expiry test truncates the age to whole seconds and needs more than the timeout |
| `Blacklist` | set, filled before any thread starts | `isBlacklisted` | - |
| `FileCdrRepository` | the CDR file, `_isHealthy`, its own mutex | `writeCdr` | a healthy journal loses no line; once a write fails it stays unhealthy for good |
| `RateLimiter` | a token bucket per IMSI, one mutex | `allowRequest` | never more than burst + rate in any window; refusals have no after-effect |
| `SessionCleaner` | thread, `_running`, condition variable | `start`, `stop`, `cleanerWorker` | expired sessions go; only expired sessions are endangered; `stop` ends |
| `GracefulShutdownManager` | `_shutdownInProgress`, `_shutdownComplete`, `_stopRequested`, thread, condition variable | `initiateShutdown`, `waitForCompletion`, `shutdownWorker`, `stop` | the drain visits every session of its snapshot, ends, and wakes whoever waits |
| `UdpServer` | socket, epoll, thread, `_running` | `start`, `stop`, `serverLoop`, `handleIncomingPacket`, BCD decoding | every request answered once; only 15-digit IMSIs reach the manager |
| `HttpServer` | httplib server, thread, `_running` | `start`, `stop`, `/check_subscriber`, `/stop` | stoppable from its own handlers' callback; joined when it ends |
| `AppBootstrap` | `_running`, all of the above | `initialize`, `run`, `initiateShutdown`, `stopServices`, signal handler | services stopped in order, none overtaken, all threads joined, the program ends |
| `JsonConfigAdapter` | `ServerConfig` with defaults | `load`, getters | a file that does not load leaves a usable configuration |
| `pgw_client` | its configuration, one UDP socket | `ClientConfig::loadConfig` (a text search), `initialize`, `sendRequest`: encode, send, poll with timeout, receive | it sends where its file and the server's agree, the answer printed is the answer to the request, and it comes to an end |
| `pgw_flood_client` | sender threads | send, never receive | - |
| `Logger` | the level, `_isHealthy`; spdlog's sinks, each with a mutex | `log` and its five shorthands | whoever writes gives the mutex back, also where a signal interrupts it |
| `ServerMetrics`, `ClientLogger` | output only | - | - |

### Who talks to whom

                    SIGINT/SIGTERM          GET /stop
                          |                     |
    pgw_client --UDP--> [UDP thread]   [HTTP listener + handlers]   [main thread]
                          |                     | initiateShutdown     | poll _running,
                          v                     v                      | stopServices
                    SessionManager <--- [shutdown thread] <------------+ joins all
                      |        ^
        repository ---+        +--- [cleaner thread]
        (mutex 1)     +--> CDR journal (mutex 2)
                      +--> RateLimiter (mutex 3)

Everything below `SessionManager` locks for itself and for one call only.
`AppBootstrap::initiateShutdown` runs in an HTTP handler or, from a signal, on
top of the main thread, and waits there for the shutdown thread on a condition
variable. All threads write to one `Logger`, and so to the same sinks.

### What is hard

- *Stale checks.* `createSession` asks `sessionExists` and then refreshes or adds
  in another lock region; `cleanExpiredSessions` removes from a snapshot;
  `removeSession` asks and then erases.
- *Removal against journalling.* The line is written after the session
  operation, under another mutex, by a thread that may be overtaken.
- *Two removers.* The cleaner and the shutdown thread may go for one session.
- *Requests during the drain.* UDP is stopped only after the drain.
- *Condition variables notified without their mutex*, a wait without a timeout.
- *A second /stop or signal* returns at once and clears `_running` while the first
  still waits.
- *A signal handler that logs*, on top of a thread that may be inside the logger.
- *A stop that comes before* `listen` *has been reached*.
- *Two readers of the same setting*, a JSON parser and a text search, with different widths.
- *Start-up that fails half way*, an HTTP listener that fails behind `start()`'s back.
- *A journal that breaks for good* with the first failed write.

The list with a line for each hazard, and the properties aimed at it, is
`hazards` in `PROJECT.json`.


## 2. Modules

| module | models | built on |
|---|---|---|
| `Subscribers` | IMSIs and the blacklist (constants) | |
| `SessionRepository` | `InMemorySessionRepository`, `Session`: one operator per locked method | `Subscribers` |
| `CdrJournal` | `FileCdrRepository::writeCdr` and its health flag | `Subscribers` |
| `SessionLedger` | *abstract*: what the session subsystem promises about sessions and lines | `CdrJournal` |
| `RequestService` | *abstract*: what `createSession` promises whoever asks for a session | `Subscribers` |
| `SessionLifecycle` | request threads, cleaner thread, shutdown thread and `stopServices` around the two stores; one action per call | `SessionRepository`, `CdrJournal`; `INSTANCE SessionLedger`, `RequestService` |
| `RateLimiter` | `RateLimiter` | `Subscribers` |
| `ServerPhases` | *abstract*: how a drain and the stop of the services follow on each other | |
| `AppLifecycle` | `AppBootstrap`, the flags, condition variables and joins of all threads | `INSTANCE ServerPhases` |
| `AppSignals` | the `Logger` and its sink beside those threads, and signals that interrupt a log call | `AppLifecycle` |
| `BcdCodec` | the request datagram: `PgwClient::encodeImsiToBcd`, the halves of a byte, and what the decoder is to compute in closed form | |
| `UdpExchange` | `pgw_client`'s request, `FloodWorker`'s sending, the UDP thread's receive, decode, answer | `Subscribers`, `BcdCodec` |
| `ConfigLoad` | `JsonConfigAdapter::load` key by key, `validateConfig`, and the constructors that `setupComponents` calls | |
| `ClientConfig` | `ClientConfig::loadConfig`, and `pgw_client` from `initialize` to the end of `poll`, beside that server | `ConfigLoad` |
| `MC...` | constants for TLC | the module they name |
| `...Proofs` | theorems | the module they name |

### SessionLifecycle

`pc[t]` is where a thread is. A repository or journal method is one step because
it holds its mutex throughout; between two of them any other thread may run.

    request thread   idle -Request-> exists -CheckExists-> refresh -Refresh-> reply
                                                        \-> new -NewSession-> add -Add-> cdr -WorkerCdr-> reply
                     (refused: straight to cdr)                                \-> reply (addSession failed)
    cleaner          sweep -> next -RemoveExpired-> cdr -> next ... -EndSweep-> wait -> sweep
    shutdown thread  off -> snapshot -> next -CheckActive-> remove -RemoveDrained-> cdr -> count -> wait -> next ... done
    stopServices     running -> stop_udp -> stop_cleaner -> stop_shutdown -> stopped

`NewSession` is a step of its own since `Session`'s constructor reads the clock
before the repository's mutex is taken. The verdict of the rate limiter is a free
boolean: `RateLimiter` says what it can be. `isSessionActive` and the
`sessionExists` that opens `removeSession` ask the same question of the same
store one after the other; they are one step (`CheckActive`): two steps would add
only the outcome "gone in between", which `RemoveDrained` has anyway.
`late` and `touched` are history variables: nothing reads them but properties.
The waits of the cleaner and of the drain are waits that end; their lengths are
not modelled.

The UDP loop looks at `_running` before it takes a packet, so that one that comes behind the look is still handled while
`stop` waits in its join (`Request` in `"stop_udp"`); after that packet the loop is over (`"ended"`, `Free`).
That `stopServices` and a shutdown follow on each other as they do is not derived here: the guards of `StopUdp` and
`InitiateShutdown` take it from `AppLifecycle` (`ServerPhases`, below), and `StopMayInterrupt` = TRUE drops it.

### SessionLedger

The abstract specification: sessions as a set, and for each thread the line it
owes. `Open`, `Close` and `Refuse` leave a debt, `Settle` pays it (or loses it,
when the journal breaks). `SessionLifecycle` maps to it with `sessions <- GetAllImsis`
and `debt` computed from `pc`, `target` and `record`: a thread at `cdr` owes what it is
about to write. `Balanced` follows from the ledger alone: lines written plus lines
owed for openings equal those for closings, plus one if there is a session.

### RequestService

The other abstract specification: a thread takes one request at a time, decides on it *once* and
answers what it has decided. "created" is decided at a moment at which the subscriber has a session,
found (`Confirm`) or stored (`Store`, never for a blacklisted one). What happens to the session
between decision and answer is nobody's promise, and that is exact: `LifecycleRefreshRace` shows that
more cannot be said. In `SessionLifecycle` the moment is `CheckExists` when it
finds the session, and `Add` otherwise; what follows (`Refresh`, the CDR line) is after the decision, and an
`addSession` that fails is "rejected" on the wire (`OnTheWire`).
That only removals take place beside it, and one session at a time, is part of it (`Remove`).

### RateLimiter

The code's tokens are doubles. The model counts in units of 1/`TokenCost` of a
token, with `TokenCost` = 10 * `TicksPerMinute`, so that the refill of one tick and
the bucket size (a tenth of the limit) are whole numbers for *every* limit and
clock resolution: nothing is rounded. Rounding of doubles is not modelled.
`since` and `admitted` are an observer's window.

### AppLifecycle

A condition variable is three places: predicate about to be evaluated (`lock`),
found false (`armed`), asleep (`waiting`). `notify_all` moves those asleep only. No notifier
of this program holds the mutex, so it may fall between `lock` and `waiting`. The
signal handler is `Main` acting as a caller: while it runs, no action of the main
thread (`MainAt`) is enabled; another signal on top of it is refused (`RefusedSignal`).
A start that fails is logged (`"start_failed"`) before `_running` is cleared, and a signal may come in between. The drain's thread
stores, notifies and then still logs, so that its end (`DrainEnds`) is a step of its own: a waiter is forgotten only if it still waits then. External code - `std::condition_variable`, what
httplib's `listen` does - is modelled from how the server uses it: `listen` returns
when it has been stopped and its handlers have finished, or fails; a `stop` that comes
before `listen` has opened its socket is lost (`StopHttp`).

Who waits for whom is a chain: main joins the listener, the listener its /stop handlers, a handler sleeps until the drain
completes, and a signal handler does the same on top of main. `WaitsEnd` says that each link ends in a thread that waits for
nobody and will release it: a sleeper on an incomplete drain has a drain at work (`CallersServed`), an accepted
shutdown has a caller that will clear `_running` (`StopRemembered`), and what main joins has been started and told to end (`JoinsEnd`).
`OnlyChanceWakes` is the other side: a notification that fell between predicate and sleep is lost for good, although
`GracefulShutdownManager::stop` notifies once more, because main calls it only after it has joined everybody who might sleep.

*Which thread a signal comes to.* No thread of the server blocks SIGINT or SIGTERM, and POSIX then lets the system run the handler on
any of them. The model assumes the main thread for a signal that starts a drain, which is what Linux does for a signal sent to the
process as long as that thread does not block it and has no other pending; a signal that comes when a drain has begun is refused and may be
on any thread. `DrainNeverCutShort`, `OnlyFailedListenerLeaks`, `WaitsEnd` and `PhasesRefined` rest on that. On the UDP or the cleaner's thread the handler would
wait for the drain while main, which is then free, joins that thread only after HTTP: nothing would keep a second stop from clearing `_running` and
main from getting to `UdpServer::stop` with the drain at work; on a thread of the metrics' exposer nobody joins the handler at all.
Two signals of different kinds on two threads at once are refused one by the other (`Exchange`), as two /stop requests are.

### AppSignals

The same threads with what they log. `Written` is one message of the main thread or of a
handler on top of it: below the level nothing happens, on a free sink it is inside (`"in"`), and on a
sink the interrupted main thread holds it waits for ever (`"stuck"`). `TakeSignal` may come at either moment.
`MainSays` and `CallSays` give the most severe message of a step, for whether something is written is all
that matters; where a warning need not come (`SO_REUSEADDR`), either. The level is what `stringToLevel` makes of the
configuration, or `Off` after the constructor has caught an exception.

The log calls of other threads are not interrupted (the assumption above), so what they log they log within their step, once
the mutex is free (`Heard`): the drain on either side of its notification, the listener its success or its failure.
A drain may have more to write: a session that cannot be removed (WARN, ERROR), a CDR that cannot be written (ERROR, CRITICAL),
sessions that are left (WARN, CRITICAL); so may a sweep. `Trouble` says that such a thread has come to such a message while the main thread holds
the sink, and `Untroubled` that it gets no further until the sink is free. A lock the thread holds meanwhile
(the journal's, `FileCdrRepository.cpp:65`) makes the others wait no longer than that. Sessions exist only once the UDP thread has been started, and before that there
is nothing to warn of.

So a circle can close, and does in one place: a signal that finds the main thread in the message of a failed start
(`AppBootstrap.cpp:94`), at level WARN or ERROR, is not announced by its handler, which starts a drain and waits for it; the drain has a warning to write
and waits for the sink below the handler. `SinkHeldAtStartOnly` says that it is the only place: elsewhere the main thread's messages are INFO, at a level that lets
these through the handler hangs by itself at its own first message, and at any other nothing is held. The one other
message, a warning before UDP is started, is on top of no session. `SinkCircle` is its state, and an exception in `StopHonoured`.

### ServerPhases

`drain` is none, running or complete; `services` up, stopping or down. A drain begins at most once
and only with the services up, ends while they are up, and the services are stopped with no drain running. None of it is a guard in
`AppLifecycle`, which *guarantees* it whatever callers and failures do (`PhasesRefined`): it follows from who waits for whom, and from
the order of the joins. `SessionLifecycle`, which knows nothing of callers and signals, *assumes* it in the
guards of `StopUdp` and `InitiateShutdown`, and states no property of it.

### BcdCodec and UdpExchange

A byte is a number below 256, an IMSI the sequence of its digits; characters, text
and logging are left out. `EncodeImsiToBcd` is the client's encoder. The server's decoder is
left as the loop it is: one `DecodeByte` per round, its refusals and its two `break`s as
disjuncts, `EndDecode` for the length test behind it. `WellFormed` and `ImsiOf` say without a loop
what that loop is there to compute, and nothing in the model uses them but
properties and proofs.

The network is the set of all datagrams ever sent. A datagram in it may never be
received (lost), be received late or out of order, or again and again, so nothing
else needs to be said of UDP. What other senders send is any member of `Datagram` at
any time. `ReceivePacket` takes one, `SendResponse` answers to where it came from. Each `Client` is
one run of `pgw_client`: one socket, one request, then the process ends with what
`sendRequest` returned. `CreateSession` is the verdict alone - no for the blacklist, and
possibly no for anyone, an exception that the handler catches and answers "rejected" included; whom the server serves is `SessionLifecycle`'s subject. The epoll loop and the
stop flag are `AppLifecycle`'s.

### ConfigLoad

One `ReadKey` per `if (contains(...))` block of `load`, in the order of the code; a value of the
wrong kind is the exception that ends it and leaves what came before. nlohmann's conversions
are external and modelled by what they do: the low 16 or 32 bits (`Narrowed`; 2^32 is the
constant `CountModulus`, since TLC's integers are smaller). `Build` is one constructor of
`setupComponents` after the other; those that can refuse nothing are left out. `isValid` is what
`load` returns, and no action of the model reads it, as no line of the server does.

### ClientConfig

The client does not parse its file: it looks for `"key"`, for the next colon, and then for the next quoted
string, or for what stands up to the next comma, brace or new line. So the file is its text here, as a sequence of
tokens, and `FindFrom` is `std::string::find`; what the search takes for a value need not be the key's.
White space is left out, and strings hold neither quotes nor marks. `ClientLoadExact` says in terms of the file's
*entries* what the search yields, `PortsAgree` compares the two programs' readings of one port, and
`PollWait` is the `int` that `poll` makes of a `uint32_t`. The client runs beside `ConfigLoad`'s server: it can be answered only
by a server that came up on the port it sends to.


## 3. Runs

| run | module / bounds | states | shows |
|---|---|---|---|
| `LifecycleSafety` | 1 request thread, subscribers a, b, blacklisted x, 3 requests, half-second clock 0..4 with a timeout of one second; symmetry in a, b | 1.4M | the deployed server: journal and sessions balance, `addSession` never fails, the drain covers its snapshot, the cleaner endangers only expired or since-touched sessions; drain and sweep get shorter with each of their steps and longer by nobody's |
| `LifecycleLiveness` | 2 request threads, a and x, 2 requests, `stop()` may cut the drain; fairness | 250k | callers the deployed server does not have still implement the ledger (and so keep the blacklist) and `RequestService`; expired sessions go, requests are answered, shutdown completes, `stopServices` ends |
| `LimiterBudget` | 2 subscribers, bucket of 2, one token every other tick, 8 ticks | 64k | burst + rate bounds every window; a polite client is never refused |
| `AppThreads` | 2 /stop requests, signals at any moment, also inside a log call, every start and stop failure, a drain and a cleaner with warnings to write, levels INFO, WARN and a broken logger; fairness | 230k | the stop sequence never overtakes a drain, all threads but a failed listener are joined, one caller at most sleeps, no joins and waits for a drain form a circle, a lost notification stays lost; the sink is held against a drain nowhere but where a start fails; `ServerPhases` is implemented; a stop that finds `run()` entered ends the program but for the exceptions that are findings or known divergences |
| `ExchangeSafety` | 2 clients, a flooder, another sender; two IMSIs (one blacklisted) that differ in the last digit; ten datagrams around every test of the decoder | 2.6M | the server decodes exactly what is well formed; no answer a client gets belongs to another request |
| `ConfigLoad` | every server file with at most two unusual keys: missing, of another kind, empty, zero, negative, too wide; beside those that differ in address or port, client files with an unusual value, in four orders, with a key missing or twice, closed or cut short | 451k | the server's file counts up to its first bad value and no further; the verdict is exact; although it is ignored, no server comes up with a zero port, timeout, interval or rate; what the client's search finds is exact, the two agree on a port their files agree on, and a client ends unless its timeout is no `int` |

Six runs refute what a document, comment or message of the repository says; each
is a finding:

| run | counterexample |
|---|---|
| `LifecycleRefreshRace` | repeated request finds the session, the cleaner removes it, `refreshSession` returns false and is ignored: "created", and no session |
| `LifecycleStaleSweep` | the sweep snapshots an expired session, a request refreshes it, the sweep removes it as timed out |
| `LifecycleLateSession` | a session stored after the drain's snapshot is still there when "all sessions successfully offloaded" is logged |
| `AppLostWakeup` | the waiter finds `_shutdownComplete` false, the shutdown thread stores it and notifies, the waiter goes to sleep: no timeout, no second notification |
| `AppListenFails` | `listen` fails, clears `_running`, and `HttpServer::stop` returns before its join |
| `AppSignalHangs` | a signal comes while the main thread writes a message; the handler logs "Graceful shutdown initiated" and waits for the sink's mutex, which the thread it runs on holds |

*Why these bounds are enough.* The conflicts of this code are between one
session's writers: request thread, cleaner, drain. One subscriber is enough for
each of them; two are there so that a snapshot can hold more than one and be
interrupted between them; the third is blacklisted. Three requests let a session be
created, refreshed and created again around a sweep or a drain. Two seconds with a
`SessionTimeout` of one let a session expire (the age must *exceed* the timeout); the
half-second clock of `LifecycleSafety` lets the truncation of the age matter. Two
request threads and two requests are a race for one IMSI. Two
/stop requests and the main thread give a winner, a loser, and a loser that runs on
top of the main thread; with the other signal, a handler on top of a handler. The levels of
`AppThreads` are one for each way a shutdown can log: at INFO (and below, where only the cleaner has more to say) handlers are announced, and can hang; at WARN (and at
ERROR, but for the one warning of a start) they are silent while main and drain may write; with a broken logger nobody writes. In `LimiterBudget` eight ticks refill the bucket of two
twice over. In `ExchangeSafety` two clients are an answer and the wrong answer;
the IMSIs differ in the half that shares its byte with the filler, one is refused and
one may be created, so a verdict that went astray shows; the datagrams are an empty
one, lengths 7, 8 and 11, a misplaced filler with and without bytes after it, trailing
bytes, a digit in place of the filler, a bad low half and a bad high half. In `ConfigLoad`
two unusual keys are a bad one and one before or after it; the four orders of the client's keys put each
key first, last and before another, and 2^20 stands for 2^32, so that 600000 is beyond `int` and 40000 beyond sixteen bits' sign. `MaxRequests` and `MaxTime` are the only bounds on otherwise unbounded
behaviour; the theorems do not depend on their values.

*Deadlock* is checked in every run; the only state without progress is the end
of the program (`Stopped`, `Exited` stutter there).

### Fairness

Weak fairness for every thread's own steps: the operating system schedules them,
mutexes are held for one call, and no step of a thread can be disabled forever
by another. The cleaner's interval passes (`CleanerWake`, `CleanerTimeout` are `wait_for`
with a timeout). The main thread has strong fairness: signals keep interrupting it,
and each time it is back it is enabled again. In `AppSignals` so have the threads that log: the sink's
mutex is free again and again, and a `std::mutex` is not withheld from one thread for ever by others that pause
for seconds between two messages. Nothing is fair about a drain that comes upon something to warn of (`Trouble`) or a signal that is refused (`TakeElsewhere`). The client's own steps and the end of `poll`'s timeout are weakly fair, its
answer is not. No fairness for what comes from
outside: packets, /stop requests, signals, the clock, spurious wake-ups, epoll
errors, a failing write. `ExpiredSessionsGo` therefore does not say that sessions expire,
only what happens when they have.


## 4. Proofs

All theorems hold for every value of the constants that satisfies the named
assumptions: `BlacklistAssumption`, `TimeAssumption`, `ThreadAssumption` (any finite number of
request threads), `LimiterAssumption` (any limit, 0 included), `MainAssumption` (any number of
/stop requests), `ExchangeAssumption` (any clients and flooders, datagrams of any length and
content), `ConfigAssumption` (files of any content, any modulus), `ClientAssumption` (client files with any number of entries, in any order). TLC evaluates these assumptions in the runs.

- `SessionLedgerProofs`. `LedgerCorrect`: the ledger's discipline keeps `Balanced` and
  `BlacklistRespected`. The invariant is `LedgerInv`; the work is in counting: paying or taking
  on a debt changes the cardinality of one set `Owing(i, a)` by one (`OweCounts`, `SettleCounts`).
- `SessionLifecycleProofs`. `TypeCorrect` is inductive together with `HandTypeOK` (what a
  thread has in hand at each place). `DrainCorrect`, `SweepCorrect` and `SoleWorkerCorrect` are inductive
  relative to it and proved one action at a time. `LedgerImplemented` is the refinement: each
  action maps to one ledger step (`Add` -> `Open` or a stutter, `RemoveExpired` and `RemoveDrained` ->
  `Close` or a stutter, `Request` -> `Refuse` or a stutter, the three `...Cdr` -> `Settle`), everything else
  stutters. `JournalCorrect` transports `LedgerCorrect` along it, so the balance is never proved of the
  threads themselves. `ServiceImplemented` is the second refinement, to `RequestService`, for any number of request threads. It needs
  `AnswerInv` (a thread has an answer in hand exactly when it logs or sends) so that no decision is taken
  twice; `WorkerApart` and `OthersApart` say that a worker's step concerns no other worker, and that whoever else steps can only
  take sessions away. `DrainBounded` and `SweepBounded` are the safety half of `ShutdownCompletes` and `ExpiredSessionsGo`: a measure
  (`DrainLeft`, `SweepLeft`) that falls with every step of the thread and rises with nobody's. They count the snapshots, so these must be
  finite (`FiniteInv`), although the set of subscribers need not be; that the repository is finite at every moment is a
  consequence of `ServiceImplemented`, for in `RequestService` sessions come one at a time.
- `RateLimiterProofs`. `AdmissionBound` is not inductive: a state with a full bucket and a spent
  window would satisfy it and break it one step later. `Budget` adds what the bucket would
  hold if looked at now (`Refilled`), and is. `PoliteClientsAdmitted` is an action property from types alone.
- `AppLifecycleProofs`. `DrainNeverCutShort` needs to know why main cannot get past a drain:
  `DrainWaited` (a drain that is not complete has a waiter), `MainHeld` (if the waiter is the
  signal handler, main is in it), `HandlersJoined` (if it is an HTTP handler, main is not past the
  HTTP join) and `OneSleeper`. `ThreadsJoined` uses one invariant per thread, relating its place to how far
  main has come. `NoCircularWait` combines these: `WaitsEnd` is proved with `FlagsHonest` (a flag
  that makes a `stop()` join a thread belongs to one that was started) on top of the invariants of `DrainUninterrupted` and `ThreadsJoined` (`JoinHolds`).
  `LostForGood` is the action property: its heart is `NobodySleeps`, that no caller is left once main has got
  to `StopDrain`, the only step besides the drain's own that notifies.
- `UdpExchangeProofs`. `RoundTrip`: what the encoder makes of an IMSI is well formed and holds that
  IMSI. `DecoderCorrect` proves the decoder's loop against the closed form: `LoopInv` says that `imsi` is the
  halves read so far, all of them digits, two to a byte; the induction over the loop is the
  state machine's own, so no recursive operator is involved. `AnswersCorrect` follows a request on
  its way (`RouteInv`: in a datagram, in the server's hands, in a verdict, in an answer) and uses
  `RoundTrip` and `DecoderCorrect` where it is decoded.
- `ConfigLoadProofs`. `LoadCorrect` and `VerdictCorrect` rest on `LoadInv`: `Taken(S)` says the configuration is the file's for
  the keys of `S` and the defaults for the rest; the loop keeps it for the keys read so far, and `CountsRead` shows
  that where the loop ends these are the keys the closed form counts. `ReadyCorrect` needs `SetupInv`: what has
  been built has accepted the configuration.
  `AppPhases` is the refinement to `ServerPhases`, and follows from the invariant of `DrainUninterrupted`.
- `AppSignalsProofs`. Every step of `SigSpec` is one of `AppLifecycle` with more guards, or leaves its variables alone (`SpecImplemented`,
  a lemma: it says nothing of the code); `ServerSafe`, `SignalledPhases` and `SignalledLost` carry `ThreadsJoined`, `AppPhases` and
  `LostForGood` over by it. `SinkHeldCorrect` proves `SinkHeldAtStartOnly` with an invariant (`SinkInv`, kept by `LogStep`) that follows a log call from the step that
  wrote it to its end: which places of `run()` are reached inside a call and at which levels, that a handler on top of one that got past
  its first message is silent at that level, and that no drain is in trouble before the UDP thread has been started (`UdpUnstartedHolds`).
- `ClientConfigProofs`. `ClientLoadCorrect` proves the search over the text against the closed form over the entries: `TextOfEntry` and
  `TextPlaces` say what stands where, `FirstExists` that a search that can hit has a first hit (naturals are well-founded),
  `ColonFound`, `TextFound` and `NumberFound` what the three searches come upon. `PortsCorrect` combines it with `LoadCorrect`;
  `ServerBesideClient` carries the server's theorems over to the two programs.

Only model-checked: all liveness properties (`ExpiredSessionsGo`, `RequestsAnswered`, `ShutdownCompletes`,
`ServicesStop`, `StopHonoured`, `FailedStartExits`, `ClientEnds`), since ENABLED and fairness are out of
the prover's reach, and the six refutations.


## 5. Known divergences without a run

- A signal between `initialize()` and `run()` is dropped by `if (!_running) return`
  (`AppBootstrap.cpp:111-113`), with a message that calls it a repeated one. `StopHonoured` begins
  where `run()` has been entered.
- `HttpServer::stop` before its thread has reached `listen` stops nothing (`HttpServer.cpp:73, 82`): `listen` then runs, and the join
  waits for it. A signal within the 100 ms that `start` allows for it can get there; `StoppedTooEarly` is the exception in `StopHonoured`.
- At level WARN or ERROR, a SIGINT that finds the main thread in the error message of a failed start (`AppBootstrap.cpp:94`, and
  98 clears `_running` only later) starts a drain and waits for it on top of the sink's mutex. If UDP has served by then - the HTTP port is taken,
  which shows 100 ms later - and the drain has a warning or an error to write (`GracefulShutdownManager.cpp:119, 139, 147`, `SessionManager.cpp:93`,
  `FileCdrRepository.cpp:46, 65`), both wait for ever: `SinkCircle`.
- A signal taken by another thread than the main one, which nothing in the code excludes (`AppBootstrap.cpp:57-58` blocks none in them): the assumption
  under `AppLifecycle` above, and what would become of the properties without it.
- A `receive_timeout_ms` from 2^31 on (or a negative one, through `stoul`) reaches `poll` as a negative `int`, and the client waits
  for ever (`ClientConfig.cpp:110`, `PgwClient.cpp:206`): the precondition of `ClientEnds`.
- A value that is no string where `ClientConfig` looks for one yields the name of the next key (`ClientConfig.cpp:50`), so that
  `"log_level": 5` before another key is refused and `"log_file": 5` logs to a file of that name. `ClientLoadExact` says so.
- An epoll error ends the UDP thread and leaves `_running` set (`UdpServer.cpp:126`): the server looks
  alive and serves nothing. `UdpLoopBreaks` models it.
- After one failed write the CDR repository drops every line (`FileCdrRepository.cpp:44, 63`) and the
  server goes on. `cdrHealthy`; `CdrBalanced` is conditional on it.

- `PgwClient::sendUdpPacket` has its `inet_pton` commented out (`PgwClient.cpp:168-171`): `server_ip` is logged but
  not used, and the datagram goes to address 0.0.0.0. Addresses are not modelled.
- `PgwClient::receiveResponse` accepts any datagram on its socket. `AnswersAreVerdicts` holds because `pgw_client` makes
  one request per socket, and because `UdpExchange` has only the server answer; a `PgwClient` used again after a
  timeout would take the late answer to its first request for the second's.

- A value of the wrong kind anywhere in `server_config.json` loses the blacklist, which `load` reads last, and the
  server starts without it (`JsonConfigAdapter.cpp:77`, `AppBootstrap.cpp:179`): `LoadExact` says exactly that.
- `max_requests_per_minute: 0` is refused by `validateConfig` and by nobody else: the server starts and admits each
  subscriber once. It is the exception in `ReadyIsUsable`.
- `metrics_port` of `server_config.json` is never read: `getUint` does not know the key (`AppBootstrap.cpp:181`), the port is 9101.
- Burst and rate add up: with the bucket full, a minute admits a tenth more than `max_requests_per_minute`
  (`RateLimiter.cpp:13`), which `RateLimiter.h:34` calls the maximum per minute. `AdmissionBound` states the sum.


## 6. Not modelled

- `ServerMetrics` and `ClientLogger`: output only, no decision depends on them. Of `Logger`, what the messages
  say, and `setLogLevel`, `getLogLevel`, `isHealthy` and `flush`, which nothing in the server calls.
- `/check_subscriber`, `/health` and `/`: they change no state, and what they answer is one locked read.
- `InMemorySessionRepository::clear`: only tests call it.
- `pgw_flood_client` but for its datagrams: it measures its own sending, and no other program sees more of it than they.
- Log calls of threads other than main that a signal interrupts (see the assumption under `AppLifecycle`).
- The lengths of waits (so `1000 / rate` too), rounding of doubles, the growth of the limiter's map:
  the code takes no decision on them that a property could examine. Jumps of `system_clock`: what is said of expiry
  (`VictimsExpiredOrTouched`, `ExpiredSessionsGo`) is said of a clock that does not run backwards.
- The two mutexes with which `_shutdownCondition` is waited on (`GracefulShutdownManager.cpp:69, 130`): the standard leaves it
  undefined; glibc's condition variable keeps no mutex of its waiters, so that what can happen is what `AppLifecycle` has.
- Docker, CMake, Prometheus; the tests were read for what they claim.


## 7. Plan

Done: `SessionLedger`/`RequestService`/`SessionLifecycle`, `RateLimiter`, `AppLifecycle`/`AppSignals`/`ServerPhases`, `BcdCodec`/`UdpExchange`,
`ConfigLoad`/`ClientConfig`, with their proofs. What could follow:

1. `/check_subscriber` as a reader beside the other threads, for a client that asks after it was told "created".
2. `pgw_flood_client`'s workers, their start and stop.
