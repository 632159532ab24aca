------------------------------ MODULE Lifecycle -----------------------------
(***************************************************************************)
(* How the gateway's process starts, stops and is watched:                 *)
(* src/src/main.cpp, src/src/application.cpp, and the watchdog of          *)
(* src/src/device_controller.cpp.                                          *)
(*                                                                         *)
(* The main thread, the detached watchdog thread and the MQTT client's     *)
(* callback thread run side by side; a signal interrupts one of them and   *)
(* runs signal_handler there, on its stack, before it goes on, and the     *)
(* other one of the two signals may interrupt that handler in turn.  All   *)
(* that log take Logger::mutex_ (src/src/logger/logger.cpp), the handler   *)
(* included.  A second signal starts a thread that ends the process a      *)
(* second later.                                                           *)
(*                                                                         *)
(* A step is one statement that touches what the threads share; a          *)
(* statement that logs is two, taking the mutex and giving it back.        *)
(***************************************************************************)
EXTENDS Integers

CONSTANTS
  WatchdogTimeout,      \* polling.watchdog_timeout_sec
  MaxSignals,           \* bound of the model: signals sent from outside
  SignalsWhileLogging   \* whether a signal may interrupt what is logging

ASSUME ConstantTypes ==
  /\ WatchdogTimeout \in Nat
  /\ MaxSignals \in Nat
  /\ SignalsWhileLogging \in BOOLEAN

Threads == {"main", "watchdog", "callback"}

\* What runs on a thread: its own code, a handler that has interrupted it, and one for
\* the other signal that has interrupted the handler.
Own(t)    == <<t, 0>>
Outer(t)  == <<t, 1>>
Nested(t) == <<t, 2>>
Under(h)  == <<h[1], h[2] - 1>>
Handlers  == Threads \X {1, 2}

\* Who may hold the mutex.
Nobody == <<"none", 0>>
Places == (Threads \X {0, 1, 2}) \cup {Nobody}

VARIABLES
  pc,            \* the main thread: init, start, loop, cycle, shutdown, destroy, ended
  watchdog,      \* the watchdog: off, start, check, asleep, late, alarm, ...
  handler,       \* per handler: idle, count, store, branch, ...
  seen,          \* per handler: the value of signal_count it has loaded
  logging,       \* who holds Logger::mutex_, or Nobody
  forcing,       \* a thread started by the handler is about to call _exit(1)
  status,        \* what the process ended with: none, success, failure, killed, crash
  g_running, g_force_exit, signal_count,
  elapsed,       \* seconds since update_watchdog, counted up to WatchdogTimeout + 1
  hung,          \* the main thread is stuck in a cycle for good
  sent,          \* signals sent from outside so far
  raised,        \* signals raised by the watchdog
  late           \* history: a cycle has gone on for longer than WatchdogTimeout

flags == <<g_running, g_force_exit, signal_count>>
clock == <<elapsed, late>>
count == <<sent, raised>>
vars  == <<pc, watchdog, handler, seen, logging, forcing, status, flags, clock, hung,
           count>>

Ended == pc = "ended"

\* A thread runs its own code: it is neither in a handler nor inside write_log.
Runs(t) == ~Ended /\ handler[Outer(t)] = "idle" /\ logging # Own(t)

\* LogStream::~LogStream calls write_log, which waits for the mutex.
TakeLog(f) == logging = Nobody /\ logging' = f

----------------------------------------------------------------------------
(* The main thread: main, Application::initialize, run and shutdown.       *)

\* initialize returns false, or the constructor throws: main returns 1.
InitializeFails ==
  /\ Runs("main") /\ pc = "init"
  /\ pc' = "ended"
  /\ status' = "failure"
  /\ UNCHANGED <<watchdog, handler, seen, logging, forcing, flags, clock, hung, count>>

\* initialize has made the controller, whose constructor takes the time, logs its
\* success, and run is called.
Initialize ==
  /\ Runs("main") /\ pc = "init"
  /\ TakeLog(Own("main"))
  /\ pc' = "start"
  /\ elapsed' = 0
  /\ UNCHANGED <<watchdog, handler, seen, forcing, status, flags, late, hung, count>>

\* start_watchdog starts and detaches the thread; run logs that it begins.
StartWatchdog ==
  /\ Runs("main") /\ pc = "start"
  /\ TakeLog(Own("main"))
  /\ watchdog' = "start"
  /\ pc' = "loop"
  /\ UNCHANGED <<handler, seen, forcing, status, flags, clock, hung, count>>

\* while (running && !force_exit), then update_watchdog.
EnterCycle ==
  /\ Runs("main") /\ pc = "loop"
  /\ g_running /\ ~g_force_exit
  /\ pc' = "cycle"
  /\ elapsed' = 0
  /\ UNCHANGED <<watchdog, handler, seen, logging, forcing, status, flags, late, hung,
                 count>>

\* Polling, commands and statistics, which log at this or that point or not at
\* all, and the sleep.
FinishCycle ==
  /\ Runs("main") /\ pc = "cycle"
  /\ ~hung
  /\ pc' = "loop"
  /\ TakeLog(Own("main")) \/ UNCHANGED logging
  /\ UNCHANGED <<watchdog, handler, seen, forcing, status, flags, clock, hung, count>>

\* The loop ends: run logs it and returns to main, which calls shutdown.
LeaveLoop ==
  /\ Runs("main") /\ pc = "loop"
  /\ ~(g_running /\ ~g_force_exit)
  /\ TakeLog(Own("main"))
  /\ pc' = "shutdown"
  /\ UNCHANGED <<watchdog, handler, seen, forcing, status, flags, clock, hung, count>>

\* Both disconnect calls return in bounded time; the rest of main is logging.
Shutdown ==
  /\ Runs("main") /\ pc = "shutdown"
  /\ TakeLog(Own("main"))
  /\ pc' = "destroy"
  /\ UNCHANGED <<watchdog, handler, seen, forcing, status, flags, clock, hung, count>>

\* ~Application destroys the controller first, then ~MqttManager disconnects; in
\* between pc is "destroy".  main returns 0.
ReturnFromMain ==
  /\ Runs("main") /\ pc = "destroy"
  /\ pc' = "ended"
  /\ status' = "success"
  /\ UNCHANGED <<watchdog, handler, seen, logging, forcing, flags, clock, hung, count>>

MainThread ==
  \/ InitializeFails \/ Initialize \/ StartWatchdog
  \/ EnterCycle \/ FinishCycle \/ LeaveLoop
  \/ Shutdown \/ ReturnFromMain

\* The log line is written and the mutex given back.
EndLog(t) ==
  /\ ~Ended
  /\ logging = Own(t)
  /\ handler[Outer(t)] = "idle"
  /\ logging' = Nobody
  /\ UNCHANGED <<pc, watchdog, handler, seen, forcing, status, flags, clock, hung, count>>

\* The callbacks log what arrives and that a connection is lost or back, at any time
\* (mqtt_manager.cpp, device_controller.cpp).
CallbackLogs ==
  /\ Runs("callback")
  /\ TakeLog(Own("callback"))
  /\ UNCHANGED <<pc, watchdog, handler, seen, forcing, status, flags, clock, hung, count>>

----------------------------------------------------------------------------
(* The watchdog thread.                                                    *)

WatchdogStarts ==
  /\ Runs("watchdog") /\ watchdog = "start"
  /\ TakeLog(Own("watchdog"))
  /\ watchdog' = "check"
  /\ UNCHANGED <<pc, handler, seen, forcing, status, flags, clock, hung, count>>

WatchdogCheck ==
  /\ Runs("watchdog") /\ watchdog = "check"
  /\ watchdog' = IF g_running /\ ~g_force_exit THEN "asleep" ELSE "ended"
  /\ UNCHANGED <<pc, handler, seen, logging, forcing, status, flags, clock, hung, count>>

\* Mutant: it looks once, an if where the loop is.
WatchdogWakesOnce ==
  /\ Runs("watchdog") /\ watchdog = "asleep"
  /\ pc # "destroy"
  /\ watchdog' = IF elapsed > WatchdogTimeout THEN "late" ELSE "ended"
  /\ UNCHANGED <<pc, handler, seen, logging, forcing, status, flags, clock, hung, count>>

\* After its five seconds of sleep it reads the time of the last cycle.
WatchdogWakes ==
  /\ Runs("watchdog") /\ watchdog = "asleep"
  /\ pc # "destroy"
  /\ watchdog' = IF elapsed > WatchdogTimeout THEN "late" ELSE "check"
  /\ UNCHANGED <<pc, handler, seen, logging, forcing, status, flags, clock, hung, count>>

\* The same when the controller it belongs to is already destroyed: what it reads
\* is arbitrary, or the access is fatal.
WatchdogWakesTooLate ==
  /\ Runs("watchdog") /\ watchdog = "asleep"
  /\ pc = "destroy"
  /\ \/ watchdog' \in {"late", "check"} /\ UNCHANGED <<pc, status>>
     \/ pc' = "ended" /\ status' = "crash" /\ UNCHANGED watchdog
  /\ UNCHANGED <<handler, seen, logging, forcing, flags, clock, hung, count>>

\* The second operand of its &&.
WatchdogLate ==
  /\ Runs("watchdog") /\ watchdog = "late"
  /\ watchdog' = IF g_running THEN "alarm" ELSE "check"
  /\ UNCHANGED <<pc, handler, seen, logging, forcing, status, flags, clock, hung, count>>

\* It logs the alarm.
WatchdogAlarm ==
  /\ Runs("watchdog") /\ watchdog = "alarm"
  /\ TakeLog(Own("watchdog"))
  /\ watchdog' = "force"
  /\ UNCHANGED <<pc, handler, seen, forcing, status, flags, clock, hung, count>>

WatchdogForces ==
  /\ Runs("watchdog") /\ watchdog = "force"
  /\ g_force_exit' = TRUE
  /\ watchdog' = "raise"
  /\ UNCHANGED <<pc, handler, seen, logging, forcing, status, g_running, signal_count,
                 clock, hung, count>>

\* raise(SIGTERM): the handler runs in this thread.
WatchdogRaise ==
  /\ Runs("watchdog") /\ watchdog = "raise"
  /\ handler' = [handler EXCEPT ![Outer("watchdog")] = "count"]
  /\ raised' = raised + 1
  /\ watchdog' = "check"
  /\ UNCHANGED <<pc, seen, logging, forcing, status, flags, clock, hung, sent>>

WatchdogThread ==
  \/ WatchdogStarts \/ WatchdogCheck \/ WatchdogWakes \/ WatchdogWakesTooLate
  \/ WatchdogLate \/ WatchdogAlarm \/ WatchdogForces \/ WatchdogRaise

----------------------------------------------------------------------------
(* signal_handler, on the thread that the signal interrupted.              *)

\* No other handler has interrupted it.
OnTop(h) == \A t \in Threads : h = Outer(t) => handler[Nested(t)] = "idle"

Step(h, from, to) ==
  /\ ~Ended
  /\ handler[h] = from
  /\ OnTop(h)
  /\ handler' = [handler EXCEPT ![h] = to]

\* signal_count++ on a plain int: a load and a store.
HandlerLoads(h) ==
  /\ Step(h, "count", "store")
  /\ seen' = [seen EXCEPT ![h] = signal_count]
  /\ UNCHANGED <<pc, watchdog, logging, forcing, status, flags, clock, hung, count>>

\* Mutant: it counts down.
HandlerStoresLess(h) ==
  /\ Step(h, "store", "branch")
  /\ signal_count' = seen[h] - 1
  /\ UNCHANGED <<pc, watchdog, seen, logging, forcing, status, g_running, g_force_exit,
                 clock, hung, count>>

HandlerStores(h) ==
  /\ Step(h, "store", "branch")
  /\ signal_count' = seen[h] + 1
  /\ UNCHANGED <<pc, watchdog, seen, logging, forcing, status, g_running, g_force_exit,
                 clock, hung, count>>

\* Mutant: compares with the count before the increment.
HandlerBranchesAtZero(h) ==
  /\ Step(h, "branch", IF signal_count = 0 THEN "logstop" ELSE "logforce")
  /\ UNCHANGED <<pc, watchdog, seen, logging, forcing, status, flags, clock, hung, count>>

HandlerBranches(h) ==
  /\ Step(h, "branch", IF signal_count = 1 THEN "logstop" ELSE "logforce")
  /\ UNCHANGED <<pc, watchdog, seen, logging, forcing, status, flags, clock, hung, count>>

\* Both branches begin with a log line.
HandlerLogs(h) ==
  /\ \/ Step(h, "logstop", "stop")
     \/ Step(h, "logforce", "force")
  /\ TakeLog(h)
  /\ UNCHANGED <<pc, watchdog, seen, forcing, status, flags, clock, hung, count>>

\* Mutant: says that it stops and does not.
HandlerStopsNothing(h) ==
  /\ Step(h, "stop", "idle")
  /\ logging' = Nobody
  /\ UNCHANGED <<pc, watchdog, seen, forcing, status, flags, clock, hung, count>>

HandlerStops(h) ==
  /\ Step(h, "stop", "idle")
  /\ logging' = Nobody
  /\ g_running' = FALSE
  /\ UNCHANGED <<pc, watchdog, seen, forcing, status, g_force_exit, signal_count, clock,
                 hung, count>>

\* Mutant: relies on the loop to see g_force_exit.
HandlerForcesFlagOnly(h) ==
  /\ Step(h, "force", "idle")
  /\ logging' = Nobody
  /\ g_force_exit' = TRUE
  /\ UNCHANGED <<pc, watchdog, seen, forcing, status, g_running, signal_count, clock, hung,
                 count>>

HandlerForces(h) ==
  /\ Step(h, "force", "idle")
  /\ logging' = Nobody
  /\ g_force_exit' = TRUE
  /\ forcing' = TRUE
  /\ UNCHANGED <<pc, watchdog, seen, status, g_running, signal_count, clock, hung, count>>

Handler(h) ==
  \/ HandlerLoads(h) \/ HandlerStores(h) \/ HandlerBranches(h)
  \/ HandlerLogs(h) \/ HandlerStops(h) \/ HandlerForces(h)

\* The thread started by the second signal: a second's sleep, a log line, _exit(1).
ForceExit ==
  /\ ~Ended
  /\ forcing
  /\ logging = Nobody
  /\ pc' = "ended"
  /\ status' = "killed"
  /\ UNCHANGED <<watchdog, handler, seen, logging, forcing, flags, clock, hung, count>>

----------------------------------------------------------------------------
(* The world.                                                              *)

\* While a handler runs, its own signal is blocked on its thread; the other one is not.
MayInterrupt(h) ==
  /\ h[1] = "watchdog" => watchdog \notin {"off", "ended"}
  /\ h[2] = 2 => handler[Under(h)] # "idle"
  /\ logging = Under(h) => SignalsWhileLogging

\* SIGINT or SIGTERM from outside is delivered to a thread.
Signal(h) ==
  /\ ~Ended
  /\ sent < MaxSignals
  /\ handler[h] = "idle"
  /\ MayInterrupt(h)
  /\ handler' = [handler EXCEPT ![h] = "count"]
  /\ sent' = sent + 1
  /\ UNCHANGED <<pc, watchdog, seen, logging, forcing, status, flags, clock, hung, raised>>

\* A second passes.
Tick ==
  /\ ~Ended
  /\ elapsed <= WatchdogTimeout
  /\ elapsed' = elapsed + 1
  /\ late' = (late \/ (elapsed = WatchdogTimeout /\ pc \notin {"init", "destroy"}))
  /\ UNCHANGED <<pc, watchdog, handler, seen, logging, forcing, status, flags, hung, count>>

\* A read, a write or a publish never returns.
Hang ==
  /\ Runs("main") /\ pc = "cycle"
  /\ ~hung
  /\ hung' = TRUE
  /\ UNCHANGED <<pc, watchdog, handler, seen, logging, forcing, status, flags, clock,
                 count>>

----------------------------------------------------------------------------

Init ==
  /\ pc = "init"
  /\ watchdog = "off"
  /\ handler = [h \in Handlers |-> "idle"]
  /\ seen = [h \in Handlers |-> 0]
  /\ logging = Nobody
  /\ forcing = FALSE
  /\ status = "none"
  /\ g_running = TRUE
  /\ g_force_exit = FALSE
  /\ signal_count = 0
  /\ elapsed = 0
  /\ hung = FALSE
  /\ sent = 0
  /\ raised = 0
  /\ late = FALSE

Next ==
  \/ MainThread \/ WatchdogThread \/ CallbackLogs \/ ForceExit
  \/ \E t \in Threads : EndLog(t)
  \/ \E h \in Handlers : Handler(h) \/ Signal(h)
  \/ Tick \/ Hang

\* A thread goes on in a handler or in the end of a log line.
Continues(t) == EndLog(t) \/ Handler(Outer(t)) \/ Handler(Nested(t))

\* Every thread runs, a thread that waits for the mutex gets it in the end, and time
\* passes.  Nothing is assumed of signals, messages, hangs and a failing start.
Fairness ==
  /\ SF_vars(MainThread \/ Continues("main"))
  /\ SF_vars(WatchdogThread \/ Continues("watchdog"))
  /\ SF_vars(Continues("callback"))
  /\ SF_vars(ForceExit)
  /\ WF_vars(Tick)

Spec == Init /\ [][Next]_vars /\ Fairness

----------------------------------------------------------------------------
(* What is checked.                                                        *)

HandlerStates ==
  {"idle", "count", "store", "branch", "logstop", "logforce", "stop", "force"}

\* Every variable has its type.
TypeOK ==
  /\ pc \in {"init", "start", "loop", "cycle", "shutdown", "destroy", "ended"}
  /\ watchdog \in {"off", "start", "check", "asleep", "late", "alarm", "force", "raise",
                   "ended"}
  /\ handler \in [Handlers -> HandlerStates]
  /\ seen \in [Handlers -> Nat]
  /\ logging \in Places
  /\ forcing \in BOOLEAN
  /\ status \in {"none", "success", "failure", "killed", "crash"}
  /\ g_running \in BOOLEAN
  /\ g_force_exit \in BOOLEAN
  /\ signal_count \in Nat
  /\ elapsed \in 0..WatchdogTimeout + 1
  /\ hung \in BOOLEAN
  /\ sent \in Nat
  /\ raised \in Nat
  /\ late \in BOOLEAN

\* A graceful shutdown is not cut short: the process is ended with _exit only
\* after two signals from outside, or after a cycle that outlasted the watchdog's
\* timeout (main.cpp:16-26).
KilledOnlyWithCause == status = "killed" => sent >= 2 \/ late

\* A process whose main loop hangs ends only by force, and for that the watchdog's alarm is
\* not enough: at least one signal must come from outside (device_controller.cpp:151-153,
\* main.cpp:16-26).
HungEndsByForce == hung /\ Ended => status = "killed" /\ sent >= 1

\* What ends the loops of the main thread and of the watchdog.
Stopped == ~g_running \/ g_force_exit

\* No signal is swallowed: two handlers at once may lose an update of signal_count or both
\* take the second branch, but none returns before the loops' condition is false
\* (main.cpp:14-26).
SignalsHeard == sent + raised > 0 => Stopped \/ \E h \in Handlers : handler[h] # "idle"

\* A main loop that hangs is noticed by the watchdog, unless a signal has ended
\* the loop's condition and with it the watchdog (device_controller.cpp:141-148).
HangNoticed == hung ~> raised > 0 \/ ~g_running \/ g_force_exit \/ Ended

\* One signal stops the program, unless its main loop hangs (main.cpp:16-18).
SignalStops == sent > 0 ~> Ended \/ hung

\* A handler that has taken the second branch ends the process, even one whose main
\* loop hangs or whose shutdown waits (main.cpp:19-26).
ForcedExitEnds == (\E h \in Handlers : handler[h] = "logforce") ~> Ended

\* "Forcing restart..." (device_controller.cpp:151): the process ends, so that
\* whatever supervises it can start it again.
AlarmForcesRestart == raised > 0 ~> Ended

\* "Received signal ..., shutting down gracefully..." (main.cpp:17): the handler of
\* the first signal gets to say so and to clear g_running.
FirstSignalHandled == sent > 0 ~> ~g_running \/ Ended

============================================================================
