-------------------------- MODULE LifecycleProofs ---------------------------
(***************************************************************************)
(* The gateway is never killed without cause, for every watchdog timeout,  *)
(* any number of signals, and signals that interrupt a thread at any point.*)
(***************************************************************************)
EXTENDS Lifecycle, FiniteSetTheorems, TLAPS

\* What justifies an end by force.
Cause == sent >= 2 \/ late

\* The signals whose handlers have not stored their count.
Uncounted    == {h \in Handlers : handler[h] \in {"count", "store"}}
AllUncounted == Cardinality(Uncounted)

\* The counter, and what a handler is about to add to it, never gets ahead of the
\* signals; updates of two handlers may be lost, never doubled.
CountSound ==
  /\ signal_count + AllUncounted <= sent + raised
  /\ \A h \in Handlers :
       /\ handler[h] = "store" => seen[h] + AllUncounted <= sent + raised
       /\ handler[h] = "branch" => signal_count >= 1

\* Only the second signal's branch forces.
ForceSound ==
  /\ \A h \in Handlers : handler[h] \in {"logforce", "force"} => sent + raised >= 2
  /\ forcing \/ status = "killed" => sent + raised >= 2

\* The watchdog raises its signal for a late cycle, or after the loop has ended.
WatchdogSound ==
  /\ pc \in {"init", "start"} => watchdog = "off"
  /\ elapsed > WatchdogTimeout => late \/ pc \in {"init", "destroy", "ended"}
  /\ pc \in {"shutdown", "destroy"} => ~g_running \/ g_force_exit
  /\ g_force_exit \/ raised > 0 \/ watchdog \in {"alarm", "force", "raise"} => Cause
  /\ watchdog = "late" => Cause \/ ~g_running

\* A handler that another one has interrupted is still there when that one is.
NestSound ==
  \A t \in Threads : handler[Nested(t)] # "idle" => handler[Outer(t)] # "idle"

IInv == TypeOK /\ CountSound /\ ForceSound /\ WatchdogSound /\ NestSound

----------------------------------------------------------------------------

USE ConstantTypes

\* The places on the threads.
LEMMA PlacesOnThreads ==
  /\ Handlers \subseteq Places /\ Nobody \in Places /\ Nobody \notin Handlers
  /\ \A t \in Threads : /\ Own(t) \in Places \ Handlers /\ Own(t) # Nobody
                        /\ Outer(t) \in Handlers /\ Nested(t) \in Handlers
                        /\ Under(Outer(t)) = Own(t) /\ Under(Nested(t)) = Outer(t)
  /\ \A t, u \in Threads : /\ Outer(t) # Nested(u)
                           /\ Own(t) = Own(u) => t = u
                           /\ Outer(t) = Outer(u) => t = u
                           /\ Nested(t) = Nested(u) => t = u
  /\ \A h \in Handlers : \E t \in Threads : h = Outer(t) \/ h = Nested(t)
  /\ {"main", "watchdog", "callback"} \subseteq Threads
<1>1. ASSUME NEW h \in Handlers PROVE \E t \in Threads : h = Outer(t) \/ h = Nested(t)
  BY <1>1 DEF Handlers, Outer, Nested
<1>2. {"main", "watchdog", "callback"} \subseteq Threads
  BY DEF Threads
<1>3. Nobody[1] \notin Threads
  BY DEF Nobody, Threads
<1>4. Handlers \subseteq Places /\ Nobody \in Places /\ Nobody \notin Handlers
  BY <1>3 DEF Handlers, Places
<1>5. ASSUME NEW t \in Threads
      PROVE  /\ Own(t) \in Places \ Handlers /\ Own(t) # Nobody
             /\ Outer(t) \in Handlers /\ Nested(t) \in Handlers
             /\ Under(Outer(t)) = Own(t) /\ Under(Nested(t)) = Outer(t)
  BY <1>3 DEF Handlers, Places, Own, Outer, Nested, Under
<1>6. ASSUME NEW t \in Threads, NEW u \in Threads
      PROVE  /\ Outer(t) # Nested(u)
             /\ Own(t) = Own(u) => t = u
             /\ Outer(t) = Outer(u) => t = u
             /\ Nested(t) = Nested(u) => t = u
  BY DEF Own, Outer, Nested
<1> QED BY <1>1, <1>2, <1>4, <1>5, <1>6

\* There are finitely many, so those that have not counted have a number, which is one
\* more or one less if one of them is.
LEMMA UncountedFinite ==
  /\ IsFiniteSet(Uncounted) /\ AllUncounted \in Nat
  /\ \A h \in Handlers :
       /\ h \notin Uncounted => Cardinality(Uncounted \cup {h}) = AllUncounted + 1
       /\ h \in Uncounted => Cardinality(Uncounted \ {h}) = AllUncounted - 1
<1>1. IsFiniteSet(Threads) /\ IsFiniteSet({1, 2})
  <2>1. IsFiniteSet({"main"}) /\ IsFiniteSet({"watchdog"}) /\ IsFiniteSet({"callback"})
    BY FS_Singleton
  <2>2. IsFiniteSet({"main"} \cup {"watchdog"})
    BY <2>1, FS_Union
  <2>3. IsFiniteSet(({"main"} \cup {"watchdog"}) \cup {"callback"})
    BY <2>1, <2>2, FS_Union
  <2>4. Threads = ({"main"} \cup {"watchdog"}) \cup {"callback"}
    BY DEF Threads
  <2>5. IsFiniteSet({1}) /\ IsFiniteSet({2})
    BY FS_Singleton
  <2>6. IsFiniteSet({1} \cup {2}) /\ {1, 2} = {1} \cup {2}
    BY <2>5, FS_Union
  <2> QED BY <2>3, <2>4, <2>6
<1>2. IsFiniteSet(Handlers)
  BY <1>1, FS_Product DEF Handlers
<1>3. IsFiniteSet(Uncounted)
  BY <1>2, FS_Subset DEF Uncounted
<1> QED BY <1>3, FS_CardinalityType, FS_AddElement, FS_RemoveElement DEF AllUncounted

LEMMA InitEstablishes == Init => IInv
<1> SUFFICES ASSUME Init PROVE IInv
  OBVIOUS
<1>1. TypeOK
  <2>1. elapsed \in 0..WatchdogTimeout + 1 /\ logging \in Places
    BY PlacesOnThreads DEF Init
  <2>2. handler \in [Handlers -> HandlerStates] /\ seen \in [Handlers -> Nat]
    BY DEF Init, HandlerStates
  <2> QED BY <2>1, <2>2 DEF Init, TypeOK
<1>2. Uncounted = {}
  BY DEF Init, Uncounted
<1>3. CountSound
  BY <1>2, FS_EmptySet DEF Init, CountSound, AllUncounted
<1>4. ForceSound /\ NestSound
  BY PlacesOnThreads DEF Init, ForceSound, NestSound
<1>5. WatchdogSound
  BY DEF Init, WatchdogSound
<1> QED BY <1>1, <1>3, <1>4, <1>5 DEF IInv

\* The mutex goes to a place on a thread, or to nobody.
LEMMA LogStaysPlaced ==
  ASSUME TypeOK, [Next]_vars
  PROVE  logging' \in Places
<1>1. /\ logging \in Places /\ Nobody \in Places
      /\ \A t \in Threads : Own(t) \in Places
      /\ \A h \in Handlers : h \in Places
      /\ {"main", "watchdog", "callback"} \subseteq Threads
  BY PlacesOnThreads DEF TypeOK
<1>2. CASE MainThread \/ CallbackLogs
  BY <1>1, <1>2 DEF MainThread, InitializeFails, Initialize, StartWatchdog, EnterCycle,
              FinishCycle, LeaveLoop, Shutdown, ReturnFromMain, CallbackLogs, TakeLog
<1>3. CASE WatchdogThread
  BY <1>1, <1>3 DEF WatchdogThread, WatchdogStarts, WatchdogCheck, WatchdogWakes,
              WatchdogWakesTooLate, WatchdogLate, WatchdogAlarm, WatchdogForces,
              WatchdogRaise, TakeLog
<1>4. ASSUME NEW t \in Threads, EndLog(t) PROVE logging' \in Places
  BY <1>1, <1>4 DEF EndLog
<1>5. ASSUME NEW h \in Handlers, Signal(h) \/ Handler(h) PROVE logging' \in Places
  BY <1>1, <1>5 DEF Signal, Handler, HandlerLoads, HandlerStores, HandlerBranches,
              HandlerLogs, HandlerStops, HandlerForces, TakeLog
<1>6. CASE ForceExit \/ Tick \/ Hang \/ UNCHANGED vars
  BY <1>1, <1>6 DEF ForceExit, Tick, Hang, vars
<1> QED BY <1>2, <1>3, <1>4, <1>5, <1>6 DEF Next

\* Every variable has its type after a step.
LEMMA TypeStep == TypeOK /\ [Next]_vars => TypeOK'
<1> SUFFICES ASSUME TypeOK, [Next]_vars PROVE TypeOK'
  OBVIOUS
<1> USE LogStaysPlaced DEF TypeOK, HandlerStates
<1>1. CASE MainThread \/ CallbackLogs
  BY <1>1 DEF MainThread, InitializeFails, Initialize, StartWatchdog, EnterCycle,
              FinishCycle, LeaveLoop, Shutdown, ReturnFromMain, CallbackLogs, flags,
              clock, count
<1>2. CASE WatchdogThread
  <2> USE DEF flags, clock, count
  <2>1. CASE WatchdogRaise
    <3>1. Outer("watchdog") \in Handlers
      BY PlacesOnThreads
    <3> QED BY <2>1, <3>1 DEF WatchdogRaise
  <2>2. CASE WatchdogStarts \/ WatchdogCheck \/ WatchdogWakes
    BY <2>2 DEF WatchdogStarts, WatchdogCheck, WatchdogWakes
  <2>3. CASE WatchdogWakesTooLate
    BY <2>3 DEF WatchdogWakesTooLate
  <2>4. CASE WatchdogLate \/ WatchdogAlarm \/ WatchdogForces
    BY <2>4 DEF WatchdogLate, WatchdogAlarm, WatchdogForces
  <2> HIDE DEF TypeOK
  <2> QED BY <1>2, <2>1, <2>2, <2>3, <2>4 DEF WatchdogThread
<1>3. CASE ForceExit
  BY <1>3 DEF ForceExit, flags, clock, count
<1>4. ASSUME NEW t \in Threads, EndLog(t) PROVE TypeOK'
  BY <1>4 DEF EndLog, flags, clock, count
<1>9. ASSUME NEW h \in Handlers, Signal(h) PROVE TypeOK'
  BY <1>9 DEF Signal, flags, clock, count
<1>5. ASSUME NEW h \in Handlers, Handler(h) PROVE TypeOK'
  <2> USE DEF Step, flags, clock, count
  <2>1. CASE HandlerLoads(h) \/ HandlerStores(h)
    BY <2>1 DEF HandlerLoads, HandlerStores
  <2>2. CASE HandlerBranches(h) \/ HandlerLogs(h)
    BY <2>2 DEF HandlerBranches, HandlerLogs
  <2>3. CASE HandlerStops(h) \/ HandlerForces(h)
    BY <2>3 DEF HandlerStops, HandlerForces
  <2> HIDE DEF TypeOK
  <2> QED BY <1>5, <2>1, <2>2, <2>3 DEF Handler
<1>6. CASE Tick
  <2>1. late' \in BOOLEAN
    BY <1>6 DEF Tick
  <2>2. elapsed' \in 0..WatchdogTimeout + 1
    BY <1>6 DEF Tick
  <2> QED BY <1>6, <2>1, <2>2 DEF Tick, flags, count
<1>8. CASE Hang
  BY <1>8 DEF Hang, flags, count, clock
<1>7. CASE UNCHANGED vars
  BY <1>7 DEF vars, flags, clock, count
<1> HIDE DEF TypeOK
<1> QED BY <1>1, <1>2, <1>3, <1>4, <1>5, <1>6, <1>7, <1>8, <1>9 DEF Next

\* What a step preserves that moves no handler and counts no signal.
LEMMA CountKept ==
  ASSUME IInv, UNCHANGED <<handler, seen, signal_count, count>>
  PROVE  CountSound' /\ NestSound'
BY DEF IInv, CountSound, NestSound, AllUncounted, Uncounted, count

\* The main thread leaves the counting alone, and ends a cycle before it stops
\* the clock.
LEMMA MainStep ==
  IInv /\ (MainThread \/ CallbackLogs)
    => (CountSound /\ ForceSound /\ WatchdogSound /\ NestSound)'
<1> SUFFICES ASSUME IInv, MainThread \/ CallbackLogs
             PROVE  (CountSound /\ ForceSound /\ WatchdogSound /\ NestSound)'
  OBVIOUS
<1> USE DEF MainThread, InitializeFails, Initialize, StartWatchdog, EnterCycle,
            FinishCycle, LeaveLoop, Shutdown, ReturnFromMain, CallbackLogs, Runs, Ended,
            flags, clock
<1>1. CountSound' /\ NestSound'
  BY CountKept
<1>2. ForceSound'
  BY DEF IInv, ForceSound, count
<1>3. WatchdogSound'
  BY DEF IInv, TypeOK, WatchdogSound, Cause, count
<1> QED BY <1>1, <1>2, <1>3

\* A signal finds a handler idle, and makes it one that has not counted.
LEMMA DeliveryCounts ==
  ASSUME IInv, NEW h \in Handlers, handler[h] = "idle",
         handler' = [handler EXCEPT ![h] = "count"], UNCHANGED <<seen, signal_count>>,
         sent' + raised' = sent + raised + 1
  PROVE  CountSound'
<1> USE DEF IInv, TypeOK, CountSound
<1>1. h \notin Uncounted /\ Uncounted' = Uncounted \cup {h}
  BY DEF Uncounted
<1>2. AllUncounted' = AllUncounted + 1 /\ AllUncounted \in Nat
  BY <1>1, UncountedFinite DEF AllUncounted
<1>3. ASSUME NEW g \in Handlers
      PROVE  /\ handler'[g] = "store" => handler[g] = "store"
             /\ handler'[g] = "branch" => handler[g] = "branch"
  OBVIOUS
<1> QED BY <1>2, <1>3

\* The watchdog sees a late cycle before it raises its signal; the signal is one
\* that no handler has counted.
LEMMA WatchdogStep ==
  IInv /\ WatchdogThread => (CountSound /\ ForceSound /\ WatchdogSound /\ NestSound)'
<1> SUFFICES ASSUME IInv, WatchdogThread
             PROVE  (CountSound /\ ForceSound /\ WatchdogSound /\ NestSound)'
  OBVIOUS
<1>1. CASE WatchdogRaise
  <2> DEFINE h == Outer("watchdog")
  <2>1. /\ h \in Handlers /\ handler[h] = "idle"
        /\ handler' = [handler EXCEPT ![h] = "count"]
        /\ raised' = raised + 1 /\ UNCHANGED <<seen, signal_count, sent>>
    BY <1>1, PlacesOnThreads DEF WatchdogRaise, Runs, flags
  <2>2. CountSound'
    <3> HIDE DEF h
    <3>1. sent' + raised' = sent + raised + 1
      BY <2>1 DEF IInv, TypeOK
    <3> QED BY <2>1, <3>1, DeliveryCounts
  <2>3. ForceSound'
    <3>1. \A g \in Handlers : handler'[g] \in {"logforce", "force"} => handler'[g] = handler[g]
      BY <2>1 DEF IInv, TypeOK
    <3> QED BY <1>1, <3>1 DEF WatchdogRaise, IInv, TypeOK, ForceSound
  <2>4. WatchdogSound'
    BY <1>1 DEF WatchdogRaise, IInv, TypeOK, WatchdogSound, Cause, Runs, flags, clock
  <2>5. NestSound'
    BY <2>1, PlacesOnThreads DEF IInv, TypeOK, NestSound
  <2> QED BY <2>2, <2>3, <2>4, <2>5
<1>2. CASE WatchdogStarts \/ WatchdogCheck \/ WatchdogWakes \/ WatchdogWakesTooLate
           \/ WatchdogLate \/ WatchdogAlarm \/ WatchdogForces
  <2> USE <1>2 DEF WatchdogStarts, WatchdogCheck, WatchdogWakes, WatchdogWakesTooLate,
                   WatchdogLate, WatchdogAlarm, WatchdogForces, Runs, Ended, flags,
                   clock
  <2>1. CountSound' /\ NestSound'
    BY CountKept
  <2>2. ForceSound'
    BY DEF IInv, ForceSound, count
  <2>3. WatchdogSound'
    <3> USE DEF count
    <3>1. CASE WatchdogStarts \/ WatchdogCheck \/ WatchdogWakes
      BY <3>1 DEF IInv, TypeOK, WatchdogSound, Cause
    <3>2. CASE WatchdogWakesTooLate
      <4>1. ~g_running \/ Cause
        BY <3>2 DEF IInv, WatchdogSound
      <4>2. UNCHANGED <<g_running, g_force_exit, raised, sent, late, elapsed>>
        BY <3>2
      <4> QED BY <3>2, <4>1, <4>2 DEF IInv, WatchdogSound, Cause
    <3>3. CASE WatchdogLate \/ WatchdogAlarm \/ WatchdogForces
      BY <3>3 DEF IInv, TypeOK, WatchdogSound, Cause
    <3> QED BY <1>2, <3>1, <3>2, <3>3
  <2> QED BY <2>1, <2>2, <2>3
<1> QED BY <1>1, <1>2 DEF WatchdogThread

\* A handler's store counts one signal at most, and the second branch needs a count
\* of two.
LEMMA HandlerStep ==
  ASSUME IInv, NEW h \in Handlers, Handler(h)
  PROVE  (CountSound /\ ForceSound /\ WatchdogSound /\ NestSound)'
<1> USE DEF IInv, TypeOK, Step, flags, clock, count
<1>0. AllUncounted \in Nat
  BY UncountedFinite
<1>1. CountSound'
  <2>1. CASE HandlerLoads(h)
    <3>1. AllUncounted' = AllUncounted
      <4>1. Uncounted' = Uncounted
        BY <2>1 DEF HandlerLoads, Uncounted
      <4> QED BY <4>1 DEF AllUncounted
    <3> QED BY <1>0, <2>1, <3>1 DEF HandlerLoads, CountSound
  <2>2. CASE HandlerStores(h)
    <3>1. h \in Uncounted /\ Uncounted' = Uncounted \ {h}
      BY <2>2 DEF HandlerStores, Uncounted
    <3>2. AllUncounted' = AllUncounted - 1
      BY <3>1, UncountedFinite DEF AllUncounted
    <3> QED BY <1>0, <2>2, <3>2 DEF HandlerStores, CountSound
  <2>3. CASE HandlerBranches(h) \/ HandlerLogs(h) \/ HandlerStops(h) \/ HandlerForces(h)
    <3> USE <2>3 DEF HandlerBranches, HandlerLogs, HandlerStops, HandlerForces
    <3>1. AllUncounted' = AllUncounted
      <4>1. Uncounted' = Uncounted
        BY DEF Uncounted
      <4> QED BY <4>1 DEF AllUncounted
    <3>2. ASSUME NEW g \in Handlers
          PROVE  /\ handler'[g] = "store" => handler[g] = "store"
                 /\ handler'[g] = "branch" => handler[g] = "branch"
      OBVIOUS
    <3>3. UNCHANGED <<seen, signal_count, sent, raised>>
      OBVIOUS
    <3> QED BY <3>1, <3>2, <3>3 DEF CountSound
  <2> QED BY <2>1, <2>2, <2>3, <1>0 DEF Handler
<1>2. ForceSound'
  <2>1. CASE HandlerBranches(h)
    <3>1. signal_count >= 2 => sent + raised >= 2
      BY <1>0 DEF CountSound
    <3> QED BY <2>1, <3>1 DEF HandlerBranches, CountSound, ForceSound
  <2>2. CASE ~HandlerBranches(h)
    BY <2>2 DEF Handler, HandlerLoads, HandlerStores, HandlerLogs, HandlerStops,
                HandlerForces, ForceSound
  <2> QED BY <2>1, <2>2
<1>3. WatchdogSound'
  <2>1. CASE HandlerForces(h)
    BY <2>1 DEF HandlerForces, ForceSound, WatchdogSound, Cause
  <2>2. CASE ~HandlerForces(h)
    BY <2>2 DEF Handler, HandlerLoads, HandlerStores, HandlerBranches, HandlerLogs,
                HandlerStops, WatchdogSound, Cause
  <2> QED BY <2>1, <2>2
<1>4. NestSound'
  <2>1. /\ handler[h] # "idle" /\ OnTop(h)
        /\ \E to \in HandlerStates : handler' = [handler EXCEPT ![h] = to]
    BY DEF Handler, HandlerLoads, HandlerStores, HandlerBranches, HandlerLogs,
           HandlerStops, HandlerForces, HandlerStates
  <2> SUFFICES ASSUME NEW t \in Threads, handler'[Nested(t)] # "idle"
               PROVE  handler'[Outer(t)] # "idle"
    BY DEF NestSound
  <2>2. Outer(t) \in Handlers /\ Nested(t) \in Handlers /\ Outer(t) # Nested(t)
    BY PlacesOnThreads
  <2>3. handler[Nested(t)] # "idle"
    BY <2>1, <2>2
  <2>4. h # Outer(t)
    BY <2>1, <2>3 DEF OnTop
  <2> QED BY <2>1, <2>2, <2>3, <2>4 DEF NestSound
<1> QED BY <1>1, <1>2, <1>3, <1>4

\* A signal from outside adds one to both sides.
LEMMA SignalStep ==
  ASSUME IInv, NEW h \in Handlers, Signal(h)
  PROVE  (CountSound /\ ForceSound /\ WatchdogSound /\ NestSound)'
<1> USE DEF IInv, TypeOK, flags, clock
<1>1. /\ handler[h] = "idle" /\ handler' = [handler EXCEPT ![h] = "count"]
      /\ sent' = sent + 1 /\ UNCHANGED <<raised, seen, signal_count>>
  BY DEF Signal
<1>2. CountSound'
  <2>1. sent' + raised' = sent + raised + 1
    BY <1>1
  <2> QED BY <1>1, <2>1, DeliveryCounts
<1>3. ForceSound'
  <2>1. \A g \in Handlers : handler'[g] \in {"logforce", "force"} => handler'[g] = handler[g]
    BY <1>1
  <2> QED BY <1>1, <2>1 DEF Signal, ForceSound
<1>4. WatchdogSound'
  BY <1>1 DEF Signal, WatchdogSound, Cause
<1>5. NestSound'
  <2> SUFFICES ASSUME NEW t \in Threads, handler'[Nested(t)] # "idle"
               PROVE  handler'[Outer(t)] # "idle"
    BY DEF NestSound
  <2>1. Outer(t) \in Handlers /\ Nested(t) \in Handlers
    BY PlacesOnThreads
  <2>2. CASE h = Nested(t)
    <3>1. handler[Outer(t)] # "idle"
      <4>1. h[2] = 2
        BY <2>2 DEF Nested
      <4> QED BY <2>2, <4>1, PlacesOnThreads DEF Signal, MayInterrupt
    <3> QED BY <1>1, <2>1, <3>1
  <2>3. CASE h # Nested(t)
    BY <1>1, <2>1, <2>3 DEF NestSound
  <2> QED BY <2>2, <2>3
<1> QED BY <1>2, <1>3, <1>4, <1>5

\* Time passes, logging ends, the process is killed.
LEMMA WorldStep ==
  ASSUME IInv, Tick \/ Hang \/ ForceExit \/ \E t \in Threads : EndLog(t)
  PROVE  (CountSound /\ ForceSound /\ WatchdogSound /\ NestSound)'
<1> USE DEF IInv, TypeOK, flags, clock
<1>1. CASE Tick
  <2> USE <1>1 DEF Tick
  <2>1. CountSound' /\ NestSound'
    BY CountKept
  <2>2. ForceSound'
    BY DEF ForceSound, count
  <2>3. late => late'
    BY Zenon
  <2>4. elapsed' > WatchdogTimeout => late' \/ pc \in {"init", "destroy", "ended"}
    <3>1. elapsed' > WatchdogTimeout => elapsed = WatchdogTimeout
      OBVIOUS
    <3> QED BY <3>1, Zenon DEF Ended
  <2> QED BY <2>1, <2>2, <2>3, <2>4 DEF WatchdogSound, Cause, count
<1>2. CASE Hang \/ ForceExit \/ \E t \in Threads : EndLog(t)
  <2>1. /\ UNCHANGED <<handler, seen, flags, clock, count, watchdog>>
        /\ forcing' \/ status' = "killed" => forcing \/ status = "killed"
        /\ pc' = pc \/ pc' = "ended"
    BY <1>2 DEF EndLog, Hang, ForceExit
  <2>2. CountSound' /\ NestSound'
    BY <2>1, CountKept
  <2>3. ForceSound'
    BY <2>1 DEF ForceSound, count
  <2>4. WatchdogSound'
    BY <2>1 DEF WatchdogSound, Cause, count
  <2> QED BY <2>2, <2>3, <2>4
<1> QED BY <1>1, <1>2

LEMMA Unchanging ==
  IInv /\ UNCHANGED vars => (CountSound /\ ForceSound /\ WatchdogSound /\ NestSound)'
<1> SUFFICES ASSUME IInv, UNCHANGED vars
             PROVE  (CountSound /\ ForceSound /\ WatchdogSound /\ NestSound)'
  OBVIOUS
<1>1. CountSound' /\ NestSound'
  BY CountKept DEF vars, flags
<1>2. (ForceSound /\ WatchdogSound)'
  BY DEF IInv, vars, flags, clock, count, ForceSound, WatchdogSound, Cause
<1> QED BY <1>1, <1>2

LEMMA Inductive == IInv /\ [Next]_vars => IInv'
<1> SUFFICES ASSUME IInv, [Next]_vars PROVE IInv'
  OBVIOUS
<1>1. TypeOK'
  BY TypeStep DEF IInv
<1>2. (CountSound /\ ForceSound /\ WatchdogSound /\ NestSound)'
  BY MainStep, WatchdogStep, HandlerStep, SignalStep, WorldStep, Unchanging DEF Next
<1> QED BY <1>1, <1>2 DEF IInv

LEMMA Invariant == Spec => []IInv
  BY InitEstablishes, Inductive, PTL DEF Spec

\* How a step may move a handler: by one of its statements, or by a signal.
LEMMA HandlerMoves ==
  ASSUME TypeOK, [Next]_vars, NEW h \in Handlers
  PROVE  \/ handler'[h] = handler[h]
         \/ Handler(h)
         \/ /\ handler[h] = "idle" /\ handler'[h] = "count"
            /\ MayInterrupt(h) /\ UNCHANGED logging
<1> USE DEF TypeOK
<1>1. CASE MainThread \/ CallbackLogs
  BY <1>1 DEF MainThread, InitializeFails, Initialize, StartWatchdog, EnterCycle,
              FinishCycle, LeaveLoop, Shutdown, ReturnFromMain, CallbackLogs
<1>2. CASE WatchdogThread
  <2>1. CASE WatchdogRaise
    <3>1. /\ Outer("watchdog") \in Handlers /\ Under(Outer("watchdog")) = Own("watchdog")
          /\ Outer("watchdog")[2] = 1
      BY PlacesOnThreads DEF Outer
    <3>2. MayInterrupt(Outer("watchdog")) /\ handler[Outer("watchdog")] = "idle"
      BY <2>1, <3>1 DEF WatchdogRaise, MayInterrupt, Runs
    <3> QED BY <2>1, <3>1, <3>2 DEF WatchdogRaise
  <2>2. CASE ~WatchdogRaise
    BY <1>2, <2>2 DEF WatchdogThread, WatchdogStarts, WatchdogCheck, WatchdogWakes,
                      WatchdogWakesTooLate, WatchdogLate, WatchdogAlarm, WatchdogForces
  <2> QED BY <2>1, <2>2
<1>3. ASSUME NEW g \in Handlers, Handler(g) PROVE Handler(h) \/ handler'[h] = handler[h]
  BY <1>3 DEF Handler, Step, HandlerLoads, HandlerStores, HandlerBranches, HandlerLogs,
              HandlerStops, HandlerForces
<1>4. ASSUME NEW g \in Handlers, Signal(g), handler'[h] # handler[h]
      PROVE  /\ handler[h] = "idle" /\ handler'[h] = "count"
             /\ MayInterrupt(h) /\ UNCHANGED logging
  BY <1>4 DEF Signal
<1>5. CASE ForceExit \/ Tick \/ Hang \/ (\E t \in Threads : EndLog(t)) \/ UNCHANGED vars
  BY <1>5 DEF ForceExit, Tick, Hang, EndLog, vars
<1> QED BY <1>1, <1>2, <1>3, <1>4, <1>5 DEF Next

\* How a step may move the mutex.
LEMMA LogMoves ==
  ASSUME TypeOK, [Next]_vars
  PROVE  \/ UNCHANGED logging
         \/ \E t \in Threads : /\ logging = Nobody /\ logging' = Own(t)
                              /\ Runs(t) /\ UNCHANGED handler
         \/ \E t \in Threads : EndLog(t)
         \/ \E h \in Handlers : HandlerLogs(h) \/ HandlerStops(h) \/ HandlerForces(h)
<1>0. {"main", "watchdog", "callback"} \subseteq Threads
  BY PlacesOnThreads
<1>1. CASE MainThread \/ CallbackLogs
  BY <1>0, <1>1 DEF MainThread, InitializeFails, Initialize, StartWatchdog, EnterCycle,
                    FinishCycle, LeaveLoop, Shutdown, ReturnFromMain, CallbackLogs, TakeLog
<1>2. CASE WatchdogThread
  BY <1>0, <1>2 DEF WatchdogThread, WatchdogStarts, WatchdogCheck, WatchdogWakes,
                    WatchdogWakesTooLate, WatchdogLate, WatchdogAlarm, WatchdogForces,
                    WatchdogRaise, TakeLog
<1>3. ASSUME NEW h \in Handlers, Handler(h) \/ Signal(h)
      PROVE  \/ HandlerLogs(h) \/ HandlerStops(h) \/ HandlerForces(h)
             \/ UNCHANGED logging
  BY <1>3 DEF Signal, Handler, HandlerLoads, HandlerStores, HandlerBranches
<1>4. CASE ForceExit \/ Tick \/ Hang \/ UNCHANGED vars
  BY <1>4 DEF ForceExit, Tick, Hang, vars
<1> QED BY <1>1, <1>2, <1>3, <1>4 DEF Next

\* Every variable has its type in every reachable state, and the counters of the
\* watchdog and of the handlers stay in their ranges (main.cpp, application.cpp,
\* device_controller.cpp:137-159).
THEOREM TypeCorrect == Spec => []TypeOK
<1>1. IInv => TypeOK
  BY DEF IInv
<1> QED BY <1>1, Invariant, PTL

\* _exit(1) ends the process only after two signals from outside or a cycle that
\* outlasted the watchdog's timeout: neither lost updates of signal_count
\* (main.cpp:14) nor what a late watchdog reads of the destroyed controller
\* (device_controller.cpp:145) cuts a graceful shutdown short.
THEOREM NeverKilledWithoutCause == Spec => []KilledOnlyWithCause
<1>1. IInv => KilledOnlyWithCause
  BY DEF IInv, TypeOK, ForceSound, WatchdogSound, KilledOnlyWithCause, Cause
<1> QED BY <1>1, Invariant, PTL

----------------------------------------------------------------------------
(* What the watchdog's alarm achieves.                                     *)

\* The watchdog raises its signal once at most: it sees the flag it has set before.
AlarmSound ==
  /\ raised <= 1
  /\ raised = 1 => watchdog \in {"check", "ended"}
  /\ raised = 1 \/ watchdog = "raise" => g_force_exit

\* A main thread that hangs stays in its cycle until it is killed.
HangSound == hung => pc = "cycle" \/ (Ended /\ status = "killed")

LEMMA AlarmStep == IInv /\ AlarmSound /\ [Next]_vars => AlarmSound'
<1> SUFFICES ASSUME IInv, AlarmSound, [Next]_vars PROVE AlarmSound'
  OBVIOUS
<1> USE DEF AlarmSound
<1>0. raised \in Nat
  BY DEF IInv, TypeOK
<1>1. CASE StartWatchdog
  <2>1. watchdog = "off" /\ watchdog' = "start" /\ UNCHANGED <<raised, g_force_exit>>
    BY <1>1 DEF StartWatchdog, IInv, WatchdogSound, flags, count
  <2> QED BY <1>0, <2>1
<1>2. CASE (MainThread \/ CallbackLogs) /\ ~StartWatchdog
  <2>1. UNCHANGED <<watchdog, raised, g_force_exit>>
    BY <1>2 DEF MainThread, InitializeFails, Initialize, EnterCycle, FinishCycle,
                LeaveLoop, Shutdown, ReturnFromMain, CallbackLogs, flags, count
  <2> QED BY <2>1
<1>3. CASE WatchdogThread
  BY <1>0, <1>3 DEF WatchdogThread, WatchdogStarts, WatchdogCheck, WatchdogWakes,
                    WatchdogWakesTooLate, WatchdogLate, WatchdogAlarm, WatchdogForces,
                    WatchdogRaise, flags, count
<1>4. ASSUME NEW h \in Handlers, Handler(h) PROVE AlarmSound'
  <2>1. UNCHANGED <<watchdog, raised>> /\ (g_force_exit => g_force_exit')
    BY <1>4 DEF Handler, HandlerLoads, HandlerStores, HandlerBranches, HandlerLogs,
                HandlerStops, HandlerForces, flags, count
  <2> QED BY <2>1
<1>5. CASE ForceExit \/ Tick \/ Hang \/ UNCHANGED vars
  BY <1>5 DEF ForceExit, Tick, Hang, vars, flags, count
<1>6. CASE (\E t \in Threads : EndLog(t)) \/ (\E h \in Handlers : Signal(h))
  BY <1>6 DEF EndLog, Signal, flags, count
<1> QED BY <1>1, <1>2, <1>3, <1>4, <1>5, <1>6 DEF Next

LEMMA HangStep == IInv /\ HangSound /\ [Next]_vars => HangSound'
<1> SUFFICES ASSUME IInv, HangSound, [Next]_vars PROVE HangSound'
  OBVIOUS
<1> USE DEF HangSound, Ended
<1>1. CASE MainThread \/ CallbackLogs
  BY <1>1 DEF MainThread, InitializeFails, Initialize, StartWatchdog, EnterCycle,
              FinishCycle, LeaveLoop, Shutdown, ReturnFromMain, CallbackLogs, Runs
<1>2. CASE WatchdogThread
  BY <1>2 DEF WatchdogThread, WatchdogStarts, WatchdogCheck, WatchdogWakes,
              WatchdogWakesTooLate, WatchdogLate, WatchdogAlarm, WatchdogForces,
              WatchdogRaise, Runs
<1>3. CASE ForceExit \/ Tick \/ Hang \/ UNCHANGED vars
  <2>1. CASE ForceExit
    BY <2>1 DEF ForceExit
  <2>2. CASE Hang
    BY <2>2 DEF Hang, Runs
  <2>3. CASE Tick \/ UNCHANGED vars
    BY <2>3 DEF Tick, vars
  <2> QED BY <1>3, <2>1, <2>2, <2>3
<1>4. CASE (\E t \in Threads : EndLog(t)) \/ (\E h \in Handlers : Handler(h) \/ Signal(h))
  <2>1. UNCHANGED <<hung, pc, status>>
    BY <1>4 DEF EndLog, Signal, Handler, HandlerLoads, HandlerStores, HandlerBranches,
                HandlerLogs, HandlerStops, HandlerForces
  <2> QED BY <2>1
<1> QED BY <1>1, <1>2, <1>3, <1>4 DEF Next

\* Whatever the timeout and however often the watchdog finds a hung main loop late, it does
\* not end the process by itself: a signal from outside has a part in it. The finding of
\* the run lifecycle_alarm does not depend on its configuration.
THEOREM HungOnlyEndsByForce == Spec => []HungEndsByForce
<1>1. Init => AlarmSound /\ HangSound
  BY DEF Init, AlarmSound, HangSound
<1>2. IInv /\ AlarmSound /\ HangSound => HungEndsByForce
  <2> SUFFICES ASSUME IInv, AlarmSound, HangSound, hung, Ended
               PROVE  status = "killed" /\ sent >= 1
    BY DEF HungEndsByForce
  <2>1. status = "killed"
    BY DEF HangSound, Ended
  <2>2. sent + raised >= 2
    BY <2>1 DEF IInv, ForceSound
  <2>3. raised <= 1 /\ raised \in Nat /\ sent \in Nat
    BY DEF AlarmSound, IInv, TypeOK
  <2> QED BY <2>1, <2>2, <2>3
<1> QED BY <1>1, <1>2, AlarmStep, HangStep, Invariant, PTL DEF Spec

----------------------------------------------------------------------------
(* A signal that interrupts a thread which is writing to the log.          *)

\* A handler has interrupted the holder of the mutex.
Blocked(t) ==
  \/ logging = Own(t) /\ handler[Outer(t)] # "idle"
  \/ logging = Outer(t) /\ handler[Nested(t)] # "idle"

\* A handler that has logged holds the mutex until it returns.
LogSound == \A h \in Handlers : handler[h] \in {"stop", "force"} <=> logging = h

LEMMA LogStep == IInv /\ LogSound /\ [Next]_vars => LogSound'
<1> SUFFICES ASSUME IInv, LogSound, [Next]_vars, NEW h \in Handlers
             PROVE  handler'[h] \in {"stop", "force"} <=> logging' = h
  BY DEF LogSound
<1> USE DEF IInv, TypeOK
<1>0. /\ handler[h] \in {"stop", "force"} <=> logging = h
      /\ h # Nobody /\ \A t \in Threads : h # Own(t)
  BY PlacesOnThreads DEF LogSound
<1>1. CASE UNCHANGED logging
  <2>1. CASE Handler(h)
    BY <1>0, <1>1, <2>1 DEF Handler, Step, HandlerLoads, HandlerStores, HandlerBranches,
                            HandlerLogs, HandlerStops, HandlerForces, TakeLog
  <2> QED BY <1>0, <1>1, <2>1, HandlerMoves
<1>2. ASSUME NEW t \in Threads, UNCHANGED handler,
             \/ logging = Nobody /\ logging' = Own(t)
             \/ logging = Own(t) /\ logging' = Nobody
      PROVE  handler'[h] \in {"stop", "force"} <=> logging' = h
  BY <1>0, <1>2
<1>3. ASSUME NEW g \in Handlers, HandlerLogs(g) \/ HandlerStops(g) \/ HandlerForces(g)
      PROVE  handler'[h] \in {"stop", "force"} <=> logging' = h
  <2>1. handler[g] \in {"stop", "force"} <=> logging = g
    BY DEF LogSound
  <2>2. g # h => handler'[h] = handler[h]
    BY <1>3 DEF Step, HandlerLogs, HandlerStops, HandlerForces
  <2>3. CASE HandlerLogs(g)
    <3>1. logging = Nobody /\ logging' = g /\ handler'[g] \in {"stop", "force"}
      BY <2>3 DEF Step, HandlerLogs, TakeLog
    <3> QED BY <1>0, <2>2, <3>1
  <2>4. CASE HandlerStops(g) \/ HandlerForces(g)
    <3>1. logging = g /\ logging' = Nobody /\ handler'[g] = "idle"
      BY <2>1, <2>4 DEF Step, HandlerStops, HandlerForces
    <3> QED BY <1>0, <2>2, <3>1
  <2> QED BY <1>3, <2>3, <2>4
<1> QED BY <1>1, <1>2, <1>3, LogMoves DEF EndLog

LEMMA AlwaysLogSound == Spec => []LogSound
<1>1. Init => LogSound
  BY PlacesOnThreads DEF Init, LogSound
<1> QED BY <1>1, LogStep, Invariant, PTL DEF Spec

\* Nobody can give the mutex back, so nobody logs, and no handler gets to its last
\* statement.
LEMMA BlockedStep ==
  ASSUME IInv, LogSound, NEW t \in Threads, Blocked(t), [Next]_vars
  PROVE  /\ Blocked(t)' /\ logging # Nobody
         /\ \A h \in Handlers : ~HandlerStops(h) /\ ~HandlerForces(h)
<1> USE DEF IInv, TypeOK
<1>1. /\ logging # Nobody
      /\ \A u \in Threads : /\ logging = Own(u) => u = t
                            /\ logging = Outer(u) => u = t
                            /\ logging # Nested(u)
      /\ handler[Outer(t)] # "idle"
      /\ Outer(t) \in Handlers /\ Nested(t) \in Handlers /\ Own(t) \notin Handlers
  BY PlacesOnThreads DEF Blocked, NestSound
<1>2. ASSUME NEW h \in Handlers PROVE ~HandlerStops(h) /\ ~HandlerForces(h)
  <2> SUFFICES ASSUME handler[h] \in {"stop", "force"} PROVE ~OnTop(h)
    BY DEF HandlerStops, HandlerForces, Step
  <2>1. logging = h
    BY DEF LogSound
  <2> QED BY <1>1, <2>1 DEF Blocked, OnTop
<1>3. ASSUME NEW u \in Threads PROVE ~EndLog(u)
  <2>1. Own(u) # Outer(t)
    BY <1>1, PlacesOnThreads
  <2> QED BY <1>1, <2>1 DEF EndLog, Blocked
<1>4. UNCHANGED logging
  <2>1. \A h \in Handlers : ~HandlerLogs(h)
    BY <1>1 DEF HandlerLogs, TakeLog
  <2> QED BY <1>1, <1>2, <1>3, <2>1, LogMoves
<1>5. ASSUME NEW h \in Handlers, handler[h] # "idle" PROVE handler'[h] # "idle"
  BY <1>2, <1>4, <1>5, HandlerMoves DEF Handler, Step, HandlerLoads, HandlerStores,
                                        HandlerBranches, HandlerLogs
<1> QED BY <1>1, <1>2, <1>4, <1>5 DEF Blocked

\* A handler that interrupts its thread, or another handler, inside Logger::write_log is
\* never left again, for every timeout and any number of signals, whichever of the three
\* threads it runs on (main.cpp:17, 20; logger.cpp:119).
THEOREM BlockedForGood ==
  ASSUME NEW t \in Threads
  PROVE  Spec => [](Blocked(t) => []Blocked(t))
<1>1. IInv /\ LogSound /\ Blocked(t) /\ [Next]_vars => Blocked(t)'
  BY BlockedStep
<1> QED BY <1>1, AlwaysLogSound, Invariant, PTL DEF Spec

\* What the program cannot do any more.
Helpless(t) ==
  /\ g_running' = g_running
  /\ status' = "killed" => status = "killed"
  /\ t = "main" /\ Ended' => Ended \/ status' = "crash"

\* And with it waits the program: no signal clears g_running any more, not even a second
\* one kills the process, and if it is the main thread that waits the process ends at most
\* by what a late watchdog reads.  The finding of the run lifecycle_first_signal is no
\* matter of its configuration.
THEOREM NothingHelpsTheBlocked ==
  ASSUME NEW t \in Threads
  PROVE  Spec => [][Blocked(t) => Helpless(t)]_vars
<1>1. ASSUME IInv, LogSound, [Next]_vars, Blocked(t) PROVE Helpless(t)
  <2> USE DEF Helpless, Ended, flags
  <2>1. /\ logging # Nobody /\ handler[Outer(t)] # "idle"
        /\ \A h \in Handlers : ~HandlerStops(h) /\ ~HandlerForces(h)
    BY <1>1, BlockedStep DEF IInv, Blocked, NestSound
  <2>2. CASE MainThread
    <3>1. t # "main"
      BY <2>1, <2>2 DEF MainThread, InitializeFails, Initialize, StartWatchdog, EnterCycle,
                        FinishCycle, LeaveLoop, Shutdown, ReturnFromMain, Runs
    <3> QED BY <2>2, <3>1 DEF MainThread, InitializeFails, Initialize, StartWatchdog,
                        EnterCycle, FinishCycle, LeaveLoop, Shutdown, ReturnFromMain
  <2>3. CASE WatchdogThread
    BY <2>3 DEF WatchdogThread, WatchdogStarts, WatchdogCheck, WatchdogWakes,
                WatchdogWakesTooLate, WatchdogLate, WatchdogAlarm, WatchdogForces,
                WatchdogRaise
  <2>4. CASE CallbackLogs \/ Tick \/ Hang \/ (\E u \in Threads : EndLog(u)) \/ UNCHANGED vars
    BY <2>4 DEF CallbackLogs, Tick, Hang, EndLog, vars
  <2>5. ASSUME NEW h \in Handlers, Signal(h) \/ Handler(h) PROVE Helpless(t)
    BY <2>1, <2>5 DEF Signal, Handler, HandlerLoads, HandlerStores, HandlerBranches,
                      HandlerLogs
  <2>6. ~ForceExit
    BY <2>1 DEF ForceExit
  <2> QED BY <1>1, <2>2, <2>3, <2>4, <2>5, <2>6 DEF Next
<1>2. IInv /\ LogSound /\ [Next]_vars => [Blocked(t) => Helpless(t)]_vars
  BY <1>1
<1> QED BY <1>2, AlwaysLogSound, Invariant, PTL DEF Spec

----------------------------------------------------------------------------
(* What a signal sets in motion, if it does not interrupt a thread that logs. *)

\* Signals at any point but inside write_log, in any thread and any handler, in any number:
\* whoever holds the mutex gives it back without waiting for anything (main.cpp:12-27,
\* logger.cpp:119). What BlockedForGood says of the others is the only way to stop.
THEOREM NobodyWaitsForItself ==
  ASSUME ~SignalsWhileLogging
  PROVE  Spec => [](\A t \in Threads : ~Blocked(t))
<1> DEFINE Unblocked == \A t \in Threads : ~Blocked(t)
<1>1. Init => Unblocked
  BY PlacesOnThreads DEF Init, Blocked
<1>2. ASSUME IInv, LogSound, Unblocked, [Next]_vars PROVE Unblocked'
  <2> SUFFICES ASSUME NEW t \in Threads, Blocked(t)' PROVE FALSE
    OBVIOUS
  <2> USE DEF IInv, TypeOK
  <2>0. /\ Outer(t) \in Handlers /\ Nested(t) \in Handlers
        /\ Under(Outer(t)) = Own(t) /\ Under(Nested(t)) = Outer(t)
        /\ Own(t) # Nobody /\ Outer(t) # Nobody
        /\ \A u \in Threads : Own(t) = Own(u) => t = u
        /\ \A u \in Threads : Own(u) # Outer(t)
        /\ Own(t) \notin Handlers
    BY PlacesOnThreads
  <2>1. ~Blocked(t)
    BY <1>2
  <2>2. ASSUME NEW h \in Handlers, handler'[h] # "idle", handler[h] = "idle"
        PROVE  logging # Under(h) /\ UNCHANGED logging
    <3>1. ~Handler(h)
      BY <2>2 DEF Handler, Step, HandlerLoads, HandlerStores, HandlerBranches, HandlerLogs,
                  HandlerStops, HandlerForces
    <3>2. MayInterrupt(h) /\ UNCHANGED logging
      BY <1>2, <2>2, <3>1, HandlerMoves
    <3> QED BY <3>2 DEF MayInterrupt
  <2>3. CASE UNCHANGED logging
    BY <2>0, <2>1, <2>2, <2>3 DEF Blocked
  <2>4. ASSUME NEW u \in Threads, logging' = Own(u), Runs(u), UNCHANGED handler PROVE FALSE
    BY <2>0, <2>4 DEF Blocked, Runs
  <2>5. CASE \E u \in Threads : EndLog(u)
    BY <2>0, <2>5 DEF Blocked, EndLog
  <2>6. ASSUME NEW h \in Handlers, HandlerLogs(h) \/ HandlerStops(h) \/ HandlerForces(h)
        PROVE  FALSE
    <3>1. h = Outer(t) /\ handler'[Nested(t)] # "idle" /\ OnTop(h)
      BY <2>0, <2>6 DEF Blocked, HandlerLogs, HandlerStops, HandlerForces, TakeLog, Step
    <3>2. handler[Nested(t)] = "idle" /\ Nested(t) # h
      BY <3>1, PlacesOnThreads DEF OnTop
    <3>3. handler'[Nested(t)] = handler[Nested(t)]
      BY <1>2, <2>0, <2>6, <3>2 DEF Step, HandlerLogs, HandlerStops, HandlerForces
    <3> QED BY <3>1, <3>2, <3>3
  <2> QED BY <1>2, <2>3, <2>4, <2>5, <2>6, LogMoves
<1>3. IInv /\ LogSound /\ Unblocked /\ [Next]_vars => Unblocked'
  BY <1>2
<1> HIDE DEF Unblocked
<1>4. Spec => []Unblocked
  BY <1>1, <1>3, AlwaysLogSound, Invariant, PTL DEF Spec
<1> QED BY <1>4 DEF Unblocked

\* No signal is swallowed, in any number and whatever it interrupts: the handlers may count
\* wrong, but they return only when the loops' condition is false (main.cpp:14-26).
THEOREM SignalsAlwaysHeard == Spec => []SignalsHeard
<1> USE DEF SignalsHeard, Stopped
<1>1. Init => SignalsHeard
  BY DEF Init
<1>2. ASSUME IInv, SignalsHeard, [Next]_vars PROVE SignalsHeard'
  <2> USE DEF IInv, TypeOK, flags, count
  <2>1. CASE MainThread \/ CallbackLogs
    BY <1>2, <2>1 DEF MainThread, InitializeFails, Initialize, StartWatchdog, EnterCycle,
                      FinishCycle, LeaveLoop, Shutdown, ReturnFromMain, CallbackLogs
  <2>2. CASE WatchdogRaise
    <3>1. Outer("watchdog") \in Handlers
      BY PlacesOnThreads
    <3> QED BY <1>2, <2>2, <3>1 DEF WatchdogRaise
  <2>3. CASE WatchdogThread /\ ~WatchdogRaise
    BY <1>2, <2>3 DEF WatchdogThread, WatchdogStarts, WatchdogCheck, WatchdogWakes,
                      WatchdogWakesTooLate, WatchdogLate, WatchdogAlarm, WatchdogForces
  <2>4. CASE ForceExit \/ Tick \/ Hang \/ (\E t \in Threads : EndLog(t)) \/ UNCHANGED vars
    BY <1>2, <2>4 DEF ForceExit, Tick, Hang, EndLog, vars
  <2>5. ASSUME NEW h \in Handlers, Signal(h) PROVE SignalsHeard'
    BY <1>2, <2>5 DEF Signal
  <2>6. ASSUME NEW h \in Handlers, Handler(h) PROVE SignalsHeard'
    BY <1>2, <2>6 DEF Handler, Step, HandlerLoads, HandlerStores, HandlerBranches,
                      HandlerLogs, HandlerStops, HandlerForces
  <2> QED BY <1>2, <2>1, <2>2, <2>3, <2>4, <2>5, <2>6 DEF Next
<1> QED BY <1>1, <1>2, Invariant, PTL DEF Spec

\* The statements a handler has still to execute, and the places the main thread has still
\* to pass once it is told to stop.
HandlerLeft(h) ==
  CASE handler[h] = "count"                   -> 5
    [] handler[h] = "store"                   -> 4
    [] handler[h] = "branch"                  -> 3
    [] handler[h] \in {"logstop", "logforce"} -> 2
    [] handler[h] \in {"stop", "force"}       -> 1
    [] OTHER                                  -> 0

StopLeft ==
  CASE pc = "init"     -> 6
    [] pc = "start"    -> 5
    [] pc = "cycle"    -> 4
    [] pc = "loop"     -> 3
    [] pc = "shutdown" -> 2
    [] pc = "destroy"  -> 1
    [] OTHER           -> 0

\* A handler only goes forward, and so does the main thread once the loops' condition is
\* false, which it stays.
StopWears ==
  /\ \A h \in Handlers : handler[h] # "idle" =>
       IF Handler(h) THEN HandlerLeft(h)' < HandlerLeft(h) ELSE HandlerLeft(h)' = HandlerLeft(h)
  /\ Stopped =>
       /\ Stopped'
       /\ IF MainThread THEN StopLeft' < StopLeft ELSE StopLeft' = StopLeft \/ Ended'

\* After a signal a handler has at most five steps to make and the main thread at most six,
\* whatever signals follow, whatever the watchdog does and wherever the main thread is: of
\* SignalStops, all but that the two go on (main.cpp:12-27, application.cpp:57-96).
THEOREM StopsWearOut == Spec => [][StopWears]_vars
<1> USE DEF Stopped
<1>1. ASSUME IInv, [Next]_vars PROVE StopWears
  <2> USE DEF IInv, TypeOK
  <2>1. ASSUME NEW h \in Handlers, handler[h] # "idle", Handler(h)
        PROVE  HandlerLeft(h)' < HandlerLeft(h)
    BY <1>1, <2>1 DEF HandlerLeft, Handler, Step, HandlerLoads, HandlerStores,
                      HandlerBranches, HandlerLogs, HandlerStops, HandlerForces
  <2>2. ASSUME NEW h \in Handlers, handler[h] # "idle", ~Handler(h)
        PROVE  handler'[h] = handler[h]
    BY <1>1, <2>2, HandlerMoves
  <2>3. ASSUME Stopped, MainThread PROVE Stopped' /\ StopLeft' < StopLeft
    BY <2>3 DEF StopLeft, MainThread, InitializeFails, Initialize, StartWatchdog,
                EnterCycle, FinishCycle, LeaveLoop, Shutdown, ReturnFromMain, flags
  <2>4. ASSUME Stopped, ~MainThread PROVE Stopped' /\ (pc' = pc \/ Ended')
    <3> USE DEF Ended, flags
    <3>1. CASE WatchdogThread
      BY <2>4, <3>1 DEF WatchdogThread, WatchdogStarts, WatchdogCheck, WatchdogWakes,
           WatchdogWakesTooLate, WatchdogLate, WatchdogAlarm, WatchdogForces, WatchdogRaise
    <3>2. CASE ForceExit \/ Tick \/ Hang \/ UNCHANGED vars
      BY <2>4, <3>2 DEF ForceExit, Tick, Hang, vars
    <3>3. CASE CallbackLogs \/ (\E t \in Threads : EndLog(t))
      BY <2>4, <3>3 DEF CallbackLogs, EndLog
    <3>4. ASSUME NEW h \in Handlers, Signal(h) \/ Handler(h) PROVE Stopped' /\ pc' = pc
      BY <2>4, <3>4 DEF Signal, Handler, HandlerLoads, HandlerStores, HandlerBranches,
                        HandlerLogs, HandlerStops, HandlerForces
    <3> QED BY <1>1, <2>4, <3>1, <3>2, <3>3, <3>4 DEF Next
  <2>5. pc' = pc => StopLeft' = StopLeft
    BY DEF StopLeft
  <2>6. ASSUME NEW h \in Handlers, handler'[h] = handler[h]
        PROVE  HandlerLeft(h)' = HandlerLeft(h)
    BY <2>6 DEF HandlerLeft
  <2> QED BY <2>1, <2>2, <2>3, <2>4, <2>5, <2>6 DEF StopWears
<1>2. IInv /\ [Next]_vars => StopWears
  BY <1>1
<1> QED BY <1>2, Invariant, PTL DEF Spec

\* A handler is in its second branch, or has left behind the thread that calls _exit, or
\* it has done so.
Forced == Ended \/ forcing \/ \E h \in Handlers : handler[h] \in {"logforce", "force"}

\* Nothing takes back what the second branch has begun, neither the end of the loop nor
\* the branch another handler takes: of ForcedExitEnds, that it stays due
\* (main.cpp:19-26).
THEOREM ForceStands == Spec => [](Forced => []Forced)
<1>1. ASSUME IInv, Forced, [Next]_vars PROVE Forced'
  <2> USE DEF IInv, TypeOK, Forced, Ended
  <2>1. Ended => Ended'
    <3> USE DEF Runs, Step
    <3>1. CASE MainThread \/ CallbackLogs
      BY <3>1 DEF MainThread, InitializeFails, Initialize, StartWatchdog, EnterCycle,
                  FinishCycle, LeaveLoop, Shutdown, ReturnFromMain, CallbackLogs
    <3>2. CASE WatchdogThread
      BY <3>2 DEF WatchdogThread, WatchdogStarts, WatchdogCheck, WatchdogWakes,
                  WatchdogWakesTooLate, WatchdogLate, WatchdogAlarm, WatchdogForces,
                  WatchdogRaise
    <3>3. CASE ForceExit \/ Tick \/ Hang \/ (\E t \in Threads : EndLog(t)) \/ UNCHANGED vars
      BY <3>3 DEF ForceExit, Tick, Hang, EndLog, vars
    <3>4. CASE \E h \in Handlers : Handler(h) \/ Signal(h)
      BY <3>4 DEF Signal, Handler, HandlerLoads, HandlerStores, HandlerBranches, HandlerLogs,
                  HandlerStops, HandlerForces
    <3> QED BY <1>1, <3>1, <3>2, <3>3, <3>4 DEF Next
  <2>2. forcing => forcing'
    <3>1. CASE MainThread \/ CallbackLogs
      BY <3>1 DEF MainThread, InitializeFails, Initialize, StartWatchdog, EnterCycle,
                  FinishCycle, LeaveLoop, Shutdown, ReturnFromMain, CallbackLogs
    <3>2. CASE WatchdogThread
      BY <3>2 DEF WatchdogThread, WatchdogStarts, WatchdogCheck, WatchdogWakes,
                  WatchdogWakesTooLate, WatchdogLate, WatchdogAlarm, WatchdogForces,
                  WatchdogRaise
    <3>3. CASE ForceExit \/ Tick \/ Hang \/ (\E t \in Threads : EndLog(t)) \/ UNCHANGED vars
      BY <3>3 DEF ForceExit, Tick, Hang, EndLog, vars
    <3>4. CASE \E h \in Handlers : Handler(h) \/ Signal(h)
      BY <3>4 DEF Signal, Handler, HandlerLoads, HandlerStores, HandlerBranches, HandlerLogs,
                  HandlerStops, HandlerForces
    <3> QED BY <1>1, <3>1, <3>2, <3>3, <3>4 DEF Next
  <2>3. ASSUME NEW h \in Handlers, handler[h] \in {"logforce", "force"}
        PROVE  forcing' \/ handler'[h] \in {"logforce", "force"}
    BY <1>1, <2>3, HandlerMoves DEF Handler, Step, HandlerLoads, HandlerStores,
                                   HandlerBranches, HandlerLogs, HandlerStops, HandlerForces
  <2> QED BY <1>1, <2>1, <2>2, <2>3
<1>2. IInv /\ Forced /\ [Next]_vars => Forced'
  BY <1>1
<1> QED BY <1>2, Invariant, PTL DEF Spec

----------------------------------------------------------------------------
(* What a hang sets in motion.                                             *)

\* The watchdog is started before the loop, and it ends only when the loop may.
WatchSound ==
  /\ pc \in {"loop", "cycle", "shutdown", "destroy"} => watchdog # "off"
  /\ watchdog = "ended" => Stopped

LEMMA WatchStep == IInv /\ WatchSound /\ [Next]_vars => WatchSound'
<1> SUFFICES ASSUME IInv, WatchSound, [Next]_vars PROVE WatchSound'
  OBVIOUS
<1> USE DEF WatchSound, Stopped, IInv, TypeOK, flags
<1>1. CASE MainThread \/ CallbackLogs
  BY <1>1 DEF MainThread, InitializeFails, Initialize, StartWatchdog, EnterCycle,
              FinishCycle, LeaveLoop, Shutdown, ReturnFromMain, CallbackLogs
<1>2. CASE WatchdogThread
  BY <1>2 DEF WatchdogThread, WatchdogStarts, WatchdogCheck, WatchdogWakes,
              WatchdogWakesTooLate, WatchdogLate, WatchdogAlarm, WatchdogForces,
              WatchdogRaise
<1>3. CASE ForceExit \/ Tick \/ Hang \/ UNCHANGED vars
  BY <1>3 DEF ForceExit, Tick, Hang, vars
<1>4. CASE (\E t \in Threads : EndLog(t)) \/ (\E h \in Handlers : Handler(h) \/ Signal(h))
  BY <1>4 DEF EndLog, Signal, Handler, HandlerLoads, HandlerStores, HandlerBranches,
              HandlerLogs, HandlerStops, HandlerForces
<1> QED BY <1>1, <1>2, <1>3, <1>4 DEF Next

\* The places the watchdog has to pass until it sets g_force_exit.
AlarmLeft ==
  CASE watchdog = "start"  -> 6
    [] watchdog = "check"  -> 5
    [] watchdog = "asleep" -> 4
    [] watchdog = "late"   -> 3
    [] watchdog = "alarm"  -> 2
    [] watchdog = "force"  -> 1
    [] OTHER               -> 0

\* While the main thread hangs and nobody has told it to stop, the watchdog is there, time
\* is not set back, and once it has run out each step of the watchdog takes it nearer to
\* the alarm; nothing else takes it away from there.
HangWears ==
  hung /\ ~Ended /\ ~Stopped =>
    /\ AlarmLeft \in 1..6
    /\ elapsed' = IF Tick THEN elapsed + 1 ELSE elapsed
    /\ elapsed > WatchdogTimeout =>
         IF WatchdogThread THEN AlarmLeft' < AlarmLeft ELSE AlarmLeft' = AlarmLeft

\* A hang is found after WatchdogTimeout + 1 seconds and at most six steps of the watchdog,
\* in whatever state the hang meets it: of HangNoticed, all but that time and the watchdog
\* go on (device_controller.cpp:141-155).
THEOREM HangWearsOut == Spec => [][HangWears]_vars
<1>1. Init => AlarmSound /\ HangSound /\ WatchSound
  BY DEF Init, AlarmSound, HangSound, WatchSound
<1>2. ASSUME IInv, AlarmSound, HangSound, WatchSound, [Next]_vars, hung, ~Ended, ~Stopped
      PROVE  HangWears
  <2> USE DEF IInv, TypeOK
  <2>1. pc = "cycle"
    BY <1>2 DEF HangSound
  <2>2. watchdog \in {"start", "check", "asleep", "late", "alarm", "force"}
    BY <1>2, <2>1 DEF WatchSound, AlarmSound, Stopped
  <2>3. AlarmLeft \in 1..6
    BY <2>2 DEF AlarmLeft
  <2>4. ~MainThread
    BY <1>2, <2>1 DEF MainThread, InitializeFails, Initialize, StartWatchdog, EnterCycle,
                      FinishCycle, LeaveLoop, Shutdown, ReturnFromMain
  <2>5. elapsed' = IF Tick THEN elapsed + 1 ELSE elapsed
    <3> USE DEF clock
    <3>1. CASE WatchdogThread /\ ~Tick
      BY <3>1 DEF WatchdogThread, WatchdogStarts, WatchdogCheck, WatchdogWakes,
                  WatchdogWakesTooLate, WatchdogLate, WatchdogAlarm, WatchdogForces,
                  WatchdogRaise
    <3>2. CASE Tick
      BY <3>2 DEF Tick
    <3>3. CASE (ForceExit \/ Hang \/ UNCHANGED vars) /\ ~Tick
      BY <3>3 DEF ForceExit, Hang, vars
    <3>4. CASE (CallbackLogs \/ \E t \in Threads : EndLog(t)) /\ ~Tick
      BY <3>4 DEF CallbackLogs, EndLog
    <3>5. ASSUME NEW h \in Handlers, Signal(h) \/ Handler(h), ~Tick PROVE elapsed' = elapsed
      BY <3>5 DEF Signal, Handler, HandlerLoads, HandlerStores, HandlerBranches,
                  HandlerLogs, HandlerStops, HandlerForces
    <3> QED BY <1>2, <2>4, <3>1, <3>2, <3>3, <3>4, <3>5 DEF Next
  <2>6. ASSUME WatchdogThread, elapsed > WatchdogTimeout PROVE AlarmLeft' < AlarmLeft
    <3>1. CASE WatchdogStarts
      BY <3>1 DEF WatchdogStarts, AlarmLeft
    <3>2. CASE WatchdogCheck
      BY <1>2, <3>2 DEF WatchdogCheck, AlarmLeft, Stopped
    <3>3. CASE WatchdogWakes
      BY <2>6, <3>3 DEF WatchdogWakes, AlarmLeft
    <3>4. CASE WatchdogLate
      BY <1>2, <3>4 DEF WatchdogLate, AlarmLeft, Stopped
    <3>5. CASE WatchdogAlarm
      BY <3>5 DEF WatchdogAlarm, AlarmLeft
    <3>6. CASE WatchdogForces
      BY <3>6 DEF WatchdogForces, AlarmLeft
    <3>7. ~WatchdogWakesTooLate /\ ~WatchdogRaise
      BY <2>1, <2>2 DEF WatchdogWakesTooLate, WatchdogRaise
    <3> QED BY <2>6, <3>1, <3>2, <3>3, <3>4, <3>5, <3>6, <3>7 DEF WatchdogThread
  <2>7. ASSUME ~WatchdogThread PROVE watchdog' = watchdog
    <3>1. CASE ForceExit \/ Tick \/ Hang \/ UNCHANGED vars
      BY <3>1 DEF ForceExit, Tick, Hang, vars
    <3>2. CASE CallbackLogs \/ \E t \in Threads : EndLog(t)
      BY <3>2 DEF CallbackLogs, EndLog
    <3>3. ASSUME NEW h \in Handlers, Signal(h) \/ Handler(h) PROVE watchdog' = watchdog
      BY <3>3 DEF Signal, Handler, HandlerLoads, HandlerStores, HandlerBranches,
                  HandlerLogs, HandlerStops, HandlerForces
    <3> QED BY <1>2, <2>4, <2>7, <3>1, <3>2, <3>3 DEF Next
  <2>8. watchdog' = watchdog => AlarmLeft' = AlarmLeft
    BY DEF AlarmLeft
  <2> QED BY <2>3, <2>5, <2>6, <2>7, <2>8 DEF HangWears
<1>3. IInv /\ AlarmSound /\ HangSound /\ WatchSound /\ [Next]_vars => HangWears
  BY <1>2 DEF HangWears
<1> QED BY <1>1, <1>3, AlarmStep, HangStep, WatchStep, Invariant, PTL DEF Spec

=============================================================================
