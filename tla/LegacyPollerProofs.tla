------------------------- MODULE LegacyPollerProofs -------------------------
(***************************************************************************)
(* Theorems about LegacyPoller for any buttons, relays, names, commands,   *)
(* refresh interval and length of the queue.                               *)
(***************************************************************************)
EXTENDS LegacyPoller, FiniteSetTheorems, SequenceTheorems, TLAPS

----------------------------------------------------------------------------
(* What the helpers of the main thread do.                                 *)

\* The next turn in the queue, or the end of the loop.
LEMMA NextCommandType ==
  ASSUME TypeOK, NextCommand
  PROVE  /\ at' \in Nat \ {0} /\ pc' \in {"command", "clear"}
         /\ pc' = "command" => at' <= Len(relay_command_queue)
         /\ pc' = "clear" => at' >= Len(relay_command_queue)
<1>1. at \in Nat \ {0} /\ Len(relay_command_queue) \in Nat
  BY LenProperties DEF TypeOK
<1> QED BY <1>1 DEF NextCommand

\* The command whose turn it is.
LEMMA CurrentType ==
  ASSUME TypeOK, pc \in {"command", "announce"}
  PROVE  /\ at \in 1 .. Len(relay_command_queue)
         /\ Current \in Command
         /\ Current.relay_name \in Names /\ Current.desired_state \in BOOLEAN
<1>1. /\ relay_command_queue \in Seq(Command) /\ Len(relay_command_queue) \in Nat
      /\ at \in Nat \ {0} /\ at <= Len(relay_command_queue)
  BY LenProperties DEF TypeOK
<1>2. Current \in Command
  BY <1>1, ElementOfSeq DEF Current
<1> QED BY <1>1, <1>2 DEF Command

\* A button's turn ends with the bits of the others.
LEMMA ButtonDoneType ==
  ASSUME TypeOK, NEW b \in Buttons, IsTurn(b), ButtonDone(b)
  PROVE  /\ last_state' \in [Buttons -> BOOLEAN]
         /\ DOMAIN bits' \subseteq Buttons /\ \A c \in DOMAIN bits' : bits'[c] \in BOOLEAN
         /\ pc' \in {"read", "button"}
         /\ pc' = "button" <=> DOMAIN bits' # {}
<1>1. /\ b \in DOMAIN bits /\ DOMAIN bits \subseteq Buttons
      /\ \A c \in DOMAIN bits : bits[c] \in BOOLEAN
      /\ last_state \in [Buttons -> BOOLEAN]
  BY DEF TypeOK, IsTurn
<1>2. bits' = [c \in DOMAIN bits \ {b} |-> bits[c]]
  BY DEF ButtonDone
<1>3. last_state' \in [Buttons -> BOOLEAN]
  BY <1>1 DEF ButtonDone
<1>4. /\ DOMAIN bits' = DOMAIN bits \ {b}
      /\ \A c \in DOMAIN bits' : bits'[c] = bits[c]
  BY <1>2
<1>5. pc' = IF DOMAIN bits = {b} THEN "read" ELSE "button"
  BY DEF ButtonDone
<1>6. DOMAIN bits \ {b} = {} <=> DOMAIN bits = {b}
  BY <1>1
<1> QED BY <1>1, <1>3, <1>4, <1>5, <1>6

\* What the broker is shown is a payload.
LEMMA ShowType ==
  ASSUME TypeOK, Show PROVE shown' \in [Buttons -> {"ON", "OFF", "none"}]
<1>1. CASE UNCHANGED shown
  BY <1>1 DEF TypeOK
<1>2. ASSUME NEW b \in Buttons, shown' = [shown EXCEPT ![b] = Payload(bits[b])]
      PROVE  shown' \in [Buttons -> {"ON", "OFF", "none"}]
  <2>1. Payload(bits[b]) \in {"ON", "OFF"}
    BY DEF Payload
  <2> QED BY <1>2, <2>1 DEF TypeOK
<1> QED BY <1>1, <1>2 DEF Show

\* Ages stay within the refresh interval.
LEMMA OlderType == \A n \in 0 .. RefreshInterval : Older(n) \in 0 .. RefreshInterval
BY LegacyConstants DEF Older

----------------------------------------------------------------------------
(* Type correctness.                                                       *)

\* The initial states are well typed.
LEMMA InitTypeOK == Init => TypeOK
<1> SUFFICES ASSUME Init PROVE TypeOK
  OBVIOUS
<1>1. relay_command_queue \in Seq(Command)
  BY EmptySeq DEF Init
<1>2. /\ DOMAIN bits = {} /\ pc = "modbus" /\ token = "none" /\ at = 1
      /\ DOMAIN bits \subseteq Buttons /\ \A b \in DOMAIN bits : bits[b] \in BOOLEAN
  BY DEF Init
<1>3. 0 \in 0 .. RefreshInterval
  BY LegacyConstants
<1>4. age \in [Buttons -> 0 .. RefreshInterval] /\ since \in 0 .. RefreshInterval
  BY <1>3 DEF Init
<1>5. /\ last_state \in [Buttons -> BOOLEAN] /\ current_state \in [Relays -> BOOLEAN]
      /\ shown \in [Buttons -> {"ON", "OFF", "none"}]
      /\ line \in [Buttons -> BOOLEAN] /\ coil \in [Coils -> BOOLEAN]
  BY DEF Init
<1>6. /\ todo \in SUBSET Slaves /\ callback \in Command \cup {NoCommand}
      /\ {running, connected, subscribed, calm} \subseteq BOOLEAN
  BY DEF Init
<1> QED BY <1>1, <1>2, <1>4, <1>5, <1>6 DEF TypeOK

\* Every step of the main thread keeps the types.
LEMMA MainTypeOK == TypeOK /\ MainThread => TypeOK'
<1> SUFFICES ASSUME TypeOK, MainThread PROVE TypeOK'
  OBVIOUS
<1> USE DEF buttons, relays, mqtt, world
<1>1. CASE InitModbus
  BY <1>1 DEF InitModbus, TypeOK
<1>2. CASE InitMqtt
  BY <1>2 DEF InitMqtt, TypeOK
<1>3. CASE StartCycle \/ LeaveLoop
  BY <1>3 DEF StartCycle, LeaveLoop, TypeOK
<1>4. CASE Cleanup
  BY <1>4 DEF Cleanup, TypeOK
<1>5. ASSUME NEW s \in Slaves, ReadSlave(s) PROVE TypeOK'
  <2>1. CASE UNCHANGED <<bits, pc>>
    BY <1>5, <2>1 DEF ReadSlave, TypeOK
  <2>2. CASE bits' = [b \in {b \in Buttons : b[1] = s} |-> line[b]] /\ pc' = "button"
    <3>1. DOMAIN bits' = {b \in Buttons : b[1] = s}
      BY <2>2
    <3>2. DOMAIN bits' # {}
      BY <3>1 DEF Slaves
    <3>3. \A b \in DOMAIN bits' : bits'[b] \in BOOLEAN
      BY <2>2, <3>1 DEF TypeOK
    <3> QED BY <1>5, <2>2, <3>1, <3>2, <3>3 DEF ReadSlave, TypeOK
  <2> QED BY <1>5, <2>1, <2>2 DEF ReadSlave
<1>6. ASSUME NEW b \in Buttons, PublishButton(b) PROVE TypeOK'
  <2>1. CASE ShouldPublish(b) /\ connected
    <3>1. since' \in 0 .. RefreshInterval
      BY <1>6, <2>1, LegacyConstants DEF PublishButton
    <3> QED BY <1>6, <2>1, <3>1 DEF PublishButton, IsTurn, TypeOK
  <2>2. CASE ~(ShouldPublish(b) /\ connected)
    <3>1. ButtonDone(b) /\ IsTurn(b) /\ UNCHANGED <<token, since>>
      BY <1>6, <2>2 DEF PublishButton
    <3> QED BY <1>6, <3>1, ButtonDoneType DEF PublishButton, TypeOK
  <2> QED BY <2>1, <2>2
<1>7. ASSUME NEW b \in Buttons, ButtonPublished(b) PROVE TypeOK'
  <2>1. ButtonDone(b) /\ IsTurn(b)
    BY <1>7 DEF ButtonPublished
  <2>2. age' \in [Buttons -> 0 .. RefreshInterval] /\ since' \in 0 .. RefreshInterval
    BY <1>7, LegacyConstants DEF ButtonPublished, TypeOK
  <2> QED BY <1>7, <2>1, <2>2, ButtonDoneType DEF ButtonPublished, TypeOK
<1>8. CASE LockQueue
  <2>1. relay_command_queue # <<>> => 1 <= Len(relay_command_queue)
    BY EmptySeq, LenProperties DEF TypeOK
  <2> QED BY <1>8, <2>1 DEF LockQueue, TypeOK
<1>9. CASE SkipUnknownRelay
  BY <1>9, NextCommandType DEF SkipUnknownRelay, TypeOK
<1>10. CASE WriteCoil
  <2>1. Current.desired_state \in BOOLEAN
    BY <1>10, CurrentType DEF WriteCoil
  <2>2. coil' \in [Coils -> BOOLEAN] /\ current_state' \in [Relays -> BOOLEAN]
    BY <1>10, <2>1 DEF WriteCoil, TypeOK
  <2> QED BY <1>10, <2>2 DEF WriteCoil, TypeOK
<1>11. CASE WriteCoilFails
  <2>1. Current.desired_state \in BOOLEAN
    BY <1>11, CurrentType DEF WriteCoilFails
  <2>2. coil' \in [Coils -> BOOLEAN]
    BY <1>11, <2>1 DEF WriteCoilFails, TypeOK
  <2> QED BY <1>11, <2>2, NextCommandType DEF WriteCoilFails, TypeOK
<1>12. CASE PublishRelay
  <2>1. CASE connected
    BY <1>12, <2>1 DEF PublishRelay, TypeOK
  <2>2. CASE ~connected
    BY <1>12, <2>2, NextCommandType DEF PublishRelay, TypeOK
  <2> QED BY <2>1, <2>2
<1>13. CASE RelayPublished
  BY <1>13, NextCommandType DEF RelayPublished, TypeOK
<1>14. CASE ClearQueue
  <2>1. relay_command_queue' \in Seq(Command)
    BY <1>14, EmptySeq DEF ClearQueue
  <2> QED BY <1>14, <2>1 DEF ClearQueue, TypeOK
<1> QED BY <1>1, <1>2, <1>3, <1>4, <1>5, <1>6, <1>7, <1>8, <1>9, <1>10, <1>11,
           <1>12, <1>13, <1>14 DEF MainThread

\* Every step of the library and of the world keeps the types.
LEMMA OthersTypeOK == TypeOK /\ (Library \/ World) => TypeOK'
<1> SUFFICES ASSUME TypeOK, Library \/ World PROVE TypeOK'
  OBVIOUS
<1> USE DEF main, buttons, relays, mqtt, world
<1>1. CASE Push
  <2>1. callback \in Command
    BY <1>1 DEF Push, TypeOK
  <2>2. relay_command_queue' \in Seq(Command)
    BY <1>1, <2>1, AppendProperties DEF Push, TypeOK
  <2> QED BY <1>1, <2>2 DEF Push, Locked, TypeOK
<1>2. CASE CompleteToken \/ Reconnect
  BY <1>2 DEF CompleteToken, Reconnect, TypeOK
<1>3. ASSUME NEW cmd \in Arriving, MessageArrived(cmd) PROVE TypeOK'
  <2>1. cmd \in Command
    BY LegacyConstants DEF Command
  <2> QED BY <1>3, <2>1 DEF MessageArrived, TypeOK
<1>4. CASE Acknowledge
  <2>1. shown' \in [Buttons -> {"ON", "OFF", "none"}]
    BY <1>4, ShowType DEF Acknowledge
  <2> QED BY <1>4, <2>1 DEF Acknowledge, TypeOK
<1>5. CASE LoseConnection
  <2>1. shown' \in [Buttons -> {"ON", "OFF", "none"}]
    BY <1>5, ShowType DEF LoseConnection, TypeOK
  <2> QED BY <1>5, <2>1 DEF LoseConnection, TypeOK
<1>6. ASSUME NEW b \in Buttons, ToggleLine(b) PROVE TypeOK'
  <2>1. line' \in [Buttons -> BOOLEAN]
    BY <1>6 DEF ToggleLine, TypeOK
  <2> QED BY <1>6, <2>1 DEF ToggleLine, TypeOK
<1>7. CASE Tick
  <2>1. age' \in [Buttons -> 0 .. RefreshInterval]
    BY <1>7, OlderType DEF Tick, TypeOK
  <2>2. since' \in 0 .. RefreshInterval
    BY <1>7, OlderType, LegacyConstants DEF Tick, TypeOK
  <2> QED BY <1>7, <2>1, <2>2 DEF Tick, TypeOK
<1>8. CASE Stop \/ Settle
  BY <1>8 DEF Stop, Settle, TypeOK
<1> QED BY <1>1, <1>2, <1>3, <1>4, <1>5, <1>6, <1>7, <1>8 DEF Library, World

\* Every step keeps the types.
LEMMA NextTypeOK == TypeOK /\ [Next]_vars => TypeOK'
<1>1. TypeOK /\ UNCHANGED vars => TypeOK'
  BY DEF TypeOK, vars, main, buttons, relays, mqtt, world
<1> QED BY <1>1, MainTypeOK, OthersTypeOK DEF Next

\* Whatever the buttons, the relays and the commands, every variable keeps its type and the
\* loop's place stays inside the queue it iterates over.
THEOREM TypeCorrect == Spec => []TypeOK
BY InitTypeOK, NextTypeOK, PTL DEF Spec

----------------------------------------------------------------------------
(* What the queue is cleared of.                                           *)

\* Between the end of the loop and clear() nothing comes into the queue, whenever
\* message_arrived is called: every command removed has had its turn.
THEOREM OnlyHandledAlwaysCleared == Spec => []OnlyHandledCleared
<1>1. Init => OnlyHandledCleared
  BY DEF Init, OnlyHandledCleared
<1>2. TypeOK /\ OnlyHandledCleared /\ [Next]_vars => OnlyHandledCleared'
  <2> SUFFICES ASSUME TypeOK, OnlyHandledCleared, [Next]_vars PROVE OnlyHandledCleared'
    OBVIOUS
  <2> USE DEF OnlyHandledCleared
  <2>1. CASE UNCHANGED <<pc, at, relay_command_queue>>
    BY <2>1
  <2>2. CASE pc' # "clear"
    BY <2>2
  <2>3. CASE LockQueue
    BY <2>3, EmptySeq DEF LockQueue, relays
  <2>4. CASE NextCommand /\ UNCHANGED relay_command_queue
    BY <2>4, NextCommandType
  <2>5. CASE Push
    BY <2>5 DEF Push, Locked, main
  <2>6. CASE MainThread
    <3>1. CASE InitModbus \/ InitMqtt \/ StartCycle \/ LeaveLoop \/ Cleanup \/ WriteCoil \/ ClearQueue
      BY <2>2, <3>1 DEF InitModbus, InitMqtt, StartCycle, LeaveLoop, Cleanup, WriteCoil, ClearQueue
    <3>2. ASSUME NEW s \in Slaves, ReadSlave(s) PROVE OnlyHandledCleared'
      BY <2>2, <3>2 DEF ReadSlave
    <3>3. ASSUME NEW b \in Buttons, PublishButton(b) \/ ButtonPublished(b)
          PROVE  OnlyHandledCleared'
      BY <2>2, <3>3 DEF PublishButton, ButtonPublished, IsTurn, ButtonDone
    <3>4. CASE SkipUnknownRelay \/ WriteCoilFails \/ RelayPublished
      BY <2>4, <3>4 DEF SkipUnknownRelay, WriteCoilFails, RelayPublished, relays
    <3>5. CASE PublishRelay
      <4>1. CASE connected
        BY <2>2, <3>5, <4>1 DEF PublishRelay
      <4>2. CASE ~connected
        BY <2>4, <3>5, <4>2 DEF PublishRelay, relays
      <4> QED BY <4>1, <4>2
    <3> QED BY <2>3, <2>6, <3>1, <3>2, <3>3, <3>4, <3>5 DEF MainThread
  <2>7. CASE CompleteToken \/ Reconnect
    BY <2>1, <2>7 DEF CompleteToken, Reconnect, main, relays
  <2>8. CASE World
    <3>1. CASE Acknowledge \/ LoseConnection \/ Tick \/ Stop \/ Settle
      BY <2>1, <3>1 DEF Acknowledge, LoseConnection, Tick, Stop, Settle, main, relays
    <3>2. ASSUME NEW cmd, MessageArrived(cmd) PROVE OnlyHandledCleared'
      BY <2>1, <3>2 DEF MessageArrived, main, relays
    <3>3. ASSUME NEW b, ToggleLine(b) PROVE OnlyHandledCleared'
      BY <2>1, <3>3 DEF ToggleLine, main, relays
    <3> QED BY <2>8, <3>1, <3>2, <3>3 DEF World
  <2>9. CASE UNCHANGED vars
    BY <2>1, <2>9 DEF vars, main, relays
  <2> QED BY <2>5, <2>6, <2>7, <2>8, <2>9 DEF Next, Library
<1> QED BY <1>1, <1>2, TypeCorrect, PTL DEF Spec

----------------------------------------------------------------------------
(* The implementation of RelayService.                                     *)

\* The commands waiting are those of the queue from the one whose turn it is.
LEMMA WaitingIs ==
  /\ pc = "command" => Waiting = SubSeq(relay_command_queue, at, Len(relay_command_queue))
  /\ pc \in {"announce", "clear"}
       => Waiting = SubSeq(relay_command_queue, at + 1, Len(relay_command_queue))
  /\ pc \notin {"command", "announce", "clear"} => Waiting = relay_command_queue
BY DEF Waiting

\* And after a step.
LEMMA WaitingIsNext ==
  /\ pc' = "command" => Waiting' = SubSeq(relay_command_queue', at', Len(relay_command_queue'))
  /\ pc' \in {"announce", "clear"}
       => Waiting' = SubSeq(relay_command_queue', at' + 1, Len(relay_command_queue'))
  /\ pc' \notin {"command", "announce", "clear"} => Waiting' = relay_command_queue'
BY DEF Waiting

\* The command whose turn it is is the oldest of those waiting.
LEMMA CurrentWaiting ==
  ASSUME TypeOK, pc = "command"
  PROVE  /\ Waiting # <<>> /\ Head(Waiting) = Current
         /\ Tail(Waiting) = SubSeq(relay_command_queue, at + 1, Len(relay_command_queue))
<1>1. /\ relay_command_queue \in Seq(Command) /\ at \in 1 .. Len(relay_command_queue)
      /\ Len(relay_command_queue) \in at .. Len(relay_command_queue)
  BY CurrentType, LenProperties DEF TypeOK
<1>2. Waiting = SubSeq(relay_command_queue, at, Len(relay_command_queue))
  BY WaitingIs
<1>3. Head(Waiting) = Current /\ Tail(Waiting)
        = SubSeq(relay_command_queue, at + 1, Len(relay_command_queue))
  BY <1>1, <1>2, HeadTailOfSubSeq DEF Current
<1>4. \A i \in at .. Len(relay_command_queue) : relay_command_queue[i] \in Command
  BY <1>1, ElementOfSeq
<1>5. Waiting \in Seq(Command) /\ Len(Waiting) = Len(relay_command_queue) - at + 1
  BY <1>1, <1>2, <1>4, SubSeqProperties
<1>6. Waiting # <<>>
  BY <1>1, <1>5, EmptySeq
<1> QED BY <1>3, <1>6

\* The end of a command's turn leaves the commands after it.
LEMMA NextWaiting ==
  ASSUME TypeOK, pc \in {"command", "announce"}, NextCommand, UNCHANGED relay_command_queue
  PROVE  Waiting' = SubSeq(relay_command_queue, at + 1, Len(relay_command_queue))
BY WaitingIsNext DEF NextCommand

\* With the ids of the table every relay has its coil.
LEMMA CoilsOfService == Service!Coils = Coils /\ \A r \in Relays : Service!Unicast(r)
BY LegacyConstants DEF Service!Coils, Coils, Service!Unicast

\* And a write moves no other.
LEMMA WritesOfService ==
  ASSUME NEW r \in Relays, NEW state, coil \in [Coils -> BOOLEAN]
  PROVE  /\ {CoilOf[r]} \in Service!Confirmed(r)
         /\ {CoilOf[r]} \in Service!Attempted(r) /\ {} \in Service!Attempted(r)
         /\ Service!After(coil, {CoilOf[r]}, state) = [coil EXCEPT ![CoilOf[r]] = state]
         /\ Service!After(coil, {}, state) = coil
<1>1. Service!Unicast(r) /\ ~Service!Broadcast(r) /\ Service!Reach(r) = {CoilOf[r]}
  BY CoilsOfService DEF Service!Unicast, Service!Broadcast, Service!Reach
<1>2. {CoilOf[r]} \in Service!Confirmed(r)
  BY <1>1 DEF Service!Confirmed
<1>3. {CoilOf[r]} \in Service!Attempted(r) /\ {} \in Service!Attempted(r)
  BY <1>1 DEF Service!Attempted
<1>4. Service!After(coil, {CoilOf[r]}, state) = [coil EXCEPT ![CoilOf[r]] = state]
  BY CoilsOfService DEF Service!After
<1>5. Service!After(coil, {}, state) = coil
  BY CoilsOfService DEF Service!After
<1> QED BY <1>2, <1>3, <1>4, <1>5

\* A step that leaves the commands waiting, the coils and the idea of them alone is a
\* stutter of the service.
LEMMA ServiceStutter ==
  ASSUME UNCHANGED <<Waiting, coil, current_state>>
  PROVE  [Service!Next]_Service!vars
BY DEF Service!vars

\* A command's turn performs the oldest of the service.
LEMMA ServicePerform ==
  ASSUME TypeOK, pc = "command",
         Waiting' = SubSeq(relay_command_queue, at + 1, Len(relay_command_queue)),
         Service!Applied(Current) \/ Service!Unconfirmed(Current) \/ Service!Dropped(Current)
  PROVE  Service!Perform
BY CurrentWaiting DEF Service!Perform

\* Every step of the main thread is one of the service, or none.
LEMMA ServiceMain ==
  TypeOK /\ OnlyHandledCleared /\ MainThread => [Service!Next]_Service!vars
<1> SUFFICES ASSUME TypeOK, OnlyHandledCleared, MainThread PROVE [Service!Next]_Service!vars
  OBVIOUS
<1> USE DEF relays
<1>1. ASSUME UNCHANGED relays, pc \notin {"command", "announce", "clear"},
             pc' \notin {"command", "announce", "clear"}
      PROVE  [Service!Next]_Service!vars
  BY <1>1, WaitingIs, WaitingIsNext, ServiceStutter
<1>2. CASE InitModbus \/ InitMqtt \/ StartCycle \/ LeaveLoop \/ Cleanup
  BY <1>1, <1>2 DEF InitModbus, InitMqtt, StartCycle, LeaveLoop, Cleanup
<1>3. ASSUME NEW s \in Slaves, ReadSlave(s) PROVE [Service!Next]_Service!vars
  BY <1>1, <1>3 DEF ReadSlave
<1>4. ASSUME NEW b \in Buttons, PublishButton(b) \/ ButtonPublished(b)
      PROVE  [Service!Next]_Service!vars
  BY <1>1, <1>4 DEF PublishButton, ButtonPublished, IsTurn, ButtonDone
<1>5. CASE LockQueue
  <2>1. Waiting = relay_command_queue
    BY <1>5, WaitingIs DEF LockQueue
  <2>2. CASE relay_command_queue = <<>>
    <3>1. Waiting' = SubSeq(relay_command_queue, 2, Len(relay_command_queue))
      BY <1>5, <2>2, WaitingIsNext DEF LockQueue
    <3>2. Waiting' = <<>>
      BY <2>2, <3>1, EmptySeq, SubSeqEmpty
    <3> QED BY <1>5, <2>1, <2>2, <3>2, ServiceStutter DEF LockQueue
  <2>3. CASE relay_command_queue # <<>>
    <3>1. Waiting' = SubSeq(relay_command_queue, 1, Len(relay_command_queue))
      BY <1>5, <2>3, WaitingIsNext DEF LockQueue
    <3>2. Waiting' = relay_command_queue
      BY <3>1, SubSeqFull DEF TypeOK
    <3> QED BY <1>5, <2>1, <3>2, ServiceStutter DEF LockQueue
  <2> QED BY <2>2, <2>3
<1>6. CASE SkipUnknownRelay
  <2>1. Service!Dropped(Current)
    BY <1>6 DEF SkipUnknownRelay, Service!Dropped
  <2> QED BY <1>6, <2>1, NextWaiting, ServicePerform DEF SkipUnknownRelay, Service!Next
<1>7. CASE WriteCoil
  <2>1. Service!Applied(Current)
    BY <1>7, WritesOfService DEF WriteCoil, Service!Applied, TypeOK, Command
  <2>2. Waiting' = SubSeq(relay_command_queue, at + 1, Len(relay_command_queue))
    BY <1>7, WaitingIsNext DEF WriteCoil
  <2> QED BY <1>7, <2>1, <2>2, ServicePerform DEF WriteCoil, Service!Next
<1>8. CASE WriteCoilFails
  <2>1. Service!Unconfirmed(Current)
    <3>1. /\ Current.relay_name \in Relays
          /\ coil \in [Coils -> BOOLEAN]
          /\ UNCHANGED current_state
      BY <1>8 DEF WriteCoilFails, TypeOK
    <3> DEFINE r == Current.relay_name
               state == Current.desired_state
    <3>2. coil' = [coil EXCEPT ![CoilOf[r]] = state] \/ coil' = coil
      BY <1>8 DEF WriteCoilFails
    <3> HIDE DEF state
    <3>3. \E S \in Service!Attempted(r) : coil' = Service!After(coil, S, state)
      BY <3>1, <3>2, WritesOfService
    <3> QED BY <3>1, <3>3 DEF Service!Unconfirmed, state
  <2> QED BY <1>8, <2>1, NextWaiting, ServicePerform DEF WriteCoilFails, Service!Next
<1>9. CASE PublishRelay \/ RelayPublished
  <2>1. pc = "announce" /\ UNCHANGED relays
    BY <1>9 DEF PublishRelay, RelayPublished
  <2>2. NextCommand \/ UNCHANGED <<pc, at>>
    BY <1>9 DEF PublishRelay, RelayPublished
  <2>3. Waiting' = Waiting
    BY <2>1, <2>2, NextWaiting, WaitingIs, WaitingIsNext
  <2> QED BY <2>1, <2>3, ServiceStutter
<1>10. CASE ClearQueue
  <2>1. /\ Waiting = SubSeq(relay_command_queue, at + 1, Len(relay_command_queue))
        /\ at >= Len(relay_command_queue)
    BY <1>10, WaitingIs DEF ClearQueue, OnlyHandledCleared
  <2>2. at \in Nat /\ Len(relay_command_queue) \in Nat
    BY LenProperties DEF TypeOK
  <2>3. Waiting = <<>>
    BY <2>1, <2>2, SubSeqEmpty
  <2>4. Waiting' = <<>>
    BY <1>10, WaitingIsNext DEF ClearQueue
  <2> QED BY <1>10, <2>3, <2>4, ServiceStutter DEF ClearQueue
<1> QED BY <1>2, <1>3, <1>4, <1>5, <1>6, <1>7, <1>8, <1>9, <1>10 DEF MainThread

\* A command that arrives is accepted, and nothing else outside the main thread matters.
LEMMA ServiceOthers == TypeOK /\ (Library \/ World) => [Service!Next]_Service!vars
<1> SUFFICES ASSUME TypeOK, Library \/ World PROVE [Service!Next]_Service!vars
  OBVIOUS
<1>1. ASSUME UNCHANGED <<main, relays>> PROVE [Service!Next]_Service!vars
  BY <1>1, ServiceStutter DEF Waiting, main, relays
<1>2. CASE Push
  <2>1. callback \in Command /\ callback \in Service!Command
    BY <1>2 DEF Push, TypeOK, Command, Service!Command
  <2>2. Waiting = relay_command_queue /\ Waiting' = relay_command_queue'
    BY <1>2, WaitingIs, WaitingIsNext DEF Push, Locked, main
  <2>3. Service!Accept(callback)
    BY <1>2, <2>2 DEF Push, Service!Accept
  <2> QED BY <2>1, <2>3 DEF Service!Next
<1>3. CASE CompleteToken \/ Reconnect
  BY <1>1, <1>3 DEF CompleteToken, Reconnect
<1>4. CASE World
  <2>1. CASE Acknowledge \/ LoseConnection \/ Tick \/ Stop \/ Settle
    BY <1>1, <2>1 DEF Acknowledge, LoseConnection, Tick, Stop, Settle
  <2>2. ASSUME NEW cmd, MessageArrived(cmd) PROVE [Service!Next]_Service!vars
    BY <1>1, <2>2 DEF MessageArrived
  <2>3. ASSUME NEW b, ToggleLine(b) PROVE [Service!Next]_Service!vars
    BY <1>1, <2>3 DEF ToggleLine
  <2> QED BY <1>4, <2>1, <2>2, <2>3 DEF World
<1> QED BY <1>2, <1>3, <1>4 DEF Library

\* The loop over the locked queue and the clearing after it perform every accepted command
\* at most once, in the order of arrival, and no coil moves otherwise.
THEOREM ImplementsRelayService == Spec => CommandsInOrder
<1>1. Init => Service!Init
  BY WaitingIs, CoilsOfService DEF Init, Service!Init
<1>2. TypeOK /\ OnlyHandledCleared /\ [Next]_vars => [Service!Next]_Service!vars
  <2>1. UNCHANGED vars => [Service!Next]_Service!vars
    BY ServiceStutter DEF vars, main, relays, Waiting
  <2> QED BY <2>1, ServiceMain, ServiceOthers DEF Next
<1> QED BY <1>1, <1>2, TypeCorrect, OnlyHandledAlwaysCleared, PTL
       DEF Spec, CommandsInOrder, Service!Spec

----------------------------------------------------------------------------
(* The deadlock.                                                           *)

\* A publish that may still be acknowledged was made on the connection that stands.
SentConnected == token \in {"sent", "acked"} => connected

\* The main thread sends only with a connection and gives one up only in cleanup.
LEMMA MainSent == TypeOK /\ SentConnected /\ MainThread => SentConnected'
<1> SUFFICES ASSUME TypeOK, SentConnected, MainThread PROVE SentConnected'
  OBVIOUS
<1> USE DEF SentConnected, mqtt
<1>1. CASE InitMqtt \/ Cleanup
  BY <1>1 DEF InitMqtt, Cleanup, TypeOK
<1>2. ASSUME NEW b \in Buttons, PublishButton(b) \/ ButtonPublished(b) PROVE SentConnected'
  BY <1>2 DEF PublishButton, ButtonPublished
<1>3. CASE PublishRelay \/ RelayPublished
  BY <1>3 DEF PublishRelay, RelayPublished
<1>4. ASSUME NEW s \in Slaves, ReadSlave(s) PROVE SentConnected'
  BY <1>4 DEF ReadSlave
<1>5. CASE \/ InitModbus \/ StartCycle \/ LeaveLoop \/ LockQueue \/ SkipUnknownRelay
           \/ WriteCoil \/ WriteCoilFails \/ ClearQueue
  BY <1>5 DEF InitModbus, StartCycle, LeaveLoop, LockQueue, SkipUnknownRelay, WriteCoil,
              WriteCoilFails, ClearQueue
<1> QED BY <1>1, <1>2, <1>3, <1>4, <1>5 DEF MainThread

\* The library and the world fail the token of a connection they take away.
LEMMA OthersSent == SentConnected /\ (Library \/ World) => SentConnected'
<1> SUFFICES ASSUME SentConnected, Library \/ World PROVE SentConnected'
  OBVIOUS
<1> USE DEF SentConnected, mqtt
<1>1. CASE Library
  BY <1>1 DEF Library, Push, CompleteToken, Reconnect
<1>2. CASE LoseConnection
  BY <1>2 DEF LoseConnection
<1>3. CASE Acknowledge \/ Tick \/ Stop \/ Settle
  BY <1>3 DEF Acknowledge, Tick, Stop, Settle
<1>4. ASSUME NEW cmd, MessageArrived(cmd) PROVE SentConnected'
  BY <1>4 DEF MessageArrived
<1>5. ASSUME NEW b, ToggleLine(b) PROVE SentConnected'
  BY <1>5 DEF ToggleLine
<1> QED BY <1>1, <1>2, <1>3, <1>4, <1>5 DEF World

\* What a publish waits for can still come.
LEMMA AlwaysSentConnected == Spec => []SentConnected
<1>1. Init => SentConnected
  BY DEF Init, SentConnected
<1>2. SentConnected /\ UNCHANGED vars => SentConnected'
  BY DEF SentConnected, vars, mqtt
<1> QED BY <1>1, <1>2, MainSent, OthersSent, TypeCorrect, PTL DEF Spec, Next

\* What the callback waits for and what the main thread waits for leave no thread a step.
LEMMA NoThreadGoesOn == ASSUME Stuck, connected, MainThread \/ Library PROVE FALSE
<1> USE DEF Stuck
<1>1. CASE \/ InitModbus \/ InitMqtt \/ StartCycle \/ LeaveLoop \/ Cleanup \/ LockQueue
           \/ SkipUnknownRelay \/ WriteCoil \/ WriteCoilFails \/ ClearQueue
  BY <1>1 DEF InitModbus, InitMqtt, StartCycle, LeaveLoop, Cleanup, LockQueue,
              SkipUnknownRelay, WriteCoil, WriteCoilFails, ClearQueue
<1>2. ASSUME NEW s \in Slaves, ReadSlave(s) PROVE FALSE
  BY <1>2 DEF ReadSlave
<1>3. ASSUME NEW b \in Buttons, PublishButton(b) \/ ButtonPublished(b) PROVE FALSE
  BY <1>3 DEF PublishButton, ButtonPublished, IsTurn
<1>4. CASE PublishRelay \/ RelayPublished
  BY <1>4, Zenon DEF PublishRelay, RelayPublished
<1>5. CASE Library
  BY <1>5 DEF Library, Push, Locked, CompleteToken, Reconnect
<1> QED BY <1>1, <1>2, <1>3, <1>4, <1>5 DEF MainThread

\* Stuck, the program is freed by the loss of its connection and by nothing else, however
\* many buttons and relays it has and however long its queue is.
LEMMA StuckStep ==
  ASSUME SentConnected, Stuck, [Next]_vars
  PROVE  /\ connected
         /\ connected' => Stuck' /\ UNCHANGED <<main, relays, callback>>
         /\ calm => connected' /\ calm'
<1>1. connected
  BY DEF Stuck, SentConnected
<1>2. ~MainThread /\ ~Library
  BY <1>1, NoThreadGoesOn
<1>3. CASE Acknowledge
  BY <1>1, <1>3 DEF Acknowledge, Stuck, main, relays, world
<1>4. CASE LoseConnection
  BY <1>1, <1>4 DEF LoseConnection
<1>5. CASE Tick \/ Stop \/ Settle
  <2>1. UNCHANGED <<main, relays, mqtt>> /\ (calm => calm')
    BY <1>5 DEF Tick, Stop, Settle, world
  <2> QED BY <1>1, <2>1 DEF Stuck, main, mqtt
<1>6. ASSUME NEW cmd, MessageArrived(cmd) PROVE FALSE
  BY <1>6 DEF MessageArrived, Stuck
<1>7. CASE \E b \in Buttons : ToggleLine(b)
  BY <1>1, <1>7 DEF ToggleLine, Stuck, main, relays, mqtt, world
<1>8. CASE UNCHANGED vars
  BY <1>1, <1>8 DEF vars, Stuck, main, relays, mqtt, world
<1> QED BY <1>2, <1>3, <1>4, <1>5, <1>6, <1>7, <1>8 DEF Next, World

\* Nothing but the loss of the connection ends the deadlock (modbus_poller.cpp:423-448).
THEOREM OnlyLossEverFrees == Spec => OnlyLossFrees
<1>1. SentConnected /\ [Next]_vars
        => [Stuck => /\ connected
                     /\ connected' => Stuck' /\ UNCHANGED <<main, relays, callback>>]_vars
  BY StuckStep
<1> QED BY <1>1, AlwaysSentConnected, PTL DEF Spec, OnlyLossFrees

\* In a world without faults the deadlock between the lock around the queue and the
\* acknowledgement waited for under it (modbus_poller.cpp:423) is for ever: the finding
\* of the run legacy_deadlock is no matter of its configuration.
THEOREM StuckForGood == Spec => [](Stuck /\ calm => []Stuck)
<1>1. SentConnected /\ (Stuck /\ calm) /\ [Next]_vars => (Stuck /\ calm)'
  BY StuckStep
<1> QED BY <1>1, AlwaysSentConnected, PTL DEF Spec

----------------------------------------------------------------------------
(* What the broker shows of the buttons, once it is right.                 *)

\* All is at rest, the broker shows every button as its line is, and what was read of the
\* buttons whose turn is still to come is what their lines are.
ButtonsSettled == calm /\ ButtonsShown /\ \A b \in DOMAIN bits : bits[b] = line[b]

\* What the broker takes of a publish is what it shows already.
LEMMA SettledShow == TypeOK /\ ButtonsSettled /\ Show /\ UNCHANGED line => ButtonsShown'
<1> SUFFICES ASSUME TypeOK, ButtonsSettled, Show, line' = line PROVE ButtonsShown'
  OBVIOUS
<1>1. CASE UNCHANGED shown
  BY <1>1 DEF ButtonsSettled, ButtonsShown
<1>2. ASSUME NEW b \in Buttons, IsTurn(b), shown' = [shown EXCEPT ![b] = Payload(bits[b])]
      PROVE  ButtonsShown'
  <2>1. bits[b] = line[b] /\ shown \in [Buttons -> {"ON", "OFF", "none"}]
    BY <1>2 DEF ButtonsSettled, IsTurn, TypeOK
  <2> QED BY <1>2, <2>1 DEF ButtonsSettled, ButtonsShown
<1> QED BY <1>1, <1>2 DEF Show

\* The main thread reads the buttons as their lines are.
LEMMA SettledMain == TypeOK /\ ButtonsSettled /\ MainThread => ButtonsSettled'
<1> SUFFICES ASSUME TypeOK, ButtonsSettled, MainThread PROVE ButtonsSettled'
  OBVIOUS
<1> USE DEF ButtonsSettled, ButtonsShown
<1>1. ASSUME UNCHANGED <<bits, shown, world>> PROVE ButtonsSettled'
  BY <1>1 DEF world
<1>2. CASE \/ InitModbus \/ InitMqtt \/ StartCycle \/ LeaveLoop \/ Cleanup \/ LockQueue
           \/ SkipUnknownRelay \/ WriteCoil \/ WriteCoilFails \/ ClearQueue
  BY <1>1, <1>2 DEF InitModbus, InitMqtt, StartCycle, LeaveLoop, Cleanup, LockQueue,
                    SkipUnknownRelay, WriteCoil, WriteCoilFails, ClearQueue, mqtt
<1>3. CASE PublishRelay \/ RelayPublished
  BY <1>1, <1>3, Zenon DEF PublishRelay, RelayPublished
<1>4. ASSUME NEW s \in Slaves, ReadSlave(s) PROVE ButtonsSettled'
  <2>1. UNCHANGED <<shown, world>>
    BY <1>4 DEF ReadSlave, mqtt
  <2>2. CASE UNCHANGED bits
    BY <1>1, <2>1, <2>2
  <2>3. CASE bits' = [b \in {b \in Buttons : b[1] = s} |-> line[b]]
    BY <2>1, <2>3 DEF world
  <2> QED BY <1>4, <2>2, <2>3 DEF ReadSlave
<1>5. ASSUME NEW b \in Buttons, PublishButton(b) \/ ButtonPublished(b) PROVE ButtonsSettled'
  <2>1. UNCHANGED <<shown, world>> /\ (ButtonDone(b) \/ UNCHANGED bits)
    BY <1>5 DEF PublishButton, ButtonPublished
  <2>2. CASE ButtonDone(b)
    BY <2>1, <2>2 DEF ButtonDone, world
  <2> QED BY <1>1, <2>1, <2>2
<1> QED BY <1>2, <1>3, <1>4, <1>5 DEF MainThread

\* Once the broker shows every button as its line is, and the bits read agree, it goes on
\* showing them: no refresh, acknowledgement, command, signal or deadlock undoes it.  Of
\* ButtonsReachBroker, that it stays so.
THEOREM ButtonsStayShown == Spec => [](ButtonsSettled => []ButtonsShown)
<1>1. TypeOK /\ ButtonsSettled /\ [Next]_vars => ButtonsSettled'
  <2> SUFFICES ASSUME TypeOK, ButtonsSettled, [Next]_vars PROVE ButtonsSettled'
    OBVIOUS
  <2>1. ASSUME UNCHANGED <<main, line, shown>>, calm' PROVE ButtonsSettled'
    BY <2>1 DEF ButtonsSettled, ButtonsShown, main
  <2>2. CASE Library
    BY <2>1, <2>2 DEF Library, Push, CompleteToken, Reconnect, ButtonsSettled, world
  <2>3. CASE Acknowledge
    <3>1. Show /\ UNCHANGED <<bits, line, calm>>
      BY <2>3 DEF Acknowledge, main, world
    <3> QED BY <3>1, SettledShow DEF ButtonsSettled
  <2>4. CASE LoseConnection \/ \E b \in Buttons : ToggleLine(b)
    BY <2>4 DEF LoseConnection, ToggleLine, ButtonsSettled
  <2>5. CASE Tick \/ Stop \/ Settle
    BY <2>1, <2>5 DEF Tick, Stop, Settle, ButtonsSettled, mqtt, world
  <2>6. ASSUME NEW cmd, MessageArrived(cmd) PROVE ButtonsSettled'
    BY <2>1, <2>6 DEF MessageArrived, ButtonsSettled, world
  <2>7. CASE UNCHANGED vars
    BY <2>1, <2>7 DEF vars, ButtonsSettled, mqtt, world
  <2> QED BY <2>2, <2>3, <2>4, <2>5, <2>6, <2>7, SettledMain DEF Next, World
<1>2. ButtonsSettled => ButtonsShown
  BY DEF ButtonsSettled
<1> QED BY <1>1, <1>2, TypeCorrect, PTL DEF Spec

----------------------------------------------------------------------------
(* The end of a cycle.                                                     *)

\* The places of the main thread inside a cycle.
Cycle == {"read", "button", "command", "announce", "clear"}

\* How far the publish is that the main thread makes.
Wait ==
  CASE token = "none"  -> 3
    [] token = "sent"  -> 2
    [] token = "acked" -> 1
    [] OTHER           -> 0

\* How much of a cycle is left: the slaves and their buttons, then the commands from the
\* one whose turn it is, each with its announcement.
Rank ==
  CASE pc \in {"read", "button"} -> <<2, Cardinality(todo), Cardinality(DOMAIN bits), Wait>>
    [] pc = "command"            -> <<1, Len(relay_command_queue) + 1 - at, 1, 0>>
    [] pc = "announce"           -> <<1, Len(relay_command_queue) + 1 - at, 0, Wait>>
    [] OTHER                     -> <<0, 0, 0, 0>>

\* The lexicographic order, in which no sequence of such tuples falls for ever.
Below(x, y) ==
  \E k \in 1..4 : x[k] < y[k] /\ \A j \in 1..k - 1 : x[j] = y[j]

\* The two forms in which the order is used.
LEMMA BelowFirst ==
  ASSUME NEW x, NEW y, x[1] < y[1] \/ (x[1] = y[1] /\ x[2] < y[2])
  PROVE  Below(x, y)
<1>1. CASE x[1] < y[1]
  <2>1. \A j \in 1..1 - 1 : x[j] = y[j]
    OBVIOUS
  <2> QED BY <1>1, <2>1 DEF Below
<1>2. CASE x[1] = y[1] /\ x[2] < y[2]
  <2>1. \A j \in 1..2 - 1 : x[j] = y[j]
    BY <1>2
  <2> QED BY <1>2, <2>1 DEF Below
<1> QED BY <1>1, <1>2

LEMMA BelowLast ==
  ASSUME NEW x, NEW y, x[1] = y[1], x[2] = y[2], x[3] < y[3] \/ (x[3] = y[3] /\ x[4] < y[4])
  PROVE  Below(x, y)
<1>1. CASE x[3] < y[3]
  <2>1. \A j \in 1..3 - 1 : x[j] = y[j]
    OBVIOUS
  <2> QED BY <1>1, <2>1 DEF Below
<1>2. CASE x[3] = y[3] /\ x[4] < y[4]
  <2>1. \A j \in 1..4 - 1 : x[j] = y[j]
    BY <1>2
  <2> QED BY <1>2, <2>1 DEF Below
<1> QED BY <1>1, <1>2

\* What is left of a cycle is finite.
LEMMA FiniteCycle ==
  ASSUME TypeOK
  PROVE  /\ IsFiniteSet(todo) /\ Cardinality(todo) \in Nat
         /\ IsFiniteSet(DOMAIN bits) /\ Cardinality(DOMAIN bits) \in Nat
         /\ Len(relay_command_queue) \in Nat /\ at \in Nat
         /\ pc \in {"command", "announce"} => Len(relay_command_queue) + 1 - at \in Nat \ {0}
<1>1. IsFiniteSet(Slaves)
  <2> DEFINE slave == [b \in Buttons |-> b[1]]
  <2>1. slave \in Surjection(Buttons, Slaves)
    BY DEF Surjection, Slaves
  <2> QED BY <2>1, FS_Surjection, LegacyConstants
<1>2. todo \subseteq Slaves /\ DOMAIN bits \subseteq Buttons
  BY DEF TypeOK
<1>3. /\ Len(relay_command_queue) \in Nat /\ at \in Nat
      /\ pc \in {"command", "announce"} => at <= Len(relay_command_queue)
  BY LenProperties DEF TypeOK
<1> QED BY <1>1, <1>2, <1>3, FS_Subset, FS_CardinalityType, LegacyConstants

LEMMA RankType ==
  ASSUME TypeOK, pc \in Cycle
  PROVE  Rank \in Nat \X Nat \X Nat \X Nat
<1>1. Wait \in Nat
  BY DEF Wait
<1>2. CASE pc \in {"read", "button"}
  BY <1>1, <1>2, FiniteCycle DEF Rank
<1>3. CASE pc = "command"
  BY <1>1, <1>3, FiniteCycle DEF Rank
<1>4. CASE pc = "announce"
  BY <1>1, <1>4, FiniteCycle DEF Rank
<1>5. CASE pc = "clear"
  BY <1>5 DEF Rank
<1> QED BY <1>2, <1>3, <1>4, <1>5 DEF Cycle

\* A button whose turn is over leaves one less.
LEMMA ButtonWearsOut ==
  ASSUME TypeOK, NEW b \in Buttons, IsTurn(b), ButtonDone(b), UNCHANGED todo
  PROVE  Below(Rank', Rank)
<1>1. DOMAIN bits' = DOMAIN bits \ {b} /\ b \in DOMAIN bits
  BY DEF ButtonDone, IsTurn
<1>2. Cardinality(DOMAIN bits') = Cardinality(DOMAIN bits) - 1 /\ Cardinality(DOMAIN bits) \in Nat
  BY <1>1, FiniteCycle, FS_RemoveElement
<1>3. pc = "button" /\ pc' \in {"read", "button"}
  BY DEF IsTurn, ButtonDone
<1>4. /\ Rank = <<2, Cardinality(todo), Cardinality(DOMAIN bits), Wait>>
      /\ Rank' = <<2, Cardinality(todo'), Cardinality(DOMAIN bits'), Wait'>>
  BY <1>3 DEF Rank
<1> HIDE DEF Rank
<1> QED BY <1>2, <1>4, BelowLast

\* So does a command; the queue does not grow under the lock.
LEMMA CommandWearsOut ==
  ASSUME TypeOK, pc \in {"command", "announce"}, NextCommand, UNCHANGED relay_command_queue
  PROVE  Below(Rank', Rank)
<1> DEFINE left == Len(relay_command_queue) + 1 - at
<1>1. left \in Nat \ {0} /\ at \in Nat /\ Len(relay_command_queue) \in Nat
  BY FiniteCycle
<1>2. Rank[1] = 1 /\ Rank[2] = left
  BY DEF Rank
<1>3. CASE at' = at + 1 /\ pc' = "command"
  <2>1. Rank'[1] = 1 /\ Rank'[2] = left - 1
    BY <1>1, <1>3 DEF Rank
  <2> HIDE DEF left, Rank
  <2> QED BY <1>1, <1>2, <2>1, BelowFirst
<1>4. CASE pc' = "clear"
  <2>1. Rank'[1] = 0
    BY <1>4 DEF Rank
  <2> HIDE DEF left, Rank
  <2> QED BY <1>2, <2>1, BelowFirst
<1> QED BY <1>3, <1>4 DEF NextCommand

\* A publish that moves on leaves the rest as it is.
LEMMA WaitWearsOut ==
  ASSUME TypeOK, pc \in {"button", "announce"}, Wait' < Wait,
         UNCHANGED <<main, relay_command_queue>>
  PROVE  Below(Rank', Rank)
<1>1. CASE pc = "button"
  <2>1. /\ Rank = <<2, Cardinality(todo), Cardinality(DOMAIN bits), Wait>>
        /\ Rank' = <<2, Cardinality(todo), Cardinality(DOMAIN bits), Wait'>>
    BY <1>1 DEF Rank, main
  <2> QED BY <2>1, BelowLast
<1>2. CASE pc = "announce"
  <2>1. /\ Rank = <<1, Len(relay_command_queue) + 1 - at, 0, Wait>>
        /\ Rank' = <<1, Len(relay_command_queue) + 1 - at, 0, Wait'>>
    BY <1>2 DEF Rank, main
  <2> QED BY <2>1, BelowLast
<1> QED BY <1>1, <1>2

\* Every step of the main thread inside a cycle leaves less of it, or ends it.
LEMMA MainWearsOut ==
  ASSUME TypeOK, pc \in Cycle, MainThread
  PROVE  Below(Rank', Rank) \/ pc' = "loop"
<1> USE DEF Cycle, buttons, relays, mqtt
<1>1. ASSUME NEW s \in Slaves, ReadSlave(s) PROVE Below(Rank', Rank)
  <2>1. /\ pc = "read" /\ pc' \in {"read", "button"}
        /\ s \in todo /\ todo' = todo \ {s}
    BY <1>1 DEF ReadSlave, IsFirst
  <2>2. Cardinality(todo') = Cardinality(todo) - 1 /\ Cardinality(todo) \in Nat
    BY <2>1, FiniteCycle, FS_RemoveElement
  <2>3. Rank[1] = 2 /\ Rank[2] = Cardinality(todo) /\ Rank'[1] = 2 /\ Rank'[2] = Cardinality(todo')
    BY <2>1 DEF Rank
  <2> QED BY <2>2, <2>3, BelowFirst
<1>2. ASSUME NEW b \in Buttons, PublishButton(b) PROVE Below(Rank', Rank)
  <2>1. CASE ShouldPublish(b) /\ connected
    <3>1. /\ pc = "button" /\ token = "none" /\ token' = "sent"
          /\ UNCHANGED <<main, relay_command_queue>>
      BY <1>2, <2>1 DEF PublishButton, IsTurn, main
    <3> QED BY <3>1, WaitWearsOut DEF Wait
  <2>2. CASE ~(ShouldPublish(b) /\ connected)
    <3>1. IsTurn(b) /\ ButtonDone(b) /\ UNCHANGED todo
      BY <1>2, <2>2 DEF PublishButton
    <3> QED BY <3>1, ButtonWearsOut
  <2> QED BY <2>1, <2>2
<1>3. ASSUME NEW b \in Buttons, ButtonPublished(b) PROVE Below(Rank', Rank)
  BY <1>3, ButtonWearsOut DEF ButtonPublished
<1>4. CASE LockQueue
  <2>1. Rank[1] = 2 /\ Rank'[1] \in {0, 1}
    BY <1>4 DEF LockQueue, Rank
  <2> QED BY <2>1, BelowFirst
<1>5. CASE SkipUnknownRelay \/ WriteCoilFails \/ RelayPublished
  BY <1>5, CommandWearsOut DEF SkipUnknownRelay, WriteCoilFails, RelayPublished
<1>6. CASE WriteCoil
  <2>1. /\ Rank = <<1, Len(relay_command_queue) + 1 - at, 1, 0>>
        /\ Rank' = <<1, Len(relay_command_queue) + 1 - at, 0, Wait'>>
    BY <1>6 DEF WriteCoil, Rank
  <2> QED BY <2>1, BelowLast
<1>7. CASE PublishRelay
  <2>1. CASE connected
    <3>1. /\ pc = "announce" /\ token = "none" /\ token' = "sent"
          /\ UNCHANGED <<main, relay_command_queue>>
      BY <1>7, <2>1 DEF PublishRelay, main
    <3> QED BY <3>1, WaitWearsOut DEF Wait
  <2>2. CASE ~connected
    BY <1>7, <2>2, CommandWearsOut DEF PublishRelay
  <2> QED BY <2>1, <2>2
<1>8. CASE ClearQueue
  BY <1>8 DEF ClearQueue
<1>9. ~InitModbus /\ ~InitMqtt /\ ~StartCycle /\ ~LeaveLoop /\ ~Cleanup
  BY DEF InitModbus, InitMqtt, StartCycle, LeaveLoop, Cleanup
<1> QED BY <1>1, <1>2, <1>3, <1>4, <1>5, <1>6, <1>7, <1>8, <1>9 DEF MainThread

\* The library and the world only move the publish on that the main thread waits for.
LEMMA OthersWearOut ==
  ASSUME TypeOK, TypeOK', pc \in Cycle, Library \/ World \/ UNCHANGED vars
  PROVE  Below(Rank', Rank) \/ Rank' = Rank
<1> USE DEF Cycle
<1>1. ASSUME UNCHANGED <<main, token>>,
             pc \in {"command", "announce"} => UNCHANGED relay_command_queue
      PROVE  Rank' = Rank
  BY <1>1 DEF Rank, Wait, main
<1>2. CASE Push
  <2>1. pc \notin {"command", "announce"} /\ UNCHANGED <<main, token>>
    BY <1>2 DEF Push, Locked
  <2> QED BY <1>1, <2>1
<1>3. CASE CompleteToken \/ Acknowledge
  <2>1. token \in {"sent", "acked"} /\ UNCHANGED <<main, relay_command_queue>> /\ Wait' < Wait
    BY <1>3 DEF CompleteToken, Acknowledge, Wait, relays
  <2>2. pc \in {"button", "announce"}
    BY <2>1 DEF TypeOK
  <2> QED BY <2>1, <2>2, WaitWearsOut
<1>4. CASE LoseConnection
  <2>1. UNCHANGED <<main, relay_command_queue>>
    BY <1>4 DEF LoseConnection, relays
  <2>2. CASE token \in {"sent", "acked"}
    <3>1. Wait' < Wait
      BY <1>4, <2>2 DEF LoseConnection, Wait
    <3> QED BY <2>1, <2>2, <3>1, WaitWearsOut DEF TypeOK
  <2>3. CASE token \notin {"sent", "acked"}
    BY <1>1, <1>4, <2>1, <2>3 DEF LoseConnection
  <2> QED BY <2>2, <2>3
<1>5. CASE Reconnect \/ Tick \/ Stop \/ Settle \/ UNCHANGED vars
  BY <1>1, <1>5 DEF Reconnect, Tick, Stop, Settle, vars, relays, mqtt
<1>6. ASSUME NEW cmd, MessageArrived(cmd) PROVE Rank' = Rank
  BY <1>1, <1>6 DEF MessageArrived, relays
<1>7. CASE \E b \in Buttons : ToggleLine(b)
  BY <1>1, <1>7 DEF ToggleLine, relays, mqtt
<1> QED BY <1>2, <1>3, <1>4, <1>5, <1>6, <1>7 DEF Library, World

\* Inside a cycle every step leaves less of it, ends it, or is another's than the main
\* thread's and leaves as much.
CycleWears ==
  pc \in Cycle =>
    /\ Rank \in Nat \X Nat \X Nat \X Nat
    /\ pc' = "loop" \/ Below(Rank', Rank) \/ (~MainThread /\ Rank' = Rank)

\* A cycle ends, and running is looked at again, however fast commands arrive, unless the
\* main thread waits for an acknowledgement that does not come: of CommandsPerformed and
\* SignalEnds, all but that the threads go on (modbus_poller.cpp:405-448).
THEOREM CyclesWearOut == Spec => [][CycleWears]_vars
<1>1. TypeOK /\ TypeOK' /\ [Next]_vars => CycleWears
  <2> SUFFICES ASSUME TypeOK, TypeOK', [Next]_vars, pc \in Cycle PROVE CycleWears
    BY DEF CycleWears
  <2>1. CASE MainThread
    BY <2>1, RankType, MainWearsOut DEF CycleWears
  <2>2. CASE ~MainThread
    BY <2>2, RankType, OthersWearOut DEF CycleWears, Next
  <2> QED BY <2>1, <2>2
<1> QED BY <1>1, TypeCorrect, PTL DEF Spec

=============================================================================
