----------------------- MODULE DeviceControllerProofs -----------------------
(***************************************************************************)
(* Theorems about DeviceController for every configuration: any number of  *)
(* inputs, relays and waiting commands.                                    *)
(***************************************************************************)
EXTENDS DeviceController, SequenceTheorems, FiniteSetTheorems, TLAPS

----------------------------------------------------------------------------
(* What the environment's half of a step does.                             *)

\* The devices' topics, coils and slaves are among those of the configuration.
LEMMA TopicsOfDevices ==
  /\ \A i \in Inputs : InputTopic[i] \in StateTopics
  /\ \A r \in Relays : RelayTopic[r] \in StateTopics
  /\ \A r \in Relays : Unicast(r) => CoilOf[r] \in Coils
  /\ \A i \in Inputs : SlaveOf[i] \in SlaveIds
BY DEF StateTopics, Coils, SlaveIds

\* A write for r, confirmed or not, leaves the coils of relays it does not reach as
\* they were; and one that is confirmed sets the coil of r, if r has a slave's own id.
LEMMA CoilsWritten ==
  ASSUME coil \in [Coils -> BOOLEAN], NEW r \in Relays, NEW state \in BOOLEAN,
         NEW S \in Confirmed(r) \cup Attempted(r)
  PROVE  /\ After(coil, S, state) \in [Coils -> BOOLEAN]
         /\ \A q \in Relays \ Reached(r) :
              Unicast(q) => After(coil, S, state)[CoilOf[q]] = coil[CoilOf[q]]
         /\ S \in Confirmed(r) /\ Unicast(r) => After(coil, S, state)[CoilOf[r]] = state
<1>1. S \subseteq Reach(r)
  BY DEF Confirmed, Attempted
<1>2. S \in Confirmed(r) /\ Unicast(r) => S = {CoilOf[r]}
  BY DEF Confirmed, Reach, Unicast, Broadcast
<1> QED BY <1>1, <1>2, TopicsOfDevices DEF After, Reached

\* What is published is one of two payloads.
LEMMA PayloadType == \A b \in BOOLEAN : Payload(b) \in {"ON", "OFF"}
BY DEF Payload

\* A publish keeps the broker's variables in their types.
LEMMA PublishType ==
  ASSUME TypeOfWorld, NEW topic \in StateTopics, NEW payload \in {"ON", "OFF"},
         Publish(topic, payload)
  PROVE  /\ retained' \in [StateTopics -> {"ON", "OFF", "none"}]
         /\ inflight' \in Seq(Message)
         /\ unacked' \in SUBSET StateTopics
<1>1. CASE PublishAcked(topic, payload)
  BY <1>1 DEF TypeOfWorld, PublishAcked
<1>2. CASE PublishTimedOut(topic, payload)
  <2>1. [topic |-> topic, payload |-> payload] \in Message
    BY DEF Message
  <2> QED BY <1>2, <2>1, AppendProperties DEF TypeOfWorld, PublishTimedOut
<1>3. CASE PublishRefused(topic)
  BY <1>3 DEF TypeOfWorld, PublishRefused
<1> QED BY <1>1, <1>2, <1>3 DEF Publish

\* A topic that counts as acked after a publish shows what was published, if it
\* is the topic published to, and is as it was if it is another.
LEMMA PublishView ==
  ASSUME TypeOfWorld, NEW topic \in StateTopics, NEW payload \in {"ON", "OFF"},
         Publish(topic, payload),
         NEW u \in StateTopics, u \notin unacked'
  PROVE  /\ u = topic => retained'[u] = payload
         /\ u # topic => u \notin unacked /\ retained'[u] = retained[u]
BY DEF TypeOfWorld, Publish, PublishAcked, PublishTimedOut, PublishRefused

\* A publish that leaves its message with the client makes its topic unacked.
LEMMA PublishInflight ==
  ASSUME TypeOfWorld, NEW topic \in StateTopics, NEW payload \in {"ON", "OFF"},
         Publish(topic, payload), InflightUnacked
  PROVE  InflightUnacked'
<1>1. CASE PublishAcked(topic, payload)
  BY <1>1 DEF PublishAcked, InflightUnacked
<1>2. CASE PublishTimedOut(topic, payload)
  <2> DEFINE m == [topic |-> topic, payload |-> payload]
  <2>1. m \in Message
    BY DEF Message
  <2>2. /\ Len(inflight') = Len(inflight) + 1
        /\ \A k \in 1..Len(inflight) : inflight'[k] = inflight[k]
        /\ inflight'[Len(inflight) + 1] = m
    BY <1>2, <2>1, AppendProperties DEF TypeOfWorld, PublishTimedOut
  <2>3. Len(inflight) \in Nat
    BY LenProperties DEF TypeOfWorld
  <2> QED BY <1>2, <2>2, <2>3 DEF PublishTimedOut, InflightUnacked
<1>3. CASE PublishRefused(topic)
  BY <1>3 DEF PublishRefused, InflightUnacked
<1> QED BY <1>1, <1>2, <1>3 DEF Publish

\* TakeCommands splits the queue into what is taken and what stays.
LEMMA BatchSplit ==
  ASSUME TypeOfState
  PROVE  /\ BatchSize \in 0..Len(queue)
         /\ SubSeq(queue, 1, BatchSize) \in Seq(Command)
         /\ Len(SubSeq(queue, 1, BatchSize)) = BatchSize
         /\ SubSeq(queue, BatchSize + 1, Len(queue)) \in Seq(Command)
         /\ SubSeq(queue, 1, BatchSize) \o SubSeq(queue, BatchSize + 1, Len(queue)) = queue
<1>1. queue \in Seq(Command) /\ Len(queue) \in Nat
  BY LenProperties DEF TypeOfState
<1>2. BatchSize \in 0..Len(queue)
  BY <1>1 DEF BatchSize
<1>3. SubSeq(queue, 1, BatchSize) \in Seq(Command) /\ Len(SubSeq(queue, 1, BatchSize)) = BatchSize
  BY <1>1, <1>2, SubSeqProperties
<1>4. SubSeq(queue, BatchSize + 1, Len(queue)) \in Seq(Command)
  BY <1>1, <1>2, SubSeqProperties
<1>5. SubSeq(queue, 1, BatchSize) \o SubSeq(queue, BatchSize + 1, Len(queue))
        = SubSeq(queue, 1, Len(queue))
  <2>1. /\ 1 \in 1 .. Len(queue) + 1
        /\ BatchSize \in 1 - 1 .. Len(queue)
        /\ Len(queue) \in BatchSize .. Len(queue)
    BY <1>1, <1>2
  <2> QED BY <1>1, <2>1, ConcatAdjacentSubSeq
<1>6. SubSeq(queue, 1, Len(queue)) = queue
  BY <1>1, SubSeqFull
<1> QED BY <1>2, <1>3, <1>4, <1>5, <1>6

----------------------------------------------------------------------------
(* Type correctness.                                                       *)

\* The initial states are well typed.
LEMMA InitTypeOK == Init => TypeOK
<1> SUFFICES ASSUME Init PROVE TypeOK
  OBVIOUS
<1>1. TypeOfMain
  BY DEF Init, TypeOfMain, NoBits
<1>2. TypeOfState
  BY ConstantTypes DEF Init, TypeOfState
<1>3. TypeOfWorld
  <2>1. retained \in [StateTopics -> {"ON", "OFF", "none"}]
    BY DEF Init
  <2>2. inflight \in Seq(Message)
    BY DEF Init
  <2>3. /\ line \in [Lines -> BOOLEAN]
        /\ coil \in [Coils -> BOOLEAN]
        /\ calm \in BOOLEAN
        /\ unacked \in SUBSET StateTopics
        /\ unconfirmed \in SUBSET Relays
    BY DEF Init
  <2> QED BY <2>1, <2>2, <2>3 DEF TypeOfWorld
<1>4. ControlOK
  BY DEF Init, ControlOK
<1> QED BY <1>1, <1>2, <1>3, <1>4 DEF TypeOK

\* A command executed leaves a shorter batch and is a command.
LEMMA NextCommandType ==
  ASSUME TypeOfMain, NEW cmd, NextCommand(cmd)
  PROVE  cmd \in Command /\ batch' \in Seq(Command)
BY HeadTailProperties DEF NextCommand, TypeOfMain

\* Every step of the program and of the world keeps the types.
LEMMA NextTypeOK == TypeOK /\ [Next]_vars => TypeOK'
<1> SUFFICES ASSUME TypeOK, [Next]_vars PROVE TypeOK'
  OBVIOUS
<1> USE DEF TypeOK
<1>1. CASE StartCycle
  BY <1>1 DEF StartCycle, TypeOfMain, TypeOfState, TypeOfWorld, ControlOK,
              inputs, broker, relays, world
<1>2. CASE LeaveLoop
  BY <1>2 DEF LeaveLoop, TypeOfMain, TypeOfState, TypeOfWorld, ControlOK,
              inputs, broker, relays, world
<1>3. ASSUME NEW s \in SlaveIds, ReadSlave(s) PROVE TypeOK'
  <2> USE <1>3
  <2>1. Group(s) # {} /\ Group(s) \subseteq Inputs
    BY DEF Group, SlaveIds
  <2>2. input_bits' \in [0..7 -> BOOLEAN]
    BY DEF ReadSlave, BitsOf, TypeOfWorld
  <2>3. TypeOfMain' /\ ControlOK'
    BY <2>1, <2>2 DEF ReadSlave, TypeOfMain, ControlOK, IsFirst
  <2>4. TypeOfState' /\ TypeOfWorld'
    BY DEF ReadSlave, TypeOfState, TypeOfWorld, inputs, broker, relays, world
  <2> QED BY <2>3, <2>4
<1>4. ASSUME NEW s \in SlaveIds, ReadSlaveFails(s) PROVE TypeOK'
  BY <1>4 DEF ReadSlaveFails, TypeOfMain, TypeOfState, TypeOfWorld, ControlOK,
              inputs, broker, relays, world
<1>5. ASSUME NEW i \in Inputs, PublishInput(i) PROVE TypeOK'
  <2> USE <1>5
  <2>1. PICK state \in BOOLEAN :
          /\ IF ShouldPublish(i, state)
               THEN /\ Publish(InputTopic[i], Payload(state))
                    /\ age' = [age EXCEPT ![i] = 0]
               ELSE UNCHANGED <<broker, age>>
          /\ last_state' = [last_state EXCEPT ![i] = state]
    BY DEF PublishInput, BitsFor, TypeOfMain
  <2>2. TypeOfState'
    BY <2>1, ConstantTypes DEF PublishInput, TypeOfState, relays, world
  <2>3. /\ retained' \in [StateTopics -> {"ON", "OFF", "none"}]
        /\ inflight' \in Seq(Message)
        /\ unacked' \in SUBSET StateTopics
    <3>1. CASE ShouldPublish(i, state)
      <4>1. Publish(InputTopic[i], Payload(state))
        BY <2>1, <3>1
      <4> QED BY <4>1, TopicsOfDevices, PayloadType, PublishType
    <3>2. CASE ~ShouldPublish(i, state)
      BY <2>1, <3>2 DEF broker, TypeOfWorld
    <3> QED BY <3>1, <3>2
  <2>4. TypeOfWorld'
    BY <2>3 DEF PublishInput, TypeOfWorld, relays, world
  <2>5. TypeOfMain'
    BY DEF PublishInput, TypeOfMain
  <2>6. ControlOK'
    <3>1. PICK s \in todo : IsFirst(s, todo) /\ pending \subseteq Group(s)
      BY DEF PublishInput, ControlOK
    <3>2. i \in pending
      BY DEF PublishInput, IsFirst
    <3>3. CASE pending = {i}
      BY <3>3 DEF PublishInput, ControlOK
    <3>4. CASE pending # {i}
      BY <3>1, <3>2, <3>4 DEF PublishInput, ControlOK
    <3> QED BY <3>3, <3>4
  <2> QED BY <2>2, <2>4, <2>5, <2>6
<1>6. CASE TakeCommands
  <2>1. batch' \in Seq(Command) /\ queue' \in Seq(Command)
    BY <1>6, BatchSplit DEF TakeCommands
  <2> QED BY <1>6, <2>1 DEF TakeCommands, TypeOfMain, TypeOfState, TypeOfWorld,
                            ControlOK, inputs, broker, relays, world
<1>7. CASE SkipUnknownRelay
  <2>1. batch' \in Seq(Command)
    BY <1>7, NextCommandType DEF SkipUnknownRelay
  <2> QED BY <1>7, <2>1 DEF SkipUnknownRelay, NextCommand, TypeOfMain, TypeOfState,
                            TypeOfWorld, ControlOK, inputs, broker, relays, world
<1>8. CASE WriteCoil
  <2>1. PICK cmd \in Command :
          /\ NextCommand(cmd)
          /\ cmd.relay_name \in Relays
          /\ \E S \in Confirmed(cmd.relay_name) :
               coil' = After(coil, S, cmd.desired_state)
          /\ current_state' = [current_state EXCEPT ![cmd.relay_name] = cmd.desired_state]
          /\ announcing' = {cmd.relay_name}
          /\ unconfirmed' = (unconfirmed \cup Reached(cmd.relay_name)) \ {cmd.relay_name}
    BY <1>8 DEF WriteCoil
  <2>2. /\ batch' \in Seq(Command)
        /\ cmd.desired_state \in BOOLEAN
        /\ Reached(cmd.relay_name) \subseteq Relays
        /\ coil' \in [Coils -> BOOLEAN]
    <3>1. cmd.desired_state \in BOOLEAN /\ coil \in [Coils -> BOOLEAN]
      BY DEF Command, TypeOfWorld
    <3>2. coil' \in [Coils -> BOOLEAN]
      BY <2>1, <3>1, CoilsWritten
    <3> QED BY <2>1, <3>1, <3>2, NextCommandType DEF Reached
  <2>3. TypeOfMain' /\ ControlOK'
    BY <1>8, <2>1, <2>2 DEF WriteCoil, NextCommand, TypeOfMain, ControlOK
  <2>4. TypeOfState'
    BY <1>8, <2>1, <2>2 DEF WriteCoil, TypeOfState, inputs, world
  <2>5. TypeOfWorld'
    BY <1>8, <2>1, <2>2 DEF WriteCoil, TypeOfWorld, broker, world
  <2> QED BY <2>3, <2>4, <2>5
<1>9. CASE WriteCoilFails
  <2>1. PICK cmd \in Command :
          /\ NextCommand(cmd)
          /\ cmd.relay_name \in Relays
          /\ \E S \in Attempted(cmd.relay_name) :
               coil' = After(coil, S, cmd.desired_state)
          /\ unconfirmed' = unconfirmed \cup Reached(cmd.relay_name) \cup {cmd.relay_name}
    BY <1>9 DEF WriteCoilFails
  <2>2. /\ batch' \in Seq(Command)
        /\ Reached(cmd.relay_name) \subseteq Relays
        /\ coil' \in [Coils -> BOOLEAN]
    <3>1. cmd.desired_state \in BOOLEAN /\ coil \in [Coils -> BOOLEAN]
      BY DEF Command, TypeOfWorld
    <3>2. coil' \in [Coils -> BOOLEAN]
      BY <2>1, <3>1, CoilsWritten
    <3> QED BY <2>1, <3>1, <3>2, NextCommandType DEF Reached
  <2>3. TypeOfMain' /\ ControlOK'
    BY <1>9, <2>1, <2>2 DEF WriteCoilFails, NextCommand, TypeOfMain, ControlOK
  <2>4. TypeOfState'
    BY <1>9 DEF WriteCoilFails, TypeOfState, inputs, world
  <2>5. TypeOfWorld'
    BY <1>9, <2>1, <2>2 DEF WriteCoilFails, TypeOfWorld, broker, world
  <2> QED BY <2>3, <2>4, <2>5
<1>10. ASSUME NEW r \in Relays, PublishRelay(r) PROVE TypeOK'
  <2>1. current_state[r] \in BOOLEAN
    BY DEF TypeOfState
  <2>2. /\ retained' \in [StateTopics -> {"ON", "OFF", "none"}]
        /\ inflight' \in Seq(Message)
        /\ unacked' \in SUBSET StateTopics
    BY <1>10, <2>1, TopicsOfDevices, PayloadType, PublishType DEF PublishRelay
  <2> QED BY <1>10, <2>2 DEF PublishRelay, TypeOfMain, TypeOfState, TypeOfWorld,
                             ControlOK, inputs, relays, world
<1>11. CASE EndCycle
  BY <1>11 DEF EndCycle, TypeOfMain, TypeOfState, TypeOfWorld, ControlOK,
               inputs, broker, relays, world
<1>12. ASSUME NEW topic \in Topics, NEW payload \in Payloads,
              HandleMqttCommand(topic, payload)
       PROVE  TypeOK'
  <2> DEFINE cmd == [relay_name    |-> RelayNameOf(topic),
                     desired_state |-> DesiredState(payload)]
  <2>1. cmd \in Command
    BY <1>12 DEF HandleMqttCommand, Command, Names, DesiredState
  <2>2. queue' \in Seq(Command)
    BY <1>12, <2>1, AppendProperties DEF HandleMqttCommand, TypeOfState
  <2> QED BY <1>12, <2>2 DEF HandleMqttCommand, TypeOfMain, TypeOfState, TypeOfWorld,
                             ControlOK, main, inputs, broker, relays, world
<1>13. CASE World
  <2>1. CASE Deliver
    <3>1. Head(inflight) \in Message /\ inflight' \in Seq(Message)
      BY <2>1, HeadTailProperties DEF Deliver, TypeOfWorld
    <3> QED BY <2>1, <3>1 DEF Deliver, Message, TypeOfMain, TypeOfState, TypeOfWorld,
                              ControlOK, main, inputs, relays, world
  <2>2. CASE LoseInflight
    BY <2>2 DEF LoseInflight, TypeOfMain, TypeOfState, TypeOfWorld, ControlOK,
                main, inputs, relays, world
  <2>3. CASE Tick
    <3>1. age' \in [Inputs -> 0..RefreshInterval]
      BY <2>3, ConstantTypes DEF Tick, TypeOfState
    <3> QED BY <2>3, <3>1 DEF Tick, TypeOfMain, TypeOfState, TypeOfWorld, ControlOK,
                              main, broker, relays, world
  <2>4. CASE Stop
    BY <2>4 DEF Stop, TypeOfMain, TypeOfState, TypeOfWorld, ControlOK,
                main, inputs, broker, relays, world
  <2>5. CASE Settle
    BY <2>5 DEF Settle, TypeOfMain, TypeOfState, TypeOfWorld, ControlOK,
                main, inputs, broker, relays
  <2>6. CASE Restart
    BY <2>6, ConstantTypes DEF Restart, NoBits, TypeOfMain, TypeOfState, TypeOfWorld,
                               ControlOK, world
  <2>7. ASSUME NEW l \in Lines, ToggleLine(l) PROVE TypeOK'
    BY <2>7 DEF ToggleLine, TypeOfMain, TypeOfState, TypeOfWorld, ControlOK,
                main, inputs, broker, relays
  <2> QED BY <1>13, <2>1, <2>2, <2>3, <2>4, <2>5, <2>6, <2>7 DEF World
<1>14. CASE UNCHANGED vars
  BY <1>14 DEF vars, TypeOfMain, TypeOfState, TypeOfWorld, ControlOK,
               main, inputs, broker, relays, world
<1> QED BY <1>1, <1>2, <1>3, <1>4, <1>5, <1>6, <1>7, <1>8, <1>9, <1>10, <1>11,
           <1>12, <1>13, <1>14 DEF Next, MainThread

\* In every configuration every variable keeps its type, and what the main thread
\* still has to do fits the point it has reached.
THEOREM TypeCorrect == Spec => []TypeOK
BY InitTypeOK, NextTypeOK, PTL DEF Spec

----------------------------------------------------------------------------
(* A limit of zero.                                                        *)

\* With the limit 0 no command is ever taken from the queue, in whatever state the
\* main thread and the connection are (device_controller.cpp:52): CommandsServed
\* excepts this value because it must.
THEOREM ZeroLimitServesNothing == Spec => [](max_commands_per_cycle = 0 => batch = <<>>)
<1> DEFINE Idle == max_commands_per_cycle = 0 => batch = <<>>
<1>1. Init => Idle
  BY DEF Init
<1>2. TypeOK /\ Idle /\ [Next]_vars => Idle'
  <2> SUFFICES ASSUME TypeOK, Idle, [Next]_vars PROVE Idle'
    OBVIOUS
  <2>1. UNCHANGED max_commands_per_cycle
    BY DEF Next, MainThread, World, StartCycle, LeaveLoop, ReadSlave, ReadSlaveFails,
           PublishInput, TakeCommands, SkipUnknownRelay, WriteCoil, WriteCoilFails,
           PublishRelay, EndCycle, HandleMqttCommand, Deliver, LoseInflight, Tick, Stop,
           Settle, Restart, ToggleLine, vars, world
  <2>2. CASE UNCHANGED batch
    BY <2>1, <2>2
  <2>3. CASE TakeCommands
    <3>1. max_commands_per_cycle = 0 => Len(batch') = 0 /\ batch' \in Seq(Command)
      <4>1. Len(queue) \in Nat
        BY LenProperties DEF TypeOK, TypeOfState
      <4> QED BY <2>3, <4>1, BatchSplit DEF TakeCommands, TypeOK, BatchSize
    <3> QED BY <2>1, <3>1, EmptySeq
  <2>4. ASSUME NEW cmd, NextCommand(cmd) PROVE Idle'
    BY <2>1, <2>4 DEF NextCommand
  <2>5. CASE Restart
    BY <2>5 DEF Restart
  <2> QED
    BY <2>2, <2>3, <2>4, <2>5
    DEF Next, MainThread, World, StartCycle, LeaveLoop, ReadSlave, ReadSlaveFails,
        PublishInput, SkipUnknownRelay, WriteCoil, WriteCoilFails, PublishRelay,
        EndCycle, HandleMqttCommand, Deliver, LoseInflight, Tick, Stop, Settle,
        ToggleLine, vars, main
<1> QED BY <1>1, <1>2, TypeCorrect, PTL DEF Spec

----------------------------------------------------------------------------
(* What the broker shows.                                                  *)

\* The invariant is inductive only as a whole.  What the broker shows of a topic
\* is preserved by a late delivery because no topic in flight counts as acked;
\* what it shows of a coil combines what it shows of current_state with what is
\* known of the coil.
ViewInvariant == InflightUnacked /\ InputViewCurrent /\ RelayViewCurrent /\ CoilKnown

\* Nothing is acked or confirmed at first.
LEMMA InitView == Init => ViewInvariant
<1> SUFFICES ASSUME Init PROVE ViewInvariant
  OBVIOUS
<1>1. InflightUnacked
  BY DEF Init, InflightUnacked
<1>2. InputViewCurrent /\ RelayViewCurrent /\ CoilKnown
  BY TopicsOfDevices DEF Init, InputViewCurrent, RelayViewCurrent, CoilKnown
<1> QED BY <1>1, <1>2 DEF ViewInvariant

\* A step that leaves the broker and the controller's states alone preserves it.
LEMMA ViewUnchanged ==
  ASSUME ViewInvariant, UNCHANGED <<broker, relays, last_state>>,
         announcing \ announcing' = {}
  PROVE  ViewInvariant'
BY DEF ViewInvariant, InflightUnacked, InputViewCurrent, RelayViewCurrent, CoilKnown,
       broker, relays

\* A publish to a topic of no input leaves what the broker shows of inputs, and
\* one to a topic of no relay what it shows of relays.
LEMMA PublishKeepsView ==
  ASSUME TypeOfWorld, ViewInvariant,
         NEW topic \in StateTopics, NEW payload \in {"ON", "OFF"},
         Publish(topic, payload)
  PROVE  /\ InflightUnacked'
         /\ \A i \in Inputs :
              /\ InputTopic[i] # topic
              /\ InputTopic[i] \notin unacked'
              => retained'[InputTopic[i]] = Payload(last_state[i])
         /\ \A r \in Relays \ announcing :
              /\ RelayTopic[r] # topic
              /\ RelayTopic[r] \notin unacked'
              => retained'[RelayTopic[r]] = Payload(current_state[r])
<1>1. InflightUnacked'
  BY PublishInflight DEF ViewInvariant
<1>2. ASSUME NEW i \in Inputs, InputTopic[i] # topic, InputTopic[i] \notin unacked'
      PROVE  retained'[InputTopic[i]] = Payload(last_state[i])
  BY <1>2, PublishView, TopicsOfDevices DEF ViewInvariant, InputViewCurrent
<1>3. ASSUME NEW r \in Relays \ announcing, RelayTopic[r] # topic,
             RelayTopic[r] \notin unacked'
      PROVE  retained'[RelayTopic[r]] = Payload(current_state[r])
  BY <1>3, PublishView, TopicsOfDevices DEF ViewInvariant, RelayViewCurrent
<1> QED BY <1>1, <1>2, <1>3

\* Every step preserves the invariant.
LEMMA NextView == TypeOK /\ ViewInvariant /\ [Next]_vars => ViewInvariant'
<1> SUFFICES ASSUME TypeOK, ViewInvariant, [Next]_vars PROVE ViewInvariant'
  OBVIOUS
<1> USE DEF TypeOK
<1>1. ASSUME NEW i \in Inputs, PublishInput(i) PROVE ViewInvariant'
  <2> USE <1>1
  <2>1. PICK state \in BOOLEAN :
          /\ IF ShouldPublish(i, state)
               THEN /\ Publish(InputTopic[i], Payload(state))
                    /\ age' = [age EXCEPT ![i] = 0]
               ELSE UNCHANGED <<broker, age>>
          /\ last_state' = [last_state EXCEPT ![i] = state]
    BY DEF PublishInput, BitsFor, TypeOfMain
  <2>2. UNCHANGED <<relays, announcing>>
    BY DEF PublishInput
  <2>3. CASE ShouldPublish(i, state)
    <3>1. Publish(InputTopic[i], Payload(state))
      BY <2>1, <2>3
    <3>2. InputTopic[i] \in StateTopics /\ Payload(state) \in {"ON", "OFF"}
      BY TopicsOfDevices, PayloadType
    <3>3. InputViewCurrent'
      <4> SUFFICES ASSUME NEW j \in Inputs, InputTopic[j] \notin unacked'
                   PROVE  retained'[InputTopic[j]] = Payload(last_state'[j])
        BY DEF InputViewCurrent
      <4>1. CASE j = i
        BY <2>1, <3>1, <3>2, <4>1, PublishView DEF TypeOfState
      <4>2. CASE j # i
        <5>1. last_state'[j] = last_state[j]
          BY <2>1, <4>2 DEF TypeOfState
        <5>2. InputTopic[j] # InputTopic[i]
          BY <4>2, TopicsDistinct
        <5> QED BY <3>1, <3>2, <5>1, <5>2, PublishKeepsView
      <4> QED BY <4>1, <4>2
    <3>4. InflightUnacked' /\ RelayViewCurrent'
      BY <2>2, <3>1, <3>2, PublishKeepsView, TopicsDistinct DEF RelayViewCurrent, relays
    <3>5. CoilKnown'
      BY <2>2 DEF ViewInvariant, CoilKnown, relays
    <3> QED BY <3>3, <3>4, <3>5 DEF ViewInvariant
  <2>4. CASE ~ShouldPublish(i, state)
    <3>1. UNCHANGED broker /\ state = last_state[i]
      BY <2>1, <2>4 DEF ShouldPublish
    <3>2. UNCHANGED last_state
      BY <2>1, <3>1 DEF TypeOfState
    <3> QED BY <2>2, <3>1, <3>2, ViewUnchanged
  <2> QED BY <2>3, <2>4
<1>2. CASE WriteCoil
  <2>1. PICK cmd \in Command :
          /\ cmd.relay_name \in Relays
          /\ \E S \in Confirmed(cmd.relay_name) :
               coil' = After(coil, S, cmd.desired_state)
          /\ current_state' = [current_state EXCEPT ![cmd.relay_name] = cmd.desired_state]
          /\ unconfirmed' = (unconfirmed \cup Reached(cmd.relay_name)) \ {cmd.relay_name}
          /\ announcing' = {cmd.relay_name}
          /\ announcing = {}
          /\ UNCHANGED <<inputs, broker>>
    BY <1>2 DEF WriteCoil, NextCommand
  <2> DEFINE r == cmd.relay_name
  <2>2. RelayViewCurrent'
    BY <2>1 DEF ViewInvariant, RelayViewCurrent, broker, TypeOfState
  <2>3. CoilKnown'
    <3> SUFFICES ASSUME NEW q \in Relays, q \notin unconfirmed', Unicast(q)
                 PROVE  coil'[CoilOf[q]] = current_state'[q]
      BY DEF CoilKnown
    <3>0. cmd.desired_state \in BOOLEAN
      BY DEF Command
    <3>1. CASE q = r
      BY <2>1, <3>0, <3>1, CoilsWritten DEF TypeOfWorld, TypeOfState
    <3>2. CASE q # r
      <4>1. q \notin unconfirmed /\ q \notin Reached(r)
        BY <2>1, <3>2
      <4>2. coil'[CoilOf[q]] = coil[CoilOf[q]]
        BY <2>1, <3>0, <4>1, CoilsWritten DEF TypeOfWorld
      <4> QED BY <2>1, <3>2, <4>1, <4>2 DEF ViewInvariant, CoilKnown, TypeOfState
    <3> QED BY <3>1, <3>2
  <2> QED BY <2>1, <2>2, <2>3
          DEF ViewInvariant, InflightUnacked, InputViewCurrent, inputs, broker
<1>3. CASE WriteCoilFails
  <2>1. PICK cmd \in Command :
          /\ cmd.relay_name \in Relays
          /\ \E S \in Attempted(cmd.relay_name) :
               coil' = After(coil, S, cmd.desired_state)
          /\ unconfirmed' = unconfirmed \cup Reached(cmd.relay_name) \cup {cmd.relay_name}
          /\ UNCHANGED <<announcing, current_state, inputs, broker>>
    BY <1>3 DEF WriteCoilFails, NextCommand
  <2>2. CoilKnown'
    <3> SUFFICES ASSUME NEW q \in Relays, q \notin unconfirmed', Unicast(q)
                 PROVE  coil'[CoilOf[q]] = current_state'[q]
      BY DEF CoilKnown
    <3>1. q \notin Reached(cmd.relay_name) /\ q \notin unconfirmed
      BY <2>1
    <3>2. coil'[CoilOf[q]] = coil[CoilOf[q]]
      BY <2>1, <3>1, CoilsWritten DEF TypeOfWorld, Command
    <3> QED BY <2>1, <3>1, <3>2 DEF ViewInvariant, CoilKnown
  <2> QED BY <2>1, <2>2
          DEF ViewInvariant, InflightUnacked, InputViewCurrent, RelayViewCurrent,
              inputs, broker
<1>4. ASSUME NEW r \in Relays, PublishRelay(r) PROVE ViewInvariant'
  <2>1. /\ Publish(RelayTopic[r], Payload(current_state[r]))
        /\ RelayTopic[r] \in StateTopics
        /\ Payload(current_state[r]) \in {"ON", "OFF"}
    BY <1>4, TopicsOfDevices, PayloadType DEF PublishRelay, TypeOfState
  <2>2. /\ UNCHANGED <<relays, last_state>>
        /\ announcing' = {}
    BY <1>4 DEF PublishRelay, inputs
  <2>3. announcing = {r}
    BY <1>4 DEF PublishRelay, ControlOK
  <2>4. InflightUnacked' /\ InputViewCurrent'
    BY <2>1, <2>2, PublishKeepsView, TopicsDistinct DEF InputViewCurrent
  <2>5. RelayViewCurrent'
    <3> SUFFICES ASSUME NEW q \in Relays, RelayTopic[q] \notin unacked'
                 PROVE  retained'[RelayTopic[q]] = Payload(current_state[q])
      BY <2>2 DEF RelayViewCurrent, relays
    <3>1. CASE q = r
      BY <2>1, <3>1, PublishView
    <3>2. CASE q # r
      BY <2>1, <2>3, <3>2, PublishKeepsView, TopicsDistinct
    <3> QED BY <3>1, <3>2
  <2>6. CoilKnown'
    BY <2>2 DEF ViewInvariant, CoilKnown, relays
  <2> QED BY <2>4, <2>5, <2>6 DEF ViewInvariant
<1>5. CASE Deliver
  <2>1. Len(inflight) \in Nat /\ inflight # <<>>
    BY <1>5, LenProperties DEF Deliver, TypeOfWorld
  <2>2. Head(inflight) = inflight[1] /\ 1 \in 1..Len(inflight)
    BY <2>1, EmptySeq DEF TypeOfWorld
  <2>3. Head(inflight).topic \in unacked
    BY <2>2 DEF ViewInvariant, InflightUnacked
  <2>4. InflightUnacked'
    BY <1>5, <2>1, HeadTailProperties DEF Deliver, ViewInvariant, InflightUnacked, TypeOfWorld
  <2>5. InputViewCurrent' /\ RelayViewCurrent'
    BY <1>5, <2>3, TopicsOfDevices
    DEF Deliver, ViewInvariant, InputViewCurrent, RelayViewCurrent, TypeOfWorld,
        main, inputs, relays
  <2> QED BY <1>5, <2>4, <2>5 DEF Deliver, ViewInvariant, CoilKnown, relays
<1>6. CASE LoseInflight
  BY <1>6
  DEF LoseInflight, ViewInvariant, InflightUnacked, InputViewCurrent, RelayViewCurrent,
      CoilKnown, main, inputs, relays
<1>7. CASE Restart
  <2>1. InflightUnacked'
    BY <1>7 DEF Restart, InflightUnacked
  <2>2. InputViewCurrent' /\ RelayViewCurrent' /\ CoilKnown'
    BY <1>7, TopicsOfDevices DEF Restart, InputViewCurrent, RelayViewCurrent, CoilKnown
  <2> QED BY <2>1, <2>2 DEF ViewInvariant
<1>8. ASSUME UNCHANGED <<broker, relays, last_state, announcing>>
      PROVE  ViewInvariant'
  BY <1>8, ViewUnchanged
<1>9. CASE MainThread
  <2>1. CASE StartCycle \/ LeaveLoop \/ TakeCommands \/ SkipUnknownRelay \/ EndCycle
    BY <1>8, <2>1
    DEF StartCycle, LeaveLoop, TakeCommands, SkipUnknownRelay, EndCycle, inputs
  <2>2. ASSUME NEW s, ReadSlave(s) \/ ReadSlaveFails(s) PROVE ViewInvariant'
    BY <1>8, <2>2 DEF ReadSlave, ReadSlaveFails, inputs
  <2> QED BY <1>1, <1>2, <1>3, <1>4, <1>9, <2>1, <2>2 DEF MainThread
<1>10. ASSUME NEW topic, NEW payload, HandleMqttCommand(topic, payload)
       PROVE  ViewInvariant'
  BY <1>8, <1>10 DEF HandleMqttCommand, main, inputs
<1>11. CASE World
  BY <1>5, <1>6, <1>7, <1>8, <1>11
  DEF World, Tick, Stop, Settle, ToggleLine, main, inputs
<1>12. CASE UNCHANGED vars
  BY <1>8, <1>12 DEF vars, main, inputs
<1> QED BY <1>9, <1>10, <1>11, <1>12 DEF Next

\* Once acked, what the broker shows of an input is what the controller last read.
THEOREM InputViewsCurrent == Spec => []InputViewCurrent
<1>1. Spec => []ViewInvariant
  BY InitView, NextView, TypeCorrect, PTL DEF Spec
<1> QED BY <1>1, PTL DEF ViewInvariant

\* What the broker shows of a relay is the state of its coil, unless its last
\* write or its last publish failed or the publish is still to come.
THEOREM RelayViewsTruthful == Spec => []RelayViewTruthful
<1>1. Spec => []ViewInvariant
  BY InitView, NextView, TypeCorrect, PTL DEF Spec
<1>2. ViewInvariant => RelayViewTruthful
  BY DEF ViewInvariant, RelayViewCurrent, CoilKnown, RelayViewTruthful
<1> QED BY <1>1, <1>2, PTL

----------------------------------------------------------------------------
(* The implementation of RelayService.                                     *)

\* The head and the tail of a concatenation are those of its first part.
LEMMA HeadTailOfConcat ==
  ASSUME NEW S, NEW s \in Seq(S), NEW t \in Seq(S), s # <<>>
  PROVE  /\ s \o t # <<>>
         /\ Head(s \o t) = Head(s)
         /\ Tail(s \o t) = Tail(s) \o t
<1>1. Len(s) \in Nat \ {0} /\ Len(t) \in Nat
  BY EmptySeq, LenProperties
<1>2. /\ s \o t \in Seq(S)
      /\ Len(s \o t) = Len(s) + Len(t)
      /\ \A i \in 1 .. Len(s) + Len(t) :
           (s \o t)[i] = IF i <= Len(s) THEN s[i] ELSE t[i - Len(s)]
  BY ConcatProperties
<1>3. s \o t # <<>>
  BY <1>1, <1>2, EmptySeq
<1>4. Head(s \o t) = Head(s)
  BY <1>1, <1>2, <1>3
<1>5. /\ Tail(s) \in Seq(S) /\ Len(Tail(s)) = Len(s) - 1
      /\ \A i \in 1 .. Len(Tail(s)) : Tail(s)[i] = s[i + 1]
  BY HeadTailProperties
<1>6. /\ Tail(s \o t) \in Seq(S) /\ Len(Tail(s \o t)) = Len(s) + Len(t) - 1
      /\ \A i \in 1 .. Len(Tail(s \o t)) : Tail(s \o t)[i] = (s \o t)[i + 1]
  BY <1>2, <1>3, HeadTailProperties
<1>7. /\ Tail(s) \o t \in Seq(S)
      /\ Len(Tail(s) \o t) = Len(s) - 1 + Len(t)
      /\ \A i \in 1 .. Len(Tail(s)) + Len(t) :
           (Tail(s) \o t)[i] = IF i <= Len(Tail(s)) THEN Tail(s)[i] ELSE t[i - Len(Tail(s))]
  BY <1>5, ConcatProperties
<1>8. ASSUME NEW i \in 1 .. Len(Tail(s \o t))
      PROVE  Tail(s \o t)[i] = (Tail(s) \o t)[i]
  <2>1. i \in 1 .. Len(s) + Len(t) - 1 /\ i + 1 \in 1 .. Len(s) + Len(t)
    BY <1>1, <1>6
  <2>2. Tail(s \o t)[i] = IF i + 1 <= Len(s) THEN s[i + 1] ELSE t[i + 1 - Len(s)]
    BY <1>2, <1>6, <2>1
  <2>3. (Tail(s) \o t)[i] = IF i <= Len(s) - 1 THEN s[i + 1] ELSE t[i - (Len(s) - 1)]
    BY <1>1, <1>5, <1>7, <2>1
  <2> QED BY <1>1, <2>1, <2>2, <2>3
<1>9. Tail(s \o t) = Tail(s) \o t
  <2>1. Len(Tail(s \o t)) = Len(Tail(s) \o t)
    BY <1>1, <1>6, <1>7
  <2> QED BY <1>6, <1>7, <1>8, <2>1, SeqEqual
<1> QED BY <1>3, <1>4, <1>9

\* The commands not yet performed are those of the batch, then those waiting.
Waiting == batch \o queue

\* While a batch is being executed its head is the oldest command of all.
LEMMA HeadOfWaiting ==
  ASSUME TypeOK, batch # <<>>
  PROVE  /\ Waiting # <<>>
         /\ Head(Waiting) = Head(batch)
         /\ Tail(Waiting) = Tail(batch) \o queue
<1>1. batch \in Seq(Command) /\ queue \in Seq(Command)
  BY DEF TypeOK, TypeOfMain, TypeOfState
<1> QED BY <1>1, HeadTailOfConcat DEF Waiting

\* The service knows the same coils, and what writes do to them.
LEMMA CoilsOfService ==
  /\ Service!Coils = Coils
  /\ \A r : Service!Confirmed(r) = Confirmed(r) /\ Service!Attempted(r) = Attempted(r)
  /\ \A S, state : Service!After(coil, S, state) = After(coil, S, state)
<1>1. Service!Coils = Coils
  BY DEF Service!Coils, Coils, Service!Unicast, Unicast
<1>2. \A r : Service!Reach(r) = Reach(r)
  BY <1>1 DEF Service!Reach, Reach, Service!Unicast, Unicast
<1> QED BY <1>1, <1>2
        DEF Service!Confirmed, Confirmed, Service!Attempted, Attempted, Service!After,
            After, Service!Unicast, Unicast, Service!Broadcast, Broadcast

\* The controller starts as the service does.
LEMMA ServiceInit == Init => Service!Init
BY CoilsOfService DEF Init, Service!Init

\* A step that leaves the commands, the coils and the controller's idea of them
\* alone is a stutter of the service.
LEMMA ServiceStutter ==
  ASSUME UNCHANGED <<Waiting, coil, current_state>>
  PROVE  [Service!Next]_Service!vars
BY DEF Service!vars, Waiting

\* Executing the oldest command of the batch performs the oldest of the service.
LEMMA ServicePerform ==
  ASSUME TypeOK, NEW cmd, NextCommand(cmd), UNCHANGED queue,
         Service!Applied(cmd) \/ Service!Unconfirmed(cmd) \/ Service!Dropped(cmd)
  PROVE  Service!Perform
<1>1. batch # <<>> /\ cmd = Head(batch) /\ batch' = Tail(batch)
  BY DEF NextCommand
<1>2. /\ batch \o queue # <<>>
      /\ Head(batch \o queue) = cmd
      /\ Tail(batch \o queue) = batch' \o queue'
  BY <1>1, HeadOfWaiting DEF Waiting
<1> QED BY <1>2 DEF Service!Perform

\* Every step is one of the service, or none.
LEMMA ServiceNext == TypeOK /\ [Next]_vars => [Service!Next]_Service!vars
<1> SUFFICES ASSUME TypeOK, [Next]_vars PROVE [Service!Next]_Service!vars
  OBVIOUS
<1>1. CASE TakeCommands
  <2>1. batch = <<>> /\ queue \in Seq(Command)
    BY <1>1 DEF TakeCommands, TypeOK, TypeOfState, ControlOK
  <2>2. batch' \o queue' = queue
    BY <1>1, BatchSplit DEF TakeCommands, TypeOK
  <2>3. batch \o queue = queue
    BY <2>1, ConcatEmptySeq
  <2> QED BY <1>1, <2>2, <2>3, ServiceStutter DEF TakeCommands, Waiting, relays
<1>2. CASE SkipUnknownRelay
  <2>1. PICK cmd \in Command : /\ NextCommand(cmd)
                               /\ cmd.relay_name \notin Relays
                               /\ UNCHANGED <<relays, queue>>
    BY <1>2 DEF SkipUnknownRelay
  <2>2. Service!Dropped(cmd)
    BY <2>1 DEF Service!Dropped, relays
  <2> QED BY <2>1, <2>2, ServicePerform DEF Service!Next
<1>3. CASE WriteCoil
  <2>1. PICK cmd \in Command :
          /\ NextCommand(cmd)
          /\ cmd.relay_name \in Relays
          /\ \E S \in Confirmed(cmd.relay_name) :
               coil' = After(coil, S, cmd.desired_state)
          /\ current_state' = [current_state EXCEPT ![cmd.relay_name] = cmd.desired_state]
          /\ UNCHANGED queue
    BY <1>3 DEF WriteCoil
  <2>2. Service!Applied(cmd)
    BY <2>1, CoilsOfService DEF Service!Applied
  <2> QED BY <2>1, <2>2, ServicePerform DEF Service!Next
<1>4. CASE WriteCoilFails
  <2>1. PICK cmd \in Command :
          /\ NextCommand(cmd)
          /\ cmd.relay_name \in Relays
          /\ \E S \in Attempted(cmd.relay_name) :
               coil' = After(coil, S, cmd.desired_state)
          /\ UNCHANGED <<current_state, queue>>
    BY <1>4 DEF WriteCoilFails
  <2>2. Service!Unconfirmed(cmd)
    BY <2>1, CoilsOfService DEF Service!Unconfirmed
  <2> QED BY <2>1, <2>2, ServicePerform DEF Service!Next
<1>5. ASSUME NEW topic \in Topics, NEW payload \in Payloads,
             HandleMqttCommand(topic, payload)
      PROVE  Service!Next
  <2> DEFINE cmd == [relay_name    |-> RelayNameOf(topic),
                     desired_state |-> DesiredState(payload)]
  <2>1. cmd \in Command /\ cmd \in Service!Command
    BY <1>5 DEF HandleMqttCommand, Command, Service!Command, Names, DesiredState
  <2>2. batch \in Seq(Command) /\ queue \in Seq(Command)
    BY DEF TypeOK, TypeOfMain, TypeOfState
  <2>3. batch' \o queue' = Append(batch \o queue, cmd)
    <3>1. batch' = batch /\ queue' = Append(queue, cmd)
      BY <1>5 DEF HandleMqttCommand, main
    <3> HIDE DEF cmd
    <3>2. /\ Append(queue, cmd) = queue \o <<cmd>>
          /\ Append(batch \o queue, cmd) = (batch \o queue) \o <<cmd>>
          /\ <<cmd>> \in Seq(Command)
      BY <2>1, <2>2, AppendIsConcat, ConcatProperties
    <3> QED BY <2>2, <3>1, <3>2, ConcatAssociative
  <2>4. Service!Accept(cmd)
    BY <1>5, <2>3 DEF HandleMqttCommand, Service!Accept, relays
  <2> QED BY <2>1, <2>4 DEF Service!Next
<1>6. CASE Restart
  <2>1. batch' \o queue' = <<>>
    BY <1>6 DEF Restart
  <2> QED BY <1>6, <2>1 DEF Restart, Service!Crash, Service!Next
<1>7. ASSUME UNCHANGED <<batch, queue, relays>> PROVE [Service!Next]_Service!vars
  BY <1>7, ServiceStutter DEF Waiting, relays
<1>8. CASE MainThread
  <2>1. CASE StartCycle \/ LeaveLoop \/ EndCycle
    BY <1>7, <2>1 DEF StartCycle, LeaveLoop, EndCycle
  <2>2. ASSUME NEW s, ReadSlave(s) \/ ReadSlaveFails(s)
        PROVE  [Service!Next]_Service!vars
    BY <1>7, <2>2 DEF ReadSlave, ReadSlaveFails
  <2>3. ASSUME NEW i, PublishInput(i) PROVE [Service!Next]_Service!vars
    BY <1>7, <2>3 DEF PublishInput
  <2>4. ASSUME NEW r, PublishRelay(r) PROVE [Service!Next]_Service!vars
    BY <1>7, <2>4 DEF PublishRelay
  <2> QED BY <1>1, <1>2, <1>3, <1>4, <1>8, <2>1, <2>2, <2>3, <2>4 DEF MainThread
<1>9. CASE World
  <2>1. CASE Deliver \/ LoseInflight \/ Tick \/ Stop \/ Settle
    BY <1>7, <2>1 DEF Deliver, LoseInflight, Tick, Stop, Settle, main
  <2>2. ASSUME NEW l, ToggleLine(l) PROVE [Service!Next]_Service!vars
    BY <1>7, <2>2 DEF ToggleLine, main
  <2> QED BY <1>6, <1>9, <2>1, <2>2 DEF World
<1>10. CASE UNCHANGED vars
  BY <1>7, <1>10 DEF vars, main
<1> QED BY <1>5, <1>8, <1>9, <1>10 DEF Next

\* The queue shared by the two threads, the batch taken from it and the loop over
\* the batch perform every command at most once and in order of arrival, and no
\* coil moves without a command.
THEOREM ImplementsRelayService == Spec => RelayServiceImplemented
BY ServiceInit, ServiceNext, TypeCorrect, PTL
   DEF Spec, RelayServiceImplemented, Service!Spec

----------------------------------------------------------------------------
(* What the broker shows of the inputs, once it is right.                  *)

\* All is at rest, the broker shows every input as it is, nothing old is on its way to
\* it, and what was read of the inputs still to be published is what their lines show.
InputsSettled ==
  /\ calm
  /\ inflight = <<>>
  /\ InputsShown
  /\ \A i \in pending : Readable(i) => input_bits[AddressOf[i]] = line[Line(i)]

\* At rest a publish is acked.
LEMMA CalmPublish ==
  ASSUME calm, NEW topic, NEW payload, Publish(topic, payload)
  PROVE  PublishAcked(topic, payload)
BY DEF Publish, PublishTimedOut, PublishRefused

\* The inputs read and those to be published go on showing what their lines do.
LEMMA SettledMain == TypeOK /\ InputsSettled /\ MainThread => InputsSettled'
<1> SUFFICES ASSUME TypeOK, InputsSettled, MainThread PROVE InputsSettled'
  OBVIOUS
<1> USE DEF InputsSettled, InputsShown, Readable
<1>1. ASSUME UNCHANGED <<broker, world, input_bits>>, pending' \subseteq pending
      PROVE  InputsSettled'
  BY <1>1 DEF broker, world
<1>2. CASE StartCycle \/ LeaveLoop \/ TakeCommands \/ EndCycle
  BY <1>1, <1>2 DEF StartCycle, LeaveLoop, TakeCommands, EndCycle
<1>3. CASE SkipUnknownRelay \/ WriteCoil \/ WriteCoilFails
  BY <1>1, <1>3 DEF SkipUnknownRelay, WriteCoil, WriteCoilFails
<1>4. ASSUME NEW s \in SlaveIds, ReadSlave(s) PROVE InputsSettled'
  <2>1. UNCHANGED <<broker, world>> /\ pending' = Group(s) /\ input_bits' \in BitsOf(s)
    BY <1>4 DEF ReadSlave
  <2>2. ASSUME NEW i \in Group(s), Readable(i)
        PROVE  input_bits'[AddressOf[i]] = line[Line(i)]
    <3>0. input_bits' = [a \in 0..7 |-> <<s, a>> \in Lines /\ line[<<s, a>>]]
      BY <2>1, <2>2 DEF Group, BitsOf
    <3>1. i \in Inputs /\ Line(i) = <<s, AddressOf[i]>> /\ Line(i) \in Lines
      BY <2>2 DEF Group, Line, Lines
    <3>2. line[Line(i)] \in BOOLEAN
      BY <3>1 DEF TypeOK, TypeOfWorld
    <3> QED BY <2>2, <3>0, <3>1, <3>2
  <2> QED BY <2>1, <2>2 DEF broker, world
<1>5. ASSUME NEW s \in SlaveIds, ReadSlaveFails(s) PROVE InputsSettled'
  BY <1>5 DEF ReadSlaveFails
<1>6. ASSUME NEW i \in Inputs, PublishInput(i) PROVE InputsSettled'
  <2>1. i \in pending /\ pending' = pending \ {i} /\ UNCHANGED <<world, input_bits>>
    BY <1>6 DEF PublishInput, IsFirst
  <2>2. CASE UNCHANGED broker
    BY <1>1, <2>1, <2>2
  <2>3. CASE ~UNCHANGED broker
    <3>1. PICK state \in BitsFor(i) : Publish(InputTopic[i], Payload(state))
      BY <1>6, <2>3, Zenon DEF PublishInput
    <3>2. /\ retained' = [retained EXCEPT ![InputTopic[i]] = Payload(state)]
          /\ UNCHANGED inflight
      BY <3>1, CalmPublish DEF PublishAcked
    <3>3. Readable(i) => state = line[Line(i)]
      BY <2>1, <3>1 DEF BitsFor
    <3>4. ASSUME NEW j \in Inputs, Readable(j)
          PROVE  retained'[InputTopic[j]] = Payload(line[Line(j)])
      <4>1. InputTopic[j] \in StateTopics /\ retained \in [StateTopics -> {"ON", "OFF", "none"}]
        BY TopicsOfDevices DEF TypeOK, TypeOfWorld
      <4>2. j # i => InputTopic[j] # InputTopic[i]
        BY TopicsDistinct
      <4> QED BY <3>2, <3>3, <3>4, <4>1, <4>2
    <3> QED BY <2>1, <3>2, <3>4 DEF world
  <2> QED BY <2>2, <2>3
<1>7. ASSUME NEW r \in Relays, PublishRelay(r) PROVE InputsSettled'
  <2>1. /\ retained' = [retained EXCEPT ![RelayTopic[r]] = Payload(current_state[r])]
        /\ UNCHANGED <<inflight, world, input_bits, pending>>
    BY <1>7, CalmPublish DEF PublishRelay, PublishAcked
  <2>2. ASSUME NEW j \in Inputs PROVE retained'[InputTopic[j]] = retained[InputTopic[j]]
    BY <2>1, TopicsOfDevices, TopicsDistinct DEF TypeOK, TypeOfWorld
  <2> QED BY <2>1, <2>2 DEF world
<1> QED BY <1>2, <1>3, <1>4, <1>5, <1>6, <1>7 DEF MainThread

\* Once the broker shows every input as it is and no late message is on its way, it goes
\* on showing them, whatever commands come and however often the inputs are read and
\* published again: of InputsReachBroker, that it stays so.
THEOREM InputsStayShown == Spec => [](InputsSettled => []InputsShown)
<1>1. TypeOK /\ InputsSettled /\ [Next]_vars => InputsSettled'
  <2> SUFFICES ASSUME TypeOK, InputsSettled, [Next]_vars PROVE InputsSettled'
    OBVIOUS
  <2>1. ASSUME UNCHANGED <<main, broker, world>> PROVE InputsSettled'
    BY <2>1 DEF InputsSettled, InputsShown, main, broker, world
  <2>2. ASSUME NEW topic, NEW payload, HandleMqttCommand(topic, payload) PROVE InputsSettled'
    BY <2>1, <2>2 DEF HandleMqttCommand
  <2>3. CASE World
    <3>1. ~Deliver /\ ~LoseInflight /\ ~Stop /\ ~Settle /\ ~Restart
      BY DEF InputsSettled, Deliver, LoseInflight, Stop, Settle, Restart
    <3>2. ASSUME NEW l, ToggleLine(l) PROVE FALSE
      BY <3>2 DEF InputsSettled, ToggleLine
    <3>3. Tick
      BY <2>3, <3>1, <3>2 DEF World
    <3> QED BY <2>1, <3>3 DEF Tick
  <2>4. CASE UNCHANGED vars
    BY <2>1, <2>4 DEF vars
  <2> QED BY <2>2, <2>3, <2>4, SettledMain DEF Next
<1>2. InputsSettled => InputsShown
  BY DEF InputsSettled
<1> QED BY <1>1, <1>2, TypeCorrect, PTL DEF Spec

----------------------------------------------------------------------------
(* The end of a cycle.                                                     *)

\* How much of a cycle is left: first the slaves and their inputs, then the commands and
\* their announcements.
Rank ==
  CASE pc = "poll"    -> <<1, Cardinality(todo), NumInputs + 1>>
    [] pc = "publish" -> <<1, Cardinality(todo), Cardinality(pending)>>
    [] pc = "execute" -> <<0, Len(batch), Cardinality(announcing)>>
    [] OTHER          -> <<0, 0, 0>>

\* The lexicographic order, in which no sequence of triples of numbers falls for ever.
Below(x, y) ==
  \/ x[1] < y[1]
  \/ x[1] = y[1] /\ x[2] < y[2]
  \/ x[1] = y[1] /\ x[2] = y[2] /\ x[3] < y[3]

\* What is left of a cycle is finite.
LEMMA FiniteCycle ==
  ASSUME TypeOK
  PROVE  /\ IsFiniteSet(todo) /\ Cardinality(todo) \in Nat
         /\ IsFiniteSet(pending) /\ Cardinality(pending) \in 0 .. NumInputs
         /\ IsFiniteSet(announcing) /\ Cardinality(announcing) \in Nat
         /\ Len(batch) \in Nat
<1>1. IsFiniteSet(Inputs) /\ Cardinality(Inputs) = NumInputs /\ NumInputs \in Nat
  BY FS_Interval, ConstantTypes DEF Inputs
<1>2. todo \subseteq SlaveIds /\ pending \subseteq Inputs /\ batch \in Seq(Command)
  BY DEF TypeOK, TypeOfMain
<1>3. IsFiniteSet(SlaveIds)
  <2>1. SlaveOf \in Surjection(Inputs, SlaveIds)
    BY ConstantTypes DEF Surjection, SlaveIds
  <2> QED BY <1>1, <2>1, FS_Surjection
<1>4. IsFiniteSet(todo) /\ Cardinality(todo) \in Nat
  BY <1>2, <1>3, FS_Subset, FS_CardinalityType
<1>5. IsFiniteSet(pending) /\ Cardinality(pending) \in Nat /\ Cardinality(pending) <= NumInputs
  BY <1>1, <1>2, FS_Subset, FS_CardinalityType
<1>6. IsFiniteSet(announcing) /\ Cardinality(announcing) \in Nat
  <2>1. announcing = {} \/ \E r : announcing = {r}
    BY DEF TypeOK, ControlOK
  <2> QED BY <2>1, FS_EmptySet, FS_Singleton, FS_CardinalityType
<1> QED BY <1>1, <1>2, <1>4, <1>5, <1>6, LenProperties

\* Every step of the main thread inside a cycle leaves less of it, or ends it.
LEMMA MainWearsOut ==
  ASSUME TypeOK, TypeOK', pc \in {"poll", "publish", "execute"}, MainThread
  PROVE  Below(Rank', Rank) \/ pc' = "loop"
<1> USE DEF Below, Rank
<1>0. /\ Cardinality(todo) \in Nat /\ IsFiniteSet(todo)
      /\ Cardinality(pending) \in 0 .. NumInputs /\ IsFiniteSet(pending)
      /\ Len(batch) \in Nat
      /\ NumInputs \in Nat
  BY FiniteCycle, ConstantTypes
<1>1. ASSUME NEW s \in SlaveIds, ReadSlave(s) PROVE Below(Rank', Rank)
  <2>1. Cardinality(pending') \in 0 .. NumInputs
    <3>1. pending' \subseteq Inputs
      BY DEF TypeOK, TypeOfMain
    <3>2. IsFiniteSet(Inputs) /\ Cardinality(Inputs) = NumInputs
      BY <1>0, FS_Interval DEF Inputs
    <3> QED BY <1>0, <3>1, <3>2, FS_Subset, FS_CardinalityType
  <2> QED BY <1>0, <1>1, <2>1 DEF ReadSlave
<1>2. ASSUME NEW s \in SlaveIds, ReadSlaveFails(s) PROVE Below(Rank', Rank)
  <2>1. /\ pc = "poll" /\ pc' = "poll" /\ s \in todo /\ todo' = todo \ {s}
    BY <1>2 DEF ReadSlaveFails, IsFirst
  <2>2. Cardinality(todo') = Cardinality(todo) - 1
    BY <1>0, <2>1, FS_RemoveElement
  <2> QED BY <1>0, <2>1, <2>2
<1>3. ASSUME NEW i \in Inputs, PublishInput(i) PROVE Below(Rank', Rank)
  <2>1. pc = "publish" /\ i \in pending /\ pending' = pending \ {i}
    BY <1>3 DEF PublishInput, IsFirst
  <2>2. Cardinality(pending') = Cardinality(pending) - 1
    BY <1>0, <2>1, FS_RemoveElement
  <2>3. CASE pending = {i}
    <3>1. pc' = "poll" /\ todo' = todo \ {SlaveOf[i]}
      BY <1>3, <2>3, Zenon DEF PublishInput
    <3>2. SlaveOf[i] \in todo
      BY <2>1 DEF TypeOK, ControlOK, IsFirst, Group
    <3>3. Cardinality(todo') = Cardinality(todo) - 1
      BY <1>0, <3>1, <3>2, FS_RemoveElement
    <3> QED BY <1>0, <2>1, <3>1, <3>3
  <2>4. CASE pending # {i}
    <3>1. pc' = pc /\ todo' = todo
      BY <1>3, <2>4, Zenon DEF PublishInput
    <3> QED BY <1>0, <2>1, <2>2, <3>1
  <2> QED BY <2>3, <2>4
<1>4. CASE TakeCommands
  BY <1>0, <1>4 DEF TakeCommands
<1>5. ASSUME NEW cmd, NextCommand(cmd), UNCHANGED pc PROVE Below(Rank', Rank)
  <2>1. pc = "execute" /\ Len(batch') = Len(batch) - 1
    BY <1>5, HeadTailProperties DEF NextCommand, TypeOK, TypeOfMain
  <2> QED BY <1>0, <1>5, <2>1
<1>6. CASE SkipUnknownRelay \/ WriteCoil \/ WriteCoilFails
  BY <1>5, <1>6 DEF SkipUnknownRelay, WriteCoil, WriteCoilFails
<1>7. ASSUME NEW r \in Relays, PublishRelay(r) PROVE Below(Rank', Rank)
  <2>1. announcing = {r} /\ announcing' = {} /\ UNCHANGED <<pc, batch>>
    BY <1>7 DEF PublishRelay, TypeOK, ControlOK
  <2>2. Cardinality(announcing) = 1 /\ Cardinality(announcing') = 0
    BY <2>1, FS_EmptySet, FS_Singleton
  <2>3. pc = "execute"
    BY <2>1 DEF TypeOK, ControlOK
  <2> QED BY <1>0, <2>1, <2>2, <2>3
<1>8. CASE EndCycle
  BY <1>8 DEF EndCycle
<1>9. ~StartCycle /\ ~LeaveLoop
  BY DEF StartCycle, LeaveLoop
<1> QED BY <1>1, <1>2, <1>3, <1>4, <1>6, <1>7, <1>8, <1>9 DEF MainThread

\* Inside a cycle a step of the main thread leaves less to do, or nothing, and nothing
\* that happens meanwhile adds to it.
CycleWears ==
  pc \in {"poll", "publish", "execute"} =>
    /\ Rank \in Nat \X Nat \X Nat
    /\ \/ pc' = "loop"
       \/ MainThread /\ Below(Rank', Rank)
       \/ ~MainThread /\ UNCHANGED main

\* A cycle ends, however fast commands arrive: they keep neither the inputs from being
\* polled nor the loop from looking at g_running (device_controller.cpp:46-81,
\* application.cpp:57-80).
THEOREM CyclesWearOut == Spec => [][CycleWears]_vars
<1>1. ASSUME TypeOK, TypeOK', [Next]_vars, pc \in {"poll", "publish", "execute"}
      PROVE  CycleWears
  <2>1. Rank \in Nat \X Nat \X Nat
    <3>1. CASE pc = "poll"
      BY <1>1, <3>1, FiniteCycle, ConstantTypes DEF Rank
    <3>2. CASE pc = "publish"
      BY <1>1, <3>2, FiniteCycle, ConstantTypes DEF Rank
    <3>3. CASE pc = "execute"
      BY <1>1, <3>3, FiniteCycle DEF Rank
    <3> QED BY <1>1, <3>1, <3>2, <3>3
  <2>2. CASE MainThread
    BY <1>1, <2>1, <2>2, MainWearsOut DEF CycleWears
  <2>3. CASE ~MainThread
    <3>1. ASSUME NEW topic, NEW payload, HandleMqttCommand(topic, payload)
          PROVE  UNCHANGED main
      BY <3>1 DEF HandleMqttCommand
    <3>2. ASSUME World PROVE UNCHANGED main \/ pc' = "loop"
      <4>1. CASE Restart
        BY <4>1 DEF Restart
      <4>2. CASE Deliver \/ LoseInflight \/ Tick \/ Stop \/ Settle
        BY <4>2 DEF Deliver, LoseInflight, Tick, Stop, Settle
      <4>3. CASE \E l \in Lines : ToggleLine(l)
        BY <4>3 DEF ToggleLine
      <4> QED BY <3>2, <4>1, <4>2, <4>3 DEF World
    <3>3. UNCHANGED main \/ pc' = "loop"
      BY <1>1, <2>3, <3>1, <3>2 DEF Next, vars
    <3> QED BY <2>1, <2>3, <3>3 DEF CycleWears
  <2> QED BY <2>2, <2>3
<1>2. ASSUME pc \notin {"poll", "publish", "execute"} PROVE CycleWears
  BY <1>2 DEF CycleWears
<1>3. TypeOK /\ TypeOK' /\ [Next]_vars => CycleWears
  BY <1>1, <1>2
<1> QED BY <1>3, TypeCorrect, PTL DEF Spec

============================================================================
