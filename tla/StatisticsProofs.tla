-------------------------- MODULE StatisticsProofs --------------------------
(***************************************************************************)
(* Theorems about ModbusManager and Statistics for any slaves, addresses,  *)
(* ids, number of attempts and number of calls.                            *)
(***************************************************************************)
EXTENDS Statistics, TLAPS

----------------------------------------------------------------------------
(* What the operators of the port return.                                  *)

\* No operation and no response is Nothing.
LEMMA NothingElse == Nothing \notin Port!Operation /\ Nothing \notin Port!Response
BY DEF Nothing, Port!Nothing, Port!Operation, Port!Read, Port!Write, Port!Response

\* An operation has its fields.
LEMMA OperationFields ==
  ASSUME NEW op \in Port!Operation
  PROVE  /\ op.slave \in Ids /\ op.kind \in {"read", "write"}
         /\ op.kind = "write" => op.address \in Addresses /\ op.state \in BOOLEAN
BY DEF Port!Operation, Port!Read, Port!Write

\* A slave's response is one.
LEMMA ResponseType ==
  ASSUME NEW s \in Slaves, NEW op \in Port!Operation
  PROVE  Port!ResponseOf(s, op) \in Port!Response
BY DEF Port!ResponseOf, Port!Response

\* Slaves that act leave coils, and those addressed as the operation says.
LEMMA CoilsType ==
  ASSUME coil \in [Slaves \X Addresses -> BOOLEAN], NEW S, NEW op \in Port!Operation
  PROVE  /\ Port!CoilsAfter(S, op) \in [Slaves \X Addresses -> BOOLEAN]
         /\ op.kind = "write" => \A s \in S \cap Slaves :
              Port!CoilsAfter(S, op)[<<s, op.address>>] = op.state
<1>1. CASE op.kind = "write"
  <2>1. op.address \in Addresses /\ op.state \in BOOLEAN
    BY <1>1, OperationFields
  <2>2. Port!CoilsAfter(S, op)
          = [x \in Slaves \X Addresses |->
               IF x[1] \in S /\ x[2] = op.address THEN op.state ELSE coil[x]]
    BY <1>1 DEF Port!CoilsAfter
  <2> QED BY <2>1, <2>2
<1>2. CASE op.kind # "write"
  BY <1>2 DEF Port!CoilsAfter
<1> QED BY <1>1, <1>2

\* The slave selected for an attempt is one libmodbus knows.
LEMMA SelectType ==
  ASSUME selected \in ValidIds
  PROVE  Select \in ValidIds /\ (request.slave \in ValidIds => Select = request.slave)
BY DEF Select

----------------------------------------------------------------------------
(* Type correctness.                                                       *)

\* One more of something keeps a function's type.
LEMMA CountType ==
  ASSUME NEW S, NEW f \in [S -> Nat], NEW c \in S
  PROVE  [f EXCEPT ![c] = @ + 1] \in [S -> Nat]
OBVIOUS

\* A call that returns leaves its types in order.
LEMMA ReturnType ==
  ASSUME ModbusTypeOK, step # "idle", NEW ok \in BOOLEAN, Return(ok),
         NEW c \in ModbusCounters, Count(c)
  PROVE  ModbusTypeOK'
<1>1. request \in Port!Operation /\ answer \in Port!Response \cup {Nothing}
  BY DEF ModbusTypeOK
<1>2. result' \in Port!Result
  BY <1>1 DEF Return, Port!Result, Nothing
<1>3. modbus_stats' \in [ModbusCounters -> Nat]
  BY CountType DEF ModbusTypeOK, Count
<1> QED BY <1>2, <1>3 DEF ModbusTypeOK, Return

\* Every step of the manager and the bus keeps the types.
LEMMA ModbusStepType == ModbusTypeOK /\ ModbusNext => ModbusTypeOK'
<1> SUFFICES ASSUME ModbusTypeOK, ModbusNext PROVE ModbusTypeOK'
  OBVIOUS
<1>1. CASE Connect
  BY <1>1, ModbusConstants DEF Connect, ModbusTypeOK, bus
<1>2. CASE Disconnect
  BY <1>2 DEF Disconnect, ModbusTypeOK, bus
<1>3. ASSUME NEW op \in Port!Operation, Call(op) PROVE ModbusTypeOK'
  <2>1. CASE connected
    BY <1>3, <2>1, NothingElse DEF Call, ModbusTypeOK
  <2>2. CASE ~connected
    <3>1. result' = [operation |-> op, ok |-> FALSE, response |-> Nothing]
      BY <1>3, <2>2 DEF Call
    <3>2. result' \in Port!Result
      BY <3>1 DEF Port!Result, Nothing
    <3> QED BY <1>3, <2>2, <3>2 DEF Call, ModbusTypeOK
  <2> QED BY <2>1, <2>2
<1>4. CASE Attempt
  BY <1>4, SelectType DEF Attempt, ModbusTypeOK, bus
<1>5. CASE Answered
  BY <1>5, ReturnType DEF Answered, ModbusCounters
<1>6. CASE AttemptFails
  BY <1>6, ModbusConstants DEF AttemptFails, ModbusTypeOK
<1>7. CASE GiveUp
  BY <1>7, ReturnType DEF GiveUp, ModbusCounters
<1>8. CASE SlavesAct
  <2>1. PICK S \in SUBSET Addressed :
          /\ S # {}
          /\ coil' = Port!CoilsAfter(S, request)
          /\ \/ UNCHANGED answer
             \/ S = {selected} /\ answer' = Port!ResponseOf(selected, request)
    BY <1>8 DEF SlavesAct
  <2>2. request \in Port!Operation /\ coil' \in [Slaves \X Addresses -> BOOLEAN]
    BY <1>8, <2>1, CoilsType DEF SlavesAct, ModbusTypeOK
  <2>3. S \subseteq Slaves
    BY <2>1 DEF Addressed
  <2>4. answer' \in Port!Response \cup {Nothing}
    BY <2>1, <2>2, <2>3, ResponseType DEF ModbusTypeOK
  <2> QED BY <1>8, <2>2, <2>4 DEF SlavesAct, ModbusTypeOK, own
<1> QED BY <1>1, <1>2, <1>3, <1>4, <1>5, <1>6, <1>7, <1>8 DEF ModbusNext, ModbusThread

\* The counter that stands for the outcome of a call.
LEMMA OutcomeType == Outcome \in ModbusCounters
BY DEF Outcome, ModbusCounters

\* The initial states are well typed.
LEMMA InitTypeOK == Init => TypeOK
<1> SUFFICES ASSUME Init PROVE TypeOK
  OBVIOUS
<1>1. ModbusTypeOK
  <2>1. /\ request = Nothing /\ answer = Nothing /\ result = Nothing
        /\ coil \in [Slaves \X Addresses -> BOOLEAN]
    BY DEF Init, ModbusInit, Port!Init, Nothing
  <2>2. modbus_stats \in [ModbusCounters -> Nat]
    BY DEF Init, ModbusInit, NoModbusStats
  <2>3. /\ connected = FALSE /\ selected = 1 /\ step = "idle" /\ retry = 0 /\ calls = 0
        /\ max_retries \in Retries
    BY DEF Init, ModbusInit
  <2>4. connected \in BOOLEAN
    BY <2>3
  <2>5. selected \in ValidIds /\ retry \in Nat /\ calls \in Nat
    BY <2>3, ModbusConstants
  <2> QED BY <2>1, <2>2, <2>3, <2>4, <2>5 DEF ModbusTypeOK
<1>2. mqtt_stats \in [MqttCounters -> Nat]
  BY DEF Init, NoMqttStats
<1> QED BY <1>1, <1>2 DEF Init, TypeOK, ModbusInit

\* A report keeps the type of what has been reported.
LEMMA ReportType ==
  ASSUME reported \in [Counters -> Nat], NEW stats,
         \A c \in DOMAIN stats : stats[c] \in Nat, Report(stats)
  PROVE  reported' \in [Counters -> Nat]
BY DEF Report

\* Every step keeps the types.
LEMMA NextTypeOK == TypeOK /\ [Next]_vars => TypeOK'
<1> SUFFICES ASSUME TypeOK, [Next]_vars PROVE TypeOK'
  OBVIOUS
<1>1. CASE Modbus
  <2>1. ModbusTypeOK'
    BY <1>1, ModbusStepType DEF Modbus, TypeOK
  <2>2. happened' \in [Counters -> Nat]
    BY <1>1, OutcomeType, CountType DEF Modbus, Happens, TypeOK, Counters
  <2> QED BY <1>1, <2>1, <2>2 DEF Modbus, TypeOK
<1>2. ASSUME NEW c \in MqttCounters, Publish(c) PROVE TypeOK'
  <2>1. ModbusTypeOK'
    BY <1>2 DEF Publish, TypeOK, ModbusTypeOK, modbusVars, bus, own
  <2>2. mqtt_stats' \in [MqttCounters -> Nat] /\ happened' \in [Counters -> Nat]
    BY <1>2, CountType DEF Publish, Happens, TypeOK, Counters
  <2> QED BY <1>2, <2>1, <2>2 DEF Publish, TypeOK, modbusVars, own
<1>3. CASE ReadModbusStats
  <2>1. ModbusTypeOK'
    BY <1>3 DEF ReadModbusStats, TypeOK, ModbusTypeOK, modbusVars, bus, own
  <2>2. reported' \in [Counters -> Nat]
    BY <1>3, ReportType DEF ReadModbusStats, TypeOK, ModbusTypeOK
  <2> QED BY <1>3, <2>1, <2>2 DEF ReadModbusStats, TypeOK, modbusVars, own
<1>4. CASE ReadMqttStats
  <2>1. ModbusTypeOK'
    BY <1>4 DEF ReadMqttStats, TypeOK, ModbusTypeOK, modbusVars, bus, own
  <2>2. reported' \in [Counters -> Nat]
    BY <1>4, ReportType DEF ReadMqttStats, TypeOK
  <2> QED BY <1>4, <2>1, <2>2 DEF ReadMqttStats, TypeOK, modbusVars, own
<1>5. CASE ResetModbusStats
  <2>1. ModbusTypeOK'
    BY <1>5 DEF ResetModbusStats, TypeOK, ModbusTypeOK, bus, NoModbusStats
  <2> QED BY <1>5, <2>1 DEF ResetModbusStats, TypeOK
<1>6. CASE ResetMqttStats
  <2>1. ModbusTypeOK'
    BY <1>6 DEF ResetMqttStats, TypeOK, ModbusTypeOK, modbusVars, bus, own
  <2>2. mqtt_stats' \in [MqttCounters -> Nat]
    BY <1>6 DEF ResetMqttStats, NoMqttStats
  <2> QED BY <1>6, <2>1, <2>2 DEF ResetMqttStats, TypeOK, modbusVars, own
<1>7. CASE MessageArrived
  <2>1. ModbusTypeOK'
    BY <1>7 DEF MessageArrived, TypeOK, ModbusTypeOK, modbusVars, bus, own
  <2>2. "messages_received" \in MqttCounters /\ "messages_received" \in Counters
    BY DEF MqttCounters, Counters
  <2>3. mqtt_stats' \in [MqttCounters -> Nat] /\ happened' \in [Counters -> Nat]
    BY <1>7, <2>2, CountType DEF MessageArrived, Happens, TypeOK
  <2> QED BY <1>7, <2>1, <2>3 DEF MessageArrived, TypeOK, modbusVars, own
<1>8. CASE UNCHANGED vars
  BY <1>8 DEF vars, TypeOK, ModbusTypeOK, modbusVars, bus, own
<1> QED BY <1>1, <1>2, <1>3, <1>4, <1>5, <1>6, <1>7, <1>8 DEF Next, PrintStatistics

\* Every variable has its type, in every state of every behaviour.
THEOREM TypeCorrect == Spec => []TypeOK
BY InitTypeOK, NextTypeOK, PTL DEF Spec

----------------------------------------------------------------------------
(* Confirmed writes.                                                       *)

\* The slave selected for an attempt is the one the call is for, if libmodbus knows it.
AttemptSound == step = "await" /\ request.slave \in ValidIds => selected = request.slave

\* A response comes from the slave selected, which has done what was asked.
AnswerSound ==
  answer # Nothing =>
    /\ selected \in Slaves
    /\ request.kind = "write" => coil[<<selected, request.address>>] = request.state

CallSound == AttemptSound /\ AnswerSound /\ ConfirmedWriteMade

\* Slaves that act on an attempt are among those the call is addressed to.
LEMMA AddressedIsAddressees ==
  ASSUME ModbusTypeOK, AttemptSound, step = "await"
  PROVE  Addressed \subseteq Port!Addressees(request.slave)
BY ModbusConstants DEF AttemptSound, Addressed, Port!Addressees

\* What slaves that act leave of the coils and the response.
LEMMA ActEffect ==
  ASSUME ModbusTypeOK, AttemptSound, SlavesAct
  PROVE  /\ request \in Port!Operation
         /\ \E S \in SUBSET Port!Addressees(request.slave) :
              /\ coil' = Port!CoilsAfter(S, request)
              /\ \/ answer' = Nothing
                 \/ /\ S = {selected} /\ selected \in Slaves /\ request.slave # Port!Broadcast
                    /\ answer' = Port!ResponseOf(selected, request)
<1>1. /\ step = "await" /\ answer = Nothing
      /\ request \in Port!Operation
  BY DEF SlavesAct, ModbusTypeOK
<1>2. PICK S \in SUBSET Addressed :
        /\ S # {}
        /\ coil' = Port!CoilsAfter(S, request)
        /\ \/ UNCHANGED answer
           \/ S = {selected} /\ answer' = Port!ResponseOf(selected, request)
  BY DEF SlavesAct
<1>3. S \in SUBSET Port!Addressees(request.slave) /\ S \subseteq Slaves
  BY <1>1, <1>2, AddressedIsAddressees DEF Addressed
<1>4. ASSUME S = {selected} PROVE selected \in Slaves /\ request.slave # Port!Broadcast
  BY <1>1, <1>3, <1>4, ModbusConstants DEF AttemptSound, Port!Broadcast
<1> QED BY <1>1, <1>2, <1>3, <1>4

\* Every step of the manager and the bus keeps the strengthened invariant.
LEMMA ModbusStepSound == ModbusTypeOK /\ CallSound /\ ModbusNext => CallSound'
<1> SUFFICES ASSUME ModbusTypeOK, CallSound, ModbusNext PROVE CallSound'
  OBVIOUS
<1> USE DEF CallSound
<1>0. request = Nothing <=> step = "idle"
  BY DEF ModbusTypeOK
<1>1. CASE Connect
  BY <1>0, <1>1 DEF Connect, AttemptSound, AnswerSound, ConfirmedWriteMade, bus, ModbusTypeOK
<1>2. CASE Disconnect
  BY <1>2 DEF Disconnect, AttemptSound, AnswerSound, ConfirmedWriteMade, bus
<1>3. ASSUME NEW op \in Port!Operation, Call(op) PROVE CallSound'
  <2>1. answer' = Nothing /\ step' # "await"
    BY <1>3 DEF Call, ModbusTypeOK
  <2>2. CASE connected
    BY <1>3, <2>1, <2>2, NothingElse DEF Call, AttemptSound, AnswerSound, ConfirmedWriteMade
  <2>3. CASE ~connected
    BY <1>3, <2>1, <2>3 DEF Call, AttemptSound, AnswerSound, ConfirmedWriteMade
  <2> QED BY <2>2, <2>3
<1>4. CASE Attempt
  <2>1. answer' = Nothing /\ request' # Nothing
    BY <1>4 DEF Attempt, ModbusTypeOK, bus
  <2>2. AttemptSound'
    BY <1>4, SelectType DEF Attempt, AttemptSound, bus, ModbusTypeOK
  <2> QED BY <2>1, <2>2 DEF AnswerSound, ConfirmedWriteMade
<1>5. CASE Answered
  <2>1. /\ answer' = Nothing /\ step' = "idle"
        /\ result' = [operation |-> request, ok |-> TRUE, response |-> answer]
        /\ coil' = coil
    BY <1>5 DEF Answered, Return
  <2>2. ASSUME request.kind = "write"
        PROVE  /\ selected \in Slaves
               /\ coil[<<selected, request.address>>] = request.state
               /\ request.slave \in ValidIds => selected = request.slave
    BY <1>5, <2>2 DEF Answered, AttemptSound, AnswerSound
  <2>3. ConfirmedWriteMade'
    BY <2>1, <2>2 DEF ConfirmedWriteMade
  <2> QED BY <2>1, <2>3 DEF AttemptSound, AnswerSound
<1>6. CASE AttemptFails
  <2>1. answer' = Nothing /\ step' = "try" /\ request' # Nothing
    BY <1>0, <1>6 DEF AttemptFails
  <2> QED BY <2>1 DEF AttemptSound, AnswerSound, ConfirmedWriteMade
<1>7. CASE GiveUp
  <2>1. /\ answer' = Nothing /\ step' = "idle"
        /\ result' = [operation |-> request, ok |-> FALSE, response |-> answer]
    BY <1>7 DEF GiveUp, Return
  <2> QED BY <2>1 DEF AttemptSound, AnswerSound, ConfirmedWriteMade
<1>8. CASE SlavesAct
  <2>1. /\ request' = request /\ selected' = selected /\ step' = step
        /\ request \in Port!Operation /\ request # Nothing
    BY <1>0, <1>8 DEF SlavesAct, own, ModbusTypeOK
  <2>2. AttemptSound' /\ ConfirmedWriteMade'
    BY <2>1 DEF AttemptSound, ConfirmedWriteMade
  <2>3. PICK S \in SUBSET Port!Addressees(request.slave) :
          /\ coil' = Port!CoilsAfter(S, request)
          /\ \/ answer' = Nothing
             \/ /\ S = {selected} /\ selected \in Slaves /\ request.slave # Port!Broadcast
                /\ answer' = Port!ResponseOf(selected, request)
    BY <1>8, ActEffect
  <2>4. AnswerSound'
    BY <2>1, <2>3, CoilsType DEF AnswerSound, ModbusTypeOK
  <2> QED BY <2>2, <2>4
<1> QED BY <1>1, <1>2, <1>3, <1>4, <1>5, <1>6, <1>7, <1>8 DEF ModbusNext, ModbusThread

\* So does every other step.
LEMMA NextSound == TypeOK /\ CallSound /\ [Next]_vars => CallSound'
<1> SUFFICES ASSUME TypeOK, CallSound, [Next]_vars PROVE CallSound'
  OBVIOUS
<1>1. CASE Modbus
  BY <1>1, ModbusStepSound DEF Modbus, TypeOK
<1>2. CASE UNCHANGED <<request, answer, result, coil, step, selected>>
  BY <1>2 DEF CallSound, AttemptSound, AnswerSound, ConfirmedWriteMade
<1>3. CASE [Next]_vars /\ ~Modbus
  <2>1. UNCHANGED <<request, answer, result, coil, step, selected>>
    BY <1>3 DEF Next, vars, Publish, PrintStatistics, ReadModbusStats, ReadMqttStats,
                ResetModbusStats, ResetMqttStats, MessageArrived, modbusVars, bus, own
  <2> QED BY <1>2, <2>1
<1> QED BY <1>1, <1>3

\* The initial states satisfy it.
LEMMA InitSound == Init => CallSound
BY DEF Init, ModbusInit, Port!Init, Nothing, CallSound, AttemptSound, AnswerSound,
       ConfirmedWriteMade

\* A write that returned true has been made, by the slave it was for or, of an id that
\* libmodbus refuses, by another.
THEOREM ConfirmedWritesMade == Spec => []ConfirmedWriteMade
<1>1. CallSound => ConfirmedWriteMade
  BY DEF CallSound
<1> QED BY <1>1, InitSound, NextSound, TypeCorrect, PTL DEF Spec

----------------------------------------------------------------------------
(* The refinement.                                                         *)

\* A step of the manager or the bus is a step of the port, or none.
LEMMA ModbusStepRefines ==
  ASSUME ModbusTypeOK, CallSound, ModbusNext
  PROVE  Port!Next \/ UNCHANGED Port!vars
<1> USE DEF CallSound
<1>0. /\ request = Nothing <=> step = "idle"
      /\ answer # Nothing => step = "await"
      /\ Nothing = Port!Nothing
  BY DEF ModbusTypeOK, Nothing
<1>1. CASE Connect \/ Disconnect \/ Attempt
  BY <1>1 DEF Connect, Disconnect, Attempt, bus, Port!vars
<1>2. ASSUME NEW op \in Port!Operation, Call(op) PROVE Port!Next
  <2>1. CASE connected
    <3>1. Port!Call(op)
      BY <1>0, <1>2, <2>1 DEF Call, Port!Call
    <3> QED BY <3>1 DEF Port!Next
  <2>2. CASE ~connected
    <3>1. Port!Refuse(op)
      BY <1>0, <1>2, <2>2 DEF Call, Port!Refuse
    <3> QED BY <3>1 DEF Port!Next
  <2> QED BY <2>1, <2>2
<1>3. CASE Answered
  <2>1. Port!Succeed
    BY <1>0, <1>3 DEF Answered, Return, Port!Succeed
  <2> QED BY <2>1 DEF Port!Next
<1>4. CASE AttemptFails
  <2>1. Port!Lose
    BY <1>0, <1>4 DEF AttemptFails, Port!Lose
  <2> QED BY <2>1 DEF Port!Next
<1>5. CASE GiveUp
  <2>1. Port!Fail
    BY <1>0, <1>5 DEF GiveUp, Return, Port!Fail
  <2> QED BY <2>1 DEF Port!Next
<1>6. CASE SlavesAct
  <2>1. request # Nothing /\ UNCHANGED <<request, result>>
    BY <1>0, <1>6 DEF SlavesAct
  <2>2. PICK S \in SUBSET Port!Addressees(request.slave) :
          /\ coil' = Port!CoilsAfter(S, request)
          /\ \/ answer' = Nothing
             \/ /\ S = {selected} /\ selected \in Slaves /\ request.slave # Port!Broadcast
                /\ answer' = Port!ResponseOf(selected, request)
    BY <1>6, ActEffect
  <2>3. \/ answer' = Port!Nothing
        \/ request.slave # Port!Broadcast /\ \E s \in S : answer' = Port!ResponseOf(s, request)
    BY <1>0, <2>2
  <2>4. Port!Act
    BY <1>0, <2>1, <2>2, <2>3 DEF Port!Act
  <2> QED BY <2>4 DEF Port!Next
<1> QED BY <1>1, <1>2, <1>3, <1>4, <1>5, <1>6 DEF ModbusNext, ModbusThread

\* Retry loops, slave selection and counters implement the port (i_modbus_manager.hpp).
THEOREM ImplementsPort == Spec => PortImplemented
<1>1. Init => Port!Init
  BY DEF Init, ModbusInit
<1>2. TypeOK /\ CallSound /\ [Next]_vars => [Port!Next]_(Port!vars)
  <2> SUFFICES ASSUME TypeOK, CallSound, [Next]_vars PROVE [Port!Next]_(Port!vars)
    OBVIOUS
  <2>1. CASE Modbus
    BY <2>1, ModbusStepRefines DEF Modbus, TypeOK
  <2>2. CASE ~Modbus
    <3>1. UNCHANGED <<request, answer, result, coil>>
      BY <2>2 DEF Next, vars, Publish, PrintStatistics, ReadModbusStats, ReadMqttStats,
                  ResetModbusStats, ResetMqttStats, MessageArrived, modbusVars, bus, own
    <3> QED BY <3>1 DEF Port!vars
  <2> QED BY <2>1, <2>2
<1> QED BY <1>1, <1>2, InitSound, NextSound, TypeCorrect, PTL
        DEF Spec, PortImplemented, Port!Spec

----------------------------------------------------------------------------
(* The counters.                                                           *)

\* What the main thread counts, while it prints: what has been read is what happened.
MainSound ==
  /\ \A c \in ModbusCounters :
       happened[c] = IF printing = "no" THEN reported[c] + modbus_stats[c] ELSE reported[c]
  /\ \A c \in MqttCounters \ {"messages_received"} :
       happened[c] = IF printing \in {"no", "mqtt"}
                       THEN reported[c] + mqtt_stats[c] ELSE reported[c]
  /\ printing = "reset_mqtt" => modbus_stats = NoModbusStats

\* The messages: those counted after the reading are the ones missed.
MessagesSound ==
  happened.messages_received =
    reported.messages_received + missed +
      (IF printing \in {"no", "mqtt"} THEN mqtt_stats.messages_received ELSE 0)

CountsSound == MainSound /\ MessagesSound

\* A step of the manager or the bus counts what has happened, or nothing.
LEMMA ModbusCounts ==
  ASSUME TypeOK, Modbus
  PROVE  \/ UNCHANGED <<modbus_stats, happened>>
         \/ \E c \in ModbusCounters :
              /\ modbus_stats' = [modbus_stats EXCEPT ![c] = @ + 1]
              /\ happened' = [happened EXCEPT ![c] = @ + 1]
<1> USE DEF Modbus
<1>0. ModbusNext
  OBVIOUS
<1>1. CASE Connect \/ Disconnect \/ Attempt \/ AttemptFails \/ SlavesAct
  BY <1>1 DEF Connect, Disconnect, Attempt, AttemptFails, SlavesAct, own
<1>2. ASSUME NEW op \in Port!Operation, Call(op) PROVE UNCHANGED <<modbus_stats, happened>>
  BY <1>2 DEF Call
<1>3. CASE Answered \/ GiveUp
  <2>1. step # "idle" /\ step' = "idle" /\ Happens(Outcome)
    BY <1>3 DEF Answered, GiveUp, Return
  <2>2. result'.operation = request /\ Count(Outcome)
    BY <1>3 DEF Answered, GiveUp, Return, Outcome
  <2> QED BY <2>1, <2>2, OutcomeType DEF Happens, Count
<1> QED BY <1>0, <1>1, <1>2, <1>3 DEF ModbusNext, ModbusThread

\* Every step keeps what is known of the counters.
LEMMA NextCounts == TypeOK /\ CountsSound /\ [Next]_vars => CountsSound'
<1> SUFFICES ASSUME TypeOK, CountsSound, [Next]_vars PROVE CountsSound'
  OBVIOUS
<1> USE DEF CountsSound
<1>0. /\ modbus_stats \in [ModbusCounters -> Nat] /\ mqtt_stats \in [MqttCounters -> Nat]
      /\ reported \in [Counters -> Nat] /\ happened \in [Counters -> Nat] /\ missed \in Nat
      /\ ModbusCounters \cap MqttCounters = {} /\ "messages_received" \in MqttCounters
      /\ Counters = ModbusCounters \cup MqttCounters
  BY DEF TypeOK, ModbusTypeOK, ModbusCounters, MqttCounters, Counters
<1>1. CASE Modbus
  <2>1. printing = "no" /\ UNCHANGED <<printing, mqtt_stats, reported, missed>>
    BY <1>1 DEF Modbus
  <2>2. CASE UNCHANGED <<modbus_stats, happened>>
    BY <2>1, <2>2 DEF MainSound, MessagesSound
  <2>3. ASSUME NEW c \in ModbusCounters,
               modbus_stats' = [modbus_stats EXCEPT ![c] = @ + 1],
               happened' = [happened EXCEPT ![c] = @ + 1]
        PROVE  CountsSound'
    BY <1>0, <2>1, <2>3 DEF MainSound, MessagesSound
  <2> QED BY <1>1, <2>2, <2>3, ModbusCounts
<1>2. ASSUME NEW c \in MqttCounters, Publish(c) PROVE CountsSound'
  <2>1. /\ printing = "no" /\ UNCHANGED <<printing, modbus_stats, reported, missed>>
        /\ c # "messages_received"
        /\ mqtt_stats' = [mqtt_stats EXCEPT ![c] = @ + 1]
        /\ happened' = [happened EXCEPT ![c] = @ + 1]
    BY <1>2 DEF Publish, Happens, modbusVars, own
  <2> QED BY <1>0, <2>1 DEF MainSound, MessagesSound
<1>3. CASE ReadModbusStats
  <2>1. /\ printing = "no" /\ printing' = "mqtt"
        /\ UNCHANGED <<modbus_stats, mqtt_stats, happened, missed>>
        /\ \A c \in ModbusCounters : reported'[c] = reported[c] + modbus_stats[c]
        /\ \A c \in MqttCounters : reported'[c] = reported[c]
    BY <1>0, <1>3 DEF ReadModbusStats, Report, modbusVars, own
  <2> QED BY <1>0, <2>1 DEF MainSound, MessagesSound
<1>4. CASE ReadMqttStats
  <2>1. /\ printing = "mqtt" /\ printing' = "reset"
        /\ UNCHANGED <<modbus_stats, mqtt_stats, happened, missed>>
        /\ \A c \in ModbusCounters : reported'[c] = reported[c]
        /\ \A c \in MqttCounters : reported'[c] = reported[c] + mqtt_stats[c]
    BY <1>0, <1>4 DEF ReadMqttStats, Report, modbusVars, own
  <2> QED BY <1>0, <2>1 DEF MainSound, MessagesSound
<1>5. CASE ResetModbusStats
  BY <1>0, <1>5 DEF ResetModbusStats, MainSound, MessagesSound
<1>6. CASE ResetMqttStats
  <2>1. /\ printing = "reset_mqtt" /\ printing' = "no"
        /\ UNCHANGED <<modbus_stats, reported, happened, missed>>
        /\ \A c \in MqttCounters : mqtt_stats'[c] = 0
        /\ \A c \in ModbusCounters : modbus_stats[c] = 0
    BY <1>6 DEF ResetMqttStats, NoMqttStats, NoModbusStats, MainSound, modbusVars, own
  <2> QED BY <1>0, <2>1 DEF MainSound, MessagesSound
<1>7. CASE MessageArrived
  <2>1. /\ UNCHANGED <<printing, modbus_stats, reported>>
        /\ mqtt_stats' = [mqtt_stats EXCEPT !["messages_received"] = @ + 1]
        /\ happened' = [happened EXCEPT !["messages_received"] = @ + 1]
        /\ missed' = IF printing \in {"reset", "reset_mqtt"} THEN missed + 1 ELSE missed
    BY <1>7 DEF MessageArrived, Happens, modbusVars, own
  <2>2. printing \in {"no", "mqtt", "reset", "reset_mqtt"}
    BY DEF TypeOK
  <2>3. MainSound'
    BY <1>0, <2>1 DEF MainSound
  <2>4. MessagesSound'
    BY <1>0, <2>1, <2>2 DEF MessagesSound
  <2> QED BY <2>3, <2>4
<1>8. CASE UNCHANGED vars
  BY <1>8 DEF vars, modbusVars, own, MainSound, MessagesSound
<1> QED BY <1>1, <1>2, <1>3, <1>4, <1>5, <1>6, <1>7, <1>8 DEF Next, PrintStatistics

\* At first nothing has happened.
LEMMA InitCounts == Init => CountsSound
BY DEF Init, ModbusInit, CountsSound, MainSound, MessagesSound, NoModbusStats, NoMqttStats,
       Counters, MqttCounters

\* Between two prints what was printed and what is counted is what the main thread did.
THEOREM MainCountsAlwaysExact == Spec => []MainCountsExact
<1>1. CountsSound => MainCountsExact
  BY DEF CountsSound, MainSound, MainCountsExact
<1> QED BY <1>1, InitCounts, NextCounts, TypeCorrect, PTL DEF Spec

\* No message is missed but those counted between get_stats and reset_stats.
THEOREM NoOthersMissed == Spec => []OnlyMissedInBetween
<1>1. TypeOK /\ CountsSound => OnlyMissedInBetween
  <2> SUFFICES ASSUME TypeOK, CountsSound, printing = "no"
               PROVE  happened.messages_received =
                        reported.messages_received + mqtt_stats.messages_received + missed
    BY DEF OnlyMissedInBetween
  <2>1. /\ reported["messages_received"] \in Nat /\ mqtt_stats["messages_received"] \in Nat
        /\ missed \in Nat
    BY DEF TypeOK, Counters, MqttCounters
  <2> QED BY <2>1 DEF CountsSound, MessagesSound
<1> QED BY <1>1, InitCounts, NextCounts, TypeCorrect, PTL DEF Spec

----------------------------------------------------------------------------
(* What keeps a call from lasting for ever.                                *)

AttemptsLeft == IF retry < max_retries THEN max_retries - retry ELSE 0

\* The steps of the main thread a call has still to make, at most.
CallLeft ==
  CASE step = "try"   -> 2 * AttemptsLeft + 1
    [] step = "await" -> 2 * AttemptsLeft
    [] OTHER          -> 0

\* It is a number, and none is left only when there is no call.
CallLeftSound == CallLeft \in Nat /\ (CallLeft = 0 <=> request = Nothing)

LEMMA AlwaysCallLeft == Spec => []CallLeftSound
<1> SUFFICES ASSUME ModbusTypeOK PROVE CallLeftSound
  BY TypeCorrect, PTL DEF TypeOK
<1>1. /\ retry \in Nat /\ max_retries \in Int /\ step \in {"idle", "try", "await"}
      /\ step = "await" => retry < max_retries
      /\ step = "idle" <=> request = Nothing
  BY ModbusConstants DEF ModbusTypeOK
<1>2. AttemptsLeft \in Nat /\ (step = "await" => AttemptsLeft > 0)
  BY <1>1 DEF AttemptsLeft
<1> QED BY <1>1, <1>2 DEF CallLeft, CallLeftSound

\* A step of the main thread takes some of it away, whatever the bus did before it.
LEMMA ThreadShortensCall ==
  ASSUME ModbusTypeOK, ModbusThread
  PROVE  CallLeft' < CallLeft
<1>1. retry \in Nat /\ max_retries \in Int /\ (step = "await" => retry < max_retries)
  BY ModbusConstants DEF ModbusTypeOK
<1>2. CASE Attempt
  BY <1>1, <1>2 DEF Attempt, CallLeft, AttemptsLeft
<1>3. CASE Answered
  BY <1>1, <1>3 DEF Answered, Return, CallLeft, AttemptsLeft
<1>4. CASE AttemptFails
  BY <1>1, <1>4 DEF AttemptFails, CallLeft, AttemptsLeft
<1>5. CASE GiveUp
  BY <1>1, <1>5 DEF GiveUp, Return, CallLeft, AttemptsLeft
<1> QED BY <1>2, <1>3, <1>4, <1>5 DEF ModbusThread

\* However silent the bus, whatever answers and messages arrive, no step lengthens a
\* call and each step of the main thread shortens it (modbus_manager.cpp:104-128,
\* 138-160): a call, and the manager's mutex with it, is held for at most
\* 2 * max_retries + 1 of them, if max_retries is not negative.
THEOREM CallsWearOut ==
  Spec => [][request # Nothing =>
               /\ CallLeft \in Nat \ {0} /\ CallLeft' \in Nat
               /\ IF ModbusThread THEN CallLeft' < CallLeft ELSE CallLeft' = CallLeft]_vars
<1>1. ASSUME TypeOK, CallLeftSound, CallLeftSound', [Next]_vars, request # Nothing
      PROVE  /\ CallLeft \in Nat \ {0} /\ CallLeft' \in Nat
             /\ IF ModbusThread THEN CallLeft' < CallLeft ELSE CallLeft' = CallLeft
  <2>1. CallLeft \in Nat \ {0} /\ CallLeft' \in Nat
    BY <1>1 DEF CallLeftSound
  <2>2. CASE ModbusThread
    BY <1>1, <2>1, <2>2, ThreadShortensCall DEF TypeOK
  <2>3. CASE ~ModbusThread
    <3>1. step # "idle" /\ printing = "no"
      BY <1>1 DEF TypeOK, ModbusTypeOK
    <3>2. UNCHANGED <<step, retry, max_retries>>
      <4>1. CASE Modbus
        <5>1. SlavesAct
          BY <2>3, <3>1, <4>1 DEF Modbus, ModbusNext, Connect, Disconnect, Call
        <5> QED BY <5>1 DEF SlavesAct, own
      <4>2. CASE ~Modbus
        BY <1>1, <3>1, <4>2
        DEF Next, vars, Publish, PrintStatistics, ReadModbusStats, ReadMqttStats,
            ResetModbusStats, ResetMqttStats, MessageArrived, modbusVars, bus, own
      <4> QED BY <4>1, <4>2
    <3> QED BY <2>1, <2>3, <3>2 DEF CallLeft, AttemptsLeft
  <2> QED BY <2>1, <2>2, <2>3
<1> QED BY <1>1, AlwaysCallLeft, TypeCorrect, PTL DEF Spec

----------------------------------------------------------------------------
(* What a call does to the coils.                                          *)

\* A coil moves only during a write, to the state written, and only at the address
\* written; and only at the slave the write is for, unless that is the broadcast or
\* an id libmodbus refuses, which leaves an earlier call's slave selected
\* (modbus_manager.cpp:106, 140: the result of modbus_set_slave is ignored).
CoilsMoveAsAsked ==
  \A s \in Slaves, a \in Addresses :
    coil'[<<s, a>>] # coil[<<s, a>>] =>
      /\ request # Nothing /\ request.kind = "write"
      /\ a = request.address /\ coil'[<<s, a>>] = request.state
      /\ request.slave \in ValidIds \ {Port!Broadcast} => s = request.slave

\* Retries, late answers and whatever slave earlier calls selected: no attempt of any
\* call moves a coil the call does not name.
THEOREM CoilsAlwaysMoveAsAsked == Spec => [][CoilsMoveAsAsked]_vars
<1>1. ASSUME TypeOK, CallSound, [Next]_vars PROVE CoilsMoveAsAsked
  <2>1. CASE UNCHANGED coil
    BY <2>1 DEF CoilsMoveAsAsked
  <2>2. CASE Modbus /\ SlavesAct
    <3>1. request # Nothing /\ request \in Port!Operation /\ coil \in [Slaves \X Addresses -> BOOLEAN]
      BY <1>1, <2>2 DEF SlavesAct, TypeOK, ModbusTypeOK
    <3>2. PICK S \in SUBSET Port!Addressees(request.slave) : coil' = Port!CoilsAfter(S, request)
      BY <1>1, <2>2, ActEffect DEF TypeOK, CallSound
    <3>3. request.slave \in ValidIds \ {Port!Broadcast} => S \subseteq {request.slave}
      BY <3>2 DEF Port!Addressees
    <3>4. CASE request.kind = "write"
      BY <3>1, <3>2, <3>3, <3>4 DEF Port!CoilsAfter, CoilsMoveAsAsked
    <3>5. CASE request.kind # "write"
      BY <3>2, <3>5 DEF Port!CoilsAfter, CoilsMoveAsAsked
    <3> QED BY <3>4, <3>5
  <2>3. CASE Modbus /\ ~SlavesAct
    <3>1. UNCHANGED coil
      BY <2>3 DEF Modbus, ModbusNext, ModbusThread, Connect, Disconnect, Call, Attempt,
                  Answered, AttemptFails, GiveUp, Return, bus
    <3> QED BY <2>1, <3>1
  <2>4. CASE ~Modbus
    <3>1. UNCHANGED coil
      BY <1>1, <2>4 DEF Next, vars, Publish, PrintStatistics, ReadModbusStats, ReadMqttStats,
                        ResetModbusStats, ResetMqttStats, MessageArrived, modbusVars, bus
    <3> QED BY <2>1, <3>1
  <2> QED BY <2>2, <2>3, <2>4
<1> QED BY <1>1, InitSound, NextSound, TypeCorrect, PTL DEF Spec

============================================================================
