----------------------------- MODULE Statistics -----------------------------
(***************************************************************************)
(* The counters of the two managers and DeviceController::print_statistics *)
(* (src/src/device_controller.cpp), which reads them once a minute and     *)
(* then sets them to zero.                                                 *)
(*                                                                         *)
(* The main thread makes the Modbus calls (ModbusManager), publishes and   *)
(* prints.  The MQTT client's thread counts the messages that arrive,      *)
(* whatever the main thread is doing.  get_stats and reset_stats of a      *)
(* manager touch only one counter the other thread writes, and are one     *)
(* step each.                                                              *)
(***************************************************************************)
EXTENDS ModbusManager

CONSTANTS MaxPublishes, MaxMessages, MaxPrints  \* bounds of the model

ASSUME StatisticsBounds ==
  MaxPublishes \in Nat /\ MaxMessages \in Nat /\ MaxPrints \in Nat

VARIABLES
  printing,    \* print_statistics: no, mqtt, reset, reset_mqtt
  mqtt_stats,  \* publish_success_, publish_errors_, messages_received_
  prints,
  reported,    \* history: the sum of all that was printed
  happened,    \* history: what there was to count
  missed       \* history: messages counted after the reading and before the reset

vars == <<modbusVars, printing, mqtt_stats, prints, reported, happened, missed>>

MqttCounters == {"publish_success", "publish_errors", "messages_received"}
Counters     == ModbusCounters \cup MqttCounters

NoMqttStats == [c \in MqttCounters |-> 0]

Report(stats) ==
  reported' = [c \in Counters |->
                 IF c \in DOMAIN stats THEN reported[c] + stats[c] ELSE reported[c]]

Happens(c) == happened' = [happened EXCEPT ![c] = @ + 1]

----------------------------------------------------------------------------
(* The main thread.                                                        *)

\* What a Modbus call that has been made and has returned adds to the world.
Outcome ==
  LET op == result'.operation
  IN  IF op.kind = "read"
        THEN IF result'.ok THEN "read_success" ELSE "read_errors"
        ELSE IF result'.ok THEN "write_success" ELSE "write_errors"

\* A step of the manager, or of the bus under it.
Modbus ==
  /\ printing = "no"
  /\ ModbusNext
  /\ IF step # "idle" /\ step' = "idle" THEN Happens(Outcome) ELSE UNCHANGED happened
  /\ UNCHANGED <<printing, mqtt_stats, prints, reported, missed>>

\* MqttManager::publish: acknowledged in time, or not.
Publish(c) ==
  /\ step = "idle" /\ printing = "no"
  /\ c \in {"publish_success", "publish_errors"}
  /\ happened.publish_success + happened.publish_errors < MaxPublishes
  /\ mqtt_stats' = [mqtt_stats EXCEPT ![c] = @ + 1]
  /\ Happens(c)
  /\ UNCHANGED <<modbusVars, printing, prints, reported, missed>>

\* A minute has passed since the last time: the Modbus counters are read.
ReadModbusStats ==
  /\ step = "idle" /\ printing = "no"
  /\ prints < MaxPrints
  /\ prints' = prints + 1
  /\ Report(modbus_stats)
  /\ printing' = "mqtt"
  /\ UNCHANGED <<modbusVars, mqtt_stats, happened, missed>>

ReadMqttStats ==
  /\ printing = "mqtt"
  /\ Report(mqtt_stats)
  /\ printing' = "reset"
  /\ UNCHANGED <<modbusVars, mqtt_stats, prints, happened, missed>>

ResetModbusStats ==
  /\ printing = "reset"
  /\ modbus_stats' = NoModbusStats
  /\ printing' = "reset_mqtt"
  /\ UNCHANGED <<bus, max_retries, connected, selected, step, retry, calls, mqtt_stats,
                 prints, reported, happened, missed>>

\* Mutant: the messages are not reset.
ResetPublishes ==
  /\ printing = "reset_mqtt"
  /\ mqtt_stats' = [NoMqttStats EXCEPT !.messages_received = mqtt_stats.messages_received]
  /\ printing' = "no"
  /\ UNCHANGED <<modbusVars, prints, reported, happened, missed>>

ResetMqttStats ==
  /\ printing = "reset_mqtt"
  /\ mqtt_stats' = NoMqttStats
  /\ printing' = "no"
  /\ UNCHANGED <<modbusVars, prints, reported, happened, missed>>

PrintStatistics == ReadModbusStats \/ ReadMqttStats \/ ResetModbusStats \/ ResetMqttStats

----------------------------------------------------------------------------
(* The MQTT client's thread.                                               *)

MessageArrived ==
  /\ happened.messages_received < MaxMessages
  /\ mqtt_stats' = [mqtt_stats EXCEPT !.messages_received = @ + 1]
  /\ Happens("messages_received")
  /\ missed' = IF printing \in {"reset", "reset_mqtt"} THEN missed + 1 ELSE missed
  /\ UNCHANGED <<modbusVars, printing, prints, reported>>

----------------------------------------------------------------------------

Init ==
  /\ ModbusInit
  /\ printing = "no"
  /\ mqtt_stats = NoMqttStats
  /\ prints = 0
  /\ reported = [c \in Counters |-> 0]
  /\ happened = [c \in Counters |-> 0]
  /\ missed = 0

Next ==
  \/ Modbus
  \/ \E c \in MqttCounters : Publish(c)
  \/ PrintStatistics
  \/ MessageArrived

\* The main thread runs.
Spec == Init /\ [][Next]_vars /\ WF_vars(Modbus /\ ModbusThread) /\ WF_vars(PrintStatistics)

----------------------------------------------------------------------------
(* What is checked.                                                        *)

\* Every variable has its type, and the main thread prints between its other calls.
TypeOK ==
  /\ ModbusTypeOK
  /\ printing \in {"no", "mqtt", "reset", "reset_mqtt"}
  /\ printing # "no" => step = "idle"
  /\ mqtt_stats \in [MqttCounters -> Nat]
  /\ prints \in Nat
  /\ reported \in [Counters -> Nat]
  /\ happened \in [Counters -> Nat]
  /\ missed \in Nat

\* Nothing the main thread counts is lost or counted twice by reading and resetting:
\* between two prints, what was printed and what is counted is what happened, per
\* call and not per attempt (device_controller.cpp:108-134).
MainCountsExact ==
  printing = "no" =>
    /\ \A c \in ModbusCounters : happened[c] = reported[c] + modbus_stats[c]
    /\ \A c \in MqttCounters \ {"messages_received"} :
         happened[c] = reported[c] + mqtt_stats[c]

\* Messages are counted by another thread: those that arrive between get_stats and
\* reset_stats are lost, and no others are lost or counted twice
\* (mqtt_manager.cpp:142, 159-167).
OnlyMissedInBetween ==
  printing = "no" =>
    happened.messages_received =
      reported.messages_received + mqtt_stats.messages_received + missed

============================================================================
