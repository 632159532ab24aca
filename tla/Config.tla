------------------------------- MODULE Config -------------------------------
(***************************************************************************)
(* Config::load and Config::save, src/src/config.cpp: what a configuration *)
(* is made of a JSON document, with a default for each key that is         *)
(* missing, and what document is made of it again.                         *)
(*                                                                         *)
(* A JSON object is a function on its keys, an array a sequence.  Names,   *)
(* topics and the parity are sequences of tokens, as in TopicParser, those *)
(* of the parity single characters; other values are themselves.  Values   *)
(* of the wrong type, which throw like a missing key, are left out.        *)
(***************************************************************************)
EXTENDS TopicParser

\* nlohmann::json::value(key, default)
Value(j, key, default) == IF key \in DOMAIN j THEN j[key] ELSE default

WithDefaults(j, defaults) == [key \in DOMAIN defaults |-> Value(j, key, defaults[key])]

ModbusDefaults ==
  [port |-> "/dev/ttyUSB0", baudrate |-> 9600, parity |-> <<"N">>, data_bits |-> 8,
   stop_bits |-> 1, response_timeout_ms |-> 300, byte_timeout_ms |-> 100, max_retries |-> 3]

MqttDefaults ==
  [broker_address |-> "tcp://localhost:1883", client_id |-> "modbus_poller", username |-> "",
   password |-> "", qos |-> 1, retained |-> TRUE, keep_alive_sec |-> 60,
   operation_timeout_ms |-> 500]

PollingDefaults ==
  [poll_interval_ms |-> 400, refresh_interval_sec |-> 10, max_commands_per_cycle |-> 10,
   watchdog_timeout_sec |-> 10]

\* A character beyond ASCII takes several bytes; a char holds one, which is no text.
WideCharacters == {"e-acute"}
LeadByte == "the first byte of several"

FirstByte(c) == IF c \in WideCharacters THEN LeadByte ELSE c

\* The parity is one byte, parity[0]: the first of the text.
Parity(text) == IF text = <<>> THEN "N" ELSE FirstByte(text[1])

ModbusFromJson(j) ==
  LET config == WithDefaults(j, ModbusDefaults)
  IN  [config EXCEPT !.parity = Parity(config.parity)]

MqttFromJson(j) == WithDefaults(j, MqttDefaults)

PollingFromJson(j) == WithDefaults(j, PollingDefaults)

StateTopic(kind, name) == <<"modbus", "/", kind, "/">> \o name \o <<"/", "state">>

InputFromJson(j) ==
  [slave_id   |-> j.slave_id,
   address    |-> j.address,
   name       |-> j.name,
   mqtt_topic |-> Value(j, "mqtt_topic", StateTopic("input", j.name))]

\* Mutant: the two default topics are exchanged.
RelayFromJsonSwapped(j) ==
  [slave_id           |-> j.slave_id,
   address            |-> j.address,
   name               |-> j.name,
   mqtt_command_topic |-> Value(j, "mqtt_command_topic", StateTopic("relay", j.name)),
   mqtt_state_topic   |-> Value(j, "mqtt_state_topic", CommandTopic(j.name))]

RelayFromJson(j) ==
  [slave_id           |-> j.slave_id,
   address            |-> j.address,
   name               |-> j.name,
   mqtt_command_topic |-> Value(j, "mqtt_command_topic", CommandTopic(j.name)),
   mqtt_state_topic   |-> Value(j, "mqtt_state_topic", StateTopic("relay", j.name))]

Sections == {"modbus", "mqtt", "polling", "digital_inputs", "relays"}

\* What load requires, on pain of an exception.
Loadable(j) ==
  /\ Sections \subseteq DOMAIN j
  /\ \A section \in {"digital_inputs", "relays"} :
       \A n \in DOMAIN j[section] : {"slave_id", "address", "name"} \subseteq DOMAIN j[section][n]

Load(j) ==
  [modbus  |-> ModbusFromJson(j.modbus),
   mqtt    |-> MqttFromJson(j.mqtt),
   polling |-> PollingFromJson(j.polling),
   inputs  |-> [n \in DOMAIN j.digital_inputs |-> InputFromJson(j.digital_inputs[n])],
   relays  |-> [n \in DOMAIN j.relays |-> RelayFromJson(j.relays[n])]]

\* dump throws on a text that is not UTF-8.
Saveable(config) == config.modbus.parity # LeadByte

\* Mutant: the topics of inputs are not saved.
SaveWithoutTopics(config) ==
  [modbus         |-> [config.modbus EXCEPT !.parity = <<config.modbus.parity>>],
   mqtt           |-> config.mqtt,
   polling        |-> config.polling,
   digital_inputs |-> [n \in DOMAIN config.inputs |->
                         [key \in {"slave_id", "address", "name"} |-> config.inputs[n][key]]],
   relays         |-> config.relays]

\* save writes every field under its name, the parity as a text of its one byte; of a
\* configuration that is not Saveable it writes nothing.
Save(config) ==
  [modbus         |-> [config.modbus EXCEPT !.parity = <<config.modbus.parity>>],
   mqtt           |-> config.mqtt,
   polling        |-> config.polling,
   digital_inputs |-> config.inputs,
   relays         |-> config.relays]

============================================================================
