--------------------------- MODULE MCTopicParser ---------------------------
(***************************************************************************)
(* Checks TopicParser on every topic of at most MaxFree tokens and every   *)
(* topic that continues the prefix by at most MaxRest tokens: a topic      *)
(* grows by one token per step.  Config is checked with the topic's level  *)
(* as the name of its devices.                                             *)
(***************************************************************************)
EXTENDS Config

CONSTANTS MaxFree, MaxRest

VARIABLE topic

Tokens == {"modbus", "/", "relay", "set", "lamp"}

Bound == IF OccursAt(Prefix, topic, 1) THEN Len(Prefix) + MaxRest ELSE MaxFree

Init == topic = <<>> \/ topic = Prefix

Next ==
  /\ Len(topic) < Bound
  /\ \E token \in Tokens : topic' = Append(topic, token)

Spec == Init /\ [][Next]_topic

----------------------------------------------------------------------------

Level == LevelOf(topic)

MatchesFilter == MatchesSubscription(topic)

\* Every message the subscription lets through is taken for a command, and is
\* given the name of the relay the topic names, unless that name starts with
\* "set" (device_controller.cpp:87-90).
LevelsParsed ==
  MatchesFilter /\ ~StartsWithSet(Level)
    => IsCommandTopic(topic) /\ RelayNameOf(topic) = Level

\* A command is never given the name of another relay: the name found is the
\* one in the topic, or one no single-level topic can name (it contains a "/",
\* so that relay_states_.find fails and the command is dropped, unless a relay was given
\* such a name, which nothing forbids).
NeverMisrouted ==
  MatchesFilter => RelayNameOf(topic) = Level \/ ~IsLevel(RelayNameOf(topic))

\* The comment at device_controller.cpp:83 says of the code that follows:
\* Parse relay command: "modbus/relay/{name}/set".  It does not parse it for a
\* name that starts with "set".
EveryNameParsed == MatchesFilter => RelayNameOf(topic) = Level

----------------------------------------------------------------------------

OptionalKeys ==
  DOMAIN ModbusDefaults \cup DOMAIN MqttDefaults \cup DOMAIN PollingDefaults
    \cup {"mqtt_topic", "mqtt_command_topic", "mqtt_state_topic"}

\* The document of one input and one relay of this name, which of the keys that may be
\* left out has those in the domain of "given", with these values.
Document(name, given) ==
  LET Section(defaults) == [key \in DOMAIN defaults \cap DOMAIN given |-> given[key]]
      Device(topics) ==
        [key \in {"slave_id", "address", "name"} \cup (topics \cap DOMAIN given) |->
           IF key = "name" THEN name
           ELSE IF key \in topics THEN given[key] ELSE <<key>>]
  IN  [modbus         |-> Section(ModbusDefaults),
       mqtt           |-> Section(MqttDefaults),
       polling        |-> Section(PollingDefaults),
       digital_inputs |-> <<Device({"mqtt_topic"})>>,
       relays         |-> <<Device({"mqtt_command_topic", "mqtt_state_topic"})>>]

\* A configuration that is loaded, saved and loaded again is the same, whichever keys
\* its document leaves out, unless its parity begins with a character of several bytes,
\* of which only the first is kept (config.cpp:11-12, 87-159).
SavedConfigReloads ==
  \A K \in {{}, OptionalKeys} \cup {{key} : key \in OptionalKeys},
     parity \in {<<"E", "V">>, <<"e-acute">>} :
    LET given  == [key \in K |-> IF key = "parity" THEN parity ELSE <<"given", key>>]
        config == Load(Document(topic, given))
    IN  \/ Saveable(config) /\ Loadable(Save(config)) /\ Load(Save(config)) = config
        \/ ~Saveable(config) /\ "parity" \in K /\ parity[1] \in WideCharacters

\* The default topics fit the program's fixed subscription and its parser: a relay's
\* command topic reaches the relay, and no state the program publishes comes back to it
\* (config.cpp:46, 61, 67; application.cpp:33).
DefaultTopicsFit ==
  IsLevel(topic) /\ ~StartsWithSet(topic) =>
    LET config == Load(Document(topic, <<>>))
        relay  == config.relays[1]
    IN  /\ MatchesSubscription(relay.mqtt_command_topic)
        /\ RelayNameOf(relay.mqtt_command_topic) = relay.name
        /\ ~MatchesSubscription(relay.mqtt_state_topic)
        /\ ~MatchesSubscription(config.inputs[1].mqtt_topic)

\* A command sent to this topic reaches the relay.
Hears(relay, t) ==
  MatchesSubscription(t) /\ IsCommandTopic(t) /\ RelayNameOf(t) = relay.name

\* A command topic that is configured is read and never used: the relay hears it exactly
\* if it is the default one (config.cpp:58-62; application.cpp:33).
ConfiguredTopicsFit ==
  \A name \in {<<"lamp">>, Level} :
    IsLevel(name) /\ ~StartsWithSet(name) =>
      LET relay == Load(Document(name, [key \in {"mqtt_command_topic"} |-> topic])).relays[1]
      IN  Hears(relay, relay.mqtt_command_topic)
            <=> relay.mqtt_command_topic = CommandTopic(name)

\* Of the command topics a configuration can give, a relay hears its default one and no
\* other, and no state the program publishes under a default topic comes back to it.
CommandTopicsFit == DefaultTopicsFit /\ ConfiguredTopicsFit

============================================================================
