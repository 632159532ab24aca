---------------------------- MODULE ConfigProofs ----------------------------
(***************************************************************************)
(* Theorems about Config for every document, and about the topics of       *)
(* MCTopicParser of any length.                                            *)
(***************************************************************************)
EXTENDS MCTopicParser, TopicParserProofs

----------------------------------------------------------------------------
(* Saving and loading again.                                               *)

\* A section that has every key takes no default.
LEMMA Complete ==
  ASSUME NEW defaults, NEW config, config = [key \in DOMAIN defaults |-> config[key]]
  PROVE  WithDefaults(config, defaults) = config
BY DEF WithDefaults, Value

\* The Modbus section, whose parity is a character in memory and a text in the file.
LEMMA ModbusReloads ==
  ASSUME NEW j
  PROVE  LET config == ModbusFromJson(j)
         IN  ModbusFromJson([config EXCEPT !.parity = <<config.parity>>]) = config
<1> DEFINE D == DOMAIN ModbusDefaults
           loaded == WithDefaults(j, ModbusDefaults)
           config == ModbusFromJson(j)
           saved == [config EXCEPT !.parity = <<config.parity>>]
<1>1. "parity" \in D
  BY DEF ModbusDefaults
<1>2. loaded = [key \in D |-> loaded[key]]
  BY DEF WithDefaults
<1>3. config = [loaded EXCEPT !.parity = Parity(loaded.parity)]
  BY DEF ModbusFromJson
<1> HIDE DEF loaded, D
<1>4. config = [key \in D |-> IF key = "parity" THEN Parity(loaded.parity) ELSE loaded[key]]
  BY <1>2, <1>3
<1> HIDE DEF config
<1>5. config = [key \in D |-> config[key]] /\ DOMAIN config = D
  BY <1>4
<1>6. saved = [key \in D |-> IF key = "parity" THEN <<config.parity>> ELSE config[key]]
  BY <1>5
<1> HIDE DEF saved
<1>7. saved = [key \in D |-> saved[key]]
  BY <1>6
<1>8. WithDefaults(saved, ModbusDefaults) = saved
  BY <1>7, Complete DEF D
<1>9. ModbusFromJson(saved) = [saved EXCEPT !.parity = Parity(saved.parity)]
  BY <1>8 DEF ModbusFromJson
<1>10. Parity(saved.parity) = config.parity
  <2>1. saved.parity = <<config.parity>>
    BY <1>1, <1>6
  <2>2. config.parity = Parity(loaded.parity)
    BY <1>1, <1>4
  <2>3. config.parity \notin WideCharacters
    BY <2>2 DEF Parity, FirstByte, WideCharacters, LeadByte
  <2> QED BY <2>1, <2>3 DEF Parity, FirstByte
<1>11. [saved EXCEPT !.parity = config.parity] = config
  BY <1>1, <1>5, <1>6
<1> QED BY <1>9, <1>10, <1>11 DEF saved, config

\* The other two sections are written as they are.
LEMMA SectionsReload ==
  ASSUME NEW j
  PROVE  /\ MqttFromJson(MqttFromJson(j)) = MqttFromJson(j)
         /\ PollingFromJson(PollingFromJson(j)) = PollingFromJson(j)
<1>1. \A defaults : WithDefaults(WithDefaults(j, defaults), defaults) = WithDefaults(j, defaults)
  BY Complete DEF WithDefaults
<1> QED BY <1>1 DEF MqttFromJson, PollingFromJson

\* Devices are written with all their topics.
LEMMA DevicesReload ==
  ASSUME NEW j
  PROVE  /\ InputFromJson(InputFromJson(j)) = InputFromJson(j)
         /\ RelayFromJson(RelayFromJson(j)) = RelayFromJson(j)
BY DEF InputFromJson, RelayFromJson, Value

\* Whatever a document leaves out: what save writes of the configuration it gives, if it
\* can be written at all (Saveable), can be loaded again, and is then the same
\* (config.cpp:87-159).
THEOREM ReloadsForAll ==
  ASSUME NEW j
  PROVE  Loadable(Save(Load(j))) /\ Load(Save(Load(j))) = Load(j)
<1> DEFINE config == Load(j)
           saved  == Save(config)
<1>1. /\ config.modbus = ModbusFromJson(j.modbus)
      /\ config.mqtt = MqttFromJson(j.mqtt)
      /\ config.polling = PollingFromJson(j.polling)
      /\ config.inputs = [n \in DOMAIN j.digital_inputs |-> InputFromJson(j.digital_inputs[n])]
      /\ config.relays = [n \in DOMAIN j.relays |-> RelayFromJson(j.relays[n])]
  BY DEF Load
<1>2. /\ DOMAIN saved = Sections
      /\ saved.modbus = [config.modbus EXCEPT !.parity = <<config.modbus.parity>>]
      /\ saved.mqtt = config.mqtt
      /\ saved.polling = config.polling
      /\ saved.digital_inputs = config.inputs
      /\ saved.relays = config.relays
  BY DEF Save, Sections
<1>3. Loadable(saved)
  <2>1. \A n \in DOMAIN saved.digital_inputs :
          {"slave_id", "address", "name"} \subseteq DOMAIN saved.digital_inputs[n]
    BY <1>1, <1>2 DEF InputFromJson
  <2>2. \A n \in DOMAIN saved.relays :
          {"slave_id", "address", "name"} \subseteq DOMAIN saved.relays[n]
    BY <1>1, <1>2 DEF RelayFromJson
  <2> QED BY <1>2, <2>1, <2>2 DEF Loadable, Sections
<1>4. ModbusFromJson(saved.modbus) = config.modbus
  BY <1>1, <1>2, ModbusReloads
<1>5. MqttFromJson(saved.mqtt) = config.mqtt /\ PollingFromJson(saved.polling) = config.polling
  BY <1>1, <1>2, SectionsReload
<1>6. [n \in DOMAIN saved.digital_inputs |-> InputFromJson(saved.digital_inputs[n])]
        = config.inputs
  BY <1>1, <1>2, DevicesReload
<1>7. [n \in DOMAIN saved.relays |-> RelayFromJson(saved.relays[n])] = config.relays
  BY <1>1, <1>2, DevicesReload
<1>8. config = [modbus |-> config.modbus, mqtt |-> config.mqtt, polling |-> config.polling,
                inputs |-> config.inputs, relays |-> config.relays]
  BY DEF Load
<1>9. Load(saved) = config
  <2> HIDE DEF config, saved
  <2> QED BY <1>4, <1>5, <1>6, <1>7, <1>8 DEF Load
<1> QED BY <1>3, <1>9

\* Only a parity that begins with a character of several bytes makes a configuration that
\* save cannot write; one that begins with a lone byte is in no document.
LEMMA SaveableUnlessWide ==
  ASSUME NEW j, ~Saveable(Load(j))
  PROVE  "parity" \in DOMAIN j.modbus /\ j.modbus.parity[1] \in WideCharacters \cup {LeadByte}
<1> DEFINE text == WithDefaults(j.modbus, ModbusDefaults).parity
<1>1. "parity" \in DOMAIN ModbusDefaults /\ ModbusDefaults.parity = <<"N">>
  BY DEF ModbusDefaults
<1>2. text = IF "parity" \in DOMAIN j.modbus THEN j.modbus.parity ELSE <<"N">>
  BY <1>1 DEF WithDefaults, Value
<1>3. Load(j).modbus.parity = Parity(text)
  <2> DEFINE loaded == WithDefaults(j.modbus, ModbusDefaults)
  <2>1. loaded = [key \in DOMAIN ModbusDefaults |-> loaded[key]]
    BY DEF WithDefaults
  <2> HIDE DEF loaded
  <2>2. [loaded EXCEPT !.parity = Parity(loaded.parity)].parity = Parity(loaded.parity)
    BY <1>1, <2>1
  <2> QED BY <2>2 DEF Load, ModbusFromJson, loaded
<1> HIDE DEF text
<1>4. text # <<>> /\ FirstByte(text[1]) = LeadByte
  BY <1>3 DEF Saveable, Parity, LeadByte
<1>5. text[1] \in WideCharacters \/ text[1] = LeadByte
  BY <1>4 DEF FirstByte
<1> QED BY <1>2, <1>4, <1>5 DEF WideCharacters, LeadByte

\* The instance of the run.
THEOREM ReloadsAlways == Spec => []SavedConfigReloads
<1>1. SavedConfigReloads
  <2> SUFFICES ASSUME NEW K \in {{}, OptionalKeys} \cup {{key} : key \in OptionalKeys},
                      NEW parity \in {<<"E", "V">>, <<"e-acute">>}
               PROVE  LET given  == [key \in K |-> IF key = "parity" THEN parity
                                                   ELSE <<"given", key>>]
                          config == Load(Document(topic, given))
                      IN  \/ /\ Saveable(config) /\ Loadable(Save(config))
                             /\ Load(Save(config)) = config
                          \/ ~Saveable(config) /\ "parity" \in K /\ parity[1] \in WideCharacters
    BY DEF SavedConfigReloads
  <2> DEFINE given == [key \in K |-> IF key = "parity" THEN parity ELSE <<"given", key>>]
             j == Document(topic, given)
  <2>1. Loadable(Save(Load(j))) /\ Load(Save(Load(j))) = Load(j)
    BY ReloadsForAll
  <2>2. ASSUME ~Saveable(Load(j)) PROVE "parity" \in K /\ parity[1] \in WideCharacters
    <3>1. j.modbus = [key \in DOMAIN ModbusDefaults \cap K |-> given[key]]
      BY DEF Document
    <3> HIDE DEF j
    <3>2. "parity" \in DOMAIN j.modbus /\ j.modbus.parity[1] \in WideCharacters \cup {LeadByte}
      BY <2>2, SaveableUnlessWide
    <3>3. "parity" \in K /\ j.modbus.parity = parity
      BY <3>1, <3>2
    <3>4. parity[1] \in {"E", "e-acute"}
      <4>1. <<"E", "V">>[1] = "E" /\ <<"e-acute">>[1] = "e-acute"
        OBVIOUS
      <4> QED BY <4>1, Zenon
    <3> QED BY <3>2, <3>3, <3>4 DEF WideCharacters, LeadByte
  <2> QED BY <2>1, <2>2
<1> QED BY <1>1, PTL

----------------------------------------------------------------------------
(* Topics.                                                                 *)

\* A topic is a sequence of the model's tokens.
TopicOK == topic \in Seq(Tokens)

\* It grows over them.
LEMMA TopicType == Spec => []TopicOK
<1>1. Init => TopicOK
  <2>1. <<>> \in Seq(Tokens)
    OBVIOUS
  <2>2. Prefix \in Seq(Tokens)
    BY DEF Prefix, Tokens
  <2> QED BY <2>1, <2>2 DEF Init, TopicOK
<1>2. TopicOK /\ [Next]_topic => TopicOK'
  BY AppendProperties DEF Next, TopicOK
<1> QED BY <1>1, <1>2, PTL DEF Spec

\* Part of a sequence is a sequence over the same set.
LEMMA LevelType ==
  ASSUME NEW t \in Seq(Tokens)
  PROVE  LevelOf(t) \in Seq(Tokens)
<1>1. Len(t) \in Nat /\ Len(Prefix) = 4 /\ Len(Suffix) = 2
  BY LenProperties DEF Prefix, Suffix
<1>2. \A i \in 5..Len(t) - 2 : t[i] \in Tokens
  BY <1>1, ElementOfSeq
<1>3. SubSeq(t, 5, Len(t) - 2) \in Seq(Tokens)
  BY <1>1, <1>2, SubSeqProperties
<1> QED BY <1>1, <1>3 DEF LevelOf

\* Of a topic of the model's tokens, of any length: a message the subscription lets
\* through is given the relay its topic names, or a name that no relay can have.
LEMMA ParserSound == TopicOK => LevelsParsed /\ NeverMisrouted
<1> SUFFICES ASSUME TopicOK, MatchesFilter
             PROVE  /\ ~StartsWithSet(Level)
                         => IsCommandTopic(topic) /\ RelayNameOf(topic) = Level
                    /\ RelayNameOf(topic) = Level \/ ~IsLevel(RelayNameOf(topic))
  BY DEF LevelsParsed, NeverMisrouted
<1>1. Level \in Seq(Tokens) /\ Words \subseteq Tokens
  BY LevelType DEF Level, Words, Tokens, TopicOK
<1>2. topic = CommandTopic(Level) /\ IsLevel(Level)
  BY DEF MatchesFilter, MatchesSubscription, Level
<1>3. CASE StartsWithSet(Level)
  <2>1. ~IsLevel(RelayNameOf(CommandTopic(Level)))
    BY <1>1, <1>2, <1>3, SetLevelsMangled
  <2> QED BY <1>2, <1>3, <2>1
<1>4. CASE ~StartsWithSet(Level)
  <2>1. /\ IsCommandTopic(CommandTopic(Level))
        /\ RelayNameOf(CommandTopic(Level)) = Level
    BY <1>1, <1>2, <1>4, LevelsParsedForAll
  <2> QED BY <1>2, <2>1
<1> QED BY <1>3, <1>4

\* Every command reaches the relay its topic names, unless the name starts with "set".
THEOREM LevelsAlwaysParsed == Spec => []LevelsParsed
BY TopicType, ParserSound, PTL

\* No command reaches another relay.
THEOREM NeverMisroutedAlways == Spec => []NeverMisrouted
BY TopicType, ParserSound, PTL

----------------------------------------------------------------------------
(* The default topics.                                                     *)

\* The tokens of a default state topic.
LEMMA StateTopicTokens ==
  ASSUME NEW Token, NEW kind \in Token, {"modbus", "/", "state"} \subseteq Token,
         NEW name \in Seq(Token)
  PROVE  LET t == StateTopic(kind, name)
             n == Len(name)
         IN  /\ n \in Nat
             /\ t \in Seq(Token)
             /\ Len(t) = n + 6
             /\ t[3] = kind
             /\ \A k \in 1..n : t[k + 4] = name[k]
             /\ t[n + 6] = "state"
<1> DEFINE n == Len(name)
           first == <<"modbus", "/", kind, "/">>
           last == <<"/", "state">>
           head == first \o name
<1>1. n \in Nat
  BY LenProperties
<1>2. first \in Seq(Token) /\ Len(first) = 4 /\ first[3] = kind
  OBVIOUS
<1>3. last \in Seq(Token) /\ Len(last) = 2 /\ last[2] = "state"
  OBVIOUS
<1> HIDE DEF first, last
<1>4. /\ head \in Seq(Token) /\ Len(head) = n + 4
      /\ \A i \in 1..n + 4 : head[i] = IF i <= 4 THEN first[i] ELSE name[i - 4]
  <2>1. /\ head \in Seq(Token) /\ Len(head) = Len(first) + n
        /\ \A i \in 1..Len(first) + n :
             head[i] = IF i <= Len(first) THEN first[i] ELSE name[i - Len(first)]
    BY <1>2, ConcatProperties
  <2> QED BY <1>1, <1>2, <2>1
<1> HIDE DEF head
<1>5. /\ head \o last \in Seq(Token) /\ Len(head \o last) = n + 6
      /\ \A i \in 1..n + 6 :
           (head \o last)[i] = IF i <= n + 4 THEN head[i] ELSE last[i - (n + 4)]
  <2>1. /\ head \o last \in Seq(Token) /\ Len(head \o last) = Len(head) + Len(last)
        /\ \A i \in 1..Len(head) + Len(last) :
             (head \o last)[i] = IF i <= Len(head) THEN head[i] ELSE last[i - Len(head)]
    BY <1>3, <1>4, ConcatProperties
  <2> QED BY <1>1, <1>3, <1>4, <2>1
<1>6. StateTopic(kind, name) = head \o last
  BY DEF StateTopic, head, first, last
<1>7. (head \o last)[3] = kind
  BY <1>1, <1>2, <1>4, <1>5
<1>8. \A k \in 1..n : (head \o last)[k + 4] = name[k]
  BY <1>1, <1>4, <1>5
<1>9. (head \o last)[n + 6] = "state"
  BY <1>1, <1>3, <1>5
<1> QED BY <1>1, <1>5, <1>6, <1>7, <1>8, <1>9

\* Devices with different names have different default state topics, and no input
\* shares one with a relay: what TopicsDistinct of DeviceController asks of the topics
\* holds of every configuration that gives none and no name twice (config.cpp:46, 67).
THEOREM DefaultTopicsDistinct ==
  ASSUME NEW Token, {"modbus", "/", "state", "input", "relay"} \subseteq Token,
         NEW a \in Seq(Token), NEW b \in Seq(Token)
  PROVE  /\ StateTopic("input", a) # StateTopic("relay", b)
         /\ \A kind \in {"input", "relay"} :
              StateTopic(kind, a) = StateTopic(kind, b) => a = b
<1>1. StateTopic("input", a) # StateTopic("relay", b)
  <2>1. StateTopic("input", a)[3] = "input"
    BY StateTopicTokens
  <2>2. StateTopic("relay", b)[3] = "relay"
    BY StateTopicTokens
  <2> QED BY <2>1, <2>2
<1>2. ASSUME NEW kind \in {"input", "relay"}, StateTopic(kind, a) = StateTopic(kind, b)
      PROVE  a = b
  <2> DEFINE t == StateTopic(kind, a)
  <2>0. kind \in Token /\ {"modbus", "/", "state"} \subseteq Token
    OBVIOUS
  <2>1. Len(a) \in Nat /\ Len(t) = Len(a) + 6 /\ \A k \in 1..Len(a) : t[k + 4] = a[k]
    BY <2>0, StateTopicTokens
  <2>2. Len(b) \in Nat /\ Len(t) = Len(b) + 6 /\ \A k \in 1..Len(b) : t[k + 4] = b[k]
    <3>1. LET u == StateTopic(kind, b)
          IN  Len(b) \in Nat /\ Len(u) = Len(b) + 6 /\ \A k \in 1..Len(b) : u[k + 4] = b[k]
      BY <2>0, StateTopicTokens
    <3> QED BY <1>2, <3>1
  <2> HIDE DEF t
  <2>3. Len(a) = Len(b)
    BY <2>1, <2>2
  <2>4. \A k \in 1..Len(a) : a[k] = b[k]
    BY <2>1, <2>2, <2>3
  <2> QED BY <2>3, <2>4, SeqEqual
<1> QED BY <1>1, <1>2

\* The level of a command topic is the name it was made of.
LEMMA LevelOfCommandTopic ==
  ASSUME NEW Token, Words \subseteq Token, NEW name \in Seq(Token)
  PROVE  LevelOf(CommandTopic(name)) = name
<1> DEFINE t == CommandTopic(name)
           n == Len(name)
<1>1. n \in Nat /\ t \in Seq(Token) /\ Len(t) = n + 6 /\ \A k \in 1..n : t[k + 4] = name[k]
  BY CommandTopicTokens
<1> HIDE DEF t
<1>2. LevelOf(t) = SubSeq(t, 5, n + 4)
  BY <1>1 DEF LevelOf, Prefix, Suffix
<1>3. /\ SubSeq(t, 5, n + 4) \in Seq(Token)
      /\ Len(SubSeq(t, 5, n + 4)) = n
      /\ \A i \in 1..n : SubSeq(t, 5, n + 4)[i] = t[i + 4]
  BY <1>1, ElementOfSeq, SubSeqProperties
<1>4. SubSeq(t, 5, n + 4) = name
  BY <1>1, <1>3, SeqEqual
<1> QED BY <1>2, <1>4 DEF t

\* A default state topic is not one the subscription lets through.
LEMMA StateTopicNotSubscribed ==
  ASSUME NEW Token, Words \cup {"state"} \subseteq Token, NEW kind \in Token,
         NEW name \in Seq(Token)
  PROVE  ~MatchesSubscription(StateTopic(kind, name))
<1> DEFINE t == StateTopic(kind, name)
           level == LevelOf(t)
<1> SUFFICES ASSUME t = CommandTopic(level) PROVE FALSE
  BY DEF MatchesSubscription
<1>1. t \in Seq(Token) /\ Len(t) \in Nat /\ Len(t) >= 6 /\ t[Len(t)] = "state"
  <2>1. {"modbus", "/", "state"} \subseteq Token
    BY DEF Words
  <2>2. /\ Len(name) \in Nat /\ t \in Seq(Token) /\ Len(t) = Len(name) + 6
        /\ t[Len(name) + 6] = "state"
    BY <2>1, StateTopicTokens
  <2> HIDE DEF t
  <2> QED BY <2>2
<1> HIDE DEF t
<1>2. level \in Seq(Token)
  <2>1. Len(Prefix) = 4 /\ Len(Suffix) = 2
    BY DEF Prefix, Suffix
  <2>2. \A i \in 5..Len(t) - 2 : t[i] \in Token
    BY <1>1, ElementOfSeq
  <2>3. SubSeq(t, 5, Len(t) - 2) \in Seq(Token)
    BY <1>1, <2>2, SubSeqProperties
  <2> QED BY <2>1, <2>3 DEF LevelOf
<1> HIDE DEF level
<1>3. Len(level) \in Nat /\ Len(t) = Len(level) + 6 /\ t[Len(level) + 6] = "set"
  BY <1>2, CommandTopicTokens
<1> QED BY <1>1, <1>3

\* The default topics of devices of any name fit the subscription and the parser.
LEMMA DefaultsFit == TopicOK => DefaultTopicsFit
<1> SUFFICES ASSUME TopicOK, IsLevel(topic), ~StartsWithSet(topic)
             PROVE  LET config == Load(Document(topic, <<>>))
                        relay  == config.relays[1]
                    IN  /\ MatchesSubscription(relay.mqtt_command_topic)
                        /\ RelayNameOf(relay.mqtt_command_topic) = relay.name
                        /\ ~MatchesSubscription(relay.mqtt_state_topic)
                        /\ ~MatchesSubscription(config.inputs[1].mqtt_topic)
  BY DEF DefaultTopicsFit
<1> DEFINE Token == Tokens \cup {"state", "input"}
           device == [key \in {"slave_id", "address", "name"} |->
                        IF key = "name" THEN topic ELSE <<key>>]
<1>1. /\ topic \in Seq(Token) /\ Words \cup {"state"} \subseteq Token
      /\ Words \subseteq Token /\ "relay" \in Token /\ "input" \in Token
  BY SeqMonotonic DEF TopicOK, Words, Tokens
<1>2. /\ Document(topic, <<>>).digital_inputs = <<device>>
      /\ Document(topic, <<>>).relays = <<device>>
  BY DEF Document
<1>3. /\ Load(Document(topic, <<>>)).relays[1] = RelayFromJson(device)
      /\ Load(Document(topic, <<>>)).inputs[1] = InputFromJson(device)
  BY <1>2 DEF Load
<1>4. /\ RelayFromJson(device).name = topic
      /\ RelayFromJson(device).mqtt_command_topic = CommandTopic(topic)
      /\ RelayFromJson(device).mqtt_state_topic = StateTopic("relay", topic)
      /\ InputFromJson(device).mqtt_topic = StateTopic("input", topic)
  BY DEF RelayFromJson, InputFromJson, Value
<1> HIDE DEF Token, device
<1>5. MatchesSubscription(CommandTopic(topic)) /\ RelayNameOf(CommandTopic(topic)) = topic
  BY <1>1, LevelOfCommandTopic, LevelsParsedForAll DEF MatchesSubscription
<1>6. /\ ~MatchesSubscription(StateTopic("relay", topic))
      /\ ~MatchesSubscription(StateTopic("input", topic))
  BY <1>1, StateTopicNotSubscribed
<1> QED BY <1>3, <1>4, <1>5, <1>6

\* A relay of any name hears a command topic exactly if it is the default one of its name.
LEMMA HeardOnlyByDefault ==
  ASSUME TopicOK, NEW relay, NEW name \in Seq(Tokens), relay.name = name,
         IsLevel(name), ~StartsWithSet(name)
  PROVE  Hears(relay, topic) <=> topic = CommandTopic(name)
<1>1. Words \subseteq Tokens
  BY DEF Words, Tokens
<1>2. ASSUME Hears(relay, topic) PROVE topic = CommandTopic(name)
  <2>1. MatchesSubscription(topic) /\ RelayNameOf(topic) = name
    BY <1>2 DEF Hears
  <2>2. RelayNameOf(topic) = Level
    BY <2>1, ParserSound DEF NeverMisrouted, MatchesFilter
  <2> QED BY <2>1, <2>2 DEF MatchesSubscription, Level
<1>3. ASSUME topic = CommandTopic(name) PROVE Hears(relay, topic)
  <2>1. MatchesSubscription(topic)
    BY <1>1, <1>3, LevelOfCommandTopic DEF MatchesSubscription
  <2>2. IsCommandTopic(topic) /\ RelayNameOf(topic) = name
    BY <1>1, <1>3, LevelsParsedForAll
  <2> QED BY <2>1, <2>2 DEF Hears
<1> QED BY <1>2, <1>3

\* Whatever command topic is configured for a relay.
LEMMA ConfiguredFit == TopicOK => ConfiguredTopicsFit
<1> SUFFICES ASSUME TopicOK, NEW name \in {<<"lamp">>, Level},
                    IsLevel(name), ~StartsWithSet(name)
             PROVE  LET given == [key \in {"mqtt_command_topic"} |-> topic]
                        relay == Load(Document(name, given)).relays[1]
                    IN  Hears(relay, relay.mqtt_command_topic)
                          <=> relay.mqtt_command_topic = CommandTopic(name)
  BY DEF ConfiguredTopicsFit
<1> DEFINE given == [key \in {"mqtt_command_topic"} |-> topic]
           relay == Load(Document(name, given)).relays[1]
           device == Document(name, given).relays[1]
<1>1. /\ "name" \in DOMAIN device /\ device.name = name
      /\ "mqtt_command_topic" \in DOMAIN device /\ device.mqtt_command_topic = topic
  BY DEF Document
<1>2. relay = RelayFromJson(device)
  BY DEF Load, Document
<1> HIDE DEF device, relay
<1>3. relay.name = name /\ relay.mqtt_command_topic = topic
  BY <1>1, <1>2 DEF RelayFromJson, Value
<1>4. name \in Seq(Tokens)
  <2>1. <<"lamp">> \in Seq(Tokens)
    BY DEF Tokens
  <2>2. Level \in Seq(Tokens)
    BY LevelType DEF Level, TopicOK
  <2> QED BY <2>1, <2>2
<1>5. Hears(relay, topic) <=> topic = CommandTopic(name)
  BY <1>3, <1>4, HeardOnlyByDefault
<1> QED BY <1>3, <1>5 DEF relay

\* In every state of the run: names of any length, and any configured command topic.
THEOREM CommandTopicsAlwaysFit == Spec => []CommandTopicsFit
<1>1. TopicOK => CommandTopicsFit
  BY DefaultsFit, ConfiguredFit DEF CommandTopicsFit
<1> QED BY <1>1, TopicType, PTL

============================================================================
