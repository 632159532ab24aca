---------------------------- MODULE TopicParser ----------------------------
(***************************************************************************)
(* How DeviceController::handle_mqtt_command (src/src/device_controller.   *)
(* cpp) turns the topic and the payload of an MQTT message into a relay    *)
(* name and a desired state.                                               *)
(*                                                                         *)
(* A topic is a sequence of tokens.  "/" is the level separator, "modbus", *)
(* "relay" and "set" are the words the code searches for, every other      *)
(* token stands for some other text.  A level may consist of several       *)
(* tokens: <<"set", "x">> is a level whose text starts with "set".  The    *)
(* code searches for substrings, and a substring search over these tokens  *)
(* finds exactly what it finds over the characters they stand for, as long *)
(* as no other text contains a "/".                                        *)
(***************************************************************************)
EXTENDS Integers, Sequences

Prefix == <<"modbus", "/", "relay", "/">>
Suffix == <<"/", "set">>

\* w is found in t at position i.
OccursAt(w, t, i) ==
  /\ i + Len(w) - 1 <= Len(t)
  /\ \A k \in 1..Len(w) : t[i + k - 1] = w[k]

\* The positions at which std::string::find could report w.
Occurrences(w, t) == {i \in 1..Len(t) : OccursAt(w, t, i)}

\* topic.find(prefix) == 0 && topic.find(suffix) != std::string::npos
IsCommandTopic(topic) ==
  /\ OccursAt(Prefix, topic, 1)
  /\ Occurrences(Suffix, topic) # {}

\* size_t end = topic.find(suffix): the first occurrence.
SuffixAt(topic) ==
  CHOOSE i \in Occurrences(Suffix, topic) :
    \A j \in Occurrences(Suffix, topic) : i <= j

\* Mutated RelayNameOf: end - start is not taken to be one short of the suffix.
RelayNameOfOffByOne(topic) ==
  SubSeq(topic, Len(Prefix) + 1, SuffixAt(topic))

\* Mutated RelayNameOf: an end before start yields an empty name.
RelayNameOfClamped(topic) ==
  SubSeq(topic, Len(Prefix) + 1, SuffixAt(topic) - 1)

\* topic.substr(start, end - start).  The suffix can be found one token before
\* start, on the "/" that ends the prefix: end - start then wraps around to the
\* largest size_t and substr returns everything up to the end of the topic.
RelayNameOf(topic) ==
  LET start == Len(Prefix) + 1
      end   == SuffixAt(topic)
      last  == IF end < start THEN Len(topic) ELSE end - 1
  IN  SubSeq(topic, start, last)

\* payload == "ON" || payload == "1" || payload == "true"
DesiredState(payload) == payload \in {"ON", "1", "true"}

----------------------------------------------------------------------------
(***************************************************************************)
(* The reference the parser is compared with: the form the comment in the  *)
(* code gives a command topic, "modbus/relay/{name}/set", for a name that  *)
(* is one topic level, possibly empty, which is what the application's     *)
(* subscription modbus/relay/+/set lets through.                           *)
(***************************************************************************)

IsLevel(name) == \A k \in 1..Len(name) : name[k] # "/"

StartsWithSet(name) == name # <<>> /\ name[1] = "set"

CommandTopic(name) == Prefix \o name \o Suffix

\* The level that the subscription's "+" stands for.
LevelOf(topic) == SubSeq(topic, Len(Prefix) + 1, Len(topic) - Len(Suffix))

MatchesSubscription(topic) == topic = CommandTopic(LevelOf(topic)) /\ IsLevel(LevelOf(topic))

============================================================================
