-------------------------- MODULE DeviceController --------------------------
(***************************************************************************)
(* The gateway's core, src/src/device_controller.cpp, under the loop of    *)
(* Application::run (src/src/application.cpp) that drives it.              *)
(*                                                                         *)
(* Two threads of the program meet here.  The main thread polls the        *)
(* digital inputs slave by slave and publishes what it reads, then takes   *)
(* relay commands from the queue, writes the coils and publishes the       *)
(* resulting relay states.  The MQTT client's callback thread appends to   *)
(* the queue.  The program counter pc is the main thread's; a step of it   *)
(* is one iteration of a loop of the code, or one blocking call.           *)
(*                                                                         *)
(* Around the program: the input lines and the coils, the broker's         *)
(* retained messages, the messages the MQTT client still has in flight,    *)
(* seconds that pass, and a process that can die and be started again at   *)
(* any point.                                                              *)
(***************************************************************************)
EXTENDS Integers, Sequences, TopicParser, RelayCoils

CONSTANTS
  NumInputs,            \* number of digital inputs in the configuration
  SlaveOf,              \* the Modbus slave of each input
  AddressOf,            \* its discrete input address there
  InputTopic,           \* its mqtt_topic
  RelayTopic,           \* the mqtt_state_topic of each relay
  Limits,               \* values of polling.max_commands_per_cycle, an int
  RefreshInterval,      \* polling.refresh_interval_sec
  Topics,               \* topics of the messages the broker may deliver
  Payloads,             \* and their payloads
  MaxQueue,             \* bound of the model: commands waiting in the queue
  MaxInflight           \* bound of the model: publishes awaiting their ack

Inputs      == 1..NumInputs
SlaveIds    == {SlaveOf[i] : i \in Inputs}
Line(i)     == <<SlaveOf[i], AddressOf[i]>>
Lines       == {Line(i) : i \in Inputs}
StateTopics == {InputTopic[i] : i \in Inputs} \cup {RelayTopic[r] : r \in Relays}

\* The relay names the callback can find in a topic, configured or not.
Names   == Relays \cup {RelayNameOf(t) : t \in {u \in Topics : IsCommandTopic(u)}}
Command == [relay_name : Names, desired_state : BOOLEAN]

Message == [topic : StateTopics, payload : {"ON", "OFF"}]

ASSUME ConstantTypes ==
  /\ NumInputs \in Nat
  /\ SlaveOf \in [Inputs -> Int]
  /\ AddressOf \in [Inputs -> Int]
  /\ Limits \subseteq Int
  /\ RefreshInterval \in Nat
  /\ MaxQueue \in Nat
  /\ MaxInflight \in Nat

\* The configuration gives every device a state topic of its own.  Nothing in
\* config.cpp enforces it; without it two devices overwrite each other's state
\* at the broker and nothing can be said of what the broker shows.
ASSUME TopicsDistinct ==
  /\ \A i, j \in Inputs : InputTopic[i] = InputTopic[j] => i = j
  /\ \A r, s \in Relays : RelayTopic[r] = RelayTopic[s] => r = s
  /\ \A i \in Inputs, r \in Relays : InputTopic[i] # RelayTopic[r]

VARIABLES
  \* the main thread
  pc,             \* where it is: loop, poll, publish, execute or stopped
  todo,           \* slaves still to poll in this cycle
  pending,        \* inputs of the slave just read, still to publish
  input_bits,     \* the eight bits of the last successful read
  batch,          \* commands taken from the queue, still to execute
  announcing,     \* the relay just written, whose state is to be published
  \* the controller's state
  last_state,     \* per input: the state last read
  age,            \* per input: seconds since last_publish
  max_commands_per_cycle,
  current_state,  \* per relay: the state last written
  queue,          \* relay_command_queue_, shared with the callback thread
  running,        \* g_running && !g_force_exit
  \* the world
  line,           \* level of the input lines
  coil,           \* state of the coils
  retained,       \* the broker's retained message on each state topic
  inflight,       \* publishes that timed out and may still be delivered
  calm,           \* from now on nothing fails, no line moves, nothing restarts
  \* history
  unacked,        \* topics whose last publish by this process was not acked
  unconfirmed     \* relays whose last write was not confirmed, or never made, or whose
                  \* coil may have been moved since by a write for another relay

main    == <<pc, todo, pending, input_bits, batch, announcing>>
inputs  == <<last_state, age>>
broker  == <<retained, inflight, unacked>>
relays  == <<coil, current_state, unconfirmed>>
world   == <<line, calm, max_commands_per_cycle>>
vars    == <<main, inputs, broker, relays, world, queue, running>>

----------------------------------------------------------------------------
(* Publishing.                                                             *)

\* const char* payload = state ? "ON" : "OFF"
Payload(state) == IF state THEN "ON" ELSE "OFF"

\* MqttManager::publish as its callers see it, with QoS 1: the broker's ack
\* arrives in time; or the wait times out, and the message stays with the
\* client and may reach the broker later; or the client refuses it.  An ack
\* comes only after everything sent before was delivered or lost.  Neither
\* caller looks at the result.
PublishAcked(topic, payload) ==
  /\ inflight = <<>>
  /\ retained' = [retained EXCEPT ![topic] = payload]
  /\ unacked' = unacked \ {topic}
  /\ UNCHANGED inflight

PublishTimedOut(topic, payload) ==
  /\ ~calm
  /\ Len(inflight) < MaxInflight
  /\ inflight' = Append(inflight, [topic |-> topic, payload |-> payload])
  /\ unacked' = unacked \cup {topic}
  /\ UNCHANGED retained

PublishRefused(topic) ==
  /\ ~calm
  /\ unacked' = unacked \cup {topic}
  /\ UNCHANGED <<retained, inflight>>

Publish(topic, payload) ==
  \/ PublishAcked(topic, payload)
  \/ PublishTimedOut(topic, payload)
  \/ PublishRefused(topic)

----------------------------------------------------------------------------
(* The main thread: Application::run and the controller's methods.         *)

\* The least element comes first: std::map iterates over the slaves in
\* ascending order, and the inputs of a slave stand in configuration order.
IsFirst(x, S) == x \in S /\ \A y \in S : x <= y

Group(s) == {i \in Inputs : SlaveOf[i] = s}

StartCycle ==
  /\ pc = "loop"
  /\ running
  /\ pc' = "poll"
  /\ todo' = SlaveIds
  /\ UNCHANGED <<pending, input_bits, batch, announcing, inputs, broker, relays,
                 world, queue, running>>

LeaveLoop ==
  /\ pc = "loop"
  /\ ~running
  /\ pc' = "stopped"
  /\ UNCHANGED <<todo, pending, input_bits, batch, announcing, inputs, broker,
                 relays, world, queue, running>>

\* What a read for the slave id s may bring: the slave's lines; an id that libmodbus
\* refuses brings another slave's, which here are arbitrary.
BitsOf(s) ==
  IF s \in 1..247
    THEN {[a \in 0..7 |-> <<s, a>> \in Lines /\ line[<<s, a>>]]}
    ELSE [0..7 -> BOOLEAN]

\* modbus_.read_discrete_inputs(slave_id, 0, input_bits) returns true.
ReadSlave(s) ==
  /\ pc = "poll"
  /\ IsFirst(s, todo)
  /\ input_bits' \in BitsOf(s)
  /\ pending' = Group(s)
  /\ pc' = "publish"
  /\ UNCHANGED <<todo, batch, announcing, inputs, broker, relays, world, queue,
                 running>>

\* It returns false: the slave's inputs are left as they were.
ReadSlaveFails(s) ==
  /\ pc = "poll"
  /\ ~calm
  /\ IsFirst(s, todo)
  /\ todo' = todo \ {s}
  /\ UNCHANGED <<pc, pending, input_bits, batch, announcing, inputs, broker,
                 relays, world, queue, running>>

\* input_bits[address]: an address outside 0..7 is out of bounds, and the byte
\* found there is arbitrary.
BitsFor(i) == IF AddressOf[i] \in 0..7 THEN {input_bits[AddressOf[i]]} ELSE BOOLEAN

\* Mutated ShouldPublish: the state change is forgotten.
ShouldPublishOnRefresh(i, state) == age[i] >= RefreshInterval

\* Mutated ShouldPublish: the refresh is forgotten.
ShouldPublishOnChange(i, state) == state # last_state[i]

\* publish_input_state without force, which no caller sets.
ShouldPublish(i, state) == state # last_state[i] \/ age[i] >= RefreshInterval

\* Mutated PublishInput: the loop over a slave's inputs is left after the first.
PublishInputAndBreak(i) ==
  /\ pc = "publish"
  /\ IsFirst(i, pending)
  /\ \E state \in BitsFor(i) :
       /\ IF ShouldPublish(i, state)
            THEN /\ Publish(InputTopic[i], Payload(state))
                 /\ age' = [age EXCEPT ![i] = 0]
            ELSE UNCHANGED <<broker, age>>
       /\ last_state' = [last_state EXCEPT ![i] = state]
  /\ pending' = pending \ {i}
  /\ pc' = "poll"
  /\ todo' = todo \ {SlaveOf[i]}
  /\ UNCHANGED <<input_bits, batch, announcing, relays, world, queue, running>>

\* One iteration of the inner loop of poll_inputs.  last_state and last_publish
\* move on whatever became of the publish.
PublishInput(i) ==
  /\ pc = "publish"
  /\ IsFirst(i, pending)
  /\ \E state \in BitsFor(i) :
       /\ IF ShouldPublish(i, state)
            THEN /\ Publish(InputTopic[i], Payload(state))
                 /\ age' = [age EXCEPT ![i] = 0]
            ELSE UNCHANGED <<broker, age>>
       /\ last_state' = [last_state EXCEPT ![i] = state]
  /\ pending' = pending \ {i}
  /\ IF pending = {i}
       THEN pc' = "poll" /\ todo' = todo \ {SlaveOf[i]}
       ELSE UNCHANGED <<pc, todo>>
  /\ UNCHANGED <<input_bits, batch, announcing, relays, world, queue, running>>

\* Mutated BatchSize: the minimum is taken of two ints.
BatchSizeSigned ==
  CASE max_commands_per_cycle < 0          -> 0
    [] max_commands_per_cycle > Len(queue) -> Len(queue)
    [] OTHER                               -> max_commands_per_cycle

\* std::min(queue.size(), static_cast<size_t>(max_commands_per_cycle)): a
\* negative limit becomes a huge one.
BatchSize ==
  IF max_commands_per_cycle \in 0..Len(queue) THEN max_commands_per_cycle ELSE Len(queue)

\* Mutated TakeCommands: the newest commands are taken instead of the oldest.
TakeNewestCommands ==
  /\ pc = "poll"
  /\ todo = {}
  /\ pc' = "execute"
  /\ batch' = SubSeq(queue, Len(queue) - BatchSize + 1, Len(queue))
  /\ queue' = SubSeq(queue, 1, Len(queue) - BatchSize)
  /\ UNCHANGED <<todo, pending, input_bits, announcing, inputs, broker, relays,
                 world, running>>

\* The first part of process_relay_commands, under queue_mutex_.
TakeCommands ==
  /\ pc = "poll"
  /\ todo = {}
  /\ pc' = "execute"
  /\ batch' = SubSeq(queue, 1, BatchSize)
  /\ queue' = SubSeq(queue, BatchSize + 1, Len(queue))
  /\ UNCHANGED <<todo, pending, input_bits, announcing, inputs, broker, relays,
                 world, running>>

\* The loop over the commands taken, one blocking call per action.
NextCommand(cmd) ==
  /\ pc = "execute"
  /\ announcing = {}
  /\ batch # <<>>
  /\ cmd = Head(batch)
  /\ batch' = Tail(batch)

SkipUnknownRelay ==
  \E cmd \in Command :
    /\ NextCommand(cmd)
    /\ cmd.relay_name \notin Relays
    /\ UNCHANGED <<pc, todo, pending, input_bits, announcing, inputs, broker,
                   relays, world, queue, running>>

\* Mutated WriteCoil: current_state is published without having been updated.
WriteCoilKeepingState ==
  \E cmd \in Command :
    /\ NextCommand(cmd)
    /\ cmd.relay_name \in Relays
    /\ \E S \in Confirmed(cmd.relay_name) : coil' = After(coil, S, cmd.desired_state)
    /\ unconfirmed' = (unconfirmed \cup Reached(cmd.relay_name)) \ {cmd.relay_name}
    /\ announcing' = {cmd.relay_name}
    /\ UNCHANGED <<pc, todo, pending, input_bits, inputs, broker, current_state,
                   world, queue, running>>

\* modbus_.write_coil returns true: a slave confirmed the write.
WriteCoil ==
  \E cmd \in Command :
    /\ NextCommand(cmd)
    /\ cmd.relay_name \in Relays
    /\ \E S \in Confirmed(cmd.relay_name) : coil' = After(coil, S, cmd.desired_state)
    /\ current_state' = [current_state EXCEPT ![cmd.relay_name] = cmd.desired_state]
    /\ unconfirmed' = (unconfirmed \cup Reached(cmd.relay_name)) \ {cmd.relay_name}
    /\ announcing' = {cmd.relay_name}
    /\ UNCHANGED <<pc, todo, pending, input_bits, inputs, broker, world, queue,
                   running>>

\* It returns false after its last retry: no attempt was confirmed, yet one of
\* them may have reached a slave.  The command is gone.  A broadcast ends so
\* always, and a write to a refused id may without any fault of the bus.
WriteCoilFails ==
  \E cmd \in Command :
    /\ NextCommand(cmd)
    /\ cmd.relay_name \in Relays
    /\ ~calm \/ ~Unicast(cmd.relay_name)
    /\ \E S \in Attempted(cmd.relay_name) : coil' = After(coil, S, cmd.desired_state)
    /\ unconfirmed' = unconfirmed \cup Reached(cmd.relay_name) \cup {cmd.relay_name}
    /\ UNCHANGED <<pc, todo, pending, input_bits, announcing, current_state,
                   inputs, broker, world, queue, running>>

\* publish_relay_state
PublishRelay(r) ==
  /\ r \in announcing
  /\ Publish(RelayTopic[r], Payload(current_state[r]))
  /\ announcing' = {}
  /\ UNCHANGED <<pc, todo, pending, input_bits, batch, inputs, relays, world,
                 queue, running>>

\* Mutated EndCycle: commands are taken until none is left.
EndCycleWhenEmpty ==
  /\ pc = "execute"
  /\ announcing = {}
  /\ batch = <<>>
  /\ pc' = IF queue = <<>> THEN "loop" ELSE "poll"
  /\ UNCHANGED <<todo, pending, input_bits, batch, announcing, inputs, broker,
                 relays, world, queue, running>>

\* process_relay_commands returns; statistics and the sleep change nothing here.
EndCycle ==
  /\ pc = "execute"
  /\ announcing = {}
  /\ batch = <<>>
  /\ pc' = "loop"
  /\ UNCHANGED <<todo, pending, input_bits, batch, announcing, inputs, broker,
                 relays, world, queue, running>>

MainThread ==
  \/ StartCycle \/ LeaveLoop
  \/ \E s \in SlaveIds : ReadSlave(s) \/ ReadSlaveFails(s)
  \/ \E i \in Inputs : PublishInput(i)
  \/ TakeCommands
  \/ SkipUnknownRelay \/ WriteCoil \/ WriteCoilFails
  \/ \E r \in Relays : PublishRelay(r)
  \/ EndCycle

----------------------------------------------------------------------------
(* The callback thread.                                                    *)

\* handle_mqtt_command.  The code's queue has no limit; MaxQueue is the model's.
HandleMqttCommand(topic, payload) ==
  /\ IsCommandTopic(topic)
  /\ Len(queue) < MaxQueue
  /\ queue' = Append(queue, [relay_name    |-> RelayNameOf(topic),
                             desired_state |-> DesiredState(payload)])
  /\ UNCHANGED <<main, inputs, broker, relays, world, running>>

----------------------------------------------------------------------------
(* The world.                                                              *)

\* A publish whose wait has timed out reaches the broker after all.
Deliver ==
  /\ inflight # <<>>
  /\ retained' = [retained EXCEPT ![Head(inflight).topic] = Head(inflight).payload]
  /\ inflight' = Tail(inflight)
  /\ UNCHANGED <<main, inputs, unacked, relays, world, queue, running>>

\* The connection breaks, and with its clean session go the messages in flight.
LoseInflight ==
  /\ ~calm
  /\ inflight # <<>>
  /\ inflight' = <<>>
  /\ UNCHANGED <<main, inputs, retained, unacked, relays, world, queue, running>>

ToggleLine(l) ==
  /\ ~calm
  /\ line' = [line EXCEPT ![l] = ~line[l]]
  /\ UNCHANGED <<main, inputs, broker, relays, calm, max_commands_per_cycle, queue,
                 running>>

\* A second passes.  Ages are counted up to RefreshInterval: the code compares
\* them with nothing else.
Tick ==
  /\ \E i \in Inputs : age[i] < RefreshInterval
  /\ age' = [i \in Inputs |-> IF age[i] < RefreshInterval THEN age[i] + 1 ELSE age[i]]
  /\ UNCHANGED <<main, last_state, broker, relays, world, queue, running>>

\* A signal or the watchdog (see main.cpp) ends the loop.
Stop ==
  /\ ~calm
  /\ running
  /\ running' = FALSE
  /\ UNCHANGED <<main, inputs, broker, relays, world, queue>>

Settle ==
  /\ ~calm
  /\ calm' = TRUE
  /\ UNCHANGED <<main, inputs, broker, relays, line, max_commands_per_cycle, queue,
                 running>>

\* The bits before the first read, which nothing looks at.
NoBits == [a \in 0..7 |-> FALSE]

\* The process dies, at whatever point it had reached, or has ended; a new one
\* starts from the same configuration and what the constructor of
\* DeviceController sets.  The coils, the lines and the broker stay as they are.
Restart ==
  /\ ~calm
  /\ pc' = "loop" /\ todo' = {} /\ pending' = {} /\ input_bits' = NoBits
  /\ batch' = <<>> /\ announcing' = {} /\ queue' = <<>> /\ running' = TRUE
  /\ last_state' = [i \in Inputs |-> FALSE]
  /\ age' = [i \in Inputs |-> 0]
  /\ current_state' = [r \in Relays |-> FALSE]
  /\ inflight' = <<>>
  /\ unacked' = StateTopics
  /\ unconfirmed' = Relays
  /\ UNCHANGED <<coil, retained, world>>

World ==
  \/ Deliver \/ LoseInflight \/ Tick \/ Stop \/ Settle \/ Restart
  \/ \E l \in Lines : ToggleLine(l)

----------------------------------------------------------------------------

\* The constructor, in a world at rest with nothing retained at the broker.
Init ==
  /\ pc = "loop" /\ todo = {} /\ pending = {} /\ input_bits = NoBits
  /\ batch = <<>> /\ announcing = {} /\ queue = <<>> /\ running = TRUE
  /\ last_state = [i \in Inputs |-> FALSE]
  /\ age = [i \in Inputs |-> 0]
  /\ current_state = [r \in Relays |-> FALSE]
  /\ inflight = <<>>
  /\ unacked = StateTopics
  /\ unconfirmed = Relays
  /\ max_commands_per_cycle \in Limits
  /\ coil \in [Coils -> BOOLEAN]
  /\ retained = [t \in StateTopics |-> "none"]
  /\ line \in [Lines -> BOOLEAN]
  /\ calm = FALSE

Next ==
  \/ MainThread
  \/ \E topic \in Topics, payload \in Payloads : HandleMqttCommand(topic, payload)
  \/ World

\* The main thread runs, time passes, and a connected client delivers what it
\* has in flight.  Nothing is assumed of commands, lines or restarts.
Fairness == WF_vars(MainThread) /\ WF_vars(Tick) /\ WF_vars(Deliver)

Spec == Init /\ [][Next]_vars /\ Fairness

----------------------------------------------------------------------------
(* What is checked.                                                        *)

TypeOfMain ==
  /\ pc \in {"loop", "poll", "publish", "execute", "stopped"}
  /\ todo \in SUBSET SlaveIds
  /\ pending \in SUBSET Inputs
  /\ input_bits \in [0..7 -> BOOLEAN]
  /\ batch \in Seq(Command)
  /\ announcing \in SUBSET Relays

TypeOfState ==
  /\ last_state \in [Inputs -> BOOLEAN]
  /\ age \in [Inputs -> 0..RefreshInterval]
  /\ max_commands_per_cycle \in Limits
  /\ current_state \in [Relays -> BOOLEAN]
  /\ queue \in Seq(Command)
  /\ running \in BOOLEAN

TypeOfWorld ==
  /\ line \in [Lines -> BOOLEAN]
  /\ coil \in [Coils -> BOOLEAN]
  /\ retained \in [StateTopics -> {"ON", "OFF", "none"}]
  /\ inflight \in Seq(Message)
  /\ calm \in BOOLEAN
  /\ unacked \in SUBSET StateTopics
  /\ unconfirmed \in SUBSET Relays

\* Where the main thread is and what it still has to do belong together: inputs
\* wait to be published only between the read of their slave and the next,
\* commands to be executed only until process_relay_commands returns, and at most
\* one relay at a time waits to be published.
ControlOK ==
  /\ pc \notin {"poll", "publish"} => todo = {}
  /\ pc = "publish" <=> pending # {}
  /\ pc = "publish" => \E s \in todo : IsFirst(s, todo) /\ pending \subseteq Group(s)
  /\ pc # "execute" => batch = <<>> /\ announcing = {}
  /\ \A q, r \in announcing : q = r

\* Every variable has its type, and the main thread's fit its program counter.
TypeOK == TypeOfMain /\ TypeOfState /\ TypeOfWorld /\ ControlOK

\* A message still on its way was given up on by the publish that sent it, and
\* no later publish to its topic has been acked.
InflightUnacked == \A k \in 1..Len(inflight) : inflight[k].topic \in unacked

\* Once a publish of an input's state is acked, the broker shows the state the
\* controller last read, until a publish fails: no change of the input passes
\* silently, and no late message overwrites a newer one.
InputViewCurrent ==
  \A i \in Inputs :
    InputTopic[i] \notin unacked => retained[InputTopic[i]] = Payload(last_state[i])

\* The same of a relay, except between its write and the publish that follows.
RelayViewCurrent ==
  \A r \in Relays \ announcing :
    RelayTopic[r] \notin unacked => retained[RelayTopic[r]] = Payload(current_state[r])

\* What the controller believes of a relay with a slave's own id is so, unless its
\* last write failed, it has not been written since the start, or a write for
\* another relay has reached its coil since.
CoilKnown ==
  \A r \in Relays \ unconfirmed : Unicast(r) => coil[CoilOf[r]] = current_state[r]

\* What the broker shows of such a relay is the state of its coil, unless also the
\* last publish for it failed or is not done yet: no order of commands, writes,
\* broadcasts, late messages and restarts makes it show anything else.
RelayViewTruthful ==
  \A r \in Relays \ (unconfirmed \cup announcing) :
    Unicast(r) /\ RelayTopic[r] \notin unacked
      => retained[RelayTopic[r]] = Payload(coil[CoilOf[r]])

\* The commands accepted and not yet performed, whichever thread holds them.
Service == INSTANCE RelayService WITH chan <- batch \o queue

\* The queue, the batch and the loop over it implement the service promised to
\* the senders of commands: in order of arrival, each at most once, and no coil
\* moves without a command.
RelayServiceImplemented == Service!Spec

\* Commands keep being performed: as long as some are waiting and the loop is not
\* told to stop, the next one gets its turn, unless the limit is 0; a negative one
\* is no limit (device_controller.cpp:52).
CommandsServed ==
  \/ []<>(batch \o queue = <<>> \/ ~running \/ max_commands_per_cycle = 0)
  \/ []<><<batch # <<>> /\ batch' = Tail(batch)>>_vars

\* However fast commands arrive, and whatever the limit, the main thread comes back
\* to its loop, where it polls the inputs, feeds the watchdog and sees that it is
\* to stop: a cycle executes only what waited when it took its commands
\* (device_controller.cpp:49-54, application.cpp:57-76).
PollingGoesOn == []<>(pc \in {"loop", "stopped"})

\* A read reaches the input's line.
Readable(i) == SlaveOf[i] \in 1..247 /\ AddressOf[i] \in 0..7

\* The broker shows every input as it is.
InputsShown ==
  \A i \in Inputs : Readable(i) => retained[InputTopic[i]] = Payload(line[Line(i)])

\* When faults cease and the lines come to rest, the broker ends up showing every
\* input as it is, whatever publishes failed before: the refresh repairs them.
InputsReachBroker == calm /\ running ~> []InputsShown

============================================================================
