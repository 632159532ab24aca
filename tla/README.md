# A verification development of the Modbus RTU ↔ MQTT gateway

The gateway polls digital inputs over Modbus RTU and publishes them over MQTT, and executes
relay commands that arrive over MQTT by writing Modbus coils. This directory holds TLA+ models
of it, the TLC configurations that check them on small instances, and proofs, checked by TLAPS,
of what holds for every configuration. Paths below are relative to the repository's directory
`src/` unless they start with it; a path such as `device_controller.cpp` means `src/device_controller.cpp` there.

- [Inventory](#inventory): the program's parts, their state, their operations, what is hard
- [Modules](#modules): which module models what, and how it corresponds to the code
- [Runs](#runs): what is checked, the bounds, the fairness
- [Proofs](#proofs): what is proved, from what, along which argument
- [Findings](#findings): where code and its own words disagree
- [Not modelled](#not-modelled) and [Plan](#plan)

## Inventory

Three threads matter. The **main thread** runs `main`, `Application::initialize`, the loop of
`Application::run` and `shutdown`. The **callback thread** belongs to the MQTT client library and
calls `MqttManager::message_arrived`, which calls `DeviceController::handle_mqtt_command`. The
**watchdog thread** is started and detached by `DeviceController::start_watchdog`. A signal runs
`signal_handler` on whichever of the three it interrupts, the other of the two signals may interrupt that handler,
and a second signal starts a fourth thread.

| Component | State | Operations | Talks to |
|---|---|---|---|
| `DeviceController`, inputs (`device_controller.cpp:27-43, 165-194`) | per input `last_state`, `last_publish` | `poll_inputs`, `publish_input_state`, `group_inputs_by_slave` | reads a slave, publishes a state |
| `DeviceController`, relays (`:45-101, 185-188`) | `relay_command_queue_` under `queue_mutex_`; per relay `current_state` | `handle_mqtt_command` (callback thread), `process_relay_commands`, `publish_relay_state` (main thread) | the two threads share the queue; writes a coil, publishes a state |
| Topic parser (`:82-97`) | none | the prefix and suffix search of `handle_mqtt_command` | |
| `DeviceController`, watchdog (`:137-163`) | `last_loop_time_` (atomic) | `start_watchdog`, `update_watchdog` | `g_running`, `g_force_exit`, `raise(SIGTERM)` |
| `DeviceController`, statistics (`:104-135`) | `last_stats_time_` | `print_statistics` | `get_stats` and `reset_stats` of both managers |
| `MqttManager` (`mqtt_manager.cpp`) | the client, the callback, three atomic counters, `mutex_` | `connect`, `disconnect`, `subscribe`, `publish`, `set_message_callback`, `message_arrived`, `connection_lost`, `connected` | the broker, through a client library that reconnects by itself |
| `ModbusManager` (`modbus_manager.cpp`) | the libmodbus context and the slave selected in it, `connected_`, four counters, `mutex_` | `connect`, `disconnect`, `read_with_retry`, `write_with_retry` | the bus |
| `Application` (`application.cpp`) | owns the four objects above | `initialize`, `run`, `shutdown`, destruction in reverse order | |
| `main` and signals (`main.cpp`) | `g_running`, `g_force_exit` (atomic), `signal_count` (a plain `int`) | `main`, `signal_handler` | every thread |
| `Logger` (`logger/logger.cpp`) | one static mutex, levels, switches | `write_log` | every thread, and the signal handler |
| `Config` (`config.cpp`) | the parsed configuration | `load`, `save`, `from_json` per section | a file |
| Legacy poller (`scripts/modbus_poller.cpp`) | version 2 in one file: buttons, relays, `relay_command_queue` under `relay_queue_mutex`, `running` | `init_modbus`, `init_mqtt`, `polling_loop`, `message_arrived`, `signal_handler`, `cleanup` | bus, broker; a stand-alone program |

What is hard in it, and what would make it correct:

- **Lost, late and refused publishes.** `publish` waits for an acknowledgement and gives up, but
  the message stays with the client and may arrive after newer ones; no caller looks at the
  result, and `last_state`/`last_publish` move on regardless. The broker must nevertheless never
  show an acknowledged state that is not the one last read, and must end up right.
- **Two threads and a prefix.** The callback appends while the main thread takes up to
  `max_commands_per_cycle` commands and executes them without the lock. Commands must be executed
  in order, each at most once, and those that cannot be executed must not block others.
- **Unconfirmed writes.** A write reported as failed may have reached the coil.
- **Restarts.** A new process believes all relays off and announces nothing, while coils keep
  their state and the broker its retained messages.
- **Half-open connections.** The status topic is driven by three parties: two explicit publishes,
  the will, and a library that reconnects. "online" must never be left behind.
- **Signals.** The handler locks a mutex, increments a plain `int` in whichever threads are
  interrupted, and is also how the watchdog ends the program. A graceful shutdown must not be cut
  short, a forced one must work, and a hang must be noticed.
- **Destruction under a running thread.** The detached watchdog outlives the controller.
- **Slave ids.** Any number can be configured. 0 is the broadcast, which all slaves obey and none answers; an id that
  libmodbus refuses leaves another slave selected, and a relay's write then moves another relay's coil.
- **Retries.** A request whose answer is lost is sent again: the slave may have acted once, twice or not at all,
  and the caller learns one boolean. The slave is selected in libmodbus's context before each attempt, and the
  result of that is ignored.
- **Counters.** They are read once a minute and then set to zero, while the callback thread counts on.
- **A lock across blocking calls.** The legacy poller holds its queue's mutex over writes and publishes, and
  waits for acknowledgements without limit.
- **Indices and lengths.** `input_bits[address]` and `end - start` are unchecked.

`PROJECT.json` lists each hazard at its line with the properties that address it.

## Modules

| Module | Models | Lines |
|---|---|---|
| `TopicParser` | pure operators: the prefix test, the name extraction with its wrap-around, the payload, the subscription's filter | `device_controller.cpp:82-97`; `application.cpp:33` |
| `Config` | pure operators: a configuration from a document, with defaults, and back | `config.cpp`; `config.hpp` |
| `ModbusPort` | abstract: what a caller of `IModbusManager` may rely on | `i_modbus_manager.hpp` |
| `ModbusManager` | connecting, the retry loops, slave selection, counters, over the bus | `modbus_manager.cpp` |
| `Statistics` | `ModbusManager` with all counters and `print_statistics` | `device_controller.cpp:104-135`; `mqtt_manager.cpp:118-167` |
| `DeviceController` | inputs, commands, publishes, restarts | `device_controller.cpp` except statistics and watchdog; `application.cpp:51-82`; `mqtt_manager.cpp:110-135` |
| `RelayCoils` | pure operators: the coils behind the relays, and those a write for a slave's own id, the broadcast id or a refused one may move | `modbus_manager.cpp:136-157`; `config.hpp:44-52` |
| `RelayService` | abstract: what a sender of relay commands is promised | |
| `MqttSession` | connecting, the status topic, subscribing, reconnecting, disconnecting | `mqtt_manager.cpp:6-108, 150-157`; `application.cpp:11-49, 84-96` |
| `Lifecycle` | `main`, signals, the watchdog, the logger's mutex, the end of the process | `main.cpp`; `device_controller.cpp:137-163`; `application.cpp`; `logger.cpp:118-153` |
| `LegacyPoller` | version 2 of the gateway | `scripts/modbus_poller.cpp` |
| `MCTopicParser`, `MCRelays`, `MCInputs`, `MCStatistics`, `MCLegacyPoller` | instances for TLC; `MCTopicParser` also checks `Config` | |
| `TopicParserProofs`, `ConfigProofs`, `DeviceControllerProofs`, `StatisticsProofs`, `MqttSessionProofs`, `LifecycleProofs`, `LegacyPollerProofs` | theorems | |

### TopicParser

A topic is a sequence of tokens: the separator, the words the code searches for (`modbus`, `relay`, `set`), and any
other text. A level may consist of several tokens, so that one that begins with `set` can be told from the others:
`topic.find("/set")` can find its suffix at such a level. `RelayNameOf` follows the code: first occurrence, unsigned
subtraction, `substr` to the end of the string when the length has wrapped.

### Config

A JSON object is a function on its keys. `Load` is `Config::load` with the four `from_json`; `Save` is the document
`Config::save` builds. Texts that are taken apart, names, topics and the parity, are sequences of tokens; every
other value is itself. `Loadable` says which keys a document must have on pain of an exception. The parity is the text's
first byte, of a character of several bytes half a character: with that `dump` throws and `save` fails (`Saveable`).

### ModbusManager, ModbusPort and Statistics

A call is `Call`, then per attempt `Attempt` (selecting the slave and sending) and `Answered` or `AttemptFails`, then
possibly `GiveUp`. Between `Attempt` and its end any of the addressed slaves may act (`SlavesAct`), more than once,
and a response may be on its way: it arrives in time or counts as lost. `selected` is the slave id in libmodbus's
context, which `modbus_set_slave` leaves as it was if it refuses the new one. Slave 0 is the broadcast address: all
slaves obey and none answers. `mutex_` is held from `Call` to the return, and only the main thread calls, so it needs
no variable. `max_retries` is one of `Retries`; with zero or less a call makes no attempt and fails.

`ModbusPort` is the abstract view: a call returns true only with a response, and what may have acted is what the
id addresses, or, for an id that libmodbus refuses, anything. `DeviceController` uses the same: a write is
confirmed and made, or unconfirmed and perhaps made, and `RelayCoils` says on which coils.

`Statistics` extends `ModbusManager` with the publishes, the messages and the four steps of `print_statistics`:
the two `get_stats` and the two `reset_stats`. `happened`, `reported` and `missed` are history variables. The counters
are `int`s of the code and unbounded here: at a reset per minute they do not overflow.

### LegacyPoller

`pc` is the main thread's place; `at` is the loop's place in the queue, which stays as long as the lock is held.
A publish is two steps, `PublishButton` and `ButtonPublished` for instance, and between them `token` says what has become
of it: sent, acknowledged by the broker, completed by the library's thread, or failed with the connection.
`callback` is the command `message_arrived` holds while it waits for the mutex; the library's thread does nothing
else meanwhile. `Waiting`, the commands from the one whose turn it is, implements the channel of `RelayService`, the
abstract view of its successor too. Taken for granted: the library has one thread for callbacks and tokens, and a lost
connection fails the tokens that wait.

### DeviceController and RelayService

The variable `pc` is the main thread's place in the loop. One action is one iteration of a loop of the code or one
blocking call: `ReadSlave`, `PublishInput`, `TakeCommands` (the locked part of `process_relay_commands`),
`SkipUnknownRelay`, `WriteCoil`, `PublishRelay`, ... The callback's `HandleMqttCommand` can run between any two of
them. `batch` is the local vector of commands taken, by `BatchSize`, in which a negative `max_commands_per_cycle`
becomes a huge `size_t` and so no limit; it is one of `Limits` and does not change. `age` is the time since
`last_publish`, in seconds, counted no further than the refresh interval, which is all the code compares it with.

A publish (`Publish`) has the three outcomes of `MqttManager::publish`: acknowledged, timed out with
the message still in `inflight`, or refused. Timed-out messages are delivered later in order
(`Deliver`) or lost with the connection (`LoseInflight`); an acknowledgement comes only when
nothing older is in flight. This is QoS 1 (the configuration's default); with QoS 0 the library
reports success without an acknowledgement and the properties about the broker do not apply.

The line and coil levels, the retained messages and the process's restarts are the world.
A confirmed write for a slave's own id moves its coil. A broadcast may move every coil at its address and is
never confirmed. A write for a refused id may move any coil at its address, confirmed or not, or one that no
relay stands for. A read for a refused id brings arbitrary bits (`BitsOf`).
A Modbus answer is taken to belong to the request just made: pairing answers with requests, and
detecting damaged frames, is libmodbus's work and outside `src/`.
`calm` marks the point from which faults no longer occur: liveness is stated from there.
`unacked` and `unconfirmed` are history variables: the topics whose last publish, and the relays
whose last write, is not known to have succeeded. `unconfirmed` also holds relays whose coil a write for another relay may
have moved since: the controller does not know of that.

`RelayService` is the abstract view: one channel of accepted commands, performed one at a time;
applied, unconfirmed or dropped. `DeviceController` implements it with `chan <- batch \o queue`: the
queue, the lock, the batch and the limit are invisible to a sender.

Assumed of a configuration, by name: `TopicsDistinct` (no two devices share a state topic).
The program does not check it. Of relays, any ids and addresses are allowed, shared ones too; `RelayViewTruthful`
speaks of those that have a slave's own id (`Unicast`), because no coil stands for the others.

### MqttSession

`app` and `call` are the main thread's place in `Application` and in `MqttManager::disconnect`, which
is called by `shutdown` and again by `~MqttManager`. `client` is the library's belief about the
connection, `link` and `wire` the connection itself with the packets the broker has not processed,
`session` what the broker believes: `stale` is a session whose connection is gone without the broker
having noticed. `outstanding` are publishes without acknowledgement, which a reconnecting library
sends again or drops.

The library and the broker are external. What is taken for granted of them: packets of one
connection arrive in order; a will is published when a session is lost or taken over by the
same client, and is forgotten on DISCONNECT; acknowledgements come back in order; the platform
closes the connections of a dead process before its successor starts. The status is the last message on
`modbus/poller/status`.

### Lifecycle

`pc` and `watchdog` are the places of two of the threads; of the callback thread all that matters here is that it logs
(`CallbackLogs`). A `signal_handler` running on thread `t` is `Outer(t)`, which suspends the thread, or `Nested(t)`,
which suspends `Outer(t)`: `signal()` blocks only the signal being handled, and the program has two. `handler[h]` is
its place. `logging` says who holds `Logger::mutex_`: a thread's own code (`Own(t)`), one of its handlers, or nobody;
a log line is two steps, taking the mutex and giving it back. `signal_count++` is a load and a store, because the
`int` is neither atomic nor protected and up to six handlers may be under way. `hung` is a main loop stuck in a cycle,
for example in a read of the serial port. Time is the number of seconds since `update_watchdog`, up to one more than
the timeout.

Between `pc = "destroy"` and the end, the controller is already destroyed and the watchdog may still wake
up: what it reads then is arbitrary, or the access ends the process (`WatchdogWakesTooLate`).

## Runs

| Run | States | Checks | Shows |
|---|---|---|---|
| `topic_parser` | 23 431 | `LevelsParsed`, `NeverMisrouted`, `SavedConfigReloads`, `CommandTopicsFit` | on every topic of up to five tokens, or of the prefix and up to six more, a command goes to the relay its topic names, or to none; with that topic as a name, a configuration survives saving and its default topics fit; as a configured command topic, it is heard only if it is the default one |
| `statistics` | 1 366 840 | `TypeOK`, `ConfirmedWriteMade`, `MainCountsExact`, `OnlyMissedInBetween`, `PortImplemented`, `CallsReturn` | Modbus calls with retries, publishes, messages and the printing of the counters |
| `relays` | 599 076 | `RelayViewTruthful`, `RelayServiceImplemented`, `CommandsServed`, `PollingGoesOn` | commands from callback to coil and back to the broker, a relay with the broadcast id among them |
| `inputs` | 325 440 | `TypeOK`, `InputViewCurrent`, `InputsReachBroker` | inputs from the line to the broker |
| `mqtt_session` | 10 218 | `TypeOK`, `OnlineIsBacked`, `LossIsForGood`, `EndIsNoticed` | the status topic and the subscription |
| `lifecycle` | 258 559 | `TypeOK`, `KilledOnlyWithCause`, `HungEndsByForce`, `SignalsHeard`, `HangNoticed`, `SignalStops`, `ForcedExitEnds` | signals, watchdog, shutdown |
| `legacy_poller` | 193 344 | `TypeOK`, `OnlyHandledCleared`, `CommandsInOrder`, `OnlyLossFrees`, `ButtonsReachBroker`, `CommandsPerformed`, `SignalEnds` | version 2, with what it is stuck in |
| `topic_parser_names`, `lifecycle_alarm`, `lifecycle_first_signal`, `mqtt_reconnect`, `legacy_deadlock` | | one property each, violated | see [Findings](#findings) |

`CHECK_DEADLOCK FALSE` everywhere: the program stops when it is told to, the parser's instance
ends when its topic is complete, and that of the statistics when its calls, publishes, messages and prints are used up.

**The properties, in words.**

- `InputViewCurrent`: unless the last publish for an input failed, the broker shows the state the
  controller last read. `InputsReachBroker`: when faults cease, the broker comes to show every line as it
  is, and stays there; it is the refresh that repairs failed publishes.
- `RelayViewTruthful`: unless the last write or publish for a relay failed or is under way, or a write for another one
  (a broadcast, a refused id, a shared coil) may have moved its coil, the broker shows the state of the coil itself.
  While that lasts the code does nothing about it; the property says that the next confirmed write ends it. It relates
  four pieces of state that different steps change: coil, `current_state`, retained message and messages in flight.
- `RelayServiceImplemented`: refinement of `RelayService`. `CommandsServed`: while commands wait and the
  loop runs, commands keep being performed, unless the limit is 0; a negative one is no limit.
  `PollingGoesOn`: however fast commands arrive, and whatever the limit, the main thread comes back to its loop, where
  it polls, feeds the watchdog and sees that it is to stop.
- `OnlineIsBacked`: while the status is "online" the broker holds the will that takes it back. `EndIsNoticed`:
  a process that ended, however it ended, is known to be offline in the end. `LossIsForGood`: a process
  that is without its connection once it has called `subscribe`, whether the call had an effect or not, never has a
  subscription again.
- `KilledOnlyWithCause`: `_exit(1)` is reached only after two signals or a late cycle. `HangNoticed`: a hung
  loop makes the watchdog raise its signal, unless the loop was already told to stop. `SignalStops`: one
  signal ends a program whose loop does not hang. `ForcedExitEnds`: a handler in its second branch ends
  the process, hung or not. `HungEndsByForce`: a process whose main loop hangs ends only by a handler's second branch and
  with a signal from outside: the watchdog alone does not end it. `SignalsHeard`: a handler returns only when the
  loops' condition is false, even if two overlap and lose an update of `signal_count`.
- `LevelsParsed`, `NeverMisrouted`: a topic's level that does not begin with `set` is the name looked up; any other
  gives that name or one with a separator in it, which is no relay's unless one was configured so: nothing forbids it,
  and `test_edge_cases.cpp:131` has such a name.
- `SavedConfigReloads`: load, save and load again give the same configuration, whichever key the first document leaves
  out, unless the parity is half a character. `CommandTopicsFit`: a relay's default command topic passes the fixed
  subscription and is parsed to the relay; no default state topic passes it, so nothing the program publishes comes
  back as a command. A configured `mqtt_command_topic` that is not the default is never heard for its relay: the
  program reads it and subscribes and parses by the fixed form.
- `ConfirmedWriteMade`: a write that returned true was made by the slave it was for, whatever slave earlier calls and
  refused ids had selected; one for a refused id was made by some slave, and more the code does not ensure.
  `PortImplemented`: refinement of `ModbusPort`. `CallsReturn`: a call ends, however silent the bus.
- `MainCountsExact`: nothing the main thread counts is lost or counted twice, per call and not per attempt.
  `OnlyMissedInBetween`: of the messages, exactly those that arrive between `get_stats` and `reset_stats` are lost.
- `OnlyHandledCleared`: `clear()` removes only commands that have had their turn, which the lock around loop and
  `clear()` is there for. `CommandsInOrder`, refinement of `RelayService`, adds that none is repeated or overtaken (it
  cannot tell a lost command from an unconfirmed write). `ButtonsReachBroker`, `CommandsPerformed` and `SignalEnds`
  except the state `Stuck`, which `legacy_deadlock` shows is reached. `OnlyLossFrees`: from there the main thread,
  the coils and the callback stay as they are until the connection is lost.

**Bounds, and why they are enough.**

- `relays`: a relay with a slave's own id, one with the broadcast id that moves the first one's coil, and one unknown
  name, both payloads; `MaxQueue` 2 and limits of 1, so that a batch leaves commands behind and new ones arrive behind
  those, 0 and -1; one message in flight, so that a
  late publish can meet a newer one. No inputs: inputs and relays share only the broker's in-flight
  messages and the loop, and the theorems cover any mixture. A relay with a refused id needs a third relay to disturb
  and is too large for a run: it is covered by the theorems alone.
- `inputs`: two inputs on one slave, so that one read serves a loop; the second has address 8, outside the
  eight bits, so its value is arbitrary; two messages in flight, so that two old states of one input
  can be late together; a refresh interval of one tick; a limit of 0, which with no commands is any other.
- `topic_parser`: all topics built from the prefix's, the suffix's and other tokens up to the bound; a
  longer topic repeats a suffix or a level already present, and the theorems have any level.
- `mqtt_session`: `MaxBreaks` 3 and `MaxRestarts` 2, so that a connection can break during connecting, running and
  disconnecting, and a process can meet the session of its predecessor's predecessor.
- `lifecycle`: `WatchdogTimeout` 1 second, so that a cycle can be in time or late; `MaxSignals` 2 from outside, which
  with the watchdog's own makes three, so that handlers can overlap or nest and updates of `signal_count` can be lost.
  `SignalsWhileLogging` is `FALSE`: with `TRUE` a signal can stop a thread for good (see [Findings](#findings)), and
  nothing that needs the mutex happens any more. A handler may be interrupted outside its log line. The theorems hold
  for both values.

- `statistics`: two slaves with a coil each, calls for one of them, for the broadcast address and for an id that
  libmodbus refuses, which then go to the slave selected before; two attempts, so that a first one can be made and not
  heard, none, and a negative number of them; two calls, so that one can follow on the other's selection; a publish, a
  message and two prints, so that a print can meet what the one before left.
- `legacy_poller`: one button, one relay and one unknown name, two commands that arrive any number of times, a
  queue of two, so that one can follow another and a third wait for the lock; a refresh interval of one tick.

`MaxQueue`, `MaxInflight`, `MaxBreaks`, `MaxRestarts`, `MaxSignals`, `MaxCalls`, `MaxPublishes`, `MaxMessages`,
`MaxPrints` and the caps on seconds are bounds of the
models: the code has no such limits. At `MaxQueue` the broker just delivers no further command.

**Fairness.**

- `DeviceController`: weak fairness of the main thread (its calls all return: reads and publishes time out),
  of time, and of the delivery of in-flight messages by a connected client. None of commands, lines,
  signals or restarts. `Settle` is not fair: the leads-to starts from `calm`.
- `MqttSession`: weak fairness of the main thread's own steps, of the library, of the broker's steps (which
  include the keep-alive that publishes a will) and of closing a connection that is closed or orphaned. Leaving
  the loop, being killed, breaking and restarting are not fair.
- `Statistics`: weak fairness of a call that has been made, whose waits all end, and of printing. Calls, the bus,
  publishes and messages are not fair.
- `LegacyPoller`: weak fairness of the main thread, of the broker's acknowledgements and of time; strong fairness of the
  library's steps, because connections come and go and the mutex is free and taken in turns: it is given back in
  every cycle, mostly before a sleep, and a thread that waits for it gets it in the end. The main thread's waits are
  actions that are not enabled, so its fairness does not assume that they end.
- `Lifecycle`: strong fairness of each thread together with the handlers on it, and of the thread that calls `_exit`,
  because other threads take and release the logger's mutex in between: a thread that waits for a mutex that keeps being
  released gets it. Of the callback thread this concerns the end of a log line and its handlers only: when it logs is
  not assumed. Weak fairness of time. Signals, hangs and a failing start are not assumed to happen or not to happen.

## Proofs

| Theorem | Statement |
|---|---|
| `DeviceControllerProofs!TypeCorrect` | `Spec => []TypeOK` |
| `DeviceControllerProofs!ZeroLimitServesNothing` | `Spec => [](max_commands_per_cycle = 0 => batch = <<>>)`: the exception in `CommandsServed` is a real one |
| `DeviceControllerProofs!InputViewsCurrent` | `Spec => []InputViewCurrent` |
| `DeviceControllerProofs!RelayViewsTruthful` | `Spec => []RelayViewTruthful` |
| `DeviceControllerProofs!ImplementsRelayService` | `Spec => Service!Spec` |
| `DeviceControllerProofs!InputsStayShown` | `Spec => [](InputsSettled => []InputsShown)` |
| `DeviceControllerProofs!CyclesWearOut` | `Spec => [][CycleWears]_vars`: a cycle has finitely many steps, however fast commands arrive |
| `MqttSessionProofs!TypeCorrect`, `OnlineAlwaysBacked` | `Spec => []TypeOK`, `Spec => []OnlineIsBacked` |
| `MqttSessionProofs!LossIsAlwaysForGood` | `Spec => LossIsForGood` |
| `MqttSessionProofs!EndAlwaysSettles` | `Spec => [][EndSettles]_vars`: what is left of an ended process becomes less until it is known to be offline |
| `LifecycleProofs!TypeCorrect`, `NeverKilledWithoutCause` | `Spec => []TypeOK`, `Spec => []KilledOnlyWithCause` |
| `LifecycleProofs!HungOnlyEndsByForce`, `SignalsAlwaysHeard` | `Spec => []HungEndsByForce`, `Spec => []SignalsHeard` |
| `LifecycleProofs!BlockedForGood`, `NothingHelpsTheBlocked` | a handler that interrupts its thread, or another handler, inside the logger waits for ever, and the program with it |
| `LifecycleProofs!NobodyWaitsForItself` | `Spec => [](\A t \in Threads : ~Blocked(t))`, if no signal interrupts what is inside the logger |
| `LifecycleProofs!StopsWearOut`, `HangWearsOut` | `Spec => [][StopWears]_vars`, `Spec => [][HangWears]_vars` |
| `LifecycleProofs!ForceStands` | `Spec => [](Forced => []Forced)` |
| `TopicParserProofs!LevelsParsedForAll`, `SetLevelsMangled` | what `RelayNameOf` returns for the topic of any level |
| `ConfigProofs!LevelsAlwaysParsed`, `NeverMisroutedAlways` | `Spec => []LevelsParsed`, `Spec => []NeverMisrouted` |
| `ConfigProofs!ReloadsForAll`, `ReloadsAlways` | a loaded configuration is the same after `Save` and `Load`; `Spec => []SavedConfigReloads` |
| `ConfigProofs!CommandTopicsAlwaysFit`, `DefaultTopicsDistinct` | `Spec => []CommandTopicsFit`; different names have different default state topics |
| `StatisticsProofs!TypeCorrect`, `ConfirmedWritesMade` | `Spec => []TypeOK`, `Spec => []ConfirmedWriteMade` |
| `StatisticsProofs!ImplementsPort` | `Spec => Port!Spec` |
| `StatisticsProofs!CallsWearOut` | `Spec => [][...]_vars`: each step of the main thread shortens a call, no other lengthens it |
| `StatisticsProofs!CoilsAlwaysMoveAsAsked` | `Spec => [][CoilsMoveAsAsked]_vars`: a coil moves only under a call that names it |
| `StatisticsProofs!MainCountsAlwaysExact`, `NoOthersMissed` | `Spec => []MainCountsExact`, `Spec => []OnlyMissedInBetween` |
| `LegacyPollerProofs!TypeCorrect`, `OnlyHandledAlwaysCleared` | `Spec => []TypeOK`, `Spec => []OnlyHandledCleared` |
| `LegacyPollerProofs!ImplementsRelayService` | `Spec => CommandsInOrder` |
| `LegacyPollerProofs!OnlyLossEverFrees`, `StuckForGood` | `Spec => OnlyLossFrees`; `Spec => [](Stuck /\ calm => []Stuck)` |
| `LegacyPollerProofs!CyclesWearOut` | `Spec => [][CycleWears]_vars` |
| `LegacyPollerProofs!ButtonsStayShown` | `Spec => [](ButtonsSettled => []ButtonsShown)` |

They hold for any number of inputs, relays, queue places, messages in flight, breaks, restarts, signals, slaves,
attempts and calls, for any slave ids, the broadcast id and refused ones included (`LegacyPoller` has the ids of
slaves that its hard-coded tables have), any limit of commands and of retries, zero and negative ones included, and
for topics and names of any length, from the named assumptions of the modules (`NobodyWaitsForItself` also from
`SignalsWhileLogging` being false): `ConstantTypes` and `TopicsDistinct` of `DeviceController`, `BoundsAreNat` of
`MqttSession`, `ConstantTypes` of `Lifecycle`, `ModbusConstants` of `ModbusManager`, `StatisticsBounds` of
`Statistics`, `LegacyConstants` of `LegacyPoller`. TLC evaluates each of them in a run.

- **DeviceController.** `TypeOK` is inductive because it includes `ControlOK`, which ties the main thread's work to
  its program counter; without it, the head of `todo` need not exist where an action takes it. The views rest on one
  strengthening: `InflightUnacked` (a message still on its way belongs to a topic whose last publish was not
  acknowledged, so its late delivery disturbs only topics the views except), `InputViewCurrent`, `RelayViewCurrent`
  (the broker agrees with `current_state`) and `CoilKnown` (`current_state` agrees with the coil, unless the relay is
  `unconfirmed`): a write can move only coils of relays in `Reached`, and these it makes `unconfirmed`, except the
  relay itself if it was confirmed. `RelayViewTruthful` is the composition of the last two.
- **What stays right.** Of a property "in the end, and from then on" the second half is provable. `InputsSettled` adds to
  `InputsShown` what can undo it: a message in flight, and bits read but not yet published that differ from the lines; with
  neither, and in a calm world, a publish only repeats what the broker shows.
- **What ends.** The main thread's steps of a cycle lower `Rank`, ordered lexicographically: slaves still to be read, then
  inputs still to be published, then commands of the batch with a relay still to be announced. What the callback thread and
  the world do leaves it alone, because a batch does not grow once it is taken: commands that keep arriving cannot keep
  a cycle from ending. `Below` is the order; that it is well-founded is arithmetic on tuples of naturals and taken as known.
- **Refinement.** `TakeCommands` moves a prefix from `queue` to `batch` and leaves `batch \o queue` alone: a
  stutter. The three ways of handling `Head(batch)` are the three of `Perform`, a restart is `Crash`, the
  callback is `Accept`; every other action leaves the abstract variables alone.
- **MqttSession.** `OnlineIsBacked` is not inductive: DISCONNECT makes the broker forget the will. Needed is that
  when it is processed the status is not "online" (`DisconnectSound`), hence that it is the last packet and the
  packets before it leave the status off (`OfflineAt`); hence that this is so already while the process waits for
  its "offline" to be acknowledged, and that if the connection is replaced during the wait, what is sent again ends
  with "offline", or nothing is and taking over the stale session has published the will (`WaitSound`).
  `WireSound` says where CONNECT can be and what the session is then. Lemmas `OfflineKept`, `OfflineShifted` and
  `OfflineAtEnd` say what a step does to a place on the wire.
  `LossIsAlwaysForGood` rests on `Deaf(n)`: in the process after `n` others no SUBSCRIBE is on the wire and the session on
  its connection has none, since what a library sends again are publishes only (`ResentSound`). `EndAlwaysSettles` counts in
  `Traffic` the packets not yet read, the connection and the session of an ended process; each step of the broker and
  the connection lowers it, and at zero `OnlineIsBacked` says that the status is not "online".
- **Lifecycle.** The counter, plus the signals whose handlers have not stored yet (`AllUncounted`, of the handlers on
  all threads, nested ones too), never exceeds the signals (`CountSound`); this bounds what a lost update can do, so
  that the second branch needs two signals (`ForceSound`); and the watchdog's own signal has a late cycle or two
  outside signals behind it, even if it reads the memory of a destroyed controller (`WatchdogSound`). A hang keeps the
  main thread in its cycle (`HangSound`) and the watchdog raises its signal once, because it sees the flag it has set
  (`AlarmSound`); `ForceSound` then leaves at least one signal from outside. The mutex is given back by the place that
  took it, so once that place is interrupted by a handler (`Blocked`; `NestSound`: the lower handler stays as long as
  the upper one is there) nobody else gets it, and no handler is past its log line but before its last statement
  unless it holds the mutex (`LogSound`): none is left to clear `g_running` or to call `_exit`. If no signal
  interrupts what is inside the logger, whoever holds the mutex goes on, and `StopsWearOut` counts the statements a
  handler and the places the main thread have left. `HangWearsOut` needs that the watchdog was started before the loop
  and ends only with it (`WatchSound`).
- **ModbusManager.** `ConfirmedWriteMade` needs to know whose the response is: while an attempt waits, the slave selected
  is the one asked for, unless its id was refused (`AttemptSound`), and a response on its way is from the slave
  selected, which has done what it was asked (`AnswerSound`). The same tells that the slaves that act are among
  those the port allows, which is the refinement's one step that is not immediate; `Attempt` stutters, `AttemptFails`
  is the port's `Lose`. `CallLeft`, two for each attempt left and one to give up, falls with each step of the main
  thread. A coil moves as asked (`CoilsMoveAsAsked`) by the same `AttemptSound`.
- **Statistics.** In the middle of a print what was read is both in `reported` and in the counters, so the sums hold with
  the counters left out once they have been read (`MainSound`, `MessagesSound`), and what the reset of the
  messages discards is what `missed` has counted since.
- **Config.** A section that has every key takes no default (`Complete`); the parity is the one key that changes its form
  on the way, and a text of one character has that character first; half a character is `LeadByte`, and only a wide
  one gives it. A default topic's tokens give its name back,
  and the separator cannot be in a name of one level.
- **LegacyPoller.** `TypeOK` ties `at` to the queue while the lock is held; a command that arrives cannot change the
  queue then, so the end of the loop is still the end at `clear()` (`OnlyHandledCleared`), and clearing is a stutter
  of the service. What waits for an acknowledgement was sent on the connection that stands (`SentConnected`), so in
  `Stuck` no step of either thread is possible and only `LoseConnection` changes what they wait for. `CyclesWearOut`
  has a rank like `DeviceController`'s, with the stages of the publish waited for as its last place; that commands
  which arrive do not raise it is due to the lock, under which the queue does not grow.

The inductive invariants were checked with TLC before they were proved.

**Only model-checked**: everything that rests on fairness, since the prover has no rules for it and for `ENABLED`. Of each
of these properties the part that does not is proved:

| Property | Proved | Left to TLC |
|---|---|---|
| `CallsReturn` | `CallsWearOut`: a call has a bounded number of steps | that the main thread takes them |
| `CommandsServed` | `CyclesWearOut`: a cycle ends in finitely many steps of the main thread | that it takes them, and that the next batch has a command |
| `PollingGoesOn` | `DeviceControllerProofs!CyclesWearOut`, for any limit and arrivals: a cycle ends in finitely many steps | that they are taken |
| `EndIsNoticed` | `EndAlwaysSettles`: finitely many steps of broker and connection, and not "online" after them | that they are taken |
| `InputsReachBroker`, `ButtonsReachBroker` | `InputsStayShown`, `ButtonsStayShown`: once right, right from then on | that it gets right |
| `CommandsPerformed`, `SignalEnds` | `LegacyPollerProofs!CyclesWearOut`: a cycle ends in finitely many steps | that they are taken, and that an acknowledgement waited for comes unless `Stuck` |
| `SignalStops` | `SignalsAlwaysHeard`, `StopsWearOut`, `NobodyWaitsForItself`: the handler, then the main thread, have a bounded number of steps to make, and no mutex they wait for is held by a waiting thread | that they are taken |
| `ForcedExitEnds` | `ForceStands`: nothing takes it back | that the thread started gets to `_exit` |
| `HangNoticed` | `HangWearsOut`: after the timeout the watchdog has at most six steps to make | that time passes and it makes them |

What the parser does
on a topic that the subscription does not let through is neither checked nor proved: it gets none.

## Findings

| Run | Statement | What the code does |
|---|---|---|
| `topic_parser_names` | `device_controller.cpp:83`: "Parse relay command: `modbus/relay/{name}/set`" | for a name that begins with `set` the suffix is found at the prefix's slash, the length wraps and the name is not the relay's: the command is dropped |
| `lifecycle_alarm` | `device_controller.cpp:151`: "Forcing restart..." | the alarm's signal is the first one: it clears `g_running` and nothing else; a main loop that hangs is never ended and the watchdog's own loop stops |
| `lifecycle_first_signal` | `main.cpp:17`: "shutting down gracefully..." | the handler logs; on a thread that is inside `write_log` it waits for the mutex its own thread holds, and all logging threads wait with it |
| `mqtt_reconnect` | `mqtt_manager.cpp:152, 156`: "Auto-reconnect should restore connection...", "MQTT reconnected successfully" | with a clean session the broker has forgotten the subscription and nothing subscribes again: commands no longer arrive. The status too stays at the will's "offline" |
| `legacy_deadlock` | `modbus_poller.cpp:64`: "thread-safe"; `:434`: "Publikuj potwierdzenie stanu" | the mutex is held while the announcement of a relay's state waits for its acknowledgement; a command that arrives meanwhile waits for the mutex on the thread that would complete the token: both wait for ever, and a signal does not end it |

The findings do not depend on the instance that shows them: `LifecycleProofs!HungOnlyEndsByForce` and
`NothingHelpsTheBlocked`, `MqttSessionProofs!LossIsAlwaysForGood` and `LegacyPollerProofs!StuckForGood` say for every
configuration that what the code does there is final; `TopicParserProofs!SetLevelsMangled` says it of every name that
begins with `set`.

The lifecycle model shows two more things that no statement of the repository contradicts: two signals in quick
succession can both find `signal_count` at 2, so that nobody takes the graceful branch; and a lost update can
make a later signal take the first branch although the count had been 2.

## Not modelled

- Answers that come after their attempt has timed out: they stay in the serial buffer, and whether libmodbus takes one for
  the next request's answer depends on its own checks, outside `src/`. Here a late answer is a lost one.
- Messages between subscription and `set_message_callback`: they are counted and dropped, and nothing in the repository says
  otherwise. `message_callback_` is assigned without a lock meanwhile; no model here has that race.
- `Config`: values of the wrong type, which throw, and the reading and writing of the file itself. `save` truncates its
  file first, but nothing in the program calls it.
- The legacy poller's counters, which one thread increments, prints and resets, and its status topic, which is driven as
  in `MqttSession`. Its tables of buttons and relays are constants of the model, and the name in a topic is cut out by
  the code that `TopicParser` models.
- The formatting and levels of `Logger`: wording only; its mutex is in `Lifecycle`.
- The percentages `print_statistics` prints.
- The sleeps' lengths and rates: whether a cycle is slower than the commands arrive, or than the watchdog's
  timeout, is a question of numbers the models do not have; they take both outcomes as possible.
- The tests and mocks: read for what they expect, not part of the program.

## Plan

Order by what carries most of the program's meaning; done first.

1. `TopicParser`, `DeviceController`, `RelayService`: the path of a command and of an input. Done, proved.
2. `Lifecycle`: signals, watchdog, logger mutex. Done; safety proved, and what an alarm and a blocked handler come to.
3. `MqttSession`: the status topic, subscription, reconnection. Done; safety and the lost subscription proved.
4. `ModbusManager` and `ModbusPort`: retries, slave selection, counters. Done; safety and refinement proved.
5. `Statistics`: counters against `get_stats` and `reset_stats`. Done, proved.
6. `LegacyPoller`: the lock held across writes and publishes. Done; safety, refinement and the deadlock proved.
7. `Config`: saving and loading, the default topics. Done, proved.
8. The parts of the liveness properties that need no fairness. Done.
9. Open: the composition of `MqttSession` with the command path of `DeviceController`, as a refinement of a lossy channel;
   the unsynchronised callback with it.
