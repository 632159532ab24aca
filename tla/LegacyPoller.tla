---------------------------- MODULE LegacyPoller ----------------------------
(***************************************************************************)
(* Version 2 of the gateway, src/scripts/modbus_poller.cpp: one file, its  *)
(* own queue and lock.  It differs from its successor in two ways that     *)
(* matter: a publish waits for its acknowledgement without limit, and the  *)
(* queue's mutex is held while its commands are executed and announced.    *)
(*                                                                         *)
(* One thread of the client library calls message_arrived and completes    *)
(* the tokens of acknowledged publishes, one thing at a time.  A lost      *)
(* connection fails a token; the library reconnects, and with a clean      *)
(* session the subscription is gone.  The four counters, which only the    *)
(* main thread touches and only to print them, are left out.               *)
(***************************************************************************)
EXTENDS Integers, Sequences, FiniteSets

CONSTANTS
  Buttons,          \* the buttons: pairs of a slave and an address
  Relays, CoilOf,   \* the relays, by name, and the coil of each
  Names,            \* the relay names in commands, configured or not
  Arriving,         \* the commands that arrive
  RefreshInterval,  \* REFRESH_INTERVAL_SEC
  MaxQueue          \* bound of the model: commands in the queue

\* The tables are part of the program; every slave in them has an id of its own.
ASSUME LegacyConstants ==
  /\ Buttons \subseteq Nat \X (0..7) /\ IsFiniteSet(Buttons)
  /\ \A r \in Relays : CoilOf[r][1] \in 1..247
  /\ Arriving \subseteq [relay_name : Names, desired_state : BOOLEAN]
  /\ RefreshInterval \in Nat
  /\ MaxQueue \in Nat

VARIABLES
  pc,             \* the main thread: modbus, mqtt, loop, read, button, command, announce,
                  \* clear, cleanup, ended
  running,
  todo,           \* the slaves still to be read in this cycle
  bits,           \* the buttons of the slave just read still to be handled, and their bits
  last_state,     \* per button, as last read
  age,            \* seconds since last_publish
  since,          \* seconds since publish_button_state took the time
  relay_command_queue,
  at,             \* the loop's place in the queue
  current_state,  \* per relay
  token,          \* what the main thread waits for: none, sent, acked, done, failed
  callback,       \* the command message_arrived is to queue
  connected, subscribed,
  shown,          \* what the broker shows of each button
  line,           \* the buttons' lines
  coil,           \* the relays' coils
  calm            \* no more faults and changes of lines from here on

main    == <<pc, todo, bits, at>>
buttons == <<last_state, age, since>>
relays  == <<relay_command_queue, current_state, coil>>
mqtt    == <<token, callback, connected, subscribed, shown>>
world   == <<running, line, calm>>
vars    == <<main, buttons, relays, mqtt, world>>

Slaves  == {b[1] : b \in Buttons}
Coils   == {CoilOf[r] : r \in Relays}
Command == [relay_name : Names, desired_state : BOOLEAN]
NoCommand == [relay_name |-> "none"]

\* The main thread holds relay_queue_mutex.
Locked == pc \in {"command", "announce", "clear"}

\* s is the next slave in the order of the map.
IsFirst(s) == s \in todo /\ \A t \in todo : s <= t

----------------------------------------------------------------------------
(* Starting and stopping.                                                  *)

InitModbus ==
  /\ pc = "modbus"
  /\ \/ pc' = "mqtt"
     \/ ~calm /\ pc' = "ended"
  /\ UNCHANGED <<todo, bits, at, buttons, relays, mqtt, world>>

InitMqtt ==
  /\ pc = "mqtt"
  /\ \/ pc' = "loop" /\ connected' = TRUE /\ subscribed' = TRUE
     \/ ~calm /\ pc' = "cleanup" /\ UNCHANGED <<connected, subscribed>>
  /\ UNCHANGED <<todo, bits, at, buttons, relays, token, callback, shown, world>>

\* Mutant: while (true).
StartAnyCycle ==
  /\ pc = "loop"
  /\ pc' = "read"
  /\ todo' = Slaves
  /\ UNCHANGED <<bits, at, buttons, relays, mqtt, world>>

StartCycle ==
  /\ pc = "loop" /\ running
  /\ pc' = "read"
  /\ todo' = Slaves
  /\ UNCHANGED <<bits, at, buttons, relays, mqtt, world>>

LeaveLoop ==
  /\ pc = "loop" /\ ~running
  /\ pc' = "cleanup"
  /\ UNCHANGED <<todo, bits, at, buttons, relays, mqtt, world>>

\* It waits for the client to disconnect.
Cleanup ==
  /\ pc = "cleanup"
  /\ connected => callback = NoCommand
  /\ pc' = "ended"
  /\ connected' = FALSE /\ subscribed' = FALSE
  /\ UNCHANGED <<todo, bits, at, buttons, relays, token, callback, shown, world>>

----------------------------------------------------------------------------
(* The buttons.                                                            *)

ReadSlave(s) ==
  /\ pc = "read" /\ IsFirst(s)
  /\ todo' = todo \ {s}
  /\ \/ /\ bits' = [b \in {b \in Buttons : b[1] = s} |-> line[b]]
        /\ pc' = "button"
     \/ ~calm /\ UNCHANGED <<bits, pc>>   \* no answer to any of MAX_RETRIES attempts
  /\ UNCHANGED <<at, buttons, relays, mqtt, world>>

\* Mutant: published on changes only.
ShouldPublishOnChange(b) == bits[b] # last_state[b]

ShouldPublish(b) == bits[b] # last_state[b] \/ age[b] >= RefreshInterval

\* The button's turn is over: btn->last_state = current_state.
ButtonDone(b) ==
  /\ last_state' = [last_state EXCEPT ![b] = bits[b]]
  /\ bits' = [c \in DOMAIN bits \ {b} |-> bits[c]]
  /\ pc' = IF DOMAIN bits = {b} THEN "read" ELSE "button"

IsTurn(b) ==
  /\ pc = "button"
  /\ b \in DOMAIN bits /\ \A c \in DOMAIN bits : b[2] <= c[2]

\* publish_button_state, up to the wait; publishing without a connection throws.
PublishButton(b) ==
  /\ IsTurn(b) /\ token = "none"
  /\ IF ShouldPublish(b) /\ connected
       THEN token' = "sent" /\ since' = 0 /\ UNCHANGED <<last_state, bits, pc>>
       ELSE ButtonDone(b) /\ UNCHANGED <<token, since>>
  /\ UNCHANGED <<todo, at, age, relays, callback, connected, subscribed, shown, world>>

\* tok->wait() returns, or throws: then last_publish stays.
ButtonPublished(b) ==
  /\ IsTurn(b) /\ token \in {"done", "failed"}
  /\ age' = IF token = "done" THEN [age EXCEPT ![b] = since] ELSE age
  /\ token' = "none"
  /\ since' = 0
  /\ ButtonDone(b)
  /\ UNCHANGED <<todo, at, relays, callback, connected, subscribed, shown, world>>

----------------------------------------------------------------------------
(* The relays.                                                             *)

LockQueue ==
  /\ pc = "read" /\ todo = {}
  /\ at' = 1
  /\ pc' = IF relay_command_queue = <<>> THEN "clear" ELSE "command"
  /\ UNCHANGED <<todo, bits, buttons, relays, mqtt, world>>

\* Mutant: the end of the queue is found one command late.
NextCommandPastEnd ==
  IF at <= Len(relay_command_queue)
    THEN at' = at + 1 /\ pc' = "command"
    ELSE at' = at /\ pc' = "clear"

NextCommand ==
  IF at < Len(relay_command_queue)
    THEN at' = at + 1 /\ pc' = "command"
    ELSE at' = at /\ pc' = "clear"

Current == relay_command_queue[at]

\* Mutant: an unknown relay's command is tried again.
StickAtUnknownRelay ==
  /\ pc = "command" /\ Current.relay_name \notin Relays
  /\ UNCHANGED vars

SkipUnknownRelay ==
  /\ pc = "command" /\ Current.relay_name \notin Relays
  /\ NextCommand
  /\ UNCHANGED <<todo, bits, buttons, relays, mqtt, world>>

WriteCoil ==
  /\ pc = "command" /\ Current.relay_name \in Relays
  /\ coil' = [coil EXCEPT ![CoilOf[Current.relay_name]] = Current.desired_state]
  /\ current_state' = [current_state EXCEPT ![Current.relay_name] = Current.desired_state]
  /\ pc' = "announce"
  /\ UNCHANGED <<todo, bits, at, relay_command_queue, buttons, mqtt, world>>

\* No attempt was confirmed: the coil may have been written all the same.
WriteCoilFails ==
  /\ pc = "command" /\ Current.relay_name \in Relays /\ ~calm
  /\ \/ coil' = [coil EXCEPT ![CoilOf[Current.relay_name]] = Current.desired_state]
     \/ UNCHANGED coil
  /\ NextCommand
  /\ UNCHANGED <<todo, bits, relay_command_queue, current_state, buttons, mqtt, world>>

\* publish_relay_state, up to the wait.
PublishRelay ==
  /\ pc = "announce" /\ token = "none"
  /\ IF connected
       THEN token' = "sent" /\ UNCHANGED <<at, pc>>
       ELSE NextCommand /\ UNCHANGED token
  /\ UNCHANGED <<todo, bits, buttons, relays, callback, connected, subscribed, shown, world>>

RelayPublished ==
  /\ pc = "announce" /\ token \in {"done", "failed"}
  /\ token' = "none"
  /\ NextCommand
  /\ UNCHANGED <<todo, bits, buttons, relays, callback, connected, subscribed, shown, world>>

\* Mutant: the commands stay in the queue.
KeepQueue ==
  /\ pc = "clear"
  /\ pc' = "loop"
  /\ UNCHANGED <<todo, bits, at, relays, buttons, mqtt, world>>

\* relay_command_queue.clear(), and the end of the lock_guard.
ClearQueue ==
  /\ pc = "clear"
  /\ relay_command_queue' = <<>>
  /\ pc' = "loop"
  /\ UNCHANGED <<todo, bits, at, current_state, coil, buttons, mqtt, world>>

MainThread ==
  \/ InitModbus \/ InitMqtt \/ StartCycle \/ LeaveLoop \/ Cleanup
  \/ \E s \in Slaves : ReadSlave(s)
  \/ \E b \in Buttons : PublishButton(b) \/ ButtonPublished(b)
  \/ LockQueue \/ SkipUnknownRelay \/ WriteCoil \/ WriteCoilFails
  \/ PublishRelay \/ RelayPublished \/ ClearQueue

----------------------------------------------------------------------------
(* The client library's thread.                                            *)

\* message_arrived is called with a relay command.
MessageArrived(cmd) ==
  /\ callback = NoCommand
  /\ subscribed /\ pc # "cleanup"
  /\ Len(relay_command_queue) < MaxQueue
  /\ callback' = cmd
  /\ UNCHANGED <<main, buttons, relays, token, connected, subscribed, shown, world>>

\* Mutant: the queue is not locked.
PushUnlocked ==
  /\ callback # NoCommand
  /\ relay_command_queue' = Append(relay_command_queue, callback)
  /\ callback' = NoCommand
  /\ UNCHANGED <<main, buttons, current_state, coil, token, connected, subscribed, shown, world>>

\* It takes relay_queue_mutex, adds the command and returns.
Push ==
  /\ callback # NoCommand
  /\ ~Locked
  /\ relay_command_queue' = Append(relay_command_queue, callback)
  /\ callback' = NoCommand
  /\ UNCHANGED <<main, buttons, current_state, coil, token, connected, subscribed, shown, world>>

CompleteToken ==
  /\ callback = NoCommand
  /\ token = "acked"
  /\ token' = "done"
  /\ UNCHANGED <<main, buttons, relays, callback, connected, subscribed, shown, world>>

Reconnect ==
  /\ callback = NoCommand
  /\ pc \notin {"modbus", "mqtt", "cleanup", "ended"}
  /\ ~connected
  /\ connected' = TRUE
  /\ UNCHANGED <<main, buttons, relays, token, callback, subscribed, shown, world>>

Library == Push \/ CompleteToken \/ Reconnect

----------------------------------------------------------------------------
(* The world.                                                              *)

Payload(state) == IF state THEN "ON" ELSE "OFF"

\* The broker takes what is being published.
Show ==
  IF pc = "button"
    THEN \E b \in Buttons : IsTurn(b) /\ shown' = [shown EXCEPT ![b] = Payload(bits[b])]
    ELSE UNCHANGED shown

Acknowledge ==
  /\ token = "sent"
  /\ token' = "acked"
  /\ Show
  /\ UNCHANGED <<main, buttons, relays, callback, connected, subscribed, world>>

\* The broker may have taken what is on its way, or not.
LoseConnection ==
  /\ connected /\ ~calm
  /\ connected' = FALSE /\ subscribed' = FALSE
  /\ token' = IF token \in {"sent", "acked"} THEN "failed" ELSE token
  /\ UNCHANGED shown \/ (token = "sent" /\ Show)
  /\ UNCHANGED <<main, buttons, relays, callback, world>>

ToggleLine(b) ==
  /\ ~calm
  /\ line' = [line EXCEPT ![b] = ~@]
  /\ UNCHANGED <<main, buttons, relays, mqtt, running, calm>>

Older(n) == IF n < RefreshInterval THEN n + 1 ELSE n

Tick ==
  /\ age' = [b \in Buttons |-> Older(age[b])]
  /\ since' = IF token = "none" THEN 0 ELSE Older(since)
  /\ UNCHANGED <<main, last_state, relays, mqtt, world>>

\* signal_handler.
Stop ==
  /\ running' = FALSE
  /\ UNCHANGED <<main, buttons, relays, mqtt, line, calm>>

Settle ==
  /\ calm' = TRUE
  /\ UNCHANGED <<main, buttons, relays, mqtt, running, line>>

Init ==
  /\ pc = "modbus" /\ running = TRUE
  /\ todo = {} /\ bits = <<>> /\ at = 1
  /\ last_state = [b \in Buttons |-> FALSE]
  /\ age = [b \in Buttons |-> 0] /\ since = 0
  /\ relay_command_queue = <<>>
  /\ current_state = [r \in Relays |-> FALSE]
  /\ token = "none" /\ callback = NoCommand
  /\ connected = FALSE /\ subscribed = FALSE
  /\ shown \in [Buttons -> {"ON", "OFF", "none"}]
  /\ line \in [Buttons -> BOOLEAN]
  /\ coil \in [Coils -> BOOLEAN]
  /\ calm = FALSE

World ==
  \/ \E cmd \in Arriving : MessageArrived(cmd)
  \/ Acknowledge \/ LoseConnection \/ Tick \/ Stop \/ Settle
  \/ \E b \in Buttons : ToggleLine(b)

Next == MainThread \/ Library \/ World

\* Strong for the library: it takes packets in order, and a mutex that is given back again
\* and again, once per cycle and mostly before a sleep, is taken in the end.
Fairness ==
  /\ WF_vars(MainThread) /\ WF_vars(Acknowledge) /\ WF_vars(Tick)
  /\ SF_vars(Push) /\ SF_vars(CompleteToken) /\ SF_vars(Reconnect)

Spec == Init /\ [][Next]_vars /\ Fairness

----------------------------------------------------------------------------
(* What is checked.                                                        *)

\* Every variable has its type; the main thread waits only where it publishes, and its
\* place in the queue stays inside the queue while the queue's mutex is held.
TypeOK ==
  /\ pc \in {"modbus", "mqtt", "loop", "read", "button", "command", "announce",
             "clear", "cleanup", "ended"}
  /\ todo \in SUBSET Slaves
  /\ DOMAIN bits \subseteq Buttons /\ \A b \in DOMAIN bits : bits[b] \in BOOLEAN
  /\ last_state \in [Buttons -> BOOLEAN]
  /\ age \in [Buttons -> 0..RefreshInterval] /\ since \in 0..RefreshInterval
  /\ relay_command_queue \in Seq(Command)
  /\ current_state \in [Relays -> BOOLEAN]
  /\ token \in {"none", "sent", "acked", "done", "failed"}
  /\ callback \in Command \cup {NoCommand}
  /\ shown \in [Buttons -> {"ON", "OFF", "none"}]
  /\ line \in [Buttons -> BOOLEAN] /\ coil \in [Coils -> BOOLEAN]
  /\ {running, connected, subscribed, calm} \subseteq BOOLEAN
  /\ pc = "button" <=> DOMAIN bits # {}
  /\ token # "none" => pc \in {"button", "announce"}
  /\ at \in Nat \ {0}
  /\ pc \in {"command", "announce"} => at <= Len(relay_command_queue)

\* What clear() removes has had its turn: nothing comes in between the end of the loop
\* and the clearing, which the lock around both is there for (modbus_poller.cpp:422-448).
OnlyHandledCleared == pc = "clear" => at >= Len(relay_command_queue)

\* The commands accepted and not yet performed.
Waiting ==
  LET last == Len(relay_command_queue)
  IN  CASE pc = "command"             -> SubSeq(relay_command_queue, at, last)
        [] pc \in {"announce", "clear"} -> SubSeq(relay_command_queue, at + 1, last)
        [] OTHER                      -> relay_command_queue

Service == INSTANCE RelayService WITH chan <- Waiting

\* The loop over the queue repeats no command and keeps their order, and no coil moves for
\* another reason (modbus_poller.cpp:425-445), as the service promises.
CommandsInOrder == Service!Spec

\* The main thread holds the queue's mutex, which the library's thread waits for, and
\* waits for an acknowledgement, which the library's thread would bring.
Stuck == pc = "announce" /\ token \in {"sent", "acked"} /\ callback # NoCommand

\* A publish in flight has a connection to be acknowledged on, and once the program is
\* stuck nothing frees it but the loss of that connection: no thread of it goes on, no
\* signal, no command and no acknowledgement changes anything (modbus_poller.cpp:423).
OnlyLossFrees ==
  [][Stuck => /\ connected
              /\ connected' => Stuck' /\ UNCHANGED <<main, relays, callback>>]_vars

\* The broker shows every button as its line is.
ButtonsShown == \A b \in Buttons : shown[b] = Payload(line[b])

\* A failed publish updates last_state and not last_publish (modbus_poller.cpp:348-361,
\* 416): the refresh still brings the broker to show every line as it is, and it stays so.
ButtonsReachBroker ==
  <>[](calm /\ running /\ ~Stuck /\ pc \notin {"cleanup", "ended"} => ButtonsShown)

\* Commands do not wait for ever, whatever stands before them, unless the program is
\* stopped or stuck (modbus_poller.cpp:422-448).
CommandsPerformed == relay_command_queue # <<>> ~> relay_command_queue = <<>> \/ Stuck \/ ~running

\* A signal ends the program, unless it is stuck (modbus_poller.cpp:74-78, 405).
SignalEnds == ~running ~> pc = "ended" \/ Stuck

\* modbus_poller.cpp:64 calls the queue of relay commands "thread-safe" and :434 says
\* that the confirmed state is published: the announcement of a relay's state ends.
AnnouncementEnds == pc = "announce" ~> pc # "announce"

============================================================================
