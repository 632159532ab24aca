----------------------------- MODULE MqttSession ----------------------------
(***************************************************************************)
(* The gateway's session with the broker: src/src/mqtt_manager.cpp and the *)
(* parts of src/src/application.cpp that open and close it.                *)
(*                                                                         *)
(* The process tells the world whether it is there on one topic,           *)
(* modbus/poller/status: it publishes "online" after it has connected and  *)
(* "offline" before it disconnects, and leaves "offline" with the broker   *)
(* as its will.  In between the connection may break, unnoticed by either  *)
(* side for a while, and the client library reconnects by itself.          *)
(*                                                                         *)
(* The library and the broker are modelled from what the code relies on:   *)
(* packets of a connection arrive in order; the broker publishes a will    *)
(* when it loses a session, or when the same client connects again, and    *)
(* forgets it on DISCONNECT; with a clean session a new connection has no  *)
(* subscriptions.                                                          *)
(***************************************************************************)
EXTENDS Naturals, Sequences

CONSTANTS
  MaxBreaks,     \* bounds of the model: broken connections
  MaxRestarts    \* and processes after the first

ASSUME BoundsAreNat == MaxBreaks \in Nat /\ MaxRestarts \in Nat

VARIABLES
  app,          \* the main thread, in Application::initialize, run, shutdown or ~Application
  call,         \* where it is in MqttManager::disconnect
  client,       \* the client library's view of its connection
  outstanding,  \* publishes whose acknowledgement has not arrived, oldest first
  link,         \* whether the client's last connection stands
  wire,         \* packets sent on it that the broker has not processed
  session,      \* the broker's: none, current (on this connection), stale (on a lost one)
  subscribed,   \* whether the session has the subscription
  status,       \* the last message on modbus/poller/status
  breaks, restarts

clientVars == <<client, outstanding>>
brokerVars == <<session, subscribed, status>>
bounds     == <<breaks, restarts>>
vars == <<app, call, clientVars, link, wire, brokerVars, bounds>>

Ended == app = "ended"

\* is_connected of the library; "reconnected" is connected again after a loss.
IsConnected == client \in {"connected", "reconnected"}

IsPublish(packet) == packet \in {"online", "offline"}

\* The connection the broker knows is gone.
LoseSession == session' = IF session = "current" THEN "stale" ELSE session

----------------------------------------------------------------------------
(* The main thread: connecting.                                            *)

\* client_->connect begins a connection, whose first packet announces the will.
Connect ==
  /\ app = "connect"
  /\ client' = "connecting"
  /\ link' = "up"
  /\ wire' = <<"CONNECT">>
  /\ app' = "waiting"
  /\ UNCHANGED <<call, outstanding, brokerVars, bounds>>

\* initialize returns false: the application is destroyed.
InitializeFails ==
  /\ app' = "destroy"
  /\ UNCHANGED <<call, clientVars, link, wire, brokerVars, bounds>>

\* The Modbus connection that precedes it or the call itself may fail.
ConnectFails == app = "connect" /\ InitializeFails

\* The wait of five seconds ends without a connection, which may still come.
ConnectTimesOut == app = "waiting" /\ InitializeFails

ConnectSucceeds ==
  /\ app = "waiting"
  /\ IsConnected
  /\ app' = "announce"
  /\ UNCHANGED <<call, clientVars, link, wire, brokerVars, bounds>>

\* A packet on a connection that has broken unnoticed goes nowhere.
Send(packet) ==
  /\ IsConnected
  /\ wire' = IF link = "up" THEN Append(wire, packet) ELSE wire
  /\ outstanding' = IF IsPublish(packet) THEN Append(outstanding, packet) ELSE outstanding

\* "online" is published and not waited for.
Announce ==
  /\ app = "announce"
  /\ Send("online")
  /\ app' = "subscribe"
  /\ UNCHANGED <<call, client, link, brokerVars, bounds>>

\* publish throws, and connect returns false.
AnnounceFails == app = "announce" /\ ~IsConnected /\ InitializeFails

\* Application::initialize does not look at the result.
Subscribe ==
  /\ app = "subscribe"
  /\ Send("SUBSCRIBE")
  /\ app' = "running"
  /\ UNCHANGED <<call, client, link, brokerVars, bounds>>

SubscribeFails ==
  /\ app = "subscribe"
  /\ ~IsConnected
  /\ app' = "running"
  /\ UNCHANGED <<call, clientVars, link, wire, brokerVars, bounds>>

----------------------------------------------------------------------------
(* The main thread: disconnecting, from shutdown and again from            *)
(* ~MqttManager.                                                           *)

LeaveLoop ==
  /\ app = "running"
  /\ app' = "shutdown"
  /\ UNCHANGED <<call, clientVars, link, wire, brokerVars, bounds>>

Disconnecting == app \in {"shutdown", "destroy"}

\* Mutant: the process ends within the call.
ReturnInside ==
  /\ app' = IF app = "shutdown" THEN "destroy" ELSE "ended"
  /\ UNCHANGED call

\* disconnect returns to its caller.
Return ==
  /\ app' = IF app = "shutdown" THEN "destroy" ELSE "ended"
  /\ call' = "enter"

\* Mutant: leaves it to the will to say so.
SayNothing ==
  /\ Disconnecting /\ call = "enter"
  /\ IsConnected
  /\ call' = "wait"
  /\ UNCHANGED <<app, clientVars, link, wire, brokerVars, bounds>>

\* Mutant: the payload is the one of connect.
SayOnline ==
  /\ Disconnecting /\ call = "enter"
  /\ Send("online")
  /\ call' = "wait"
  /\ UNCHANGED <<app, client, link, brokerVars, bounds>>

SayOffline ==
  /\ Disconnecting /\ call = "enter"
  /\ Send("offline")
  /\ call' = "wait"
  /\ UNCHANGED <<app, client, link, brokerVars, bounds>>

NotConnected ==
  /\ Disconnecting /\ call = "enter"
  /\ ~IsConnected
  /\ Return
  /\ UNCHANGED <<clientVars, link, wire, brokerVars, bounds>>

\* The wait for the publish is over, with or without its acknowledgement.
Disconnect ==
  /\ Disconnecting /\ call = "wait"
  /\ Send("DISCONNECT")
  /\ client' = "closed"
  /\ call' = "close"
  /\ UNCHANGED <<app, link, brokerVars, bounds>>

\* The connection was lost in the meantime: the wait or client_->disconnect throws.
DisconnectFails ==
  /\ Disconnecting /\ call = "wait"
  /\ client # "connected"
  /\ Return
  /\ UNCHANGED <<clientVars, link, wire, brokerVars, bounds>>

DisconnectReturns ==
  /\ Disconnecting /\ call = "close"
  /\ Return
  /\ UNCHANGED <<clientVars, link, wire, brokerVars, bounds>>

\* What the main thread does without anybody's doing.
MainThread ==
  \/ Connect \/ ConnectFails \/ ConnectTimesOut \/ ConnectSucceeds
  \/ Announce \/ AnnounceFails \/ Subscribe \/ SubscribeFails
  \/ SayOffline \/ NotConnected \/ Disconnect \/ DisconnectFails \/ DisconnectReturns

\* The process ends at any point, by _exit, a crash or a power cut.
Kill ==
  /\ ~Ended
  /\ app' = "ended"
  /\ call' = "enter"
  /\ UNCHANGED <<clientVars, link, wire, brokerVars, bounds>>

\* The platform has closed the connections of the last process by then.
Restart ==
  /\ Ended
  /\ link = "down"
  /\ restarts < MaxRestarts
  /\ app' = "connect"
  /\ client' = "idle"
  /\ outstanding' = <<>>
  /\ restarts' = restarts + 1
  /\ UNCHANGED <<call, link, wire, brokerVars, breaks>>

----------------------------------------------------------------------------
(* The client library.                                                     *)

\* connection_lost is called, and the attempts to reconnect begin.
NoticeLoss ==
  /\ ~Ended
  /\ link = "down"
  /\ IsConnected
  /\ client' = "lost"
  /\ UNCHANGED <<app, call, outstanding, link, wire, brokerVars, bounds>>

\* The first connection is not attempted again, a later one is.
NoticeFailure ==
  /\ ~Ended
  /\ link = "down"
  /\ client \in {"connecting", "reconnecting"}
  /\ client' = IF client = "connecting" THEN "closed" ELSE "lost"
  /\ UNCHANGED <<app, call, outstanding, link, wire, brokerVars, bounds>>

\* What was not acknowledged is sent again or dropped; nothing subscribes.
Reconnect ==
  /\ ~Ended
  /\ client = "lost"
  /\ client' = "reconnecting"
  /\ link' = "up"
  /\ \E resent \in {outstanding, <<>>} :
       /\ outstanding' = resent
       /\ wire' = <<"CONNECT">> \o resent
  /\ UNCHANGED <<app, call, brokerVars, bounds>>

\* Acknowledgements arrive in the order of the publishes, or never.
Acknowledged ==
  /\ ~Ended
  /\ IsConnected /\ link = "up"
  /\ outstanding # <<>>
  /\ outstanding' = Tail(outstanding)
  /\ UNCHANGED <<app, call, client, link, wire, brokerVars, bounds>>

Library == NoticeLoss \/ NoticeFailure \/ Reconnect

----------------------------------------------------------------------------
(* The connection and the broker.                                          *)

BreakLink ==
  /\ breaks < MaxBreaks
  /\ link = "up"
  /\ link' = "down"
  /\ wire' = <<>>
  /\ LoseSession
  /\ breaks' = breaks + 1
  /\ UNCHANGED <<app, call, clientVars, subscribed, status, restarts>>

\* The connection of a process that has ended, or of a client that has closed it, goes
\* down, and with it what the broker has not read.
CloseLink ==
  /\ Ended \/ client = "closed"
  /\ link = "up"
  /\ link' = "down"
  /\ wire' = <<>>
  /\ LoseSession
  /\ UNCHANGED <<app, call, clientVars, subscribed, status, bounds>>

\* The broker takes the next packet.
Receive(packet) ==
  /\ link = "up"
  /\ wire # <<>>
  /\ Head(wire) = packet
  /\ wire' = Tail(wire)

\* Mutant: without clean_session, the broker keeps the subscription.
KeepSubscription ==
  /\ Receive("CONNECT")
  /\ session' = "current"
  /\ status' = IF session = "stale" THEN "offline" ELSE status
  /\ client' = CASE client = "connecting" -> "connected"
                 [] client = "reconnecting" -> "reconnected"
                 [] OTHER -> client
  /\ UNCHANGED <<app, call, outstanding, link, subscribed, bounds>>

\* CONNECT takes a stale session over, whose will is published.
AcceptConnect ==
  /\ Receive("CONNECT")
  /\ session' = "current"
  /\ subscribed' = FALSE
  /\ status' = IF session = "stale" THEN "offline" ELSE status
  /\ client' = CASE client = "connecting" -> "connected"
                 [] client = "reconnecting" -> "reconnected"
                 [] OTHER -> client
  /\ UNCHANGED <<app, call, outstanding, link, bounds>>

AcceptPublish ==
  /\ \E packet \in {"online", "offline"} : Receive(packet) /\ status' = packet
  /\ UNCHANGED <<app, call, clientVars, link, session, subscribed, bounds>>

AcceptSubscribe ==
  /\ Receive("SUBSCRIBE")
  /\ subscribed' = TRUE
  /\ UNCHANGED <<app, call, clientVars, link, session, status, bounds>>

AcceptDisconnect ==
  /\ Receive("DISCONNECT")
  /\ session' = "none"
  /\ subscribed' = FALSE
  /\ link' = "down"
  /\ UNCHANGED <<app, call, clientVars, status, bounds>>

\* The keep-alive interval of a lost connection has passed.
PublishWill ==
  /\ session = "stale"
  /\ session' = "none"
  /\ subscribed' = FALSE
  /\ status' = "offline"
  /\ UNCHANGED <<app, call, clientVars, link, wire, bounds>>

Broker ==
  \/ AcceptConnect \/ AcceptPublish \/ AcceptSubscribe \/ AcceptDisconnect
  \/ PublishWill

----------------------------------------------------------------------------

Init ==
  /\ app = "connect"
  /\ call = "enter"
  /\ client = "idle"
  /\ outstanding = <<>>
  /\ link = "down"
  /\ wire = <<>>
  /\ session = "none"
  /\ subscribed = FALSE
  /\ status = "none"
  /\ breaks = 0
  /\ restarts = 0

Next ==
  \/ MainThread \/ LeaveLoop \/ Kill \/ Restart
  \/ Library \/ Acknowledged \/ BreakLink \/ CloseLink \/ Broker

\* The main thread, the library's and the broker run; a closed connection goes down.
Fairness ==
  WF_vars(MainThread) /\ WF_vars(Library) /\ WF_vars(CloseLink) /\ WF_vars(Broker)

Spec == Init /\ [][Next]_vars /\ Fairness

----------------------------------------------------------------------------
(* What is checked.                                                        *)

Packets == {"CONNECT", "online", "SUBSCRIBE", "offline", "DISCONNECT"}

\* Every variable has its type, and disconnect is running only while one of its
\* callers is.
TypeOK ==
  /\ app \in {"connect", "waiting", "announce", "subscribe", "running", "shutdown",
              "destroy", "ended"}
  /\ call \in {"enter", "wait", "close"}
  /\ call # "enter" => Disconnecting
  /\ client \in {"idle", "connecting", "connected", "lost", "reconnecting",
                 "reconnected", "closed"}
  /\ outstanding \in Seq({"online", "offline"})
  /\ link \in {"up", "down"}
  /\ wire \in Seq(Packets)
  /\ session \in {"none", "current", "stale"}
  /\ subscribed \in BOOLEAN
  /\ status \in {"none", "online", "offline"}
  /\ breaks \in Nat
  /\ restarts \in Nat

\* As long as the world is told "online", the broker holds the will that takes it
\* back: no order of breaks, late connections, resent publishes, disconnects and
\* restarts leaves "online" behind (mqtt_manager.cpp:36-38, 49-53, 71-77).
OnlineIsBacked == status = "online" => session # "none"

\* A process that has ended is known to be offline in the end, unless another has
\* taken its place.
EndIsNoticed == Ended ~> status # "online" \/ ~Ended

\* The process has lost its connection and will not subscribe any more.
CutOff ==
  /\ client \in {"lost", "reconnecting"}
  /\ app \notin {"connect", "waiting", "announce", "subscribe"}

\* The application subscribes once and does not look at the result: a process that finds
\* itself without its connection after that, because it was lost before, during or after
\* the subscription, never has a subscription with the broker again, however often it
\* reconnects (application.cpp:33, mqtt_manager.cpp:26-27, 150-157).
LossIsForGood ==
  \A n \in 0..MaxRestarts :
    [](CutOff /\ restarts = n => [](restarts = n => ~(subscribed /\ session = "current")))

\* "MQTT reconnected successfully" (mqtt_manager.cpp:156): a running gateway whose
\* connection breaks after it has subscribed receives commands again.
ReconnectRestores ==
  app = "running" /\ subscribed /\ session = "stale"
    ~> app # "running" \/ (subscribed /\ session = "current")

============================================================================
