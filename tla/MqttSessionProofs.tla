------------------------- MODULE MqttSessionProofs --------------------------
(***************************************************************************)
(* "online" is never left behind, and a lost subscription is never         *)
(* regained, for any number of breaks and restarts.                        *)
(***************************************************************************)
EXTENDS MqttSession, TLAPS

\* When the first n packets on the wire are processed the status is not "online".
OfflineAt(n) ==
  \/ \E j \in 1..n : /\ wire[j] \in {"offline", "CONNECT"}
                     /\ \A i \in j + 1..n : wire[i] # "online"
  \/ status # "online" /\ \A i \in 1..n : wire[i] # "online"

\* A connection begins with its CONNECT, and the broker's session is on it from then.
WireSound ==
  /\ link = "down" => wire = <<>> /\ session # "current"
  /\ \A k \in 1..Len(wire) : wire[k] = "CONNECT" => k = 1 /\ session # "current"
  /\ link = "up" /\ session # "current" => wire # <<>> /\ wire[1] = "CONNECT"
  /\ client \in {"idle", "lost"} => link = "down"
  /\ app = "connect" => client = "idle"

\* DISCONNECT is the last packet, and the client has sent "offline" before.
DisconnectSound ==
  \A k \in 1..Len(wire) :
    wire[k] = "DISCONNECT" =>
      /\ k = Len(wire)
      /\ OfflineAt(k - 1)
      /\ client = "closed" \/ Ended

\* So it has while it waits, on this connection or on the next one.
WaitSound ==
  call = "wait" =>
    /\ link = "up" => OfflineAt(Len(wire))
    /\ outstanding = <<>> \/ outstanding[Len(outstanding)] = "offline"

IInv == TypeOK /\ WireSound /\ DisconnectSound /\ WaitSound /\ OnlineIsBacked

----------------------------------------------------------------------------
(* What a step does to OfflineAt.                                          *)

\* A step that leaves the wire's first n packets alone keeps it, if it does not bring
\* the status to "online".
LEMMA OfflineKept ==
  ASSUME NEW n \in Nat, OfflineAt(n),
         \A i \in 1..n : wire'[i] = wire[i],
         status' = "online" => status = "online"
  PROVE  OfflineAt(n)'
<1>1. CASE \E j \in 1..n : /\ wire[j] \in {"offline", "CONNECT"}
                          /\ \A i \in j + 1..n : wire[i] # "online"
  <2>1. PICK j \in 1..n : /\ wire[j] \in {"offline", "CONNECT"}
                         /\ \A i \in j + 1..n : wire[i] # "online"
    BY <1>1
  <2>2. wire'[j] \in {"offline", "CONNECT"}
    BY <2>1
  <2>3. \A i \in j + 1..n : wire'[i] # "online"
    BY <2>1
  <2> QED BY <2>2, <2>3 DEF OfflineAt
<1>2. CASE status # "online" /\ \A i \in 1..n : wire[i] # "online"
  BY <1>2 DEF OfflineAt
<1> QED BY <1>1, <1>2 DEF OfflineAt

\* A step that takes the first packet off the wire and gives it its effect moves the
\* place by one.
LEMMA OfflineShifted ==
  ASSUME TypeOK, wire # <<>>, wire' = Tail(wire),
         NEW n \in Nat, n < Len(wire), OfflineAt(n + 1),
         wire[1] \in {"offline", "CONNECT"} => status' # "online",
         wire[1] # "online" /\ status # "online" => status' # "online"
  PROVE  OfflineAt(n)'
<1>1. \A i \in 1..n : wire'[i] = wire[i + 1]
  BY DEF TypeOK
<1>2. ASSUME NEW j \in 1..n + 1, wire[j] \in {"offline", "CONNECT"},
             \A i \in j + 1..n + 1 : wire[i] # "online"
      PROVE  OfflineAt(n)'
  <2>1. CASE j = 1
    <3>1. \A i \in 1..n : wire'[i] # "online"
      BY <1>1, <1>2, <2>1
    <3> QED BY <1>2, <2>1, <3>1 DEF OfflineAt
  <2>2. CASE j # 1
    <3>1. j - 1 \in 1..n /\ wire'[j - 1] \in {"offline", "CONNECT"}
      BY <1>1, <1>2, <2>2
    <3>2. \A i \in j - 1 + 1..n : wire'[i] # "online"
      BY <1>1, <1>2
    <3> QED BY <3>1, <3>2 DEF OfflineAt
  <2> QED BY <2>1, <2>2
<1>3. CASE status # "online" /\ \A i \in 1..n + 1 : wire[i] # "online"
  <2>1. status' # "online"
    BY <1>3
  <2>2. \A i \in 1..n : wire'[i] # "online"
    BY <1>1, <1>3
  <2> QED BY <2>1, <2>2 DEF OfflineAt
<1> QED BY <1>2, <1>3 DEF OfflineAt

\* "offline" at the end of the wire settles it, and so does a wire of CONNECT alone.
LEMMA OfflineAtEnd ==
  ASSUME NEW w \in Seq(Packets), w # <<>>, wire' = w,
         w[Len(w)] \in {"offline", "CONNECT"}
  PROVE  OfflineAt(Len(w))'
<1>1. Len(w) \in 1..Len(w) /\ \A i \in Len(w) + 1..Len(w) : w[i] # "online"
  BY DEF Packets
<1> QED BY <1>1 DEF OfflineAt

----------------------------------------------------------------------------
(* Types.                                                                  *)

\* The sequences.
LEMMA SequenceTypes ==
  ASSUME TypeOK, [Next]_vars
  PROVE  wire' \in Seq(Packets) /\ outstanding' \in Seq({"online", "offline"})
<1> USE DEF clientVars, brokerVars, bounds
<1>1. wire \in Seq(Packets) /\ outstanding \in Seq({"online", "offline"})
  BY DEF TypeOK
<1>0. /\ <<>> \in Seq({"online", "offline"}) /\ <<>> \in Seq(Packets)
      /\ <<"CONNECT">> \in Seq(Packets)
  BY DEF Packets
<1>2. ASSUME NEW packet \in Packets, Send(packet)
      PROVE  wire' \in Seq(Packets) /\ outstanding' \in Seq({"online", "offline"})
  BY <1>1, <1>2 DEF Send, IsPublish
<1>3. CASE Announce \/ Subscribe \/ SayOffline \/ Disconnect
  BY <1>2, <1>3 DEF Announce, Subscribe, SayOffline, Disconnect, Packets
<1>4. CASE Connect \/ Restart
  BY <1>0, <1>1, <1>4 DEF Connect, Restart
<1>5. CASE Reconnect
  <2>1. PICK resent \in {outstanding, <<>>} :
          outstanding' = resent /\ wire' = <<"CONNECT">> \o resent
    BY <1>5 DEF Reconnect
  <2>2. resent \in Seq({"online", "offline"})
    BY <1>0, <1>1, <2>1
  <2>3. resent \in Seq(Packets)
    BY <2>2 DEF Packets
  <2> QED BY <1>0, <2>1, <2>2, <2>3
<1>6. CASE Acknowledged
  BY <1>1, <1>6 DEF Acknowledged
<1>7. CASE BreakLink \/ CloseLink
  BY <1>0, <1>1, <1>7 DEF BreakLink, CloseLink
<1>8. CASE Broker
  BY <1>1, <1>8 DEF Broker, AcceptConnect, AcceptPublish, AcceptSubscribe,
                    AcceptDisconnect, PublishWill, Receive
<1>9. CASE ConnectFails \/ ConnectTimesOut \/ ConnectSucceeds \/ AnnounceFails
           \/ SubscribeFails \/ NotConnected \/ DisconnectFails \/ DisconnectReturns
           \/ LeaveLoop \/ Kill \/ NoticeLoss \/ NoticeFailure \/ UNCHANGED vars
  BY <1>1, <1>9 DEF ConnectFails, ConnectTimesOut, ConnectSucceeds, AnnounceFails,
       InitializeFails, SubscribeFails, NotConnected, DisconnectFails, DisconnectReturns,
       LeaveLoop, Kill, NoticeLoss, NoticeFailure, vars
<1> QED BY <1>3, <1>4, <1>5, <1>6, <1>7, <1>8, <1>9 DEF Next, MainThread, Library

LEMMA TypeStep == TypeOK /\ [Next]_vars => TypeOK'
<1> SUFFICES ASSUME TypeOK, [Next]_vars PROVE TypeOK'
  OBVIOUS
<1>0. wire' \in Seq(Packets) /\ outstanding' \in Seq({"online", "offline"})
  BY SequenceTypes
<1> USE <1>0 DEF TypeOK, Disconnecting, clientVars, brokerVars, bounds
<1>1. CASE Connect \/ ConnectFails \/ ConnectTimesOut \/ ConnectSucceeds
  BY <1>1 DEF Connect, ConnectFails, ConnectTimesOut, ConnectSucceeds, InitializeFails
<1>2. CASE Announce \/ AnnounceFails \/ Subscribe \/ SubscribeFails
  BY <1>2 DEF Announce, AnnounceFails, InitializeFails, Subscribe, SubscribeFails
<1>3. CASE SayOffline \/ Disconnect
  BY <1>3 DEF SayOffline, Disconnect
<1>4. CASE NotConnected \/ DisconnectFails \/ DisconnectReturns
  BY <1>4 DEF NotConnected, DisconnectFails, DisconnectReturns, Return
<1>5. CASE LeaveLoop \/ Kill \/ Restart
  BY <1>5 DEF LeaveLoop, Kill, Restart, Ended
<1>6. CASE NoticeLoss \/ NoticeFailure \/ Reconnect \/ Acknowledged
  BY <1>6 DEF NoticeLoss, NoticeFailure, Reconnect, Acknowledged
<1>7. CASE BreakLink \/ CloseLink
  BY <1>7 DEF BreakLink, CloseLink, LoseSession
<1>8. CASE AcceptConnect
  BY <1>8 DEF AcceptConnect
<1>9. CASE AcceptPublish \/ AcceptSubscribe \/ AcceptDisconnect \/ PublishWill
  BY <1>9 DEF AcceptPublish, AcceptSubscribe, AcceptDisconnect, PublishWill
<1>10. CASE UNCHANGED vars
  BY <1>10 DEF vars
<1> HIDE DEF TypeOK
<1> QED BY <1>1, <1>2, <1>3, <1>4, <1>5, <1>6, <1>7, <1>8, <1>9, <1>10
        DEF Next, MainThread, Library, Broker

----------------------------------------------------------------------------
(* The steps, by what they do to the connection.                           *)

Sound == WireSound /\ DisconnectSound /\ WaitSound /\ OnlineIsBacked

\* Steps of the process or of the library that send nothing.
LEMMA QuietStep ==
  ASSUME IInv,
         \/ ConnectFails \/ ConnectTimesOut \/ ConnectSucceeds \/ AnnounceFails
         \/ SubscribeFails \/ LeaveLoop \/ NotConnected \/ DisconnectFails
         \/ DisconnectReturns \/ Kill \/ NoticeLoss \/ NoticeFailure
         \/ Acknowledged \/ Restart \/ UNCHANGED vars
  PROVE  Sound'
<1> USE DEF IInv, TypeOK, ConnectFails, ConnectTimesOut, ConnectSucceeds, AnnounceFails,
            SubscribeFails, LeaveLoop, NotConnected, DisconnectFails, DisconnectReturns,
            Kill, NoticeLoss, NoticeFailure, Acknowledged, Restart, InitializeFails,
            Return, IsConnected, Disconnecting, Ended, vars, clientVars, brokerVars,
            bounds
<1>1. UNCHANGED <<wire, status, session, link>>
  OBVIOUS
<1>2. ASSUME NEW n \in Nat, OfflineAt(n) PROVE OfflineAt(n)'
  BY <1>1, <1>2, OfflineKept
<1>3. WireSound'
  BY <1>1 DEF WireSound
<1>4. DisconnectSound'
  <2>1. \A k \in 1..Len(wire) : wire[k] = "DISCONNECT" => (client = "closed" \/ Ended)'
    BY DEF DisconnectSound, WireSound
  <2>2. \A k \in 1..Len(wire) : k - 1 \in Nat
    OBVIOUS
  <2> HIDE DEF TypeOK
  <2> QED BY <1>1, <1>2, <2>1, <2>2 DEF DisconnectSound
<1>5. WaitSound'
  <2>1. call' = "wait" => call = "wait"
    OBVIOUS
  <2>2. CASE call' = "wait"
    <3>1. outstanding' = <<>> \/ outstanding'[Len(outstanding')] = "offline"
      <4>1. CASE outstanding' = outstanding
        BY <2>1, <2>2, <4>1 DEF WaitSound
      <4>2. CASE outstanding # <<>> /\ outstanding' = Tail(outstanding)
        BY <2>1, <2>2, <4>2 DEF WaitSound
      <4> QED BY <2>2, <4>1, <4>2
    <3>2. Len(wire) \in Nat
      OBVIOUS
    <3> HIDE DEF TypeOK
    <3> QED BY <1>1, <1>2, <2>1, <2>2, <3>1, <3>2 DEF WaitSound
  <2> QED BY <2>2 DEF WaitSound
<1>6. OnlineIsBacked'
  BY <1>1 DEF OnlineIsBacked
<1> QED BY <1>3, <1>4, <1>5, <1>6 DEF Sound

\* Packets go to the end of the wire, none after DISCONNECT; DISCONNECT is sent only
\* after the wait.
LEMMA SendStep ==
  ASSUME IInv, Announce \/ Subscribe \/ SayOffline \/ Disconnect
  PROVE  Sound'
<1> USE DEF IInv, IsConnected, Ended, clientVars, brokerVars, bounds
<1>1. PICK packet \in {"online", "SUBSCRIBE", "offline", "DISCONNECT"} :
        /\ Send(packet)
        /\ packet = "DISCONNECT" => call = "wait" /\ client' = "closed"
        /\ packet # "DISCONNECT" => UNCHANGED client
        /\ call' = "wait" => packet = "offline"
  BY DEF Announce, Subscribe, SayOffline, Disconnect, TypeOK, Disconnecting
<1>2. UNCHANGED <<link, session, status>> /\ app # "connect" /\ app' # "connect"
  BY DEF Announce, Subscribe, SayOffline, Disconnect, Disconnecting
<1>3. IsConnected /\ ~Ended
  BY DEF Announce, Subscribe, SayOffline, Disconnect, Disconnecting, Send
<1>4. wire' = IF link = "up" THEN Append(wire, packet) ELSE wire
  BY <1>1 DEF Send
<1>5. ASSUME NEW k \in 1..Len(wire) PROVE wire[k] # "DISCONNECT"
  BY <1>3 DEF DisconnectSound
<1>6. WireSound'
  BY <1>1, <1>2, <1>3, <1>4 DEF WireSound, TypeOK, Packets
<1>7. ASSUME NEW n \in 0..Len(wire), OfflineAt(n) PROVE OfflineAt(n)'
  <2>1. \A i \in 1..n : wire'[i] = wire[i]
    BY <1>4 DEF TypeOK, Packets
  <2> QED BY <1>2, <1>7, <2>1, OfflineKept
<1>8. DisconnectSound'
  <2> SUFFICES ASSUME NEW k \in 1..Len(wire'), wire'[k] = "DISCONNECT"
               PROVE  /\ k = Len(wire')
                      /\ OfflineAt(k - 1)'
                      /\ (client = "closed" \/ Ended)'
    BY DEF DisconnectSound
  <2>1. link = "up" /\ k = Len(wire) + 1 /\ packet = "DISCONNECT" /\ k = Len(wire')
    BY <1>4, <1>5 DEF TypeOK, Packets
  <2>2. PICK n \in 0..Len(wire) : n = Len(wire)
    BY DEF TypeOK
  <2>3. OfflineAt(n)
    BY <1>1, <2>1, <2>2 DEF WaitSound
  <2>4. OfflineAt(n)'
    BY <1>7, <2>3
  <2>5. k - 1 = n
    BY <2>1, <2>2 DEF TypeOK
  <2> QED BY <1>1, <2>1, <2>4, <2>5
<1>9. WaitSound'
  <2> SUFFICES ASSUME call' = "wait"
               PROVE  /\ link' = "up" => OfflineAt(Len(wire))'
                      /\ outstanding' = <<>> \/ outstanding'[Len(outstanding')] = "offline"
    BY DEF WaitSound
  <2>1. outstanding' = Append(outstanding, "offline")
    BY <1>1 DEF Send, IsPublish
  <2>2. link = "up" => OfflineAt(Len(wire))'
    <3>1. SUFFICES ASSUME link = "up" PROVE OfflineAt(Len(wire))'
      OBVIOUS
    <3>2. wire' = Append(wire, "offline")
      BY <1>1, <1>4, <3>1
    <3>3. wire' \in Seq(Packets) /\ wire' # <<>> /\ wire'[Len(wire')] = "offline"
      BY <3>2 DEF TypeOK, Packets
    <3> QED BY <3>3, OfflineAtEnd
  <2> QED BY <1>2, <2>1, <2>2 DEF TypeOK
<1>10. OnlineIsBacked'
  BY <1>2 DEF OnlineIsBacked
<1> QED BY <1>6, <1>8, <1>9, <1>10 DEF Sound

\* A new connection begins with CONNECT, and what it resends ends with "offline" if the
\* process is waiting for that.
LEMMA ConnectStep == ASSUME IInv, Connect \/ Reconnect PROVE Sound'
<1> USE DEF IInv, clientVars, brokerVars, bounds
<1>1. PICK resent \in {outstanding, <<>>} : wire' = <<"CONNECT">> \o resent
  BY DEF Connect, Reconnect, TypeOK
<1>2. link = "down" /\ link' = "up" /\ UNCHANGED <<session, status>>
  BY DEF Connect, Reconnect, WireSound
<1>3. client' \in {"connecting", "reconnecting"} /\ app' # "connect"
  <2>1. CASE Connect
    BY <2>1 DEF Connect
  <2>2. CASE Reconnect
    BY <2>2 DEF Reconnect, WireSound
  <2> QED BY <2>1, <2>2
<1>4. resent \in Seq({"online", "offline"})
  <2>1. <<>> \in Seq({"online", "offline"}) /\ outstanding \in Seq({"online", "offline"})
    BY DEF TypeOK
  <2> QED BY <1>1, <2>1
<1>5. /\ wire' \in Seq(Packets) /\ Len(wire') = Len(resent) + 1 /\ wire'[1] = "CONNECT"
      /\ \A k \in 2..Len(wire') : wire'[k] = resent[k - 1]
  BY <1>1, <1>4 DEF Packets
<1>6. \A k \in 2..Len(wire') : wire'[k] \in {"online", "offline"}
  BY <1>4, <1>5
<1>7. WireSound'
  BY <1>2, <1>3, <1>5, <1>6 DEF WireSound
<1>8. DisconnectSound'
  BY <1>5, <1>6 DEF DisconnectSound
<1>9. WaitSound'
  <2> SUFFICES ASSUME call' = "wait"
               PROVE  /\ OfflineAt(Len(wire))'
                      /\ outstanding' = <<>> \/ outstanding'[Len(outstanding')] = "offline"
    BY DEF WaitSound
  <2>1. call = "wait" /\ app # "connect"
    BY DEF Connect, Reconnect, TypeOK, Disconnecting
  <2>2. outstanding' \in {outstanding, <<>>}
    BY DEF Connect, Reconnect
  <2>3. resent = <<>> \/ resent[Len(resent)] = "offline"
    BY <1>1, <2>1 DEF WaitSound
  <2>4. wire' # <<>> /\ wire'[Len(wire')] \in {"offline", "CONNECT"}
    BY <1>4, <1>5, <2>3
  <2>5. OfflineAt(Len(wire))'
    BY <1>5, <2>4, OfflineAtEnd
  <2> QED BY <2>1, <2>2, <2>5 DEF WaitSound
<1>10. OnlineIsBacked'
  BY <1>2 DEF OnlineIsBacked
<1> QED BY <1>7, <1>8, <1>9, <1>10 DEF Sound

\* A lost connection leaves the will with the broker.
LEMMA BreakStep == ASSUME IInv, BreakLink \/ CloseLink PROVE Sound'
<1> USE DEF IInv, BreakLink, CloseLink, LoseSession, clientVars, brokerVars, bounds
<1>1. WireSound'
  BY DEF WireSound
<1>2. DisconnectSound'
  BY DEF DisconnectSound
<1>3. WaitSound'
  BY DEF WaitSound
<1>4. OnlineIsBacked'
  BY DEF OnlineIsBacked
<1> QED BY <1>1, <1>2, <1>3, <1>4 DEF Sound

\* The broker takes a packet from the wire: the places behind it move up by one, and
\* "online" is its status only while it has the session.
LEMMA AcceptStep ==
  ASSUME IInv, AcceptConnect \/ AcceptPublish \/ AcceptSubscribe \/ AcceptDisconnect
  PROVE  Sound'
<1> USE DEF IInv, clientVars, brokerVars, bounds
<1>1. /\ wire # <<>> /\ wire' = Tail(wire) /\ link = "up"
      /\ UNCHANGED <<app, call, outstanding>>
  BY DEF AcceptConnect, AcceptPublish, AcceptSubscribe, AcceptDisconnect, Receive
<1>2. /\ wire \in Seq(Packets) /\ wire' \in Seq(Packets) /\ Len(wire) \in Nat \ {0}
      /\ Len(wire') = Len(wire) - 1
      /\ \A k \in 1..Len(wire') : k + 1 \in 1..Len(wire) /\ wire'[k] = wire[k + 1]
  BY <1>1 DEF TypeOK
<1>3. /\ wire[1] \in {"offline", "CONNECT"} => status' # "online"
      /\ wire[1] # "online" /\ status # "online" => status' # "online"
  <2>1. CASE AcceptConnect
    <3>1. session # "current"
      BY <1>2, <2>1 DEF AcceptConnect, Receive, WireSound
    <3> QED BY <1>2, <2>1, <3>1 DEF AcceptConnect, Receive, OnlineIsBacked, TypeOK
  <2>2. CASE AcceptPublish
    BY <1>2, <2>2 DEF AcceptPublish, Receive
  <2>3. CASE AcceptSubscribe \/ AcceptDisconnect
    BY <1>2, <2>3 DEF AcceptSubscribe, AcceptDisconnect, Receive
  <2> QED BY <2>1, <2>2, <2>3
<1>4. ASSUME NEW n \in Nat, n < Len(wire), OfflineAt(n + 1) PROVE OfflineAt(n)'
  BY <1>1, <1>3, <1>4, OfflineShifted
<1>5. \A k \in 1..Len(wire') : wire'[k] # "CONNECT"
  BY <1>2 DEF WireSound
<1>6. AcceptDisconnect => wire' = <<>> /\ status # "online"
  <2> SUFFICES ASSUME AcceptDisconnect PROVE wire' = <<>> /\ status # "online"
    OBVIOUS
  <2>1. wire[1] = "DISCONNECT" /\ 1 \in 1..Len(wire)
    BY <1>2 DEF AcceptDisconnect, Receive
  <2>2. 1 = Len(wire) /\ OfflineAt(1 - 1)
    BY <2>1 DEF DisconnectSound
  <2> QED BY <1>1, <1>2, <2>2 DEF OfflineAt
<1>7. WireSound'
  <2>1. CASE AcceptConnect
    BY <1>5, <2>1 DEF AcceptConnect, Receive, WireSound, TypeOK
  <2>2. CASE AcceptPublish \/ AcceptSubscribe
    BY <1>5, <2>2 DEF AcceptPublish, AcceptSubscribe, Receive, WireSound
  <2>3. CASE AcceptDisconnect
    BY <1>5, <1>6, <2>3 DEF AcceptDisconnect, Receive, WireSound
  <2> QED BY <2>1, <2>2, <2>3
<1>8. DisconnectSound'
  <2> SUFFICES ASSUME NEW k \in 1..Len(wire'), wire'[k] = "DISCONNECT"
               PROVE  /\ k = Len(wire')
                      /\ OfflineAt(k - 1)'
                      /\ (client = "closed" \/ Ended)'
    BY DEF DisconnectSound
  <2>1. /\ k + 1 = Len(wire)
        /\ OfflineAt(k + 1 - 1)
        /\ client = "closed" \/ Ended
    BY <1>2 DEF DisconnectSound
  <2>2. k - 1 \in Nat /\ k - 1 < Len(wire) /\ (k - 1) + 1 = k + 1 - 1
    BY <1>2
  <2>3. OfflineAt(k - 1)'
    <3>1. PICK n \in Nat : n = k - 1
      BY <2>2
    <3>2. OfflineAt(n + 1)
      BY <2>1, <2>2, <3>1
    <3> QED BY <1>4, <2>2, <3>1, <3>2
  <2>4. (client = "closed" \/ Ended)'
    BY <1>1, <2>1 DEF AcceptConnect, AcceptPublish, AcceptSubscribe, AcceptDisconnect,
                      Ended
  <2> QED BY <1>2, <2>1, <2>3, <2>4
<1>9. WaitSound'
  <2> SUFFICES ASSUME call = "wait" PROVE OfflineAt(Len(wire))'
    BY <1>1 DEF WaitSound
  <2>1. PICK n \in Nat : n = Len(wire) - 1
    BY <1>2
  <2>2. OfflineAt(n + 1) /\ n < Len(wire)
    <3>1. OfflineAt(Len(wire)) /\ Len(wire) = n + 1
      BY <1>1, <1>2, <2>1 DEF WaitSound
    <3> QED BY <1>2, <3>1
  <2>3. OfflineAt(n)'
    BY <1>4, <2>2
  <2>4. n = Len(wire')
    BY <1>2, <2>1
  <2> QED BY <2>3, <2>4
<1>10. OnlineIsBacked'
  <2>1. CASE AcceptConnect
    BY <2>1 DEF AcceptConnect, OnlineIsBacked
  <2>2. CASE AcceptPublish
    <3>1. wire[1] # "CONNECT"
      BY <1>2, <2>2 DEF AcceptPublish, Receive
    <3>2. session = "current"
      BY <1>1, <3>1 DEF WireSound
    <3> QED BY <2>2, <3>2 DEF AcceptPublish, OnlineIsBacked
  <2>3. CASE AcceptSubscribe \/ AcceptDisconnect
    BY <1>6, <2>3 DEF AcceptSubscribe, AcceptDisconnect, OnlineIsBacked
  <2> QED BY <2>1, <2>2, <2>3
<1> QED BY <1>7, <1>8, <1>9, <1>10 DEF Sound

\* The will takes "online" back.
LEMMA WillStep == ASSUME IInv, PublishWill PROVE Sound'
<1> USE DEF IInv, PublishWill, clientVars, bounds
<1>1. ASSUME NEW n \in Nat, OfflineAt(n) PROVE OfflineAt(n)'
  BY <1>1, OfflineKept
<1>2. WireSound'
  BY DEF WireSound
<1>3. DisconnectSound'
  <2>1. \A k \in 1..Len(wire) : k - 1 \in Nat
    BY DEF TypeOK
  <2> QED BY <1>1, <2>1 DEF DisconnectSound, Ended
<1>4. WaitSound'
  <2>1. Len(wire) \in Nat
    BY DEF TypeOK
  <2> QED BY <1>1, <2>1 DEF WaitSound
<1>5. OnlineIsBacked'
  BY DEF OnlineIsBacked
<1> QED BY <1>2, <1>3, <1>4, <1>5 DEF Sound

----------------------------------------------------------------------------

LEMMA InitEstablishes == Init => IInv
<1> SUFFICES ASSUME Init PROVE IInv
  OBVIOUS
<1>1. TypeOK
  <2>1. wire \in Seq(Packets) /\ outstanding \in Seq({"online", "offline"})
    BY DEF Init
  <2> QED BY <2>1 DEF Init, TypeOK, Disconnecting
<1>2. WireSound /\ DisconnectSound /\ WaitSound /\ OnlineIsBacked
  BY DEF Init, WireSound, DisconnectSound, WaitSound, OnlineIsBacked
<1> QED BY <1>1, <1>2 DEF IInv

LEMMA Inductive == IInv /\ [Next]_vars => IInv'
<1> SUFFICES ASSUME IInv, [Next]_vars PROVE IInv'
  OBVIOUS
<1>1. TypeOK'
  BY TypeStep DEF IInv
<1>2. Sound'
  BY QuietStep, SendStep, ConnectStep, BreakStep, AcceptStep, WillStep
     DEF Next, MainThread, Library, Broker
<1> QED BY <1>1, <1>2 DEF IInv, Sound

LEMMA Invariant == Spec => []IInv
  BY InitEstablishes, Inductive, PTL DEF Spec

\* Every variable has its type, and nothing is left of a call of disconnect that has
\* returned (mqtt_manager.cpp:64-85).
THEOREM TypeCorrect == Spec => []TypeOK
<1>1. IInv => TypeOK
  BY DEF IInv
<1> QED BY <1>1, Invariant, PTL

\* Whatever breaks, comes late, is sent again or restarts: while the status is "online"
\* the broker has the will that takes it back (mqtt_manager.cpp:36-38, 49-53, 71-77).
THEOREM OnlineAlwaysBacked == Spec => []OnlineIsBacked
<1>1. IInv => OnlineIsBacked
  BY DEF IInv
<1> QED BY <1>1, Invariant, PTL

----------------------------------------------------------------------------
(* The subscription after a lost connection.                               *)

\* In the process after n others a connection is lost after it has subscribed: no packet
\* on the wire subscribes, and the broker's session on this process's connection, if there
\* is one, has no subscription.
Deaf(n) ==
  /\ app \notin {"connect", "waiting", "announce", "subscribe"}
  /\ client \notin {"idle", "connecting", "connected"}
  /\ \A k \in 1..Len(wire) : wire[k] # "SUBSCRIBE"
  /\ ~(subscribed /\ session = "current")
  /\ restarts = n

\* What resends is what was published, and it never was a SUBSCRIBE.
LEMMA ResentIsPublished ==
  ASSUME TypeOK, Reconnect
  PROVE  \A k \in 1..Len(wire') : wire'[k] # "SUBSCRIBE"
<1>1. PICK resent \in {outstanding, <<>>} : wire' = <<"CONNECT">> \o resent
  BY DEF Reconnect
<1>2. resent \in Seq({"online", "offline"})
  <2>1. <<>> \in Seq({"online", "offline"})
    OBVIOUS
  <2> QED BY <1>1, <2>1 DEF TypeOK
<1>3. ASSUME NEW k \in 1..Len(wire') PROVE wire'[k] # "SUBSCRIBE"
  <2>1. CASE k = 1
    BY <1>1, <1>2, <2>1
  <2>2. CASE k # 1
    <3>1. k - 1 \in 1..Len(resent) /\ wire'[k] = resent[k - 1]
      BY <1>1, <1>2, <2>2
    <3> QED BY <1>2, <3>1
  <2> QED BY <2>1, <2>2
<1> QED BY <1>3

\* Packets sent after the subscription are others.
LEMMA SentIsOther ==
  ASSUME TypeOK, NEW packet \in Packets, packet # "SUBSCRIBE", Send(packet),
         \A k \in 1..Len(wire) : wire[k] # "SUBSCRIBE"
  PROVE  \A k \in 1..Len(wire') : wire'[k] # "SUBSCRIBE"
<1>1. CASE wire' = wire
  BY <1>1
<1>2. CASE wire' = Append(wire, packet)
  <2>1. wire \in Seq(Packets)
    BY DEF TypeOK
  <2> QED BY <1>2, <2>1
<1> QED BY <1>1, <1>2 DEF Send

\* A process that is deaf stays so until another one takes its place.
LEMMA DeafStep ==
  ASSUME IInv, NEW n \in Nat, Deaf(n), [Next]_vars
  PROVE  Deaf(n)' \/ restarts' = n + 1
<1> USE DEF IInv, Deaf, clientVars, brokerVars, bounds
<1>1. CASE SayOffline \/ Disconnect
  <2>1. \A k \in 1..Len(wire') : wire'[k] # "SUBSCRIBE"
    BY <1>1, SentIsOther DEF SayOffline, Disconnect, Packets
  <2>2. /\ UNCHANGED <<app, subscribed, session, restarts>>
        /\ client' \in {client, "closed"}
    BY <1>1 DEF SayOffline, Disconnect
  <2> QED BY <2>1, <2>2
<1>2. CASE Reconnect
  <2>1. \A k \in 1..Len(wire') : wire'[k] # "SUBSCRIBE"
    BY <1>2, ResentIsPublished
  <2> QED BY <1>2, <2>1 DEF Reconnect
<1>3. CASE BreakLink \/ CloseLink
  <2>1. wire' = <<>> /\ session' # "current" /\ UNCHANGED <<app, client, restarts>>
    BY <1>3 DEF BreakLink, CloseLink, LoseSession
  <2> QED BY <2>1
<1>4. CASE AcceptConnect \/ AcceptPublish \/ AcceptSubscribe \/ AcceptDisconnect
  <2>1. wire # <<>> /\ wire \in Seq(Packets) /\ wire' = Tail(wire)
    BY <1>4 DEF AcceptConnect, AcceptPublish, AcceptSubscribe, AcceptDisconnect, Receive,
                TypeOK
  <2>2. /\ \A k \in 1..Len(wire') : wire'[k] # "SUBSCRIBE"
        /\ Head(wire) # "SUBSCRIBE"
    BY <2>1
  <2>3. UNCHANGED <<app, restarts>>
    BY <1>4 DEF AcceptConnect, AcceptPublish, AcceptSubscribe, AcceptDisconnect
  <2>4. client' \in {client, "reconnected"} /\ ~(subscribed' /\ session' = "current")
    BY <1>4, <2>2 DEF AcceptConnect, AcceptPublish, AcceptSubscribe, AcceptDisconnect,
                      Receive
  <2> QED BY <2>2, <2>3, <2>4
<1>5. CASE \/ NotConnected \/ DisconnectFails \/ DisconnectReturns \/ LeaveLoop \/ Kill
           \/ NoticeLoss \/ NoticeFailure \/ Acknowledged \/ PublishWill \/ UNCHANGED vars
  BY <1>5 DEF NotConnected, DisconnectFails, DisconnectReturns, Return, LeaveLoop, Kill,
              NoticeLoss, NoticeFailure, Acknowledged, PublishWill, vars
<1>6. CASE Restart
  BY <1>6 DEF Restart
<1>7. CASE \/ Connect \/ ConnectFails \/ ConnectTimesOut \/ ConnectSucceeds
           \/ Announce \/ AnnounceFails \/ Subscribe \/ SubscribeFails
  BY <1>7 DEF Connect, ConnectFails, ConnectTimesOut, ConnectSucceeds, Announce,
              AnnounceFails, Subscribe, SubscribeFails
<1> QED BY <1>1, <1>2, <1>3, <1>4, <1>5, <1>6, <1>7
        DEF Next, MainThread, Library, Broker

\* What a connection that takes the place of a lost one begins with: the broker has not taken
\* its CONNECT, and nothing else on it subscribes.
ResentSound ==
  client = "reconnecting" =>
    /\ session # "current"
    /\ \A k \in 1..Len(wire) : wire[k] # "SUBSCRIBE"

LEMMA ResentStep == IInv /\ ResentSound /\ [Next]_vars => ResentSound'
<1> SUFFICES ASSUME IInv, ResentSound, [Next]_vars, client' = "reconnecting"
             PROVE  session' # "current" /\ \A k \in 1..Len(wire') : wire'[k] # "SUBSCRIBE"
  BY DEF ResentSound
<1> USE DEF clientVars, brokerVars, bounds
<1>1. CASE Reconnect
  <2>1. session' # "current"
    BY <1>1 DEF Reconnect, IInv, WireSound
  <2> QED BY <1>1, <2>1, ResentIsPublished DEF IInv
<1>2. CASE BreakLink \/ CloseLink
  BY <1>2 DEF BreakLink, CloseLink, LoseSession
<1>3. CASE PublishWill
  BY <1>3 DEF PublishWill, ResentSound
<1>4. CASE AcceptConnect \/ AcceptPublish \/ AcceptSubscribe \/ AcceptDisconnect
  <2>1. wire # <<>> /\ wire \in Seq(Packets) /\ wire' = Tail(wire)
    BY <1>4 DEF AcceptConnect, AcceptPublish, AcceptSubscribe, AcceptDisconnect, Receive,
                IInv, TypeOK
  <2>2. ~AcceptConnect
    BY DEF AcceptConnect
  <2>3. client = "reconnecting" /\ session' \in {session, "none"}
    BY <1>4, <2>2 DEF AcceptPublish, AcceptSubscribe, AcceptDisconnect
  <2> QED BY <2>1, <2>3 DEF ResentSound
<1>5. CASE ~(Reconnect \/ BreakLink \/ CloseLink \/ Broker)
  <2>1. UNCHANGED <<client, session, wire>>
    BY <1>5 DEF Next, MainThread, Connect, ConnectFails, ConnectTimesOut, ConnectSucceeds,
                Announce, AnnounceFails, Subscribe, SubscribeFails, SayOffline, NotConnected,
                Disconnect, DisconnectFails, DisconnectReturns, Return, InitializeFails,
                Send, IsConnected, LeaveLoop, Kill, Restart, Library, NoticeLoss,
                NoticeFailure, Acknowledged, vars
  <2> QED BY <2>1 DEF ResentSound
<1> QED BY <1>1, <1>2, <1>3, <1>4, <1>5 DEF Broker

LEMMA AlwaysResentSound == Spec => []ResentSound
<1>1. Init => ResentSound
  BY DEF Init, ResentSound
<1> QED BY <1>1, ResentStep, Invariant, PTL DEF Spec

\* The number of processes only grows.
LEMMA RestartsGrow ==
  ASSUME TypeOK, NEW n \in Nat, restarts > n, [Next]_vars
  PROVE  restarts' > n
<1>1. restarts' = restarts \/ restarts' = restarts + 1
  BY DEF Next, MainThread, Connect, ConnectFails, ConnectTimesOut, ConnectSucceeds,
         Announce, AnnounceFails, Subscribe, SubscribeFails, SayOffline, NotConnected,
         Disconnect, DisconnectFails, DisconnectReturns, InitializeFails, LeaveLoop, Kill,
         Restart, Library, NoticeLoss, NoticeFailure, Reconnect, Acknowledged, BreakLink,
         CloseLink, Broker, AcceptConnect, AcceptPublish, AcceptSubscribe,
         AcceptDisconnect, PublishWill, vars, bounds
<1> QED BY <1>1 DEF TypeOK

\* The finding of the run mqtt_reconnect for any number of breaks and restarts: a connection
\* that is lost once the application has called subscribe, whether the call had an effect or
\* not, leaves it without a subscription for as long as it runs (application.cpp:33,
\* mqtt_manager.cpp:26-27).
THEOREM LossIsAlwaysForGood == Spec => LossIsForGood
<1> SUFFICES ASSUME NEW n \in 0..MaxRestarts
             PROVE  Spec => [](CutOff /\ restarts = n
                                 => [](restarts = n => ~(subscribed /\ session = "current")))
  BY DEF LossIsForGood
<1>0. n \in Nat
  BY BoundsAreNat
<1>1. IInv /\ ResentSound /\ CutOff /\ restarts = n => Deaf(n)
  BY DEF IInv, TypeOK, WireSound, ResentSound, Deaf, CutOff
<1>2. IInv /\ (Deaf(n) \/ restarts > n) /\ [Next]_vars => (Deaf(n) \/ restarts > n)'
  BY <1>0, DeafStep, RestartsGrow DEF IInv
<1>3. IInv /\ (Deaf(n) \/ restarts > n)
        => (restarts = n => ~(subscribed /\ session = "current"))
  BY <1>0 DEF Deaf
<1> QED BY <1>1, <1>2, <1>3, AlwaysResentSound, Invariant, PTL DEF Spec

----------------------------------------------------------------------------
(* What a process that has ended leaves behind.                            *)

\* The packets the broker has not read, the connection they are on and the session: what
\* is still to come of a process.
Standing == IF link = "up" THEN 1 ELSE 0
Will     == IF session = "none" THEN 0 ELSE 1
Traffic  == 2 * (Len(wire) + Standing) + Will

\* Once a process has ended, what is still to come of it only gets less, with every packet
\* read and with the end of its connection and of its session; nothing else changes the
\* status, and when nothing more is to come the status is not "online".
EndSettles ==
  Ended /\ Ended' =>
    /\ Traffic \in Nat
    /\ Traffic = 0 => status # "online"
    /\ IF Broker \/ BreakLink \/ CloseLink
         THEN Traffic' < Traffic
         ELSE UNCHANGED <<Traffic, status>>

\* However a process ends, and whatever it has sent before, in finitely many steps of the
\* broker and the connection the world knows it to be offline, or another has taken its
\* place: of EndIsNoticed, all but that the broker and the connection go on
\* (mqtt_manager.cpp:36-38, 64-85).
THEOREM EndAlwaysSettles == Spec => [][EndSettles]_vars
<1>1. ASSUME IInv, [Next]_vars, Ended, Ended' PROVE EndSettles
  <2> USE DEF Ended
  <2>1. /\ Len(wire) \in Nat /\ Standing \in {0, 1} /\ Will \in {0, 1}
        /\ Will' \in {0, 1} /\ Standing' \in {0, 1}
    BY <1>1 DEF IInv, TypeOK, Standing, Will
  <2>2. Traffic \in Nat
    BY <2>1 DEF Traffic
  <2>3. Traffic = 0 => status # "online"
    <3>1. Traffic = 0 => Will = 0
      BY <2>1 DEF Traffic
    <3> QED BY <1>1, <3>1 DEF Will, IInv, OnlineIsBacked
  <2>4. ASSUME AcceptConnect \/ AcceptPublish \/ AcceptSubscribe \/ AcceptDisconnect
        PROVE  Traffic' < Traffic
    <3>1. wire # <<>> /\ wire' = Tail(wire) /\ link = "up" /\ wire \in Seq(Packets)
      BY <1>1, <2>4
      DEF AcceptConnect, AcceptPublish, AcceptSubscribe, AcceptDisconnect, Receive, IInv, TypeOK
    <3>2. Len(wire') = Len(wire) - 1
      BY <3>1
    <3>3. Standing = 1
      BY <3>1 DEF Standing
    <3>4. Traffic = 2 * (Len(wire) + 1) + Will
      BY <3>3 DEF Traffic
    <3>5. Traffic' = 2 * (Len(wire) - 1 + Standing') + Will'
      BY <3>2 DEF Traffic
    <3> QED BY <2>1, <3>4, <3>5
  <2>5. ASSUME PublishWill PROVE Traffic' < Traffic
    <3>1. Will = 1 /\ Will' = 0 /\ Standing' = Standing /\ Len(wire') = Len(wire)
      BY <2>5 DEF PublishWill, Will, Standing
    <3> QED BY <2>1, <3>1 DEF Traffic
  <2>6. ASSUME BreakLink \/ CloseLink PROVE Traffic' < Traffic
    <3>1. link = "up" /\ link' = "down" /\ wire' = <<>>
      BY <2>6 DEF BreakLink, CloseLink
    <3>2. Will' = Will
      BY <2>6 DEF BreakLink, CloseLink, LoseSession, Will
    <3>3. Standing = 1 /\ Standing' = 0 /\ Len(wire') = 0
      BY <3>1 DEF Standing
    <3> QED BY <2>1, <3>2, <3>3 DEF Traffic
  <2>7. CASE Broker \/ BreakLink \/ CloseLink
    BY <2>2, <2>3, <2>4, <2>5, <2>6, <2>7 DEF Broker, EndSettles
  <2>8. CASE ~(Broker \/ BreakLink \/ CloseLink)
    <3>1. ~MainThread /\ ~LeaveLoop /\ ~Kill /\ ~Restart /\ ~Library /\ ~Acknowledged
      BY <1>1 DEF MainThread, Connect, ConnectFails, ConnectTimesOut, ConnectSucceeds,
                  Announce, AnnounceFails, Subscribe, SubscribeFails, SayOffline,
                  NotConnected, Disconnect, DisconnectFails, DisconnectReturns,
                  Disconnecting, LeaveLoop, Kill, Restart, Library, NoticeLoss,
                  NoticeFailure, Reconnect, Acknowledged
    <3>2. UNCHANGED vars
      BY <1>1, <2>8, <3>1 DEF Next
    <3> QED BY <2>2, <2>3, <2>8, <3>2 DEF vars, brokerVars, Traffic, Standing, Will, EndSettles
  <2> QED BY <2>7, <2>8
<1>2. IInv /\ [Next]_vars => EndSettles
  BY <1>1 DEF EndSettles
<1> QED BY <1>2, Invariant, PTL DEF Spec

=============================================================================
