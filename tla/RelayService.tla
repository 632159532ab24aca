---------------------------- MODULE RelayService ----------------------------
(***************************************************************************)
(* What the gateway promises to whoever sends relay commands, without the  *)
(* polling loop, the threads and the two queues that implement it: the     *)
(* commands it has accepted form one channel, they are performed one at a  *)
(* time in the order of their arrival, each at most once, and a coil       *)
(* changes only when a command for its relay is performed.  A crash loses  *)
(* the commands still in the channel and what the gateway believed of the  *)
(* relays, and leaves the coils alone.                                     *)
(***************************************************************************)
EXTENDS Sequences, RelayCoils

CONSTANT
  Names  \* the relay names a command may carry, configured or not

VARIABLES
  chan,           \* accepted commands not yet performed, oldest first
  coil,           \* the coils of the Modbus slaves
  current_state   \* what the gateway believes each relay's coil to be

vars == <<chan, coil, current_state>>

Command == [relay_name : Names, desired_state : BOOLEAN]

Init ==
  /\ chan = <<>>
  /\ coil \in [Coils -> BOOLEAN]
  /\ current_state = [r \in Relays |-> FALSE]

Accept(cmd) ==
  /\ chan' = Append(chan, cmd)
  /\ UNCHANGED <<coil, current_state>>

\* A slave confirmed the write.
Applied(cmd) ==
  /\ cmd.relay_name \in Relays
  /\ \E S \in Confirmed(cmd.relay_name) : coil' = After(coil, S, cmd.desired_state)
  /\ current_state' = [current_state EXCEPT ![cmd.relay_name] = cmd.desired_state]

\* No attempt was confirmed: the coil may have been written all the same.
Unconfirmed(cmd) ==
  /\ cmd.relay_name \in Relays
  /\ \E S \in Attempted(cmd.relay_name) : coil' = After(coil, S, cmd.desired_state)
  /\ UNCHANGED current_state

Dropped(cmd) ==
  /\ cmd.relay_name \notin Relays
  /\ UNCHANGED <<coil, current_state>>

Perform ==
  /\ chan # <<>>
  /\ chan' = Tail(chan)
  /\ LET cmd == Head(chan)
     IN  Applied(cmd) \/ Unconfirmed(cmd) \/ Dropped(cmd)

Crash ==
  /\ chan' = <<>>
  /\ current_state' = [r \in Relays |-> FALSE]
  /\ UNCHANGED coil

Next == (\E cmd \in Command : Accept(cmd)) \/ Perform \/ Crash

Spec == Init /\ [][Next]_vars

============================================================================
