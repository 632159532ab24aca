---------------------------- MODULE ModbusManager ---------------------------
(***************************************************************************)
(* ModbusManager, src/src/modbus_manager.cpp, over libmodbus and the bus.  *)
(*                                                                         *)
(* read_discrete_inputs and write_coil select a slave, send a request and  *)
(* wait for the response, up to max_retries times, with the manager's      *)
(* mutex held.  A step is the sending of a request, the end of a wait, or  *)
(* the return of a call.                                                   *)
(*                                                                         *)
(* On the bus a request reaches the slaves it is addressed to or not, and  *)
(* a response arrives within the timeouts or never: a damaged frame, an    *)
(* exception response and a silent slave are all a failed attempt.  The    *)
(* slave a context has selected is libmodbus's state.                      *)
(***************************************************************************)
EXTENDS Integers

CONSTANTS
  Slaves,      \* the slaves on the bus
  Addresses,   \* the addresses of their coils
  Ids,         \* the slave ids in the configuration
  ValidIds,    \* the slave ids modbus_set_slave accepts
  Retries,     \* the values modbus.max_retries may have, ints
  MaxCalls     \* bound of the model: calls made

ASSUME ModbusConstants ==
  /\ Slaves \subseteq ValidIds \ {0}
  /\ {0, 1} \subseteq ValidIds
  /\ Retries \subseteq Int
  /\ MaxCalls \in Nat

VARIABLES
  max_retries,    \* config_.max_retries
  connected,      \* connected_, and that there is a context
  selected,       \* the slave id the context's next request goes to
  request,        \* the call being made: read_with_retry or write_with_retry
  step,           \* where it is: idle, try, await
  retry,          \* its loop variable
  answer,         \* the response on its way
  result,         \* what the last call returned
  coil,           \* the slaves' coils
  modbus_stats,   \* read_success_, read_errors_, write_success_, write_errors_
  calls

bus == <<request, answer, result, coil>>
own == <<max_retries, connected, selected, step, retry, modbus_stats, calls>>
modbusVars == <<bus, own>>

Port == INSTANCE ModbusPort

Nothing == Port!Nothing

ModbusCounters == {"read_success", "read_errors", "write_success", "write_errors"}

NoModbusStats == [c \in ModbusCounters |-> 0]

Count(name) == modbus_stats' = [modbus_stats EXCEPT ![name] = @ + 1]

----------------------------------------------------------------------------
(* The manager.                                                            *)

\* connect, when it succeeds; when it fails it leaves everything as it was.
Connect ==
  /\ step = "idle"
  /\ ~connected
  /\ connected' = TRUE
  /\ selected' = 1
  /\ UNCHANGED <<max_retries, bus, step, retry, modbus_stats, calls>>

Disconnect ==
  /\ step = "idle"
  /\ connected
  /\ connected' = FALSE
  /\ UNCHANGED <<max_retries, bus, selected, step, retry, modbus_stats, calls>>

Call(op) ==
  /\ step = "idle"
  /\ calls < MaxCalls
  /\ calls' = calls + 1
  /\ IF connected
       THEN /\ request' = op
            /\ step' = "try"
            /\ retry' = 0
            /\ UNCHANGED result
       ELSE /\ result' = [operation |-> op, ok |-> FALSE, response |-> Nothing]
            /\ UNCHANGED <<request, step, retry>>
  /\ UNCHANGED <<max_retries, connected, selected, answer, coil, modbus_stats>>

\* Mutant: the slave is selected for reads only.
SelectForReads ==
  IF request.kind = "read" /\ request.slave \in ValidIds THEN request.slave ELSE selected

\* modbus_set_slave, whose result is ignored: a refused id leaves the selection.
Select == IF request.slave \in ValidIds THEN request.slave ELSE selected

\* Mutant: one attempt too many.
AttemptOneMore ==
  /\ step = "try"
  /\ retry <= max_retries
  /\ selected' = Select
  /\ step' = "await"
  /\ UNCHANGED <<max_retries, bus, connected, retry, modbus_stats, calls>>

\* An iteration of the loop, up to the wait for the response.
Attempt ==
  /\ step = "try"
  /\ retry < max_retries
  /\ selected' = Select
  /\ step' = "await"
  /\ UNCHANGED <<max_retries, bus, connected, retry, modbus_stats, calls>>

\* The end of a call.
Return(ok) ==
  /\ request' = Nothing
  /\ result' = [operation |-> request, ok |-> ok, response |-> answer]
  /\ answer' = Nothing
  /\ step' = "idle"
  /\ UNCHANGED <<max_retries, connected, selected, retry, coil, calls>>

Answered ==
  /\ step = "await"
  /\ answer # Nothing
  /\ Return(TRUE)
  /\ Count(IF request.kind = "read" THEN "read_success" ELSE "write_success")

\* Mutant: the loop variable is not advanced.
RetryForever ==
  /\ step = "await"
  /\ answer' = Nothing
  /\ step' = "try"
  /\ UNCHANGED <<max_retries, request, result, coil, connected, selected, retry,
                 modbus_stats, calls>>

\* Mutant: errors are counted per attempt.
CountAttempts ==
  /\ step = "await"
  /\ answer' = Nothing
  /\ step' = "try"
  /\ retry' = retry + 1
  /\ Count("read_errors")
  /\ UNCHANGED <<max_retries, request, result, coil, connected, selected, calls>>

\* rc == -1: no valid response in time, and what comes later is not for this attempt.
AttemptFails ==
  /\ step = "await"
  /\ answer' = Nothing
  /\ step' = "try"
  /\ retry' = retry + 1
  /\ UNCHANGED <<max_retries, request, result, coil, connected, selected, modbus_stats, calls>>

\* Mutant: the call reports success when it leaves the loop.
GiveUpSilently ==
  /\ step = "try"
  /\ retry >= max_retries
  /\ Return(TRUE)
  /\ Count(IF request.kind = "read" THEN "read_errors" ELSE "write_errors")

GiveUp ==
  /\ step = "try"
  /\ retry >= max_retries
  /\ Return(FALSE)
  /\ Count(IF request.kind = "read" THEN "read_errors" ELSE "write_errors")

ModbusThread == Attempt \/ Answered \/ AttemptFails \/ GiveUp

----------------------------------------------------------------------------
(* The bus.                                                                *)

Addressed == IF selected = Port!Broadcast THEN Slaves ELSE Slaves \cap {selected}

\* Slaves carry the request out; the one it was sent to may be heard.
SlavesAct ==
  /\ step = "await"
  /\ answer = Nothing
  /\ \E S \in SUBSET Addressed :
       /\ S # {}
       /\ coil' = Port!CoilsAfter(S, request)
       /\ \/ UNCHANGED answer
          \/ S = {selected} /\ answer' = Port!ResponseOf(selected, request)
  /\ UNCHANGED <<request, result, own>>

ModbusInit ==
  /\ Port!Init
  /\ max_retries \in Retries
  /\ connected = FALSE
  /\ selected = 1
  /\ step = "idle"
  /\ retry = 0
  /\ modbus_stats = NoModbusStats
  /\ calls = 0

ModbusNext ==
  \/ Connect \/ Disconnect
  \/ \E op \in Port!Operation : Call(op)
  \/ ModbusThread
  \/ SlavesAct

----------------------------------------------------------------------------
(* What is checked, in the composition with Statistics.                    *)

\* Every variable has its type; a call makes no more than max_retries attempts, and a
\* response is there only while a call waits for one.
ModbusTypeOK ==
  /\ max_retries \in Retries
  /\ connected \in BOOLEAN
  /\ selected \in ValidIds
  /\ request \in Port!Operation \cup {Nothing}
  /\ step \in {"idle", "try", "await"}
  /\ step = "idle" <=> request = Nothing
  /\ retry \in Nat
  /\ retry > 0 => retry <= max_retries
  /\ step = "await" => retry < max_retries
  /\ answer \in Port!Response \cup {Nothing}
  /\ answer # Nothing => step = "await"
  /\ result \in Port!Result \cup {Nothing}
  /\ coil \in [Slaves \X Addresses -> BOOLEAN]
  /\ modbus_stats \in [ModbusCounters -> Nat]
  /\ calls \in Nat

\* A write that returned true has been made, and by the slave it was for, whatever slave
\* earlier calls, failed attempts and refused ids had selected.  For an id that libmodbus
\* refuses it was another slave that made it: the call reports success all the same
\* (modbus_manager.cpp:136-143).
ConfirmedWriteMade ==
  request = Nothing /\ result # Nothing =>
    LET op == result.operation
    IN  result.ok /\ op.kind = "write" =>
          \E s \in Slaves :
            /\ coil[<<s, op.address>>] = op.state
            /\ op.slave \in ValidIds => s = op.slave

\* The retry loops, slave selection and all, keep what IModbusManager promises.
PortImplemented == Port!Spec

\* A call returns, however silent the bus, and with it the lock of the manager's
\* mutex is given back (modbus_manager.cpp:101, 136).
CallsReturn == request # Nothing ~> request = Nothing

============================================================================
