----------------------------- MODULE ModbusPort -----------------------------
(***************************************************************************)
(* What a caller of IModbusManager (src/include/i_modbus_manager.hpp) may  *)
(* rely on, without attempts and retries: a call that returns true was     *)
(* answered by the slave it was made for; a call that returns false may or *)
(* may not have reached it; and nothing else moves a coil.                 *)
(*                                                                         *)
(* Two slave ids are different.  Slave 0 is the broadcast address, which   *)
(* every slave obeys and none answers.  And the slave id is not checked    *)
(* anywhere: of a call for an id that libmodbus refuses nothing is         *)
(* promised, not even which slaves act on it.                              *)
(***************************************************************************)
EXTENDS Integers

CONSTANTS
  Slaves,     \* the slaves on the bus
  Addresses,  \* the addresses of their coils
  Ids,        \* the slave ids calls are made for: the configuration's
  ValidIds    \* the slave ids that libmodbus accepts

VARIABLES
  request,    \* the call being made
  answer,     \* the slave's response to it, if one is on its way
  result,     \* what the last call returned
  coil        \* the coils of the slaves

vars == <<request, answer, result, coil>>

Broadcast == 0

Read      == [kind : {"read"}, slave : Ids]
Write     == [kind : {"write"}, slave : Ids, address : Addresses, state : BOOLEAN]
Operation == Read \cup Write
Nothing   == [kind |-> "none"]

\* The response to a read stands for the input bits of a slave at that moment.
Response  == [kind : {"read"}, bits_of : Slaves] \cup {[kind |-> "write"]}
Result    == [operation : Operation, ok : BOOLEAN, response : Response \cup {Nothing}]

\* The slaves that may act on a request for this id.
Addressees(id) ==
  IF id = Broadcast \/ id \notin ValidIds THEN Slaves ELSE Slaves \cap {id}

\* What slave s answers to the operation.
ResponseOf(s, op) ==
  IF op.kind = "read" THEN [kind |-> "read", bits_of |-> s] ELSE [kind |-> "write"]

\* The coils after the slaves in S have carried out the operation.
CoilsAfter(S, op) ==
  IF op.kind = "write"
    THEN [c \in Slaves \X Addresses |->
            IF c[1] \in S /\ c[2] = op.address THEN op.state ELSE coil[c]]
    ELSE coil

----------------------------------------------------------------------------

Init ==
  /\ request = Nothing
  /\ answer = Nothing
  /\ result = Nothing
  /\ coil \in [Slaves \X Addresses -> BOOLEAN]

Call(op) ==
  /\ request = Nothing
  /\ request' = op
  /\ UNCHANGED <<answer, result, coil>>

\* A call on a manager that is not connected.
Refuse(op) ==
  /\ request = Nothing
  /\ result' = [operation |-> op, ok |-> FALSE, response |-> Nothing]
  /\ UNCHANGED <<request, answer, coil>>

\* Slaves act; the response of one of them may be on its way.
Act ==
  /\ request # Nothing
  /\ \E S \in SUBSET Addressees(request.slave) :
       /\ coil' = CoilsAfter(S, request)
       /\ \/ answer' = Nothing
          \/ request.slave # Broadcast /\ \E s \in S : answer' = ResponseOf(s, request)
  /\ UNCHANGED <<request, result>>

\* An answer is lost, or too late.
Lose ==
  /\ request # Nothing
  /\ answer' = Nothing
  /\ UNCHANGED <<request, result, coil>>

Succeed ==
  /\ request # Nothing
  /\ answer # Nothing
  /\ result' = [operation |-> request, ok |-> TRUE, response |-> answer]
  /\ request' = Nothing
  /\ answer' = Nothing
  /\ UNCHANGED coil

Fail ==
  /\ request # Nothing
  /\ result' = [operation |-> request, ok |-> FALSE, response |-> Nothing]
  /\ request' = Nothing
  /\ answer' = Nothing
  /\ UNCHANGED coil

Next ==
  \/ \E op \in Operation : Call(op) \/ Refuse(op)
  \/ Act \/ Lose \/ Succeed \/ Fail

Spec == Init /\ [][Next]_vars

============================================================================
