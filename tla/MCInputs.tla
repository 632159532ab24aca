------------------------------ MODULE MCInputs ------------------------------
(***************************************************************************)
(* DeviceController for the inputs: two inputs of one slave, the second    *)
(* with an address outside the eight bits that are read.  There are no     *)
(* relays: MCRelays has them.                                              *)
(***************************************************************************)
EXTENDS DeviceController, TLC

MCSlaveOf    == <<3, 3>>
MCAddressOf  == <<0, 8>>
MCInputTopic == <<"door/state", "window/state">>

MCNothing == <<>>

============================================================================
