------------------------------ MODULE MCRelays ------------------------------
(***************************************************************************)
(* DeviceController for the commands: the relay "lamp", the relay "all",   *)
(* which is configured with the broadcast id, and a topic that names no    *)
(* relay, with more commands waiting than one cycle takes, or with none    *)
(* taken, or no limit.  There are no inputs: MCInputs has them.            *)
(***************************************************************************)
EXTENDS DeviceController, TLC

MCSlaveOf    == <<>>
MCAddressOf  == <<>>
MCInputTopic == <<>>

Lamp == <<"lamp">>
All  == <<"all">>
Fan  == <<"fan">>

MCRelayNames == {Lamp, All}
MCCoilOf     == Lamp :> <<2, 0>> @@ All :> <<0, 0>>
MCRelayTopic == Lamp :> "lamp/state" @@ All :> "all/state"
MCLimits     == {-1, 0, 1}

MCTopics == {CommandTopic(name) : name \in {Lamp, All, Fan}}

============================================================================
