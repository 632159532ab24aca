--------------------------- MODULE MCLegacyPoller ---------------------------
(***************************************************************************)
(* The legacy poller with one button, one relay and one unknown name.      *)
(***************************************************************************)
EXTENDS LegacyPoller

MCButtons == {<<48, 7>>}
MCRelays  == {"lamp"}
MCNames   == {"lamp", "other"}
MCArriving == {[relay_name |-> "lamp", desired_state |-> TRUE],
               [relay_name |-> "other", desired_state |-> FALSE]}
MCCoilOf  == [r \in MCRelays |-> <<32, 0>>]

============================================================================
