------------------------------- MODULE Carrier -------------------------------
(***************************************************************************)
(* Both halves of bridge_carrier.  They are parts of one process but share *)
(* no state, so a step belongs to one of them, except the restart, and     *)
(* nothing is said of either once a package went astray; what holds of a   *)
(* half alone holds of both.                                               *)
(***************************************************************************)
EXTENDS CarrierSend, CarrierRecv

CarrierInit == Init /\ \E plan \in Plans : RecvInit(plan)
CarrierNext ==
  \/ Sending /\ UNCHANGED recvVars
  \/ ~Astray /\ Receiving /\ UNCHANGED vars
  \/ Restart /\ RecvRestart
CarrierSpec == CarrierInit /\ [][CarrierNext]_<<vars, recvVars>>
=============================================================================
