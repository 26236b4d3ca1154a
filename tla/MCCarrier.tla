------------------------------ MODULE MCCarrier ------------------------------
(* Instances of Carrier for TLC: the sending half while no peer connects;   *)
(* the receiving half with a peer that sends more than the channel and the  *)
(* buffer take, with one that breaks, with two, and with two that are not   *)
(* verified.                                                                *)
EXTENDS Carrier

Peers == \E c \in Client : peer[c].at # "none"
MCNext == CarrierNext /\ IF Peers THEN UNCHANGED vars ELSE UNCHANGED recvVars
MCSpec ==
  /\ CarrierInit /\ [][MCNext]_<<vars, recvVars>>
  /\ \A t \in Target : WF_vars(Moves(t)) /\ WF_vars(Forgets(t))

\* The cells of a list of packages, each a kind and a size.
Packages(l) == [i \in 1 .. Len(l) |-> Numbered(l[i][1], i, l[i][2])]
Cells(l) == [i \in 1 .. 2 * Len(l) |-> Cell(Packages(l)[(i + 1) \div 2], i % 2 = 0)]
Alone(l) == [c \in {"c1"} |-> Cells(l)]
Beside(k, l) == [c \in {"c1", "c2"} |-> Cells(IF c = "c1" THEN k ELSE l)]

V == <<"verify", 1>>
Small == <<"data", 1>>
Large == <<"data", 2>>
MCPlans ==
  {<<>>,
   Alone(<<V, Large, Large, Small, Large, Large, Large>>),
   Alone(<<V, <<"ping", 1>>, Large, Small, <<"broken", 1>>>>),
   Beside(<<V, Large, Small>>, <<V, Small>>),
   Beside(<<<<"wrong_key", 1>>, Small>>, <<<<"cr_msg", 1>>>>)}
=============================================================================
