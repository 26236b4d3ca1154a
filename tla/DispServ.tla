------------------------------ MODULE DispServ ------------------------------
(***************************************************************************)
(* disp_serv: relays a message with method SPEC to the server it names and *)
(* keeps nothing of it.  The kicks of one user are sent to one disp_serv,  *)
(* chosen by a hash of the uid.                                            *)
(***************************************************************************)
EXTENDS SsProto

RecvDispMsg(g) ==
  /\ logic2disp[g] # <<>>
  /\ LET m == Head(logic2disp[g])
     IN  disp2logic' = Send(disp2logic, m.to, m)
  /\ logic2disp' = Recv(logic2disp, g)
  /\ UNCHANGED <<conn2logic, logic2conn, logic2db, db2logic>>
=============================================================================
