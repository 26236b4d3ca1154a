------------------------------ MODULE ConnServ ------------------------------
(***************************************************************************)
(* conn_serv: the maps between client connections and logged-in users, and *)
(* the handlers that keep them.  One main loop per conn_serv runs every    *)
(* handler to its end, so a handler is one action.                         *)
(***************************************************************************)
EXTENDS SsProto

VARIABLES
  ckey2uid,   \* [Key -> Uid \cup {NoUid}]: Config.Ckey2Uid
  uid2ckey,   \* [Group -> [Uid -> Key \cup {NoKey}]]: Config.Uid2Ckey
  tcp         \* [Key -> TcpState]: the connection as tcp_serv knows it

connVars == <<ckey2uid, uid2ckey, tcp>>

(* "closing": CloseClient was asked for, packages already read from the    *)
(* socket still arrive.  "down" connections are closed on both sides.      *)
TcpState == {"up", "closing", "down"}
Alive(k) == tcp[k] \in {"up", "closing"}

ConnTypeOK ==
  /\ ckey2uid \in [Key -> Uid \cup {NoUid}]
  /\ uid2ckey \in [Group -> [Uid -> Key \cup {NoKey}]]
  /\ tcp \in [Key -> TcpState]

ConnInit ==
  /\ ckey2uid = [k \in Key |-> NoUid]
  /\ uid2ckey = [g \in Group |-> [u \in Uid |-> NoKey]]
  /\ tcp = [k \in Key |-> "up"]

(* delete(Ckey2Uid, k) and delete(Uid2Ckey, u) *)
ClearMaps(k, u) ==
  /\ ckey2uid' = [ckey2uid EXCEPT ![k] = NoUid]
  /\ uid2ckey' = [uid2ckey EXCEPT ![ConnOf[k]][u] = NoKey]

-----------------------------------------------------------------------------
(* A CS_PROTO_LOGIN_REQ package: forwarded whether or not the connection   *)
(* has a user already.                                                     *)
ClientLogin(k, u) ==
  /\ Alive(k)
  /\ conn2logic' = Send(conn2logic, ConnOf[k], LoginReq(k, u))
  /\ UNCHANGED <<connVars, logic2conn, logic2db, db2logic, logic2disp,
                 disp2logic>>

(* A CS_PROTO_LOGOUT_REQ package: refused on a connection with no user.    *)
(* The maps stay until logic_serv answers.                                 *)
ClientLogout(k) ==
  /\ Alive(k)
  /\ ckey2uid[k] # NoUid
  /\ conn2logic' = Send(conn2logic, ConnOf[k],
                        LogoutReq(ckey2uid[k], "CLIENT_EXIT"))
  /\ UNCHANGED <<connVars, logic2conn, logic2db, db2logic, logic2disp,
                 disp2logic>>

(* The CLIENT_PKG_T_CONN_CLOSED package of a connection the client closed. *)
ConnClosed(k) ==
  /\ Alive(k)
  /\ tcp' = [tcp EXCEPT ![k] = "down"]
  /\ IF ckey2uid[k] = NoUid
     THEN UNCHANGED <<ckey2uid, uid2ckey, conn2logic>>
     ELSE /\ conn2logic' = Send(conn2logic, ConnOf[k],
                                LogoutReq(ckey2uid[k], "CONN_CLOSED"))
          /\ ClearMaps(k, ckey2uid[k])
  /\ UNCHANGED <<logic2conn, logic2db, db2logic, logic2disp, disp2logic>>

(* A connection the server closed: tcp_serv tells conn_serv nothing. *)
ServerClosed(k) ==
  /\ tcp[k] = "closing"
  /\ tcp' = [tcp EXCEPT ![k] = "down"]
  /\ UNCHANGED <<ckey2uid, uid2ckey, channels>>

(* A new connection; its key is one no map and no message still names. *)
Accept(k, inUse) ==
  /\ tcp[k] = "down"
  /\ ~inUse
  /\ tcp' = [tcp EXCEPT ![k] = "up"]
  /\ UNCHANGED <<ckey2uid, uid2ckey, channels>>

(* Another connection of this conn_serv is bound to the user. *)
NeverTaken(g, m) == FALSE
Taken(g, m) == uid2ckey[g][m.uid] \notin {NoKey, m.key}

(* LOGIN_RSP.  On success the maps are set unless the user is taken; the   *)
(* connection is not looked up.                                            *)
ConnRecvLoginRsp(g) ==
  /\ Pending(logic2conn, g, "LOGIN_RSP")
  /\ LET m == Head(logic2conn[g])
     IN  IF m.result = "SUCCESS" /\ ~Taken(g, m)
         THEN /\ ckey2uid' = [ckey2uid EXCEPT ![m.key] = m.uid]
              /\ uid2ckey' = [uid2ckey EXCEPT ![g][m.uid] = m.key]
         ELSE UNCHANGED <<ckey2uid, uid2ckey>>
  /\ logic2conn' = Recv(logic2conn, g)
  /\ UNCHANGED <<tcp, conn2logic, logic2db, db2logic, logic2disp, disp2logic>>

(* LOGOUT_RSP: looked up by user; the kicked and timed-out are closed. *)
ConnRecvLogoutRsp(g) ==
  /\ Pending(logic2conn, g, "LOGOUT_RSP")
  /\ LET m == Head(logic2conn[g])
         k == uid2ckey[g][m.uid]
     IN  IF k = NoKey
         THEN UNCHANGED connVars
         ELSE /\ ckey2uid' = [ckey2uid EXCEPT ![k] = NoUid]
              /\ uid2ckey' = [uid2ckey EXCEPT ![g][m.uid] = NoKey]
              /\ tcp' = IF /\ m.reason \in {"CLIENT_TIMEOUT", "KICK_RECONN"}
                           /\ tcp[k] = "up"
                        THEN [tcp EXCEPT ![k] = "closing"]
                        ELSE tcp
  /\ logic2conn' = Recv(logic2conn, g)
  /\ UNCHANGED <<conn2logic, logic2db, db2logic, logic2disp, disp2logic>>
=============================================================================
