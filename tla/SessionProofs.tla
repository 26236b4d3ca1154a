--------------------------- MODULE SessionProofs ---------------------------
(***************************************************************************)
(* Theorems about Session, for every set of groups, connections, users and *)
(* goroutines and every capacity of the channels.                          *)
(***************************************************************************)
EXTENDS Session, FiniteSetTheorems, TLAPS

-----------------------------------------------------------------------------
(* What the channel operators keep. *)

(* A message offered to a ring leaves it a sequence of messages. *)
LEMMA OfferTyped ==
  ASSUME NEW S, NEW q \in Seq(S), NEW m \in S
  PROVE  Offer(q, m) \in Seq(S)
BY DEF Offer

(* So do the rings of all groups after a send to one of them. *)
LEMMA SendTyped ==
  ASSUME NEW S, NEW ch \in [Group -> Seq(S)], NEW g \in Group, NEW m \in S
  PROVE  Send(ch, g, m) \in [Group -> Seq(S)]
BY OfferTyped DEF Send

(* The message taken from a ring is one of them, and those left are too. *)
LEMMA RecvTyped ==
  ASSUME NEW S, NEW ch \in [Group -> Seq(S)], NEW g \in Group, ch[g] # <<>>
  PROVE  /\ Recv(ch, g) \in [Group -> Seq(S)]
         /\ Head(ch[g]) \in S
BY DEF Recv

(* Setting one entry of a two-level map keeps its type. *)
LEMMA SetTyped ==
  ASSUME NEW A, NEW B, NEW S, NEW f \in [A -> [B -> S]],
         NEW a \in A, NEW b \in B, NEW v \in S
  PROVE  [f EXCEPT ![a][b] = v] \in [A -> [B -> S]]
OBVIOUS

(* The kinds of messages and goroutines, told apart by type and pc. *)
LEMMA Kinds ==
  /\ \A m \in LoginReqs : m.type = "LOGIN_REQ" /\ m.key \in Key /\ m.uid \in Uid
  /\ \A m \in LogoutReqs :
        m.type = "LOGOUT_REQ" /\ m.uid \in Uid /\ m.reason \in Reason
  /\ \A m \in SaveReqs :
        /\ m.type = "LOGOUT_REQ" /\ m.uid \in Uid /\ m.reason \in Reason
        /\ m.info \in Ver \cup {NoInfo}
  /\ \A m \in LoginRsps : m.type = "LOGIN_RSP" /\ m.key \in Key
  /\ \A m \in LogoutRsps : m.type = "LOGOUT_RSP" /\ m.uid \in Uid
  /\ \A m \in KickMsgs : m.to \in Group /\ m.uid \in Uid
  /\ \A p \in LoginProcs :
        /\ p.pc \in {"pass", "info", "online"} /\ p.from \in Group
        /\ p.key \in Key /\ p.uid \in Uid /\ p.snap \in Ver
  /\ \A p \in SaveProcs :
        p.pc = "save" /\ p.uid \in Uid /\ p.info \in Ver \cup {NoInfo}
  /\ Idle.pc = "idle"
BY DEF LoginReqs, LogoutReqs, SaveReqs, LoginRsps, LogoutRsps, KickMsgs,
       LoginProcs, SaveProcs, Idle

(* A session that changes its user's data leaves it a version. *)
LEMMA NextVerTyped ==
  ASSUME NEW v \in Ver
  PROVE  NextVer(v) \in Ver
BY ConstantsOK DEF Ver, NextVer

-----------------------------------------------------------------------------
(* Type correctness. *)

LEMMA InitTyped == Init => TypeOK
BY ConstantsOK, LogicConstantsOK
DEF Init, TypeOK, ConnInit, ConnTypeOK, TcpState, LogicInit, LogicTypeOK,
    DbInit, DbTypeOK, Idle, Ver, ChannelsInit, ChannelsOK

LEMMA ConnStepTyped ==
  ASSUME TypeOK, ConnNext, UNCHANGED <<logicVars, dbVars>>
  PROVE  TypeOK'
<1> USE DEF TypeOK, ChannelsOK, ConnTypeOK
<1>1. LogicTypeOK' /\ DbTypeOK'
  BY DEF logicVars, dbVars, LogicTypeOK, DbTypeOK
<1>2. ASSUME NEW k \in Key, NEW u \in Uid, ClientLogin(k, u)
      PROVE  TypeOK'
  <2>1. /\ ConnOf[k] \in Group
        /\ LoginReq(k, u) \in LoginReqs \cup LogoutReqs
    BY ConstantsOK DEF LoginReq, LoginReqs
  <2>2. conn2logic' \in [Group -> Seq(LoginReqs \cup LogoutReqs)]
    BY <1>2, <2>1, SendTyped DEF ClientLogin
  <2> QED
    BY <1>1, <1>2, <2>2 DEF ClientLogin, connVars
<1>3. ASSUME NEW k \in Key, ClientLogout(k)
      PROVE  TypeOK'
  <2>1. /\ ConnOf[k] \in Group
        /\ LogoutReq(ckey2uid[k], "CLIENT_EXIT") \in LoginReqs \cup LogoutReqs
    BY <1>3, ConstantsOK DEF ClientLogout, LogoutReq, LogoutReqs, Reason
  <2>2. conn2logic' \in [Group -> Seq(LoginReqs \cup LogoutReqs)]
    BY <1>3, <2>1, SendTyped DEF ClientLogout
  <2> QED
    BY <1>1, <1>3, <2>2 DEF ClientLogout, connVars
<1>4. ASSUME NEW k \in Key, ConnClosed(k)
      PROVE  TypeOK'
  <2>1. tcp' \in [Key -> TcpState]
    BY <1>4 DEF ConnClosed, TcpState
  <2>2. CASE ckey2uid[k] = NoUid
    BY <1>1, <1>4, <2>1, <2>2 DEF ConnClosed
  <2>3. CASE ckey2uid[k] # NoUid
    <3>1. /\ ConnOf[k] \in Group
          /\ LogoutReq(ckey2uid[k], "CONN_CLOSED") \in LoginReqs \cup LogoutReqs
      BY <2>3, ConstantsOK DEF LogoutReq, LogoutReqs, Reason
    <3>2. conn2logic' \in [Group -> Seq(LoginReqs \cup LogoutReqs)]
      <4>1. conn2logic' = Send(conn2logic, ConnOf[k],
                               LogoutReq(ckey2uid[k], "CONN_CLOSED"))
        BY <1>4, <2>3 DEF ConnClosed
      <4> QED
        BY <3>1, <4>1, SendTyped
    <3>3. /\ ckey2uid' \in [Key -> Uid \cup {NoUid}]
          /\ uid2ckey' \in [Group -> [Uid -> Key \cup {NoKey}]]
      <4>1. /\ ckey2uid' = [ckey2uid EXCEPT ![k] = NoUid]
            /\ uid2ckey' = [uid2ckey EXCEPT ![ConnOf[k]][ckey2uid[k]] = NoKey]
        BY <1>4, <2>3 DEF ConnClosed, ClearMaps
      <4>2. ckey2uid[k] \in Uid /\ NoKey \in Key \cup {NoKey}
        BY <2>3
      <4> QED
        BY <3>1, <4>1, <4>2, SetTyped
    <3> QED
      BY <1>1, <1>4, <2>1, <3>2, <3>3 DEF ConnClosed
  <2> QED
    BY <2>2, <2>3
<1>5. ASSUME NEW k \in Key, ServerClosed(k)
      PROVE  TypeOK'
  BY <1>1, <1>5 DEF ServerClosed, TcpState, channels
<1>6. ASSUME NEW k \in Key, Accept(k, KeyInUse(k))
      PROVE  TypeOK'
  BY <1>1, <1>6 DEF Accept, TcpState, channels
<1>7. ASSUME NEW g \in Group, ConnRecvLoginRsp(g)
      PROVE  TypeOK'
  <2> DEFINE m == Head(logic2conn[g])
  <2>1. /\ logic2conn' \in [Group -> Seq(LoginRsps \cup LogoutRsps)]
        /\ m \in LoginRsps
    <3>1. logic2conn[g] # <<>> /\ m.type = "LOGIN_RSP"
      BY <1>7 DEF ConnRecvLoginRsp, Pending
    <3>2. /\ Recv(logic2conn, g) \in [Group -> Seq(LoginRsps \cup LogoutRsps)]
          /\ m \in LoginRsps \cup LogoutRsps
      BY <3>1, RecvTyped
    <3> QED
      BY <1>7, <3>1, <3>2 DEF ConnRecvLoginRsp, LogoutRsps
  <2>2. m.key \in Key /\ (m.result = "SUCCESS" => m.uid \in Uid)
    BY <2>1 DEF LoginRsps
  <2>3. /\ ckey2uid' \in [Key -> Uid \cup {NoUid}]
        /\ uid2ckey' \in [Group -> [Uid -> Key \cup {NoKey}]]
    <3>1. CASE m.result = "SUCCESS" /\ ~Taken(g, m)
      <4>1. /\ ckey2uid' = [ckey2uid EXCEPT ![m.key] = m.uid]
            /\ uid2ckey' = [uid2ckey EXCEPT ![g][m.uid] = m.key]
        BY <1>7, <3>1 DEF ConnRecvLoginRsp
      <4>2. m.uid \in Uid /\ m.key \in Key \cup {NoKey}
        BY <2>2, <3>1
      <4> QED
        BY <2>2, <4>1, <4>2, SetTyped
    <3>2. CASE ~(m.result = "SUCCESS" /\ ~Taken(g, m))
      BY <1>7, <3>2 DEF ConnRecvLoginRsp
    <3> QED
      BY <3>1, <3>2
  <2> QED
    BY <1>1, <1>7, <2>1, <2>3 DEF ConnRecvLoginRsp
<1>8. ASSUME NEW g \in Group, ConnRecvLogoutRsp(g)
      PROVE  TypeOK'
  <2> DEFINE m == Head(logic2conn[g])
  <2>1. /\ logic2conn' \in [Group -> Seq(LoginRsps \cup LogoutRsps)]
        /\ m \in LogoutRsps
    <3>1. logic2conn[g] # <<>> /\ m.type = "LOGOUT_RSP"
      BY <1>8 DEF ConnRecvLogoutRsp, Pending
    <3>2. /\ Recv(logic2conn, g) \in [Group -> Seq(LoginRsps \cup LogoutRsps)]
          /\ m \in LoginRsps \cup LogoutRsps
      BY <3>1, RecvTyped
    <3> QED
      BY <1>8, <3>1, <3>2 DEF ConnRecvLogoutRsp, LoginRsps
  <2>2. m.uid \in Uid
    BY <2>1 DEF LogoutRsps
  <2>3. ConnTypeOK'
    <3> DEFINE k == uid2ckey[g][m.uid]
    <3>1. CASE k = NoKey
      BY <1>8, <3>1 DEF ConnRecvLogoutRsp, connVars
    <3>2. CASE k # NoKey
      <4>1. k \in Key
        BY <2>2, <3>2
      <4>2. /\ ckey2uid' = [ckey2uid EXCEPT ![k] = NoUid]
            /\ uid2ckey' = [uid2ckey EXCEPT ![g][m.uid] = NoKey]
            /\ tcp' \in {tcp, [tcp EXCEPT ![k] = "closing"]}
        BY <1>8, <3>2 DEF ConnRecvLogoutRsp
      <4>3. uid2ckey' \in [Group -> [Uid -> Key \cup {NoKey}]]
        <5>1. NoKey \in Key \cup {NoKey}
          OBVIOUS
        <5> QED
          BY <2>2, <4>2, <5>1, SetTyped
      <4> QED
        BY <4>1, <4>2, <4>3 DEF TcpState
    <3> QED
      BY <3>1, <3>2
  <2> QED
    BY <1>1, <1>8, <2>1, <2>3 DEF ConnRecvLogoutRsp
<1> QED
  BY <1>2, <1>3, <1>4, <1>5, <1>6, <1>7, <1>8 DEF ConnNext

LEMMA UserLogoutTyped ==
  ASSUME TypeOK, NEW l \in Group, NEW u \in Uid, NEW r \in Reason,
         UserLogout(l, u, r)
  PROVE  /\ user_map' \in [Group -> [Uid -> Ver \cup {Off}]]
         /\ curr_online' \in [Group -> Nat]
         /\ logic2db' \in [Group -> Seq(LoginReqs \cup SaveReqs)]
<1> USE DEF TypeOK, LogicTypeOK, ChannelsOK
<1>1. CASE user_map[l][u] = Off
  <2>1. SaveReq(u, "OFFLINE_USER", NoInfo) \in LoginReqs \cup SaveReqs
    BY ConstantsOK DEF SaveReq, SaveReqs, Reason, Ver
  <2>2. /\ logic2db' = Send(logic2db, l, SaveReq(u, "OFFLINE_USER", NoInfo))
        /\ UNCHANGED <<user_map, curr_online>>
    BY <1>1 DEF UserLogout
  <2> QED
    BY <2>1, <2>2, SendTyped
<1>2. CASE user_map[l][u] # Off
  <2> DEFINE m == SaveReq(u, r, NextVer(user_map[l][u]))
  <2>1. m \in LoginReqs \cup SaveReqs
    <3>1. NextVer(user_map[l][u]) \in Ver
      BY <1>2, NextVerTyped
    <3> QED
      BY <3>1 DEF SaveReq, SaveReqs
  <2>2. /\ logic2db' = Send(logic2db, l, m)
        /\ user_map' = [user_map EXCEPT ![l][u] = Off]
        /\ curr_online' =
             [curr_online EXCEPT ![l] = IF @ > 0 THEN @ - 1 ELSE 0]
    BY <1>2 DEF UserLogout
  <2>3. user_map' \in [Group -> [Uid -> Ver \cup {Off}]]
    <3>1. Off \in Ver \cup {Off}
      OBVIOUS
    <3> QED
      BY <2>2, <3>1, SetTyped
  <2>4. curr_online' \in [Group -> Nat]
    <3>1. (IF curr_online[l] > 0 THEN curr_online[l] - 1 ELSE 0) \in Nat
      OBVIOUS
    <3> QED
      BY <2>2, <3>1
  <2> HIDE DEF m
  <2>5. logic2db' \in [Group -> Seq(LoginReqs \cup SaveReqs)]
    BY <2>1, <2>2, SendTyped
  <2> QED
    BY <2>3, <2>4, <2>5
<1> QED
  BY <1>1, <1>2

LEMMA LogicStepTyped ==
  ASSUME TypeOK, LogicNext, UNCHANGED <<connVars, dbVars>>
  PROVE  TypeOK'
<1> USE DEF TypeOK, ChannelsOK, LogicTypeOK
<1>1. ConnTypeOK' /\ DbTypeOK'
  BY DEF connVars, dbVars, ConnTypeOK, DbTypeOK
<1>2. ASSUME NEW l \in Group, NEW u \in Uid, NEW r \in Reason
      PROVE  LogoutRsp(u, r) \in LoginRsps \cup LogoutRsps
  BY <1>2 DEF LogoutRsp, LogoutRsps
<1>3. ASSUME NEW l \in Group, LogicRecvLoginReq(l)
      PROVE  TypeOK'
  <2> DEFINE m == Head(conn2logic[l])
  <2>1. conn2logic[l] # <<>> /\ m.type = "LOGIN_REQ"
    BY <1>3 DEF LogicRecvLoginReq, Pending
  <2>2. /\ Recv(conn2logic, l) \in [Group -> Seq(LoginReqs \cup LogoutReqs)]
        /\ m \in LoginReqs \cup LogoutReqs
    BY <2>1, RecvTyped
  <2>3. m \in LoginReqs \cup SaveReqs
    BY <2>1, <2>2 DEF LogoutReqs
  <2>4. Send(logic2db, l, m) \in [Group -> Seq(LoginReqs \cup SaveReqs)]
    BY <2>3, SendTyped
  <2> QED
    BY <1>1, <1>3, <2>2, <2>4 DEF LogicRecvLoginReq, logicVars
<1>4. ASSUME NEW l \in Group, LogicRecvLogoutReq(l)
      PROVE  TypeOK'
  <2> DEFINE m == Head(conn2logic[l])
  <2>1. conn2logic[l] # <<>> /\ m.type = "LOGOUT_REQ"
    BY <1>4 DEF LogicRecvLogoutReq, Pending
  <2>2. /\ Recv(conn2logic, l) \in [Group -> Seq(LoginReqs \cup LogoutReqs)]
        /\ m \in LoginReqs \cup LogoutReqs
    BY <2>1, RecvTyped
  <2>3. m.uid \in Uid /\ m.reason \in Reason
    BY <2>1, <2>2 DEF LoginReqs, LogoutReqs
  <2>4. CASE m.reason = "CONN_CLOSED"
    BY <1>1, <1>4, <2>2, <2>4 DEF LogicRecvLogoutReq
  <2>5. CASE m.reason # "CONN_CLOSED"
    <3>1. /\ UserLogout(l, m.uid, m.reason)
          /\ logic2conn' = Send(logic2conn, l, LogoutRsp(m.uid, m.reason))
      BY <1>4, <2>5 DEF LogicRecvLogoutReq
    <3>2. logic2conn' \in [Group -> Seq(LoginRsps \cup LogoutRsps)]
      BY <1>2, <2>3, <3>1, SendTyped
    <3> HIDE DEF m
    <3>3. /\ user_map' \in [Group -> [Uid -> Ver \cup {Off}]]
          /\ curr_online' \in [Group -> Nat]
          /\ logic2db' \in [Group -> Seq(LoginReqs \cup SaveReqs)]
      BY <2>3, <3>1, UserLogoutTyped
    <3> QED
      BY <1>1, <1>4, <2>2, <3>2, <3>3 DEF LogicRecvLogoutReq
  <2> QED
    BY <2>4, <2>5
<1>5. ASSUME NEW l \in Group, LogicRecvLoginRsp(l)
      PROVE  TypeOK'
  <2> DEFINE m == Head(db2logic[l])
  <2>1. /\ Recv(db2logic, l) \in [Group -> Seq(LoginRsps)]
        /\ m \in LoginRsps
    BY <1>5, RecvTyped DEF LogicRecvLoginRsp
  <2>2. logic2conn' \in [Group -> Seq(LoginRsps \cup LogoutRsps)]
    BY <1>5, <2>1, SendTyped DEF LogicRecvLoginRsp
  <2>3. logic2disp' \in [Group -> Seq(KickMsgs)]
    <3>1. CASE Kicks(m)
      <4>1. KickMsg(m.online, m.uid) \in KickMsgs
        BY <2>1, <3>1 DEF Kicks, LoginRsps, KickMsg, KickMsgs
      <4>2. logic2disp' = Send(logic2disp, l, KickMsg(m.online, m.uid))
        BY <1>5, <3>1 DEF LogicRecvLoginRsp
      <4> QED
        BY <4>1, <4>2, SendTyped
    <3>2. CASE ~Kicks(m)
      BY <1>5, <3>2 DEF LogicRecvLoginRsp
    <3> QED
      BY <3>1, <3>2
  <2>4. /\ user_map' \in [Group -> [Uid -> Ver \cup {Off}]]
        /\ curr_online' \in [Group -> Nat]
    <3>1. CASE Takes(l, m)
      <4>1. m.uid \in Uid /\ m.blob \in Ver \cup {Off}
        BY <2>1, <3>1 DEF Takes, LoginRsps
      <4>2. /\ user_map' = [user_map EXCEPT ![l][m.uid] = m.blob]
            /\ curr_online' = [curr_online EXCEPT ![l] = @ + 1]
        BY <1>5, <3>1 DEF LogicRecvLoginRsp
      <4>3. user_map' \in [Group -> [Uid -> Ver \cup {Off}]]
        BY <4>1, <4>2, SetTyped
      <4> QED
        BY <4>2, <4>3
    <3>2. CASE ~Takes(l, m)
      BY <1>5, <3>2 DEF LogicRecvLoginRsp
    <3> QED
      BY <3>1, <3>2
  <2> QED
    BY <1>1, <1>5, <2>1, <2>2, <2>3, <2>4 DEF LogicRecvLoginRsp
<1>6. ASSUME NEW l \in Group, RecvDupUserKick(l)
      PROVE  TypeOK'
  <2> DEFINE u == Head(disp2logic[l]).uid
  <2>1. /\ disp2logic' \in [Group -> Seq(KickMsgs)]
        /\ u \in Uid
    <3>1. disp2logic[l] # <<>> /\ disp2logic' = Recv(disp2logic, l)
      BY <1>6 DEF RecvDupUserKick
    <3>2. Head(disp2logic[l]) \in KickMsgs
      BY <3>1, RecvTyped
    <3> QED
      BY <3>1, <3>2, RecvTyped, Kinds
  <2>2. /\ UserLogout(l, u, "KICK_RECONN")
        /\ logic2conn' = Send(logic2conn, l, LogoutRsp(u, "KICK_RECONN"))
    BY <1>6 DEF RecvDupUserKick
  <2> HIDE DEF u
  <2>3. "KICK_RECONN" \in Reason
    BY DEF Reason
  <2>4. logic2conn' \in [Group -> Seq(LoginRsps \cup LogoutRsps)]
    BY <1>2, <2>1, <2>2, <2>3, SendTyped
  <2>5. /\ user_map' \in [Group -> [Uid -> Ver \cup {Off}]]
        /\ curr_online' \in [Group -> Nat]
        /\ logic2db' \in [Group -> Seq(LoginReqs \cup SaveReqs)]
    BY <2>1, <2>2, <2>3, UserLogoutTyped
  <2> QED
    BY <1>1, <1>6, <2>1, <2>4, <2>5 DEF RecvDupUserKick
<1>7. ASSUME NEW l \in Group, NEW u \in Uid,
             CheckClientTimeout(l, u) \/ SaveRoleOnExit(l, u)
      PROVE  TypeOK'
  <2>1. PICK r \in Reason :
          /\ UserLogout(l, u, r)
          /\ logic2conn' = Send(logic2conn, l, LogoutRsp(u, r))
    BY <1>7 DEF CheckClientTimeout, SaveRoleOnExit, Reason
  <2>2. logic2conn' \in [Group -> Seq(LoginRsps \cup LogoutRsps)]
    BY <1>2, <2>1, SendTyped
  <2>3. /\ user_map' \in [Group -> [Uid -> Ver \cup {Off}]]
        /\ curr_online' \in [Group -> Nat]
        /\ logic2db' \in [Group -> Seq(LoginReqs \cup SaveReqs)]
    BY <2>1, UserLogoutTyped
  <2> QED
    BY <1>1, <1>7, <2>2, <2>3 DEF CheckClientTimeout, SaveRoleOnExit
<1>8. ASSUME NEW l \in Group,
             ServerExit(l) \/ Exited(l) \/ LogicCrash(l) \/ LogicStart(l)
      PROVE  TypeOK'
  <2>1. ASSUME Stop(l)
        PROVE  LogicTypeOK'
    <3>1. [u \in Uid |-> Off] \in [Uid -> Ver \cup {Off}]
      OBVIOUS
    <3> QED
      BY <2>1, <3>1 DEF Stop
  <2>2. LogicTypeOK' /\ UNCHANGED channels
    BY <1>8, <2>1 DEF ServerExit, Exited, LogicCrash, LogicStart
  <2> QED
    BY <1>1, <2>2 DEF channels
<1> QED
  BY <1>3, <1>4, <1>5, <1>6, <1>7, <1>8 DEF LogicNext

LEMMA DbStepTyped ==
  ASSUME TypeOK, DbNext, UNCHANGED <<connVars, logicVars>>
  PROVE  TypeOK'
<1> USE DEF TypeOK, ChannelsOK, DbTypeOK
<1>1. ConnTypeOK' /\ LogicTypeOK'
  BY DEF connVars, logicVars, ConnTypeOK, LogicTypeOK
<1>2. ASSUME NEW s \in Slot, proc[s].pc \in {"pass", "info", "online"}
      PROVE  proc[s] \in LoginProcs
  BY <1>2, Kinds
<1>3. ASSUME NEW g \in Group, NEW s \in Slot, RecvUserLoginReq(g, s)
      PROVE  TypeOK'
  <2> DEFINE m == Head(logic2db[g])
             p == [pc |-> "pass", from |-> g, key |-> m.key, uid |-> m.uid,
                   snap |-> 0]
  <2>1. logic2db[g] # <<>> /\ m.type = "LOGIN_REQ"
    BY <1>3 DEF RecvUserLoginReq, Pending
  <2>2. /\ Recv(logic2db, g) \in [Group -> Seq(LoginReqs \cup SaveReqs)]
        /\ m \in LoginReqs
    <3>1. /\ Recv(logic2db, g) \in [Group -> Seq(LoginReqs \cup SaveReqs)]
          /\ m \in LoginReqs \cup SaveReqs
      BY <2>1, RecvTyped
    <3> QED
      BY <2>1, <3>1, Kinds
  <2>3. p \in LoginProcs
    <3>1. m.key \in Key /\ m.uid \in Uid
      BY <2>2 DEF LoginReqs
    <3>2. 0 \in Ver
      BY ConstantsOK DEF Ver
    <3> HIDE DEF m
    <3> QED
      BY <3>1, <3>2 DEF LoginProcs
  <2>4. proc' = [proc EXCEPT ![s] = p]
    BY <1>3 DEF RecvUserLoginReq
  <2> HIDE DEF p
  <2> QED
    BY <1>1, <1>3, <2>2, <2>3, <2>4 DEF RecvUserLoginReq
<1>4. ASSUME NEW g \in Group, NEW s \in Slot, RecvUserLogoutReq(g, s)
      PROVE  TypeOK'
  <2> DEFINE m == Head(logic2db[g])
             p == [pc |-> "save", uid |-> m.uid, reason |-> m.reason,
                   info |-> m.info]
  <2>1. logic2db[g] # <<>> /\ m.type = "LOGOUT_REQ"
    BY <1>4 DEF RecvUserLogoutReq, Pending
  <2>2. /\ Recv(logic2db, g) \in [Group -> Seq(LoginReqs \cup SaveReqs)]
        /\ m \in SaveReqs
    <3>1. /\ Recv(logic2db, g) \in [Group -> Seq(LoginReqs \cup SaveReqs)]
          /\ m \in LoginReqs \cup SaveReqs
      BY <2>1, RecvTyped
    <3> QED
      BY <2>1, <3>1, Kinds
  <2>3. p \in SaveProcs
    BY <2>2 DEF SaveReqs, SaveProcs
  <2>4. proc' = [proc EXCEPT ![s] = p]
    BY <1>4 DEF RecvUserLogoutReq
  <2> HIDE DEF p
  <2> QED
    BY <1>1, <1>4, <2>2, <2>3, <2>4 DEF RecvUserLogoutReq
<1>5. ASSUME NEW s \in Slot, CheckPassFails(s)
      PROVE  TypeOK'
  <2>1. proc[s] \in LoginProcs
    BY <1>2, <1>5 DEF CheckPassFails
  <2>2. /\ proc[s].from \in Group
        /\ LoginRsp(proc[s].key, NoUid, "PASS", 0, NoGroup) \in LoginRsps
    BY <2>1, ConstantsOK DEF LoginProcs, LoginRsp, LoginRsps, Result, Ver
  <2>3. db2logic' \in [Group -> Seq(LoginRsps)]
    BY <1>5, <2>2, SendTyped DEF CheckPassFails, Answer
  <2> QED
    BY <1>1, <1>5, <2>3 DEF CheckPassFails, Done
<1>6. ASSUME NEW s \in Slot, LoginLock(s)
      PROVE  TypeOK'
  <2>1. proc[s] \in LoginProcs
    BY <1>2, <1>6 DEF LoginLock
  <2>2. CASE Locked(s)
    <3>1. /\ proc[s].from \in Group
          /\ LoginRsp(proc[s].key, NoUid, "MULTI_ON", 0, NoGroup) \in LoginRsps
      BY <2>1, ConstantsOK DEF LoginProcs, LoginRsp, LoginRsps, Result, Ver
    <3>2. db2logic' \in [Group -> Seq(LoginRsps)]
      <4>1. db2logic' = Send(db2logic, proc[s].from,
                     LoginRsp(proc[s].key, NoUid, "MULTI_ON", 0, NoGroup))
        BY <1>6, <2>2 DEF LoginLock, Answer
      <4> QED
        BY <3>1, <4>1, SendTyped
    <3> QED
      BY <1>1, <1>6, <2>2, <3>2 DEF LoginLock, Done
  <2>3. CASE ~Locked(s)
    <3>1. [proc[s] EXCEPT !.pc = "info"] \in LoginProcs
      BY <2>1 DEF LoginProcs
    <3>2. /\ proc' = [proc EXCEPT ![s] = [proc[s] EXCEPT !.pc = "info"]]
          /\ lock' = [lock EXCEPT ![proc[s].uid] = TRUE]
          /\ UNCHANGED db2logic
      BY <1>6, <2>3 DEF LoginLock
    <3> QED
      BY <1>1, <1>6, <3>1, <3>2 DEF LoginLock
  <2> QED
    BY <2>2, <2>3
<1>7. ASSUME NEW s \in Slot, LoginGetInfo(s)
      PROVE  TypeOK'
  <2> DEFINE u == proc[s].uid
  <2>1. proc[s] \in LoginProcs
    BY <1>2, <1>7 DEF LoginGetInfo
  <2>2. CASE OnlineElsewhere(s)
    <3>1. /\ proc[s].from \in Group
          /\ LoginRsp(proc[s].key, u, "MULTI_ON", 0, online[u]) \in LoginRsps
      BY <2>1, <2>2, ConstantsOK
      DEF OnlineElsewhere, LoginProcs, LoginRsp, LoginRsps, Result, Ver
    <3>2. db2logic' \in [Group -> Seq(LoginRsps)]
      <4>1. db2logic' = Send(db2logic, proc[s].from,
                     LoginRsp(proc[s].key, u, "MULTI_ON", 0, online[u]))
        BY <1>7, <2>2 DEF LoginGetInfo, Answer
      <4> QED
        BY <3>1, <4>1, SendTyped
    <3> QED
      BY <1>1, <1>7, <2>2, <3>2 DEF LoginGetInfo, Done
  <2>3. CASE ~OnlineElsewhere(s)
    <3> DEFINE p == [proc[s] EXCEPT !.pc = "online", !.snap = blob[u]]
    <3>1. p \in LoginProcs
      BY <2>1 DEF LoginProcs
    <3>2. proc' = [proc EXCEPT ![s] = p] /\ UNCHANGED db2logic
      BY <1>7, <2>3 DEF LoginGetInfo
    <3> HIDE DEF p
    <3> QED
      BY <1>1, <1>7, <3>1, <3>2 DEF LoginGetInfo
  <2> QED
    BY <2>2, <2>3
<1>8. ASSUME NEW s \in Slot, LoginUpdateOnline(s)
      PROVE  TypeOK'
  <2>1. proc[s] \in LoginProcs
    BY <1>2, <1>8 DEF LoginUpdateOnline
  <2>2. /\ proc[s].from \in Group
        /\ LoginRsp(proc[s].key, proc[s].uid, "SUCCESS", proc[s].snap, NoGroup)
             \in LoginRsps
    BY <2>1, ConstantsOK DEF LoginProcs, LoginRsp, LoginRsps, Result
  <2>3. db2logic' \in [Group -> Seq(LoginRsps)]
    BY <1>8, <2>2, SendTyped DEF LoginUpdateOnline, Answer
  <2> QED
    BY <1>1, <1>8, <2>2, <2>3 DEF LoginUpdateOnline, Done
<1>9. ASSUME NEW s \in Slot, UpdateReplyLost(s)
      PROVE  TypeOK'
  <2>1. proc[s] \in LoginProcs
    BY <1>2, <1>9 DEF UpdateReplyLost
  <2>2. proc[s].from \in Group
    BY <2>1 DEF LoginProcs
  <2> QED
    BY <1>1, <1>9, <2>2 DEF UpdateReplyLost, Done, channels
<1>10. ASSUME NEW s \in Slot, LogoutSave(s)
       PROVE  TypeOK'
  <2>1. proc[s].info # NoInfo => proc[s].info \in Ver
    BY <1>10, Kinds DEF LogoutSave
  <2>2. blob' \in [Uid -> Ver]
    BY <1>10, <2>1 DEF LogoutSave
  <2> QED
    BY <1>1, <1>10, <2>2 DEF LogoutSave, Done, channels
<1>11. ASSUME NEW s \in Slot, RedisError(s)
       PROVE  TypeOK'
  BY <1>1, <1>11 DEF RedisError, Done, channels
<1>12. ASSUME NEW u \in Uid, LockExpire(u)
       PROVE  TypeOK'
  BY <1>1, <1>12 DEF LockExpire, channels
<1> QED
  BY <1>3, <1>4, <1>5, <1>6, <1>7, <1>8, <1>9, <1>10, <1>11, <1>12 DEF DbNext

LEMMA DispStepTyped ==
  ASSUME TypeOK, DispNext, UNCHANGED <<connVars, logicVars, dbVars>>
  PROVE  TypeOK'
<1> USE DEF TypeOK, ChannelsOK
<1>1. ConnTypeOK' /\ LogicTypeOK' /\ DbTypeOK'
  BY DEF connVars, logicVars, dbVars, ConnTypeOK, LogicTypeOK, DbTypeOK
<1>2. PICK g \in Group : RecvDispMsg(g)
  BY DEF DispNext
<1>3. logic2disp[g] # <<>>
  BY <1>2 DEF RecvDispMsg
<1>4. /\ Head(logic2disp[g]) \in KickMsgs
      /\ Recv(logic2disp, g) \in [Group -> Seq(KickMsgs)]
  BY <1>3, RecvTyped
<1>5. Head(logic2disp[g]).to \in Group
  BY <1>4, Kinds
<1>6. disp2logic' \in [Group -> Seq(KickMsgs)]
  BY <1>2, <1>4, <1>5, SendTyped DEF RecvDispMsg
<1> QED
  BY <1>1, <1>2, <1>4, <1>6 DEF RecvDispMsg

LEMMA StepTyped == TypeOK /\ [Next]_vars => TypeOK'
<1> SUFFICES ASSUME TypeOK, [Next]_vars
             PROVE  TypeOK'
  OBVIOUS
<1>1. CASE Next
  BY <1>1, ConnStepTyped, LogicStepTyped, DbStepTyped, DispStepTyped DEF Next
<1>2. CASE UNCHANGED vars
  BY <1>2 DEF vars, connVars, logicVars, dbVars, channels, TypeOK, ConnTypeOK,
              LogicTypeOK, DbTypeOK, ChannelsOK
<1> QED
  BY <1>1, <1>2

(* Every map, message and goroutine holds what its type says: no kick for  *)
(* an unnamed user or logic_serv is ever sent, and the answers that set    *)
(* the maps of conn_serv name a user.                                      *)
THEOREM Typing == Spec => []TypeOK
<1>1. Init => TypeOK
  BY InitTyped
<1>2. TypeOK /\ [Next]_vars => TypeOK'
  BY StepTyped
<1> QED
  BY <1>1, <1>2, PTL DEF Spec

-----------------------------------------------------------------------------
(* Who a connection is bound to.  An answer on its way through group g     *)
(* names a connection of g, and a successful one a user whose password the *)
(* client behind that connection gave.  That, and not the maps alone, is   *)
(* what makes the two properties inductive.                                *)
OwnReqs(g) == {m \in LoginReqs : ConnOf[m.key] = g}
OwnRsps(g) == {m \in LoginRsps :
                 /\ ConnOf[m.key] = g
                 /\ m.result = "SUCCESS" => m.uid \in Knows[m.key]}

ToLogic == [g \in Group |-> OwnReqs(g) \cup LogoutReqs]
ToDb == [g \in Group |-> OwnReqs(g) \cup SaveReqs]
FromDb == [g \in Group |-> OwnRsps(g)]
ToConn == [g \in Group |-> OwnRsps(g) \cup LogoutRsps]

Addressed ==
  /\ \A g \in Group : conn2logic[g] \in Seq(ToLogic[g])
  /\ \A g \in Group : logic2db[g] \in Seq(ToDb[g])
  /\ \A g \in Group : db2logic[g] \in Seq(FromDb[g])
  /\ \A g \in Group : logic2conn[g] \in Seq(ToConn[g])

Vouched ==
  \A s \in Slot :
     proc[s].pc \in {"pass", "info", "online"} =>
        /\ ConnOf[proc[s].key] = proc[s].from
        /\ proc[s].pc # "pass" => proc[s].uid \in Knows[proc[s].key]

Bound == Addressed /\ Vouched /\ BindingIsAuthentic /\ OneClientPerUser

(* Send and Recv again, when each group has messages of its own. *)
LEMMA SendOwn ==
  ASSUME NEW T, NEW ch \in [Group -> T], NEW S,
         \A h \in Group : ch[h] \in Seq(S[h]),
         NEW g \in Group, NEW m \in S[g]
  PROVE  \A h \in Group : Send(ch, g, m)[h] \in Seq(S[h])
<1>1. Offer(ch[g], m) \in Seq(S[g])
  BY OfferTyped
<1> QED
  BY <1>1 DEF Send

LEMMA RecvOwn ==
  ASSUME NEW T, NEW ch \in [Group -> T], NEW S,
         \A h \in Group : ch[h] \in Seq(S[h]),
         NEW g \in Group, ch[g] # <<>>
  PROVE  /\ \A h \in Group : Recv(ch, g)[h] \in Seq(S[h])
         /\ Head(ch[g]) \in S[g]
<1>1. Tail(ch[g]) \in Seq(S[g]) /\ Head(ch[g]) \in S[g]
  OBVIOUS
<1> QED
  BY <1>1 DEF Recv

LEMMA InitBound == Init => Bound
<1> SUFFICES ASSUME Init
             PROVE  Bound
  OBVIOUS
<1>1. Addressed
  BY DEF Init, ChannelsInit, Addressed
<1>2. Vouched
  BY Kinds DEF Init, DbInit, Vouched
<1>3. BindingIsAuthentic /\ OneClientPerUser
  BY DEF Init, ConnInit, BindingIsAuthentic, OneClientPerUser
<1> QED
  BY <1>1, <1>2, <1>3 DEF Bound

LEMMA ConnStepBound ==
  ASSUME TypeOK, Bound, ConnNext, UNCHANGED <<logicVars, dbVars>>
  PROVE  Bound'
<1> USE DEF TypeOK, ChannelsOK, ConnTypeOK, Bound
<1>1. Vouched'
  BY DEF dbVars, Vouched
<1>2. ASSUME UNCHANGED <<ckey2uid, uid2ckey>>
      PROVE  BindingIsAuthentic' /\ OneClientPerUser'
  BY <1>2 DEF BindingIsAuthentic, OneClientPerUser
<1>3. ASSUME NEW k \in Key, NEW m \in ToLogic[ConnOf[k]],
             conn2logic' = Send(conn2logic, ConnOf[k], m),
             UNCHANGED <<logic2conn, logic2db, db2logic>>
      PROVE  Addressed'
  <2>1. ConnOf[k] \in Group
    BY ConstantsOK
  <2>2. \A g \in Group : conn2logic'[g] \in Seq(ToLogic[g])
    BY <1>3, <2>1, SendOwn DEF Addressed
  <2> QED
    BY <1>3, <2>2 DEF Addressed
<1>4. ASSUME NEW k \in Key, NEW u \in Uid, ClientLogin(k, u)
      PROVE  Bound'
  <2>1. LoginReq(k, u) \in ToLogic[ConnOf[k]]
    BY ConstantsOK DEF ToLogic, OwnReqs, LoginReq, LoginReqs
  <2>2. Addressed'
    BY <1>3, <1>4, <2>1 DEF ClientLogin
  <2> QED
    BY <1>1, <1>2, <1>4, <2>2 DEF ClientLogin, connVars
<1>5. ASSUME NEW k \in Key, NEW r \in Reason, ckey2uid[k] # NoUid
      PROVE  LogoutReq(ckey2uid[k], r) \in ToLogic[ConnOf[k]]
  BY <1>5, ConstantsOK DEF ToLogic, LogoutReq, LogoutReqs
<1>6. ASSUME NEW k \in Key, ClientLogout(k)
      PROVE  Bound'
  <2>1. LogoutReq(ckey2uid[k], "CLIENT_EXIT") \in ToLogic[ConnOf[k]]
    BY <1>5, <1>6 DEF ClientLogout, Reason
  <2>2. Addressed'
    BY <1>3, <1>6, <2>1 DEF ClientLogout
  <2> QED
    BY <1>1, <1>2, <1>6, <2>2 DEF ClientLogout, connVars
<1>7. ASSUME NEW k \in Key, NEW u \in Uid, uid2ckey[ConnOf[k]][u] = k,
             ckey2uid' = [ckey2uid EXCEPT ![k] = NoUid],
             uid2ckey' = [uid2ckey EXCEPT ![ConnOf[k]][u] = NoKey]
      PROVE  BindingIsAuthentic' /\ OneClientPerUser'
  <2>1. BindingIsAuthentic'
    BY <1>7 DEF BindingIsAuthentic
  <2>2. ASSUME NEW j \in Key, ckey2uid'[j] # NoUid
        PROVE  uid2ckey'[ConnOf[j]][ckey2uid'[j]] = j
    <3>1. j # k /\ ckey2uid'[j] = ckey2uid[j]
      BY <1>7, <2>2
    <3>2. uid2ckey[ConnOf[j]][ckey2uid[j]] = j
      BY <2>2, <3>1 DEF OneClientPerUser
    <3>3. ConnOf[j] # ConnOf[k] \/ ckey2uid[j] # u
      BY <1>7, <3>1, <3>2
    <3>4. ConnOf[j] \in Group /\ ConnOf[k] \in Group /\ ckey2uid[j] \in Uid
      BY <2>2, <3>1, ConstantsOK
    <3> QED
      BY <1>7, <3>1, <3>2, <3>3, <3>4
  <2> QED
    BY <2>1, <2>2 DEF OneClientPerUser
<1>8. ASSUME NEW k \in Key, ConnClosed(k)
      PROVE  Bound'
  <2>1. CASE ckey2uid[k] = NoUid
    <3>1. UNCHANGED <<ckey2uid, uid2ckey, conn2logic, logic2conn, logic2db,
                      db2logic>>
      BY <1>8, <2>1 DEF ConnClosed
    <3> QED
      BY <1>1, <1>2, <3>1 DEF Addressed
  <2>2. CASE ckey2uid[k] # NoUid
    <3>1. /\ conn2logic' = Send(conn2logic, ConnOf[k],
                                LogoutReq(ckey2uid[k], "CONN_CLOSED"))
          /\ ckey2uid' = [ckey2uid EXCEPT ![k] = NoUid]
          /\ uid2ckey' = [uid2ckey EXCEPT ![ConnOf[k]][ckey2uid[k]] = NoKey]
          /\ UNCHANGED <<logic2conn, logic2db, db2logic>>
      BY <1>8, <2>2 DEF ConnClosed, ClearMaps
    <3>2. Addressed'
      BY <1>3, <1>5, <2>2, <3>1 DEF Reason
    <3>3. ckey2uid[k] \in Uid /\ uid2ckey[ConnOf[k]][ckey2uid[k]] = k
      BY <2>2 DEF OneClientPerUser
    <3>4. BindingIsAuthentic' /\ OneClientPerUser'
      BY <1>7, <3>1, <3>3
    <3> QED
      BY <1>1, <3>2, <3>4
  <2> QED
    BY <2>1, <2>2
<1>9. ASSUME NEW k \in Key, ServerClosed(k) \/ Accept(k, KeyInUse(k))
      PROVE  Bound'
  <2>1. UNCHANGED <<ckey2uid, uid2ckey, conn2logic, logic2conn, logic2db,
                    db2logic>>
    BY <1>9 DEF ServerClosed, Accept, channels
  <2> QED
    BY <1>1, <1>2, <2>1 DEF Addressed
<1>10. ASSUME NEW g \in Group, logic2conn[g] # <<>>,
              logic2conn' = Recv(logic2conn, g),
              UNCHANGED <<conn2logic, logic2db, db2logic>>
       PROVE  Addressed' /\ Head(logic2conn[g]) \in ToConn[g]
  <2>1. /\ \A h \in Group : logic2conn'[h] \in Seq(ToConn[h])
        /\ Head(logic2conn[g]) \in ToConn[g]
    BY <1>10, RecvOwn DEF Addressed
  <2> QED
    BY <1>10, <2>1 DEF Addressed
<1>11. ASSUME NEW g \in Group, ConnRecvLoginRsp(g)
       PROVE  Bound'
  <2> DEFINE m == Head(logic2conn[g])
  <2>1. logic2conn[g] # <<>> /\ m.type = "LOGIN_RSP"
    BY <1>11 DEF ConnRecvLoginRsp, Pending
  <2>2. Addressed' /\ m \in ToConn[g]
    BY <1>10, <1>11, <2>1 DEF ConnRecvLoginRsp
  <2>3. m \in OwnRsps(g)
    BY <2>1, <2>2, Kinds DEF ToConn
  <2>4. CASE m.result = "SUCCESS" /\ ~Taken(g, m)
    <3>1. /\ ckey2uid' = [ckey2uid EXCEPT ![m.key] = m.uid]
          /\ uid2ckey' = [uid2ckey EXCEPT ![g][m.uid] = m.key]
      BY <1>11, <2>4 DEF ConnRecvLoginRsp
    <3>2. /\ m.key \in Key /\ ConnOf[m.key] = g
          /\ m.uid \in Knows[m.key] /\ m.uid \in Uid
      BY <2>3, <2>4, Kinds, ConstantsOK DEF OwnRsps
    <3>3. BindingIsAuthentic'
      BY <3>1, <3>2 DEF BindingIsAuthentic
    <3>4. ASSUME NEW j \in Key, ckey2uid'[j] # NoUid
          PROVE  uid2ckey'[ConnOf[j]][ckey2uid'[j]] = j
      <4>1. CASE j = m.key
        BY <3>1, <3>2, <4>1
      <4>2. CASE j # m.key
        <5>1. ckey2uid'[j] = ckey2uid[j]
          BY <3>1, <4>2
        <5>2. uid2ckey[ConnOf[j]][ckey2uid[j]] = j
          BY <3>4, <5>1 DEF OneClientPerUser
        <5>3. ConnOf[j] # g \/ ckey2uid[j] # m.uid
          BY <2>4, <4>2, <5>2, ConstantsOK DEF Taken
        <5>4. ConnOf[j] \in Group /\ ckey2uid[j] \in Uid
          BY <3>4, <5>1, ConstantsOK
        <5> HIDE DEF m
        <5> QED
          BY <3>1, <5>1, <5>2, <5>3, <5>4
      <4> QED
        BY <4>1, <4>2
    <3> QED
      BY <1>1, <2>2, <3>3, <3>4 DEF OneClientPerUser
  <2>5. CASE ~(m.result = "SUCCESS" /\ ~Taken(g, m))
    <3>1. UNCHANGED <<ckey2uid, uid2ckey>>
      BY <1>11, <2>5 DEF ConnRecvLoginRsp
    <3> QED
      BY <1>1, <1>2, <2>2, <3>1
  <2> QED
    BY <2>4, <2>5
<1>12. ASSUME NEW g \in Group, ConnRecvLogoutRsp(g)
       PROVE  Bound'
  <2> DEFINE m == Head(logic2conn[g])
             k == uid2ckey[g][m.uid]
  <2>1. logic2conn[g] # <<>> /\ m.type = "LOGOUT_RSP"
    BY <1>12 DEF ConnRecvLogoutRsp, Pending
  <2>2. Addressed' /\ m \in ToConn[g]
    BY <1>10, <1>12, <2>1 DEF ConnRecvLogoutRsp
  <2>3. m.uid \in Uid
    BY <2>1, <2>2, Kinds DEF ToConn, OwnRsps
  <2>4. CASE k = NoKey
    <3>1. UNCHANGED <<ckey2uid, uid2ckey>>
      BY <1>12, <2>4 DEF ConnRecvLogoutRsp, connVars
    <3> QED
      BY <1>1, <1>2, <2>2, <3>1
  <2>5. CASE k # NoKey
    <3>1. /\ ckey2uid' = [ckey2uid EXCEPT ![k] = NoUid]
          /\ uid2ckey' = [uid2ckey EXCEPT ![g][m.uid] = NoKey]
      BY <1>12, <2>5 DEF ConnRecvLogoutRsp
    <3>2. BindingIsAuthentic'
      BY <3>1 DEF BindingIsAuthentic
    <3>3. ASSUME NEW j \in Key, ckey2uid'[j] # NoUid
          PROVE  uid2ckey'[ConnOf[j]][ckey2uid'[j]] = j
      <4>1. k \in Key
        BY <2>3, <2>5
      <4>2. j # k /\ ckey2uid'[j] = ckey2uid[j]
        BY <3>1, <3>3, <4>1
      <4>3. uid2ckey[ConnOf[j]][ckey2uid[j]] = j
        BY <3>3, <4>2 DEF OneClientPerUser
      <4>4. ConnOf[j] # g \/ ckey2uid[j] # m.uid
        BY <4>2, <4>3
      <4>5. ConnOf[j] \in Group /\ ckey2uid[j] \in Uid
        BY <3>3, <4>2, ConstantsOK
      <4> HIDE DEF m
      <4> QED
        BY <3>1, <4>2, <4>3, <4>4, <4>5
    <3> QED
      BY <1>1, <2>2, <3>2, <3>3 DEF OneClientPerUser
  <2> QED
    BY <2>4, <2>5
<1> HIDE DEF Bound
<1> QED
  BY <1>4, <1>6, <1>8, <1>9, <1>11, <1>12 DEF ConnNext

LEMMA UserLogoutOwn ==
  ASSUME TypeOK, Addressed, NEW l \in Group, NEW u \in Uid, NEW r \in Reason,
         UserLogout(l, u, r)
  PROVE  \A h \in Group : logic2db'[h] \in Seq(ToDb[h])
<1>1. PICK i \in Ver \cup {NoInfo}, q \in Reason :
        logic2db' = Send(logic2db, l, SaveReq(u, q, i))
  <2>1. CASE user_map[l][u] = Off
    BY <2>1 DEF UserLogout, Reason
  <2>2. CASE user_map[l][u] # Off
    <3>1. NextVer(user_map[l][u]) \in Ver
      BY <2>2, NextVerTyped DEF TypeOK, LogicTypeOK
    <3> QED
      BY <2>2, <3>1 DEF UserLogout
  <2> QED
    BY <2>1, <2>2
<1>2. SaveReq(u, q, i) \in ToDb[l]
  BY DEF SaveReq, SaveReqs, ToDb
<1> QED
  BY <1>1, <1>2, SendOwn DEF TypeOK, ChannelsOK, Addressed

LEMMA LogicStepBound ==
  ASSUME TypeOK, Bound, LogicNext, UNCHANGED <<connVars, dbVars>>
  PROVE  Bound'
<1> USE DEF TypeOK, ChannelsOK
<1>1. Vouched' /\ BindingIsAuthentic' /\ OneClientPerUser'
  BY DEF connVars, dbVars, Bound, Vouched, BindingIsAuthentic, OneClientPerUser
<1> SUFFICES Addressed'
  BY <1>1 DEF Bound
<1>2. Addressed
  BY DEF Bound
<1>3. ASSUME NEW l \in Group, NEW u \in Uid, NEW r \in Reason,
             logic2conn' = Send(logic2conn, l, LogoutRsp(u, r))
      PROVE  \A h \in Group : logic2conn'[h] \in Seq(ToConn[h])
  <2>1. LogoutRsp(u, r) \in ToConn[l]
    BY DEF LogoutRsp, LogoutRsps, ToConn
  <2> QED
    BY <1>2, <1>3, <2>1, SendOwn DEF Addressed
<1>4. ASSUME NEW l \in Group, conn2logic[l] # <<>>,
             conn2logic' = Recv(conn2logic, l)
      PROVE  /\ \A h \in Group : conn2logic'[h] \in Seq(ToLogic[h])
             /\ Head(conn2logic[l]) \in ToLogic[l]
  BY <1>2, <1>4, RecvOwn DEF Addressed
<1>5. ASSUME NEW l \in Group, LogicRecvLoginReq(l)
      PROVE  Addressed'
  <2> DEFINE m == Head(conn2logic[l])
  <2>1. conn2logic[l] # <<>> /\ m.type = "LOGIN_REQ"
    BY <1>5 DEF LogicRecvLoginReq, Pending
  <2>2. /\ \A h \in Group : conn2logic'[h] \in Seq(ToLogic[h])
        /\ m \in ToLogic[l]
    BY <1>4, <1>5, <2>1 DEF LogicRecvLoginReq
  <2>3. m \in ToDb[l]
    BY <2>1, <2>2, Kinds DEF ToLogic, ToDb
  <2>4. \A h \in Group : logic2db'[h] \in Seq(ToDb[h])
    BY <1>2, <1>5, <2>3, SendOwn DEF LogicRecvLoginReq, Addressed
  <2> QED
    BY <1>2, <1>5, <2>2, <2>4 DEF LogicRecvLoginReq, Addressed
<1>6. ASSUME NEW l \in Group, LogicRecvLogoutReq(l)
      PROVE  Addressed'
  <2> DEFINE m == Head(conn2logic[l])
  <2>1. conn2logic[l] # <<>> /\ m.type = "LOGOUT_REQ"
    BY <1>6 DEF LogicRecvLogoutReq, Pending
  <2>2. /\ \A h \in Group : conn2logic'[h] \in Seq(ToLogic[h])
        /\ m \in ToLogic[l]
    BY <1>4, <1>6, <2>1 DEF LogicRecvLogoutReq
  <2>3. m.uid \in Uid /\ m.reason \in Reason
    BY <2>1, <2>2, Kinds DEF ToLogic, OwnReqs
  <2>4. CASE m.reason = "CONN_CLOSED"
    BY <1>2, <1>6, <2>2, <2>4 DEF LogicRecvLogoutReq, Addressed
  <2>5. CASE m.reason # "CONN_CLOSED"
    <3>1. /\ UserLogout(l, m.uid, m.reason)
          /\ logic2conn' = Send(logic2conn, l, LogoutRsp(m.uid, m.reason))
      BY <1>6, <2>5 DEF LogicRecvLogoutReq
    <3> HIDE DEF m
    <3>2. /\ \A h \in Group : logic2conn'[h] \in Seq(ToConn[h])
          /\ \A h \in Group : logic2db'[h] \in Seq(ToDb[h])
      BY <1>2, <1>3, <2>3, <3>1, UserLogoutOwn
    <3> QED
      BY <1>2, <1>6, <2>2, <3>2 DEF LogicRecvLogoutReq, Addressed
  <2> QED
    BY <2>4, <2>5
<1>7. ASSUME NEW l \in Group, LogicRecvLoginRsp(l)
      PROVE  Addressed'
  <2> DEFINE m == Head(db2logic[l])
  <2>1. /\ \A h \in Group : db2logic'[h] \in Seq(FromDb[h])
        /\ m \in FromDb[l]
    BY <1>2, <1>7, RecvOwn DEF LogicRecvLoginRsp, Addressed
  <2>2. m \in ToConn[l]
    BY <2>1 DEF FromDb, ToConn
  <2>3. \A h \in Group : logic2conn'[h] \in Seq(ToConn[h])
    BY <1>2, <1>7, <2>2, SendOwn DEF LogicRecvLoginRsp, Addressed
  <2> QED
    BY <1>2, <1>7, <2>1, <2>3 DEF LogicRecvLoginRsp, Addressed
<1>8. ASSUME NEW l \in Group, RecvDupUserKick(l)
      PROVE  Addressed'
  <2> DEFINE u == Head(disp2logic[l]).uid
  <2>1. u \in Uid
    <3>1. Head(disp2logic[l]) \in KickMsgs
      BY <1>8, RecvTyped DEF RecvDupUserKick
    <3> QED
      BY <3>1, Kinds
  <2>2. /\ UserLogout(l, u, "KICK_RECONN")
        /\ logic2conn' = Send(logic2conn, l, LogoutRsp(u, "KICK_RECONN"))
    BY <1>8 DEF RecvDupUserKick
  <2>3. "KICK_RECONN" \in Reason
    BY DEF Reason
  <2> HIDE DEF u
  <2>4. /\ \A h \in Group : logic2conn'[h] \in Seq(ToConn[h])
        /\ \A h \in Group : logic2db'[h] \in Seq(ToDb[h])
    BY <1>2, <1>3, <2>1, <2>2, <2>3, UserLogoutOwn
  <2> QED
    BY <1>2, <1>8, <2>4 DEF RecvDupUserKick, Addressed
<1>9. ASSUME NEW l \in Group, NEW u \in Uid,
             CheckClientTimeout(l, u) \/ SaveRoleOnExit(l, u)
      PROVE  Addressed'
  <2>1. PICK r \in Reason :
          /\ UserLogout(l, u, r)
          /\ logic2conn' = Send(logic2conn, l, LogoutRsp(u, r))
    BY <1>9 DEF CheckClientTimeout, SaveRoleOnExit, Reason
  <2>2. /\ \A h \in Group : logic2conn'[h] \in Seq(ToConn[h])
        /\ \A h \in Group : logic2db'[h] \in Seq(ToDb[h])
    BY <1>2, <1>3, <2>1, UserLogoutOwn
  <2> QED
    BY <1>2, <1>9, <2>2 DEF CheckClientTimeout, SaveRoleOnExit, Addressed
<1>10. ASSUME NEW l \in Group,
              ServerExit(l) \/ Exited(l) \/ LogicCrash(l) \/ LogicStart(l)
       PROVE  Addressed'
  <2>1. UNCHANGED channels
    BY <1>10 DEF ServerExit, Exited, LogicCrash, LogicStart
  <2> QED
    BY <1>2, <2>1 DEF Addressed, channels
<1> QED
  BY <1>5, <1>6, <1>7, <1>8, <1>9, <1>10 DEF LogicNext

LEMMA DbStepBound ==
  ASSUME TypeOK, Bound, DbNext, UNCHANGED <<connVars, logicVars>>
  PROVE  Bound'
<1> USE DEF TypeOK, ChannelsOK, DbTypeOK
<1>1. BindingIsAuthentic' /\ OneClientPerUser'
  BY DEF connVars, Bound, BindingIsAuthentic, OneClientPerUser
<1> SUFFICES Addressed' /\ Vouched'
  BY <1>1 DEF Bound
<1>2. Addressed /\ Vouched
  BY DEF Bound
<1>3. ASSUME NEW s \in Slot, proc[s].pc \in {"pass", "info", "online"}
      PROVE  proc[s] \in LoginProcs
  BY <1>3, Kinds
<1>4. ASSUME NEW s \in Slot, Done(s)
      PROVE  Vouched'
  BY <1>2, <1>4, Kinds DEF Done, Vouched
<1>5. ASSUME NEW s \in Slot, NEW m \in FromDb[proc[s].from],
             proc[s] \in LoginProcs, Answer(s, m),
             UNCHANGED <<conn2logic, logic2conn, logic2db>>
      PROVE  Addressed'
  <2>1. proc[s].from \in Group
    BY <1>5, Kinds
  <2>2. \A h \in Group : db2logic'[h] \in Seq(FromDb[h])
    BY <1>2, <1>5, <2>1, SendOwn DEF Answer, Addressed
  <2> QED
    BY <1>2, <1>5, <2>2 DEF Addressed
<1>6. ASSUME NEW s \in Slot, proc[s] \in LoginProcs,
             NEW u \in Uid \cup {NoUid}, NEW r \in Result, NEW b \in Ver,
             NEW o \in Group \cup {NoGroup},
             ConnOf[proc[s].key] = proc[s].from,
             r = "SUCCESS" => u \in Knows[proc[s].key],
             u # NoUid /\ r = "MULTI_ON" => o # NoGroup
      PROVE  LoginRsp(proc[s].key, u, r, b, o) \in FromDb[proc[s].from]
  <2> DEFINE m == LoginRsp(proc[s].key, u, r, b, o)
  <2>1. proc[s].key \in Key /\ proc[s].from \in Group
    BY <1>6, Kinds
  <2>2. r = "SUCCESS" => u # NoUid
    BY <1>6, <2>1, ConstantsOK
  <2>3. m \in LoginRsps
    BY <1>6, <2>1, <2>2 DEF LoginRsp, LoginRsps
  <2>4. m.key = proc[s].key /\ m.uid = u /\ m.result = r
    BY DEF LoginRsp
  <2>5. m.result = "SUCCESS" => m.uid \in Knows[m.key]
    BY <1>6, <2>4
  <2>6. ConnOf[m.key] = proc[s].from
    BY <1>6, <2>4
  <2> HIDE DEF m
  <2>7. m \in OwnRsps(proc[s].from)
    BY <2>3, <2>5, <2>6 DEF OwnRsps
  <2> QED
    BY <2>1, <2>7 DEF FromDb, m
<1>7. ASSUME NEW g \in Group, logic2db[g] # <<>>, logic2db' = Recv(logic2db, g),
             UNCHANGED <<conn2logic, logic2conn, db2logic>>
      PROVE  Addressed' /\ Head(logic2db[g]) \in ToDb[g]
  <2>1. /\ \A h \in Group : logic2db'[h] \in Seq(ToDb[h])
        /\ Head(logic2db[g]) \in ToDb[g]
    BY <1>2, <1>7, RecvOwn DEF Addressed
  <2> QED
    BY <1>2, <1>7, <2>1 DEF Addressed
<1>8. ASSUME NEW g \in Group, NEW s \in Slot, RecvUserLoginReq(g, s)
      PROVE  Addressed' /\ Vouched'
  <2> DEFINE m == Head(logic2db[g])
             p == [pc |-> "pass", from |-> g, key |-> m.key, uid |-> m.uid,
                   snap |-> 0]
  <2>1. logic2db[g] # <<>> /\ m.type = "LOGIN_REQ"
    BY <1>8 DEF RecvUserLoginReq, Pending
  <2>2. Addressed' /\ m \in ToDb[g]
    BY <1>7, <1>8, <2>1 DEF RecvUserLoginReq
  <2>3. ConnOf[m.key] = g
    BY <2>1, <2>2, Kinds DEF ToDb, OwnReqs
  <2>4. proc' = [proc EXCEPT ![s] = p]
    BY <1>8 DEF RecvUserLoginReq
  <2>5. Vouched'
    BY <1>2, <2>3, <2>4 DEF Vouched
  <2> QED
    BY <2>2, <2>5
<1>9. ASSUME NEW g \in Group, NEW s \in Slot, RecvUserLogoutReq(g, s)
      PROVE  Addressed' /\ Vouched'
  <2>1. Addressed'
    BY <1>7, <1>9 DEF RecvUserLogoutReq, Pending
  <2>2. proc'[s].pc = "save" /\ \A t \in Slot \ {s} : proc'[t] = proc[t]
    BY <1>9 DEF RecvUserLogoutReq
  <2> QED
    BY <1>2, <2>1, <2>2 DEF Vouched
<1>10. ASSUME NEW s \in Slot, CheckPassFails(s)
       PROVE  Addressed' /\ Vouched'
  <2>1. proc[s] \in LoginProcs /\ ConnOf[proc[s].key] = proc[s].from
    BY <1>2, <1>3, <1>10 DEF CheckPassFails, Vouched
  <2>2. "PASS" \in Result /\ 0 \in Ver
    BY ConstantsOK DEF Result, Ver
  <2>3. LoginRsp(proc[s].key, NoUid, "PASS", 0, NoGroup) \in FromDb[proc[s].from]
    BY <1>6, <2>1, <2>2
  <2>4. Addressed'
    BY <1>5, <1>10, <2>1, <2>3 DEF CheckPassFails
  <2> QED
    BY <1>4, <1>10, <2>4 DEF CheckPassFails
<1>11. ASSUME NEW s \in Slot, LoginLock(s)
       PROVE  Addressed' /\ Vouched'
  <2>1. /\ proc[s] \in LoginProcs /\ ConnOf[proc[s].key] = proc[s].from
        /\ proc[s].uid \in Knows[proc[s].key]
    BY <1>2, <1>3, <1>11 DEF LoginLock, Vouched, PassMatches
  <2>2. CASE Locked(s)
    <3>1. "MULTI_ON" \in Result /\ 0 \in Ver
      BY ConstantsOK DEF Result, Ver
    <3>2. LoginRsp(proc[s].key, NoUid, "MULTI_ON", 0, NoGroup)
            \in FromDb[proc[s].from]
      BY <1>6, <2>1, <3>1
    <3>3. Addressed'
      BY <1>5, <1>11, <2>1, <2>2, <3>2 DEF LoginLock
    <3> QED
      BY <1>4, <1>11, <2>2, <3>3 DEF LoginLock
  <2>3. CASE ~Locked(s)
    <3>1. /\ proc' = [proc EXCEPT ![s] = [proc[s] EXCEPT !.pc = "info"]]
          /\ UNCHANGED <<conn2logic, logic2conn, logic2db, db2logic>>
      BY <1>11, <2>3 DEF LoginLock
    <3>2. [proc[s] EXCEPT !.pc = "info"] \in LoginProcs
      BY <2>1 DEF LoginProcs
    <3>3. Vouched'
      BY <1>2, <2>1, <3>1 DEF Vouched, LoginProcs
    <3> QED
      BY <1>2, <3>1, <3>3 DEF Addressed
  <2> QED
    BY <2>2, <2>3
<1>12. ASSUME NEW s \in Slot, LoginGetInfo(s)
       PROVE  Addressed' /\ Vouched'
  <2> DEFINE u == proc[s].uid
  <2>1. /\ proc[s] \in LoginProcs /\ ConnOf[proc[s].key] = proc[s].from
        /\ u \in Knows[proc[s].key]
    BY <1>2, <1>3, <1>12 DEF LoginGetInfo, Vouched
  <2>2. CASE OnlineElsewhere(s)
    <3>1. "MULTI_ON" \in Result /\ 0 \in Ver
      BY ConstantsOK DEF Result, Ver
    <3>2. u \in Uid /\ online[u] \in Group \cup {NoGroup} /\ online[u] # NoGroup
      BY <2>1, <2>2, Kinds DEF OnlineElsewhere
    <3>3. LoginRsp(proc[s].key, u, "MULTI_ON", 0, online[u])
            \in FromDb[proc[s].from]
      BY <1>6, <2>1, <3>1, <3>2
    <3>4. Addressed'
      BY <1>5, <1>12, <2>1, <2>2, <3>3 DEF LoginGetInfo
    <3> QED
      BY <1>4, <1>12, <2>2, <3>4 DEF LoginGetInfo
  <2>3. CASE ~OnlineElsewhere(s)
    <3>1. /\ proc' = [proc EXCEPT
                        ![s] = [proc[s] EXCEPT !.pc = "online", !.snap = blob[u]]]
          /\ UNCHANGED <<conn2logic, logic2conn, logic2db, db2logic>>
      BY <1>12, <2>3 DEF LoginGetInfo
    <3>2. Vouched'
      BY <1>2, <2>1, <3>1 DEF Vouched, LoginProcs
    <3> QED
      BY <1>2, <3>1, <3>2 DEF Addressed
  <2> QED
    BY <2>2, <2>3
<1>13. ASSUME NEW s \in Slot, LoginUpdateOnline(s)
       PROVE  Addressed' /\ Vouched'
  <2> DEFINE m == LoginRsp(proc[s].key, proc[s].uid, "SUCCESS", proc[s].snap,
                           NoGroup)
  <2>1. /\ proc[s] \in LoginProcs /\ ConnOf[proc[s].key] = proc[s].from
        /\ proc[s].uid \in Knows[proc[s].key]
    BY <1>2, <1>3, <1>13 DEF LoginUpdateOnline, Vouched
  <2>2. "SUCCESS" \in Result /\ proc[s].uid \in Uid /\ proc[s].snap \in Ver
    BY <2>1, Kinds DEF Result
  <2>3. m \in FromDb[proc[s].from]
    BY <1>6, <2>1, <2>2
  <2>4. Addressed'
    BY <1>5, <1>13, <2>1, <2>3 DEF LoginUpdateOnline
  <2> QED
    BY <1>4, <1>13, <2>4 DEF LoginUpdateOnline
<1>14. ASSUME NEW s \in Slot,
              UpdateReplyLost(s) \/ LogoutSave(s) \/ RedisError(s)
       PROVE  Addressed' /\ Vouched'
  <2>1. Done(s) /\ UNCHANGED channels
    BY <1>14 DEF UpdateReplyLost, LogoutSave, RedisError
  <2> QED
    BY <1>2, <1>4, <2>1 DEF Addressed, channels
<1>15. ASSUME NEW u \in Uid, LockExpire(u)
       PROVE  Addressed' /\ Vouched'
  BY <1>2, <1>15 DEF LockExpire, channels, Addressed, Vouched
<1> QED
  BY <1>8, <1>9, <1>10, <1>11, <1>12, <1>13, <1>14, <1>15 DEF DbNext

LEMMA StepBound == TypeOK /\ Bound /\ [Next]_vars => Bound'
<1> SUFFICES ASSUME TypeOK, Bound, [Next]_vars
             PROVE  Bound'
  OBVIOUS
<1>1. CASE ConnNext /\ UNCHANGED <<logicVars, dbVars>>
  BY <1>1, ConnStepBound
<1>2. CASE LogicNext /\ UNCHANGED <<connVars, dbVars>>
  BY <1>2, LogicStepBound
<1>3. CASE DbNext /\ UNCHANGED <<connVars, logicVars>>
  BY <1>3, DbStepBound
<1>4. CASE DispNext /\ UNCHANGED <<connVars, logicVars, dbVars>>
  BY <1>4 DEF DispNext, RecvDispMsg, connVars, dbVars, Bound, Addressed, Vouched,
              BindingIsAuthentic, OneClientPerUser
<1>5. CASE UNCHANGED vars
  BY <1>5 DEF vars, connVars, dbVars, channels, Bound, Addressed, Vouched,
              BindingIsAuthentic, OneClientPerUser
<1> QED
  BY <1>1, <1>2, <1>3, <1>4, <1>5 DEF Next

LEMMA AlwaysBound == Spec => []Bound
<1>1. Init => TypeOK /\ Bound
  BY InitTyped, InitBound
<1>2. TypeOK /\ Bound /\ [Next]_vars => (TypeOK /\ Bound)'
  BY StepTyped, StepBound
<1> QED
  BY <1>1, <1>2, PTL DEF Spec

(* A connection is never bound to a user whose password its client did not *)
(* give (RecvLoginRsp of conn_serv): for any number of connections, users  *)
(* and goroutines, whatever is lost in full rings, fails in redis or       *)
(* crashes.                                                                *)
THEOREM Binding == Spec => []BindingIsAuthentic
<1>1. Bound => BindingIsAuthentic
  BY DEF Bound
<1> QED
  BY <1>1, AlwaysBound, PTL

(* No two connections of a conn_serv are bound to one user, under the same *)
(* losses, failures and crashes: the check for multi-clients in            *)
(* RecvLoginRsp of conn_serv is enough.                                    *)
THEOREM OneClient == Spec => []OneClientPerUser
<1>1. Bound => OneClientPerUser
  BY DEF Bound
<1> QED
  BY <1>1, AlwaysBound, PTL

-----------------------------------------------------------------------------
(* What the login lock guarantees while it outlives the procedure: its     *)
(* holder is alone, so what it read of online_logic can only have been     *)
(* reset by a logout since.                                                *)
Held == \A s \in Slot, u \in Uid : InLogin(s, u) => lock[u]
Seen == \A s \in Slot : proc[s].pc = "online" =>
                           online[proc[s].uid] \in {NoGroup, proc[s].from}
Locks == Held /\ LoginExclusive /\ Seen

LEMMA InitLocks == Init => Locks
BY Kinds DEF Init, DbInit, Locks, Held, LoginExclusive, Seen, InLogin

LEMMA DbStepLocks ==
  ASSUME LockOutlives, TypeOK, Locks, DbNext
  PROVE  Locks' /\ \A u \in Uid : online'[u] # online[u] =>
                                     NoGroup \in {online[u], online'[u]}
<1> DEFINE Kept == \A u \in Uid : online'[u] # online[u] =>
                                    NoGroup \in {online[u], online'[u]}
<1> USE DEF TypeOK, DbTypeOK, Locks
<1>1. ASSUME NEW s \in Slot, proc[s].pc \in {"pass", "info", "online"}
      PROVE  proc[s] \in LoginProcs /\ proc[s].uid \in Uid
  BY <1>1, Kinds
<1>2. ASSUME NEW s \in Slot, NEW p, proc' = [proc EXCEPT ![s] = p],
             p.pc \notin {"info", "online"}, UNCHANGED <<online, lock>>
      PROVE  Locks' /\ Kept
  <2>1. \A t \in Slot, u \in Uid : InLogin(t, u)' => InLogin(t, u)
    BY <1>2 DEF InLogin
  <2>2. Held' /\ LoginExclusive'
    BY <1>2, <2>1 DEF Held, LoginExclusive
  <2>3. Seen'
    BY <1>2 DEF Seen
  <2> QED
    BY <1>2, <2>2, <2>3
<1>3. ASSUME NEW g \in Group, NEW s \in Slot,
             RecvUserLoginReq(g, s) \/ RecvUserLogoutReq(g, s)
      PROVE  Locks' /\ Kept
  <2>1. PICK p \in {proc'[s]} : /\ p.pc \in {"pass", "save"}
                                /\ proc' = [proc EXCEPT ![s] = p]
    BY <1>3 DEF RecvUserLoginReq, RecvUserLogoutReq
  <2> QED
    BY <1>2, <1>3, <2>1 DEF RecvUserLoginReq, RecvUserLogoutReq
<1>4. ASSUME NEW s \in Slot, Done(s), UNCHANGED <<online, lock>>
      PROVE  Locks' /\ Kept
  BY <1>2, <1>4, Kinds DEF Done
<1>5. ASSUME NEW s \in Slot, CheckPassFails(s) \/ RedisError(s)
      PROVE  Locks' /\ Kept
  BY <1>4, <1>5 DEF CheckPassFails, RedisError
<1>6. ASSUME NEW s \in Slot, LoginLock(s)
      PROVE  Locks' /\ Kept
  <2>1. CASE Locked(s)
    BY <1>4, <1>6, <2>1 DEF LoginLock
  <2>2. CASE ~Locked(s)
    <3> DEFINE v == proc[s].uid
    <3>1. proc[s] \in LoginProcs /\ v \in Uid
      BY <1>1, <1>6 DEF LoginLock
    <3>2. /\ proc' = [proc EXCEPT ![s] = [proc[s] EXCEPT !.pc = "info"]]
          /\ lock' = [lock EXCEPT ![v] = TRUE]
          /\ UNCHANGED online
          /\ ~lock[v]
      BY <1>6, <2>2 DEF LoginLock, Locked
    <3>3. proc'[s].pc = "info" /\ proc'[s].uid = v
      BY <3>1, <3>2 DEF LoginProcs
    <3>4. \A t \in Slot \ {s} : proc'[t] = proc[t]
      BY <3>2
    <3>5. \A t \in Slot, u \in Uid :
            InLogin(t, u)' => InLogin(t, u) \/ (t = s /\ u = v)
      BY <3>3, <3>4 DEF InLogin
    <3>6. \A t \in Slot : ~InLogin(t, v)
      BY <3>1, <3>2 DEF Held
    <3>7. Held'
      <4> SUFFICES ASSUME NEW t \in Slot, NEW u \in Uid, InLogin(t, u)'
                   PROVE  lock'[u]
        BY DEF Held
      <4>1. CASE u = v
        BY <3>1, <3>2, <4>1
      <4>2. CASE u # v
        BY <3>2, <3>5, <4>2 DEF Held
      <4> QED
        BY <4>1, <4>2
    <3>8. LoginExclusive'
      BY <3>5, <3>6 DEF LoginExclusive
    <3>9. Seen'
      BY <3>2, <3>3, <3>4 DEF Seen
    <3> QED
      BY <3>2, <3>7, <3>8, <3>9
  <2> QED
    BY <2>1, <2>2
<1>7. ASSUME NEW s \in Slot, LoginGetInfo(s)
      PROVE  Locks' /\ Kept
  <2>1. CASE OnlineElsewhere(s)
    BY <1>4, <1>7, <2>1 DEF LoginGetInfo
  <2>2. CASE ~OnlineElsewhere(s)
    <3> DEFINE v == proc[s].uid
    <3>1. proc[s] \in LoginProcs /\ v \in Uid
      BY <1>1, <1>7 DEF LoginGetInfo
    <3>2. /\ proc[s].pc = "info"
          /\ proc' = [proc EXCEPT
                        ![s] = [proc[s] EXCEPT !.pc = "online", !.snap = blob[v]]]
          /\ UNCHANGED <<online, lock>>
          /\ online[v] \in {NoGroup, proc[s].from}
      BY <1>7, <2>2 DEF LoginGetInfo, OnlineElsewhere
    <3>3. /\ proc'[s].pc = "online" /\ proc'[s].uid = v
          /\ proc'[s].from = proc[s].from
      BY <3>1, <3>2 DEF LoginProcs
    <3>4. \A t \in Slot \ {s} : proc'[t] = proc[t]
      BY <3>2
    <3>5. \A t \in Slot, u \in Uid : InLogin(t, u)' => InLogin(t, u)
      BY <3>2, <3>3, <3>4 DEF InLogin
    <3>6. Held' /\ LoginExclusive'
      BY <3>2, <3>5 DEF Held, LoginExclusive
    <3>7. Seen'
      BY <3>2, <3>3, <3>4 DEF Seen
    <3> QED
      BY <3>2, <3>6, <3>7
  <2> QED
    BY <2>1, <2>2
<1>8. ASSUME NEW s \in Slot, LoginUpdateOnline(s) \/ UpdateReplyLost(s)
      PROVE  Locks' /\ Kept
  <2> DEFINE v == proc[s].uid
  <2>1. proc[s] \in LoginProcs /\ v \in Uid
    BY <1>1, <1>8 DEF LoginUpdateOnline, UpdateReplyLost
  <2>2. /\ proc[s].pc = "online"
        /\ proc' = [proc EXCEPT ![s] = Idle]
        /\ online' = [online EXCEPT ![v] = proc[s].from]
        /\ UNCHANGED lock
    BY <1>8 DEF LoginUpdateOnline, UpdateReplyLost, Done
  <2>3. \A t \in Slot, u \in Uid : InLogin(t, u)' => t # s /\ InLogin(t, u)
    BY <2>2, Kinds DEF InLogin
  <2>4. Held' /\ LoginExclusive'
    BY <2>2, <2>3 DEF Held, LoginExclusive
  <2>5. Seen'
    <3> SUFFICES ASSUME NEW t \in Slot, proc'[t].pc = "online"
                 PROVE  online'[proc'[t].uid] \in {NoGroup, proc'[t].from}
      BY DEF Seen
    <3>1. t # s /\ proc'[t] = proc[t]
      BY <2>2, Kinds
    <3>2. proc[t].uid \in Uid
      BY <1>1, <3>1
    <3>3. InLogin(s, v) /\ InLogin(t, proc[t].uid)
      BY <2>2, <3>1 DEF InLogin
    <3>4. proc[t].uid # v
      BY <2>1, <3>1, <3>2, <3>3 DEF LoginExclusive
    <3> QED
      BY <2>2, <3>1, <3>2, <3>4 DEF Seen
  <2>6. Kept
    BY <2>1, <2>2 DEF Seen
  <2> QED
    BY <2>4, <2>5, <2>6
<1>9. ASSUME NEW s \in Slot, LogoutSave(s)
      PROVE  Locks' /\ Kept
  <2>1. /\ proc' = [proc EXCEPT ![s] = Idle]
        /\ online' = [online EXCEPT ![proc[s].uid] = NoGroup]
        /\ UNCHANGED lock
    BY <1>9 DEF LogoutSave, Done
  <2>2. \A t \in Slot : proc'[t] = Idle \/ proc'[t] = proc[t]
    BY <2>1
  <2>3. \A t \in Slot, u \in Uid : InLogin(t, u)' => InLogin(t, u)
    BY <2>2, Kinds DEF InLogin
  <2>4. Held' /\ LoginExclusive'
    BY <2>1, <2>3 DEF Held, LoginExclusive
  <2>5. \A u \in Uid : online'[u] \in {online[u], NoGroup}
    BY <2>1
  <2>6. Seen'
    BY <1>1, <2>2, <2>5, Kinds DEF Seen
  <2> QED
    BY <2>4, <2>5, <2>6
<1>10. ASSUME NEW u \in Uid, LockExpire(u)
       PROVE  Locks' /\ Kept
  <2>1. /\ \A s \in Slot : ~InLogin(s, u)
        /\ lock' = [lock EXCEPT ![u] = FALSE]
        /\ UNCHANGED <<proc, online>>
    BY <1>10 DEF LockExpire
  <2>2. \A t \in Slot, v \in Uid : InLogin(t, v)' <=> InLogin(t, v)
    BY <2>1 DEF InLogin
  <2>3. Held'
    BY <2>1, <2>2 DEF Held
  <2>4. LoginExclusive' /\ Seen'
    BY <2>1, <2>2 DEF LoginExclusive, Seen
  <2> QED
    BY <2>1, <2>3, <2>4
<1> QED
  BY <1>3, <1>5, <1>6, <1>7, <1>8, <1>9, <1>10 DEF DbNext

LEMMA StepLocks ==
  ASSUME LockOutlives, TypeOK, Locks, [Next]_vars
  PROVE  Locks' /\ \A u \in Uid : online'[u] # online[u] =>
                                     NoGroup \in {online[u], online'[u]}
<1>1. CASE DbNext
  BY <1>1, DbStepLocks
<1>2. CASE UNCHANGED dbVars
  BY <1>2 DEF dbVars, Locks, Held, LoginExclusive, Seen, InLogin
<1> QED
  BY <1>1, <1>2 DEF Next, vars

(* If no login procedure takes longer than the lock lives, the lock keeps  *)
(* two procedures for one user apart (user_login_lock).                    *)
THEOREM Locking ==
  ASSUME LockOutlives
  PROVE  Spec => []LoginExclusive
<1>1. Init => TypeOK /\ Locks
  BY InitTyped, InitLocks
<1>2. TypeOK /\ Locks /\ [Next]_vars => (TypeOK /\ Locks)'
  BY StepTyped, StepLocks
<1>3. Locks => LoginExclusive
  BY DEF Locks
<1> QED
  BY <1>1, <1>2, <1>3, PTL DEF Spec

(* Under the same assumption online_logic never goes from one logic_serv   *)
(* straight to another: what a procedure read of it can only have been     *)
(* reset by a logout since (user_login_get_info).                          *)
THEOREM Stealing ==
  ASSUME LockOutlives
  PROVE  Spec => NoSteal
<1> DEFINE Kept == \A u \in Uid : online'[u] # online[u] =>
                                    NoGroup \in {online[u], online'[u]}
<1>1. Init => TypeOK /\ Locks
  BY InitTyped, InitLocks
<1>2. TypeOK /\ Locks /\ [Next]_vars => (TypeOK /\ Locks)' /\ [Kept]_online
  BY StepTyped, StepLocks
<1>3. NoSteal <=> [][Kept]_online
  BY DEF NoSteal
<1> HIDE DEF Kept
<1> QED
  BY <1>1, <1>2, <1>3, PTL DEF Spec

-----------------------------------------------------------------------------
(* The count of users online. *)

LEMMA UserLogoutCounts ==
  ASSUME IsFiniteSet(Uid), TypeOK, OnlineCount,
         NEW l \in Group, NEW u \in Uid, NEW r, UserLogout(l, u, r)
  PROVE  OnlineCount'
<1> USE DEF TypeOK, LogicTypeOK
<1>1. CASE user_map[l][u] = Off
  BY <1>1 DEF UserLogout, OnlineCount, OnlineAt
<1>2. CASE user_map[l][u] # Off
  <2>1. /\ user_map' = [user_map EXCEPT ![l][u] = Off]
        /\ curr_online' =
             [curr_online EXCEPT ![l] = IF @ > 0 THEN @ - 1 ELSE 0]
    BY <1>2 DEF UserLogout
  <2>2. OnlineAt(l)' = OnlineAt(l) \ {u} /\ u \in OnlineAt(l)
    BY <1>2, <2>1 DEF OnlineAt
  <2>3. IsFiniteSet(OnlineAt(l))
    BY FS_Subset DEF OnlineAt
  <2>4. /\ Cardinality(OnlineAt(l)') = Cardinality(OnlineAt(l)) - 1
        /\ Cardinality(OnlineAt(l)) \in Nat
        /\ Cardinality(OnlineAt(l)') \in Nat
    BY <2>2, <2>3, FS_RemoveElement, FS_CardinalityType
  <2>5. curr_online[l] = Cardinality(OnlineAt(l))
    BY DEF OnlineCount
  <2>6. curr_online'[l] = Cardinality(OnlineAt(l)')
    BY <2>1, <2>4, <2>5
  <2>7. \A m \in Group \ {l} : /\ OnlineAt(m)' = OnlineAt(m)
                               /\ curr_online'[m] = curr_online[m]
    BY <2>1 DEF OnlineAt
  <2> QED
    BY <2>6, <2>7 DEF OnlineCount
<1> QED
  BY <1>1, <1>2

LEMMA LogicStepCounts ==
  ASSUME IsFiniteSet(Uid), TypeOK, OnlineCount, LogicNext
  PROVE  OnlineCount'
<1> USE DEF TypeOK, LogicTypeOK, ChannelsOK
<1>1. ASSUME UNCHANGED <<user_map, curr_online>>
      PROVE  OnlineCount'
  BY <1>1 DEF OnlineCount, OnlineAt
<1>2. ASSUME NEW l \in Group, Stop(l)
      PROVE  OnlineCount'
  <2>1. OnlineAt(l)' = {} /\ curr_online'[l] = 0
    BY <1>2 DEF Stop, OnlineAt
  <2>2. \A m \in Group \ {l} : /\ OnlineAt(m)' = OnlineAt(m)
                               /\ curr_online'[m] = curr_online[m]
    BY <1>2 DEF Stop, OnlineAt
  <2> QED
    BY <2>1, <2>2, FS_EmptySet DEF OnlineCount
<1>3. ASSUME NEW l \in Group, LogicRecvLoginReq(l) \/ LogicStart(l)
      PROVE  OnlineCount'
  BY <1>1, <1>3 DEF LogicRecvLoginReq, LogicStart, logicVars
<1>4. ASSUME NEW l \in Group, LogicRecvLogoutReq(l)
      PROVE  OnlineCount'
  <2> DEFINE m == Head(conn2logic[l])
  <2>1. conn2logic[l] # <<>> /\ m.type = "LOGOUT_REQ"
    BY <1>4 DEF LogicRecvLogoutReq, Pending
  <2>2. m \in LoginReqs \cup LogoutReqs
    BY <2>1, RecvTyped
  <2>3. m.uid \in Uid
    BY <2>2, Kinds
  <2>4. UNCHANGED <<user_map, curr_online>> \/ UserLogout(l, m.uid, m.reason)
    BY <1>4 DEF LogicRecvLogoutReq
  <2> HIDE DEF m
  <2> QED
    BY <1>1, <2>3, <2>4, UserLogoutCounts
<1>5. ASSUME NEW l \in Group, LogicRecvLoginRsp(l)
      PROVE  OnlineCount'
  <2> DEFINE m == Head(db2logic[l])
  <2>1. CASE ~Takes(l, m)
    BY <1>1, <1>5, <2>1 DEF LogicRecvLoginRsp
  <2>2. CASE Takes(l, m)
    <3>1. /\ user_map' = [user_map EXCEPT ![l][m.uid] = m.blob]
          /\ curr_online' = [curr_online EXCEPT ![l] = @ + 1]
          /\ user_map[l][m.uid] = Off
      BY <1>5, <2>2 DEF LogicRecvLoginRsp, Takes
    <3>2. m \in LoginRsps
      BY <1>5, RecvTyped DEF LogicRecvLoginRsp
    <3>3. m.uid \in Uid /\ m.blob # Off
      BY <2>2, <3>2, LogicConstantsOK DEF Takes, LoginRsps
    <3> HIDE DEF m
    <3>4. OnlineAt(l)' = OnlineAt(l) \cup {m.uid} /\ m.uid \notin OnlineAt(l)
      BY <3>1, <3>3 DEF OnlineAt
    <3>5. IsFiniteSet(OnlineAt(l))
      BY FS_Subset DEF OnlineAt
    <3>6. Cardinality(OnlineAt(l)') = Cardinality(OnlineAt(l)) + 1
      BY <3>4, <3>5, FS_AddElement
    <3>7. curr_online'[l] = Cardinality(OnlineAt(l)')
      BY <3>1, <3>6 DEF OnlineCount
    <3>8. \A n \in Group \ {l} : /\ OnlineAt(n)' = OnlineAt(n)
                                 /\ curr_online'[n] = curr_online[n]
      BY <3>1 DEF OnlineAt
    <3> QED
      BY <3>7, <3>8 DEF OnlineCount
  <2> QED
    BY <2>1, <2>2
<1>6. ASSUME NEW l \in Group, RecvDupUserKick(l)
      PROVE  OnlineCount'
  <2>1. Head(disp2logic[l]) \in KickMsgs
    BY <1>6, RecvTyped DEF RecvDupUserKick
  <2> QED
    BY <1>6, <2>1, Kinds, UserLogoutCounts DEF RecvDupUserKick
<1>7. ASSUME NEW l \in Group, NEW u \in Uid,
             CheckClientTimeout(l, u) \/ SaveRoleOnExit(l, u)
      PROVE  OnlineCount'
  BY <1>7, UserLogoutCounts DEF CheckClientTimeout, SaveRoleOnExit
<1>8. ASSUME NEW l \in Group, ServerExit(l) \/ Exited(l) \/ LogicCrash(l)
      PROVE  OnlineCount'
  BY <1>1, <1>2, <1>8 DEF ServerExit, Exited, LogicCrash
<1> QED
  BY <1>3, <1>4, <1>5, <1>6, <1>7, <1>8 DEF LogicNext

(* curr_online always counts the users in the user_map, so that ServerExit *)
(* never skips the saving of the roles while there are some.               *)
THEOREM Counting ==
  ASSUME IsFiniteSet(Uid)
  PROVE  Spec => []OnlineCount
<1>1. Init => TypeOK /\ OnlineCount
  <2> SUFFICES ASSUME Init
               PROVE  OnlineCount
    BY InitTyped
  <2>1. \A l \in Group : OnlineAt(l) = {} /\ curr_online[l] = 0
    BY DEF Init, LogicInit, OnlineAt
  <2> QED
    BY <2>1, FS_EmptySet DEF OnlineCount
<1>2. TypeOK /\ OnlineCount /\ [Next]_vars => (TypeOK /\ OnlineCount)'
  <2> SUFFICES ASSUME TypeOK, OnlineCount, [Next]_vars
               PROVE  OnlineCount'
    BY StepTyped
  <2>1. CASE LogicNext
    BY <2>1, LogicStepCounts
  <2>2. CASE UNCHANGED logicVars
    BY <2>2 DEF logicVars, OnlineCount, OnlineAt
  <2> QED
    BY <2>1, <2>2 DEF Next, vars
<1> QED
  BY <1>1, <1>2, PTL DEF Spec

-----------------------------------------------------------------------------
(* Where a user is at home.  While logins and logouts of him never overlap *)
(* (Separate), whatever is under way for him leads to the logic_serv that  *)
(* online_logic names, or finds online_logic reset; a login that holds the *)
(* lock finds nothing of a logout under way, and one that was refused for  *)
(* another home leaves the lock to cover the kick.  A connection still     *)
(* bound to a user who has left is told so: that is why no LOGOUT_RSP may  *)
(* be lost, for its client would log him out again, from his next home.    *)

(* The messages in a ring. *)
Msgs(q) == {q[i] : i \in DOMAIN q}

(* All channels are rings of messages. *)
Messages == LoginReqs \cup LogoutReqs \cup SaveReqs \cup LoginRsps
              \cup LogoutRsps \cup KickMsgs
Rings == [Group -> Seq(Messages)]

LEMMA AllRings ==
  ASSUME TypeOK
  PROVE  /\ conn2logic \in Rings /\ logic2conn \in Rings
         /\ logic2db \in Rings /\ db2logic \in Rings
         /\ logic2disp \in Rings /\ disp2logic \in Rings
<1>1. ASSUME NEW T, T \subseteq Messages
      PROVE  [Group -> Seq(T)] \subseteq Rings
  <2>1. Seq(T) \subseteq Seq(Messages)
    BY <1>1
  <2> QED
    BY <2>1 DEF Rings
<1>2. /\ LoginReqs \cup LogoutReqs \subseteq Messages
      /\ LoginRsps \cup LogoutRsps \subseteq Messages
      /\ LoginReqs \cup SaveReqs \subseteq Messages
      /\ LoginRsps \subseteq Messages /\ KickMsgs \subseteq Messages
  BY DEF Messages
<1>3. /\ conn2logic \in [Group -> Seq(LoginReqs \cup LogoutReqs)]
      /\ logic2conn \in [Group -> Seq(LoginRsps \cup LogoutRsps)]
      /\ logic2db \in [Group -> Seq(LoginReqs \cup SaveReqs)]
      /\ db2logic \in [Group -> Seq(LoginRsps)]
      /\ logic2disp \in [Group -> Seq(KickMsgs)]
      /\ disp2logic \in [Group -> Seq(KickMsgs)]
  BY DEF TypeOK, ChannelsOK
<1> QED
  BY <1>1, <1>2, <1>3

LEMMA SendMsgs ==
  ASSUME NEW ch \in Rings, NEW g \in Group, NEW m, NEW h \in Group
  PROVE  /\ Msgs(Send(ch, g, m)[h]) \subseteq
              Msgs(ch[h]) \cup (IF h = g THEN {m} ELSE {})
         /\ Msgs(ch[h]) \subseteq Msgs(Send(ch, g, m)[h])
         /\ Len(ch[g]) < ChanCap => m \in Msgs(Send(ch, g, m)[g])
<1> DEFINE S == Messages \cup {m}
<1>0. ch \in [Group -> Seq(S)] /\ m \in S
  <2>1. \A f \in Group : ch[f] \in Seq(S)
    BY DEF Rings
  <2> QED
    BY <2>1 DEF Rings
<1> HIDE DEF S
<1>1. CASE h # g
  <2>1. Send(ch, g, m)[h] = ch[h]
    BY <1>0, <1>1 DEF Send
  <2>2. Len(ch[g]) < ChanCap => m \in Msgs(Send(ch, g, m)[g])
    <3> SUFFICES ASSUME Len(ch[g]) < ChanCap
                 PROVE  m \in Msgs(Send(ch, g, m)[g])
      OBVIOUS
    <3>1. Send(ch, g, m)[g] = Append(ch[g], m)
      BY <1>0 DEF Send, Offer
    <3>2. /\ Len(ch[g]) + 1 \in DOMAIN Append(ch[g], m)
          /\ Append(ch[g], m)[Len(ch[g]) + 1] = m
      BY <1>0
    <3> QED
      BY <3>1, <3>2 DEF Msgs
  <2> QED
    BY <2>1, <2>2
<1>2. CASE h = g
  <2>1. CASE Len(ch[g]) < ChanCap
    <3> DEFINE q == Append(ch[g], m)
    <3>1. Send(ch, g, m)[g] = q
      BY <1>0, <2>1 DEF Send, Offer
    <3>2. /\ DOMAIN ch[g] = 1 .. Len(ch[g]) /\ Len(ch[g]) \in Nat
          /\ DOMAIN q = 1 .. Len(ch[g]) + 1
          /\ \A i \in 1 .. Len(ch[g]) : q[i] = ch[g][i]
          /\ q[Len(ch[g]) + 1] = m
      BY <1>0
    <3> HIDE DEF q
    <3>3. Msgs(q) \subseteq Msgs(ch[g]) \cup {m}
      BY <3>2 DEF Msgs
    <3>4. Msgs(ch[g]) \subseteq Msgs(q) /\ m \in Msgs(q)
      BY <3>2 DEF Msgs
    <3> QED
      BY <1>2, <3>1, <3>3, <3>4
  <2>2. CASE ~(Len(ch[g]) < ChanCap)
    <3>1. Send(ch, g, m)[g] = ch[g]
      BY <1>0, <2>2 DEF Send, Offer
    <3> QED
      BY <1>2, <2>2, <3>1
  <2> QED
    BY <2>1, <2>2
<1> QED
  BY <1>1, <1>2

LEMMA RecvMsgs ==
  ASSUME NEW ch \in Rings, NEW g \in Group, ch[g] # <<>>, NEW h \in Group
  PROVE  /\ Msgs(Recv(ch, g)[h]) \subseteq Msgs(ch[h])
         /\ Msgs(ch[h]) \subseteq
              Msgs(Recv(ch, g)[h]) \cup (IF h = g THEN {Head(ch[g])} ELSE {})
         /\ Head(ch[g]) \in Msgs(ch[g])
<1> DEFINE q == ch[g]
<1>1. Recv(ch, g) = [ch EXCEPT ![g] = Tail(q)]
  BY DEF Recv, Rings
<1>2. /\ q \in Seq(Messages) /\ Len(q) \in Nat \ {0}
      /\ DOMAIN q = 1 .. Len(q) /\ DOMAIN Tail(q) = 1 .. Len(q) - 1
      /\ \A i \in 1 .. Len(q) - 1 : Tail(q)[i] = q[i + 1]
      /\ Head(q) = q[1]
  BY DEF Rings
<1>3. Recv(ch, g)[h] = IF h = g THEN Tail(q) ELSE ch[h]
  BY <1>1 DEF Rings
<1> HIDE DEF q
<1>4. Msgs(Tail(q)) \subseteq Msgs(q)
  BY <1>2 DEF Msgs
<1>5. Msgs(q) \subseteq Msgs(Tail(q)) \cup {Head(q)}
  <2> SUFFICES ASSUME NEW i \in 1 .. Len(q), i # 1
               PROVE  q[i] \in Msgs(Tail(q))
    BY <1>2 DEF Msgs
  <2>1. i - 1 \in 1 .. Len(q) - 1 /\ Tail(q)[i - 1] = q[i]
    BY <1>2
  <2> QED
    BY <1>2, <2>1 DEF Msgs
<1>6. Head(q) \in Msgs(q)
  BY <1>2 DEF Msgs
<1> QED
  BY <1>3, <1>4, <1>5, <1>6 DEF q


(* What is under way for user u: asking to log in ... *)
Asking(u) ==
  \/ \E g \in Group : \E m \in Msgs(conn2logic[g]) \cup Msgs(logic2db[g]) :
        m.type = "LOGIN_REQ" /\ m.uid = u
  \/ \E s \in Slot : proc[s].pc = "pass" /\ proc[s].uid = u
Ready(g, u, b) ==
  \E s \in Slot : /\ proc[s].pc = "online" /\ proc[s].uid = u
                  /\ proc[s].from = g /\ proc[s].snap = b
Granting(g, u, b) ==
  \E m \in Msgs(db2logic[g]) : m.result = "SUCCESS" /\ m.uid = u /\ m.blob = b
Granted(g, u) ==
  \E m \in Msgs(logic2conn[g]) :
     m.type = "LOGIN_RSP" /\ m.result = "SUCCESS" /\ m.uid = u
Refusing(h, u) ==
  \E g \in Group : \E m \in Msgs(db2logic[g]) :
     m.result = "MULTI_ON" /\ m.uid = u /\ m.online = h
(* ... and a logout *)
Asked(g, u) ==
  \E m \in Msgs(conn2logic[g]) :
     m.type = "LOGOUT_REQ" /\ m.uid = u /\ m.reason # "CONN_CLOSED"
Kicked(h, u) ==
  \/ \E g \in Group : KickMsg(h, u) \in Msgs(logic2disp[g])
  \/ \E m \in Msgs(disp2logic[h]) : m.uid = u
Out(u) ==
  \/ \E g \in Group : \E m \in Msgs(logic2db[g]) :
        m.type = "LOGOUT_REQ" /\ m.uid = u
  \/ \E s \in Slot : proc[s].pc = "save" /\ proc[s].uid = u
Told(g, u) ==
  \E m \in Msgs(logic2conn[g]) : m.type = "LOGOUT_RSP" /\ m.uid = u
BoundAt(g, u) == \E k \in Key : ConnOf[k] = g /\ ckey2uid[k] = u

Admitted(u) ==
  \E g \in Group : Granted(g, u) \/ \E b \in Ver : Granting(g, u, b)
Entering(u) == Admitted(u) \/ \E s \in Slot : InLogin(s, u)
Leaving(u) ==
  Out(u) \/ \E g \in Group : Asked(g, u) \/ Kicked(g, u) \/ Told(g, u)

Home(u) ==
  /\ Entering(u) => lock[u] /\ ~Leaving(u) /\ \A h \in Group : ~Refusing(h, u)
  /\ \A s \in Slot : InLogin(s, u) =>
        ~Admitted(u) /\ \A t \in Slot : InLogin(t, u) => s = t
  /\ (Asking(u) /\ Leaving(u)) \/ (\E h \in Group : Refusing(h, u)) => lock[u]
  /\ \A g \in Group : Granted(g, u) => online[u] = g
  /\ \A g \in Group, b \in Ver :
        Granting(g, u, b) => online[u] = g /\ b = blob[u]
  /\ \A g \in Group, b \in Ver :
        Ready(g, u, b) => online[u] \in {NoGroup, g} /\ b = blob[u]
  /\ \A g \in Group :
        Asked(g, u) \/ Kicked(g, u) \/ Told(g, u) \/ Refusing(g, u) =>
           online[u] \in {NoGroup, g}
  /\ \A g \in Group :
        BoundAt(g, u) => Told(g, u) \/ (online[u] = g /\ ~Out(u))
  /\ \A g \in Group :
        user_map[g][u] # Off =>
           online[u] = g /\ ~Out(u) /\ user_map[g][u] = blob[u]

Homes == \A u \in Uid : Home(u)

(* A step that does nothing new for u. *)
NoneAsks(u) == Asking(u)' => Asking(u)
NoneEnters(u) ==
  /\ \A s \in Slot : InLogin(s, u)' => InLogin(s, u)
  /\ \A g \in Group, b \in Ver : Ready(g, u, b)' => Ready(g, u, b)
NoneAnswers(u) ==
  /\ \A g \in Group, b \in Ver : Granting(g, u, b)' => Granting(g, u, b)
  /\ \A g \in Group : Refusing(g, u)' => Refusing(g, u)
NoneLeaves(u) ==
  /\ Out(u)' => Out(u)
  /\ \A g \in Group : (Asked(g, u)' => Asked(g, u))
                      /\ (Kicked(g, u)' => Kicked(g, u))
NoneTold(u) ==
  /\ \A g \in Group : Granted(g, u)' => Granted(g, u)
  /\ \A g \in Group : Told(g, u)' => Told(g, u)
  /\ \A g \in Group : BoundAt(g, u)' =>
                         BoundAt(g, u) /\ (Told(g, u) => Told(g, u)')
Redis(u) == <<online[u], blob[u], lock[u]>>
NoneTakes(u) ==
  \A g \in Group : user_map'[g][u] \in {user_map[g][u], Off}
Quiet(u) ==
  /\ NoneAsks(u) /\ NoneEnters(u) /\ NoneAnswers(u) /\ NoneLeaves(u)
  /\ NoneTold(u) /\ UNCHANGED Redis(u) /\ NoneTakes(u)

LEMMA QuietHome ==
  ASSUME NEW u \in Uid, Home(u), Quiet(u)
  PROVE  Home(u)'
<1> USE DEF Quiet, NoneAsks, NoneEnters, NoneAnswers, NoneLeaves, NoneTold,
            Redis, NoneTakes
<1>1. Admitted(u)' => Admitted(u)
  BY DEF Admitted
<1>2. Entering(u)' => Entering(u)
  BY <1>1 DEF Entering
<1>3. Leaving(u)' => Leaving(u)
  BY DEF Leaving
<1> QED
  BY <1>1, <1>2, <1>3 DEF Home

(* What rests on unchanged variables is the same for every user. *)
LEMMA SameAsks ==
  ASSUME NEW u, UNCHANGED <<conn2logic, logic2db, proc>>
  PROVE  NoneAsks(u)
BY DEF NoneAsks, Asking

LEMMA SameEnters ==
  ASSUME NEW u, UNCHANGED proc
  PROVE  NoneEnters(u)
BY DEF NoneEnters, InLogin, Ready

LEMMA SameAnswers ==
  ASSUME NEW u, UNCHANGED db2logic
  PROVE  NoneAnswers(u)
BY DEF NoneAnswers, Granting, Refusing

LEMMA SameLeaves ==
  ASSUME NEW u, UNCHANGED <<conn2logic, logic2db, logic2disp, disp2logic, proc>>
  PROVE  NoneLeaves(u)
BY DEF NoneLeaves, Out, Asked, Kicked

LEMMA SameTold ==
  ASSUME NEW u, UNCHANGED <<logic2conn, ckey2uid>>
  PROVE  NoneTold(u)
BY DEF NoneTold, Granted, Told, BoundAt

LEMMA SameRedis ==
  ASSUME NEW u, UNCHANGED <<online, blob, lock>>
  PROVE  UNCHANGED Redis(u)
BY DEF Redis

LEMMA SameTakes ==
  ASSUME NEW u, UNCHANGED user_map
  PROVE  NoneTakes(u)
BY DEF NoneTakes

(* What MayLogin, MayLogout and MayLapse look for. *)
LEMMA NoLogout ==
  ASSUME NEW u, ~LogoutUnderWay(u)
  PROVE  ~Leaving(u)
<1> USE DEF Msgs, LogoutUnderWay, Named
<1>1. ~Out(u)
  BY DEF Out
<1>2. ASSUME NEW g \in Group
      PROVE  ~Asked(g, u) /\ ~Kicked(g, u) /\ ~Told(g, u)
  <2>1. ~Asked(g, u)
    BY DEF Asked
  <2>2. ~Told(g, u)
    BY DEF Told
  <2>3. ~Kicked(g, u)
    BY DEF Kicked, KickMsg
  <2> QED
    BY <2>1, <2>2, <2>3
<1> QED
  BY <1>1, <1>2 DEF Leaving

LEMMA NoLogin ==
  ASSUME ChannelsOK, NEW u, ~LoginUnderWay(u)
  PROVE  /\ ~Asking(u) /\ ~Entering(u)
         /\ \A h \in Group : ~Refusing(h, u)
<1>1. ~Asking(u)
  BY DEF Msgs, LoginUnderWay, Named, Asking
<1>2. \A s \in Slot : ~InLogin(s, u)
  BY DEF LoginUnderWay, InLogin
<1>3. ASSUME NEW g \in Group
      PROVE  ~Granted(g, u)
  BY DEF Msgs, LoginUnderWay, Named, Granted
<1>4. ASSUME NEW g \in Group, NEW m \in Msgs(db2logic[g])
      PROVE  m.uid # u
  <2>1. m \in LoginRsps
    BY DEF ChannelsOK, Msgs
  <2> QED
    BY <2>1, Kinds DEF Msgs, LoginUnderWay, Named
<1>5. \A g \in Group : ~Refusing(g, u) /\ \A b \in Ver : ~Granting(g, u, b)
  BY <1>4 DEF Refusing, Granting
<1> QED
  BY <1>1, <1>2, <1>3, <1>5 DEF Entering, Admitted

(* A login may be asked for while nothing of u is on its way out. *)
LEMMA AsksHome ==
  ASSUME NEW u \in Uid, Home(u), ~Leaving(u), NoneEnters(u), NoneAnswers(u),
         NoneLeaves(u), NoneTold(u), UNCHANGED Redis(u), NoneTakes(u)
  PROVE  Home(u)'
<1> USE DEF NoneEnters, NoneAnswers, NoneLeaves, NoneTold, Redis, NoneTakes
<1>1. Admitted(u)' => Admitted(u)
  BY DEF Admitted
<1>2. Entering(u)' => Entering(u)
  BY <1>1 DEF Entering
<1>3. ~Leaving(u)'
  BY DEF Leaving
<1> QED
  BY <1>1, <1>2, <1>3 DEF Home

LEMMA ClientLoginHome ==
  ASSUME TypeOK, Separate, NEW k \in Key, NEW v \in Uid, MayLogin(v),
         ClientLogin(k, v), UNCHANGED <<logicVars, dbVars>>,
         NEW u \in Uid, Home(u)
  PROVE  Home(u)'
<1>1. ConnOf[k] \in Group /\ LoginReq(k, v) \in LoginReqs \cup LogoutReqs
  BY ConstantsOK DEF LoginReq, LoginReqs
<1>2. \A g \in Group : Msgs(conn2logic'[g]) \subseteq
                          Msgs(conn2logic[g]) \cup {LoginReq(k, v)}
  BY <1>1, SendMsgs, AllRings DEF ClientLogin
<1>3. LoginReq(k, v).type = "LOGIN_REQ" /\ LoginReq(k, v).uid = v
  BY DEF LoginReq
<1>4. UNCHANGED <<connVars, logicVars, dbVars, logic2conn, logic2db, db2logic,
                  logic2disp, disp2logic>>
  BY DEF ClientLogin
<1>5. /\ NoneEnters(u) /\ NoneAnswers(u) /\ NoneTold(u)
      /\ UNCHANGED Redis(u) /\ NoneTakes(u)
  BY <1>4, SameEnters, SameAnswers, SameTold, SameRedis, SameTakes
  DEF connVars, logicVars, dbVars
<1>6. NoneLeaves(u)
  <2>1. \A g \in Group : Asked(g, u)' => Asked(g, u)
    BY <1>2, <1>3 DEF Asked
  <2> QED
    BY <1>4, <2>1 DEF NoneLeaves, Out, Kicked, dbVars
<1>7. CASE u = v
  <2>1. ~Leaving(u)
    BY <1>7, NoLogout DEF MayLogin
  <2> QED
    BY <1>5, <1>6, <2>1, AsksHome
<1>8. CASE u # v
  <2>1. NoneAsks(u)
    BY <1>2, <1>3, <1>4, <1>8 DEF NoneAsks, Asking, dbVars
  <2> QED
    BY <1>5, <1>6, <2>1, QuietHome DEF Quiet
<1> QED
  BY <1>7, <1>8

LEMMA ClientLogoutHome ==
  ASSUME TypeOK, Separate, NEW k \in Key, MayLogout(ckey2uid[k]),
         ClientLogout(k), UNCHANGED <<logicVars, dbVars>>,
         NEW u \in Uid, Home(u)
  PROVE  Home(u)'
<1> DEFINE v == ckey2uid[k]
           m == LogoutReq(v, "CLIENT_EXIT")
           g == ConnOf[k]
<1>1. g \in Group /\ m \in LoginReqs \cup LogoutReqs /\ v \in Uid
  BY ConstantsOK
  DEF TypeOK, ConnTypeOK, ClientLogout, LogoutReq, LogoutReqs, Reason
<1>2. m.type = "LOGOUT_REQ" /\ m.uid = v
  BY DEF LogoutReq
<1>3. conn2logic' = Send(conn2logic, g, m)
  BY DEF ClientLogout
<1>4. UNCHANGED <<connVars, logicVars, dbVars, logic2conn, logic2db, db2logic,
                  logic2disp, disp2logic>>
  BY DEF ClientLogout
<1>5. BoundAt(g, v)
  BY DEF BoundAt
<1>6. MayLogout(v)
  OBVIOUS
<1> HIDE DEF v, m, g
<1>7. \A h \in Group : Msgs(conn2logic'[h]) \subseteq
                          Msgs(conn2logic[h]) \cup (IF h = g THEN {m} ELSE {})
  BY <1>1, <1>3, SendMsgs, AllRings
<1>8. /\ NoneEnters(u) /\ NoneAnswers(u) /\ NoneTold(u)
      /\ UNCHANGED Redis(u) /\ NoneTakes(u)
  BY <1>4, SameEnters, SameAnswers, SameTold, SameRedis, SameTakes
  DEF connVars, logicVars, dbVars
<1>9. NoneAsks(u)
  BY <1>2, <1>4, <1>7 DEF NoneAsks, Asking, dbVars
<1>10. (Out(u)' => Out(u)) /\ \A h \in Group : Kicked(h, u)' => Kicked(h, u)
  BY <1>4 DEF Out, Kicked, dbVars
<1>11. \A h \in Group : Asked(h, u)' => Asked(h, u) \/ (h = g /\ u = v)
  BY <1>2, <1>7 DEF Asked
<1>12. CASE u # v
  BY <1>8, <1>9, <1>10, <1>11, <1>12, QuietHome DEF Quiet, NoneLeaves
<1>13. CASE u = v
  <2>1. /\ ~Asking(u) /\ ~Entering(u)
        /\ \A h \in Group : ~Refusing(h, u)
    BY <1>6, <1>13, NoLogin DEF MayLogout, TypeOK
  <2>2. online[u] \in {NoGroup, g}
    BY <1>1, <1>5, <1>13 DEF Home
  <2>3. /\ ~Asking(u)' /\ ~Entering(u)'
        /\ \A h \in Group : ~Refusing(h, u)'
    BY <1>8, <1>9, <2>1
    DEF NoneAsks, NoneEnters, NoneAnswers, NoneTold, Entering, Admitted
  <2> QED
    BY <1>8, <1>10, <1>11, <2>1, <2>2, <2>3
    DEF Home, NoneEnters, NoneAnswers, NoneTold, NoneTakes, Redis, Entering,
        Admitted
<1> QED
  BY <1>12, <1>13

LEMMA ConnClosedHome ==
  ASSUME TypeOK, NEW k \in Key, ConnClosed(k), UNCHANGED <<logicVars, dbVars>>,
         NEW u \in Uid, Home(u)
  PROVE  Home(u)'
<1> DEFINE m == LogoutReq(ckey2uid[k], "CONN_CLOSED")
<1>1. UNCHANGED <<logicVars, dbVars, logic2conn, logic2db, db2logic,
                  logic2disp, disp2logic>>
  BY DEF ConnClosed
<1>2. \A g \in Group : Msgs(conn2logic'[g]) \subseteq Msgs(conn2logic[g]) \cup {m}
  <2>1. CASE ckey2uid[k] = NoUid
    BY <2>1 DEF ConnClosed
  <2>2. CASE ckey2uid[k] # NoUid
    <3>1. conn2logic' = Send(conn2logic, ConnOf[k], m) /\ ConnOf[k] \in Group
      BY <2>2, ConstantsOK DEF ConnClosed
    <3> HIDE DEF m
    <3> QED
      BY <3>1, SendMsgs, AllRings
  <2> QED
    BY <2>1, <2>2
<1>3. m.type = "LOGOUT_REQ" /\ m.reason = "CONN_CLOSED"
  BY DEF LogoutReq
<1> HIDE DEF m
<1>4. \A j \in Key : ckey2uid'[j] \in {ckey2uid[j], NoUid}
  BY DEF ConnClosed, ClearMaps, TypeOK, ConnTypeOK
<1>5. NoneTold(u)
  <2>1. \A g \in Group : BoundAt(g, u)' => BoundAt(g, u)
    BY <1>4, ConstantsOK DEF BoundAt
  <2> QED
    BY <1>1, <2>1 DEF NoneTold, Granted, Told
<1>6. /\ NoneEnters(u) /\ NoneAnswers(u) /\ UNCHANGED Redis(u) /\ NoneTakes(u)
  BY <1>1, SameEnters, SameAnswers, SameRedis, SameTakes
  DEF logicVars, dbVars
<1>7. NoneAsks(u)
  BY <1>1, <1>2, <1>3 DEF NoneAsks, Asking, dbVars
<1>8. NoneLeaves(u)
  BY <1>1, <1>2, <1>3 DEF NoneLeaves, Out, Asked, Kicked, dbVars
<1> QED
  BY <1>5, <1>6, <1>7, <1>8, QuietHome DEF Quiet

LEMMA SocketHome ==
  ASSUME NEW k \in Key, ServerClosed(k) \/ Accept(k, KeyInUse(k)),
         UNCHANGED <<logicVars, dbVars>>, NEW u \in Uid, Home(u)
  PROVE  Home(u)'
<1>1. UNCHANGED <<ckey2uid, logicVars, dbVars, channels>>
  BY DEF ServerClosed, Accept
<1> QED
  BY <1>1, SameAsks, SameEnters, SameAnswers, SameLeaves, SameTold, SameRedis,
     SameTakes, QuietHome
  DEF Quiet, logicVars, dbVars, channels

LEMMA ConnLoginRspHome ==
  ASSUME TypeOK, Bound, NEW g \in Group, ConnRecvLoginRsp(g),
         UNCHANGED <<logicVars, dbVars>>, NEW u \in Uid, Home(u)
  PROVE  Home(u)'
<1> DEFINE m == Head(logic2conn[g])
<1>1. UNCHANGED <<logicVars, dbVars, conn2logic, logic2db, db2logic,
                  logic2disp, disp2logic>>
  BY DEF ConnRecvLoginRsp
<1>2. /\ logic2conn[g] # <<>> /\ m.type = "LOGIN_RSP"
      /\ logic2conn' = Recv(logic2conn, g)
  BY DEF ConnRecvLoginRsp, Pending
<1>3. m \in ToConn[g]
  BY <1>2 DEF Bound, Addressed
<1>4. m.key \in Key /\ ConnOf[m.key] = g
  BY <1>2, <1>3, Kinds DEF ToConn, OwnRsps
<1>5. \/ ckey2uid' = ckey2uid
      \/ m.result = "SUCCESS" /\ ckey2uid' = [ckey2uid EXCEPT ![m.key] = m.uid]
  BY DEF ConnRecvLoginRsp
<1> HIDE DEF m
<1>6. \A h \in Group :
         /\ Msgs(logic2conn'[h]) \subseteq Msgs(logic2conn[h])
         /\ Msgs(logic2conn[h]) \subseteq
              Msgs(logic2conn'[h]) \cup (IF h = g THEN {m} ELSE {})
  BY <1>2, RecvMsgs, AllRings DEF m
<1>7. m \in Msgs(logic2conn[g])
  BY <1>2, RecvMsgs, AllRings DEF m
<1>8. /\ NoneAsks(u) /\ NoneEnters(u) /\ NoneAnswers(u) /\ NoneLeaves(u)
      /\ UNCHANGED Redis(u) /\ NoneTakes(u)
  BY <1>1, SameAsks, SameEnters, SameAnswers, SameLeaves, SameRedis, SameTakes
  DEF logicVars, dbVars
<1>9. \A h \in Group : /\ Granted(h, u)' => Granted(h, u)
                       /\ Told(h, u)' <=> Told(h, u)
  BY <1>2, <1>6 DEF Granted, Told
<1>10. \A h \in Group : BoundAt(h, u)' => \/ BoundAt(h, u)
                                          \/ h = g /\ u = m.uid /\ m.result = "SUCCESS"
  BY <1>4, <1>5 DEF BoundAt, TypeOK, ConnTypeOK
<1>11. CASE u = m.uid /\ m.result = "SUCCESS"
  <2>1. Granted(g, u)
    BY <1>2, <1>7, <1>11 DEF Granted
  <2>2. online[u] = g /\ ~Out(u)
    BY <2>1 DEF Home, Entering, Admitted, Leaving
  <2>3. Admitted(u)' => Admitted(u)
    BY <1>8, <1>9 DEF Admitted, NoneAnswers
  <2>4. Entering(u)' => Entering(u)
    BY <1>8, <2>3 DEF Entering, NoneEnters
  <2>5. Leaving(u)' => Leaving(u)
    BY <1>8, <1>9 DEF Leaving, NoneLeaves
  <2> QED
    BY <1>8, <1>9, <1>10, <1>11, <2>2, <2>3, <2>4, <2>5
    DEF Home, NoneAsks, NoneEnters, NoneAnswers, NoneLeaves, Redis, NoneTakes
<1>12. CASE ~(u = m.uid /\ m.result = "SUCCESS")
  BY <1>8, <1>9, <1>10, <1>12, QuietHome DEF Quiet, NoneTold
<1> QED
  BY <1>11, <1>12

LEMMA ConnLogoutRspHome ==
  ASSUME TypeOK, Bound, NEW g \in Group, ConnRecvLogoutRsp(g),
         UNCHANGED <<logicVars, dbVars>>, NEW u \in Uid, Home(u)
  PROVE  Home(u)'
<1> DEFINE m == Head(logic2conn[g])
           k == uid2ckey[g][m.uid]
<1>1. UNCHANGED <<logicVars, dbVars, conn2logic, logic2db, db2logic,
                  logic2disp, disp2logic>>
  BY DEF ConnRecvLogoutRsp
<1>2. /\ logic2conn[g] # <<>> /\ m.type = "LOGOUT_RSP"
      /\ logic2conn' = Recv(logic2conn, g)
  BY DEF ConnRecvLogoutRsp, Pending
<1>3. ckey2uid' = IF k = NoKey THEN ckey2uid
                  ELSE [ckey2uid EXCEPT ![k] = NoUid]
  BY DEF ConnRecvLogoutRsp, connVars
<1>4. \A h \in Group :
         /\ Msgs(logic2conn'[h]) \subseteq Msgs(logic2conn[h])
         /\ Msgs(logic2conn[h]) \subseteq
              Msgs(logic2conn'[h]) \cup (IF h = g THEN {m} ELSE {})
  BY <1>2, RecvMsgs, AllRings
<1>5. /\ NoneAsks(u) /\ NoneEnters(u) /\ NoneAnswers(u) /\ NoneLeaves(u)
      /\ UNCHANGED Redis(u) /\ NoneTakes(u)
  BY <1>1, SameAsks, SameEnters, SameAnswers, SameLeaves, SameRedis, SameTakes
  DEF logicVars, dbVars
<1>6. \A h \in Group : /\ Granted(h, u)' => Granted(h, u)
                       /\ Told(h, u)' => Told(h, u)
                       /\ BoundAt(h, u)' => BoundAt(h, u)
  <2>1. \A j \in Key : ckey2uid'[j] \in {ckey2uid[j], NoUid}
    BY <1>3 DEF TypeOK, ConnTypeOK
  <2> QED
    BY <1>4, <2>1, ConstantsOK DEF Granted, Told, BoundAt
<1>7. ASSUME NEW h \in Group, BoundAt(h, u)', Told(h, u), ~Told(h, u)'
      PROVE  FALSE
  <2>1. h = g /\ m.uid = u
    BY <1>4, <1>7 DEF Told
  <2>2. PICK j \in Key : ConnOf[j] = g /\ ckey2uid'[j] = u
    BY <1>7, <2>1 DEF BoundAt
  <2>3. ckey2uid[j] = u
    BY <1>3, <2>2, ConstantsOK DEF TypeOK, ConnTypeOK
  <2>4. uid2ckey[g][u] = j
    BY <2>2, <2>3, ConstantsOK DEF Bound, OneClientPerUser
  <2>5. k = j
    BY <2>1, <2>4
  <2> QED
    BY <1>3, <2>2, <2>5, ConstantsOK DEF TypeOK, ConnTypeOK
<1> HIDE DEF m, k
<1> QED
  BY <1>5, <1>6, <1>7, QuietHome DEF Quiet, NoneTold

LEMMA ConnStepHome ==
  ASSUME TypeOK, Bound, Separate, ConnNext, UNCHANGED <<logicVars, dbVars>>,
         NEW u \in Uid, Home(u)
  PROVE  Home(u)'
BY ClientLoginHome, ClientLogoutHome, ConnClosedHome, SocketHome,
   ConnLoginRspHome, ConnLogoutRspHome DEF ConnNext

(* A goroutine that ends: what it was doing is over. *)
LEMMA DoneQuiet ==
  ASSUME NEW s \in Slot, Done(s), NEW u \in Uid
  PROVE  /\ NoneEnters(u)
         /\ \A t \in Slot : proc'[t].pc # "idle" => proc'[t] = proc[t]
<1>1. \A t \in Slot : proc'[t].pc # "idle" => proc'[t] = proc[t]
  BY Kinds DEF Done
<1> QED
  BY <1>1 DEF NoneEnters, InLogin, Ready

(* A goroutine takes a request: what was in the ring is in the goroutine. *)
LEMMA StartHome ==
  ASSUME TypeOK, NEW g \in Group, NEW s \in Slot,
         RecvUserLoginReq(g, s) \/ RecvUserLogoutReq(g, s),
         UNCHANGED <<connVars, logicVars>>, NEW u \in Uid, Home(u)
  PROVE  Home(u)'
<1> DEFINE m == Head(logic2db[g])
<1>1. /\ logic2db[g] # <<>> /\ logic2db' = Recv(logic2db, g)
      /\ UNCHANGED <<ckey2uid, user_map, online, blob, lock, conn2logic,
                     logic2conn, db2logic, logic2disp, disp2logic>>
  BY DEF RecvUserLoginReq, RecvUserLogoutReq, Pending, connVars, logicVars
<1>2. /\ \A h \in Group : Msgs(logic2db'[h]) \subseteq Msgs(logic2db[h])
      /\ m \in Msgs(logic2db[g])
  BY <1>1, RecvMsgs, AllRings
<1>3. /\ \A t \in Slot \ {s} : proc'[t] = proc[t]
      /\ proc'[s].uid = m.uid
      /\ \/ proc'[s].pc = "pass" /\ m.type = "LOGIN_REQ"
         \/ proc'[s].pc = "save" /\ m.type = "LOGOUT_REQ"
  BY DEF RecvUserLoginReq, RecvUserLogoutReq, Pending, TypeOK, DbTypeOK
<1> HIDE DEF m
<1>4. NoneEnters(u)
  BY <1>3 DEF NoneEnters, InLogin, Ready
<1>5. NoneAsks(u)
  BY <1>1, <1>2, <1>3 DEF NoneAsks, Asking
<1>6. NoneLeaves(u)
  BY <1>1, <1>2, <1>3 DEF NoneLeaves, Out, Asked, Kicked
<1> QED
  BY <1>1, <1>4, <1>5, <1>6, SameAnswers, SameTold, SameRedis, SameTakes,
     QuietHome
  DEF Quiet

(* A procedure that ends with an answer that names nobody, or with none. *)
LEMMA GiveUpHome ==
  ASSUME TypeOK, NEW s \in Slot,
         CheckPassFails(s) \/ (LoginLock(s) /\ Locked(s)) \/ RedisError(s),
         UNCHANGED <<connVars, logicVars>>, NEW u \in Uid, Home(u)
  PROVE  Home(u)'
<1>1. /\ Done(s)
      /\ UNCHANGED <<ckey2uid, user_map, online, blob, lock, conn2logic,
                     logic2conn, logic2db, logic2disp, disp2logic>>
  BY DEF CheckPassFails, LoginLock, RedisError, connVars, logicVars, channels
<1>2. NoneAnswers(u)
  <2>1. CASE UNCHANGED db2logic
    BY <2>1, SameAnswers
  <2>2. ASSUME NEW m, m.uid = NoUid, Answer(s, m), proc[s] \in LoginProcs
        PROVE  NoneAnswers(u)
    <3>1. PICK f \in Group : db2logic' = Send(db2logic, f, m)
      BY <2>2, Kinds DEF Answer
    <3>2. \A g \in Group : Msgs(db2logic'[g]) \subseteq Msgs(db2logic[g]) \cup {m}
      BY <3>1, SendMsgs, AllRings
    <3>3. m.uid # u
      BY <2>2, ConstantsOK
    <3> QED
      BY <3>2, <3>3 DEF NoneAnswers, Granting, Refusing
  <2>3. proc[s].pc = "pass" => proc[s] \in LoginProcs
    BY Kinds DEF TypeOK, DbTypeOK
  <2>4. CASE CheckPassFails(s)
    <3> DEFINE m == LoginRsp(proc[s].key, NoUid, "PASS", 0, NoGroup)
    <3>1. m.uid = NoUid
      BY DEF LoginRsp
    <3>2. Answer(s, m) /\ proc[s] \in LoginProcs
      BY <2>3, <2>4 DEF CheckPassFails
    <3> HIDE DEF m
    <3> QED
      BY <2>2, <3>1, <3>2
  <2>5. CASE LoginLock(s) /\ Locked(s)
    <3> DEFINE m == LoginRsp(proc[s].key, NoUid, "MULTI_ON", 0, NoGroup)
    <3>1. m.uid = NoUid
      BY DEF LoginRsp
    <3>2. Answer(s, m) /\ proc[s] \in LoginProcs
      BY <2>3, <2>5 DEF LoginLock
    <3> HIDE DEF m
    <3> QED
      BY <2>2, <3>1, <3>2
  <2> QED
    BY <2>1, <2>4, <2>5 DEF RedisError, channels
<1>3. /\ NoneEnters(u)
      /\ \A t \in Slot : proc'[t].pc # "idle" => proc'[t] = proc[t]
  BY <1>1, DoneQuiet
<1>4. NoneAsks(u)
  BY <1>1, <1>3 DEF NoneAsks, Asking
<1>5. NoneLeaves(u)
  BY <1>1, <1>3 DEF NoneLeaves, Out, Asked, Kicked
<1> QED
  BY <1>1, <1>2, <1>3, <1>4, <1>5, SameTold, SameRedis, SameTakes, QuietHome
  DEF Quiet

LEMMA LockHome ==
  ASSUME TypeOK, NEW s \in Slot, LoginLock(s), ~Locked(s),
         UNCHANGED <<connVars, logicVars>>, NEW u \in Uid, Home(u)
  PROVE  Home(u)'
<1> DEFINE v == proc[s].uid
<1>1. /\ lock' = [lock EXCEPT ![v] = TRUE] /\ ~lock[v] /\ v \in Uid
      /\ UNCHANGED <<ckey2uid, user_map, online, blob, channels>>
  BY Kinds DEF LoginLock, Locked, connVars, logicVars, channels, TypeOK, DbTypeOK
<1>2. /\ proc[s].pc = "pass" /\ proc'[s].pc = "info" /\ proc'[s].uid = v
      /\ \A t \in Slot \ {s} : proc'[t] = proc[t]
  BY Kinds DEF LoginLock, Locked, TypeOK, DbTypeOK, LoginProcs
<1> HIDE DEF v
<1>3. NoneAsks(u)
  BY <1>1, <1>2 DEF NoneAsks, Asking, channels
<1>4. NoneLeaves(u)
  BY <1>1, <1>2 DEF NoneLeaves, Out, Asked, Kicked, channels
<1>5. NoneAnswers(u) /\ NoneTold(u) /\ NoneTakes(u)
  BY <1>1, SameAnswers, SameTold, SameTakes DEF channels
<1>6. \A t \in Slot : InLogin(t, u)' => InLogin(t, u) \/ (t = s /\ u = v)
  BY <1>2 DEF InLogin
<1>7. \A g \in Group, b \in Ver : Ready(g, u, b)' => Ready(g, u, b)
  BY <1>2 DEF Ready
<1>8. CASE u # v
  BY <1>1, <1>3, <1>4, <1>5, <1>6, <1>7, <1>8, QuietHome
  DEF Quiet, NoneEnters, Redis, TypeOK, DbTypeOK
<1>9. CASE u = v
  <2>1. Asking(u)
    BY <1>2, <1>9 DEF Asking, v
  <2>2. /\ ~Entering(u) /\ ~Leaving(u)
        /\ \A h \in Group : ~Refusing(h, u)
    BY <1>1, <1>9, <2>1 DEF Home
  <2>3. ~Admitted(u)' /\ ~Leaving(u)'
    BY <1>4, <1>5, <2>2
    DEF Admitted, Entering, Leaving, NoneAnswers, NoneTold, NoneLeaves
  <2>4. \A t \in Slot : InLogin(t, u)' => t = s
    BY <1>6, <2>2 DEF Entering
  <2>5. lock'[u]
    BY <1>1, <1>9 DEF TypeOK, DbTypeOK
  <2> QED
    BY <1>1, <1>3, <1>4, <1>5, <1>7, <2>2, <2>3, <2>4, <2>5
    DEF Home, NoneAnswers, NoneLeaves, NoneTold, NoneTakes, Entering, Leaving,
        Admitted
<1> QED
  BY <1>8, <1>9

LEMMA RefuseHome ==
  ASSUME TypeOK, NEW s \in Slot, LoginGetInfo(s), OnlineElsewhere(s),
         UNCHANGED <<connVars, logicVars>>, NEW u \in Uid, Home(u)
  PROVE  Home(u)'
<1> DEFINE v == proc[s].uid
           g == proc[s].from
           m == LoginRsp(proc[s].key, v, "MULTI_ON", 0, online[v])
<1>1. /\ proc[s] \in LoginProcs /\ v \in Uid /\ g \in Group /\ InLogin(s, v)
      /\ proc[s].pc = "info"
  BY Kinds DEF LoginGetInfo, TypeOK, DbTypeOK, InLogin
<1>2. /\ Done(s) /\ db2logic' = Send(db2logic, g, m)
      /\ UNCHANGED <<ckey2uid, user_map, online, blob, lock, conn2logic,
                     logic2conn, logic2db, logic2disp, disp2logic>>
  BY DEF LoginGetInfo, Answer, connVars, logicVars
<1>3. m.uid = v /\ m.result = "MULTI_ON" /\ m.online = online[v]
  BY DEF LoginRsp
<1> HIDE DEF v, g, m
<1>4. \A h \in Group : Msgs(db2logic'[h]) \subseteq Msgs(db2logic[h]) \cup {m}
  BY <1>1, <1>2, SendMsgs, AllRings
<1>5. /\ NoneEnters(u)
      /\ \A t \in Slot : proc'[t].pc # "idle" => proc'[t] = proc[t]
  BY <1>2, DoneQuiet
<1>6. NoneAsks(u)
  BY <1>2, <1>5 DEF NoneAsks, Asking
<1>7. NoneLeaves(u)
  BY <1>2, <1>5 DEF NoneLeaves, Out, Asked, Kicked
<1>8. NoneTold(u) /\ UNCHANGED Redis(u) /\ NoneTakes(u)
  BY <1>2, SameTold, SameRedis, SameTakes
<1>9. \A h \in Group, b \in Ver : Granting(h, u, b)' => Granting(h, u, b)
  BY <1>3, <1>4 DEF Granting
<1>10. \A h \in Group :
          Refusing(h, u)' => Refusing(h, u) \/ (u = v /\ h = online[v])
  BY <1>3, <1>4 DEF Refusing
<1>11. CASE u # v
  BY <1>5, <1>6, <1>7, <1>8, <1>9, <1>10, <1>11, QuietHome
  DEF Quiet, NoneAnswers
<1>12. CASE u = v
  <2>1. /\ lock[u] /\ ~Leaving(u) /\ ~Admitted(u)
        /\ \A t \in Slot : InLogin(t, u) => t = s
    BY <1>1, <1>12 DEF Home, Entering
  <2>2. ~InLogin(s, u)'
    BY <1>2, Kinds DEF Done, InLogin, TypeOK, DbTypeOK
  <2>3. ~Admitted(u)' /\ ~Leaving(u)'
    BY <1>7, <1>8, <1>9, <2>1
    DEF Admitted, Leaving, NoneTold, NoneLeaves
  <2>4. ~Entering(u)' /\ \A t \in Slot : ~InLogin(t, u)'
    BY <1>5, <2>1, <2>2, <2>3 DEF Entering, NoneEnters
  <2> QED
    BY <1>5, <1>7, <1>8, <1>10, <2>1, <2>3, <2>4
    DEF Home, NoneEnters, NoneLeaves, NoneTold, NoneTakes, Redis, Leaving,
        Admitted
<1> QED
  BY <1>11, <1>12

LEMMA ReadHome ==
  ASSUME TypeOK, NEW s \in Slot, LoginGetInfo(s), ~OnlineElsewhere(s),
         UNCHANGED <<connVars, logicVars>>, NEW u \in Uid, Home(u)
  PROVE  Home(u)'
<1> DEFINE v == proc[s].uid
           g == proc[s].from
<1>1. /\ proc[s].pc = "info" /\ proc[s] \in LoginProcs
      /\ online[v] \in {NoGroup, g}
  BY Kinds DEF LoginGetInfo, OnlineElsewhere, TypeOK, DbTypeOK
<1>2. proc' = [proc EXCEPT ![s] = [proc[s] EXCEPT !.pc = "online",
                                                  !.snap = blob[v]]]
  BY DEF LoginGetInfo
<1>3. /\ proc'[s].pc = "online" /\ proc'[s].uid = v
      /\ proc'[s].from = g /\ proc'[s].snap = blob[v]
      /\ \A t \in Slot \ {s} : proc'[t] = proc[t]
  BY <1>1, <1>2 DEF LoginProcs, TypeOK, DbTypeOK
<1>4. UNCHANGED <<ckey2uid, user_map, online, blob, lock, channels>>
  BY DEF LoginGetInfo, OnlineElsewhere, connVars, logicVars, channels
<1> HIDE DEF v, g
<1>5. NoneAsks(u)
  BY <1>3, <1>4 DEF NoneAsks, Asking, channels
<1>6. NoneLeaves(u)
  BY <1>3, <1>4 DEF NoneLeaves, Out, Asked, Kicked, channels
<1>7. NoneAnswers(u) /\ NoneTold(u) /\ UNCHANGED Redis(u) /\ NoneTakes(u)
  BY <1>4, SameAnswers, SameTold, SameRedis, SameTakes DEF channels
<1>8. \A t \in Slot : InLogin(t, u)' => InLogin(t, u)
  BY <1>1, <1>3 DEF InLogin, v
<1>9. \A h \in Group, b \in Ver :
         Ready(h, u, b)' => Ready(h, u, b) \/ (u = v /\ h = g /\ b = blob[v])
  BY <1>3 DEF Ready
<1>10. CASE u # v
  BY <1>5, <1>6, <1>7, <1>8, <1>9, <1>10, QuietHome DEF Quiet, NoneEnters
<1>11. CASE u = v
  <2>1. Admitted(u)' => Admitted(u)
    BY <1>7 DEF Admitted, NoneAnswers, NoneTold
  <2>2. Entering(u)' => Entering(u)
    BY <1>8, <2>1 DEF Entering
  <2>3. Leaving(u)' => Leaving(u)
    BY <1>6, <1>7 DEF Leaving, NoneLeaves, NoneTold
  <2>4. \A h \in Group, b \in Ver :
           Ready(h, u, b)' => online[u] \in {NoGroup, h} /\ b = blob[u]
    BY <1>1, <1>9, <1>11 DEF Home, v
  <2> QED
    BY <1>5, <1>6, <1>7, <1>8, <2>1, <2>2, <2>3, <2>4
    DEF Home, NoneAsks, NoneAnswers, NoneLeaves, NoneTold, NoneTakes, Redis
<1> QED
  BY <1>10, <1>11

LEMMA UpdateHome ==
  ASSUME TypeOK, NEW s \in Slot, LoginUpdateOnline(s) \/ UpdateReplyLost(s),
         UNCHANGED <<connVars, logicVars>>, NEW u \in Uid, Home(u)
  PROVE  Home(u)'
<1> DEFINE v == proc[s].uid
           g == proc[s].from
           d == proc[s].snap
           m == LoginRsp(proc[s].key, v, "SUCCESS", d, NoGroup)
<1>1. /\ proc[s].pc = "online" /\ v \in Uid /\ g \in Group /\ d \in Ver
      /\ InLogin(s, v) /\ Ready(g, v, d)
  BY Kinds
  DEF LoginUpdateOnline, UpdateReplyLost, TypeOK, DbTypeOK, InLogin, Ready
<1>2. /\ Done(s) /\ online' = [online EXCEPT ![v] = g]
      /\ db2logic' \in {db2logic, Send(db2logic, g, m)}
      /\ UNCHANGED <<ckey2uid, user_map, blob, lock, conn2logic,
                     logic2conn, logic2db, logic2disp, disp2logic>>
  BY DEF LoginUpdateOnline, UpdateReplyLost, Answer, connVars, logicVars, channels
<1>3. m.uid = v /\ m.result = "SUCCESS" /\ m.blob = d
  BY DEF LoginRsp
<1>4. ~InLogin(s, u)'
  BY <1>2, Kinds DEF Done, InLogin, TypeOK, DbTypeOK
<1> HIDE DEF v, g, d, m
<1>5. \A h \in Group : Msgs(db2logic'[h]) \subseteq
                          Msgs(db2logic[h]) \cup (IF h = g THEN {m} ELSE {})
  BY <1>1, <1>2, SendMsgs, AllRings
<1>6. /\ NoneEnters(u)
      /\ \A t \in Slot : proc'[t].pc # "idle" => proc'[t] = proc[t]
  BY <1>2, DoneQuiet
<1>7. NoneAsks(u)
  BY <1>2, <1>6 DEF NoneAsks, Asking
<1>8. NoneLeaves(u)
  BY <1>2, <1>6 DEF NoneLeaves, Out, Asked, Kicked
<1>9. NoneTold(u) /\ NoneTakes(u)
  BY <1>2, SameTold, SameTakes
<1>10. \A h \in Group : Refusing(h, u)' => Refusing(h, u)
  BY <1>3, <1>5 DEF Refusing
<1>11. \A h \in Group, b \in Ver :
          Granting(h, u, b)' => Granting(h, u, b) \/ (u = v /\ h = g /\ b = d)
  BY <1>3, <1>5 DEF Granting
<1>12. CASE u # v
  <2>1. UNCHANGED Redis(u)
    BY <1>2, <1>12 DEF Redis, TypeOK, DbTypeOK
  <2> QED
    BY <1>6, <1>7, <1>8, <1>9, <1>10, <1>11, <1>12, <2>1, QuietHome
    DEF Quiet, NoneAnswers
<1>13. CASE u = v
  <2>1. /\ lock[u] /\ ~Leaving(u) /\ ~Admitted(u)
        /\ \A h \in Group : ~Refusing(h, u)
        /\ \A t \in Slot : InLogin(t, u) => t = s
        /\ online[u] \in {NoGroup, g} /\ d = blob[u]
    BY <1>1, <1>13 DEF Home, Entering
  <2>2. \A t \in Slot : ~InLogin(t, u)'
    BY <1>4, <1>6, <2>1 DEF NoneEnters
  <2>3. \A h \in Group, b \in Ver : ~Ready(h, u, b)'
    BY <2>2 DEF Ready, InLogin
  <2>4. ~Leaving(u)'
    BY <1>8, <1>9, <2>1 DEF Leaving, NoneLeaves, NoneTold
  <2>5. \A h \in Group : ~Granted(h, u)'
    BY <1>9, <2>1 DEF Admitted, NoneTold
  <2>6. \A h \in Group, b \in Ver : Granting(h, u, b)' => h = g /\ b = d
    BY <1>11, <2>1 DEF Admitted
  <2>7. online'[u] = g /\ blob'[u] = blob[u] /\ lock'[u] = lock[u]
    BY <1>2, <1>13 DEF TypeOK, DbTypeOK
  <2>8. \A h \in Group : BoundAt(h, u)' => h = g /\ ~Out(u)'
    BY <1>1, <1>9, <2>1, <2>4, ConstantsOK DEF Home, NoneTold, Leaving
  <2>9. \A h \in Group :
           user_map'[h][u] # Off => h = g /\ user_map'[h][u] = blob[u]
    BY <1>2, <2>1, ConstantsOK DEF Home
  <2> QED
    BY <1>10, <2>1, <2>2, <2>3, <2>4, <2>5, <2>6, <2>7, <2>8, <2>9
    DEF Home, Leaving
<1> QED
  BY <1>12, <1>13

LEMMA SaveHome ==
  ASSUME TypeOK, NEW s \in Slot, LogoutSave(s),
         UNCHANGED <<connVars, logicVars>>, NEW u \in Uid, Home(u)
  PROVE  Home(u)'
<1> DEFINE v == proc[s].uid
<1>1. Done(s) /\ UNCHANGED <<ckey2uid, user_map, lock, channels>>
  BY DEF LogoutSave, connVars, logicVars
<1>2. v \in Uid /\ Out(v)
  BY Kinds DEF LogoutSave, TypeOK, DbTypeOK, Out
<1>3. /\ online' = [online EXCEPT ![v] = NoGroup]
      /\ \A w \in Uid \ {v} : blob'[w] = blob[w]
  BY DEF LogoutSave, TypeOK, DbTypeOK
<1> HIDE DEF v
<1>4. /\ NoneEnters(u)
      /\ \A t \in Slot : proc'[t].pc # "idle" => proc'[t] = proc[t]
  BY <1>1, DoneQuiet
<1>5. NoneAsks(u)
  BY <1>1, <1>4 DEF NoneAsks, Asking, channels
<1>6. NoneLeaves(u)
  BY <1>1, <1>4 DEF NoneLeaves, Out, Asked, Kicked, channels
<1>7. NoneAnswers(u) /\ NoneTold(u) /\ NoneTakes(u)
  BY <1>1, SameAnswers, SameTold, SameTakes DEF channels
<1>8. CASE u # v
  <2>1. UNCHANGED Redis(u)
    BY <1>1, <1>3, <1>8 DEF Redis, TypeOK, DbTypeOK
  <2> QED
    BY <1>4, <1>5, <1>6, <1>7, <2>1, QuietHome DEF Quiet
<1>9. CASE u = v
  <2>1. ~Entering(u) /\ Leaving(u)
    BY <1>2, <1>9 DEF Home, Leaving
  <2>2. ~Admitted(u)' /\ ~Entering(u)' /\ \A t \in Slot : ~InLogin(t, u)'
    BY <1>4, <1>7, <2>1
    DEF Entering, Admitted, NoneEnters, NoneAnswers, NoneTold
  <2>3. \A h \in Group, b \in Ver : ~Ready(h, u, b)'
    BY <2>2 DEF Ready, InLogin
  <2>4. online'[u] = NoGroup /\ lock'[u] = lock[u]
    BY <1>1, <1>3, <1>9 DEF TypeOK, DbTypeOK
  <2>5. \A h \in Group : BoundAt(h, u)' => Told(h, u)'
    BY <1>2, <1>7, <1>9 DEF Home, NoneTold
  <2>6. \A h \in Group : user_map'[h][u] = Off
    BY <1>1, <1>2, <1>9 DEF Home
  <2> QED
    BY <1>5, <1>7, <2>1, <2>2, <2>3, <2>4, <2>5, <2>6
    DEF Home, NoneAsks, NoneAnswers, Admitted
<1> QED
  BY <1>8, <1>9

LEMMA LapseHome ==
  ASSUME TypeOK, Separate, NEW v \in Uid, MayLapse(v), LockExpire(v),
         UNCHANGED <<connVars, logicVars>>, NEW u \in Uid, Home(u)
  PROVE  Home(u)'
<1>1. /\ UNCHANGED <<ckey2uid, user_map, proc, online, blob, channels>>
      /\ lock' = [lock EXCEPT ![v] = FALSE]
  BY DEF LockExpire, connVars, logicVars
<1>2. /\ NoneAsks(u) /\ NoneEnters(u) /\ NoneAnswers(u) /\ NoneLeaves(u)
      /\ NoneTold(u) /\ NoneTakes(u)
  BY <1>1, SameAsks, SameEnters, SameAnswers, SameLeaves, SameTold, SameTakes
  DEF channels
<1>3. CASE u # v
  <2>1. UNCHANGED Redis(u)
    BY <1>1, <1>3 DEF Redis, TypeOK, DbTypeOK
  <2> QED
    BY <1>2, <2>1, QuietHome DEF Quiet
<1>4. CASE u = v
  <2>1. /\ ~Asking(u) /\ ~Entering(u) /\ ~Leaving(u)
        /\ \A h \in Group : ~Refusing(h, u)
    BY <1>4, NoLogin, NoLogout DEF MayLapse, TypeOK
  <2>2. /\ ~Entering(u)' /\ ~Leaving(u)' /\ ~Admitted(u)'
        /\ \A h \in Group : ~Refusing(h, u)'
    BY <1>2, <2>1
    DEF Entering, Admitted, Leaving, NoneEnters, NoneAnswers, NoneLeaves,
        NoneTold
  <2>3. online'[u] = online[u] /\ blob'[u] = blob[u]
    BY <1>1
  <2> QED
    BY <1>2, <2>2, <2>3
    DEF Home, NoneEnters, NoneAnswers, NoneLeaves, NoneTold, NoneTakes,
        Entering, Leaving
<1> QED
  BY <1>3, <1>4

LEMMA DbStepHome ==
  ASSUME TypeOK, Separate, DbNext, UNCHANGED <<connVars, logicVars>>,
         NEW u \in Uid, Home(u)
  PROVE  Home(u)'
BY StartHome, GiveUpHome, LockHome, RefuseHome, ReadHome, UpdateHome, SaveHome,
   LapseHome
DEF DbNext

(* No message of logic_serv to conn_serv finds the ring full. *)
Heard == \A g \in Group : Len(logic2conn[g]) < ChanCap

(* A user leaves logic_serv l: nobody else can have him at home. *)
LEMMA UserLogoutHome ==
  ASSUME TypeOK, Heard, NEW l \in Group, NEW v \in Uid, NEW r \in Reason,
         UserLogout(l, v, r),
         logic2conn' = Send(logic2conn, l, LogoutRsp(v, r)),
         \A h \in Group : Msgs(conn2logic'[h]) \subseteq Msgs(conn2logic[h]),
         \A h \in Group : Msgs(disp2logic'[h]) \subseteq Msgs(disp2logic[h]),
         UNCHANGED <<connVars, dbVars, db2logic, logic2disp>>,
         online[v] \in {NoGroup, l}, ~Entering(v), Asking(v) => lock[v],
         NEW u \in Uid, Home(u)
  PROVE  Home(u)'
<1>1. PICK w : /\ w.type = "LOGOUT_REQ" /\ w.uid = v
               /\ logic2db' = Send(logic2db, l, w)
  BY DEF UserLogout, SaveReq
<1>2. \A h \in Group : Msgs(logic2db'[h]) \subseteq Msgs(logic2db[h]) \cup {w}
  BY <1>1, SendMsgs, AllRings
<1>3. /\ \A h \in Group : user_map'[h][u] \in {user_map[h][u], Off}
      /\ user_map'[l][v] = Off
  BY DEF UserLogout, TypeOK, LogicTypeOK
<1> DEFINE m == LogoutRsp(v, r)
<1>4. m.type = "LOGOUT_RSP" /\ m.uid = v /\ logic2conn' = Send(logic2conn, l, m)
  BY DEF LogoutRsp
<1> HIDE DEF m
<1>5. /\ \A h \in Group :
            /\ Msgs(logic2conn'[h]) \subseteq
                 Msgs(logic2conn[h]) \cup (IF h = l THEN {m} ELSE {})
            /\ Msgs(logic2conn[h]) \subseteq Msgs(logic2conn'[h])
      /\ m \in Msgs(logic2conn'[l])
  <2>1. logic2conn \in Rings /\ Len(logic2conn[l]) < ChanCap
    BY AllRings DEF Heard
  <2>2. \A h \in Group :
            /\ Msgs(logic2conn'[h]) \subseteq
                 Msgs(logic2conn[h]) \cup (IF h = l THEN {m} ELSE {})
            /\ Msgs(logic2conn[h]) \subseteq Msgs(logic2conn'[h])
    <3> SUFFICES ASSUME NEW h \in Group
                 PROVE  /\ Msgs(Send(logic2conn, l, m)[h]) \subseteq
                             Msgs(logic2conn[h]) \cup (IF h = l THEN {m} ELSE {})
                        /\ Msgs(logic2conn[h]) \subseteq
                             Msgs(Send(logic2conn, l, m)[h])
      BY <1>4
    <3> QED
      BY <2>1, SendMsgs
  <2>3. m \in Msgs(logic2conn'[l])
    BY <1>4, <2>1, SendMsgs
  <2> QED
    BY <2>2, <2>3
<1>6. /\ NoneEnters(u) /\ NoneAnswers(u) /\ UNCHANGED Redis(u) /\ NoneTakes(u)
  BY <1>3, SameEnters, SameAnswers, SameRedis DEF dbVars, NoneTakes
<1>7. NoneAsks(u)
  BY <1>1, <1>2 DEF NoneAsks, Asking, dbVars
<1>8. \A h \in Group : /\ Asked(h, u)' => Asked(h, u)
                       /\ Kicked(h, u)' => Kicked(h, u)
  BY DEF Asked, Kicked
<1>9. Out(u)' => Out(u) \/ u = v
  BY <1>1, <1>2 DEF Out, dbVars
<1>10. \A h \in Group : /\ Granted(h, u)' => Granted(h, u)
                        /\ Told(h, u)' => Told(h, u) \/ (u = v /\ h = l)
                        /\ Told(h, u) => Told(h, u)'
                        /\ BoundAt(h, u)' <=> BoundAt(h, u)
  BY <1>4, <1>5 DEF Granted, Told, BoundAt, connVars
<1>11. Told(l, v)'
  BY <1>4, <1>5 DEF Told
<1>12. CASE u # v
  BY <1>6, <1>7, <1>8, <1>9, <1>10, <1>12, QuietHome
  DEF Quiet, NoneLeaves, NoneTold
<1>13. CASE u = v
  <2>1. ~Admitted(u)' /\ ~Entering(u)' /\ \A t \in Slot : ~InLogin(t, u)'
    BY <1>6, <1>10, <1>13
    DEF Entering, Admitted, NoneEnters, NoneAnswers
  <2>2. \A h \in Group, b \in Ver : ~Ready(h, u, b)'
    BY <2>1 DEF Ready, InLogin
  <2>3. \A h \in Group : BoundAt(h, u)' => Told(h, u)'
    BY <1>10, <1>11, <1>13, ConstantsOK DEF Home
  <2>4. \A h \in Group : user_map'[h][u] = Off
    BY <1>3, <1>13, ConstantsOK DEF Home
  <2>5. \A h \in Group :
           Asked(h, u)' \/ Kicked(h, u)' \/ Told(h, u)' \/ Refusing(h, u)' =>
              online'[u] \in {NoGroup, h}
    BY <1>6, <1>8, <1>10, <1>13 DEF Home, NoneAnswers, Redis
  <2> QED
    BY <1>6, <1>7, <1>13, <2>1, <2>2, <2>3, <2>4, <2>5
    DEF Home, NoneAsks, NoneAnswers, Redis, Admitted
<1> QED
  BY <1>12, <1>13

LEMMA ForwardHome ==
  ASSUME TypeOK, NEW l \in Group, LogicRecvLoginReq(l),
         UNCHANGED <<connVars, dbVars>>, NEW u \in Uid, Home(u)
  PROVE  Home(u)'
<1> DEFINE m == Head(conn2logic[l])
<1>1. /\ conn2logic[l] # <<>> /\ m.type = "LOGIN_REQ"
      /\ conn2logic' = Recv(conn2logic, l)
      /\ logic2db' = Send(logic2db, l, m)
      /\ UNCHANGED <<connVars, user_map, dbVars, logic2conn, db2logic,
                     logic2disp, disp2logic>>
  BY DEF LogicRecvLoginReq, Pending, logicVars
<1>2. \A h \in Group : Msgs(conn2logic'[h]) \subseteq Msgs(conn2logic[h])
  BY <1>1, RecvMsgs, AllRings
<1>3. m \in Msgs(conn2logic[l])
  BY <1>1, RecvMsgs, AllRings
<1> HIDE DEF m
<1>4. \A h \in Group : Msgs(logic2db'[h]) \subseteq Msgs(logic2db[h]) \cup {m}
  BY <1>1, SendMsgs, AllRings
<1>5. NoneAsks(u)
  BY <1>1, <1>2, <1>3, <1>4 DEF NoneAsks, Asking, dbVars
<1>6. NoneLeaves(u)
  BY <1>1, <1>2, <1>4 DEF NoneLeaves, Out, Asked, Kicked, dbVars
<1> QED
  BY <1>1, <1>5, <1>6, SameEnters, SameAnswers, SameTold, SameRedis, SameTakes,
     QuietHome
  DEF Quiet, connVars, dbVars

LEMMA LogicLogoutReqHome ==
  ASSUME TypeOK, Heard, Homes, NEW l \in Group, LogicRecvLogoutReq(l),
         UNCHANGED <<connVars, dbVars>>, NEW u \in Uid
  PROVE  Home(u)'
<1> DEFINE m == Head(conn2logic[l])
           v == m.uid
           r == m.reason
<1>1. /\ conn2logic[l] # <<>> /\ m.type = "LOGOUT_REQ"
      /\ conn2logic' = Recv(conn2logic, l)
      /\ UNCHANGED <<connVars, dbVars, db2logic, logic2disp, disp2logic>>
  BY DEF LogicRecvLogoutReq, Pending
<1>2. \A h \in Group : Msgs(conn2logic'[h]) \subseteq Msgs(conn2logic[h])
  BY <1>1, RecvMsgs, AllRings
<1>3. m \in Msgs(conn2logic[l])
  BY <1>1, RecvMsgs, AllRings
<1>4. v \in Uid /\ r \in Reason
  <2>1. m \in LoginReqs \cup LogoutReqs
    BY <1>1, RecvTyped DEF TypeOK, ChannelsOK
  <2> QED
    BY <1>1, <2>1, Kinds
<1>5. CASE r = "CONN_CLOSED"
  <2>1. UNCHANGED <<user_map, logic2db, logic2conn>>
    BY <1>5 DEF LogicRecvLogoutReq
  <2>2. NoneAsks(u) /\ NoneLeaves(u)
    BY <1>1, <1>2, <2>1
    DEF NoneAsks, NoneLeaves, Asking, Out, Asked, Kicked, dbVars
  <2> QED
    BY <1>1, <2>1, <2>2, SameEnters, SameAnswers, SameTold, SameRedis,
       SameTakes, QuietHome
    DEF Homes, Quiet, connVars, dbVars
<1>6. CASE r # "CONN_CLOSED"
  <2>1. /\ UserLogout(l, v, r)
        /\ logic2conn' = Send(logic2conn, l, LogoutRsp(v, r))
    BY <1>6 DEF LogicRecvLogoutReq
  <2>2. Asked(l, v)
    BY <1>1, <1>3, <1>6 DEF Asked
  <2> HIDE DEF v, r, m
  <2>3. online[v] \in {NoGroup, l} /\ ~Entering(v) /\ (Asking(v) => lock[v])
    BY <1>4, <2>2 DEF Homes, Home, Leaving
  <2> QED
    BY <1>1, <1>2, <1>4, <2>1, <2>3, UserLogoutHome DEF Homes
<1> QED
  BY <1>5, <1>6

LEMMA KickHome ==
  ASSUME TypeOK, Heard, Homes, NEW l \in Group, RecvDupUserKick(l),
         UNCHANGED <<connVars, dbVars>>, NEW u \in Uid
  PROVE  Home(u)'
<1> DEFINE m == Head(disp2logic[l])
           v == m.uid
<1>1. /\ disp2logic[l] # <<>> /\ disp2logic' = Recv(disp2logic, l)
      /\ UserLogout(l, v, "KICK_RECONN")
      /\ logic2conn' = Send(logic2conn, l, LogoutRsp(v, "KICK_RECONN"))
      /\ UNCHANGED <<connVars, dbVars, conn2logic, db2logic, logic2disp>>
  BY DEF RecvDupUserKick
<1>2. \A h \in Group : Msgs(disp2logic'[h]) \subseteq Msgs(disp2logic[h])
  BY <1>1, RecvMsgs, AllRings
<1>3. Kicked(l, v)
  BY <1>1, RecvMsgs, AllRings DEF Kicked
<1>4. v \in Uid /\ "KICK_RECONN" \in Reason
  <2>1. m \in KickMsgs
    BY <1>1, RecvTyped DEF TypeOK, ChannelsOK
  <2> QED
    BY <2>1, Kinds DEF Reason
<1> HIDE DEF v, m
<1>5. online[v] \in {NoGroup, l} /\ ~Entering(v) /\ (Asking(v) => lock[v])
  BY <1>3, <1>4 DEF Homes, Home, Leaving
<1> QED
  BY <1>1, <1>2, <1>4, <1>5, UserLogoutHome DEF Homes

LEMMA TimeoutHome ==
  ASSUME TypeOK, Heard, Separate, Homes, NEW l \in Group, NEW v \in Uid,
         MayLogout(v), CheckClientTimeout(l, v) \/ SaveRoleOnExit(l, v),
         UNCHANGED <<connVars, dbVars>>, NEW u \in Uid
  PROVE  Home(u)'
<1>1. PICK r \in Reason : /\ UserLogout(l, v, r)
                          /\ logic2conn' = Send(logic2conn, l, LogoutRsp(v, r))
  BY DEF CheckClientTimeout, SaveRoleOnExit, Reason
<1>2. /\ user_map[l][v] # Off
      /\ UNCHANGED <<conn2logic, db2logic, logic2disp, disp2logic>>
  BY DEF CheckClientTimeout, SaveRoleOnExit
<1>3. online[v] = l
  BY <1>2 DEF Homes, Home
<1>4. ~Asking(v) /\ ~Entering(v)
  BY NoLogin DEF MayLogout, TypeOK
<1> QED
  BY <1>1, <1>2, <1>3, <1>4, UserLogoutHome DEF Homes

LEMMA TakeHome ==
  ASSUME TypeOK, NEW l \in Group, LogicRecvLoginRsp(l),
         UNCHANGED <<connVars, dbVars>>, NEW u \in Uid, Home(u)
  PROVE  Home(u)'
<1> DEFINE m == Head(db2logic[l])
           v == m.uid
<1>1. /\ db2logic[l] # <<>> /\ db2logic' = Recv(db2logic, l)
      /\ logic2conn' = Send(logic2conn, l, m)
      /\ UNCHANGED <<ckey2uid, dbVars, conn2logic, logic2db, disp2logic>>
  BY DEF LogicRecvLoginRsp, connVars
<1>2. m \in LoginRsps
  BY <1>1, RecvTyped DEF TypeOK, ChannelsOK
<1>3. /\ \A h \in Group : Msgs(db2logic'[h]) \subseteq Msgs(db2logic[h])
      /\ m \in Msgs(db2logic[l])
  BY <1>1, RecvMsgs, AllRings
<1>4. /\ user_map' = user_map
      \/ /\ m.result = "SUCCESS"
         /\ user_map' = [user_map EXCEPT ![l][v] = m.blob]
  BY DEF LogicRecvLoginRsp, Takes
<1>5. logic2disp' = IF Kicks(m) THEN Send(logic2disp, l, KickMsg(m.online, v))
                    ELSE logic2disp
  BY DEF LogicRecvLoginRsp
<1>6. Kicks(m) <=> m.result = "MULTI_ON" /\ v # NoUid
  BY DEF Kicks
<1> HIDE DEF m
<1>7. \A h \in Group :
         /\ Msgs(logic2conn'[h]) \subseteq
              Msgs(logic2conn[h]) \cup (IF h = l THEN {m} ELSE {})
         /\ Msgs(logic2conn[h]) \subseteq Msgs(logic2conn'[h])
  BY <1>1, SendMsgs, AllRings
<1>8. m.type = "LOGIN_RSP" /\ (m.result = "SUCCESS" => m.blob \in Ver)
  BY <1>2 DEF LoginRsps
<1> DEFINE x == KickMsg(m.online, v)
<1>9. Kicks(m) =>
        \A h \in Group : Msgs(logic2disp'[h]) \subseteq Msgs(logic2disp[h]) \cup {x}
  <2> SUFFICES ASSUME Kicks(m)
               PROVE  \A h \in Group : Msgs(logic2disp'[h]) \subseteq
                                          Msgs(logic2disp[h]) \cup {x}
    OBVIOUS
  <2>1. logic2disp' = Send(logic2disp, l, x)
    BY <1>5
  <2> HIDE DEF x
  <2> QED
    BY <2>1, SendMsgs, AllRings
<1>10. \A h \in Group : KickMsg(h, u) = x => h = m.online /\ u = v
  BY DEF KickMsg
<1> HIDE DEF x
<1>11. /\ NoneAsks(u) /\ NoneEnters(u) /\ UNCHANGED Redis(u)
       /\ NoneAnswers(u)
  <2>1. NoneAnswers(u)
    BY <1>3 DEF NoneAnswers, Granting, Refusing
  <2> QED
    BY <1>1, <2>1, SameAsks, SameEnters, SameRedis DEF dbVars
<1>12. /\ Out(u)' => Out(u)
       /\ \A h \in Group : Asked(h, u)' => Asked(h, u)
  BY <1>1 DEF Out, Asked, dbVars
<1>13. \A h \in Group :
          Kicked(h, u)' =>
            Kicked(h, u) \/ (u = v /\ h = m.online /\ m.result = "MULTI_ON")
  BY <1>1, <1>5, <1>6, <1>9, <1>10 DEF Kicked
<1>14. \A h \in Group :
          /\ Told(h, u)' <=> Told(h, u)
          /\ BoundAt(h, u)' <=> BoundAt(h, u)
          /\ Granted(h, u)' =>
               Granted(h, u) \/ (u = v /\ h = l /\ m.result = "SUCCESS")
  BY <1>1, <1>7, <1>8 DEF Told, BoundAt, Granted
<1>15. \A h \in Group : \/ user_map'[h][u] = user_map[h][u]
                        \/ /\ u = v /\ h = l /\ m.result = "SUCCESS"
                           /\ user_map'[h][u] = m.blob
  BY <1>4 DEF TypeOK, LogicTypeOK
<1>16. CASE u # v \/ m.result \notin {"SUCCESS", "MULTI_ON"}
  BY <1>11, <1>12, <1>13, <1>14, <1>15, <1>16, QuietHome
  DEF Quiet, NoneLeaves, NoneTold, NoneTakes
<1>17. CASE u = v /\ m.result = "SUCCESS"
  <2>1. Granting(l, u, m.blob) /\ m.blob \in Ver
    BY <1>3, <1>8, <1>17 DEF Granting
  <2>2. /\ Admitted(u) /\ Entering(u) /\ lock[u] /\ ~Leaving(u)
        /\ \A h \in Group : ~Refusing(h, u)
        /\ \A t \in Slot : ~InLogin(t, u)
        /\ online[u] = l /\ m.blob = blob[u]
    BY <2>1 DEF Home, Entering, Admitted
  <2>3. ~Leaving(u)'
    BY <1>12, <1>13, <1>14, <1>17, <2>2 DEF Leaving
  <2> QED
    BY <1>11, <1>14, <1>15, <1>17, <2>2, <2>3
    DEF Home, NoneEnters, NoneAnswers, Redis, Leaving
<1>18. CASE u = v /\ m.result = "MULTI_ON"
  <2>1. m.online \in Group
    BY <1>2, <1>18, ConstantsOK DEF LoginRsps
  <2>2. Refusing(m.online, u)
    BY <1>3, <1>18 DEF Refusing
  <2>3. lock[u] /\ ~Entering(u) /\ online[u] \in {NoGroup, m.online}
    BY <2>1, <2>2 DEF Home
  <2>4. ~Entering(u)' /\ ~Admitted(u)' /\ \A t \in Slot : ~InLogin(t, u)'
    BY <1>11, <1>14, <1>18, <2>3
    DEF Entering, Admitted, NoneEnters, NoneAnswers
  <2> QED
    BY <1>11, <1>12, <1>13, <1>14, <1>15, <1>18, <2>3, <2>4
    DEF Home, NoneEnters, NoneAnswers, Redis, Admitted
<1> QED
  BY <1>16, <1>17, <1>18

LEMMA StopHome ==
  ASSUME TypeOK, NEW l \in Group,
         ServerExit(l) \/ Exited(l) \/ LogicCrash(l) \/ LogicStart(l),
         UNCHANGED <<connVars, dbVars>>, NEW u \in Uid, Home(u)
  PROVE  Home(u)'
<1>1. UNCHANGED <<ckey2uid, dbVars, channels>>
  BY DEF ServerExit, Exited, LogicCrash, LogicStart, connVars
<1>2. NoneTakes(u)
  BY DEF ServerExit, Exited, LogicCrash, LogicStart, Stop, NoneTakes, TypeOK,
         LogicTypeOK
<1> QED
  BY <1>1, <1>2, SameAsks, SameEnters, SameAnswers, SameLeaves, SameTold,
     SameRedis, QuietHome
  DEF Quiet, dbVars, channels

LEMMA LogicStepHome ==
  ASSUME TypeOK, Heard, Separate, Homes, LogicNext,
         UNCHANGED <<connVars, dbVars>>, NEW u \in Uid
  PROVE  Home(u)'
<1>1. Home(u)
  BY DEF Homes
<1> QED
  BY <1>1, ForwardHome, LogicLogoutReqHome, KickHome, TimeoutHome, TakeHome,
     StopHome
  DEF LogicNext

LEMMA DispStepHome ==
  ASSUME TypeOK, DispNext, UNCHANGED <<connVars, logicVars, dbVars>>,
         NEW u \in Uid, Home(u)
  PROVE  Home(u)'
<1>1. PICK g \in Group : RecvDispMsg(g)
  BY DEF DispNext
<1> DEFINE m == Head(logic2disp[g])
<1>2. /\ logic2disp[g] # <<>> /\ logic2disp' = Recv(logic2disp, g)
      /\ disp2logic' = Send(disp2logic, m.to, m)
      /\ UNCHANGED <<conn2logic, logic2conn, logic2db, db2logic>>
  BY <1>1 DEF RecvDispMsg
<1>3. m \in KickMsgs
  BY <1>2, RecvTyped DEF TypeOK, ChannelsOK
<1>4. m.to \in Group /\ m = KickMsg(m.to, m.uid)
  BY <1>3 DEF KickMsgs, KickMsg
<1>5. /\ \A h \in Group : Msgs(logic2disp'[h]) \subseteq Msgs(logic2disp[h])
      /\ m \in Msgs(logic2disp[g])
  BY <1>2, RecvMsgs, AllRings
<1> HIDE DEF m
<1> DEFINE d == m.to
<1>6. d \in Group /\ disp2logic' = Send(disp2logic, d, m)
  BY <1>2, <1>4
<1> HIDE DEF d
<1>7. \A h \in Group : Msgs(disp2logic'[h]) \subseteq
                          Msgs(disp2logic[h]) \cup (IF h = d THEN {m} ELSE {})
  BY <1>6, SendMsgs, AllRings
<1>8. Kicked(d, m.uid)
  BY <1>4, <1>5 DEF Kicked, d
<1>9. \A h \in Group : Kicked(h, u)' => Kicked(h, u)
  BY <1>5, <1>7, <1>8 DEF Kicked
<1>10. NoneLeaves(u)
  BY <1>2, <1>9 DEF NoneLeaves, Out, Asked, dbVars
<1> QED
  BY <1>2, <1>10, SameAsks, SameEnters, SameAnswers, SameTold, SameRedis,
     SameTakes, QuietHome
  DEF Quiet, connVars, logicVars, dbVars

LEMMA InitHomes == Init => Homes
<1> SUFFICES ASSUME Init, NEW u \in Uid
             PROVE  Home(u)
  BY DEF Homes
<1>1. \A g \in Group :
         /\ Msgs(conn2logic[g]) = {} /\ Msgs(logic2conn[g]) = {}
         /\ Msgs(logic2db[g]) = {} /\ Msgs(db2logic[g]) = {}
         /\ Msgs(logic2disp[g]) = {} /\ Msgs(disp2logic[g]) = {}
  BY DEF Init, ChannelsInit, Msgs
<1>2. \A s \in Slot : proc[s].pc = "idle"
  BY Kinds DEF Init, DbInit
<1>3. \A g \in Group : ~BoundAt(g, u) /\ user_map[g][u] = Off
  BY ConstantsOK DEF Init, ConnInit, LogicInit, BoundAt
<1>4. ~Asking(u) /\ ~Out(u) /\ \A s \in Slot : ~InLogin(s, u)
  BY <1>1, <1>2 DEF Asking, Out, InLogin
<1>5. \A g \in Group : /\ ~Granted(g, u) /\ ~Refusing(g, u) /\ ~Asked(g, u)
                       /\ ~Kicked(g, u) /\ ~Told(g, u)
                       /\ \A b \in Ver : ~Granting(g, u, b) /\ ~Ready(g, u, b)
  BY <1>1, <1>2 DEF Granted, Refusing, Asked, Kicked, Told, Granting, Ready
<1>6. ~Entering(u) /\ ~Leaving(u)
  BY <1>4, <1>5 DEF Entering, Leaving, Admitted
<1> QED
  BY <1>3, <1>4, <1>5, <1>6 DEF Home

LEMMA StepHomes ==
  ASSUME Separate, TypeOK, Bound, Heard, Homes, [Next]_vars
  PROVE  Homes'
<1> SUFFICES ASSUME NEW u \in Uid
             PROVE  Home(u)'
  BY DEF Homes
<1>1. Home(u)
  BY DEF Homes
<1>2. CASE Next
  BY <1>1, <1>2, ConnStepHome, LogicStepHome, DbStepHome, DispStepHome DEF Next
<1>3. CASE UNCHANGED vars
  <2>1. UNCHANGED <<connVars, logicVars, dbVars, channels>>
    BY <1>3 DEF vars
  <2> QED
    BY <1>1, <2>1, SameAsks, SameEnters, SameAnswers, SameLeaves, SameTold,
       SameRedis, SameTakes, QuietHome
    DEF Quiet, connVars, logicVars, dbVars, channels
<1> QED
  BY <1>2, <1>3

LEMMA AlwaysHomes ==
  ASSUME Separate
  PROVE  Spec /\ []Heard => []Homes
<1>1. Init => TypeOK /\ Bound /\ Homes
  BY InitTyped, InitBound, InitHomes
<1>2. TypeOK /\ Bound /\ Homes /\ Heard /\ [Next]_vars
        => (TypeOK /\ Bound /\ Homes)'
  BY StepTyped, StepBound, StepHomes
<1> QED
  BY <1>1, <1>2, PTL DEF Spec

(* While logins and logouts of one user never overlap and no message to    *)
(* conn_serv is lost in a full ring, nobody is online at two logic_serv:   *)
(* the kick, the lock and the order of user_login_get_info and the logout  *)
(* suffice, whatever redis fails to do and however logic_serv stop.        *)
THEOREM Homing ==
  ASSUME Separate
  PROVE  Spec /\ []Heard => []OneHome
<1>1. Homes => OneHome
  BY DEF Homes, Home, OneHome
<1> QED
  BY <1>1, AlwaysHomes, PTL

(* Under the same hypotheses no session is overwritten: what an online     *)
(* user was loaded with is what redis still has (user_login_get_info and   *)
(* RecvUserLogoutReq of db_serv).                                          *)
THEOREM Saving ==
  ASSUME Separate
  PROVE  Spec /\ []Heard => []OwnSave
<1>1. Homes => OwnSave
  BY DEF Homes, Home, OwnSave
<1> QED
  BY <1>1, AlwaysHomes, PTL
=============================================================================
