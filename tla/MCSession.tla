----------------------------- MODULE MCSession -----------------------------
(***************************************************************************)
(* Small instances of Session for TLC.                                     *)
(***************************************************************************)
EXTENDS Session, TLC

CONSTANTS k1, k2, g1, g2, u1, u2

(* Two groups, each with a connection of a client who knows the password.  *)
TwoHomesConnOf == (k1 :> g1 @@ k2 :> g2)
TwoHomesKnows == (k1 :> {u1} @@ k2 :> {u1})

(* One group, two users; the client behind k1 knows both passwords.        *)
OneHomeConnOf == (k1 :> g1 @@ k2 :> g1)
OneHomeKnows == (k1 :> {u1, u2} @@ k2 :> {u2})

(* Goroutines are alike; in TwoHomes so are the groups with their clients. *)
SlotSymmetry == Permutations(Slot)
GroupSymmetry ==
  SlotSymmetry \cup {g1 :> g2 @@ g2 :> g1 @@ k1 :> k2 @@ k2 :> k1}

(* The user is online at g1, where his connection was closed and he is     *)
(* waited for; his clients now reach only the conn_serv of g2.             *)
AwayConnOf == [k \in Key |-> g2]
AwayInit ==
  /\ ConnInit
  /\ user_map = [g \in Group |-> [u \in Uid |-> IF g = g1 THEN 0 ELSE Off]]
  /\ curr_online = [g \in Group |-> Cardinality(OnlineAt(g))]
  /\ stat = [g \in Group |-> "run"]
  /\ proc = [s \in Slot |-> Idle]
  /\ online = [u \in Uid |-> g1]
  /\ blob = [u \in Uid |-> 0]
  /\ lock = [u \in Uid |-> FALSE]
  /\ ChannelsInit
AwaySpec == AwayInit /\ [][Next]_vars /\ Fairness
=============================================================================
