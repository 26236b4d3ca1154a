----------------------------- MODULE MCConnNet -----------------------------
(* Instances of ConnNet for TLC: a client of this repository and one of    *)
(* another make, under each kind of encryption.                            *)
EXTENDS ConnNet, TLC

CONSTANTS c1, c2

MCConn == {c1, c2}
Plan(method, asks, answers, closes) ==
  [method |-> method, asks |-> asks, answers |-> answers, closes |-> closes]
Absent == Plan("absent", 0, <<>>, FALSE)
Start(valid, enc, p1, p2) ==
  [valid_conn |-> valid, enc_type |-> enc,
   method |-> c1 :> p1.method @@ c2 :> p2.method, asks |-> c1 :> p1.asks @@ c2 :> p2.asks,
   answers |-> c1 :> p1.answers @@ c2 :> p2.answers,
   closes |-> c1 :> p1.closes @@ c2 :> p2.closes]
MCScenarios ==
  {Start(TRUE, "rsa", Plan("interface", 1, <<>>, FALSE), Plan("other", 1, <<>>, FALSE)),
   Start(TRUE, "gen", Plan("interface", 2, <<1, 1>>, FALSE), Absent),
   Start(TRUE, "gen", Plan("command", 1, <<1>>, TRUE), Plan("interface", 1, <<1>>, FALSE)),
   Start(TRUE, "rsa", Plan("interface", 1, <<5, 1, 1>>, FALSE), Absent),
   Start(FALSE, "none", Plan("simple", 0, <<2>>, FALSE), Plan("press", 0, <<5>>, FALSE)),
   Start(TRUE, "none", Plan("interface", 1, <<1, 1>>, FALSE), Absent),
   Start(FALSE, "none", Plan("other", 2, <<1>>, FALSE), Absent),
   Start(FALSE, "gen", Plan("other", 2, <<>>, FALSE), Absent)}
MCOtherOps == {<<"echo", None>>, <<"valid", "wrong">>, <<"valid", "pass">>, <<"normal", None>>,
               <<"normal", "nego">>, <<"nego", "nego">>}
=============================================================================
