----------------------------- MODULE MCServers -----------------------------
(* Instances of Servers for TLC: registration of one name by two clients and *)
(* of two names, with db_serv stopping; kicks through two disp_servs.        *)
EXTENDS Servers, TLC
CONSTANTS c, l, d, s1, s2, r1, r2, n1, n2

MCDisps == <<s1, s2>>
Plan(started, second, asks, fails, kicks, stops, left, until) ==
  [started |-> started, asked |-> r1 :> n1 @@ r2 :> second, asks |-> asks, faults |-> fails,
   kicks |-> kicks, stops |-> stops, left |-> left, until |-> until]
Group == {c, l, d}
MCScenarios ==
  {Plan(Group, n1, {r1, r2}, 0, {}, {}, 0, 5),
   Plan(Group, n1, {r1, r2}, 1, {}, {}, 0, 3),
   Plan(Group, n2, {r1, r2}, 0, {}, {d}, 1, 3),
   Plan(Group, n2, {r1}, 2, {}, {d}, 0, 4),
   Plan({l, s2}, n1, {}, 0, {1}, {l, s2}, 2, 8),
   Plan({l, s1, s2}, n1, {}, 0, {1}, {s2}, 1, 6)}
=============================================================================
