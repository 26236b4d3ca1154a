------------------------------- MODULE Select -------------------------------
(***************************************************************************)
(* The two choices a server makes among its peers: SelectProperServ of     *)
(* servers/comm/config.go, among servers by their heartbeats, and          *)
(* SelectRedisClient of db_serv/lib/redis.go, among redis clients by their *)
(* connections.  rand makes each of them a set of possible results.        *)
(***************************************************************************)
EXTENDS Integers, Sequences

CONSTANT NoServ         \* -1, and nil for a redis client

\* Position k places after i, around n places counted from 1.
Around(i, k, n) == IF i + k <= n THEN i + k ELSE i + k - n

\* From place i on, around: the first place of 1 .. n that is in good.
FirstFrom(i, n, good) ==
  LET k == CHOOSE k \in 0 .. n - 1 :
             Around(i, k, n) \in good /\ \A j \in 0 .. k - 1 : Around(i, j, n) \notin good
  IN  Around(i, k, n)

(* stats[s] is the time of the last heartbeat of s, 0 if there is none.    *)
Fresh(stats, s, life, now) == stats[s] + life >= now

ByRand(candidate, stats, life, now) ==
  LET n == Len(candidate)
      good == {i \in 1 .. n : Fresh(stats, candidate[i], life, now)}
  IN  IF good = {} THEN {NoServ}
      ELSE {candidate[FirstFrom(i, n, good)] : i \in 1 .. n}

ByHash(hash_v, candidate, stats, life, now) ==
  LET s == candidate[(hash_v % Len(candidate)) + 1]
  IN  IF hash_v > 0 /\ Fresh(stats, s, life, now) THEN {s} ELSE {NoServ}

SelectProperServ(method, hash_v, candidate, stats, life, now) ==
  CASE Len(candidate) = 0 -> {NoServ}
    [] Len(candidate) = 1 ->
         IF stats[candidate[1]] # 0 /\ Fresh(stats, candidate[1], life, now)
         THEN {candidate[1]} ELSE {NoServ}
    [] Len(candidate) > 1 /\ method = "RAND" -> ByRand(candidate, stats, life, now)
    [] Len(candidate) > 1 /\ method = "HASH" -> ByHash(hash_v, candidate, stats, life, now)

(* conns[i] is GetConnNum of client i; 1 is the master.  A read tries from *)
(* a random place on, but from the first slave when rand names the master. *)
ReadFrom(i) == IF i = 1 THEN 2 ELSE i

SelectRedisClient(method, opt, conns) ==
  LET n == Len(conns)
      good == {i \in 1 .. n : conns[i] > 0}
      master == IF n > 0 /\ conns[1] > 0 THEN {1} ELSE {NoServ}
  IN  CASE n <= 1 -> master
        [] n > 1 /\ (method = "SINGLE" \/ (method = "SM" /\ opt # "R")) -> master
        [] n > 1 /\ method = "SM" /\ opt = "R" ->
             IF good = {} THEN {NoServ} ELSE {FirstFrom(ReadFrom(i), n, good) : i \in 1 .. n}
        [] n > 1 /\ method \notin {"SINGLE", "SM"} -> {NoServ}
=============================================================================
