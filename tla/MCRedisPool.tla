---------------------------- MODULE MCRedisPool ----------------------------
(***************************************************************************)
(* Small instances of RedisPool for TLC.                                   *)
(***************************************************************************)
EXTENDS RedisPool, TLC

(* A new address; as many connections as can be, normally; too many. *)
NewAddr == [None EXCEPT !.addr = TRUE]
MoreConn == [None EXCEPT !.max_count = Limit, !.normal_count = Limit]
TooMany == [None EXCEPT !.max_count = Limit + 1]
Resets == {NewAddr, MoreConn, TooMany}

PoolSymmetry == Permutations(Cmd) \cup Permutations(Conn)
=============================================================================
