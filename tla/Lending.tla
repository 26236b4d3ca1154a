------------------------------ MODULE Lending ------------------------------
(***************************************************************************)
(* What the redis pool promises its callers: an open connection is lent to *)
(* one command at a time, and is closed only when no command has it.       *)
(***************************************************************************)

CONSTANTS
  Cmd,      \* goroutines that execute commands
  Conn,     \* connections
  NoConn    \* none

VARIABLES
  open,     \* the connections open
  lent      \* [Cmd -> Conn \cup {NoConn}], what each command has

Init == open = {} /\ lent = [c \in Cmd |-> NoConn]

Idle(k) == k \in open /\ \A c \in Cmd : lent[c] # k

Connect(k) ==
  /\ k \notin open /\ \A c \in Cmd : lent[c] # k
  /\ open' = open \cup {k}
  /\ UNCHANGED lent

Lend(c, k) ==
  /\ lent[c] = NoConn /\ Idle(k)
  /\ lent' = [lent EXCEPT ![c] = k]
  /\ UNCHANGED open

Return(c) ==
  /\ lent[c] # NoConn
  /\ lent' = [lent EXCEPT ![c] = NoConn]
  /\ UNCHANGED open

Close(S) ==
  /\ \A k \in S : Idle(k)
  /\ open' = open \ S
  /\ UNCHANGED lent

Next ==
  \/ \E k \in Conn : Connect(k)
  \/ \E c \in Cmd, k \in Conn : Lend(c, k)
  \/ \E c \in Cmd : Return(c)
  \/ \E S \in SUBSET Conn : Close(S)

Spec == Init /\ [][Next]_<<open, lent>>
=============================================================================
