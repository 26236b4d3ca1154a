----------------------------- MODULE GameClient -----------------------------
(***************************************************************************)
(* The clients of conn_serv in client/:                                    *)
(*   "interface", "command"  game_cli.go: main connects, sends the VALID   *)
(*        package and then one package per command; RecvPkg runs beside    *)
(*        it.  The answer to VALID names the encryption; for RSA the       *)
(*        client then sends a key of its own (NEGO) and encrypts once the  *)
(*        server took it.                                                  *)
(*   "simple"  simple_cli.go: VALID, its answer, a ping, its answer        *)
(*   "press"   press.go: a request at once, its answer                     *)
(*   "other"   a client of another make, which sends what it likes         *)
(*   "absent"  never connects                                              *)
(***************************************************************************)
EXTENDS TcpServ

CONSTANT
  OtherOps    \* packages <<op, enc>> a client of another make sends

VARIABLE cli  \* the method, enc_type, enc_key, enc_block of a client; where its
              \* main is; packages it may still send, requests sent; what it read

GameInit(method, asks) ==
  cli = [c \in Conn |-> [method |-> method[c], enc_type |-> "unknown", enc_key |-> None,
                         enc_block |-> None, asks |-> asks[c], sent |-> 0, main |-> "start",
                         reads |-> TRUE, got |-> <<>>]]

Method(c) == cli[c].method
IsGame(c) == Method(c) \in {"interface", "command"}
Request(c, i, enc) == [from |-> c, id |-> i, len |-> 1, enc |-> enc]
cliRest == <<servVars, recv_queue, cl, batch, marred>>

Valid(c) == Pkg("valid", Request(c, 0, "pass"))
Plain(c) == Pkg("normal", Request(c, cli[c].sent + 1, None))

\* Dial, and the first package: VALID, or for press the request itself.
Connect(c) ==
  /\ cli[c].main = "start" /\ Method(c) # "absent"
  /\ net' = [net EXCEPT ![c].peer = "pending",
                        ![c].up = CASE Method(c) = "other" -> <<>>
                                    [] Method(c) = "press" -> Plain(c)
                                    [] OTHER -> Valid(c)]
  /\ cli' = [cli EXCEPT ![c].main = CASE Method(c) = "press" -> "wait"
                                      [] Method(c) = "simple" -> "valid"
                                      [] OTHER -> "loop",
                        ![c].sent = IF Method(c) = "press" THEN 1 ELSE 0]
  /\ UNCHANGED cliRest

\* A dial that fails: press.go's TestCase returns without its wg.Done.
ConnectFails(c) ==
  /\ cli[c].main = "start" /\ Method(c) # "absent"
  /\ cli' = [cli EXCEPT ![c].main = "lost"]
  /\ UNCHANGED <<cliRest, net>>

CanWrite(c) == net[c].peer \in {"pending", "open"} /\ Len(net[c].up) < NetCap

\* game_cli.go, SendPkg.  Before the client knows how to encrypt nothing is
\* sent; a client run for one command then waits for exit_ch all the same.
AskKey(c) == IF cli[c].enc_type = "none" THEN None ELSE cli[c].enc_block
CanAsk(c) == cli[c].enc_type = "none" \/ cli[c].enc_block # None
GameSend(c) ==
  /\ IsGame(c) /\ cli[c].main = "loop" /\ CanWrite(c) /\ cli[c].asks > 0
  /\ LET i == IF CanAsk(c) THEN cli[c].sent + 1 ELSE cli[c].sent
     IN  /\ CanAsk(c) \/ Method(c) = "command"
         /\ net' = IF CanAsk(c)
                     THEN [net EXCEPT ![c].up = @ \o Pkg("normal", Request(c, i, AskKey(c)))]
                     ELSE net
         /\ cli' = [cli EXCEPT ![c].asks = @ - 1, ![c].sent = i,
                               ![c].main = IF Method(c) = "command" THEN "wait" ELSE @]
  /\ UNCHANGED cliRest

OtherSend(c) ==
  /\ Method(c) = "other" /\ cli[c].main = "loop" /\ CanWrite(c) /\ cli[c].asks > 0
  /\ \E o \in OtherOps :
       LET sent == cli[c].sent + (IF o[1] = "normal" THEN 1 ELSE 0)
       IN  /\ net' = [net EXCEPT ![c].up = @ \o Pkg(o[1], Request(c, sent, o[2]))]
           /\ cli' = [cli EXCEPT ![c].asks = @ - 1, ![c].sent = sent]
  /\ UNCHANGED cliRest

\* RecvConnSpecPkg: the client after a package that is not a normal one,
\* and the cells it sends.
RecvConnSpecPkg(c, u) ==
  LET me == cli[c]
  IN  CASE u.op = "valid" /\ EncType = "none" ->
             [me |-> [me EXCEPT !.enc_type = "none"], out |-> <<>>]
        [] u.op = "valid" /\ EncType = "gen" ->
             [me |-> [me EXCEPT !.enc_type = "gen", !.enc_key = u.data.enc,
                                !.enc_block = u.data.enc], out |-> <<>>]
        [] u.op = "valid" /\ EncType = "rsa" ->
             [me |-> [me EXCEPT !.enc_type = "rsa", !.enc_key = "nego"],
              out |-> Pkg("nego", Request(c, 0, "nego"))]
        [] u.op = "nego" /\ u.data.enc = "ok" ->
             [me |-> [me EXCEPT !.enc_block = me.enc_key], out |-> <<>>]
        [] OTHER -> [me |-> me, out |-> <<>>]

\* What the decryption makes of a package that was read: one of another key is
\* an error, a panic or noise, as in the server.
Decrypted(c, u) ==
  IF /\ IsGame(c) /\ u.ret = "pkg" /\ u.op = "normal"
     /\ CanAsk(c) /\ AskKey(c) \notin {None, u.data.enc}
    THEN [ret : {"pkg", "error", "panic"}, op : {u.op}, data : {u.data}]
    ELSE {u}

\* game_cli.go, RecvPkg: a package it cannot read for want of a key, or half
\* of one under encryption, ends the reader; a panic the whole client.
GameRecv(c, u) ==
  LET me == cli[c]
      same == [me |-> me, out |-> <<>>]
  IN  CASE u.ret = "illegal" -> same
        [] u.ret = "error" -> [same EXCEPT !.me.reads = FALSE]
        [] u.ret = "panic" -> [same EXCEPT !.me.main = "done"]
        [] u.ret = "pkg" /\ u.op # "normal" -> RecvConnSpecPkg(c, u)
        [] u.ret = "not ready" /\ me.enc_type # "none" ->
             [same EXCEPT !.me.reads = FALSE]
        [] u.ret = "pkg" /\ u.op = "normal" /\ ~CanAsk(c) -> [same EXCEPT !.me.reads = FALSE]
        [] OTHER -> [same EXCEPT !.me.got = IF u.ret = "pkg" THEN Append(@, u.data) ELSE @,
                                 !.me.main = IF Method(c) = "command" THEN "done" ELSE @]

\* simple_cli.go goes on when it reads a package, press.go ends either way.
OneShotRecv(c, u) ==
  LET me == cli[c]
      last == [me EXCEPT !.got = IF u.ret = "pkg" /\ u.op = "normal"
                                   THEN Append(@, u.data) ELSE @, !.main = "done"]
  IN  IF me.main = "valid" /\ u.ret = "pkg"
        THEN [me |-> [me EXCEPT !.main = "wait", !.sent = @ + 1], out |-> Plain(c)]
        ELSE [me |-> last, out |-> <<>>]

\* A client reads n cells and looks at the first package only; the rest of
\* what it read is lost.
RecvPkg(c, n) ==
  /\ Method(c) # "other" /\ cli[c].reads /\ cli[c].main \in {"loop", "valid", "wait"}
  /\ n <= Len(net[c].down)
  /\ \E v \in UnPack(SubSeq(net[c].down, 1, n)) : \E u \in Decrypted(c, v) :
       LET r == IF IsGame(c) THEN GameRecv(c, u) ELSE OneShotRecv(c, u)
       IN  /\ cli' = [cli EXCEPT ![c] = r.me]
           /\ net' = [net EXCEPT ![c].down = SubSeq(@, n + 1, Len(@)), ![c].up = @ \o r.out]
  /\ UNCHANGED cliRest

\* The client ends and the connection with it: "exit" typed, exit_ch, the
\* last answer.  What the server has not read may be lost.
GameExit(c) ==
  /\ \/ Method(c) \in {"interface", "other"} /\ cli[c].main = "loop"
     \/ cli[c].main = "done"
  /\ cli' = [cli EXCEPT ![c].main = "exited"]
  /\ \E up \in {net[c].up, <<>>} :
       net' = [net EXCEPT ![c].up = up,
                          ![c].peer = IF @ \in {"pending", "open"} THEN "left" ELSE @]
  /\ UNCHANGED cliRest

\* The server closed the connection: the read fails and the client ends.
GameClosed(c) ==
  /\ net[c].peer \in {"closed", "refused"} /\ cli[c].main \notin {"exited", "lost"}
  /\ net[c].down = <<>>
  /\ cli' = [cli EXCEPT ![c].main = "exited"]
  /\ UNCHANGED <<cliRest, net>>

Client(c) ==
  \/ Connect(c) \/ ConnectFails(c) \/ GameSend(c) \/ OtherSend(c)
  \/ GameExit(c) \/ GameClosed(c)
  \/ \E n \in 1 .. Len(net[c].down) : RecvPkg(c, n)
=============================================================================
