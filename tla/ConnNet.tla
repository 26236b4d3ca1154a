------------------------------ MODULE ConnNet ------------------------------
(***************************************************************************)
(* The front of conn_serv: the tcp server, its clients and the part of     *)
(* main that uses it (conn_serv/lib/clients.go: ReadClients, SendToClient, *)
(* CloseClient).  What the servers behind make of a request is left open:  *)
(* main may answer a connection it knows of, or close it, at any time.     *)
(***************************************************************************)
EXTENDS GameClient

CONSTANT
  Scenarios    \* [valid_conn, enc_type, method, asks, answers, closes]: how the server
               \* starts, and of each client the method, the packages it may send, the
               \* lengths of the answers main has for it, whether main may close it

ASSUME ScenariosOK ==
  \A s \in Scenarios :
    /\ s.valid_conn \in BOOLEAN /\ s.enc_type \in {"none", "gen", "rsa"}
    /\ s.method \in [Conn -> {"interface", "command", "simple", "press", "other", "absent"}]
    /\ s.asks \in [Conn -> Nat] /\ s.answers \in [Conn -> Seq(Nat)]
    /\ s.closes \in [Conn -> BOOLEAN]

VARIABLE
  main         \* of a connection: what main handled, the answers it has left, how
               \* often its end was reported, whether main may close it

vars == <<tcpVars, cli, main>>

ConnNetInit ==
  \E s \in Scenarios :
    /\ TcpInit(s.valid_conn, s.enc_type) /\ GameInit(s.method, s.asks)
    /\ main = [c \in Conn |-> [handled |-> <<>>, answers |-> s.answers[c], reported |-> 0,
                               closes |-> s.closes[c]]]

\* HandleClientPkg on the next package of the batch; data that does not
\* unzip or decode is dropped.
HandleClientPkg ==
  /\ batch # <<>>
  /\ LET b == Head(batch)
     IN  main' = [main EXCEPT
           ![b.key].reported = IF b.info = "close" THEN @ + 1 ELSE @,
           ![b.key].handled = IF b.info = "normal" THEN Append(@, b.data) ELSE @]
  /\ batch' = Tail(batch)
  /\ UNCHANGED <<servVars, recv_queue, cl, net, marred, cli>>

SendToClient(c) ==
  /\ main[c].handled # <<>> /\ main[c].answers # <<>>
  /\ Send(c, [from |-> c, id |-> -Len(main[c].answers), len |-> Head(main[c].answers),
              enc |-> None], "normal")
  /\ main' = [main EXCEPT ![c].answers = Tail(@)]
  /\ UNCHANGED cli

\* CloseClient: its answer is not looked at.
MainCloses(c) ==
  /\ main[c].handled # <<>> /\ main[c].closes
  /\ Send(c, [Junk EXCEPT !.len = 0], "close")
  /\ main' = [main EXCEPT ![c].closes = FALSE]
  /\ UNCHANGED cli

ReadClients == Recv /\ UNCHANGED <<cli, main>>
ServerExit == Close /\ UNCHANGED <<cli, main>>

Next ==
  \/ TcpServer /\ UNCHANGED <<cli, main>>
  \/ \E c \in Conn : \/ Run(c) /\ UNCHANGED <<cli, main>>
                     \/ Client(c) /\ UNCHANGED main
                     \/ SendToClient(c) \/ MainCloses(c)
  \/ ReadClients \/ HandleClientPkg \/ ServerExit

\* The goroutines run; clients and the servers behind need not.
Fairness ==
  /\ WF_vars(TcpServer /\ UNCHANGED <<cli, main>>)
  /\ \A c \in Conn : WF_vars(Run(c) /\ UNCHANGED <<cli, main>>)
  /\ WF_vars(ReadClients) /\ WF_vars(HandleClientPkg)

Spec == ConnNetInit /\ [][Next]_vars
FairSpec == Spec /\ Fairness

-----------------------------------------------------------------------------
TypeOK ==
  /\ client_list \in [Slot -> Conn \cup {None}]
  /\ curr_conn \in 0 .. MaxConn /\ key_map \subseteq Conn
  /\ close_ch \in Seq(Slot) /\ exit_ch \in BOOLEAN
  /\ Len(recv_queue) <= RecvCap /\ Len(snd_queue) <= SndCap
  /\ serv.pc \in {"accept", "close", "dispatch", "append", "exited"}
  /\ \A c \in Conn :
       /\ cl[c].stat \in {"none", "normal", "closing"} /\ Len(cl[c].snd_queue) <= ClientCap
       /\ cl[c].pc \in {"read", "parse", "append", "send", "out", "done"}
       /\ net[c].peer \in {"idle", "pending", "refused", "open", "left", "closed"}
       /\ marred[c] \subseteq {"reused", "cut", "torn", "panicked"}

\* A slot is never lost nor freed twice: curr_conn counts the slots in use,
\* the key map names exactly their connections, and the slots in close_ch
\* are, each once, those of the clients that are closing.
SlotsMatch ==
  LET used == {s \in Slot : client_list[s] # None}
  IN  /\ curr_conn = Cardinality(used)
      /\ key_map = {client_list[s] : s \in used} /\ Cardinality(key_map) = Cardinality(used)
      /\ \A i, j \in 1 .. Len(close_ch) : close_ch[i] = close_ch[j] => i = j
      /\ ToSet(close_ch) = {s \in used : cl[client_list[s]].stat = "closing"}

\* What main handles of a connection is what its client sent, in order and
\* once, as long as no read ended inside a package behind a whole one, no
\* buffer was taken before main handled it and no decryption panicked, after
\* which packages come again.  Data of another key is noise in its place.
InOrder ==
  \A c \in Conn : marred[c] \cap {"cut", "reused", "panicked"} = {} =>
    \A i \in 1 .. Len(main[c].handled) :
      main[c].handled[i].from = c /\ main[c].handled[i].id = i

\* What a client reads and can tell from noise is addressed to it and in the
\* order main answered, some of it perhaps dropped, as long as no write was
\* cut short.
OutOrder ==
  \A c \in Conn : "torn" \notin marred[c] =>
    \A i \in 1 .. Len(cli[c].got) :
      LET d == cli[c].got[i]
      IN  d = Junk \/ /\ d.from = c
                      /\ \A j \in 1 .. i - 1 : cli[c].got[j] = Junk \/ cli[c].got[j].id < d.id

\* The end of a connection is told last and at most once, and never when the
\* server itself closed it.
CloseLast ==
  \A c \in Conn :
    LET q == batch \o recv_queue
        mine == {i \in 1 .. Len(q) : q[i].key = c}
        told == {i \in mine : q[i].info = "close"}
    IN  /\ \A i \in told : ~cl[c].server_close /\ \A j \in mine : j <= i
        /\ main[c].reported <= 1 /\ (main[c].reported = 1 => mine = {})

\* The server and a game client encrypt with the same key, whatever the order
\* of its first packages, the server's answers and the reads of both: of what
\* it sends, main never gets noise and no decryption panics, unless the cache
\* was cut or a buffer taken; what it reads and can tell from noise was made
\* with the key it has; both unless a write was cut short.
KeysAgree ==
  \A c \in Conn : IsGame(c) /\ "torn" \notin marred[c] =>
    /\ marred[c] \cap {"cut", "reused"} = {} =>
         /\ "panicked" \notin marred[c]
         /\ \A i \in 1 .. Len(main[c].handled) : main[c].handled[i].enc = cl[c].enc
    /\ \A i \in 1 .. Len(cli[c].got) :
         cli[c].got[i] = Junk \/ cli[c].got[i].enc = AskKey(c)

\* A connection that is closing gives its slot back, unless the server ends
\* or tcp_server waits for room in the queue of a client that has ended.
Wedged == serv.pc = "append" /\ cl[serv.item.key].stat = "closing"
CloseFrees ==
  \A c \in Conn :
    (cl[c].stat = "closing" /\ c \in key_map) ~> (c \notin key_map \/ exit_ch \/ Wedged)
=============================================================================
