# A TLA+ development of sgame

sgame is a game-server framework: Go servers that talk to each other through
`proc_bridge`, shared-memory rings and carrier processes written in C, with
redis as the only database. These modules model the parts that keep state
across processes, the TLC configurations check them on small instances and the
proof modules prove the main results for every value of the constants.

## 1. Inventory of the system

A deployment is a number of *groups* plus shared servers. A group is one
`conn_serv`, one `logic_serv` and one `db_serv`. `disp_serv` relays messages
between groups, `manage_serv` monitors, redis is shared. Every server is one
main loop (`servers/*/lib/base.go`): take signals, take all messages, run
tickers, sleep. Only `db_serv` (a goroutine for every login and logout),
`comm/redis.go` and `comm/tcp_serv.go` run goroutines beside the loop.

| Component | Source | State | Operations | Talks to | Hard behaviour | What makes it correct |
|---|---|---|---|---|---|---|
| conn_serv | `servers/conn_serv/lib` | `Ckey2Uid`, `Uid2Ckey`, connections | client packages, close, login and logout answers | clients (tcp), logic_serv | answers for connections that closed or were rebound meanwhile; closes the server starts are not reported back | a connection is bound only to the user authenticated on it; one connection per user |
| logic_serv | `servers/logic_serv/lib` | `user_map`, `curr_online`, `hearbeat` | login, logout, kick, timeout, shutdown | conn_serv, db_serv, disp_serv | crash between a change and its save; kick chain over three processes | a user is online at one logic_serv; the counter is exact; what is loaded is what was saved |
| db_serv login/logout | `servers/db_serv/lib/user_login.go` | none but its goroutines; `online_logic`, `blob_info`, the login lock in redis | check password, lock, read, set online; save on logout | redis, logic_serv | goroutines interleave at each redis command; a lock that only expires; lost replies | the lock excludes; `online_logic` is never taken over |
| db_serv registration | `servers/db_serv/lib/reg.go` | names, uid counter, user hashes in redis | HSETNX, INCRBY, HMSET, HMSET | redis, logic_serv | a failure between two of the four commands; a request before the first uid was set | no two users share a name or a uid; who is told of success has both |
| disp_serv | `servers/disp_serv/lib` | none | relay by id, by hash, at random | logic_serv | choice among servers that come and go | a message reaches the server it names |
| redis pool | `servers/comm/redis.go` | idle, error, block, reset, exit queues; connection slots | command, sync command, resize, reconnect, close | redis | resize and close while a slot is in use | a slot is used by one command at a time |
| tcp server | `servers/comm/tcp_serv.go` | `client_list`, `key_map`, `close_ch`, package queues, caches of each connection, pooled buffers | accept, read, parse, handshake, dispatch, send, close | clients, conn_serv's main loop | five close paths in three goroutines; reads and writes that end inside a package; a key that changes in the middle of a stream | a slot is freed once, its end is told once and last, packages come whole and in order, both ends use one key |
| game clients | `client/` | encryption key, what was read | connect, handshake, send, read, exit | tcp server | the reader runs beside the sender | as above, from the other end |
| package format | `lib/net/net_pkg.go` | none | pack, unpack, predict a length | tcp server, clients | boundaries of 1, 2 and 4 byte lengths | what is packed is read back, a part of it never is |
| proc_bridge library | `proc_bridge/library/proc_bridge.c` | two rings per process in shared memory | send, receive | carrier of the same process | reader and writer without a lock | the ring is a FIFO that loses nothing it accepted |
| carrier | `proc_bridge/carrier` | per target send buffer, per client receive buffer, send bitmap | dispatch, flush, read, connect, close, expand, shrink | rings, other carriers (tcp) | reconnects, full buffers, back-pressure through a bitmap | order per sender; a blocked channel is freed |
| servers watching each other | `servers/comm/config.go`, `*/lib/hearbeat.go` | `PeerStats` | heartbeat, select a server | all servers | a server that dies between selection and send | only servers heard from are selected |
| tickers | `servers/comm/ticker.go` | ticks and the nearest expiry | add, delete, run | main loops | the cached nearest expiry | no ticker is late because of the cache |
| reports and manager | `servers/comm/report*.go`, `signal.go`, `*/lib/report.go`, `servers/manage_serv` | `ChSig`, `ChInfo`, report queues, one slot for a command; `WatchMap`, its lock, `cmd_ch` | signals, reports, commands, panel requests, reload | operators, all servers | datagrams lost and out of order; a main loop that fills a channel only it empties; a lock not given back on an early return | a command is answered once and what is shown was done; a server told to stop stops |
| log, tables, process control, tools | `lib/log`, `comm/table.go`, `lib/proc`, `spush`, `xls_conv` | - | output, loading, deployment | - | - | - |

`PROJECT.json` lists every component with its status, and the hazards, each at
the line where it bites.

## 2. The login sessions

| Module | Code | State |
|---|---|---|
| `SsProto` | `proto/ss`, `*/lib/send_msg.go`, `*/lib/recv_msg.go` | the six channels of a group |
| `ConnServ` | `conn_serv/lib/clients.go`, `login.go` | `ckey2uid`, `uid2ckey`, `tcp` |
| `LogicServ` | `logic_serv/lib/login.go`, `role.go`, `base.go` | `user_map`, `curr_online`, `stat` |
| `DbServ` | `db_serv/lib/user_login.go` and the redis it works on | `proc` (goroutines), `online`, `blob`, `lock` |
| `DispServ` | `disp_serv/lib/disp.go` | - |
| `Session` | their composition, its fairness and its properties | - |
| `MCSession` | the instances for TLC | - |
| `SessionProofs` | the theorems | - |

Every handler of a main loop runs to its end before the next, so it is one
action, with every message it sends. The goroutines of db_serv interleave, so
each step up to the next redis command is an action of its own (`RecvUserLoginReq`,
`LoginLock`, `LoginGetInfo`, `LoginUpdateOnline`; `RecvUserLogoutReq`,
`LogoutSave`). A channel is a bounded FIFO: `SendToServ` logs a full ring and
loses the message (`Offer`). Names stand for uids, a user's `blob_info` for a
version that every session changes. A client is what packages it may send: any,
for any user, at any time; `Knows` says whose passwords it has.

What is abstracted: the contents of messages, the wording of logs, the clock
(a lock may lapse, a `hearbeat` may be too old at any time). A key of `tcp_serv`
is reused only when nothing names the old connection (keys come from a 64-bit
counter). A group's three servers are configured to talk to each other only, as
the deployment files do.

### Runs

| Run | What it asks | Instance | Result |
|---|---|---|---|
| `bind` | do the maps of conn_serv bind connections to the right users | 1 group, 2 connections, 2 users, 2 goroutines, one client knows both passwords | `BindingIsAuthentic`, `OneClientPerUser` hold |
| `calm` | does the login lock exclude, is `online_logic` ever taken over; one home per user, exact counters, no lost save, with crashes, shutdowns and failing commands | 2 groups, 1 user, a connection each, 2 goroutines, `Separate` | `LoginExclusive`, `NoSteal`, `OnlineCount`, `OneHome`, `OwnSave` hold |
| `away` | is a user left behind at another, perhaps dead, logic_serv let in again | 2 groups, user online at g1, his clients at g2, one goroutine | `KickedThenLetIn` holds |
| `onehome` | `OneHome` without `Separate` | as `calm`, larger rings, no failures | violated |

The violated run is a finding. The logout goroutine resets `online_logic`
without looking at it and takes no lock, so a logout that reaches redis after
the next login's `HSET` leaves the user in a `user_map` while redis says he is
nowhere; the next login elsewhere finds nobody to kick. Two comments in the code
(`user_login.go:310`, `logic_serv/lib/login.go:60`) say that a user elsewhere is
kicked first. `OwnSave` needs `Separate` for the same reason: a login may read the
blob before the save of the previous session lands.

`Separate` is an assumption on the environment, not on the code: no login
of a user starts while a logout of his is under way, and the reverse, and a lock
lapses when neither is. The `calm` run states what the code achieves under it.
`LoginExclusive` and `NoSteal` do not need it: they are proved without (`Locking` and `Stealing` below).

### Bounds

`MaxLoad` bounds the messages and goroutines under way when a client or a clock
starts more; handlers are never held up by it. With 2, two requests are in
flight together, which every race between a login and a logout, or two logins,
needs. `ChanCap` 2 makes rings overflow, 3 or more keeps kicks, answers
and saves that are under way. `Versions` 2 is what a save against a stale one
needs. Two users or two groups, two connections and two goroutines are the
smallest instance in which a binding, a kick or a lock can go wrong; `away` has one
goroutine since nothing races there.

### Fairness

`LoopFairness`: the main loops take the messages that have come (weak fairness of each
handler), and the goroutine limit is a bound of the model, so the start of a
goroutine is strongly fair. `RedisFairness`: a goroutine reaches its next command,
since redis answers or TCP keepalive breaks the connection; a lock lapses (`EX 20`). `ClientFairness`: a client
that is connected and has no user asks again, a client cut off reconnects,
`hearbeat` becomes too old since nothing refreshes it. Guards of `Room`
make these enabled only from time to time, so they are strongly fair. Nothing is assumed
of failures. `KickedThenLetIn` asks more of the environment in its premise: from some point
on no connection closes and no logic_serv stops.

### Theorems

`SessionProofs` proves, for any groups, users, connections, goroutines and
capacity and from the assumptions on the constants alone:

- `Typing`: `Spec => []TypeOK`.
- `Binding`: `Spec => []BindingIsAuthentic`, and `OneClient`: `Spec => []OneClientPerUser`. The inductive
  invariant follows the authentication along its way: `Vouched` (a goroutine past the
  password check, and a successful answer on any channel, name a user
  whose password the connection's client knows) and `Addressed` (what a goroutine or a channel
  of group g carries is for a connection of g).
- `Locking` and `Stealing`: for `LockOutlives = TRUE`, `[]LoginExclusive` and `NoSteal`. The invariant
  is `Held` (a goroutine between lock and update implies the lock is set),
  `LoginExclusive` itself and `Seen` (a goroutine about to update `online_logic` saw
  it free or at its own logic_serv, and so it still is: only the holder of the
  lock sets it to a logic_serv).
- `Counting`: for finite `Uid`, `[]OnlineCount`.
- `Homing` and `Saving`: for `Separate = TRUE`, `Spec /\ []Heard => []OneHome` and `=> []OwnSave`. `Heard` says that
  no ring from a logic_serv to its conn_serv is full, so that no `LOGOUT_RSP` is lost. It is needed: with `ChanCap` 1 or 2
  in the `calm` run TLC finds a user at two homes, because a connection that was not told of his logout stays bound to him, and when its
  client logs out later `online_logic` is reset from under his next home. In the `calm` run itself (`ChanCap` 5) it always holds. Lost
  commands, kicks and saves, failing commands, crashes and shutdowns are all allowed.

The invariant of the last two is `Home(u)`, for every user: what is under way for him, wherever it is, leads to the logic_serv
`online_logic` names or finds it reset (`Asked`, `Kicked`, `Told`, `Refusing`, `Ready`, `Granted`, `Granting`); a login that holds the lock
excludes every trace of a logout and any other login (`Entering`, `Leaving`); a login that still asks while
something of a logout is under way will find the lock; a connection bound to him where he is not has the `LOGOUT_RSP` in its ring; and
the blob in a session, an answer or a goroutine is the one in redis. TLC checked it on the `calm` run before it was proved. Each
fact is a predicate on the contents of the rings (`Msgs`), so that a message handed on from one place to the next changes no fact at all; a step that adds none
keeps `Home` by one lemma (`QuietHome`), and the rest of the proof is about the ten steps that do.

Only model-checked: the liveness property.

## 3. The ring

| Module | Code | State |
|---|---|---|
| `ByteFifo` | what a channel of `proc_bridge` promises | `stream`, `out` |
| `Ring` | `library/proc_bridge.c` `_send_to_bridge`, `_recv_from_bridge`; their twins `append_recv_channel`, `fetch_send_channel*` in the carrier; `lib/proc/api.go` | `buff`, `head`, `tail`, `count` in shared memory; `mutex` of `Proc`; `w`, `r`, the calls under way |
| `MCRing` | the instances for TLC | - |
| `RingProofs` | the theorems | - |

A channel is used by one process that writes and one that reads. A server
sends on its send channel and receives on its receive channel, the carrier the other
way round; the four functions follow the same steps, so `Ring` is either channel.
A byte is the package it belongs to and its place in it. A `memcpy` is copied byte
by byte and may be cut short after any of them by the end of the process
(`WriterRestart`, `ReaderRestart`: the shared memory stays, `_open_bridge` resets
nothing). `count++` is a load and a store. Stores become visible in program
order: the C code is built without optimisation and memory is x86's. The writer may have several
goroutines (`db_serv`, `SendByLock`). A refused send changes nothing and is
no step. Left out: the send bitmap, which refuses more sends; `drop_time`, which every caller
sets to -1; time stamps and the total counters.

| Run | What it asks | Instance | Result |
|---|---|---|---|
| `ring` | is the ring a queue of whole packages, and do they come out | 8 bytes, heads of 2, packages of 3, 4 and 5 bytes, 2 goroutines, both processes restart | `ImplementsFifo`, `Progress` hold |

Eight bytes hold two packages of three bytes and let every length wrap at every place;
the package of four fills the receiver's buffer exactly, the one of five does not fit it and stays
at the head for ever (`RecvTooLong`), which is what the code does. `Progress` assumes that the reader
polls (every main loop does in each turn) and is not restarted for ever, and nothing of the writer.
`MaxCount` bounds the counter. The counter itself is no measure of anything: `count++` and `count--` race,
an update is lost now and then, and the figure that the manager shows drifts.

`RingProofs` proves for every ring size, head length, set of packages and number of senders:
`Typing` (`[]TypeOK`) and `Refinement` (`Spec => ImplementsFifo`). The invariant `IInv` says:
`Framed`, every byte between head and tail is byte `n` of some package whose bytes
0 to its last lie around it in order, so the stream is a concatenation
of whole packages - stated of each byte and its neighbours, so that no
induction over the list of packages is needed; `Sending`, the bytes copied so far lie right
behind the tail and fit below the head; `Receiving`, the bytes read so far are those in front of the
stream. A step of the writer cannot disturb `Receiving` because it writes outside
the stream, a step of the reader only gives the writer more room.

## 4. The redis pool

| Module | Code | State |
|---|---|---|
| `Lending` | what `comm/redis.go` promises to those who execute commands | `open`, `lent` |
| `RedisPool` | `comm/redis.go` | `conn_stats`, `conns`, `conn_count`, the queues, the limits, `reset_attr`; goroutines that dial, commands under way, the manager |
| `MCRedisPool` | the instances for TLC | - |
| `RedisPoolProofs` | the theorems | - |

A command is one of two forms: `RedisExeCmd` in a goroutine of its own, or
`AllocSyncCmdHead`, `RedisExeCmdSync` and `FreeSyncCmdHead` (db_serv's logins).
Both take a slot, check it in a loop of `Tries` (5) and once more behind it, read
`conns[idx]`, execute and give the slot back; they differ in when the token of
`block_queue` returns and in what a nil connection does (`sync`). Each of these
is an action, since the manager and the dials run between them. A dial is a
goroutine of two steps (`DialDone` under the lock, `Arrive` behind it), or
fails. The manager's turn is a chain of actions: `ManageErr`, reset
(`ManageReset`, `ManageClose`), then one of `ManageConnect`, `ManageExpand`,
`ManageShrink`.

Abstracted: which command is executed and what redis answers; the order in
`err_queue` (the manager takes all of it); a loop over the slots by
the manager is one step; `reset_attr` is set in one step, and several resets
that wait are one, since the first that is taken clears `reset_attr`. A new
address or password is `addr`. Left out: `Close`, after which db_serv
exits; the refusal of commands when `block_queue` is half full (50000 of them);
`SelectRedisClient`, which picks a pool by a hash.

| Run | What it asks | Instance | Result |
|---|---|---|---|
| `poolreset` | what is left of the count with resets that do not lower `max_count` | a pool of 1 slot out of 2, 2 commands, 1 failure, 2 resets: of the address, of both limits upwards, to a limit too large | `CountCovers` holds |
| `poolmend` | without a reset, is a connection lent to one command at a time, is the count exact, does the pool recover from failures | 2 slots, both normal, 2 commands, 2 failures, `FairSpec` | `Served`, `KeepsNormal`, `CountExact`, `ImplementsLending` hold |
| `poolidle` | is a slot in `idle_queue` idle | 2 slots, 1 normal, 2 commands, 1 reset | violated |

The runs that check safety do not look for deadlock: the pool really may stop when
every slot is gone. Two slots and two commands are what sharing a slot takes. `poolmend` has as many
slots as are normal, so it neither expands nor shrinks: that is checked by `poolreset`
and, for pools of every size, part of what is proved below. `MaxFails` bounds failures of the
environment, `MaxResets` the resets of an operator; both may fall anywhere.

Fairness: goroutines run, dials and commands end (redis answers or TCP gives up),
the manager's timer fires (weak fairness). Those that wait to receive from `idle_queue`
are served in the order they came, which is how Go channels queue receivers, so
`Take` and `ShrinkTake` are strongly fair. Nothing is assumed of new commands. Failures
end (`MaxFails`): a pool whose every dial fails recovers from nothing.

`poolidle` is a finding. A reset with a new address empties `idle_queue` and closes every
slot, those in use too; a command that has a slot then puts it into the queue when it
ends, although the slot has been dialled again and is there already. From then on two
commands may use one connection at a time, which the client library does not allow.

Two more things TLC showed of the same code, not kept as runs. The manager decides how many
slots to release and then waits for as many (`redis.go:598`); if commands take
the spare ones first and fail, the slots wait in `err_queue` for the manager and the manager
waits for them, which is why `poolmend` has a pool with nothing to release, and no property covers this. Nor does one cover
the token of `block_queue` that is lost when a reset makes `RedisExeCmd` panic (`ExePanic`, `redis.go:215`).
And a dial that began before a reset counts its
connection after `conn_count` was set to 0, on a slot the manager dials again
(`redis.go:433`): the slot is counted twice, the first connection is lost, and
`conn_count` stays too high, so that a pool may have fewer connections than normal
for good. `CountCovers` is what remains: it is never too low, as long as no reset lowers
`max_count` (`Raising`). That hypothesis is what the comment on `Reset` asks of its callers ("max_conn only
support expand", `redis.go:148`); it is needed, and the code does not enforce it:
`reset_redis_attr` takes a smaller limit with a warning only (`redis.go:642`). The slots
beyond it stay connected, a later change of the address closes the slots below it only
and sets `conn_count` to 0, and closing one of the others later takes it off a count it
is no longer in. With a reset to one slot and then one of the address, TLC reaches
a count of 0 with a slot connected in 10 steps; `poolreset` has no such reset.

`RedisPoolProofs` proves for any numbers of commands, slots and connections, any
tries, limits and failures:

- `Typing`: `Spec => []TypeOK`, resets included.
- `Lends`: for `ResetTo = {}`, `Spec => ImplementsLending`. `Use` is `Lend`, `ExeCmd` is
  `Return`, `DialDone` is `Connect`, the manager's two closes are `Close`, all else stutters.
- `Counts`: for `ResetTo = {}`, `Spec => []CountExact`.
- `Covering`: `Spec /\ [][Raising]_max_count => []CountCovers`, through every other reset.

The inductive invariant `IInv` says where a slot is: one that is connected has an open
connection of its own (`Wired`), one that is being dialled has one goroutine that does (`Dialled`),
and a slot is in at most one of these places - just dialled, in `idle_queue` (once), with
one command, in `err_queue`, among those to be released (`Queued`, `GivenUp`, `Borrowed`).
A reset breaks every part of it but the types. `Covering` therefore has an invariant of its
own, `Within`: slots that are dialled or connected are among the first `max_count`, which is what
`ManageClose` needs when it sets the count to 0. Only model-checked: the liveness properties.

## 5. The carrier

| Module | Code | State |
|---|---|---|
| `CarrierSend` | the sending half of `carrier/bridge_carrier.c`, `carrier/carrier_lib.c`; the bitmap in `proc_bridge.c` | per target `connected`, `buff` (`snd_buff_len`, `snd_head`, data, `snd_block`); `bitmap`, `sending` (the sending list), `chan` and `writing` (the send channel and the server) |
| `CarrierRecv` | the receiving half of `bridge_carrier.c`, `append_recv_channel` and `recv_inner_proto` of `carrier_lib.c` | per connection `client` (`client_info_t`: `verify`, `cache`, `recv_buffer`, counters) and `peer` (the other carrier and the sockets); `turn`, where `read_client_socket` is; `channel`; `clock` |
| `Carrier`, `MCCarrier` | both halves, the instances | - |
| `CarrierProofs` | the theorems | - |

The carrier is one thread, so every handler is one action: a package from
the channel (`Dispatch...`), the walk over the sending list (`Iter...`), connecting and
losing connections, the timer that shrinks buffers (`Shrink`), a reload (`Reload...`), a restart. The
server is another process: it reads its bit (`SendCheck`) and writes later (`SendWrite`). How much of
a buffer a flush moves is up to the socket, so it is any number of bytes.

Abstracted: which package a byte belongs to; the channel is a number of bytes per target,
each package counted with what it may take once packed. Targets share the channel and the
bitmap and nothing else, and what other targets have in the channel only leaves less room, so one
target is enough for TLC; the theorems are for any number. Left out: packages of the
carrier itself to managers (`inner_send_pkg` apart from the VERIFY_REQ), traffic figures, hash maps,
allocations that fail, targets that a reload adds or deletes.

The receiving half reads a connection until it is empty (`Recv`), takes the packages out (`Unpack`) and
delivers each (`Deliver`), after a flush of what waits before it (`flush_recving_buff`). The server empties the channel at the same time, so
each post is an action of its own, and so are a close, by an end of the stream or a reset, between any two cells, and the second in which a client that did not verify itself
is freed. The channel is the queue that `Ring` implements, with its room. The halves share no state; a restart ends both.

| Run | What it asks | Instance | Result |
|---|---|---|---|
| `carrier` | sending: is there room for all that a full channel holds once the bit is set; is a buffer never filled to its last byte; does a block end. Receiving: do packages enter the channel in order, once and only of verified clients; is each counted | packages of 1 to 3 bytes, buffers of 4 bytes growing by doubling up to 9, then by 9, to 15 and over; a channel of 6. A receive channel of 2 for packages of 1 and 2, a receive buffer of up to 8, five scenarios: a peer that sends 7 packages, one that breaks, two at once, two that are not verified, none | `NotFilled`, `NeverFull`, `BlockedHasData`, `Listed`, `Lifted`, `InTurn`, `Accounted` hold |

The sizes are the smallest that keep the order of the real ones
(`CarrierConstantsOK`): a buffer doubles, passes `Mega`, reaches `MaxExpand`, gets the
reserve, wraps everywhere, and is shrunk below each of these again. `Lifted` assumes that the main loop
walks the list in every turn and that the peer reads (`FairSpec`), nothing of the server.

A block is not always temporary. A reload takes every target off the sending list
after one flush (`Reload`). A blocked one gets no package that would put it back, so its data stay and its bit too, until
the connection is lost. `left` records these targets; `Lifted` and `Listed` hold of the others;
without that exception TLC finds a block that is never lifted.

An empty buffer of a megabyte or more is cut to two thirds wherever its head is (`Shrink`, `bridge_carrier.c:2984-2990`). If that is beyond the
new end, the next package is written out of the buffer: `IndexInRange`, which the comment at `carrier_base.h:173` amounts to, does not hold, and TLC
finds it violated when it is added to the run. Memory is overwritten from then on and the program may do anything, so the state is one
no property looks behind (`Astray`): the carrier takes no step in it but a restart, `Lifted` names it, and the safety properties hold
up to and including it. What does hold of the indices is `NotFilled`: no buffer is ever filled to the last byte, where head = tail would read as empty.

`Unseen`, a constant: the bit of a process id that is 7 modulo 8 is the sign of a `char`, and `get_snd_bit` takes it
for clear, so the server never stops sending; `NeverFull` and `Lifted` exclude these, so the defect is disclosed and not caught.

With seven packages for a channel of two bytes and a buffer that grows twice, packages wait, are dropped, and meet
a channel the server has just made room in. Three things of the code no property asks away. What waits in `recv_buffer` is posted only when the next package of this
connection comes; on a quiet connection it stays. A connection that ends takes what waits with it
(`free_client_info` frees it without a flush, and not the buffer), so `Accounted` speaks of open ones. And the comment over `append_recv_channel` says -2 when the channel is full,
where the code returns -3, so the flush does not stop at it but tries again for 20 ms (`bridge_carrier.c:3254`).

`CarrierProofs` proves for any targets and sizes that satisfy `CarrierConstantsOK`: `Typing`, `NoDrop`
(`[]NeverFull`), `Blocked` (`[]BlockedHasData`), `NotStranded` (`[]Listed`) and `Filled` (`[]NotFilled`), every
shrinking included. The invariant says of every target how much the server may still make
the channel hold for it (`Owes`) and that the buffer takes it (`Takes`): a buffer at its limit that is blocked has room for exactly
that, one that is not blocked for a full channel. `Ready` is what a flush leaves: room for a full channel and one
package more, which is why the package in hand may be put into the buffer without a look at the limit.
The lemmas `StoreSound`, `SentSound` and `ShrinkSound` are this argument for one buffer; `StepAt`
lifts it to all.

Of the receiving half it proves, for any connections, sizes and plans that satisfy `RecvConstantsOK` and `PlansOK`, `InOrderOnce`
(`[]InTurn`) and `NoneLost` (`[]Accounted`). Of one connection the invariant (`RInv`) orders four places: what is in the
channel comes before what waits in `recv_buffer`, this before the package in hand, this before all that is still to be read
(`Ordered`; `Line` is the cache, the sockets and the peer in one sequence). `InTurn` alone is not inductive: it says nothing of
the package about to be posted. A step moves one package from the front of a place to the end of the one before it (`Taken`, `Flushed`,
`Waits`, `Posted`, `LetGo`), or only shortens the line (`Within`, `Shorter`: a close or a reset loses its end). A package is two cells of one
number, so `Rising` compares cells two apart. `Busy` says that the connection the thread works on is open, so what it has in hand is counted (`Counted`).

## 6. The tcp server and its clients

| Module | Code | State |
|---|---|---|
| `TcpServ` | `servers/comm/tcp_serv.go` | `client_list`, `curr_conn`, `key_map`, `close_ch`, `recv_queue`, `snd_queue`, `exit_ch`; `serv` (where tcp_server is); `cl`, a `tcp_client` each with its caches, queue and place in `run`; `batch` (what main has of the last `Recv`); `net`, the sockets |
| `GameClient` | `client/game_cli.go`, `simple_cli.go`, `press.go` | `cli`: key, what was sent and read |
| `ConnNet` | their composition with `conn_serv/lib/clients.go` | `main` |
| `NetPkg` | `lib/net/net_pkg.go` | none: pure functions on bytes |
| `MCConnNet` | the instances | - |
| `ConnNetProofs`, `ConnNetOrderProofs` | the theorems: slots, ends, keys, capacities and packages; order | - |

tcp_server (`TcpServer`), the goroutine of each connection (`Run`) and main meet in bounded channels. Each
stretch up to a channel operation, a read or a write of the socket is one action; a push after a look at the length of a
queue is an action of its own (`DispatchAppend`, `AppendOwn`), since the other goroutine may fill the
queue in between. A package on the stream is two cells, head and data, so that a read, or a write that times out, can end inside it.
What `UnPackPkg` makes of whole packages and of parts of one is what `ConnNetProofs` proves of its bytes (`RoundTrip`, `Prefix`);
cells that are out of step are read as any of the things their bytes may say.
Encryption is which key data was made with (`enc`). Decrypting with another key is not noticed: the unpadding (`encrypt.go:32-36`)
checks nothing, so the outcome is an error when the data is not whole blocks, a panic, or no error and noise, and the model takes any of the three
(`decrypt`, `Decrypted`); noise keeps its `enc`, by which the properties know it. In the server an error closes the connection; a panic is recovered in `read`
(`tcp_serv.go:769-774`), which leaves the connection open and `recv_cache` as it was, so that the next read parses, and hands to main, what was parsed before
the panic once more; noise goes to main. In a client of the repository an error ends the reader and a panic the client.
Main answers a connection, closes it or does neither.

| Run | What it asks | Instance | Result |
|---|---|---|---|
| `tcp` | are slots neither lost nor freed twice; are packages whole and in order in both directions; is an end told once and last; do both ends use one key; does a closing connection give its slot back | 2 connections for 1 slot, queues of one, sockets of 4 cells, 8 scenarios: clients of each make under each encryption, one of another make that sends data of no key, answers larger than the cache, closes by either end, a server that stops | `SlotsMatch`, `InOrder`, `OutOrder`, `CloseLast`, `KeysAgree`, `CloseFrees` hold |

Queues of one make every push meet a full queue, one slot makes two connections contend for it; two packages in a stream are
what a read cut between or inside them needs. Fairness: the goroutines run; clients and answers are not owed.

What the properties except is recorded in `marred`, and each exception is what the code does:
`cut`, a read that ends inside a package behind a whole one leaves the cache at its old length, so
old bytes follow the rest (`KeepRest`, `tcp_serv.go:946`): no more is said of the requests of this connection; `torn`, a write that timed out is repeated from the start
of the cache: no more is said of its answers; `reused`, `Recv` gives
a buffer back to the pool that main has yet to read: what it reads then may be of another client; `panicked`, the recovered panic above: packages of
this connection come again, and no more is said of their order. (With three packages TLC shows one that was delivered delivered again; the run has two,
which is enough for the panic and the state after it.) `KeysAgree` is what bounds the last one: the game clients of the repository
never get there, whatever the order of the handshake and the first requests, unless a stream was torn or cut or a buffer reused. `Wedged` is tcp_server waiting for room in the queue of a
connection that has ended. A halved cache is made with its length and not its capacity, so its zeros are sent (`SendEnd`); a client reads them as noise
(`Junk`), between answers and not inside one, so nothing need be excepted for them. A client of this repository looks at the first package of each read only; what follows it is
lost (`RecvPkg`), which is why `OutOrder` asks for an increasing order and not for all.

`ConnNetProofs` and `ConnNetOrderProofs` prove, for any number of connections and slots, any capacities and any scenarios
(`TcpConstants`, `NullKey`, `ScenariosOK`):

- `Slots`, `[]SlotsMatch`. `Listed`: `client_list` is one to one and `key_map` names its entries. `Stations` ties where a goroutine, its socket and its
  client can be to one another: a goroutine has ended just when its client is not in state normal, and a key that is gone has no goroutine left. `Waiting`: the slots of `close_ch` are those
  of the closing clients, each once. So a close from any side finds its slot and frees it once.
- `Ends`, `[]CloseLast`. `EndsInv`: an end that is told is the last of its connection in `batch` and in `recv_queue`, an end in `batch` leaves none of it in
  `recv_queue`, one that was reported none in either, and one told of belongs to a key that is gone, so its goroutine adds nothing.
- `Capacities`, `[]TypeOK`: no queue holds more than its channel, though two goroutines look for room and push later; `curr_conn` is at most `MaxConn`.
- `Requests`, `[]InOrder`. `InInv` numbers what main has, `batch`, `recv_queue`, what is left of the cache and the stream as one sequence
  without a gap (`InAt`), head and data of a package beside each other; `Offset` is where in the cache the parser may stand.
- `Keys`, `[]KeysAgree`. `KeysInv` (`AlwaysKeys`) says of what is on the wire and in the caches with which key it was made, in both directions (`WireKeys`,
  `ComingKeys`), that the cells to a client are whole packages (`WirePairs`), and which of the few
  states of the handshake each end is in (`ServKeys`, `GameKeys`): a game client encrypts with the key the server has of it, or not yet.
  A key changes once at most, from none, so data made with it stays so (`HeldStays`). `HeldInv` carries this to main. It needs the order: because nothing was cut, the cache of the
  client is its stream (`InAt`), so the package the parser takes is one the client made (`TakenKeyed`), its decryption can neither panic nor give noise (`NextPanics`), and
  main gets data of that key only.
- `Answered`, `[]OutOrder`. `OutInv` is a chain of bounds: what a client has read is below a bound that is below all on its wire and in
  its cache (`WireAt`), this below its queue, the item tcp_server holds and `snd_queue` (`LineAt`), this below the next answer main gives (`Newest`). Steps move one answer past one link.
- `RoundTrip`, `Prefix` and `Predicted` of packages, for every data shorter than 2^32 bytes.

Each is `Typed`, the proofs' own typing, with the invariants before it. The proof of `Answered` corrected the property: it had excepted every
connection with a read cut short, a taken buffer or zeros, and was false of noise between two answers; a scenario of `tcp` now reaches it (a client without encryption that reads half a package).

## 7. Reports and the manager

| Module | Code | State |
|---|---|---|
| `Report` | `comm/report.go`, `report_proto.go`, `signal.go`; `lib/report.go`, `handle_info` and tickers of each server | `proc` (main loop, `Config`'s command and token), `ChSig`, `ChInfo`, `msg_send`, `msg_recv`; `up`, `down`, the datagrams |
| `Manager` | `manage_serv/lib/report.go`, `panel.go`, `base.go`, `config.go` | `WatchMap`, `Name2Id`, `watch_lock`, `cmd_ch`; `req`, the goroutines of the panel |
| `Manage`, `MCManage` | their composition, the instances | - |
| `ManageProofs` | the theorems | - |

Main, the sender and receiver of reports, the monitor and the signal goroutine are the actions of `Report`; a turn of main is `handle_info`,
then one ticker (`proc.at`). The four servers differ in the commands they know and in what they report (`ConnCmd` ...).
UDP is a set of datagrams: what is not taken is lost, and any may be taken late.
`watch_lock` is a `sync.RWMutex` in which a waiting writer keeps readers out. `handle_msg` gives its read lock back at `report.go:256` and goes on
without one, so it is more than one step: `HandleMsg` looks the process up and compares the times, `SetStat` sets what the report says of the server,
`SetCmd` what it says of the command, and a request of the panel may note another command between any two of them.

| Run | What it asks | Instance | Result |
|---|---|---|---|
| `manage` | is a command answered once and is "done" true; do requests end; do stopped servers stop; do old reports hide a running server | queues of one, 3 seconds, 12 scenarios: each kind of server, pairs of commands, signals beside commands, restarts, a reload of the client list, an unknown process | `OneAnswer`, `DoneIsDone`, `PanelReturns`, `StopObeyed`, `RunningShown` hold |

The exceptions again are what the code does. `hist.crossed`: a server keeps one command and one token, so a second
command, or a signal, that comes before main answers takes it, and commands of one second cannot be told apart. `hist.overtaken`: a command was noted
while `handle_msg` was between its comparison and what it sets (`report.go:296-298`), so that it is shown done with the answer of the one before, or loses its time to a
report of a start. `DoneMatches`, which is not checked, is `DoneIsDone` without that exception; it says what the comment at `report.go:295` does, and TLC finds it violated. `odd`: a process
that is not in `WatchMap` was looked up - an unknown sender, or any while `ParseClientList` fills the maps without the lock - and the
function returned, or panicked, with the lock held; from then on the panel and the recver wait for ever. `Jammed`:
main pushes into `ChInfo`, which only main empties.
Fairness: the goroutines run, seconds pass; a datagram need not arrive, only a server that keeps saying when it started is heard in the end.

`ManageProofs` proves, for any scenarios of the types `ScenariosOK` names, any capacities, times, requests and goroutines:

- `Typing`, `[]Typed`: the proofs' own typing, which knows more than `TypeOK` (who may be named in which message).
- `Truth`, `[]DoneIsDone`, with the steps of `handle_msg` apart: what it still has to set belongs to a command that is noted, or was overtaken. The inductive invariant `DoneInv` follows a command from the form to the panel while
  commands do not cross. Each command that is under way under a second (`Live`: ordered, sent, queued, in the slot, or shown
  as waiting) is the only one of that second and noted for it (`Covered`), seconds are noted when they have come
  (`NotesInTime`), and each "done" on its way back names what the server did (`AnswersTrue`).
- `Answers`, `[]OneAnswer`: `AnswersOwed` counts the copies of a command in `cmd_ch`, among the datagrams, in `msg_recv`
  and in the slot; with the answers given they are never more than what was asked. A datagram that is lost only lowers the count.

## 8. Heartbeats, tickers and registration

| Module | Code | State |
|---|---|---|
| `Ticker` | `comm/ticker.go` | none: `AddTicker`, `Tick` on a pool |
| `Select` | `comm/config.go` `SelectProperServ`, `db_serv/lib/redis.go` `SelectRedisClient` | none: the sets of possible choices |
| `Hearts` | `*/lib/hearbeat.go`, `*/lib/base.go`, `logic_serv/lib/login.go` (kick), `disp_serv/lib/disp.go` | `now`, `pool`, `stats` (`PeerStats`), `chan`, which servers run |
| `Reg` | `db_serv/lib/reg.go`, the relay in conn_serv and logic_serv, `InitRedisDb`, `HeartBeatToRedis` | `cmds` (redis commands under way), `names`, `users`, `counter`, `conns`, `unheard` |
| `Servers`, `MCServers` | their composition, the instances | - |
| `ServersProofs` | the theorems | - |

They share main loops, channels and the clock, so they are one composition: a pass of a loop empties its channels, then calls `Tick`
(`handle_tick`). A second does not end before each running server has passed, as loops pass many times a second. Channels are shared memory and
outlive their processes. A redis command is a goroutine that is executed, fails before or after redis executed it, or is dropped
without a callback (`Exec`, `ExecFails`, `ReplyLost`, `Dropped`); its callback is a step of its own.

| Run | What it asks | Instance | Result |
|---|---|---|---|
| `servers` | is a user ever written over; is who is told SUCCESS complete; what strands a name; is a request answered; is a kick given to a dead disp_serv; is a ticker overtaken | 2 requests for one name or for two, 2 redis clients, up to 2 failures, db_serv, logic_serv or a disp_serv stopping; 2 disp_servs, one kick; rings of two messages, 3 to 5 seconds of 8 | `OnTime`, `SuccessIsComplete`, `NoNameStranded`, `DeadShunned`, `NeverOverwritten`, `Answered` hold |

Two requests are what a name or a uid can be shared by; two failures fall between any two of the four commands; the life of a heartbeat is two
seconds, so that within the bound one is sent, expires and arrives late. Fairness: loops run, redis executes, callbacks run.
`Harmed`, `Stopped` and `early` name what the properties except: a failed command after HSETNX leaves the name to nobody, and so does a uid drawn before
`InitRedisDb` set the first, since it is refused as illegal. A client that is nil ends db_serv in the heartbeat to redis (`HeartBeatPanics`).
`NewRedisClient` dials in a goroutine (`redis.go:139`), so db_serv starts, and starts again, with no client connected, and a dial may take
any time (`Unconnected`, `Connect`). A registration it takes before finds no client and is answered nothing, though nothing failed (`reg.go:21`): these are in
`unheard`, and `Answered` is about the others. It says that once redis was asked, an answer comes.

`ServersProofs` proves for any servers, requests, names, redis clients, failures and times:

- `Clocks`: `[]OnTime`. The least period of a pool is never past: `Sound` says of a pool what `AddTicker` and `Tick`
  keep, and that a period has a least element is a well-founded induction on the numbers.
- `KicksShunTheDead`: `DeadShunned`. `NotAhead` says that no heartbeat of a server that stopped, in a channel or in
  `PeerStats`, is younger than its stop; so after the life of a heartbeat `SelectProperServ` no longer returns it.
- `Registration`: `[]SuccessIsComplete`. `RegSound` ties each command under way to what redis holds: a name belongs to
  the request whose HSETNX was first (`Owner`), a uid that was drawn belongs to one request, whether it is still in a reply, in a
  command, or written (`Uids`), and a command that writes writes for its owner (`Written`). `Told` is where an
  answer may be on its way: it is SUCCESS only when both writes were executed.
- `NoOverwriting`: `NeverOverwritten`, from the same invariant.
- `NothingStranded`: `[]NoNameStranded`. As long as nothing failed, a name that is taken has a command or a reply under way
  that brings it on (`Goes`) or is complete (`Settled`).

What a step puts into the channels (`Delivers`) is one lemma for all of them, since every server relays. `Answered`, a
liveness property, is only model-checked.

## 9. Plan

1. Done: sessions end to end, with their theorems.
2. Done: the ring of proc_bridge and the FIFO it implements, with the refinement proved.
3. Done: the redis pool, with the refinement and the count proved.
4. Done: the sending half of the carrier, with its safety proved.
5. Done: the tcp server with its clients; the package format, with its theorems.
6. Done: reports and the manager.
7. Done: tickers, heartbeats, server selection and registration.
8. Done: the receiving half of the carrier, composed with the sending one, its order and its count proved.
9. Done: the theorems of the manager.
10. Done: the theorems of the tcp server.
11. Done: theorems on the sessions with `Separate` (`OneHome`, `OwnSave`).
12. Done: the theorem on the pool under resets (`CountCovers`), which holds while none lowers `max_count`.

## 10. Proved and only model-checked

Proved for all values of the constants: of the sessions `TypeOK`, `BindingIsAuthentic`, `OneClientPerUser`, `LoginExclusive`, `NoSteal`,
`OnlineCount`, `OneHome` and `OwnSave`; of the ring `TypeOK` and `ImplementsFifo`; of the pool `TypeOK`, `ImplementsLending`, `CountExact` and `CountCovers`; of the carrier
`NeverFull`, `BlockedHasData`, `Listed`, `NotFilled`, `InTurn` and `Accounted`; of packages `RoundTrip`, `Prefix` and `Predicted`; of servers `OnTime`,
`DeadShunned`, `SuccessIsComplete`, `NeverOverwritten` and `NoNameStranded`; of the tcp server `TypeOK`, `SlotsMatch`, `CloseLast`, `KeysAgree`, `InOrder` and `OutOrder`; of the manager `DoneIsDone` and `OneAnswer`.
Each from the assumptions its module names (`...OK`) and those its section above states with it, and no other.

Liveness is out of reach of the prover and is only model-checked: `KickedThenLetIn`, `Progress`, `Served`, `KeepsNormal`, `Lifted`,
`CloseFrees`, `PanelReturns`, `StopObeyed`, `RunningShown`, `Answered`.

## 11. Not modelled

- The bridge manager and the packages the carrier makes for it: an operator's view on figures.
- Crash of conn_serv and disp_serv in the sessions (they keep nothing another part relies on
  except the maps of conn_serv, which die with its connections), reload of the
  configurations in them, several disp_serv for one user (the hash sends a user's kicks to one).
- Relays nothing uses: `DispToLogicServ` has no sender, pings are sent back by the first server they reach; broadcast in the tcp server, whose
  info nothing dispatches; `SetMaxConn`, whose value nothing reads.
- `lib/proc` (daemon, lock file), tables, logs, templates and cookies of the panel, table conversion and deployment: system calls, formats and output without a protocol.
- The bytes of encryption; the generated messages; the asynchronous functions at the end of `user_login.go`, which nothing calls.
- Hazards the models reproduce and every property excludes by name, so that nothing here would catch them: they are those in `PROJECT.json` without a
  property, each with what excludes it.
- Three more of modelled code that no property states. `count++` and `count--` of a ring race (`proc_bridge.c:598`) and the
  figure drifts; nothing reads it but the manager. Commands are refused when half of `block_queue` is taken
  (`redis.go:169`), and tokens that panics leave there are never taken back. A reload of the carrier frees a target it
  deletes while it may still be on the sending list (`bridge_carrier.c:2714`), which is undefined from then on.
