------------------------------- MODULE Ticker -------------------------------
(***************************************************************************)
(* servers/comm/ticker.go: the tickers of a server's main loop.  A pool    *)
(* keeps, beside the tickers, the earliest time one of them expires, and   *)
(* Tick looks at none before that time.  The list of the code is a set     *)
(* here: the callbacks of one pass are independent of each other.          *)
(***************************************************************************)
EXTENDS Integers, FiniteSetsExt

CONSTANT MaxExpire      \* MAX_EXPIRE_MS

NewTickPool == [tickers |-> {}, latest |-> MaxExpire]

\* The earliest of these tickers, MaxExpire if there is none before that.
Earliest(tickers) == Min({t.expire : t \in tickers} \cup {MaxExpire})

\* Callbacks are named; a ticker with start 0 starts from now.
AddTicker(p, now, name, ctype, start, period) ==
  IF ctype \notin {"SINGLE", "CIRCLE"} \/ period < 0 THEN p
  ELSE LET t == [name |-> name, ctype |-> ctype, period |-> period,
                 expire |-> IF start <= 0 THEN now + period ELSE start]
       IN  [tickers |-> p.tickers \cup {t}, latest |-> Min({p.latest, t.expire})]

\* The tickers whose callback Tick calls.
Fired(p, now) == {t \in p.tickers : p.latest <= now /\ t.expire <= now}

TickUncounted(p, now) ==
  LET kept == p.tickers \ Fired(p, now)
      again == {[t EXCEPT !.expire = now + t.period] :
                  t \in {u \in Fired(p, now) : u.ctype = "CIRCLE"}}
  IN  IF p.tickers = {} \/ now < p.latest THEN p
      ELSE [tickers |-> kept \cup again, latest |-> Earliest(kept)]

\* What Tick leaves: a single shot is removed, a circle starts from now.
Tick(p, now) ==
  LET again == {[t EXCEPT !.expire = now + t.period] :
                  t \in {u \in Fired(p, now) : u.ctype = "CIRCLE"}}
      tickers == (p.tickers \ Fired(p, now)) \cup again
  IN  IF p.tickers = {} \/ now < p.latest THEN p
      ELSE [tickers |-> tickers, latest |-> Earliest(tickers)]
=============================================================================
